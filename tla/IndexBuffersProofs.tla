-------------------------- MODULE IndexBuffersProofs --------------------------
(***************************************************************************)
(* Proofs about index buffers, for any number of handles, sizes and calls.  *)
(*                                                                         *)
(* A call works on a record, the State, so the invariant is about records.  *)
(* Whole says that the blocks of the allocator fill its pages (Filled) and  *)
(* are held by one dynamic buffer each (Held), that every index buffer has  *)
(* one owner (Owned), and that the commands of the frame find what they     *)
(* need (Prepared), given the index buffers the renderer starts it with.    *)
(* Data follows the writes of the frame: the last write of a byte that a    *)
(* dynamic buffer may draw is its own, because blocks of two buffers have   *)
(* no byte in common.                                                       *)
(*                                                                         *)
(* The parts are: blocks and the bytes they cover; alloc, free, add; sort   *)
(* and compact, a fold that joins neighbours; pages; owners; commands; then *)
(* allocDynamicIndexBuffer and destroyDynamicIndexBufferInternal on whole   *)
(* records; the fold of frame over the buffers to destroy; data; and one    *)
(* lemma per call of the application.  Two hypotheses are about the         *)
(* application, UsedWell and, for what is drawn, ~GrowDrawn: without them   *)
(* the code leaks, truncates or draws what is not the buffer's.             *)
(***************************************************************************)
EXTENDS IndexBuffers, FoldProofs, FiniteSetTheorems, SequenceTheorems

-----------------------------------------------------------------------------
(* Blocks, and the bytes they cover.                                        *)

BlocksOf(a) == a.used \union ToSet(a.free)

Within(b, p, x) == b.buffer = p /\ b.offset <= x /\ x < End(b)

Covered(S, p, x) == \E b \in S : Within(b, p, x)

SameBytes(S, T) == \A p, x \in Nat : Covered(S, p, x) <=> Covered(T, p, x)

\* Blocks of at least one byte, no two of which have one in common.
AllApart(S) ==
    /\ S \subseteq Block
    /\ \A b \in S : b.size > 0
    /\ \A b, c \in S : b = c \/ Disjoint(b, c)

\* What alloc, free, compact and add keep.
Tidy(a) ==
    /\ a \in [free : Seq(Block), used : SUBSET Block]
    /\ IsInjective(a.free) /\ a.used \intersect ToSet(a.free) = {}
    /\ AllApart(BlocksOf(a))

\* A set of numbers that is not empty has a least element.
LEMMA LeastIn ==
    ASSUME NEW S \in SUBSET Nat, S # {}
    PROVE  \E k \in S : \A l \in S : k <= l
<1> DEFINE Below == {ss \in Nat \X Nat : ss[1] < ss[2]}
<1>1. IsWellFoundedOn(Below, Nat) BY NatLessThanWellFounded, Zenon DEF OpToRel
<1>2. PICK k \in S : \A l \in S : ~(<<l, k>> \in Below)
  <2>1. S \subseteq Nat /\ S # {} OBVIOUS
  <2> HIDE DEF Below
  <2> QED BY <1>1, <2>1, WFMin
<1>3. \A l \in S : ~(l < k)
  <2>1. S \subseteq Nat /\ k \in Nat OBVIOUS
  <2> QED BY <1>2, <2>1
<1>4. \A l \in S : k <= l
  <2>1. S \subseteq Nat /\ k \in Nat OBVIOUS
  <2> QED BY <1>3, <2>1
<1> QED BY <1>4

\* The elements of a sequence.
LEMMA ElementsAre ==
    ASSUME NEW T, NEW q \in Seq(T)
    PROVE  /\ Len(q) \in Nat /\ DOMAIN q = 1 .. Len(q)
           /\ \A i \in 1 .. Len(q) : q[i] \in T /\ q[i] \in ToSet(q)
           /\ \A e \in ToSet(q) : \E i \in 1 .. Len(q) : q[i] = e
           /\ ToSet(q) \subseteq T
  BY LenProperties DEF ToSet

\* One more element at the end.
LEMMA AppendElements ==
    ASSUME NEW T, NEW q \in Seq(T), NEW e \in T
    PROVE  ToSet(Append(q, e)) = ToSet(q) \union {e}
<1> DEFINE v == Append(q, e)
           n == Len(q)
<1>1. /\ v \in Seq(T) /\ Len(v) = n + 1 /\ \A i \in 1 .. n : v[i] = q[i]
      /\ v[n + 1] = e
  BY AppendProperties
<1> HIDE DEF v
<1>2. n \in Nat /\ DOMAIN q = 1 .. n /\ DOMAIN v = 1 .. n + 1 BY <1>1, LenProperties
<1>3. \A i \in 1 .. n + 1 : i \in 1 .. n \/ i = n + 1 BY <1>2
<1>4. \A i \in 1 .. n : i \in 1 .. n + 1 BY <1>2
<1>5. n + 1 \in 1 .. n + 1 BY <1>2
<1>6. \A x : x \in ToSet(v) <=> \E i \in 1 .. n + 1 : v[i] = x BY <1>2 DEF ToSet
<1>7. \A x : x \in ToSet(q) <=> \E i \in 1 .. n : q[i] = x BY <1>2 DEF ToSet
<1> HIDE DEF n
<1>8. \A x : x \in ToSet(v) <=> x \in ToSet(q) \/ x = e BY <1>1, <1>3, <1>4, <1>5, <1>6, <1>7
<1> QED BY <1>8 DEF v

\* One sequence after the other.
LEMMA ConcatElements ==
    ASSUME NEW T, NEW q \in Seq(T), NEW r \in Seq(T)
    PROVE  ToSet(q \o r) = ToSet(q) \union ToSet(r)
<1> DEFINE v == q \o r
           n == Len(q)
           m == Len(r)
<1>1. /\ v \in Seq(T) /\ Len(v) = n + m
      /\ \A i \in 1 .. n + m : v[i] = IF i <= n THEN q[i] ELSE r[i - n]
  BY ConcatProperties
<1> HIDE DEF v
<1>2. /\ n \in Nat /\ DOMAIN q = 1 .. n /\ DOMAIN v = 1 .. n + m
      /\ m \in Nat /\ DOMAIN r = 1 .. m
  BY <1>1, LenProperties
<1>3. \A x : x \in ToSet(v) <=> \E i \in 1 .. n + m : v[i] = x BY <1>2 DEF ToSet
<1>4. \A x : x \in ToSet(q) <=> \E i \in 1 .. n : q[i] = x BY <1>2 DEF ToSet
<1>5. \A x : x \in ToSet(r) <=> \E i \in 1 .. m : r[i] = x BY <1>2 DEF ToSet
<1> HIDE DEF n, m
<1>6. ASSUME NEW x, x \in ToSet(v) PROVE x \in ToSet(q) \union ToSet(r)
  <2>1. PICK i \in 1 .. n + m : v[i] = x BY <1>3, <1>6
  <2>2. CASE i <= n
    <3>1. i \in 1 .. n /\ q[i] = x BY <1>1, <1>2, <2>1, <2>2
    <3> QED BY <1>4, <3>1
  <2>3. CASE ~(i <= n)
    <3>1. i - n \in 1 .. m /\ r[i - n] = x BY <1>1, <1>2, <2>1, <2>3
    <3> QED BY <1>5, <3>1
  <2> QED BY <2>2, <2>3
<1>7. ASSUME NEW x, x \in ToSet(q) PROVE x \in ToSet(v)
  <2>1. PICK i \in 1 .. n : q[i] = x BY <1>4, <1>7
  <2>2. i \in 1 .. n + m /\ i <= n BY <1>2, <2>1
  <2> QED BY <1>1, <1>3, <2>1, <2>2
<1>8. ASSUME NEW x, x \in ToSet(r) PROVE x \in ToSet(v)
  <2>1. PICK i \in 1 .. m : r[i] = x BY <1>5, <1>8
  <2>2. n + i \in 1 .. n + m /\ ~(n + i <= n) /\ (n + i) - n = i BY <1>2, <2>1
  <2> QED BY <1>1, <1>3, <2>1, <2>2
<1> QED BY <1>6, <1>7, <1>8 DEF v

-----------------------------------------------------------------------------
(* Two blocks are disjoint if no byte is within both.                       *)

\* The fields of a block.
LEMMA BlockIs ==
    ASSUME NEW b \in Block
    PROVE  /\ b.buffer \in Nat /\ b.offset \in Nat /\ b.size \in Nat
           /\ End(b) = b.offset + b.size /\ End(b) \in Nat
           /\ b = [buffer |-> b.buffer, offset |-> b.offset, size |-> b.size]
  BY DEF Block, End

\* A block is its fields.
LEMMA SameBlock ==
    ASSUME NEW b \in Block, NEW c \in Block, b.buffer = c.buffer, b.offset = c.offset,
           b.size = c.size
    PROVE  b = c
  BY DEF Block

\* Blocks without a common byte are disjoint.
LEMMA NoByteInBoth ==
    ASSUME NEW b \in Block, NEW c \in Block,
           \A p, x \in Nat : ~(Within(b, p, x) /\ Within(c, p, x))
    PROVE  b.size > 0 /\ c.size > 0 => Disjoint(b, c)
<1>1. /\ b.buffer \in Nat /\ b.offset \in Nat /\ b.size \in Nat
      /\ c.buffer \in Nat /\ c.offset \in Nat /\ c.size \in Nat
      /\ End(b) = b.offset + b.size /\ End(c) = c.offset + c.size
  BY BlockIs
<1>2. ~(Within(b, b.buffer, b.offset) /\ Within(c, b.buffer, b.offset)) BY <1>1
<1>3. ~(Within(b, b.buffer, c.offset) /\ Within(c, b.buffer, c.offset)) BY <1>1
<1> QED BY <1>1, <1>2, <1>3 DEF Within, Disjoint

\* Disjoint blocks have no common byte.
LEMMA ByteInBoth ==
    ASSUME NEW b \in Block, NEW c \in Block, NEW p, NEW x \in Nat, Within(b, p, x), Within(c, p, x)
    PROVE  ~Disjoint(b, c)
<1>1. /\ b.buffer \in Nat /\ b.offset \in Nat /\ b.size \in Nat
      /\ c.buffer \in Nat /\ c.offset \in Nat /\ c.size \in Nat
      /\ End(b) = b.offset + b.size /\ End(c) = c.offset + c.size
  BY BlockIs
<1> QED BY <1>1 DEF Within, Disjoint

\* A byte is within at most one of the blocks.
LEMMA OneBlockPerByte ==
    ASSUME NEW S, AllApart(S), NEW b \in S, NEW c \in S, NEW p, NEW x \in Nat,
           Within(b, p, x), Within(c, p, x)
    PROVE  b = c
<1>1. b \in Block /\ c \in Block BY DEF AllApart
<1>2. ~Disjoint(b, c) BY <1>1, ByteInBoth
<1> QED BY <1>2 DEF AllApart

\* The first and the last byte of a block.
LEMMA EndsWithin ==
    ASSUME NEW b \in Block, b.size > 0
    PROVE  /\ Within(b, b.buffer, b.offset)
           /\ End(b) - 1 \in Nat /\ Within(b, b.buffer, End(b) - 1)
  BY DEF Block, End, Within

\* Two blocks that begin at one place are one.
LEMMA OneBlockPerPlace ==
    ASSUME NEW S, AllApart(S), NEW b \in S, NEW c \in S, b.buffer = c.buffer, b.offset = c.offset
    PROVE  b = c
<1>1. b \in Block /\ c \in Block /\ b.size > 0 /\ c.size > 0 BY DEF AllApart
<1>2. Within(b, b.buffer, b.offset) /\ Within(c, c.buffer, c.offset) BY <1>1, EndsWithin
<1>3. b.offset \in Nat BY <1>1, BlockIs
<1> QED BY <1>2, <1>3, OneBlockPerByte

\* A block cut in two.
LEMMA CutInTwo ==
    ASSUME NEW S, AllApart(S), NEW c \in S, NEW t \in Block, NEW r \in Block,
           t.buffer = c.buffer, t.offset = c.offset, t.size > 0,
           r.buffer = c.buffer, r.offset = c.offset + t.size, r.size > 0,
           t.size + r.size = c.size
    PROVE  LET U == (S \ {c}) \union {t, r}
           IN  /\ AllApart(U) /\ SameBytes(S, U)
               /\ t \notin S /\ r \notin S /\ t # r
<1>1. c \in Block /\ c.size > 0 BY DEF AllApart
<1>2. /\ c.buffer \in Nat /\ c.offset \in Nat /\ c.size \in Nat /\ t.size \in Nat /\ r.size \in Nat
      /\ End(c) = c.offset + c.size /\ End(t) = c.offset + t.size /\ End(r) = c.offset + c.size
  BY <1>1, BlockIs
<1>3. \A p, x \in Nat : Within(c, p, x) <=> Within(t, p, x) \/ Within(r, p, x)
  BY <1>2 DEF Within
<1>4. Disjoint(t, r) /\ Disjoint(r, t) BY <1>2 DEF Disjoint
<1>5. ASSUME NEW b \in S \ {c}
      PROVE  Disjoint(b, t) /\ Disjoint(b, r) /\ Disjoint(t, b) /\ Disjoint(r, b)
  <2>1. b \in Block /\ b.size > 0 /\ Disjoint(b, c) BY DEF AllApart
  <2>2. b.offset \in Nat /\ b.size \in Nat /\ End(b) = b.offset + b.size BY <2>1, BlockIs
  <2> QED BY <1>2, <2>1, <2>2 DEF Disjoint
<1>6. t # r /\ t # c /\ r # c BY <1>2
<1>7. t \notin S
  <2>1. SUFFICES ASSUME t \in S PROVE FALSE OBVIOUS
  <2>2. Disjoint(t, t) BY <1>5, <1>6, <2>1
  <2> QED BY <1>2, <2>2 DEF Disjoint
<1>8. r \notin S
  <2>1. SUFFICES ASSUME r \in S PROVE FALSE OBVIOUS
  <2>2. Disjoint(r, r) BY <1>5, <1>6, <2>1
  <2> QED BY <1>2, <2>2 DEF Disjoint
<1> DEFINE U == (S \ {c}) \union {t, r}
<1>9. AllApart(U)
  <2>1. U \subseteq Block /\ \A b \in U : b.size > 0 BY DEF AllApart
  <2>2. ASSUME NEW b \in U, NEW d \in U PROVE b = d \/ Disjoint(b, d)
    <3>1. CASE b \in S \ {c} /\ d \in S \ {c} BY <3>1 DEF AllApart
    <3>2. CASE b \in {t, r} /\ d \in {t, r} BY <1>4, <3>2
    <3>3. CASE b \in S \ {c} /\ d \in {t, r} BY <1>5, <3>3
    <3>4. CASE b \in {t, r} /\ d \in S \ {c} BY <1>5, <3>4
    <3> QED BY <3>1, <3>2, <3>3, <3>4
  <2> QED BY <2>1, <2>2 DEF AllApart
<1>10. SameBytes(S, U) BY <1>3 DEF SameBytes, Covered
<1> QED BY <1>6, <1>7, <1>8, <1>9, <1>10

-----------------------------------------------------------------------------
(* Sequences without repetition.                                            *)

\* A function on 1 .. n is a sequence.
LEMMA SeqOfFunction ==
    ASSUME NEW S, NEW n \in Nat, NEW q \in [1 .. n -> S]
    PROVE  q \in Seq(S) /\ Len(q) = n
<1>1. q = [i \in 1 .. n |-> q[i]] OBVIOUS
<1>2. \A i \in 1 .. n : q[i] \in S OBVIOUS
<1>3. q \in Seq(S) BY <1>2, SeqDef, Zenon
<1>4. Len(q) = n BY <1>3, LenProperties
<1> QED BY <1>3, <1>4

\* As many places as elements, none twice: all are there.
LEMMA InjectiveIsOnto ==
    ASSUME NEW S, IsFiniteSet(S), NEW q \in [1 .. Cardinality(S) -> S], IsInjective(q)
    PROVE  ToSet(q) = S
<1> DEFINE n == Cardinality(S)
<1>1. n \in Nat BY FS_CardinalityType
<1>2. IsFiniteSet(1 .. n) /\ Cardinality(1 .. n) = n BY <1>1, FS_Interval
<1>3. q \in [1 .. n -> S] /\ DOMAIN q = 1 .. n OBVIOUS
<1> HIDE DEF n
<1>4. q \in Injection(1 .. n, S) BY <1>3, Zenon DEF Injection, IsInjective
<1>5. Cardinality(1 .. n) = Cardinality(S) BY <1>2 DEF n
<1>6. q \in Surjection(1 .. n, S) BY <1>4, <1>5, FS_Injection
<1>7. \A e \in S : \E i \in 1 .. n : q[i] = e BY <1>6 DEF Surjection
<1> QED BY <1>3, <1>7 DEF ToSet

\* A finite set as a sequence that has each element once.
LEMMA SetToSeqIs ==
    ASSUME NEW S, IsFiniteSet(S)
    PROVE  SetToSeq(S) \in Seq(S) /\ IsInjective(SetToSeq(S)) /\ ToSet(SetToSeq(S)) = S
<1> DEFINE n == Cardinality(S)
<1>1. n \in Nat /\ ExistsBijection(1 .. n, S) BY FS_CardinalityType
<1>2. PICK f : f \in Bijection(1 .. n, S) BY <1>1 DEF ExistsBijection
<1>3. f \in [1 .. n -> S] /\ IsInjective(f) BY <1>2 DEF Bijection, Injection, IsInjective
<1> DEFINE q == SetToSeq(S)
<1>4. q \in [1 .. n -> S] /\ IsInjective(q) BY <1>3, Zenon DEF SetToSeq
<1> HIDE DEF q
<1>5. ToSet(q) = S BY <1>4, InjectiveIsOnto
<1>6. q \in Seq(S) BY <1>1, <1>4, SeqOfFunction
<1> QED BY <1>4, <1>5, <1>6 DEF q

\* Two sequences without repetition and without a common element.
LEMMA ConcatInjective ==
    ASSUME NEW T, NEW q \in Seq(T), NEW r \in Seq(T), IsInjective(q), IsInjective(r),
           ToSet(q) \intersect ToSet(r) = {}
    PROVE  IsInjective(q \o r)
<1> DEFINE v == q \o r
           n == Len(q)
           m == Len(r)
<1>1. /\ v \in Seq(T) /\ Len(v) = n + m
      /\ \A i \in 1 .. n + m : v[i] = IF i <= n THEN q[i] ELSE r[i - n]
  BY ConcatProperties
<1> HIDE DEF v
<1>2. /\ n \in Nat /\ DOMAIN q = 1 .. n /\ DOMAIN v = 1 .. n + m
      /\ m \in Nat /\ DOMAIN r = 1 .. m
  BY <1>1, LenProperties
<1>3. \A i \in 1 .. n : q[i] \in ToSet(q) BY <1>2 DEF ToSet
<1>4. \A i \in 1 .. m : r[i] \in ToSet(r) BY <1>2 DEF ToSet
<1>5. \A i, j \in 1 .. n : q[i] = q[j] => i = j BY <1>2 DEF IsInjective
<1>6. \A i, j \in 1 .. m : r[i] = r[j] => i = j BY <1>2 DEF IsInjective
<1> HIDE DEF n, m
<1>7. ASSUME NEW i \in 1 .. n + m, NEW j \in 1 .. n + m, v[i] = v[j] PROVE i = j
  <2>1. CASE i <= n /\ j <= n
    <3>1. i \in 1 .. n /\ j \in 1 .. n /\ q[i] = q[j] BY <1>1, <1>2, <1>7, <2>1
    <3> QED BY <1>5, <3>1
  <2>2. CASE ~(i <= n) /\ ~(j <= n)
    <3>1. i - n \in 1 .. m /\ j - n \in 1 .. m /\ r[i - n] = r[j - n] BY <1>1, <1>2, <1>7, <2>2
    <3>2. i - n = j - n BY <1>6, <3>1
    <3> QED BY <1>2, <3>2
  <2>3. CASE i <= n /\ ~(j <= n)
    <3>1. i \in 1 .. n /\ j - n \in 1 .. m /\ q[i] = r[j - n] BY <1>1, <1>2, <1>7, <2>3
    <3> QED BY <1>3, <1>4, <3>1
  <2>4. CASE ~(i <= n) /\ j <= n
    <3>1. j \in 1 .. n /\ i - n \in 1 .. m /\ q[j] = r[i - n] BY <1>1, <1>2, <1>7, <2>4
    <3> QED BY <1>3, <1>4, <3>1
  <2> QED BY <2>1, <2>2, <2>3, <2>4
<1> QED BY <1>2, <1>7, Zenon DEF IsInjective, v

\* A new element at the end.
LEMMA AppendInjectively ==
    ASSUME NEW T, NEW q \in Seq(T), NEW e \in T, IsInjective(q), e \notin ToSet(q)
    PROVE  IsInjective(Append(q, e))
<1> DEFINE v == Append(q, e)
           n == Len(q)
<1>1. /\ v \in Seq(T) /\ Len(v) = n + 1 /\ \A i \in 1 .. n : v[i] = q[i]
      /\ v[n + 1] = e
  BY AppendProperties
<1> HIDE DEF v
<1>2. n \in Nat /\ DOMAIN q = 1 .. n /\ DOMAIN v = 1 .. n + 1 BY <1>1, LenProperties
<1>3. \A i \in 1 .. n : q[i] # e BY <1>2 DEF ToSet
<1>4. \A i, j \in 1 .. n : q[i] = q[j] => i = j BY <1>2 DEF IsInjective
<1> HIDE DEF n
<1>5. ASSUME NEW i \in 1 .. n + 1, NEW j \in 1 .. n + 1, v[i] = v[j] PROVE i = j
  BY <1>1, <1>2, <1>3, <1>4, <1>5
<1> QED BY <1>2, <1>5, Zenon DEF IsInjective, v

\* A new element in the place of another.
LEMMA ReplacedElements ==
    ASSUME NEW T, NEW q \in Seq(T), NEW i \in 1 .. Len(q), NEW e \in T, IsInjective(q),
           e \notin ToSet(q)
    PROVE  LET v == ReplaceAt(q, i, e)
           IN  /\ v \in Seq(T) /\ IsInjective(v)
               /\ ToSet(v) = (ToSet(q) \ {q[i]}) \union {e}
<1> DEFINE v == ReplaceAt(q, i, e)
           n == Len(q)
<1>1. v \in Seq(T) /\ Len(v) = n /\ \A j \in 1 .. n : v[j] = IF j = i THEN e ELSE q[j]
  BY ExceptSeq DEF ReplaceAt
<1> HIDE DEF v
<1>2. n \in Nat /\ DOMAIN q = 1 .. n /\ DOMAIN v = 1 .. n BY <1>1, LenProperties
<1>3. \A j \in 1 .. n : q[j] # e BY <1>2 DEF ToSet
<1>4. \A j, k \in 1 .. n : q[j] = q[k] => j = k BY <1>2 DEF IsInjective
<1>5. i \in 1 .. n OBVIOUS
<1>6. \A x : x \in ToSet(v) <=> \E j \in 1 .. n : v[j] = x BY <1>2 DEF ToSet
<1>7. \A x : x \in ToSet(q) <=> \E j \in 1 .. n : q[j] = x BY <1>2 DEF ToSet
<1> HIDE DEF n
<1>8. \A j, k \in 1 .. n : v[j] = v[k] => j = k BY <1>1, <1>3, <1>4
<1>9. IsInjective(v) BY <1>2, <1>8, Zenon DEF IsInjective
<1>10. \A x : x \in ToSet(v) <=> (x \in ToSet(q) /\ x # q[i]) \/ x = e
  <2>1. ASSUME NEW x, x \in ToSet(v) PROVE (x \in ToSet(q) /\ x # q[i]) \/ x = e
    BY <1>1, <1>4, <1>5, <1>6, <1>7, <2>1
  <2>2. ASSUME NEW x, x \in ToSet(q), x # q[i] PROVE x \in ToSet(v)
    BY <1>1, <1>6, <1>7, <2>2
  <2>3. e \in ToSet(v) BY <1>1, <1>5, <1>6
  <2> QED BY <2>1, <2>2, <2>3
<1>11. ToSet(v) = (ToSet(q) \ {q[i]}) \union {e} BY <1>10
<1> QED BY <1>1, <1>9, <1>11 DEF v

\* One element less.
LEMMA RemovedElements ==
    ASSUME NEW T, NEW q \in Seq(T), NEW i \in 1 .. Len(q), IsInjective(q)
    PROVE  LET v == RemoveAt(q, i)
           IN  v \in Seq(T) /\ IsInjective(v) /\ ToSet(v) = ToSet(q) \ {q[i]}
<1> DEFINE n == Len(q)
           l == SubSeq(q, 1, i - 1)
           r == SubSeq(q, i + 1, n)
<1>1. n \in Nat /\ DOMAIN q = 1 .. n /\ i \in 1 .. n /\ \A j \in 1 .. n : q[j] \in T BY LenProperties
<1> HIDE DEF n
<1>2. l \in Seq(T) /\ Len(l) = i - 1 /\ \A j \in 1 .. i - 1 : l[j] = q[j]
  <2>1. \A j \in 1 .. i - 1 : q[j] \in T BY <1>1
  <2>2. 1 \in Int /\ i - 1 \in Int /\ (i - 1) - 1 + 1 = i - 1 BY <1>1
  <2>3. /\ l \in Seq(T) /\ Len(l) = IF 1 <= i - 1 THEN (i - 1) - 1 + 1 ELSE 0
        /\ \A j \in 1 .. (i - 1) - 1 + 1 : l[j] = q[1 + j - 1]
    BY <2>1, <2>2, SubSeqProperties
  <2>4. \A j \in 1 .. i - 1 : 1 + j - 1 = j OBVIOUS
  <2> QED BY <1>1, <2>2, <2>3, <2>4
<1>3. r \in Seq(T) /\ Len(r) = n - i /\ \A j \in 1 .. n - i : r[j] = q[i + j]
  <2>1. \A j \in i + 1 .. n : q[j] \in T BY <1>1
  <2>2. i + 1 \in Int /\ n \in Int /\ n - (i + 1) + 1 = n - i BY <1>1
  <2>3. /\ r \in Seq(T) /\ Len(r) = IF i + 1 <= n THEN n - (i + 1) + 1 ELSE 0
        /\ \A j \in 1 .. n - (i + 1) + 1 : r[j] = q[(i + 1) + j - 1]
    BY <2>1, <2>2, SubSeqProperties
  <2>4. \A j \in 1 .. n - i : (i + 1) + j - 1 = i + j BY <1>1
  <2> QED BY <1>1, <2>2, <2>3, <2>4
<1> HIDE DEF l, r
<1>4. DOMAIN l = 1 .. i - 1 /\ DOMAIN r = 1 .. n - i BY <1>2, <1>3, LenProperties
<1>5. \A x : x \in ToSet(q) <=> \E j \in 1 .. n : q[j] = x BY <1>1 DEF ToSet
<1>6. \A x : x \in ToSet(l) <=> \E j \in 1 .. i - 1 : l[j] = x BY <1>4 DEF ToSet
<1>7. \A x : x \in ToSet(r) <=> \E j \in 1 .. n - i : r[j] = x BY <1>4 DEF ToSet
<1>8. \A j, k \in 1 .. n : q[j] = q[k] => j = k BY <1>1 DEF IsInjective
<1>9. IsInjective(l)
  <2>1. \A j, k \in 1 .. i - 1 : l[j] = l[k] => j = k BY <1>1, <1>2, <1>8
  <2> QED BY <1>4, <2>1, Zenon DEF IsInjective
<1>10. IsInjective(r)
  <2>1. ASSUME NEW j \in 1 .. n - i, NEW k \in 1 .. n - i, r[j] = r[k] PROVE j = k
    <3>1. i + j \in 1 .. n /\ i + k \in 1 .. n /\ q[i + j] = q[i + k] BY <1>1, <1>3, <2>1
    <3>2. i + j = i + k BY <1>8, <3>1
    <3> QED BY <1>1, <3>2
  <2> QED BY <1>4, <2>1, Zenon DEF IsInjective
<1>11. ASSUME NEW x, x \in ToSet(l) PROVE x \in ToSet(q) /\ x # q[i] /\ x \notin ToSet(r)
  <2>1. PICK j \in 1 .. i - 1 : l[j] = x BY <1>6, <1>11
  <2>2. j \in 1 .. n /\ q[j] = x /\ j # i BY <1>1, <1>2, <2>1
  <2>3. ASSUME NEW k \in 1 .. n - i, r[k] = x PROVE FALSE
    <3>1. i + k \in 1 .. n /\ q[i + k] = x /\ i + k # j BY <1>1, <1>3, <2>1, <2>3
    <3> QED BY <1>8, <2>2, <3>1
  <2> QED BY <1>1, <1>5, <1>7, <1>8, <2>2, <2>3
<1>12. ASSUME NEW x, x \in ToSet(r) PROVE x \in ToSet(q) /\ x # q[i]
  <2>1. PICK j \in 1 .. n - i : r[j] = x BY <1>7, <1>12
  <2>2. i + j \in 1 .. n /\ q[i + j] = x /\ i + j # i BY <1>1, <1>3, <2>1
  <2> QED BY <1>1, <1>5, <1>8, <2>2
<1>13. ASSUME NEW x, x \in ToSet(q), x # q[i] PROVE x \in ToSet(l) \union ToSet(r)
  <2>1. PICK j \in 1 .. n : q[j] = x BY <1>5, <1>13
  <2>2. CASE j < i
    <3>1. j \in 1 .. i - 1 /\ l[j] = x BY <1>1, <1>2, <2>1, <2>2
    <3> QED BY <1>6, <3>1
  <2>3. CASE j > i
    <3>1. j - i \in 1 .. n - i /\ i + (j - i) = j BY <1>1, <2>1, <2>3
    <3>2. r[j - i] = x BY <1>3, <2>1, <3>1
    <3> QED BY <1>7, <3>1, <3>2
  <2>4. j # i BY <1>13, <2>1
  <2> QED BY <1>1, <2>2, <2>3, <2>4
<1>14. ToSet(l) \intersect ToSet(r) = {} BY <1>11
<1>15. RemoveAt(q, i) = l \o r BY DEF RemoveAt, l, r, n
<1>16. l \o r \in Seq(T) BY <1>2, <1>3, ConcatProperties
<1>17. IsInjective(l \o r) BY <1>2, <1>3, <1>9, <1>10, <1>14, ConcatInjective
<1>18. ToSet(l \o r) = ToSet(l) \union ToSet(r) BY <1>2, <1>3, ConcatElements
<1>19. ToSet(l) \union ToSet(r) = ToSet(q) \ {q[i]} BY <1>11, <1>12, <1>13
<1> QED BY <1>15, <1>16, <1>17, <1>18, <1>19

-----------------------------------------------------------------------------
(* alloc, free and add.                                                     *)

\* What is known of a tidy allocator.
LEMMA TidyIs ==
    ASSUME NEW a, Tidy(a)
    PROVE  /\ a = [free |-> a.free, used |-> a.used]
           /\ a.free \in Seq(Block) /\ a.used \subseteq Block
           /\ IsInjective(a.free) /\ a.used \intersect ToSet(a.free) = {}
           /\ AllApart(BlocksOf(a))
           /\ \A b \in BlocksOf(a) : b \in Block /\ b.size > 0
  BY DEF Tidy, AllApart

\* A block is at least as large as what was asked for, and not empty.
LEMMA RoundedIs ==
    ASSUME NEW size \in Nat
    PROVE  Rounded(size) \in Nat /\ Rounded(size) > 0 /\ Rounded(size) >= size
  BY DEF Rounded, MinSize

\* The first free block that is large enough is one of the free blocks.
LEMMA FirstFit ==
    ASSUME NEW a, Tidy(a), NEW size \in Nat, Fits(a, size) # {}
    PROVE  LET i == CHOOSE j \in Fits(a, size) : \A k \in Fits(a, size) : j <= k
           IN  i \in 1 .. Len(a.free) /\ a.free[i] \in Block /\ a.free[i].size >= Rounded(size)
<1> DEFINE F == Fits(a, size)
           i == CHOOSE j \in F : \A k \in F : j <= k
<1>1. a.free \in Seq(Block) BY TidyIs
<1>2. Len(a.free) \in Nat /\ DOMAIN a.free = 1 .. Len(a.free)
      /\ \A j \in 1 .. Len(a.free) : a.free[j] \in Block
  BY <1>1, LenProperties
<1>3. F \in SUBSET Nat /\ F # {} BY <1>2 DEF Fits
<1>4. i \in F
  <2> HIDE DEF F
  <2>1. \E j \in F : \A k \in F : j <= k BY <1>3, LeastIn
  <2> QED BY <2>1, Zenon
<1> HIDE DEF i
<1>5. i \in 1 .. Len(a.free) /\ a.free[i].size >= Rounded(size) BY <1>2, <1>4 DEF Fits
<1> QED BY <1>2, <1>5 DEF i

\* What is left of a block when its front is cut off.
LEMMA RestIs ==
    ASSUME NEW b \in Block, NEW m \in Nat
    PROVE  [b EXCEPT !.offset = @ + m, !.size = @ - m]
           = [buffer |-> b.buffer, offset |-> b.offset + m, size |-> b.size - m]
<1> DEFINE u == b.offset + m
           v == b.size - m
<1> HIDE DEF u, v
<1>1. b = [buffer |-> b.buffer, offset |-> b.offset, size |-> b.size] BY BlockIs
<1>2. PICK c : c = [b EXCEPT !.offset = u] OBVIOUS
<1>3. c = [buffer |-> b.buffer, offset |-> u, size |-> b.size] BY <1>1, <1>2
<1>4. [c EXCEPT !.size = v] = [buffer |-> b.buffer, offset |-> u, size |-> v] BY <1>3
<1>5. [b EXCEPT !.offset = u, !.size = v] = [[b EXCEPT !.offset = u] EXCEPT !.size = v] OBVIOUS
<1> QED BY <1>2, <1>4, <1>5 DEF u, v

\* What is taken is a block of its own, at the start of one that was free.
LEMMA AllocKeeps ==
    ASSUME NEW a, Tidy(a), NEW size \in Nat, Fits(a, size) # {}
    PROVE  LET r == Alloc(a, size)
           IN  /\ Tidy(r.left) /\ r.block \in Block /\ r.block.size = Rounded(size)
               /\ r.left.used = a.used \union {r.block} /\ r.block \notin a.used
               /\ SameBytes(BlocksOf(a), BlocksOf(r.left))
               /\ \E c \in ToSet(a.free) : /\ c.buffer = r.block.buffer
                                           /\ c.offset = r.block.offset
               /\ \A c \in ToSet(r.left.free) :
                     \/ c \in ToSet(a.free)
                     \/ c.buffer = r.block.buffer /\ c.offset = r.block.offset + Rounded(size)
<1> DEFINE i == CHOOSE j \in Fits(a, size) : \A k \in Fits(a, size) : j <= k
           n == Rounded(size)
           q == a.free
           taken == [q[i] EXCEPT !.size = n]
           rest == [q[i] EXCEPT !.offset = @ + taken.size, !.size = @ - taken.size]
           p == IF rest.size = 0 THEN RemoveAt(q, i) ELSE ReplaceAt(q, i, rest)
           r == Alloc(a, size)
<1>1. i \in 1 .. Len(q) /\ q[i] \in Block /\ q[i].size >= n BY FirstFit
<1>2. r = [block |-> taken, left |-> [used |-> a.used \union {taken}, free |-> p]]
  BY DEF Alloc
<1> HIDE DEF i, r
<1>3. n \in Nat /\ n > 0 BY RoundedIs
<1> HIDE DEF n
<1> DEFINE c == q[i]
<1>4. c \in Block /\ c.buffer \in Nat /\ c.offset \in Nat /\ c.size \in Nat /\ c.size >= n
      /\ c = [buffer |-> c.buffer, offset |-> c.offset, size |-> c.size]
  BY <1>1, BlockIs
<1>5. /\ q \in Seq(Block) /\ a.used \subseteq Block /\ IsInjective(q)
      /\ a.used \intersect ToSet(q) = {} /\ AllApart(BlocksOf(a))
  BY TidyIs
<1>6. c \in ToSet(q) /\ c \in BlocksOf(a) BY <1>1, <1>5, ElementsAre DEF BlocksOf
<1>7. taken = [buffer |-> c.buffer, offset |-> c.offset, size |-> n] BY <1>4
<1>8. rest = [buffer |-> c.buffer, offset |-> c.offset + n, size |-> c.size - n]
  <2>1. taken.size = n BY <1>7
  <2> HIDE DEF taken
  <2> QED BY <1>3, <1>4, <2>1, RestIs
<1>9. taken \in Block /\ rest \in Block BY <1>3, <1>4, <1>7, <1>8 DEF Block
<1> HIDE DEF taken, rest
<1>10. /\ taken.buffer = c.buffer /\ taken.offset = c.offset /\ taken.size = n
       /\ rest.buffer = c.buffer /\ rest.offset = c.offset + n /\ rest.size = c.size - n
  BY <1>7, <1>8
<1>11. CASE rest.size = 0
  <2>1. p = RemoveAt(q, i) BY <1>11
  <2>2. taken = c
    <3>1. taken.size = c.size BY <1>3, <1>4, <1>10, <1>11
    <3> QED BY <1>4, <1>9, <1>10, <3>1, SameBlock
  <2> HIDE DEF c
  <2>3. p \in Seq(Block) /\ IsInjective(p) /\ ToSet(p) = ToSet(q) \ {c}
    BY <1>1, <1>5, <2>1, RemovedElements DEF c
  <2> HIDE DEF p
  <2>4. r.block = c /\ r.left.used = a.used \union {c} /\ r.left.free = p BY <1>2, <2>2
  <2>5. BlocksOf(r.left) = BlocksOf(a) BY <1>6, <2>3, <2>4 DEF BlocksOf
  <2>6. Tidy(r.left)
    <3>1. r.left \in [free : Seq(Block), used : SUBSET Block]
      BY <1>2, <1>4, <1>5, <1>9, <2>3
    <3>2. r.left.used \intersect ToSet(r.left.free) = {} BY <1>5, <2>3, <2>4
    <3> QED BY <1>5, <2>3, <2>4, <2>5, <3>1, <3>2 DEF Tidy
  <2>7. SameBytes(BlocksOf(a), BlocksOf(r.left)) BY <2>5 DEF SameBytes
  <2>8. c \notin a.used BY <1>5, <1>6
  <2>9. r.block \in Block /\ r.block.size = n BY <1>9, <1>10, <2>2, <2>4
  <2>10. \A b \in ToSet(r.left.free) : b \in ToSet(a.free) BY <2>3, <2>4
  <2> QED BY <1>6, <2>4, <2>6, <2>7, <2>8, <2>9, <2>10 DEF n, r
<1>12. CASE rest.size # 0
  <2>1. p = ReplaceAt(q, i, rest) BY <1>12
  <2>2. rest.size > 0 /\ taken.size > 0 /\ taken.size + rest.size = c.size
    BY <1>3, <1>4, <1>9, <1>10, <1>12 DEF Block
  <2> DEFINE S == BlocksOf(a)
             U == (S \ {c}) \union {taken, rest}
  <2> HIDE DEF S, p, c
  <2>3. c \in S BY <1>6 DEF S
  <2>4. AllApart(S) BY <1>5 DEF S
  <2>5. rest.offset = c.offset + taken.size BY <1>10
  <2>6. /\ AllApart(U) /\ SameBytes(S, U)
        /\ taken \notin S /\ rest \notin S /\ taken # rest
    BY <1>9, <1>10, <2>2, <2>3, <2>4, <2>5, CutInTwo
  <2>7. rest \notin ToSet(q) BY <2>6 DEF S, BlocksOf
  <2>8. p \in Seq(Block) /\ IsInjective(p) /\ ToSet(p) = (ToSet(q) \ {c}) \union {rest}
    BY <1>1, <1>5, <1>9, <2>1, <2>7, ReplacedElements DEF c
  <2>9. r.block = taken /\ r.left.used = a.used \union {taken} /\ r.left.free = p BY <1>2
  <2>10. BlocksOf(r.left) = U
    <3>1. BlocksOf(r.left) = a.used \union {taken} \union (ToSet(q) \ {c}) \union {rest}
      BY <2>8, <2>9 DEF BlocksOf
    <3>2. S = a.used \union ToSet(q) BY DEF S, BlocksOf
    <3>3. c \notin a.used BY <1>5, <1>6
    <3> QED BY <3>1, <3>2, <3>3
  <2>11. Tidy(r.left)
    <3>1. r.left \in [free : Seq(Block), used : SUBSET Block]
      BY <1>2, <1>5, <1>9, <2>8
    <3>2. r.left.used \intersect ToSet(r.left.free) = {}
      BY <1>5, <2>6, <2>8, <2>9 DEF S, BlocksOf
    <3> QED BY <2>6, <2>8, <2>9, <2>10, <3>1, <3>2 DEF Tidy
  <2>12. SameBytes(BlocksOf(a), BlocksOf(r.left)) BY <2>6, <2>10 DEF S
  <2>13. taken \notin a.used BY <2>6 DEF S, BlocksOf
  <2>14. \A b \in ToSet(r.left.free) : b \in ToSet(a.free) \/ b = rest BY <2>8, <2>9
  <2>15. c.buffer = taken.buffer /\ c.offset = taken.offset /\ c \in ToSet(a.free) BY <1>6, <1>10
  <2>16. rest.buffer = taken.buffer /\ rest.offset = taken.offset + n BY <1>10
  <2> QED BY <1>9, <1>10, <2>9, <2>11, <2>12, <2>13, <2>14, <2>15, <2>16 DEF n, r
<1> QED BY <1>11, <1>12 DEF r

\* At most one block is given back.
LEMMA AtIs ==
    ASSUME NEW a, Tidy(a), NEW p, NEW o, NEW b \in At(a, p, o)
    PROVE  At(a, p, o) = {b} /\ b \in a.used /\ b.buffer = p /\ b.offset = o
<1>1. \A c \in At(a, p, o) : c \in a.used /\ c.buffer = p /\ c.offset = o BY DEF At
<1>2. AllApart(BlocksOf(a)) /\ a.used \subseteq BlocksOf(a) BY TidyIs DEF BlocksOf
<1>3. \A c \in At(a, p, o) : c = b BY <1>1, <1>2, OneBlockPerPlace
<1> QED BY <1>1, <1>3

\* The blocks at a place can be counted.
LEMMA AtFinite ==
    ASSUME NEW a, Tidy(a), NEW p, NEW o
    PROVE  IsFiniteSet(At(a, p, o))
<1>1. CASE At(a, p, o) = {} BY <1>1, FS_EmptySet
<1>2. ASSUME NEW b \in At(a, p, o) PROVE IsFiniteSet(At(a, p, o))
  <2>1. At(a, p, o) = {b} BY <1>2, AtIs
  <2> QED BY <2>1, FS_Singleton
<1> QED BY <1>1, <1>2

\* free moves the block at a place from those in use to those that are free.
LEMMA FreeKeeps ==
    ASSUME NEW a, Tidy(a), NEW p, NEW o
    PROVE  LET f == Free(a, p, o)
           IN  /\ Tidy(f) /\ BlocksOf(f) = BlocksOf(a)
               /\ f.used = a.used \ At(a, p, o) /\ ToSet(f.free) = ToSet(a.free) \union At(a, p, o)
<1> DEFINE X == At(a, p, o)
           q == SetToSeq(X)
           f == Free(a, p, o)
<1>1. X \subseteq a.used BY DEF At
<1>2. /\ a.free \in Seq(Block) /\ a.used \subseteq Block /\ IsInjective(a.free)
      /\ a.used \intersect ToSet(a.free) = {} /\ AllApart(BlocksOf(a))
  BY TidyIs
<1>3. f = [used |-> a.used \ X, free |-> q \o a.free] BY DEF Free
<1>4. IsFiniteSet(X) BY AtFinite
<1> HIDE DEF X
<1>5. q \in Seq(X) /\ IsInjective(q) /\ ToSet(q) = X BY <1>4, SetToSeqIs
<1> HIDE DEF q, f
<1>6. q \in Seq(Block)
  <2>1. X \subseteq Block BY <1>1, <1>2
  <2> QED BY <1>5, <2>1, SeqMonotonic
<1>7. q \o a.free \in Seq(Block) BY <1>2, <1>6, ConcatProperties
<1>8. IsInjective(q \o a.free)
  <2>1. ToSet(q) \intersect ToSet(a.free) = {} BY <1>1, <1>2, <1>5
  <2> QED BY <1>2, <1>5, <1>6, <2>1, ConcatInjective
<1>9. ToSet(q \o a.free) = X \union ToSet(a.free) BY <1>2, <1>5, <1>6, ConcatElements
<1>10. f.used = a.used \ X /\ f.free = q \o a.free BY <1>3
<1>11. BlocksOf(f) = BlocksOf(a) BY <1>1, <1>9, <1>10 DEF BlocksOf
<1>12. f \in [free : Seq(Block), used : SUBSET Block] BY <1>2, <1>3, <1>7
<1>13. f.used \intersect ToSet(f.free) = {} BY <1>2, <1>9, <1>10
<1>14. Tidy(f) BY <1>2, <1>8, <1>10, <1>11, <1>12, <1>13 DEF Tidy
<1> QED BY <1>9, <1>10, <1>11, <1>14 DEF f, X

\* A page that no block belongs to yet.
LEMMA AddKeeps ==
    ASSUME NEW a, Tidy(a), NEW b \in Block, b.size > 0, \A c \in BlocksOf(a) : c.buffer # b.buffer
    PROVE  LET e == Add(a, b)
           IN  /\ Tidy(e) /\ BlocksOf(e) = BlocksOf(a) \union {b}
               /\ e.used = a.used /\ ToSet(e.free) = ToSet(a.free) \union {b}
<1> DEFINE e == Add(a, b)
<1>1. /\ a = [free |-> a.free, used |-> a.used]
      /\ a.free \in Seq(Block) /\ a.used \subseteq Block /\ IsInjective(a.free)
      /\ a.used \intersect ToSet(a.free) = {} /\ AllApart(BlocksOf(a))
  BY TidyIs
<1>2. e = [free |-> Append(a.free, b), used |-> a.used] BY <1>1 DEF Add
<1> HIDE DEF e
<1>3. b \notin BlocksOf(a) /\ b \notin ToSet(a.free) /\ b \notin a.used
  BY DEF BlocksOf
<1>4. Append(a.free, b) \in Seq(Block) BY <1>1, AppendProperties
<1>5. ToSet(Append(a.free, b)) = ToSet(a.free) \union {b} BY <1>1, AppendElements
<1>6. IsInjective(Append(a.free, b)) BY <1>1, <1>3, AppendInjectively
<1>7. e.free = Append(a.free, b) /\ e.used = a.used BY <1>2
<1>8. BlocksOf(e) = BlocksOf(a) \union {b} BY <1>5, <1>7 DEF BlocksOf
<1>9. AllApart(BlocksOf(e))
  <2>1. \A c \in BlocksOf(a) : Disjoint(b, c) /\ Disjoint(c, b) BY DEF Disjoint
  <2> QED BY <1>1, <1>8, <2>1 DEF AllApart
<1>10. e \in [free : Seq(Block), used : SUBSET Block] BY <1>1, <1>2, <1>4
<1>11. e.used \intersect ToSet(e.free) = {} BY <1>1, <1>3, <1>5, <1>7
<1>12. Tidy(e) BY <1>6, <1>7, <1>9, <1>10, <1>11 DEF Tidy
<1> QED BY <1>5, <1>7, <1>8, <1>12 DEF e

-----------------------------------------------------------------------------
(* sort.                                                                    *)

\* Of two blocks one comes before the other.
LEMMA BeforeIs ==
    ASSUME NEW S, AllApart(S), NEW b \in S, NEW c \in S, b # c
    PROVE  /\ Before(b, c) \/ Before(c, b)
           /\ ~(Before(b, c) /\ Before(c, b))
<1>1. b \in Block /\ c \in Block BY DEF AllApart
<1>2. /\ b.buffer \in Nat /\ b.offset \in Nat
      /\ c.buffer \in Nat /\ c.offset \in Nat
  BY <1>1, BlockIs
<1>3. b.buffer # c.buffer \/ b.offset # c.offset BY OneBlockPerPlace
<1> QED BY <1>2, <1>3 DEF Before

\* One block comes before all others.
LEMMA LeastBlock ==
    ASSUME NEW S, AllApart(S), S # {}
    PROVE  \E b \in S : \A c \in S \ {b} : Before(b, c)
<1>1. S \subseteq Block BY DEF AllApart
<1> DEFINE P == {b.buffer : b \in S}
<1>2. P \in SUBSET Nat /\ P # {} BY <1>1, BlockIs
<1>3. PICK p \in P : \A q \in P : p <= q
  <2> HIDE DEF P
  <2> QED BY <1>2, LeastIn
<1> DEFINE O == {b.offset : b \in {c \in S : c.buffer = p}}
<1>4. O \in SUBSET Nat /\ O # {} BY <1>1, <1>3, BlockIs
<1>5. PICK o \in O : \A q \in O : o <= q
  <2> HIDE DEF O
  <2> QED BY <1>4, LeastIn
<1>6. PICK b \in S : b.buffer = p /\ b.offset = o BY <1>5
<1>7. ASSUME NEW c \in S \ {b} PROVE Before(b, c)
  <2>1. c \in Block /\ b \in Block BY <1>1
  <2>2. b.buffer \in Nat /\ b.offset \in Nat /\ c.buffer \in Nat /\ c.offset \in Nat
    BY <2>1, BlockIs
  <2>3. p <= c.buffer BY <1>3
  <2>4. c.buffer = p => o <= c.offset BY <1>5
  <2>5. b.buffer # c.buffer \/ b.offset # c.offset BY OneBlockPerPlace
  <2> QED BY <1>6, <2>2, <2>3, <2>4, <2>5 DEF Before
<1> QED BY <1>6, <1>7

InOrder(q, S) ==
    /\ q \in [1 .. Cardinality(S) -> S]
    /\ \A i, j \in DOMAIN q : i < j => Before(q[i], q[j])

\* Some of the blocks.
LEMMA SubsetApart ==
    ASSUME NEW S, AllApart(S), NEW U \in SUBSET S
    PROVE  AllApart(U)
  BY DEF AllApart

\* The least block in front of the others, which are in order.
LEMMA PutFirst ==
    ASSUME NEW U, NEW b \in U, NEW n \in Nat, NEW r \in [1 .. n -> U \ {b}],
           \A i, j \in 1 .. n : i < j => Before(r[i], r[j]),
           \A c \in U \ {b} : Before(b, c)
    PROVE  \E q \in [1 .. n + 1 -> U] : \A i, j \in 1 .. n + 1 : i < j => Before(q[i], q[j])
<1> DEFINE q == [i \in 1 .. n + 1 |-> IF i = 1 THEN b ELSE r[i - 1]]
<1>1. \A i \in 1 .. n + 1 : i # 1 => i - 1 \in 1 .. n OBVIOUS
<1>2. q \in [1 .. n + 1 -> U] BY <1>1
<1>3. ASSUME NEW i \in 1 .. n + 1, NEW j \in 1 .. n + 1, i < j PROVE Before(q[i], q[j])
  <2>1. j # 1 /\ j - 1 \in 1 .. n /\ q[j] = r[j - 1] /\ r[j - 1] \in U \ {b} BY <1>1, <1>3
  <2>2. CASE i = 1 BY <2>1, <2>2
  <2>3. CASE i # 1
    <3>1. i - 1 \in 1 .. n /\ i - 1 < j - 1 /\ q[i] = r[i - 1] BY <1>1, <1>3, <2>3
    <3> QED BY <2>1, <3>1
  <2> QED BY <2>2, <2>3
<1> HIDE DEF q
<1> QED BY <1>2, <1>3

\* Blocks can be put in order.
LEMMA OrderExists ==
    ASSUME NEW S, IsFiniteSet(S), AllApart(S)
    PROVE  \E q : InOrder(q, S)
<1> DEFINE n == Cardinality(S)
           T == {m \in 0 .. n : \A U \in SUBSET S : Cardinality(U) = m => \E q : InOrder(q, U)}
<1>1. n \in Nat BY FS_CardinalityType
<1>2. 0 \in T
  <2>1. ASSUME NEW U \in SUBSET S, Cardinality(U) = 0 PROVE \E q : InOrder(q, U)
    <3> DEFINE q == [i \in 1 .. 0 |-> {}]
    <3>1. 1 .. 0 = {} OBVIOUS
    <3>2. q \in [1 .. 0 -> U] /\ DOMAIN q = {} BY <3>1
    <3>3. InOrder(q, U) BY <2>1, <3>2 DEF InOrder
    <3> QED BY <3>3
  <2>2. 0 \in 0 .. n BY <1>1
  <2> QED BY <2>1, <2>2
<1>3. ASSUME NEW m \in 0 .. n - 1, m \in T PROVE m + 1 \in T
  <2>1. ASSUME NEW U \in SUBSET S, Cardinality(U) = m + 1 PROVE \E q : InOrder(q, U)
    <3>1. AllApart(U) /\ IsFiniteSet(U) BY SubsetApart, FS_Subset
    <3>2. m \in Nat BY <1>1
    <3>3. U # {} BY <2>1, <3>2, FS_EmptySet
    <3>4. PICK b \in U : \A c \in U \ {b} : Before(b, c) BY <3>1, <3>3, LeastBlock
    <3>5. Cardinality(U \ {b}) = m BY <2>1, <3>1, <3>2, FS_RemoveElement
    <3>6. U \ {b} \in SUBSET S OBVIOUS
    <3>7. PICK r : InOrder(r, U \ {b}) BY <1>3, <3>5, <3>6
    <3>8. r \in [1 .. m -> U \ {b}] /\ \A i, j \in 1 .. m : i < j => Before(r[i], r[j])
      BY <3>5, <3>7 DEF InOrder
    <3>9. PICK q \in [1 .. m + 1 -> U] : \A i, j \in 1 .. m + 1 : i < j => Before(q[i], q[j])
      BY <3>2, <3>4, <3>8, PutFirst
    <3>10. InOrder(q, U) BY <2>1, <3>9 DEF InOrder
    <3> QED BY <3>10
  <2>2. m + 1 \in 0 .. n BY <1>1
  <2> QED BY <2>1, <2>2
<1> HIDE DEF T
<1>4. n \in T
  <2>1. \A k \in 0 .. n : k \in T BY <1>1, <1>2, <1>3, UpTo
  <2>2. n \in 0 .. n BY <1>1
  <2> QED BY <2>1, <2>2
<1>5. S \in SUBSET S OBVIOUS
<1> QED BY <1>4, <1>5 DEF T

\* sort finds an order, and it has every block once.
LEMMA SortedIs ==
    ASSUME NEW S, IsFiniteSet(S), AllApart(S)
    PROVE  LET q == Sorted(S)
           IN  /\ q \in Seq(S) /\ ToSet(q) = S /\ DOMAIN q = 1 .. Len(q)
               /\ \A i, j \in DOMAIN q : i < j => Before(q[i], q[j])
<1> DEFINE n == Cardinality(S)
           q == Sorted(S)
<1>1. PICK p : InOrder(p, S) BY OrderExists
<1>2. q \in [1 .. n -> S] /\ \A i, j \in DOMAIN q : i < j => Before(q[i], q[j])
  BY <1>1, Zenon DEF Sorted, InOrder
<1> HIDE DEF q
<1>3. n \in Nat BY FS_CardinalityType
<1>4. IsInjective(q)
  <2>1. SUFFICES ASSUME NEW i \in DOMAIN q, NEW j \in DOMAIN q, q[i] = q[j] PROVE i = j
    BY Zenon DEF IsInjective
  <2>2. i \in 1 .. n /\ j \in 1 .. n BY <1>2, <2>1
  <2>3. ~Before(q[i], q[i])
    <3>1. q[i] \in Block BY <1>2, <2>2 DEF AllApart
    <3>2. q[i].buffer \in Nat /\ q[i].offset \in Nat BY <3>1, BlockIs
    <3> QED BY <3>2 DEF Before
  <2>4. ~(i < j) /\ ~(j < i) BY <1>2, <2>1, <2>3
  <2> QED BY <1>3, <2>2, <2>4
<1>5. ToSet(q) = S BY <1>2, <1>4, InjectiveIsOnto
<1>6. q \in Seq(S) /\ Len(q) = n BY <1>2, <1>3, SeqOfFunction
<1> QED BY <1>2, <1>5, <1>6 DEF q

-----------------------------------------------------------------------------
(* compact: the sorted blocks are joined one after the other.               *)

\* The last element of a sequence replaced.
LEMMA LastReplaced ==
    ASSUME NEW d \in Seq(Block), d # <<>>, NEW e \in Block
    PROVE  LET v == Append(Front(d), e)
           IN  /\ v \in Seq(Block) /\ Len(v) = Len(d) /\ Len(d) \in Nat \ {0}
               /\ v[Len(d)] = e /\ \A i \in 1 .. Len(d) - 1 : v[i] = d[i]
<1> DEFINE n == Len(d)
           f == Front(d)
           v == Append(f, e)
<1>1. n \in Nat /\ n # 0 /\ DOMAIN d = 1 .. n /\ \A i \in 1 .. n : d[i] \in Block
  BY LenProperties, EmptySeq
<1>2. f = SubSeq(d, 1, n - 1) BY DEF Front
<1>3. \A i \in 1 .. n - 1 : d[i] \in Block BY <1>1
<1>4. /\ f \in Seq(Block) /\ Len(f) = n - 1
      /\ \A i \in 1 .. n - 1 : f[i] = d[i]
  <2>1. 1 \in 1 .. Len(d) + 1 /\ n - 1 \in 1 - 1 .. Len(d) BY <1>1
  <2>2. /\ SubSeq(d, 1, n - 1) \in Seq(Block)
        /\ Len(SubSeq(d, 1, n - 1)) = IF 1 <= n - 1 THEN (n - 1) - 1 + 1 ELSE 0
        /\ \A i \in 1 .. (n - 1) - 1 + 1 : SubSeq(d, 1, n - 1)[i] = d[1 + i - 1]
    BY <1>1, <2>1, SubSeqProperties
  <2> HIDE DEF n, f
  <2> QED BY <1>1, <1>2, <2>2
<1> HIDE DEF f
<1>5. v \in Seq(Block) /\ Len(v) = (n - 1) + 1 /\ (\A i \in 1 .. n - 1 : v[i] = f[i])
      /\ v[(n - 1) + 1] = e
  <2>1. /\ v \in Seq(Block) /\ Len(v) = Len(f) + 1 /\ v[Len(f) + 1] = e
        /\ \A i \in 1 .. Len(f) : v[i] = f[i]
    BY <1>4, AppendProperties
  <2> HIDE DEF v, n
  <2> QED BY <1>4, <2>1
<1> HIDE DEF v, n
<1>6. n \in Nat \ {0} /\ (n - 1) + 1 = n BY <1>1
<1>7. v \in Seq(Block) /\ Len(v) = n /\ v[n] = e /\ \A i \in 1 .. n - 1 : v[i] = d[i]
  BY <1>4, <1>5, <1>6
<1> QED BY <1>6, <1>7 DEF v, f, n

Joins(d, b) == d # <<>> /\ Last(d).buffer = b.buffer /\ End(Last(d)) = b.offset

Joined(c, b) == [c EXCEPT !.size = @ + b.size]

\* A block with the one behind it.
LEMMA JoinedIs ==
    ASSUME NEW c \in Block, NEW b \in Block
    PROVE  /\ Joined(c, b) \in Block
           /\ Joined(c, b).buffer = c.buffer /\ Joined(c, b).offset = c.offset
           /\ Joined(c, b).size = c.size + b.size
  BY DEF Block, Joined

\* The last block of a sequence that has one.
LEMMA LastIs ==
    ASSUME NEW d \in Seq(Block), d # <<>>
    PROVE  /\ Last(d) = d[Len(d)] /\ Last(d) \in Block /\ Len(d) \in 1 .. Len(d)
           /\ Len(d) \in Nat \ {0}
  BY LenProperties, EmptySeq DEF Last

\* One more block: it is joined to the last one or comes after it.
LEMMA JoinIs ==
    ASSUME NEW d \in Seq(Block), NEW b \in Block
    PROVE  /\ Join(d, b) \in Seq(Block)
           /\ Joins(d, b) =>
                 /\ d # <<>> /\ Len(Join(d, b)) = Len(d)
                 /\ Join(d, b)[Len(d)] = Joined(Last(d), b)
                 /\ \A i \in 1 .. Len(d) - 1 : Join(d, b)[i] = d[i]
           /\ ~Joins(d, b) =>
                 /\ Len(Join(d, b)) = Len(d) + 1 /\ Join(d, b)[Len(d) + 1] = b
                 /\ \A i \in 1 .. Len(d) : Join(d, b)[i] = d[i]
<1>1. CASE Joins(d, b)
  <2>1. d # <<>> BY <1>1 DEF Joins
  <2>2. Last(d) \in Block BY <2>1, LastIs
  <2>3. Joined(Last(d), b) \in Block BY <2>2, JoinedIs
  <2>4. Join(d, b) = Append(Front(d), Joined(Last(d), b)) BY <1>1 DEF Join, Joins, Joined
  <2>5. LET v == Append(Front(d), Joined(Last(d), b))
        IN  /\ v \in Seq(Block) /\ Len(v) = Len(d)
            /\ v[Len(d)] = Joined(Last(d), b) /\ \A i \in 1 .. Len(d) - 1 : v[i] = d[i]
    BY <2>1, <2>3, LastReplaced
  <2> QED BY <1>1, <2>1, <2>4, <2>5
<1>2. CASE ~Joins(d, b)
  <2>1. Join(d, b) = Append(d, b) BY <1>2 DEF Join, Joins
  <2> QED BY <1>2, <2>1, AppendProperties
<1> QED BY <1>1, <1>2

JoinChain(g, w) ==
    /\ g \in [0 .. Len(w) -> Seq(Block)] /\ g[0] = <<>>
    /\ \A k \in 1 .. Len(w) : g[k] = Join(g[k - 1], w[k])

\* The fold of Join goes through one sequence per block.
LEMMA JoinsAre ==
    ASSUME NEW w \in Seq(Block)
    PROVE  \E g : JoinChain(g, w) /\ g[Len(w)] = FoldLeft(Join, <<>>, w)
<1> DEFINE n == Len(w)
           Done == Seq(Block)
           Is(it) == it = [s \in SUBSET DOMAIN w |->
                              IF s = {} THEN <<>> ELSE Join(it[s \ {Max(s)}], w[Max(s)])]
           G == [p \in Done \X (1 .. n) |-> Join(p[1], w[p[2]])]
<1>0. <<>> \in Done OBVIOUS
<1>1. \A x \in Done, i \in 1 .. n : G[<<x, i>>] = Join(x, w[i]) OBVIOUS
<1>2. n \in Nat /\ DOMAIN w = 1 .. n /\ \A i \in 1 .. n : w[i] \in Block BY LenProperties
<1>3. G \in [Done \X (1 .. n) -> Done] BY <1>2, JoinIs
<1> HIDE DEF G, n, Done
<1>4. \A s \in SUBSET (1 .. n) : s # {} => Max(s) \in 1 .. n BY <1>2, MaxIn
<1>5. \E it : Is(it)
  <2>1. PICK it : Unfolds(it, Done, <<>>, n, G) BY <1>0, <1>2, <1>3, FoldExists
  <2>2. ASSUME NEW s \in SUBSET (1 .. n), s # {}
        PROVE  it[s] = Join(it[s \ {Max(s)}], w[Max(s)])
    <3>1. it[s \ {Max(s)}] \in Done BY <2>1 DEF Unfolds
    <3>2. it[s] = G[<<it[s \ {Max(s)}], Max(s)>>] BY <2>1, <2>2 DEF Unfolds
    <3> QED BY <1>1, <1>4, <2>2, <3>1, <3>2
  <2>3. it = [s \in SUBSET (1 .. n) |-> it[s]] /\ it[{}] = <<>> BY <2>1 DEF Unfolds
  <2>4. [s \in SUBSET (1 .. n) |-> it[s]]
            = [s \in SUBSET (1 .. n) |->
                  IF s = {} THEN <<>> ELSE Join(it[s \ {Max(s)}], w[Max(s)])]
    BY <2>2, <2>3, Zenon
  <2>5. Is(it) BY <1>2, <2>3, <2>4, Zenon
  <2> QED BY <2>5, Zenon
<1> DEFINE it == CHOOSE it : Is(it)
<1>6. Is(it) BY <1>5, Zenon
<1>7. FoldLeft(Join, <<>>, w) = it[1 .. n] BY <1>2, Zenon DEF FoldLeft, MapThenFoldSet
<1> HIDE DEF it
<1>8. Follows(it, Done, <<>>, n, G)
  <2>1. it[{}] = <<>> /\ \A s \in SUBSET (1 .. n) :
                         s # {} => it[s] = Join(it[s \ {Max(s)}], w[Max(s)])
    BY <1>2, <1>6
  <2> HIDE DEF Is
  <2> QED BY <1>1, <1>4, <2>1 DEF Follows
<1> HIDE DEF Is
<1>9. PICK g : IsChain(g, Done, <<>>, n, G, it[1 .. n]) BY <1>0, <1>2, <1>3, <1>8, FoldChain
<1>10. ASSUME NEW k \in 1 .. n PROVE g[k] = Join(g[k - 1], w[k])
  <2>1. g[k - 1] \in Done BY <1>2, <1>9 DEF IsChain
  <2>2. g[k] = G[<<g[k - 1], k>>] BY <1>9 DEF IsChain
  <2> QED BY <1>1, <2>1, <2>2
<1>11. JoinChain(g, w) BY <1>9, <1>10 DEF IsChain, n, JoinChain, Done
<1>12. g[n] = it[1 .. n] BY <1>9 DEF IsChain
<1> QED BY <1>7, <1>11, <1>12 DEF n

Gap(b, c) == b.buffer < c.buffer \/ (b.buffer = c.buffer /\ End(b) < c.offset)

\* What the first k of the sorted blocks are joined to.
Merged(d, w, k) ==
    /\ d \in Seq(Block)
    /\ \A i \in 1 .. Len(d) : d[i].size > 0
    /\ \A i, j \in 1 .. Len(d) : i < j => Gap(d[i], d[j])
    /\ \A i \in 1 .. Len(d) : \E j \in 1 .. k :
          w[j].buffer = d[i].buffer /\ w[j].offset = d[i].offset
    /\ \A p, x \in Nat :
          (\E i \in 1 .. Len(d) : Within(d[i], p, x)) <=> \E j \in 1 .. k : Within(w[j], p, x)
    /\ k > 0 => /\ d # <<>>
                /\ Last(d).buffer = w[k].buffer /\ End(Last(d)) = End(w[k])

\* One more block is joined.
LEMMA MergedStep ==
    ASSUME NEW S, AllApart(S), NEW w \in Seq(S),
           \A i, j \in DOMAIN w : i < j => Before(w[i], w[j]),
           NEW k \in 0 .. Len(w) - 1, NEW d, Merged(d, w, k)
    PROVE  Merged(Join(d, w[k + 1]), w, k + 1)
<1> DEFINE b == w[k + 1]
           n == Len(d)
           v == Join(d, b)
<1>1. /\ Len(w) \in Nat /\ DOMAIN w = 1 .. Len(w) /\ k + 1 \in 1 .. Len(w) /\ k \in Nat
      /\ \A i \in 1 .. Len(w) : w[i] \in S /\ w[i] \in Block /\ w[i].size > 0
  BY LenProperties DEF AllApart
<1>2. b \in Block /\ b.size > 0 /\ b \in S BY <1>1
<1>3. /\ b.buffer \in Nat /\ b.offset \in Nat /\ b.size \in Nat /\ End(b) = b.offset + b.size
  BY <1>2, BlockIs
<1> HIDE DEF b
<1>4. d \in Seq(Block) /\ n \in Nat /\ \A i \in 1 .. n : d[i] \in Block /\ d[i].size > 0
  BY LenProperties DEF Merged
<1>5. \A i \in 1 .. n : /\ d[i].buffer \in Nat /\ d[i].offset \in Nat /\ d[i].size \in Nat
                        /\ End(d[i]) = d[i].offset + d[i].size
  BY <1>4, BlockIs
<1>6. \A i, j \in 1 .. n : i < j => Gap(d[i], d[j]) BY DEF Merged
<1>7. \A i \in 1 .. n : \E j \in 1 .. k : w[j].buffer = d[i].buffer /\ w[j].offset = d[i].offset
  BY DEF Merged
<1>8. \A p, x \in Nat :
         (\E i \in 1 .. n : Within(d[i], p, x)) <=> \E j \in 1 .. k : Within(w[j], p, x)
  BY DEF Merged
<1>9. \A j \in 1 .. k : j \in 1 .. k + 1 BY <1>1
<1>10. \A j \in 1 .. k + 1 : j \in 1 .. k \/ j = k + 1 BY <1>1
<1>11. k + 1 \in 1 .. k + 1 BY <1>1
<1>12. \A p, x \in Nat : (\E j \in 1 .. k + 1 : Within(w[j], p, x))
                         <=> (\E j \in 1 .. k : Within(w[j], p, x)) \/ Within(b, p, x)
  BY <1>9, <1>10, <1>11 DEF b
<1>13. CASE Joins(d, b)
  <2> DEFINE l == d[n]
             t == Joined(l, b)
  <2>1. d # <<>> /\ Last(d) = l /\ n \in 1 .. n /\ n > 0 /\ l \in Block
    BY <1>4, <1>13, LastIs DEF Joins
  <2>2. l.buffer = b.buffer /\ End(l) = b.offset BY <1>13, <2>1 DEF Joins
  <2>3. /\ v \in Seq(Block) /\ Len(v) = n /\ v[n] = t /\ \A i \in 1 .. n - 1 : v[i] = d[i]
    <3>1. /\ v \in Seq(Block) /\ Len(v) = n /\ v[n] = Joined(Last(d), b)
          /\ \A i \in 1 .. n - 1 : v[i] = d[i]
      BY <1>2, <1>4, <1>13, JoinIs
    <3> HIDE DEF v
    <3> QED BY <2>1, <3>1
  <2>4. /\ t \in Block /\ t.buffer = l.buffer /\ t.offset = l.offset /\ t.size = l.size + b.size
    BY <1>2, <2>1, JoinedIs
  <2>5. l.buffer \in Nat /\ l.offset \in Nat /\ l.size \in Nat /\ l.size > 0
        /\ End(l) = l.offset + l.size
    BY <1>4, <1>5, <2>1
  <2> HIDE DEF t, v
  <2>6. End(t) = l.offset + l.size + b.size BY <1>3, <2>4, <2>5 DEF End
  <2>7. \A i \in 1 .. n : i \in 1 .. n - 1 \/ i = n BY <1>4
  <2>8. \A i \in 1 .. n : v[i].buffer = d[i].buffer /\ v[i].offset = d[i].offset
    BY <2>3, <2>4, <2>7
  <2>9. \A i \in 1 .. n : v[i].size > 0
    <3>1. t.size > 0 BY <1>2, <1>3, <2>4, <2>5
    <3> QED BY <1>4, <2>3, <2>7, <3>1
  <2>10. ASSUME NEW i \in 1 .. n, NEW j \in 1 .. n, i < j PROVE Gap(v[i], v[j])
    <3>1. i \in 1 .. n - 1 BY <1>4, <2>10
    <3>2. v[i] = d[i] /\ Gap(d[i], d[j]) BY <1>6, <2>3, <2>10, <3>1
    <3> QED BY <2>8, <3>2 DEF Gap
  <2>11. \A i \in 1 .. n : \E j \in 1 .. k + 1 :
            w[j].buffer = v[i].buffer /\ w[j].offset = v[i].offset
    BY <1>7, <1>9, <2>8
  <2>12. \A p, x \in Nat : Within(t, p, x) <=> Within(l, p, x) \/ Within(b, p, x)
    BY <1>3, <2>2, <2>4, <2>5, <2>6 DEF Within
  <2>13. \A p, x \in Nat : (\E i \in 1 .. n : Within(v[i], p, x))
                           <=> (\E i \in 1 .. n : Within(d[i], p, x)) \/ Within(b, p, x)
    <3> TAKE p, x \in Nat
    <3>1. ASSUME NEW i \in 1 .. n, Within(v[i], p, x)
          PROVE  (\E j \in 1 .. n : Within(d[j], p, x)) \/ Within(b, p, x)
      BY <2>1, <2>3, <2>7, <2>12, <3>1
    <3>2. ASSUME NEW i \in 1 .. n, Within(d[i], p, x) PROVE \E j \in 1 .. n : Within(v[j], p, x)
      BY <2>1, <2>3, <2>7, <2>12, <3>2
    <3>3. Within(b, p, x) => \E j \in 1 .. n : Within(v[j], p, x) BY <2>1, <2>3, <2>12
    <3> QED BY <3>1, <3>2, <3>3
  <2>14. v # <<>> /\ Last(v) = t
    <3>1. v # <<>> BY <2>1, <2>3
    <3> QED BY <2>3, <3>1 DEF Last
  <2>15. Last(v).buffer = w[k + 1].buffer /\ End(Last(v)) = End(w[k + 1])
    <3>1. End(t) = End(b) BY <1>3, <2>2, <2>5, <2>6
    <3> QED BY <2>2, <2>4, <2>14, <3>1 DEF b
  <2>16. \A p, x \in Nat : (\E i \in 1 .. n : Within(v[i], p, x))
                           <=> \E j \in 1 .. k + 1 : Within(w[j], p, x)
    BY <1>8, <1>12, <2>13
  <2>17. Merged(v, w, k + 1)
    BY <2>3, <2>9, <2>10, <2>11, <2>14, <2>15, <2>16 DEF Merged
  <2> QED BY <2>17 DEF v, b
<1>14. CASE ~Joins(d, b)
  <2>1. /\ v \in Seq(Block) /\ Len(v) = n + 1 /\ v[n + 1] = b /\ \A i \in 1 .. n : v[i] = d[i]
    BY <1>2, <1>4, <1>14, JoinIs
  <2> HIDE DEF v
  <2>2. \A i \in 1 .. n + 1 : i \in 1 .. n \/ i = n + 1 BY <1>4
  <2>3. \A i \in 1 .. n : i \in 1 .. n + 1 BY <1>4
  <2>4. n + 1 \in 1 .. n + 1 /\ \A i \in 1 .. n : ~(n + 1 < i) BY <1>4
  <2>5. ASSUME NEW i \in 1 .. n PROVE Gap(d[i], b)
    <3>1. k > 0 BY <1>1, <1>7
    <3>2. d # <<>> /\ Last(d).buffer = w[k].buffer /\ End(Last(d)) = End(w[k])
      BY <3>1 DEF Merged
    <3>3. Last(d) = d[n] /\ n \in 1 .. n BY <1>4, <3>2, LastIs
    <3> DEFINE l == d[n]
               c == w[k]
    <3>4. k \in 1 .. Len(w) /\ k < k + 1 BY <1>1, <3>1
    <3>5. Before(c, b) BY <1>1, <3>4 DEF b
    <3>6. c \in S /\ c \in Block /\ c.size > 0 BY <1>1, <3>4
    <3>7. c.buffer \in Nat /\ c.offset \in Nat /\ c.size \in Nat /\ End(c) = c.offset + c.size
      BY <3>6, BlockIs
    <3> HIDE DEF c
    <3>8. c # b BY <1>3, <3>5, <3>7 DEF Before
    <3>9. Disjoint(c, b) BY <1>2, <3>6, <3>8 DEF AllApart
    <3>10. l.buffer < b.buffer \/ (l.buffer = b.buffer /\ End(l) <= b.offset)
      <4>1. l.buffer = c.buffer /\ End(l) = End(c) BY <3>2, <3>3 DEF c
      <4>2. c.buffer < b.buffer \/ (c.buffer = b.buffer /\ End(c) <= b.offset)
        BY <1>2, <1>3, <3>5, <3>7, <3>9 DEF Before, Disjoint
      <4> QED BY <4>1, <4>2
    <3>11. Gap(l, b)
      <4>1. ~(l.buffer = b.buffer /\ End(l) = b.offset) BY <1>14, <3>2, <3>3 DEF Joins
      <4>2. End(l) \in Nat /\ l.buffer \in Nat BY <1>4, <3>3, BlockIs
      <4> QED BY <1>3, <3>10, <4>1, <4>2 DEF Gap
    <3>12. CASE i = n BY <3>11, <3>12
    <3>13. CASE i # n
      <4>1. Gap(d[i], l) BY <1>4, <1>6, <3>3, <3>13
      <4>2. /\ l.buffer \in Nat /\ l.offset \in Nat /\ l.size \in Nat
            /\ End(l) = l.offset + l.size
        BY <1>5, <3>3
      <4>3. d[i].buffer \in Nat /\ d[i].offset \in Nat /\ d[i].size \in Nat
            /\ End(d[i]) = d[i].offset + d[i].size
        BY <1>5
      <4> DEFINE e == d[i]
      <4> HIDE DEF l, e
      <4>4. CASE e.buffer = b.buffer
        <5>1. l.buffer = b.buffer /\ End(e) < l.offset /\ End(l) < b.offset
          BY <1>3, <3>11, <4>1, <4>2, <4>3, <4>4 DEF Gap, e
        <5> QED BY <1>3, <4>2, <4>3, <4>4, <5>1 DEF Gap, e
      <4>5. CASE e.buffer # b.buffer
        <5>1. e.buffer < b.buffer BY <1>3, <3>11, <4>1, <4>2, <4>3, <4>5 DEF Gap, e
        <5> QED BY <5>1 DEF Gap, e
      <4> QED BY <4>4, <4>5
    <3> QED BY <3>12, <3>13
  <2>6. \A i \in 1 .. n + 1 : v[i].size > 0 BY <1>2, <1>4, <2>1, <2>2
  <2>7. ASSUME NEW i \in 1 .. n + 1, NEW j \in 1 .. n + 1, i < j PROVE Gap(v[i], v[j])
    <3>1. i \in 1 .. n BY <1>4, <2>7
    <3>2. CASE j = n + 1 BY <2>1, <2>5, <3>1, <3>2
    <3>3. CASE j \in 1 .. n BY <1>6, <2>1, <2>7, <3>1, <3>3
    <3> QED BY <2>2, <3>2, <3>3
  <2>8. ASSUME NEW i \in 1 .. n + 1
        PROVE  \E j \in 1 .. k + 1 : w[j].buffer = v[i].buffer /\ w[j].offset = v[i].offset
    <3>1. CASE i = n + 1 BY <1>11, <2>1, <3>1 DEF b
    <3>2. CASE i \in 1 .. n BY <1>7, <1>9, <2>1, <3>2
    <3> QED BY <2>2, <3>1, <3>2
  <2>9. \A p, x \in Nat : (\E i \in 1 .. n + 1 : Within(v[i], p, x))
                          <=> (\E i \in 1 .. n : Within(d[i], p, x)) \/ Within(b, p, x)
    BY <2>1, <2>2, <2>3, <2>4
  <2>10. \A p, x \in Nat : (\E i \in 1 .. n + 1 : Within(v[i], p, x))
                           <=> \E j \in 1 .. k + 1 : Within(w[j], p, x)
    BY <1>8, <1>12, <2>9
  <2>11. v # <<>> /\ Last(v) = b
    <3>1. v # <<>> BY <1>4, <2>1
    <3> QED BY <2>1, <3>1 DEF Last
  <2>12. Merged(v, w, k + 1)
    BY <2>1, <2>6, <2>7, <2>8, <2>10, <2>11 DEF Merged, b
  <2> QED BY <2>12 DEF v, b
<1> QED BY <1>13, <1>14

\* All blocks are joined.
LEMMA MergedAll ==
    ASSUME NEW S, AllApart(S), NEW w \in Seq(S),
           \A i, j \in DOMAIN w : i < j => Before(w[i], w[j])
    PROVE  Merged(FoldLeft(Join, <<>>, w), w, Len(w))
<1>1. w \in Seq(Block)
  <2>1. S \subseteq Block BY DEF AllApart
  <2> QED BY <2>1, SeqMonotonic
<1>2. PICK g : JoinChain(g, w) /\ g[Len(w)] = FoldLeft(Join, <<>>, w) BY <1>1, JoinsAre
<1> DEFINE n == Len(w)
           T == {k \in 0 .. n : Merged(g[k], w, k)}
<1>3. n \in Nat BY LenProperties
<1>4. 0 \in T
  <2>1. g[0] = <<>> BY <1>2 DEF JoinChain
  <2>2. Merged(<<>>, w, 0)
    <3>1. <<>> \in Seq(Block) /\ 1 .. Len(<<>>) = {} /\ 1 .. 0 = {} BY EmptySeq
    <3> QED BY <3>1 DEF Merged
  <2> QED BY <1>3, <2>1, <2>2
<1>5. ASSUME NEW k \in 0 .. n - 1, k \in T PROVE k + 1 \in T
  <2>1. k + 1 \in 1 .. n /\ (k + 1) - 1 = k /\ k + 1 \in 0 .. n BY <1>3
  <2>2. g[k + 1] = Join(g[k], w[k + 1]) BY <1>2, <2>1 DEF JoinChain
  <2>3. Merged(g[k], w, k) BY <1>5
  <2>4. Merged(g[k + 1], w, k + 1) BY <2>2, <2>3, MergedStep
  <2> QED BY <2>1, <2>4
<1> HIDE DEF T
<1>6. n \in T
  <2>1. \A k \in 0 .. n : k \in T BY <1>3, <1>4, <1>5, UpTo
  <2>2. n \in 0 .. n BY <1>3
  <2> QED BY <2>1, <2>2
<1> QED BY <1>2, <1>6 DEF T

\* The elements of a sequence can be counted.
LEMMA ElementsFinite ==
    ASSUME NEW T, NEW q \in Seq(T)
    PROVE  IsFiniteSet(ToSet(q))
<1>1. Len(q) \in Nat /\ DOMAIN q = 1 .. Len(q) BY LenProperties
<1>2. IsFiniteSet(1 .. Len(q)) BY <1>1, FS_Interval
<1>3. q \in [1 .. Len(q) -> ToSet(q)] BY <1>1, ElementsAre
<1>4. \A e \in ToSet(q) : \E i \in 1 .. Len(q) : q[i] = e BY <1>1 DEF ToSet
<1>5. q \in Surjection(1 .. Len(q), ToSet(q)) BY <1>3, <1>4 DEF Surjection
<1> QED BY <1>2, <1>5, FS_Surjection

\* compact joins free blocks and leaves no two side by side.
LEMMA CompactKeeps ==
    ASSUME NEW a, Tidy(a)
    PROVE  LET c == Compact(a)
           IN  /\ Tidy(c) /\ c.used = a.used /\ SameBytes(BlocksOf(a), BlocksOf(c))
               /\ \A b \in ToSet(c.free) : \E e \in ToSet(a.free) :
                     e.buffer = b.buffer /\ e.offset = b.offset
               /\ \A b, e \in ToSet(c.free) :
                     b # e => b.buffer # e.buffer \/ End(b) # e.offset
<1> DEFINE S == ToSet(a.free)
           w == Sorted(S)
           f == FoldLeft(Join, <<>>, w)
           c == Compact(a)
<1>1. /\ a = [free |-> a.free, used |-> a.used]
      /\ a.free \in Seq(Block) /\ a.used \subseteq Block
      /\ a.used \intersect S = {} /\ AllApart(BlocksOf(a))
  BY TidyIs
<1>2. AllApart(S) /\ IsFiniteSet(S)
  <2>1. S \subseteq BlocksOf(a) BY DEF BlocksOf
  <2> QED BY <1>1, <2>1, SubsetApart, ElementsFinite
<1>3. c = [free |-> f, used |-> a.used] BY <1>1 DEF Compact
<1> HIDE DEF S
<1>4. /\ w \in Seq(S) /\ ToSet(w) = S /\ DOMAIN w = 1 .. Len(w)
      /\ \A i, j \in DOMAIN w : i < j => Before(w[i], w[j])
  BY <1>2, SortedIs
<1> HIDE DEF w
<1>5. Merged(f, w, Len(w)) BY <1>2, <1>4, MergedAll
<1> HIDE DEF f, c
<1> DEFINE n == Len(f)
<1>6. /\ f \in Seq(Block) /\ n \in Nat /\ DOMAIN f = 1 .. n
      /\ \A i \in 1 .. n : f[i] \in Block /\ f[i].size > 0
      /\ \A i, j \in 1 .. n : i < j => Gap(f[i], f[j])
  BY <1>5, LenProperties DEF Merged
<1>7. \A b : b \in ToSet(f) <=> \E i \in 1 .. n : f[i] = b BY <1>6 DEF ToSet
<1>8. \A b : b \in S <=> \E i \in 1 .. Len(w) : w[i] = b BY <1>4 DEF ToSet
<1>9. \A p, x \in Nat : Covered(ToSet(f), p, x) <=> Covered(S, p, x)
  <2> TAKE p, x \in Nat
  <2>1. Covered(ToSet(f), p, x) <=> \E i \in 1 .. n : Within(f[i], p, x) BY <1>7 DEF Covered
  <2>2. Covered(S, p, x) <=> \E i \in 1 .. Len(w) : Within(w[i], p, x) BY <1>8 DEF Covered
  <2> QED BY <1>5, <2>1, <2>2 DEF Merged
<1>10. \A b \in ToSet(f) : \E e \in S : e.buffer = b.buffer /\ e.offset = b.offset
  <2> TAKE b \in ToSet(f)
  <2>1. PICK i \in 1 .. n : f[i] = b BY <1>7
  <2>2. PICK j \in 1 .. Len(w) : w[j].buffer = b.buffer /\ w[j].offset = b.offset
    BY <1>5, <2>1 DEF Merged
  <2> QED BY <1>8, <2>2
<1>11. \A i \in 1 .. n : /\ f[i].buffer \in Nat /\ f[i].offset \in Nat /\ f[i].size \in Nat
                         /\ End(f[i]) = f[i].offset + f[i].size
  BY <1>6, BlockIs
<1> HIDE DEF n
<1>12. ASSUME NEW i \in 1 .. n, NEW j \in 1 .. n, i # j
       PROVE  /\ f[i] # f[j] /\ Disjoint(f[i], f[j])
              /\ f[i].buffer # f[j].buffer \/ End(f[i]) # f[j].offset
  <2>1. Gap(f[i], f[j]) \/ Gap(f[j], f[i]) BY <1>6, <1>12
  <2>2. f[i].size > 0 /\ f[j].size > 0 BY <1>6
  <2> DEFINE b == f[i]
             e == f[j]
  <2>3. /\ b.buffer \in Nat /\ b.offset \in Nat /\ b.size \in Nat /\ End(b) = b.offset + b.size
        /\ e.buffer \in Nat /\ e.offset \in Nat /\ e.size \in Nat /\ End(e) = e.offset + e.size
    BY <1>11
  <2> HIDE DEF b, e
  <2>4. b.size > 0 /\ e.size > 0 /\ (Gap(b, e) \/ Gap(e, b)) BY <2>1, <2>2 DEF b, e
  <2>5. Disjoint(b, e) /\ (b.buffer # e.buffer \/ End(b) # e.offset)
    BY <2>3, <2>4 DEF Gap, Disjoint
  <2>6. b # e
    <3>1. ~Gap(b, b) BY <2>3, <2>4 DEF Gap
    <3> QED BY <2>4, <3>1
  <2> QED BY <2>5, <2>6 DEF b, e
<1>13. IsInjective(f) BY <1>6, <1>12, Zenon DEF IsInjective
<1>14. \A b, e \in ToSet(f) : b # e => b.buffer # e.buffer \/ End(b) # e.offset
  BY <1>7, <1>12
<1>15. AllApart(ToSet(f))
  <2>1. \A b \in ToSet(f) : b \in Block /\ b.size > 0 BY <1>6, <1>7
  <2>2. \A b, e \in ToSet(f) : b = e \/ Disjoint(b, e) BY <1>7, <1>12
  <2> QED BY <2>1, <2>2 DEF AllApart
<1>16. c.free = f /\ c.used = a.used BY <1>3
<1>17. BlocksOf(c) = a.used \union ToSet(f) /\ BlocksOf(a) = a.used \union S
  BY <1>16 DEF BlocksOf, S
<1>18. ASSUME NEW u \in a.used, NEW b \in ToSet(f), NEW p \in Nat, NEW x \in Nat,
              Within(u, p, x), Within(b, p, x)
       PROVE  FALSE
  <2>1. Covered(ToSet(f), p, x) BY <1>18 DEF Covered
  <2>2. PICK e \in S : Within(e, p, x) BY <1>9, <2>1 DEF Covered
  <2>3. u \in BlocksOf(a) /\ e \in BlocksOf(a) BY <1>17
  <2>4. u = e BY <1>1, <1>18, <2>2, <2>3, OneBlockPerByte
  <2> QED BY <1>1, <2>4
<1>19. \A b \in a.used : b \in Block /\ b.size > 0 BY <1>1, <1>17 DEF AllApart
<1>20. ASSUME NEW u \in a.used, NEW b \in ToSet(f)
       PROVE  u # b /\ Disjoint(u, b) /\ Disjoint(b, u)
  <2>1. u \in Block /\ u.size > 0 /\ b \in Block /\ b.size > 0 BY <1>15, <1>19 DEF AllApart
  <2>2. \A p, x \in Nat : ~(Within(u, p, x) /\ Within(b, p, x)) BY <1>18
  <2>3. Disjoint(u, b) /\ Disjoint(b, u) BY <2>1, <2>2, NoByteInBoth
  <2>4. u # b
    <3>1. Within(u, u.buffer, u.offset) BY <2>1, EndsWithin
    <3>2. u.buffer \in Nat /\ u.offset \in Nat BY <2>1, BlockIs
    <3> QED BY <2>2, <3>1, <3>2
  <2> QED BY <2>3, <2>4
<1>21. AllApart(BlocksOf(c))
  <2>1. \A b \in BlocksOf(c) : b \in Block /\ b.size > 0 BY <1>15, <1>17, <1>19 DEF AllApart
  <2>2. \A b, e \in a.used : b = e \/ Disjoint(b, e) BY <1>1, <1>17 DEF AllApart
  <2>3. \A b, e \in ToSet(f) : b = e \/ Disjoint(b, e) BY <1>15 DEF AllApart
  <2>4. \A b, e \in BlocksOf(c) : b = e \/ Disjoint(b, e) BY <1>17, <1>20, <2>2, <2>3
  <2> QED BY <2>1, <2>4 DEF AllApart
<1>22. SameBytes(BlocksOf(a), BlocksOf(c)) BY <1>9, <1>17 DEF SameBytes, Covered
<1>23. Tidy(c)
  <2>1. c \in [free : Seq(Block), used : SUBSET Block] BY <1>1, <1>3, <1>6
  <2>2. c.used \intersect ToSet(c.free) = {} BY <1>16, <1>20
  <2> QED BY <1>13, <1>16, <1>21, <2>1, <2>2 DEF Tidy
<1> QED BY <1>10, <1>14, <1>16, <1>22, <1>23 DEF c, S

-----------------------------------------------------------------------------
(* What is left when no block is in use.                                    *)

\* A page of free blocks that are not side by side is one block.
LEMMA OneBlockPerPage ==
    ASSUME NEW S, AllApart(S), NEW n \in Nat, NEW p \in Nat,
           \A b \in S : b.buffer = p => End(b) <= n,
           \A x \in 0 .. n - 1 : Covered(S, p, x),
           \A b, e \in S : b # e => b.buffer # e.buffer \/ End(b) # e.offset,
           NEW b \in S, NEW c \in S, b.buffer = p, c.buffer = p
    PROVE  b = c
<1>1. ASSUME NEW d \in S, NEW e \in S, d.buffer = p, e.buffer = p, d.offset < e.offset
      PROVE  FALSE
  <2>1. d \in Block /\ e \in Block /\ e.size > 0 BY DEF AllApart
  <2>2. /\ d.offset \in Nat /\ e.offset \in Nat /\ e.size \in Nat
        /\ End(e) = e.offset + e.size /\ End(e) <= n
    BY <1>1, <2>1, BlockIs
  <2> DEFINE x == e.offset - 1
  <2>3. x \in 0 .. n - 1 /\ x \in Nat BY <1>1, <2>1, <2>2
  <2>4. PICK f \in S : Within(f, p, x) BY <2>3 DEF Covered
  <2>5. f \in Block /\ f.size > 0 BY DEF AllApart
  <2>6. /\ f.offset \in Nat /\ f.size \in Nat /\ End(f) = f.offset + f.size
        /\ f.buffer = p /\ f.offset <= x /\ x < End(f)
    BY <2>4, <2>5, BlockIs DEF Within
  <2>7. f # e BY <2>2, <2>6
  <2>8. Disjoint(f, e) BY <2>7 DEF AllApart
  <2>9. End(f) = e.offset BY <1>1, <2>1, <2>2, <2>6, <2>8 DEF Disjoint
  <2> QED BY <1>1, <2>6, <2>7, <2>9
<1>2. b.offset \in Nat /\ c.offset \in Nat
  <2>1. b \in Block /\ c \in Block BY DEF AllApart
  <2> QED BY <2>1, BlockIs
<1>3. ~(b.offset < c.offset) /\ ~(c.offset < b.offset) BY <1>1
<1>4. b.offset = c.offset BY <1>2, <1>3
<1> QED BY <1>4, OneBlockPerPlace

-----------------------------------------------------------------------------
(* The pages and the dynamic buffers that have a block of one.              *)

\* Where a block may start: at a whole index of every format in use.
Aligned(n) == n % 2 = 0 /\ ((\E f \in Flags : "INDEX32" \in f) => n % 4 = 0)

PagesOf(a) == {b.buffer : b \in BlocksOf(a)}

\* The blocks of a page fill it.
Filled(a, size) ==
    /\ Tidy(a)
    /\ \A b \in BlocksOf(a) :
          b.buffer \in DOMAIN size /\ End(b) <= size[b.buffer] /\ Aligned(b.offset)
    /\ \A p \in PagesOf(a) : \A x \in 0 .. size[p] - 1 : Covered(BlocksOf(a), p, x)

Sizing(size) == size \in [DOMAIN size -> Nat] /\ DOMAIN size \subseteq Buffers

PagedIn(f) == {d \in DOMAIN f : "COMPUTE_READ" \notin f[d].flags}
OwnIn(f) == {d \in DOMAIN f : "COMPUTE_READ" \in f[d].flags}

\* The blocks in use are those of the dynamic buffers, one each.
Held(a, f) ==
    /\ \A d \in PagedIn(f) : \E b \in a.used :
          b.buffer = f[d].buffer /\ b.offset = f[d].offset /\ f[d].size <= b.size
    /\ \A b \in a.used : \E d \in PagedIn(f) :
          f[d].buffer = b.buffer /\ f[d].offset = b.offset
    /\ \A d, e \in PagedIn(f) :
          f[d].buffer = f[e].buffer /\ f[d].offset = f[e].offset => d = e

\* Two offsets one after the other.
LEMMA AlignedSum ==
    ASSUME NEW m \in Nat, NEW n \in Nat, Aligned(m), Aligned(n)
    PROVE  Aligned(m + n)
<1>1. m % 2 = 0 /\ n % 2 = 0 => (m + n) % 2 = 0 OBVIOUS
<1>2. m % 4 = 0 /\ n % 4 = 0 => (m + n) % 4 = 0 OBVIOUS
<1> QED BY <1>1, <1>2 DEF Aligned

\* Blocks that cover the same bytes are of the same pages.
LEMMA SamePages ==
    ASSUME NEW S, NEW T, AllApart(S), AllApart(T), SameBytes(S, T)
    PROVE  {b.buffer : b \in S} = {b.buffer : b \in T}
<1>1. ASSUME NEW U, NEW V, AllApart(U), SameBytes(U, V), NEW b \in U
      PROVE  \E c \in V : c.buffer = b.buffer
  <2>1. b \in Block /\ b.size > 0 BY <1>1 DEF AllApart
  <2>2. Within(b, b.buffer, b.offset) /\ b.buffer \in Nat /\ b.offset \in Nat
    BY <2>1, EndsWithin, BlockIs
  <2>3. Covered(U, b.buffer, b.offset) BY <2>2 DEF Covered
  <2>4. Covered(V, b.buffer, b.offset) BY <1>1, <2>2, <2>3 DEF SameBytes
  <2> QED BY <2>4 DEF Covered, Within
<1>2. SameBytes(T, S) BY DEF SameBytes
<1>3. \A b \in S : \E c \in T : c.buffer = b.buffer BY <1>1
<1>4. \A b \in T : \E c \in S : c.buffer = b.buffer BY <1>1, <1>2
<1> QED BY <1>3, <1>4

\* Another division of the same bytes.
LEMMA FilledAgain ==
    ASSUME NEW a, NEW size, Filled(a, size), Sizing(size), NEW c, Tidy(c),
           SameBytes(BlocksOf(a), BlocksOf(c)), \A b \in BlocksOf(c) : Aligned(b.offset)
    PROVE  Filled(c, size) /\ PagesOf(c) = PagesOf(a)
<1>1. Tidy(a) BY DEF Filled
<1>2. AllApart(BlocksOf(a)) /\ AllApart(BlocksOf(c)) BY <1>1 DEF Tidy
<1>3. PagesOf(c) = PagesOf(a)
  <2> DEFINE S == BlocksOf(a)
             T == BlocksOf(c)
  <2> HIDE DEF S, T
  <2>1. {b.buffer : b \in S} = {b.buffer : b \in T} BY <1>2, SamePages DEF S, T
  <2> QED BY <2>1 DEF PagesOf, S, T
<1>4. ASSUME NEW b \in BlocksOf(c)
      PROVE  b.buffer \in DOMAIN size /\ End(b) <= size[b.buffer]
  <2>1. b \in Block /\ b.size > 0 BY <1>2 DEF AllApart
  <2>2. /\ Within(b, b.buffer, End(b) - 1) /\ b.buffer \in Nat /\ End(b) - 1 \in Nat
        /\ End(b) \in Nat
    BY <2>1, EndsWithin, BlockIs
  <2>3. Covered(BlocksOf(c), b.buffer, End(b) - 1) BY <2>2 DEF Covered
  <2>4. Covered(BlocksOf(a), b.buffer, End(b) - 1) BY <2>2, <2>3 DEF SameBytes
  <2>5. PICK e \in BlocksOf(a) : Within(e, b.buffer, End(b) - 1) BY <2>4 DEF Covered
  <2>6. e.buffer = b.buffer /\ End(b) - 1 < End(e) BY <2>5 DEF Within
  <2>7. e.buffer \in DOMAIN size /\ End(e) <= size[e.buffer] BY DEF Filled
  <2>8. e \in Block /\ End(e) \in Nat
    <3>1. e \in Block BY <1>2 DEF AllApart
    <3> QED BY <3>1, BlockIs
  <2>9. size[e.buffer] \in Nat BY <2>7 DEF Sizing
  <2> QED BY <2>2, <2>6, <2>7, <2>8, <2>9
<1>5. ASSUME NEW p \in PagesOf(c), NEW x \in 0 .. size[p] - 1
      PROVE  Covered(BlocksOf(c), p, x)
  <2>1. p \in Nat
    <3>1. PICK b \in BlocksOf(c) : p = b.buffer BY DEF PagesOf
    <3>2. b \in Block BY <1>2 DEF AllApart
    <3> QED BY <3>1, <3>2, BlockIs
  <2>2. p \in PagesOf(a) BY <1>3
  <2>3. Covered(BlocksOf(a), p, x) BY <2>2 DEF Filled
  <2>4. size[p] \in Nat
    <3>1. PICK b \in BlocksOf(c) : p = b.buffer BY DEF PagesOf
    <3> QED BY <1>4, <3>1 DEF Sizing
  <2>5. x \in Nat BY <2>4
  <2> QED BY <2>1, <2>3, <2>5 DEF SameBytes
<1>6. Filled(c, size) BY <1>4, <1>5 DEF Filled
<1> QED BY <1>3, <1>6

\* A function with one argument less.
LEMMA WithoutIs ==
    ASSUME NEW f, NEW d
    PROVE  LET g == Restrict(f, DOMAIN f \ {d})
           IN  DOMAIN g = DOMAIN f \ {d} /\ \A e \in DOMAIN f \ {d} : g[e] = f[e]
  BY DEF Restrict

\* A function with one argument more.
LEMMA WithIs ==
    ASSUME NEW f, NEW d, NEW y
    PROVE  LET g == With(f, d, y)
           IN  /\ DOMAIN g = DOMAIN f \union {d} /\ g[d] = y
               /\ \A e \in DOMAIN f : e # d => g[e] = f[e]
  BY DEF With

Freed(a, b) == Compact(Free(a, b.buffer, b.offset))

\* free and compact, for a dynamic buffer that has a block.
LEMMA FreedKeeps ==
    ASSUME NEW a, NEW size, Filled(a, size), Sizing(size), NEW f, Held(a, f), NEW d \in PagedIn(f)
    PROVE  LET c == Freed(a, f[d])
           IN  /\ Filled(c, size) /\ PagesOf(c) = PagesOf(a)
               /\ Held(c, Restrict(f, DOMAIN f \ {d}))
               /\ \A b, e \in ToSet(c.free) : b # e => b.buffer # e.buffer \/ End(b) # e.offset
<1> DEFINE p == f[d].buffer
           o == f[d].offset
           m == Free(a, p, o)
           c == Compact(m)
           g == Restrict(f, DOMAIN f \ {d})
<1>1. Tidy(a) BY DEF Filled
<1>2. /\ Tidy(m) /\ BlocksOf(m) = BlocksOf(a)
      /\ m.used = a.used \ At(a, p, o) /\ ToSet(m.free) = ToSet(a.free) \union At(a, p, o)
  BY <1>1, FreeKeeps
<1> HIDE DEF m
<1>3. /\ Tidy(c) /\ c.used = m.used /\ SameBytes(BlocksOf(m), BlocksOf(c))
      /\ \A b \in ToSet(c.free) : \E e \in ToSet(m.free) :
            e.buffer = b.buffer /\ e.offset = b.offset
      /\ \A b, e \in ToSet(c.free) : b # e => b.buffer # e.buffer \/ End(b) # e.offset
  BY <1>2, CompactKeeps
<1> HIDE DEF c
<1>4. \A b \in BlocksOf(c) : Aligned(b.offset)
  <2>1. \A b \in BlocksOf(m) : Aligned(b.offset) BY <1>2 DEF Filled
  <2>2. ToSet(m.free) \subseteq BlocksOf(m) /\ m.used \subseteq BlocksOf(m) BY DEF BlocksOf
  <2>3. \A b \in ToSet(c.free) : Aligned(b.offset) BY <1>3, <2>1, <2>2
  <2>4. \A b \in c.used : Aligned(b.offset) BY <1>3, <2>1, <2>2
  <2> QED BY <2>3, <2>4 DEF BlocksOf
<1>5. Filled(c, size) /\ PagesOf(c) = PagesOf(a) BY <1>2, <1>3, <1>4, FilledAgain
<1>6. DOMAIN g = DOMAIN f \ {d} /\ \A e \in DOMAIN f \ {d} : g[e] = f[e] BY WithoutIs
<1> HIDE DEF g
<1>7. PagedIn(g) = PagedIn(f) \ {d} /\ \A e \in PagedIn(g) : e \in PagedIn(f) /\ g[e] = f[e]
  BY <1>6 DEF PagedIn
<1>8. \A b : b \in c.used <=> b \in a.used /\ ~(b.buffer = p /\ b.offset = o)
  BY <1>2, <1>3 DEF At
<1>9. Held(c, g)
  <2>1. ASSUME NEW e \in PagedIn(g)
        PROVE  \E b \in c.used : b.buffer = g[e].buffer /\ b.offset = g[e].offset /\ g[e].size <= b.size
    <3>1. e \in PagedIn(f) /\ g[e] = f[e] /\ e # d BY <1>7
    <3>2. PICK b \in a.used : b.buffer = f[e].buffer /\ b.offset = f[e].offset /\ f[e].size <= b.size
      BY <3>1 DEF Held
    <3>3. ~(f[e].buffer = p /\ f[e].offset = o) BY <3>1 DEF Held
    <3> QED BY <1>8, <3>1, <3>2, <3>3
  <2>2. ASSUME NEW b \in c.used
        PROVE  \E e \in PagedIn(g) : g[e].buffer = b.buffer /\ g[e].offset = b.offset
    <3>1. b \in a.used /\ ~(b.buffer = p /\ b.offset = o) BY <1>8
    <3>2. PICK e \in PagedIn(f) : f[e].buffer = b.buffer /\ f[e].offset = b.offset BY <3>1 DEF Held
    <3>3. e # d BY <3>1, <3>2
    <3> QED BY <1>7, <3>2, <3>3
  <2>3. \A e, h \in PagedIn(g) :
            g[e].buffer = g[h].buffer /\ g[e].offset = g[h].offset => e = h
    BY <1>7 DEF Held
  <2> QED BY <2>1, <2>2, <2>3 DEF Held
<1> QED BY <1>3, <1>5, <1>9 DEF c, g, m, Freed

\* alloc, for a dynamic buffer that has none.
LEMMA TakenKeeps ==
    ASSUME NEW a, NEW size, Filled(a, size), Sizing(size), NEW f, Held(a, f), NEW d, d \notin DOMAIN f,
           NEW n \in Nat, Fits(a, n) # {}, Aligned(Rounded(n)), NEW y
    PROVE  LET r == Alloc(a, n)
           IN  /\ Filled(r.left, size) /\ PagesOf(r.left) = PagesOf(a) /\ r.block \in Block
               /\ r.block \in BlocksOf(r.left)
               /\ (/\ y.buffer = r.block.buffer /\ y.offset = r.block.offset
                   /\ y.size <= n /\ y.size \in Nat /\ "COMPUTE_READ" \notin y.flags
                   => Held(r.left, With(f, d, y)))
<1> DEFINE r == Alloc(a, n)
           g == With(f, d, y)
<1>1. Tidy(a) BY DEF Filled
<1>2. /\ Tidy(r.left) /\ r.block \in Block /\ r.block.size = Rounded(n)
      /\ r.left.used = a.used \union {r.block} /\ r.block \notin a.used
      /\ SameBytes(BlocksOf(a), BlocksOf(r.left))
      /\ \E c \in ToSet(a.free) : c.buffer = r.block.buffer /\ c.offset = r.block.offset
      /\ \A c \in ToSet(r.left.free) :
            \/ c \in ToSet(a.free)
            \/ c.buffer = r.block.buffer /\ c.offset = r.block.offset + Rounded(n)
  BY <1>1, AllocKeeps
<1> HIDE DEF r
<1>3. \A b \in BlocksOf(a) : b \in Block /\ Aligned(b.offset)
  BY <1>1 DEF Filled, Tidy, AllApart
<1>4. Aligned(r.block.offset)
  <2>1. PICK c \in ToSet(a.free) : c.offset = r.block.offset BY <1>2
  <2>2. c \in BlocksOf(a) BY DEF BlocksOf
  <2> QED BY <1>3, <2>1, <2>2
<1>5. Rounded(n) \in Nat /\ Rounded(n) >= n BY RoundedIs
<1>6. Aligned(r.block.offset + Rounded(n))
  <2>1. r.block.offset \in Nat BY <1>2, BlockIs
  <2> QED BY <1>4, <1>5, <2>1, AlignedSum
<1>7. \A b \in BlocksOf(r.left) : Aligned(b.offset)
  <2>1. \A b \in ToSet(r.left.free) : Aligned(b.offset)
    <3>1. ToSet(a.free) \subseteq BlocksOf(a) BY DEF BlocksOf
    <3> QED BY <1>2, <1>3, <1>6, <3>1
  <2>2. \A b \in r.left.used : Aligned(b.offset)
    <3>1. a.used \subseteq BlocksOf(a) BY DEF BlocksOf
    <3> QED BY <1>2, <1>3, <1>4, <3>1
  <2> QED BY <2>1, <2>2 DEF BlocksOf
<1>8. Filled(r.left, size) /\ PagesOf(r.left) = PagesOf(a) BY <1>2, <1>7, FilledAgain
<1>9. ASSUME y.buffer = r.block.buffer, y.offset = r.block.offset, y.size <= n, y.size \in Nat,
             "COMPUTE_READ" \notin y.flags
      PROVE  Held(r.left, g)
  <2>1. DOMAIN g = DOMAIN f \union {d} /\ g[d] = y /\ \A e \in DOMAIN f : g[e] = f[e]
    BY DEF With
  <2> HIDE DEF g
  <2>2. /\ PagedIn(g) = PagedIn(f) \union {d}
        /\ \A e \in PagedIn(f) : g[e] = f[e] /\ e # d
    BY <1>9, <2>1 DEF PagedIn
  <2>3. \A b \in a.used : ~(b.buffer = y.buffer /\ b.offset = y.offset)
    <3>1. AllApart(BlocksOf(r.left)) BY <1>2 DEF Tidy
    <3>2. r.block \in BlocksOf(r.left) /\ \A b \in a.used : b \in BlocksOf(r.left) /\ b # r.block
      BY <1>2 DEF BlocksOf
    <3> QED BY <1>9, <3>1, <3>2, OneBlockPerPlace
  <2>4. ASSUME NEW e \in PagedIn(g)
        PROVE  \E b \in r.left.used :
                  b.buffer = g[e].buffer /\ b.offset = g[e].offset /\ g[e].size <= b.size
    <3>1. CASE e = d
      <4>1. g[e].size <= r.block.size BY <1>2, <1>5, <1>9, <2>1, <3>1
      <4> QED BY <1>2, <1>9, <2>1, <3>1, <4>1
    <3>2. CASE e # d
      <4>1. e \in PagedIn(f) /\ g[e] = f[e] BY <2>2, <3>2
      <4> QED BY <1>2, <4>1 DEF Held
    <3> QED BY <3>1, <3>2
  <2>5. ASSUME NEW b \in r.left.used
        PROVE  \E e \in PagedIn(g) : g[e].buffer = b.buffer /\ g[e].offset = b.offset
    <3>1. CASE b = r.block BY <1>9, <2>1, <2>2, <3>1
    <3>2. CASE b # r.block
      <4>1. b \in a.used BY <1>2, <3>2
      <4> QED BY <2>2, <4>1 DEF Held
    <3> QED BY <3>1, <3>2
  <2>6. \A e \in PagedIn(f) : ~(f[e].buffer = y.buffer /\ f[e].offset = y.offset)
    BY <2>3 DEF Held
  <2>7. \A e, h \in PagedIn(g) :
            g[e].buffer = g[h].buffer /\ g[e].offset = g[h].offset => e = h
    BY <2>1, <2>2, <2>6 DEF Held
  <2> QED BY <2>4, <2>5, <2>7 DEF Held
<1>10. r.block \in BlocksOf(r.left) BY <1>2 DEF BlocksOf
<1> QED BY <1>2, <1>8, <1>9, <1>10 DEF r, g

-----------------------------------------------------------------------------
(* The records that the steps of a call work on.                            *)

Sizings == UNION {[B -> Nat] : B \in SUBSET Buffers}
Allocators == [free : Seq(Block), used : SUBSET Block]
Frames == [pre : Seq(Cmds), post : Seq(Cmds), draws : SUBSET Ranges,
           freeIndexBuffer : Seq(Buffers)]
States == [size : Sizings, allocator : Allocators, frame : Frames]

CreateCmd(b) == [op |-> "Create", buffer |-> b]
DestroyCmd(b) == [op |-> "Destroy", buffer |-> b]
WriteCmd(r) == [op |-> "Write", range |-> r]

\* The three kinds of command.
LEMMA CmdsAre ==
    /\ \A b \in Buffers : CreateCmd(b) \in Cmds /\ DestroyCmd(b) \in Cmds
    /\ \A r \in Ranges : WriteCmd(r) \in Cmds
<1>1. Buffers \subseteq Nat BY BuffersAssumption
<1> QED BY <1>1 DEF Cmds, CreateCmd, DestroyCmd, WriteCmd

\* The sizes of index buffers.
LEMMA SizingIs ==
    ASSUME NEW size
    PROVE  size \in Sizings <=> Sizing(size)
<1>1. size \in Sizings => Sizing(size) BY DEF Sizings, Sizing
<1>2. ASSUME Sizing(size) PROVE size \in Sizings
  <2>1. DOMAIN size \in SUBSET Buffers /\ size \in [DOMAIN size -> Nat] BY <1>2 DEF Sizing
  <2> QED BY <2>1, Zenon DEF Sizings
<1> QED BY <1>1, <1>2

\* The size of one more index buffer.
LEMMA SizingMore ==
    ASSUME NEW size, Sizing(size), NEW b \in Buffers, NEW n \in Nat
    PROVE  LET g == With(size, b, n)
           IN  /\ Sizing(g) /\ DOMAIN g = DOMAIN size \union {b} /\ g[b] = n
               /\ \A c \in DOMAIN size : c # b => g[c] = size[c]
  BY DEF Sizing, With

\* pre, a command more.
Recorded(f, c) == [f EXCEPT !.pre = Append(@, c)]

\* Recording a command changes pre only.
LEMMA RecordedDoes ==
    ASSUME NEW f \in Frames, NEW c \in Cmds
    PROVE  LET g == Recorded(f, c)
           IN  /\ g \in Frames /\ g.pre = Append(f.pre, c) /\ g.post = f.post
               /\ g.draws = f.draws /\ g.freeIndexBuffer = f.freeIndexBuffer
<1>1. f.pre \in Seq(Cmds) BY DEF Frames
<1> DEFINE p == Append(f.pre, c)
<1>2. p \in Seq(Cmds) BY <1>1, AppendProperties
<1>3. Recorded(f, c) = [f EXCEPT !.pre = p] BY DEF Recorded
<1> HIDE DEF p
<1>4. LET g == [f EXCEPT !.pre = p]
      IN  /\ g \in Frames /\ g.pre = p /\ g.post = f.post
          /\ g.draws = f.draws /\ g.freeIndexBuffer = f.freeIndexBuffer
  BY <1>2 DEF Frames
<1> QED BY <1>3, <1>4 DEF p

\* A state with another frame.
LEMMA WithFrame ==
    ASSUME NEW s \in States, NEW f \in Frames
    PROVE  LET t == [s EXCEPT !.frame = f]
           IN  t \in States /\ t.size = s.size /\ t.allocator = s.allocator /\ t.frame = f
  BY DEF States

\* A state with other sizes.
LEMMA WithSize ==
    ASSUME NEW s \in States, NEW m \in Sizings
    PROVE  LET t == [s EXCEPT !.size = m]
           IN  t \in States /\ t.size = m /\ t.allocator = s.allocator /\ t.frame = s.frame
  BY DEF States

\* A state with another allocator.
LEMMA WithAllocator ==
    ASSUME NEW s \in States, NEW a \in Allocators
    PROVE  LET t == [s EXCEPT !.allocator = a]
           IN  t \in States /\ t.size = s.size /\ t.allocator = a /\ t.frame = s.frame
  BY DEF States

\* The fields of a state.
LEMMA StateFields ==
    ASSUME NEW s \in States
    PROVE  /\ s.size \in Sizings /\ Sizing(s.size) /\ s.allocator \in Allocators
           /\ s.frame \in Frames
           /\ s.frame.pre \in Seq(Cmds) /\ s.frame.post \in Seq(Cmds)
           /\ s.frame.draws \subseteq Ranges /\ s.frame.freeIndexBuffer \in Seq(Buffers)
<1>1. s.size \in Sizings /\ s.allocator \in Allocators /\ s.frame \in Frames BY DEF States
<1>2. Sizing(s.size) BY <1>1, SizingIs
<1> QED BY <1>1, <1>2 DEF Frames

\* NewBuffer, field by field.
LEMMA NewBufferDoes ==
    ASSUME NEW s \in States, NEW b \in Buffers, NEW n \in Nat
    PROVE  LET t == NewBuffer(s, b, n)
           IN  /\ t \in States /\ t.size = With(s.size, b, n) /\ t.allocator = s.allocator
               /\ t.frame.pre = Append(s.frame.pre, CreateCmd(b))
               /\ t.frame.post = s.frame.post /\ t.frame.draws = s.frame.draws
               /\ t.frame.freeIndexBuffer = s.frame.freeIndexBuffer
<1> DEFINE m == With(s.size, b, n)
           c == CreateCmd(b)
           f == Recorded(s.frame, c)
           u == [s EXCEPT !.size = m]
           t == [u EXCEPT !.frame = f]
<1>1. NewBuffer(s, b, n) = [s EXCEPT !.size = m, !.frame.pre = Append(@, c)]
  BY DEF NewBuffer, CreateCmd
<1>2. m \in Sizings /\ c \in Cmds /\ s.frame \in Frames
  BY StateFields, SizingMore, SizingIs, CmdsAre
<1> HIDE DEF m, c
<1>3. /\ f \in Frames /\ f.pre = Append(s.frame.pre, c) /\ f.post = s.frame.post
      /\ f.draws = s.frame.draws /\ f.freeIndexBuffer = s.frame.freeIndexBuffer
  BY <1>2, RecordedDoes
<1>4. [s EXCEPT !.size = m, !.frame.pre = Append(@, c)]
      = [[s EXCEPT !.size = m] EXCEPT !.frame = [s.frame EXCEPT !.pre = Append(s.frame.pre, c)]]
  OBVIOUS
<1>5. NewBuffer(s, b, n) = t BY <1>1, <1>4 DEF Recorded
<1> HIDE DEF f
<1>6. u \in States /\ u.size = m /\ u.allocator = s.allocator BY <1>2, WithSize
<1> HIDE DEF u
<1>7. t \in States /\ t.size = u.size /\ t.allocator = u.allocator /\ t.frame = f
  BY <1>3, <1>6, WithFrame
<1> HIDE DEF t
<1> QED BY <1>3, <1>5, <1>6, <1>7 DEF m, c

\* Destroy, field by field.
LEMMA DestroyDoes ==
    ASSUME NEW s \in States, NEW b \in Buffers
    PROVE  LET t == Destroy(s, b)
           IN  /\ t \in States /\ t.size = s.size /\ t.allocator = s.allocator
               /\ t.frame.pre = s.frame.pre /\ t.frame.draws = s.frame.draws
               /\ t.frame.post = Append(s.frame.post, DestroyCmd(b))
               /\ t.frame.freeIndexBuffer = Append(s.frame.freeIndexBuffer, b)
<1> DEFINE c == DestroyCmd(b)
           q == Append(s.frame.freeIndexBuffer, b)
           w == Append(s.frame.post, c)
           g == [s.frame EXCEPT !.freeIndexBuffer = q]
           f == [g EXCEPT !.post = w]
           t == [s EXCEPT !.frame = f]
<1>1. Destroy(s, b) = [s EXCEPT !.frame.freeIndexBuffer = q, !.frame.post = w]
  BY DEF Destroy, DestroyCmd
<1>2. q \in Seq(Buffers) /\ w \in Seq(Cmds) /\ s.frame \in Frames
  BY StateFields, CmdsAre, AppendProperties
<1> HIDE DEF q, w
<1>3. [s EXCEPT !.frame.freeIndexBuffer = q, !.frame.post = w] = t BY DEF States, Frames
<1>4. g \in Frames /\ g.freeIndexBuffer = q /\ g.pre = s.frame.pre /\ g.post = s.frame.post
      /\ g.draws = s.frame.draws
  BY <1>2 DEF Frames
<1> HIDE DEF g
<1>5. f \in Frames /\ f.freeIndexBuffer = g.freeIndexBuffer /\ f.pre = g.pre /\ f.post = w
      /\ f.draws = g.draws
  BY <1>2, <1>4 DEF Frames
<1> HIDE DEF f
<1>6. t \in States /\ t.size = s.size /\ t.allocator = s.allocator /\ t.frame = f
  BY <1>5, WithFrame
<1> HIDE DEF t
<1> QED BY <1>1, <1>3, <1>4, <1>5, <1>6 DEF q, w, c

\* A write that is recorded, field by field.
LEMMA WriteDoes ==
    ASSUME NEW s \in States, NEW r \in Ranges
    PROVE  LET t == [s EXCEPT !.frame.pre = Append(@, WriteCmd(r))]
           IN  /\ t \in States /\ t.size = s.size /\ t.allocator = s.allocator
               /\ t.frame.pre = Append(s.frame.pre, WriteCmd(r))
               /\ t.frame.post = s.frame.post /\ t.frame.draws = s.frame.draws
               /\ t.frame.freeIndexBuffer = s.frame.freeIndexBuffer
<1> DEFINE c == WriteCmd(r)
           f == Recorded(s.frame, c)
           t == [s EXCEPT !.frame = f]
<1>1. c \in Cmds /\ s.frame \in Frames BY StateFields, CmdsAre
<1> HIDE DEF c
<1>2. [s EXCEPT !.frame.pre = Append(@, c)] = t BY DEF Recorded
<1>3. /\ f \in Frames /\ f.pre = Append(s.frame.pre, c) /\ f.post = s.frame.post
      /\ f.draws = s.frame.draws /\ f.freeIndexBuffer = s.frame.freeIndexBuffer
  BY <1>1, RecordedDoes
<1> HIDE DEF f
<1>4. t \in States /\ t.size = s.size /\ t.allocator = s.allocator /\ t.frame = f
  BY <1>3, WithFrame
<1> HIDE DEF t
<1> QED BY <1>2, <1>3, <1>4 DEF c

-----------------------------------------------------------------------------
(* Owners of index buffers: static ones A, pages P, dynamic buffers' own O,  *)
(* and those that wait for the frame, Q.                                     *)

Parts(B, A, P, O, Q) ==
    /\ B = Transients \union A \union P \union O \union Q
    /\ Transients \intersect A = {} /\ Transients \intersect P = {}
    /\ Transients \intersect O = {} /\ Transients \intersect Q = {}
    /\ A \intersect P = {} /\ A \intersect O = {} /\ A \intersect Q = {}
    /\ P \intersect O = {} /\ P \intersect Q = {} /\ O \intersect Q = {}

OwnBuffers(f) == {f[d].buffer : d \in OwnIn(f)}

Owned(size, P, f, A, q) ==
    /\ q \in Seq(Buffers) /\ IsInjective(q)
    /\ \A d, e \in OwnIn(f) : f[d].buffer = f[e].buffer => d = e
    /\ \A d \in OwnIn(f) : f[d].offset = 0 /\ f[d].size <= size[f[d].buffer]
    /\ Parts(DOMAIN size, A, P, OwnBuffers(f), ToSet(q))

\* A new index buffer gets its owner.
LEMMA PartsAdd ==
    ASSUME NEW B, NEW A, NEW P, NEW O, NEW Q, Parts(B, A, P, O, Q), NEW b, b \notin B
    PROVE  /\ Parts(B \union {b}, A \union {b}, P, O, Q)
           /\ Parts(B \union {b}, A, P \union {b}, O, Q)
           /\ Parts(B \union {b}, A, P, O \union {b}, Q)
  BY DEF Parts

\* An index buffer changes from its owner to the queue, and the queue is emptied.
LEMMA PartsQueue ==
    ASSUME NEW B, NEW A, NEW P, NEW O, NEW Q, Parts(B, A, P, O, Q)
    PROVE  /\ \A b \in A : Parts(B, A \ {b}, P, O, Q \union {b}) /\ b \notin Q
           /\ \A b \in O : Parts(B, A, P, O \ {b}, Q \union {b}) /\ b \notin Q
           /\ Parts(B, A, {}, O, Q \union P)
           /\ Parts(B \ Q, A, P, O, {})
  BY DEF Parts

\* The dynamic buffers that have their own index buffer are the same.
LEMMA OwnedAlike ==
    ASSUME NEW size, NEW P, NEW f, NEW A, NEW q, Owned(size, P, f, A, q), NEW g,
           OwnIn(g) = OwnIn(f), \A d \in OwnIn(f) : g[d] = f[d]
    PROVE  Owned(size, P, g, A, q)
<1>1. OwnBuffers(g) = OwnBuffers(f) BY DEF OwnBuffers
<1> QED BY <1>1 DEF Owned

\* One more dynamic buffer that has a block of a page.
LEMMA OwnedPagedMore ==
    ASSUME NEW size, NEW P, NEW f, NEW A, NEW q, Owned(size, P, f, A, q), NEW d, d \notin DOMAIN f,
           NEW y, "COMPUTE_READ" \notin y.flags
    PROVE  Owned(size, P, With(f, d, y), A, q)
<1> DEFINE g == With(f, d, y)
<1>1. DOMAIN g = DOMAIN f \union {d} /\ g[d] = y /\ \A e \in DOMAIN f : g[e] = f[e] BY DEF With
<1> HIDE DEF g
<1>2. OwnIn(g) = OwnIn(f) /\ \A e \in OwnIn(f) : g[e] = f[e] BY <1>1 DEF OwnIn
<1>3. Owned(size, P, g, A, q) BY <1>2, OwnedAlike
<1> QED BY <1>3 DEF g

\* One less of them.
LEMMA OwnedPagedLess ==
    ASSUME NEW size, NEW P, NEW f, NEW A, NEW q, Owned(size, P, f, A, q), NEW d \in PagedIn(f)
    PROVE  Owned(size, P, Restrict(f, DOMAIN f \ {d}), A, q)
<1> DEFINE g == Restrict(f, DOMAIN f \ {d})
<1>1. DOMAIN g = DOMAIN f \ {d} /\ \A e \in DOMAIN f \ {d} : g[e] = f[e] BY DEF Restrict
<1> HIDE DEF g
<1>2. OwnIn(g) = OwnIn(f) /\ \A e \in OwnIn(f) : g[e] = f[e] BY <1>1 DEF OwnIn, PagedIn
<1>3. Owned(size, P, g, A, q) BY <1>2, OwnedAlike
<1> QED BY <1>3 DEF g

\* One more dynamic buffer that has an index buffer to itself.
LEMMA OwnedOwnMore ==
    ASSUME NEW size, NEW P, NEW f, NEW A, NEW q, Owned(size, P, f, A, q), NEW d, d \notin DOMAIN f,
           NEW b, b \notin DOMAIN size, NEW n,
           NEW y, "COMPUTE_READ" \in y.flags, y.buffer = b, y.offset = 0, y.size <= n
    PROVE  Owned(With(size, b, n), P, With(f, d, y), A, q)
<1> DEFINE g == With(f, d, y)
           m == With(size, b, n)
<1>1. DOMAIN g = DOMAIN f \union {d} /\ g[d] = y /\ \A e \in DOMAIN f : g[e] = f[e] BY DEF With
<1>2. DOMAIN m = DOMAIN size \union {b} /\ m[b] = n /\ \A c \in DOMAIN size : m[c] = size[c]
  BY DEF With
<1> HIDE DEF g, m
<1>3. OwnIn(g) = OwnIn(f) \union {d} /\ d \notin OwnIn(f) /\ \A e \in OwnIn(f) : g[e] = f[e]
  BY <1>1 DEF OwnIn
<1>4. OwnBuffers(g) = OwnBuffers(f) \union {b} BY <1>1, <1>3 DEF OwnBuffers
<1>5. \A e \in OwnIn(f) : f[e].buffer \in DOMAIN size BY DEF OwnBuffers, Owned, Parts
<1>6. \A c, e \in OwnIn(g) : g[c].buffer = g[e].buffer => c = e BY <1>1, <1>3, <1>5 DEF Owned
<1>7. \A e \in OwnIn(g) : g[e].offset = 0 /\ g[e].size <= m[g[e].buffer]
  BY <1>1, <1>2, <1>3, <1>5 DEF Owned
<1>8. Parts(DOMAIN m, A, P, OwnBuffers(g), ToSet(q))
  <2>1. Parts(DOMAIN size, A, P, OwnBuffers(f), ToSet(q)) BY DEF Owned
  <2>2. Parts(DOMAIN size \union {b}, A, P, OwnBuffers(f) \union {b}, ToSet(q)) BY <2>1, PartsAdd
  <2> QED BY <1>2, <1>4, <2>2
<1>9. Owned(m, P, g, A, q) BY <1>6, <1>7, <1>8 DEF Owned
<1> QED BY <1>9 DEF g, m

\* One more page, and one more static buffer.
LEMMA OwnedPageMore ==
    ASSUME NEW size, NEW P, NEW f, NEW A, NEW q, Owned(size, P, f, A, q),
           NEW b, b \notin DOMAIN size, NEW n
    PROVE  /\ Owned(With(size, b, n), P \union {b}, f, A, q)
           /\ Owned(With(size, b, n), P, f, A \union {b}, q)
<1> DEFINE m == With(size, b, n)
<1>1. DOMAIN m = DOMAIN size \union {b} /\ m[b] = n /\ \A c \in DOMAIN size : m[c] = size[c]
  BY DEF With
<1> HIDE DEF m
<1>2. \A e \in OwnIn(f) : f[e].buffer \in DOMAIN size BY DEF OwnBuffers, Owned, Parts
<1>3. \A e \in OwnIn(f) : f[e].offset = 0 /\ f[e].size <= m[f[e].buffer]
  BY <1>1, <1>2 DEF Owned
<1>4. /\ Parts(DOMAIN m, A, P \union {b}, OwnBuffers(f), ToSet(q))
      /\ Parts(DOMAIN m, A \union {b}, P, OwnBuffers(f), ToSet(q))
  <2>1. Parts(DOMAIN size, A, P, OwnBuffers(f), ToSet(q)) BY DEF Owned
  <2>2. /\ Parts(DOMAIN size \union {b}, A, P \union {b}, OwnBuffers(f), ToSet(q))
        /\ Parts(DOMAIN size \union {b}, A \union {b}, P, OwnBuffers(f), ToSet(q))
    BY <2>1, PartsAdd
  <2> QED BY <1>1, <2>2
<1>5. Owned(m, P \union {b}, f, A, q) /\ Owned(m, P, f, A \union {b}, q) BY <1>3, <1>4 DEF Owned
<1> QED BY <1>5 DEF m

\* A static buffer is destroyed.
LEMMA OwnedStaticLess ==
    ASSUME NEW size, NEW P, NEW f, NEW A, NEW q, Owned(size, P, f, A, q), NEW b \in A \intersect Buffers
    PROVE  Owned(size, P, f, A \ {b}, Append(q, b))
<1>1. q \in Seq(Buffers) /\ IsInjective(q) /\ b \notin ToSet(q)
      /\ Parts(DOMAIN size, A \ {b}, P, OwnBuffers(f), ToSet(q) \union {b})
  BY PartsQueue DEF Owned
<1>2. Append(q, b) \in Seq(Buffers) /\ IsInjective(Append(q, b))
      /\ ToSet(Append(q, b)) = ToSet(q) \union {b}
  BY <1>1, AppendProperties, AppendInjectively, AppendElements
<1> QED BY <1>1, <1>2 DEF Owned

\* A dynamic buffer that has an index buffer to itself is destroyed.
LEMMA OwnedOwnLess ==
    ASSUME NEW size, NEW P, NEW f, NEW A, NEW q, Owned(size, P, f, A, q), NEW d \in OwnIn(f),
           f[d].buffer \in Buffers
    PROVE  Owned(size, P, Restrict(f, DOMAIN f \ {d}), A, Append(q, f[d].buffer))
<1> DEFINE g == Restrict(f, DOMAIN f \ {d})
           b == f[d].buffer
<1>1. DOMAIN g = DOMAIN f \ {d} /\ \A e \in DOMAIN f \ {d} : g[e] = f[e] BY DEF Restrict
<1> HIDE DEF g
<1>2. OwnIn(g) = OwnIn(f) \ {d} /\ \A e \in OwnIn(g) : e \in OwnIn(f) /\ g[e] = f[e]
  BY <1>1 DEF OwnIn
<1>3. OwnBuffers(g) = OwnBuffers(f) \ {b} BY <1>2 DEF OwnBuffers, Owned
<1>4. b \in OwnBuffers(f) BY DEF OwnBuffers
<1> HIDE DEF b
<1>5. q \in Seq(Buffers) /\ IsInjective(q) /\ b \notin ToSet(q)
      /\ Parts(DOMAIN size, A, P, OwnBuffers(f) \ {b}, ToSet(q) \union {b})
  <2>1. Parts(DOMAIN size, A, P, OwnBuffers(f), ToSet(q)) BY DEF Owned
  <2>2. Parts(DOMAIN size, A, P, OwnBuffers(f) \ {b}, ToSet(q) \union {b}) /\ b \notin ToSet(q)
    BY <1>4, <2>1, PartsQueue
  <2> QED BY <2>2 DEF Owned
<1>6. b \in Buffers BY DEF b
<1>7. Append(q, b) \in Seq(Buffers) /\ IsInjective(Append(q, b))
      /\ ToSet(Append(q, b)) = ToSet(q) \union {b}
  BY <1>5, <1>6, AppendProperties, AppendInjectively, AppendElements
<1>8. Owned(size, P, g, A, Append(q, b)) BY <1>2, <1>3, <1>5, <1>7 DEF Owned
<1> QED BY <1>8 DEF g, b

\* The pages go, one after the other.
LEMMA OwnedNoPages ==
    ASSUME NEW size, NEW P, NEW f, NEW A, NEW q, Owned(size, P, f, A, q), NEW r \in Seq(Buffers),
           IsInjective(r), ToSet(r) = ToSet(q) \union P
    PROVE  Owned(size, {}, f, A, r)
<1>1. Parts(DOMAIN size, A, {}, OwnBuffers(f), ToSet(q) \union P)
  <2>1. Parts(DOMAIN size, A, P, OwnBuffers(f), ToSet(q)) BY DEF Owned
  <2> QED BY <2>1, PartsQueue
<1> QED BY <1>1 DEF Owned

\* frame releases the handles.
LEMMA OwnedReleased ==
    ASSUME NEW size, NEW P, NEW f, NEW A, NEW q, Owned(size, P, f, A, q)
    PROVE  Owned(Restrict(size, DOMAIN size \ ToSet(q)), P, f, A, <<>>)
<1> DEFINE m == Restrict(size, DOMAIN size \ ToSet(q))
<1>1. DOMAIN m = DOMAIN size \ ToSet(q) /\ \A c \in DOMAIN m : m[c] = size[c] BY DEF Restrict
<1> HIDE DEF m
<1>2. Parts(DOMAIN m, A, P, OwnBuffers(f), {})
  <2>1. Parts(DOMAIN size, A, P, OwnBuffers(f), ToSet(q)) BY DEF Owned
  <2>2. Parts(DOMAIN size \ ToSet(q), A, P, OwnBuffers(f), {}) BY <2>1, PartsQueue
  <2> QED BY <1>1, <2>2
<1>3. <<>> \in Seq(Buffers) /\ ToSet(<<>>) = {} /\ IsInjective(<<>>)
  BY EmptySeq DEF ToSet, IsInjective
<1>4. \A e \in OwnIn(f) : f[e].buffer \in DOMAIN m BY <1>2 DEF OwnBuffers, Parts
<1>5. \A e \in OwnIn(f) : f[e].offset = 0 /\ f[e].size <= m[f[e].buffer]
  BY <1>1, <1>4 DEF Owned
<1>6. Owned(m, P, f, A, <<>>) BY <1>2, <1>3, <1>5 DEF Owned
<1> QED BY <1>6 DEF m

-----------------------------------------------------------------------------
(* What the renderer makes of a command buffer.                             *)

Renderers == [buffers : SUBSET Nat, ok : BOOLEAN]

Executes(g, r, w) ==
    /\ g \in [0 .. Len(w) -> Renderers] /\ g[0] = r
    /\ \A k \in 1 .. Len(w) : g[k] = Execute(g[k - 1], w[k])

\* What the renderer does at the command that creates an index buffer.
LEMMA CreateDoes ==
    ASSUME NEW r, NEW b
    PROVE  Execute(r, CreateCmd(b)) = [buffers |-> r.buffers \union {b}, ok |-> r.ok /\ b \notin r.buffers]
  BY DEF Execute, CreateCmd

\* At the command that destroys one.
LEMMA DestroyCmdDoes ==
    ASSUME NEW r, NEW b
    PROVE  Execute(r, DestroyCmd(b)) = [buffers |-> r.buffers \ {b}, ok |-> r.ok /\ b \in r.buffers]
  BY DEF Execute, DestroyCmd

\* At the command that writes to one.
LEMMA WriteCmdDoes ==
    ASSUME NEW r \in Renderers, NEW t
    PROVE  Execute(r, WriteCmd(t)) = [buffers |-> r.buffers, ok |-> r.ok /\ t.buffer \in r.buffers]
<1> DEFINE k == r.ok /\ t.buffer \in r.buffers
<1>1. Execute(r, WriteCmd(t)) = [r EXCEPT !.ok = k] BY DEF Execute, WriteCmd
<1>2. k \in BOOLEAN BY DEF Renderers
<1> HIDE DEF k
<1>3. [r EXCEPT !.ok = k] = [buffers |-> r.buffers, ok |-> k] BY DEF Renderers
<1> QED BY <1>1, <1>3 DEF k

\* A command leaves the renderer in a state it can have.
LEMMA ExecuteType ==
    ASSUME NEW r \in Renderers, NEW c \in Cmds
    PROVE  Execute(r, c) \in Renderers
<1>1. r.buffers \subseteq Nat /\ r.ok \in BOOLEAN BY DEF Renderers
<1>2. CASE c \in [op : {"Create", "Destroy"}, buffer : Nat]
  <2>1. c.buffer \in Nat /\ (c = CreateCmd(c.buffer) \/ c = DestroyCmd(c.buffer))
    BY <1>2 DEF CreateCmd, DestroyCmd
  <2>2. CASE c = CreateCmd(c.buffer)
    <3>1. [buffers |-> r.buffers \union {c.buffer}, ok |-> r.ok /\ c.buffer \notin r.buffers] \in Renderers
      BY <1>1, <2>1 DEF Renderers
    <3> QED BY <2>2, <3>1, CreateDoes
  <2>3. CASE c = DestroyCmd(c.buffer)
    <3>1. [buffers |-> r.buffers \ {c.buffer}, ok |-> r.ok /\ c.buffer \in r.buffers] \in Renderers
      BY <1>1, <2>1 DEF Renderers
    <3> QED BY <2>3, <3>1, DestroyCmdDoes
  <2> QED BY <2>1, <2>2, <2>3
<1>3. CASE c \in [op : {"Write"}, range : Ranges]
  <2>1. c = WriteCmd(c.range) BY <1>3 DEF WriteCmd
  <2>2. [buffers |-> r.buffers, ok |-> r.ok /\ c.range.buffer \in r.buffers] \in Renderers
    BY <1>1 DEF Renderers
  <2> QED BY <2>1, <2>2, WriteCmdDoes
<1> QED BY <1>2, <1>3 DEF Cmds

\* The fold of Execute goes through one state of the renderer per command.
LEMMA ExecutesAre ==
    ASSUME NEW r \in Renderers, NEW w \in Seq(Cmds)
    PROVE  \E g : Executes(g, r, w) /\ g[Len(w)] = FoldLeft(Execute, r, w)
<1> DEFINE n == Len(w)
           Is(it) == it = [s \in SUBSET DOMAIN w |->
                              IF s = {} THEN r ELSE Execute(it[s \ {Max(s)}], w[Max(s)])]
           G == [p \in Renderers \X (1 .. n) |-> Execute(p[1], w[p[2]])]
<1>1. \A x \in Renderers, i \in 1 .. n : G[<<x, i>>] = Execute(x, w[i]) OBVIOUS
<1>2. n \in Nat /\ DOMAIN w = 1 .. n /\ \A i \in 1 .. n : w[i] \in Cmds BY LenProperties
<1>3. G \in [Renderers \X (1 .. n) -> Renderers] BY <1>2, ExecuteType
<1> HIDE DEF G, n
<1>4. \A s \in SUBSET (1 .. n) : s # {} => Max(s) \in 1 .. n BY <1>2, MaxIn
<1>5. \E it : Is(it)
  <2>1. PICK it : Unfolds(it, Renderers, r, n, G) BY <1>2, <1>3, FoldExists
  <2>2. ASSUME NEW s \in SUBSET (1 .. n), s # {}
        PROVE  it[s] = Execute(it[s \ {Max(s)}], w[Max(s)])
    <3>1. it[s \ {Max(s)}] \in Renderers BY <2>1 DEF Unfolds
    <3>2. it[s] = G[<<it[s \ {Max(s)}], Max(s)>>] BY <2>1, <2>2 DEF Unfolds
    <3> QED BY <1>1, <1>4, <2>2, <3>1, <3>2
  <2>3. it = [s \in SUBSET (1 .. n) |-> it[s]] /\ it[{}] = r BY <2>1 DEF Unfolds
  <2>4. [s \in SUBSET (1 .. n) |-> it[s]]
            = [s \in SUBSET (1 .. n) |->
                  IF s = {} THEN r ELSE Execute(it[s \ {Max(s)}], w[Max(s)])]
    BY <2>2, <2>3, Zenon
  <2>5. Is(it) BY <1>2, <2>3, <2>4, Zenon
  <2> QED BY <2>5, Zenon
<1> DEFINE it == CHOOSE it : Is(it)
<1>6. Is(it) BY <1>5, Zenon
<1>7. FoldLeft(Execute, r, w) = it[1 .. n] BY <1>2, Zenon DEF FoldLeft, MapThenFoldSet
<1> HIDE DEF it
<1>8. Follows(it, Renderers, r, n, G)
  <2>1. it[{}] = r /\ \A s \in SUBSET (1 .. n) :
                         s # {} => it[s] = Execute(it[s \ {Max(s)}], w[Max(s)])
    BY <1>2, <1>6
  <2> HIDE DEF Is
  <2> QED BY <1>1, <1>4, <2>1 DEF Follows
<1> HIDE DEF Is
<1>9. PICK g : IsChain(g, Renderers, r, n, G, it[1 .. n]) BY <1>2, <1>3, <1>8, FoldChain
<1>10. ASSUME NEW k \in 1 .. n PROVE g[k] = Execute(g[k - 1], w[k])
  <2>1. g[k - 1] \in Renderers BY <1>2, <1>9 DEF IsChain
  <2>2. g[k] = G[<<g[k - 1], k>>] BY <1>9 DEF IsChain
  <2> QED BY <1>1, <2>1, <2>2
<1>11. Executes(g, r, w) BY <1>9, <1>10 DEF IsChain, n, Executes
<1>12. g[n] = it[1 .. n] BY <1>9 DEF IsChain
<1> QED BY <1>7, <1>11, <1>12 DEF n

\* No command.
LEMMA ExecutedNone ==
    ASSUME NEW r \in Renderers
    PROVE  FoldLeft(Execute, r, <<>>) = r
<1>1. <<>> \in Seq(Cmds) /\ Len(<<>>) = 0 OBVIOUS
<1>2. PICK g : Executes(g, r, <<>>) /\ g[Len(<<>>)] = FoldLeft(Execute, r, <<>>) BY <1>1, ExecutesAre
<1> QED BY <1>1, <1>2 DEF Executes

\* One more command at the end.
LEMMA ExecutedOne ==
    ASSUME NEW r \in Renderers, NEW w \in Seq(Cmds), NEW c \in Cmds
    PROVE  /\ Append(w, c) \in Seq(Cmds)
           /\ FoldLeft(Execute, r, Append(w, c)) = Execute(FoldLeft(Execute, r, w), c)
<1> DEFINE v == Append(w, c)
           n == Len(w)
<1>1. /\ v \in Seq(Cmds) /\ n \in Nat /\ Len(v) = n + 1
      /\ \A i \in 1 .. n : v[i] = w[i]
      /\ v[n + 1] = c
  BY AppendProperties, LenProperties
<1> HIDE DEF v
<1>2. PICK g : Executes(g, r, w) /\ g[n] = FoldLeft(Execute, r, w) BY ExecutesAre
<1>3. PICK e : Executes(e, r, v) /\ e[n + 1] = FoldLeft(Execute, r, v) BY <1>1, ExecutesAre
<1> DEFINE S == {k \in 0 .. n : e[k] = g[k]}
<1> HIDE DEF n
<1>4. 0 \in S BY <1>1, <1>2, <1>3 DEF Executes, n
<1>5. ASSUME NEW k \in 0 .. n - 1, k \in S PROVE k + 1 \in S
  <2>1. k + 1 \in 1 .. n /\ k + 1 \in 1 .. n + 1 /\ (k + 1) - 1 = k /\ k + 1 \in 0 .. n BY <1>1
  <2>2. g[k + 1] = Execute(g[k], w[k + 1]) BY <1>2, <2>1 DEF Executes, n
  <2>3. e[k + 1] = Execute(e[k], v[k + 1]) BY <1>1, <1>3, <2>1 DEF Executes
  <2>4. v[k + 1] = w[k + 1] /\ e[k] = g[k] BY <1>1, <1>5, <2>1
  <2> QED BY <2>1, <2>2, <2>3, <2>4
<1> HIDE DEF S
<1>6. n \in S
  <2>1. n \in Nat /\ n \in 0 .. n BY <1>1
  <2>2. \A k \in 0 .. n : k \in S BY <1>4, <1>5, <2>1, UpTo
  <2> QED BY <2>1, <2>2
<1>7. e[n] = g[n] BY <1>6 DEF S
<1>8. n + 1 \in 1 .. n + 1 /\ (n + 1) - 1 = n BY <1>1
<1>9. e[n + 1] = Execute(e[n], v[n + 1]) BY <1>1, <1>3, <1>8 DEF Executes
<1> QED BY <1>1, <1>2, <1>3, <1>7, <1>9 DEF v

\* Buffers destroyed one after the other.
LEMMA DestroyRun ==
    ASSUME NEW B \in SUBSET Nat, NEW q \in Seq(Buffers), NEW w \in Seq(Cmds),
           Len(w) = Len(q), IsInjective(q), ToSet(q) \subseteq B,
           \A i \in 1 .. Len(w) : w[i] = DestroyCmd(q[i])
    PROVE  FoldLeft(Execute, [buffers |-> B, ok |-> TRUE], w)
           = [buffers |-> B \ ToSet(q), ok |-> TRUE]
<1> DEFINE n == Len(w)
           r == [buffers |-> B, ok |-> TRUE]
           Upto(k) == {q[i] : i \in 1 .. k}
<1>0. r \in Renderers BY DEF Renderers
<1>1. PICK g : Executes(g, r, w) /\ g[n] = FoldLeft(Execute, r, w) BY <1>0, ExecutesAre
<1>2. /\ n \in Nat /\ DOMAIN q = 1 .. n
      /\ g[0] = r /\ \A k \in 1 .. n : g[k] = Execute(g[k - 1], w[k])
  BY <1>1, LenProperties DEF Executes
<1>3. \A i \in 1 .. n : w[i] = DestroyCmd(q[i]) OBVIOUS
<1> HIDE DEF n
<1> DEFINE S == {k \in 0 .. n : g[k] = [buffers |-> B \ Upto(k), ok |-> TRUE]}
<1>4. 0 \in S
  <2>1. B \ Upto(0) = B OBVIOUS
  <2> HIDE DEF Upto
  <2>2. 0 \in 0 .. n BY <1>2
  <2>3. g[0] = [buffers |-> B \ Upto(0), ok |-> TRUE] BY <1>2, <2>1
  <2> QED BY <2>2, <2>3
<1>5. ASSUME NEW k \in 0 .. n - 1, k \in S PROVE k + 1 \in S
  <2>1. k + 1 \in 1 .. n /\ (k + 1) - 1 = k /\ k + 1 \in 0 .. n /\ k \in 0 .. n BY <1>2
  <2> DEFINE b == q[k + 1]
             p == [buffers |-> B \ Upto(k), ok |-> TRUE]
  <2>2. g[k] = p BY <1>5
  <2>3. g[k + 1] = Execute(p, DestroyCmd(b)) BY <1>2, <1>3, <2>1, <2>2
  <2>4. b \in B \ Upto(k)
    <3>1. b \in B BY <1>2, <2>1 DEF ToSet
    <3>2. ASSUME NEW i \in 1 .. k, q[i] = b PROVE FALSE
      <4>1. i \in DOMAIN q /\ k + 1 \in DOMAIN q /\ i # k + 1 BY <1>2, <2>1
      <4> QED BY <3>2, <4>1 DEF IsInjective
    <3> QED BY <3>1, <3>2
  <2>5. B \ Upto(k + 1) = (B \ Upto(k)) \ {b}
    <3>1. 1 .. k + 1 = (1 .. k) \union {k + 1} OBVIOUS
    <3> QED BY <3>1
  <2> HIDE DEF Upto, b
  <2>6. Execute(p, DestroyCmd(b)) = [buffers |-> p.buffers \ {b}, ok |-> p.ok /\ b \in p.buffers]
    BY DestroyCmdDoes
  <2>7. p.buffers = B \ Upto(k) /\ p.ok = TRUE OBVIOUS
  <2>8. Execute(p, DestroyCmd(b)) = [buffers |-> (B \ Upto(k)) \ {b}, ok |-> TRUE]
    BY <2>4, <2>6, <2>7
  <2> QED BY <2>1, <2>3, <2>5, <2>8
<1> HIDE DEF S
<1>6. n \in S
  <2>1. n \in Nat /\ n \in 0 .. n BY <1>2
  <2>2. \A k \in 0 .. n : k \in S BY <1>4, <1>5, <2>1, UpTo
  <2> QED BY <2>1, <2>2
<1>7. Upto(n) = ToSet(q) BY <1>2 DEF ToSet
<1> HIDE DEF Upto
<1> QED BY <1>1, <1>6, <1>7 DEF S, n

-----------------------------------------------------------------------------
(* The commands of a frame, from the index buffers B0 that the renderer has *)
(* before them.                                                             *)

Fresh(B) == [buffers |-> B, ok |-> TRUE]

\* pre finds what it needs and makes of B0 the buffers that are known; post destroys
\* those that wait.
Prepared(frame, B0, B) ==
    /\ FoldLeft(Execute, Fresh(B0), frame.pre) = Fresh(B)
    /\ Len(frame.post) = Len(frame.freeIndexBuffer)
    /\ \A i \in 1 .. Len(frame.post) : frame.post[i] = DestroyCmd(frame.freeIndexBuffer[i])

\* The frame creates one more index buffer.
LEMMA PreparedCreate ==
    ASSUME NEW f \in Frames, NEW g \in Frames, NEW B0 \in SUBSET Nat, NEW B \in SUBSET Nat, Prepared(f, B0, B),
           NEW b \in Buffers, b \notin B, g.pre = Append(f.pre, CreateCmd(b)),
           g.post = f.post, g.freeIndexBuffer = f.freeIndexBuffer
    PROVE  Prepared(g, B0, B \union {b})
<1>1. Fresh(B0) \in Renderers /\ f.pre \in Seq(Cmds) /\ CreateCmd(b) \in Cmds
  BY CmdsAre DEF Fresh, Renderers, Frames
<1>2. FoldLeft(Execute, Fresh(B0), g.pre) = Execute(Fresh(B), CreateCmd(b))
  <2>1. FoldLeft(Execute, Fresh(B0), f.pre) = Fresh(B) BY DEF Prepared
  <2>2. FoldLeft(Execute, Fresh(B0), Append(f.pre, CreateCmd(b)))
        = Execute(FoldLeft(Execute, Fresh(B0), f.pre), CreateCmd(b))
    BY <1>1, ExecutedOne
  <2> QED BY <2>1, <2>2
<1>3. Execute(Fresh(B), CreateCmd(b)) = Fresh(B \union {b})
  <2>1. Fresh(B).buffers = B /\ Fresh(B).ok = TRUE BY DEF Fresh
  <2>2. (Fresh(B).ok /\ b \notin Fresh(B).buffers) = TRUE BY <2>1
  <2> QED BY <2>1, <2>2, CreateDoes DEF Fresh
<1> QED BY <1>2, <1>3 DEF Prepared

\* It writes to one.
LEMMA PreparedWrite ==
    ASSUME NEW f \in Frames, NEW g \in Frames, NEW B0 \in SUBSET Nat, NEW B \in SUBSET Nat, Prepared(f, B0, B),
           NEW t \in Ranges, t.buffer \in B, g.pre = Append(f.pre, WriteCmd(t)),
           g.post = f.post, g.freeIndexBuffer = f.freeIndexBuffer
    PROVE  Prepared(g, B0, B)
<1>1. Fresh(B0) \in Renderers /\ Fresh(B) \in Renderers /\ f.pre \in Seq(Cmds) /\ WriteCmd(t) \in Cmds
  BY CmdsAre DEF Fresh, Renderers, Frames
<1>2. FoldLeft(Execute, Fresh(B0), g.pre) = Execute(Fresh(B), WriteCmd(t))
  <2>1. FoldLeft(Execute, Fresh(B0), f.pre) = Fresh(B) BY DEF Prepared
  <2>2. FoldLeft(Execute, Fresh(B0), Append(f.pre, WriteCmd(t)))
        = Execute(FoldLeft(Execute, Fresh(B0), f.pre), WriteCmd(t))
    BY <1>1, ExecutedOne
  <2> QED BY <2>1, <2>2
<1>3. Execute(Fresh(B), WriteCmd(t)) = Fresh(B)
  <2>1. Fresh(B).buffers = B /\ Fresh(B).ok = TRUE BY DEF Fresh
  <2>2. (Fresh(B).ok /\ t.buffer \in Fresh(B).buffers) = TRUE BY <2>1
  <2> QED BY <1>1, <2>1, <2>2, WriteCmdDoes DEF Fresh
<1> QED BY <1>2, <1>3 DEF Prepared

\* It destroys one more when it is done.
LEMMA PreparedDestroy ==
    ASSUME NEW f \in Frames, NEW g \in Frames, NEW B0, NEW B, Prepared(f, B0, B),
           NEW b \in Buffers, g.pre = f.pre,
           g.post = Append(f.post, DestroyCmd(b)), g.freeIndexBuffer = Append(f.freeIndexBuffer, b)
    PROVE  Prepared(g, B0, B)
<1> DEFINE n == Len(f.post)
           w == g.post
           q == g.freeIndexBuffer
<1>1. /\ f.post \in Seq(Cmds) /\ f.freeIndexBuffer \in Seq(Buffers) /\ DestroyCmd(b) \in Cmds
      /\ Len(f.freeIndexBuffer) = n /\ n \in Nat
  BY CmdsAre, LenProperties DEF Frames, Prepared
<1>2. Len(w) = n + 1 /\ w[n + 1] = DestroyCmd(b) /\ \A i \in 1 .. n : w[i] = f.post[i]
  BY <1>1, AppendProperties
<1>3. Len(q) = n + 1 /\ q[n + 1] = b /\ \A i \in 1 .. n : q[i] = f.freeIndexBuffer[i]
  BY <1>1, AppendProperties
<1>4. \A i \in 1 .. n : f.post[i] = DestroyCmd(f.freeIndexBuffer[i]) BY DEF Prepared
<1> HIDE DEF n, w, q
<1>5. \A i \in 1 .. n + 1 : i \in 1 .. n \/ i = n + 1 BY <1>1
<1>6. \A i \in 1 .. n + 1 : w[i] = DestroyCmd(q[i]) BY <1>2, <1>3, <1>4, <1>5
<1>7. Len(w) = Len(q) /\ \A i \in 1 .. Len(w) : w[i] = DestroyCmd(q[i]) BY <1>2, <1>3, <1>6
<1>8. FoldLeft(Execute, Fresh(B0), g.pre) = Fresh(B) BY DEF Prepared
<1> QED BY <1>7, <1>8 DEF Prepared, w, q

-----------------------------------------------------------------------------
(* Where the data of a dynamic buffer starts.                               *)

\* Sizes that are rounded up to 16 bytes.
LEMMA AlignUp16 ==
    ASSUME NEW n \in Nat
    PROVE  /\ AlignUp(n, 16) \in Nat /\ AlignUp(n, 16) >= n
           /\ AlignUp(n, 16) % 4 = 0 /\ AlignUp(n, 16) % 2 = 0
<1> DEFINE q == (n + 16 - 1) \div 16
<1>1. AlignUp(n, 16) = q * 16 BY DEF AlignUp
<1>2. q \in Nat /\ 16 * q <= n + 15 /\ n + 15 < 16 * q + 16 OBVIOUS
<1> HIDE DEF q
<1> QED BY <1>1, <1>2

\* An offset that is a whole number of indices stays what it is.
LEMMA AlignedUp ==
    ASSUME NEW n \in Nat
    PROVE  /\ n % 2 = 0 => (AlignUp(n, 2) \div 2) * 2 = n /\ AlignUp(n, 2) \div 2 \in Nat
           /\ n % 4 = 0 => (AlignUp(n, 4) \div 4) * 4 = n /\ AlignUp(n, 4) \div 4 \in Nat
           /\ AlignUp(n, 2) \div 2 \in Nat /\ AlignUp(n, 4) \div 4 \in Nat
<1>1. ASSUME NEW m \in Nat PROVE (m * 2) \div 2 = m /\ (m * 4) \div 4 = m OBVIOUS
<1>2. (n + 2 - 1) \div 2 \in Nat /\ (n + 4 - 1) \div 4 \in Nat OBVIOUS
<1>3. /\ AlignUp(n, 2) = ((n + 2 - 1) \div 2) * 2 /\ AlignUp(n, 2) \div 2 = (n + 2 - 1) \div 2
      /\ AlignUp(n, 4) = ((n + 4 - 1) \div 4) * 4 /\ AlignUp(n, 4) \div 4 = (n + 4 - 1) \div 4
  BY <1>1, <1>2 DEF AlignUp
<1>4. n % 2 = 0 => ((n + 2 - 1) \div 2) * 2 = n OBVIOUS
<1>5. n % 4 = 0 => ((n + 4 - 1) \div 4) * 4 = n OBVIOUS
<1> QED BY <1>2, <1>3, <1>4, <1>5

\* The data of a dynamic buffer starts where its block does.
LEMMA PlacedIs ==
    ASSUME NEW b \in Block, Aligned(b.offset), NEW bytes \in Nat, NEW flags \in Flags
    PROVE  LET y == Placed(b, bytes, flags)
           IN  /\ y \in DynamicIndexBuffer /\ y.buffer = b.buffer /\ y.offset = b.offset
               /\ y.size = bytes /\ y.flags = flags /\ First(y) = y.offset
<1> DEFINE y == Placed(b, bytes, flags)
           k == AlignUp(b.offset, IndexSize(flags)) \div IndexSize(flags)
<1>1. y = [buffer |-> b.buffer, offset |-> b.offset, size |-> bytes, flags |-> flags,
           startIndex |-> k]
  BY DEF Placed
<1>2. b.offset \in Nat /\ b.buffer \in Nat /\ flags \in SUBSET AllFlags BY BlockIs, FlagsAssumption
<1>3. k \in Nat /\ k * IndexSize(flags) = b.offset
  <2>1. CASE "INDEX32" \in flags
    <3>1. IndexSize(flags) = 4 /\ b.offset % 4 = 0 BY <2>1 DEF IndexSize, Aligned
    <3> QED BY <1>2, <3>1, AlignedUp
  <2>2. CASE "INDEX32" \notin flags
    <3>1. IndexSize(flags) = 2 /\ b.offset % 2 = 0 BY <2>2 DEF IndexSize, Aligned
    <3> QED BY <1>2, <3>1, AlignedUp
  <2> QED BY <2>1, <2>2
<1> HIDE DEF k, y
<1>4. y \in DynamicIndexBuffer BY <1>1, <1>2, <1>3 DEF DynamicIndexBuffer
<1>5. y.startIndex = k /\ y.flags = flags BY <1>1
<1>6. First(y) = b.offset BY <1>3, <1>5 DEF First
<1> QED BY <1>1, <1>4, <1>6 DEF y

\* Sizes that blocks may be asked for.
Evenly(n) == n \in Nat /\ n % 2 = 0 /\ ((\E f \in Flags : "INDEX32" \in f) => n % 4 = 0)

\* A block that such a size is asked for ends at a place where another may start.
LEMMA RoundedAligned ==
    ASSUME NEW n, Evenly(n)
    PROVE  Aligned(Rounded(n)) /\ Rounded(n) \in Nat /\ n <= Rounded(n) /\ Rounded(n) > 0
  BY DEF Evenly, Aligned, Rounded, MinSize

-----------------------------------------------------------------------------
(* The buffers that pages are made of.                                      *)

\* One more index buffer does not matter to the pages.
LEMMA FilledMore ==
    ASSUME NEW a, NEW size, Filled(a, size), NEW b, b \notin DOMAIN size, NEW n
    PROVE  Filled(a, With(size, b, n))
<1> DEFINE m == With(size, b, n)
<1>1. DOMAIN m = DOMAIN size \union {b} /\ \A c \in DOMAIN size : m[c] = size[c] BY DEF With
<1> HIDE DEF m
<1>2. \A p \in PagesOf(a) : p \in DOMAIN size BY DEF PagesOf, Filled
<1>3. Filled(a, m) BY <1>1, <1>2 DEF Filled
<1> QED BY <1>3 DEF m

\* Nor does one less, if it is no page.
LEMMA FilledLess ==
    ASSUME NEW a, NEW size, Filled(a, size), NEW S, PagesOf(a) \subseteq S, S \subseteq DOMAIN size
    PROVE  Filled(a, Restrict(size, S))
<1> DEFINE m == Restrict(size, S)
<1>1. DOMAIN m = S /\ \A c \in S : m[c] = size[c] BY DEF Restrict
<1> HIDE DEF m
<1>2. \A b \in BlocksOf(a) : b.buffer \in S BY DEF PagesOf
<1>3. Filled(a, m) BY <1>1, <1>2 DEF Filled
<1> QED BY <1>3 DEF m

\* A page of one free block.
LEMMA FilledPage ==
    ASSUME NEW a, NEW size, Filled(a, size), NEW b \in Buffers, b \in DOMAIN size,
           b \notin PagesOf(a), size[b] \in Nat, size[b] > 0
    PROVE  LET c == Add(a, [buffer |-> b, offset |-> 0, size |-> size[b]])
           IN  /\ Filled(c, size) /\ PagesOf(c) = PagesOf(a) \union {b} /\ c.used = a.used
               /\ [buffer |-> b, offset |-> 0, size |-> size[b]] \in ToSet(c.free)
<1> DEFINE e == [buffer |-> b, offset |-> 0, size |-> size[b]]
           c == Add(a, e)
<1>1. Tidy(a) BY DEF Filled
<1>2. e \in Block /\ e.size > 0 /\ e.buffer = b /\ e.offset = 0 /\ End(e) = size[b]
  BY BuffersAssumption DEF Block, End
<1> HIDE DEF e
<1>3. \A g \in BlocksOf(a) : g.buffer # e.buffer BY <1>2 DEF PagesOf
<1>4. /\ Tidy(c) /\ BlocksOf(c) = BlocksOf(a) \union {e}
      /\ c.used = a.used /\ ToSet(c.free) = ToSet(a.free) \union {e}
  BY <1>1, <1>2, <1>3, AddKeeps
<1> HIDE DEF c
<1>5. PagesOf(c) = PagesOf(a) \union {b} BY <1>2, <1>4 DEF PagesOf
<1>6. Aligned(0) BY DEF Aligned
<1>7. \A g \in BlocksOf(c) :
         g.buffer \in DOMAIN size /\ End(g) <= size[g.buffer] /\ Aligned(g.offset)
  BY <1>2, <1>4, <1>6 DEF Filled
<1>8. ASSUME NEW p \in PagesOf(c), NEW x \in 0 .. size[p] - 1 PROVE Covered(BlocksOf(c), p, x)
  <2>1. CASE p = b
    <3>1. Within(e, p, x) BY <1>2, <2>1 DEF Within
    <3> QED BY <1>4, <3>1 DEF Covered
  <2>2. CASE p # b
    <3>1. p \in PagesOf(a) BY <1>5, <2>2
    <3>2. Covered(BlocksOf(a), p, x) BY <3>1 DEF Filled
    <3> QED BY <1>4, <3>2 DEF Covered
  <2> QED BY <2>1, <2>2
<1>9. Filled(c, size) BY <1>4, <1>7, <1>8 DEF Filled
<1> QED BY <1>4, <1>5, <1>9 DEF c, e

\* Only the blocks in use matter to the dynamic buffers.
LEMMA HeldAlike ==
    ASSUME NEW a, NEW c, NEW f, Held(a, f), c.used = a.used
    PROVE  Held(c, f)
  BY DEF Held

-----------------------------------------------------------------------------
(* A state with the dynamic buffers f and the static buffers A, where the   *)
(* renderer starts the frame with the index buffers B0.                     *)

Known(f) ==
    /\ DOMAIN f \subseteq Dynamics /\ f \in [DOMAIN f -> DynamicIndexBuffer]
    /\ \A d \in DOMAIN f : f[d].flags \in Flags /\ First(f[d]) = f[d].offset

Whole(s, f, A, B0) ==
    /\ s \in States /\ Known(f)
    /\ Filled(s.allocator, s.size) /\ Held(s.allocator, f)
    /\ Owned(s.size, PagesOf(s.allocator), f, A, s.frame.freeIndexBuffer)
    /\ Prepared(s.frame, B0, DOMAIN s.size)

\* t is s with a block taken, and with an index buffer more if need be.
Grew(s, t) ==
    /\ t.frame.draws = s.frame.draws /\ t.frame.freeIndexBuffer = s.frame.freeIndexBuffer
    /\ PagesOf(s.allocator) \subseteq PagesOf(t.allocator)
    /\ DOMAIN s.size \subseteq DOMAIN t.size
    /\ \/ t.frame.pre = s.frame.pre
       \/ \E b \in Buffers : t.frame.pre = Append(s.frame.pre, CreateCmd(b))

\* One more dynamic buffer.
LEMMA KnownMore ==
    ASSUME NEW f, Known(f), NEW d \in Dynamics, NEW y \in DynamicIndexBuffer,
           y.flags \in Flags, First(y) = y.offset
    PROVE  Known(With(f, d, y))
<1> DEFINE g == With(f, d, y)
<1>1. /\ g = [e \in DOMAIN f \union {d} |-> IF e = d THEN y ELSE f[e]]
      /\ DOMAIN g = DOMAIN f \union {d} /\ g[d] = y /\ \A e \in DOMAIN f : e # d => g[e] = f[e]
  BY DEF With
<1>2. g \in [DOMAIN g -> DynamicIndexBuffer] BY <1>1 DEF Known
<1> HIDE DEF g
<1>3. \A e \in DOMAIN g : g[e].flags \in Flags /\ First(g[e]) = g[e].offset
  <2> TAKE e \in DOMAIN g
  <2>1. CASE e = d BY <1>1, <2>1
  <2>2. CASE e # d
    <3>1. e \in DOMAIN f /\ g[e] = f[e] BY <1>1, <2>2
    <3> QED BY <3>1 DEF Known
  <2> QED BY <2>1, <2>2
<1>4. Known(g) BY <1>1, <1>2, <1>3 DEF Known
<1> QED BY <1>4 DEF g

\* Some of the dynamic buffers.
LEMMA KnownLess ==
    ASSUME NEW f, Known(f), NEW S, S \subseteq DOMAIN f
    PROVE  Known(Restrict(f, S))
  BY DEF Known, Restrict

\* Pages and index buffers of dynamic buffers are in use.
LEMMA PagesKnown ==
    ASSUME NEW s, NEW f, NEW A, NEW B0, Whole(s, f, A, B0)
    PROVE  /\ PagesOf(s.allocator) \subseteq DOMAIN s.size
           /\ \A d \in PagedIn(f) : f[d].buffer \in PagesOf(s.allocator)
           /\ \A d \in OwnIn(f) : f[d].buffer \in OwnBuffers(f)
           /\ Sizing(s.size) /\ DOMAIN s.size \in SUBSET Nat
<1>1. \A d \in PagedIn(f) : f[d].buffer \in PagesOf(s.allocator)
  <2> TAKE d \in PagedIn(f)
  <2>1. PICK b \in s.allocator.used : b.buffer = f[d].buffer BY DEF Whole, Held
  <2> QED BY <2>1 DEF PagesOf, BlocksOf
<1>2. PagesOf(s.allocator) \subseteq DOMAIN s.size BY DEF Whole, Filled, PagesOf
<1>3. Sizing(s.size) /\ s \in States BY StateFields DEF Whole
<1>4. DOMAIN s.size \subseteq Buffers BY <1>3 DEF Sizing
<1>5. DOMAIN s.size \in SUBSET Nat BY <1>4, BuffersAssumption
<1> QED BY <1>1, <1>2, <1>3, <1>5 DEF OwnBuffers

-----------------------------------------------------------------------------
(* alloc, for a dynamic buffer that has none.                               *)

\* An index buffer of its own.
LEMMA PlacedOwn ==
    ASSUME NEW s, NEW f, NEW A, NEW B0 \in SUBSET Nat, Whole(s, f, A, B0),
           NEW d \in Dynamics, d \notin DOMAIN f, NEW n \in Nat, NEW bytes \in Nat, bytes <= n,
           NEW flags \in Flags, "COMPUTE_READ" \in flags, NEW r \in AllocIndexBuffer(s, n)
    PROVE  LET y == Placed(r.at, bytes, flags)
           IN  /\ Whole(r.s, With(f, d, y), A, B0) /\ Grew(s, r.s)
               /\ y.size = bytes /\ y.flags = flags /\ y.buffer \in DOMAIN r.s.size
               /\ bytes <= r.s.size[y.buffer] - First(y)
<1> DEFINE y == Placed(r.at, bytes, flags)
           g == With(f, d, y)
<1>1. PICK b \in Buffers \ DOMAIN s.size :
         r = [at |-> [buffer |-> b, offset |-> 0, size |-> n], s |-> NewBuffer(s, b, n)]
  BY DEF AllocIndexBuffer
<1> DEFINE t == NewBuffer(s, b, n)
           e == [buffer |-> b, offset |-> 0, size |-> n]
<1>2. r.at = e /\ r.s = t BY <1>1
<1>3. e \in Block /\ Aligned(e.offset) /\ e.buffer = b /\ e.offset = 0
  BY BuffersAssumption DEF Block, Aligned
<1> HIDE DEF e
<1>4. /\ y \in DynamicIndexBuffer /\ y.buffer = b /\ y.offset = 0
      /\ y.size = bytes /\ y.flags = flags /\ First(y) = y.offset
  BY <1>2, <1>3, PlacedIs
<1> HIDE DEF y
<1>5. s \in States BY DEF Whole
<1>6. /\ t \in States /\ t.size = With(s.size, b, n) /\ t.allocator = s.allocator
      /\ t.frame.pre = Append(s.frame.pre, CreateCmd(b))
      /\ t.frame.post = s.frame.post /\ t.frame.draws = s.frame.draws
      /\ t.frame.freeIndexBuffer = s.frame.freeIndexBuffer
  BY <1>5, NewBufferDoes
<1> HIDE DEF t
<1>7. DOMAIN t.size = DOMAIN s.size \union {b} /\ t.size[b] = n BY <1>6 DEF With
<1>8. Known(g) BY <1>4, KnownMore DEF Whole
<1>9. Filled(t.allocator, t.size) BY <1>6, FilledMore DEF Whole
<1>10. Held(t.allocator, g)
  <2>1. DOMAIN g = DOMAIN f \union {d} /\ g[d] = y /\ \A c \in DOMAIN f : g[c] = f[c] BY DEF With
  <2> HIDE DEF g
  <2>2. PagedIn(g) = PagedIn(f) /\ \A c \in PagedIn(f) : g[c] = f[c]
    BY <1>4, <2>1 DEF PagedIn
  <2>3. Held(s.allocator, f) BY DEF Whole
  <2>4. Held(s.allocator, g) BY <2>2, <2>3 DEF Held
  <2> QED BY <1>6, <2>4
<1>11. Owned(t.size, PagesOf(t.allocator), g, A, t.frame.freeIndexBuffer)
  <2>1. Owned(s.size, PagesOf(s.allocator), f, A, s.frame.freeIndexBuffer) BY DEF Whole
  <2> QED BY <1>4, <1>6, <2>1, OwnedOwnMore
<1>12. Prepared(t.frame, B0, DOMAIN t.size)
  <2>1. s.frame \in Frames /\ t.frame \in Frames BY <1>5, <1>6, StateFields
  <2>2. Prepared(s.frame, B0, DOMAIN s.size) /\ DOMAIN s.size \in SUBSET Nat
    BY PagesKnown DEF Whole
  <2>3. Prepared(t.frame, B0, DOMAIN s.size \union {b})
    BY <1>6, <2>1, <2>2, PreparedCreate
  <2> QED BY <1>7, <2>3
<1> HIDE DEF g
<1>13. Whole(t, g, A, B0) BY <1>6, <1>8, <1>9, <1>10, <1>11, <1>12 DEF Whole
<1>14. Grew(s, t) BY <1>6, <1>7 DEF Grew
<1>15. y.buffer \in DOMAIN t.size /\ bytes <= t.size[y.buffer] - First(y) BY <1>4, <1>7
<1> QED BY <1>2, <1>4, <1>13, <1>14, <1>15 DEF y, g

\* A block of a page, where one fits.
LEMMA PlacedFits ==
    ASSUME NEW s, NEW f, NEW A, NEW B0 \in SUBSET Nat, Whole(s, f, A, B0),
           NEW d \in Dynamics, d \notin DOMAIN f, NEW n, Evenly(n), NEW bytes \in Nat, bytes <= n,
           NEW flags \in Flags, "COMPUTE_READ" \notin flags, Fits(s.allocator, n) # {}
    PROVE  LET r == Take(s, n)
               y == Placed(r.at, bytes, flags)
           IN  /\ Whole(r.s, With(f, d, y), A, B0)
               /\ PagesOf(r.s.allocator) = PagesOf(s.allocator)
               /\ r.s.size = s.size /\ r.s.frame = s.frame
               /\ y.size = bytes /\ y.flags = flags /\ y.buffer \in DOMAIN r.s.size
               /\ bytes <= r.s.size[y.buffer] - First(y)
<1> DEFINE r == Take(s, n)
           y == Placed(r.at, bytes, flags)
           g == With(f, d, y)
           c == Alloc(s.allocator, n)
           t == [s EXCEPT !.allocator = c.left]
<1>1. r = [at |-> c.block, s |-> t] BY DEF Take
<1>2. s \in States /\ Filled(s.allocator, s.size) /\ Held(s.allocator, f) /\ Known(f)
      /\ Sizing(s.size) /\ n \in Nat /\ Aligned(Rounded(n))
  BY StateFields, RoundedAligned DEF Whole, Evenly
<1>3. /\ Filled(c.left, s.size) /\ PagesOf(c.left) = PagesOf(s.allocator) /\ c.block \in Block
      /\ c.block \in BlocksOf(c.left)
      /\ (/\ y.buffer = c.block.buffer /\ y.offset = c.block.offset
          /\ y.size <= n /\ y.size \in Nat /\ "COMPUTE_READ" \notin y.flags
          => Held(c.left, With(f, d, y)))
  <2> HIDE DEF y
  <2> QED BY <1>2, TakenKeeps
<1>4. Tidy(c.left) BY <1>3 DEF Filled
<1>5. c.left \in Allocators BY <1>4 DEF Tidy, Allocators
<1>6. Aligned(c.block.offset) BY <1>3 DEF Filled
<1>7. r.at = c.block /\ r.s = t BY <1>1
<1>17. c.block.size = Rounded(n)
  <2>1. Tidy(s.allocator) BY <1>2 DEF Filled
  <2> QED BY <1>2, <2>1, AllocKeeps
<1>18. End(c.block) <= s.size[c.block.buffer] /\ c.block.buffer \in DOMAIN s.size
  BY <1>3 DEF Filled
<1> HIDE DEF c, r
<1>8. /\ y \in DynamicIndexBuffer /\ y.buffer = c.block.buffer /\ y.offset = c.block.offset
      /\ y.size = bytes /\ y.flags = flags /\ First(y) = y.offset
  BY <1>3, <1>6, <1>7, PlacedIs
<1> HIDE DEF y
<1>9. Held(c.left, g) BY <1>3, <1>8
<1>10. t \in States /\ t.size = s.size /\ t.allocator = c.left /\ t.frame = s.frame
  BY <1>2, <1>5, WithAllocator
<1> HIDE DEF t
<1>11. Known(g) BY <1>2, <1>8, KnownMore
<1>12. Owned(t.size, PagesOf(t.allocator), g, A, t.frame.freeIndexBuffer)
  <2>1. Owned(s.size, PagesOf(s.allocator), f, A, s.frame.freeIndexBuffer) BY DEF Whole
  <2>2. Owned(s.size, PagesOf(s.allocator), g, A, s.frame.freeIndexBuffer)
    BY <1>8, <2>1, OwnedPagedMore
  <2> QED BY <1>3, <1>10, <2>2
<1>13. Prepared(t.frame, B0, DOMAIN t.size) BY <1>10 DEF Whole
<1> HIDE DEF g
<1>14. Whole(t, g, A, B0) BY <1>3, <1>9, <1>10, <1>11, <1>12, <1>13 DEF Whole
<1>15. bytes <= t.size[y.buffer] - First(y)
  <2>1. End(c.block) = c.block.offset + Rounded(n) /\ c.block.offset \in Nat
    BY <1>3, <1>17, BlockIs
  <2>2. bytes <= Rounded(n) /\ Rounded(n) \in Nat BY <1>2, RoundedIs
  <2>3. s.size[c.block.buffer] \in Nat BY <1>2, <1>18 DEF Sizing
  <2> QED BY <1>8, <1>10, <1>18, <2>1, <2>2, <2>3
<1>16. y.buffer \in DOMAIN t.size BY <1>8, <1>10, <1>18
<1> QED BY <1>3, <1>7, <1>8, <1>10, <1>14, <1>15, <1>16 DEF y, g, r

\* A page more.
LEMMA PageAdded ==
    ASSUME NEW s, NEW f, NEW A, NEW B0 \in SUBSET Nat, Whole(s, f, A, B0),
           NEW b \in Buffers \ DOMAIN s.size, NEW m \in Nat, m > 0
    PROVE  LET n == NewBuffer(s, b, m)
               page == [buffer |-> b, offset |-> 0, size |-> m]
               t == [n EXCEPT !.allocator = Add(@, page)]
           IN  /\ Whole(t, f, A, B0) /\ Grew(s, t)
               /\ page \in ToSet(t.allocator.free)
<1> DEFINE n == NewBuffer(s, b, m)
           page == [buffer |-> b, offset |-> 0, size |-> m]
           a == Add(n.allocator, page)
           t == [n EXCEPT !.allocator = Add(@, page)]
<1>1. s \in States /\ Filled(s.allocator, s.size) /\ Held(s.allocator, f) /\ Known(f)
      /\ Sizing(s.size) /\ b \in Nat
  BY StateFields, BuffersAssumption DEF Whole
<1>2. /\ n \in States /\ n.size = With(s.size, b, m) /\ n.allocator = s.allocator
      /\ n.frame.pre = Append(s.frame.pre, CreateCmd(b))
      /\ n.frame.post = s.frame.post /\ n.frame.draws = s.frame.draws
      /\ n.frame.freeIndexBuffer = s.frame.freeIndexBuffer
  BY <1>1, NewBufferDoes
<1>3. t = [n EXCEPT !.allocator = a] BY <1>2 DEF States
<1> HIDE DEF n
<1>4. DOMAIN n.size = DOMAIN s.size \union {b} /\ n.size[b] = m /\ Sizing(n.size)
  <2> DEFINE g == With(s.size, b, m)
  <2>1. Sizing(g) /\ DOMAIN g = DOMAIN s.size \union {b} /\ g[b] = m
    BY <1>1, SizingMore
  <2>2. n.size = g BY <1>2
  <2> HIDE DEF g
  <2> QED BY <2>1, <2>2
<1>5. Filled(n.allocator, n.size) BY <1>1, <1>2, FilledMore
<1>6. b \notin PagesOf(n.allocator)
  <2>1. PagesOf(s.allocator) \subseteq DOMAIN s.size BY PagesKnown
  <2> QED BY <1>2, <2>1
<1>7. /\ Filled(a, n.size) /\ PagesOf(a) = PagesOf(n.allocator) \union {b}
      /\ a.used = n.allocator.used /\ page \in ToSet(a.free)
  <2>1. n.size[b] \in Nat /\ n.size[b] > 0 /\ b \in DOMAIN n.size BY <1>4
  <2>2. page = [buffer |-> b, offset |-> 0, size |-> n.size[b]] BY <1>4
  <2> HIDE DEF page
  <2> QED BY <1>5, <1>6, <2>1, <2>2, FilledPage
<1>8. a \in Allocators
  <2>1. Tidy(a) BY <1>7 DEF Filled
  <2> QED BY <2>1 DEF Tidy, Allocators
<1> HIDE DEF a, page
<1>9. t \in States /\ t.size = n.size /\ t.allocator = a /\ t.frame = n.frame
  <2>1. [n EXCEPT !.allocator = a] \in States /\ [n EXCEPT !.allocator = a].size = n.size
        /\ [n EXCEPT !.allocator = a].allocator = a /\ [n EXCEPT !.allocator = a].frame = n.frame
    BY <1>2, <1>8, WithAllocator
  <2> QED BY <1>3, <2>1
<1> HIDE DEF t
<1>10. Held(a, f) BY <1>1, <1>2, <1>7, HeldAlike
<1>11. Owned(t.size, PagesOf(t.allocator), f, A, t.frame.freeIndexBuffer)
  <2>1. Owned(s.size, PagesOf(s.allocator), f, A, s.frame.freeIndexBuffer) BY DEF Whole
  <2>2. Owned(With(s.size, b, m), PagesOf(s.allocator) \union {b}, f, A, s.frame.freeIndexBuffer)
    BY <2>1, OwnedPageMore
  <2> QED BY <1>2, <1>7, <1>9, <2>2
<1>12. Prepared(t.frame, B0, DOMAIN t.size)
  <2>1. s.frame \in Frames /\ n.frame \in Frames BY <1>1, <1>2, StateFields
  <2>2. Prepared(s.frame, B0, DOMAIN s.size) /\ DOMAIN s.size \in SUBSET Nat
    BY PagesKnown DEF Whole
  <2>3. Prepared(n.frame, B0, DOMAIN s.size \union {b})
    BY <1>2, <2>1, <2>2, PreparedCreate
  <2> QED BY <1>4, <1>9, <2>3
<1>13. Whole(t, f, A, B0) BY <1>1, <1>7, <1>9, <1>10, <1>11, <1>12 DEF Whole
<1>14. Grew(s, t) BY <1>2, <1>4, <1>7, <1>9 DEF Grew
<1> QED BY <1>7, <1>9, <1>13, <1>14 DEF t, n, page

\* allocDynamicIndexBuffer or allocIndexBuffer, for a dynamic buffer that has no block.
LEMMA PlaceKeeps ==
    ASSUME NEW s, NEW f, NEW A, NEW B0 \in SUBSET Nat, Whole(s, f, A, B0),
           NEW d \in Dynamics, d \notin DOMAIN f, NEW n, Evenly(n), NEW bytes \in Nat, bytes <= n,
           NEW flags \in Flags, NEW r \in AllocFor(s, n, flags)
    PROVE  LET y == Placed(r.at, bytes, flags)
           IN  /\ Whole(r.s, With(f, d, y), A, B0) /\ Grew(s, r.s)
               /\ y.size = bytes /\ y.flags = flags /\ y.buffer \in DOMAIN r.s.size
               /\ bytes <= r.s.size[y.buffer] - First(y)
<1>1. n \in Nat BY DEF Evenly
<1>2. CASE "COMPUTE_READ" \in flags
  <2>1. r \in AllocIndexBuffer(s, n) BY <1>2 DEF AllocFor
  <2> QED BY <1>1, <1>2, <2>1, PlacedOwn
<1>3. CASE "COMPUTE_READ" \notin flags
  <2>1. r \in AllocDynamicIndexBuffer(s, n) BY <1>3 DEF AllocFor
  <2>2. CASE Fits(s.allocator, n) # {}
    <3>1. r = Take(s, n) BY <2>1, <2>2 DEF AllocDynamicIndexBuffer
    <3> DEFINE y == Placed(r.at, bytes, flags)
    <3>2. /\ Whole(r.s, With(f, d, y), A, B0)
          /\ PagesOf(r.s.allocator) = PagesOf(s.allocator)
          /\ r.s.size = s.size /\ r.s.frame = s.frame
          /\ y.size = bytes /\ y.flags = flags /\ y.buffer \in DOMAIN r.s.size
          /\ bytes <= r.s.size[y.buffer] - First(y)
      BY <1>1, <1>3, <2>2, <3>1, PlacedFits
    <3> HIDE DEF y
    <3>3. Grew(s, r.s) BY <3>2 DEF Grew
    <3> QED BY <3>2, <3>3 DEF y
  <2>3. CASE Fits(s.allocator, n) = {}
    <3> DEFINE m == Max2(PageSize, n)
               page(b) == [buffer |-> b, offset |-> 0, size |-> m]
               t(b) == [NewBuffer(s, b, m) EXCEPT !.allocator = Add(@, page(b))]
    <3>1. PICK b \in Buffers \ DOMAIN s.size : r = Take(t(b), n)
      BY <2>1, <2>3 DEF AllocDynamicIndexBuffer
    <3>2. m \in Nat /\ m > 0 /\ m >= Rounded(n)
      BY <1>1, SizesAssumption DEF Max2, Rounded, MinSize
    <3> HIDE DEF m
    <3>3. /\ Whole(t(b), f, A, B0) /\ Grew(s, t(b))
          /\ page(b) \in ToSet(t(b).allocator.free)
      BY <3>2, PageAdded
    <3>4. t(b).allocator.free \in Seq(Block)
      <4>1. t(b) \in States BY <3>3 DEF Whole
      <4> HIDE DEF t
      <4>2. t(b).allocator \in Allocators BY <4>1, StateFields
      <4> QED BY <4>2 DEF Allocators
    <3>5. page(b).size = m OBVIOUS
    <3> HIDE DEF t, page
    <3>6. Fits(t(b).allocator, n) # {}
      <4> DEFINE q == t(b).allocator.free
      <4>1. PICK i \in 1 .. Len(q) : q[i] = page(b) BY <3>3, <3>4, ElementsAre
      <4>2. DOMAIN q = 1 .. Len(q) BY <3>4, ElementsAre
      <4>3. i \in Fits(t(b).allocator, n) BY <3>2, <3>5, <4>1, <4>2 DEF Fits
      <4> QED BY <4>3
    <3> DEFINE y == Placed(r.at, bytes, flags)
    <3>7. /\ Whole(r.s, With(f, d, y), A, B0)
          /\ PagesOf(r.s.allocator) = PagesOf(t(b).allocator)
          /\ r.s.size = t(b).size /\ r.s.frame = t(b).frame
          /\ y.size = bytes /\ y.flags = flags /\ y.buffer \in DOMAIN r.s.size
          /\ bytes <= r.s.size[y.buffer] - First(y)
      BY <1>1, <1>3, <3>1, <3>3, <3>6, PlacedFits
    <3> HIDE DEF y
    <3>8. Grew(s, r.s) BY <3>3, <3>7 DEF Grew
    <3> QED BY <3>7, <3>8 DEF y
  <2> QED BY <2>2, <2>3
<1> QED BY <1>2, <1>3

-----------------------------------------------------------------------------
(* The pages are destroyed with the last block in use.                      *)

\* An allocator without blocks.
LEMMA NoBlocksIs ==
    /\ Tidy(NoBlocks) /\ NoBlocks \in Allocators /\ BlocksOf(NoBlocks) = {}
    /\ PagesOf(NoBlocks) = {} /\ NoBlocks.used = {} /\ NoBlocks.free = <<>>
<1>1. ToSet(<<>>) = {} BY DEF ToSet
<1>2. BlocksOf(NoBlocks) = {} BY <1>1 DEF BlocksOf, NoBlocks
<1>3. NoBlocks \in Allocators BY DEF Allocators, NoBlocks
<1>4. AllApart({}) BY DEF AllApart
<1>5. IsInjective(<<>>) BY DEF IsInjective
<1>6. Tidy(NoBlocks) BY <1>2, <1>3, <1>4, <1>5 DEF Tidy, NoBlocks, Allocators
<1> QED BY <1>2, <1>3, <1>6 DEF PagesOf, NoBlocks

\* It is what is left of one that has none in use and loses the free ones.
LEMMA Emptied ==
    ASSUME NEW w
    PROVE  [[free |-> w, used |-> {}] EXCEPT !.free = <<>>] = NoBlocks
<1>1. \A v, e, u : [[free |-> v, used |-> u] EXCEPT !.free = e] = [free |-> e, used |-> u] OBVIOUS
<1>2. [[free |-> w, used |-> {}] EXCEPT !.free = <<>>] = [free |-> <<>>, used |-> {}] BY <1>1
<1> QED BY <1>2 DEF NoBlocks

\* The loop around remove takes every block if none is of buffer 0.
LEMMA RemovedIs ==
    ASSUME NEW a \in Allocators, \A b \in ToSet(a.free) : b.buffer # 0
    PROVE  Removed(a) = a.free /\ RemovedAll(a) = [a EXCEPT !.free = <<>>]
<1> DEFINE isNull(b) == b.buffer = 0 /\ b.offset = 0
           I == {i \in 1 .. Len(a.free) : isNull(a.free[i])}
<1>1. a.free \in Seq(Block) BY DEF Allocators
<1>2. \A i \in 1 .. Len(a.free) : a.free[i] \in ToSet(a.free) /\ Len(a.free) \in Nat
  BY <1>1, ElementsAre
<1>3. I = {} BY <1>2
<1>4. SelectInSeq(a.free, isNull) = 0 BY <1>3 DEF SelectInSeq
<1>5. Removed(a) = a.free BY <1>4 DEF Removed
<1>6. SubSeq(a.free, Len(a.free) + 2, Len(a.free)) = <<>>
  <2>1. Len(a.free) \in Nat BY <1>1
  <2> QED BY <1>1, <2>1
<1> QED BY <1>5, <1>6 DEF RemovedAll

DestroyChain(g, s, w) ==
    /\ g \in [0 .. Len(w) -> States] /\ g[0] = s
    /\ \A k \in 1 .. Len(w) : g[k] = Destroy(g[k - 1], w[k].buffer)

\* The fold of DestroyPage goes through one state per page.
LEMMA DestroysAre ==
    ASSUME NEW b \in States, NEW w \in Seq(Block), \A i \in 1 .. Len(w) : w[i].buffer \in Buffers
    PROVE  \E g : DestroyChain(g, b, w) /\ g[Len(w)] = FoldLeft(DestroyPage, b, w)
<1> DEFINE n == Len(w)
           Is(it) == it = [s \in SUBSET DOMAIN w |->
                              IF s = {} THEN b ELSE DestroyPage(it[s \ {Max(s)}], w[Max(s)])]
           G == [p \in States \X (1 .. n) |-> DestroyPage(p[1], w[p[2]])]
<1>1. \A x \in States, i \in 1 .. n : G[<<x, i>>] = DestroyPage(x, w[i]) OBVIOUS
<1>2. n \in Nat /\ DOMAIN w = 1 .. n /\ \A i \in 1 .. n : w[i].buffer \in Buffers BY LenProperties
<1>3. G \in [States \X (1 .. n) -> States] BY <1>2, DestroyDoes DEF DestroyPage
<1> HIDE DEF G, n
<1>4. \A s \in SUBSET (1 .. n) : s # {} => Max(s) \in 1 .. n BY <1>2, MaxIn
<1>5. \E it : Is(it)
  <2>1. PICK it : Unfolds(it, States, b, n, G) BY <1>2, <1>3, FoldExists
  <2>2. ASSUME NEW s \in SUBSET (1 .. n), s # {}
        PROVE  it[s] = DestroyPage(it[s \ {Max(s)}], w[Max(s)])
    <3>1. it[s \ {Max(s)}] \in States BY <2>1 DEF Unfolds
    <3>2. it[s] = G[<<it[s \ {Max(s)}], Max(s)>>] BY <2>1, <2>2 DEF Unfolds
    <3> QED BY <1>1, <1>4, <2>2, <3>1, <3>2
  <2>3. it = [s \in SUBSET (1 .. n) |-> it[s]] /\ it[{}] = b BY <2>1 DEF Unfolds
  <2>4. [s \in SUBSET (1 .. n) |-> it[s]]
            = [s \in SUBSET (1 .. n) |->
                  IF s = {} THEN b ELSE DestroyPage(it[s \ {Max(s)}], w[Max(s)])]
    BY <2>2, <2>3, Zenon
  <2>5. Is(it) BY <1>2, <2>3, <2>4, Zenon
  <2> QED BY <2>5, Zenon
<1> DEFINE it == CHOOSE it : Is(it)
<1>6. Is(it) BY <1>5, Zenon
<1>7. FoldLeft(DestroyPage, b, w) = it[1 .. n] BY <1>2, Zenon DEF FoldLeft, MapThenFoldSet
<1> HIDE DEF it
<1>8. Follows(it, States, b, n, G)
  <2>1. it[{}] = b /\ \A s \in SUBSET (1 .. n) :
                         s # {} => it[s] = DestroyPage(it[s \ {Max(s)}], w[Max(s)])
    BY <1>2, <1>6
  <2> HIDE DEF Is
  <2> QED BY <1>1, <1>4, <2>1 DEF Follows
<1> HIDE DEF Is
<1>9. PICK g : IsChain(g, States, b, n, G, it[1 .. n]) BY <1>2, <1>3, <1>8, FoldChain
<1>10. ASSUME NEW k \in 1 .. n PROVE g[k] = Destroy(g[k - 1], w[k].buffer)
  <2>1. g[k - 1] \in States BY <1>2, <1>9 DEF IsChain
  <2>2. g[k] = G[<<g[k - 1], k>>] BY <1>9 DEF IsChain
  <2> QED BY <1>1, <2>1, <2>2 DEF DestroyPage
<1>11. DestroyChain(g, b, w) BY <1>9, <1>10 DEF IsChain, n, DestroyChain
<1>12. g[n] = it[1 .. n] BY <1>9 DEF IsChain
<1> QED BY <1>7, <1>11, <1>12 DEF n

\* After the first k of them.
Gone(s, r, w, k, B0, B) ==
    /\ r \in States /\ r.size = s.size /\ r.allocator = s.allocator
    /\ r.frame.pre = s.frame.pre /\ r.frame.draws = s.frame.draws
    /\ IsInjective(r.frame.freeIndexBuffer)
    /\ ToSet(r.frame.freeIndexBuffer)
       = ToSet(s.frame.freeIndexBuffer) \union {w[i].buffer : i \in 1 .. k}
    /\ Prepared(r.frame, B0, B)

\* All of them are destroyed.
LEMMA AllGone ==
    ASSUME NEW s \in States, NEW w \in Seq(Block), \A i \in 1 .. Len(w) : w[i].buffer \in Buffers,
           \A i, j \in 1 .. Len(w) : w[i].buffer = w[j].buffer => i = j,
           IsInjective(s.frame.freeIndexBuffer),
           \A i \in 1 .. Len(w) : w[i].buffer \notin ToSet(s.frame.freeIndexBuffer),
           NEW B0, NEW B, Prepared(s.frame, B0, B)
    PROVE  Gone(s, FoldLeft(DestroyPage, s, w), w, Len(w), B0, B)
<1>1. PICK g : DestroyChain(g, s, w) /\ g[Len(w)] = FoldLeft(DestroyPage, s, w) BY DestroysAre
<1> DEFINE S == {k \in 0 .. Len(w) : Gone(s, g[k], w, k, B0, B)}
<1>2. Len(w) \in Nat OBVIOUS
<1>3. 0 \in S
  <2>1. g[0] = s /\ 0 \in 0 .. Len(w) BY <1>1, <1>2 DEF DestroyChain
  <2>2. {w[i].buffer : i \in 1 .. 0} = {} OBVIOUS
  <2>3. Gone(s, s, w, 0, B0, B) BY <2>2 DEF Gone
  <2> QED BY <2>1, <2>3
<1>4. ASSUME NEW k \in 0 .. Len(w) - 1, k \in S PROVE k + 1 \in S
  <2> DEFINE r == g[k]
             b == w[k + 1].buffer
             t == Destroy(r, b)
  <2>1. k + 1 \in 1 .. Len(w) /\ k + 1 \in 0 .. Len(w) /\ (k + 1) - 1 = k BY <1>2
  <2>2. g[k + 1] = t BY <1>1, <2>1 DEF DestroyChain
  <2>3. Gone(s, r, w, k, B0, B) BY <1>4
  <2>4. b \in Buffers BY <2>1
  <2>5. r \in States BY <2>3 DEF Gone
  <2> HIDE DEF r
  <2>6. b \notin ToSet(r.frame.freeIndexBuffer)
    <3>1. \A i \in 1 .. k : i \in 1 .. Len(w) /\ i # k + 1 BY <1>2
    <3>2. \A i \in 1 .. k : w[i].buffer # b BY <2>1, <3>1
    <3>3. b \notin ToSet(s.frame.freeIndexBuffer) BY <2>1
    <3> HIDE DEF b
    <3> QED BY <2>3, <3>2, <3>3 DEF Gone
  <2>7. /\ t \in States /\ t.size = r.size /\ t.allocator = r.allocator
        /\ t.frame.pre = r.frame.pre /\ t.frame.draws = r.frame.draws
        /\ t.frame.post = Append(r.frame.post, DestroyCmd(b))
        /\ t.frame.freeIndexBuffer = Append(r.frame.freeIndexBuffer, b)
    BY <2>4, <2>5, DestroyDoes
  <2>8. {w[i].buffer : i \in 1 .. k + 1} = {w[i].buffer : i \in 1 .. k} \union {b}
    <3>1. 1 .. k + 1 = (1 .. k) \union {k + 1} BY <1>2
    <3> QED BY <3>1
  <2> HIDE DEF b, t
  <2>9. r.frame \in Frames /\ t.frame \in Frames /\ r.frame.freeIndexBuffer \in Seq(Buffers)
    BY <2>5, <2>7, StateFields
  <2>10. IsInjective(t.frame.freeIndexBuffer)
    <3>1. IsInjective(r.frame.freeIndexBuffer) BY <2>3 DEF Gone
    <3> QED BY <2>4, <2>6, <2>7, <2>9, <3>1, AppendInjectively
  <2>11. ToSet(t.frame.freeIndexBuffer) = ToSet(r.frame.freeIndexBuffer) \union {b}
    BY <2>4, <2>7, <2>9, AppendElements
  <2>12. Prepared(t.frame, B0, B)
    <3>1. Prepared(r.frame, B0, B) BY <2>3 DEF Gone
    <3> QED BY <2>4, <2>7, <2>9, <3>1, PreparedDestroy
  <2>13. Gone(s, t, w, k + 1, B0, B)
    BY <2>3, <2>7, <2>8, <2>10, <2>11, <2>12 DEF Gone
  <2> QED BY <2>1, <2>2, <2>13
<1> HIDE DEF S
<1>5. \A k \in 0 .. Len(w) : k \in S BY <1>2, <1>3, <1>4, UpTo
<1>6. Len(w) \in S BY <1>2, <1>5
<1> QED BY <1>1, <1>6 DEF S

\* Without a dynamic buffer that needs one there is no page.
NoPages(a, f) == PagedIn(f) = {} => PagesOf(a) = {}

\* The new index buffer is no page, or there is a dynamic buffer that needs it.
LEMMA PlaceNoPages ==
    ASSUME NEW s, NEW f, NEW n \in Nat, NEW flags, NEW r \in AllocFor(s, n, flags), s \in States,
           NEW d, d \notin DOMAIN f, NEW y, y.flags = flags,
           "COMPUTE_READ" \in flags => NoPages(s.allocator, f)
    PROVE  NoPages(r.s.allocator, With(f, d, y))
<1> DEFINE g == With(f, d, y)
<1>1. DOMAIN g = DOMAIN f \union {d} /\ g[d] = y /\ \A c \in DOMAIN f : g[c] = f[c] BY DEF With
<1> HIDE DEF g
<1>2. CASE "COMPUTE_READ" \in flags
  <2>1. r \in AllocIndexBuffer(s, n) BY <1>2 DEF AllocFor
  <2>2. PICK b \in Buffers \ DOMAIN s.size : r.s = NewBuffer(s, b, n)
    BY <2>1 DEF AllocIndexBuffer
  <2>3. r.s.allocator = s.allocator BY <2>2, NewBufferDoes
  <2>4. PagedIn(g) = PagedIn(f) BY <1>1, <1>2 DEF PagedIn
  <2> QED BY <1>2, <2>3, <2>4 DEF NoPages, g
<1>3. CASE "COMPUTE_READ" \notin flags
  <2>1. d \in PagedIn(g) BY <1>1, <1>3 DEF PagedIn
  <2> QED BY <2>1 DEF NoPages, g
<1> QED BY <1>2, <1>3

-----------------------------------------------------------------------------
(* destroyDynamicIndexBufferInternal.                                       *)

\* An index buffer of its own goes.
LEMMA OwnGoes ==
    ASSUME NEW s, NEW f, NEW A, NEW B0 \in SUBSET Nat, Whole(s, f, A, B0), NoPages(s.allocator, f),
           NEW d \in OwnIn(f)
    PROVE  LET t == Destroy(s, f[d].buffer)
               g == Restrict(f, DOMAIN f \ {d})
           IN  /\ Whole(t, g, A, B0) /\ NoPages(t.allocator, g) /\ t.size = s.size
               /\ t.frame.pre = s.frame.pre /\ t.frame.draws = s.frame.draws
<1> DEFINE b == f[d].buffer
           t == Destroy(s, b)
           g == Restrict(f, DOMAIN f \ {d})
<1>1. s \in States /\ Filled(s.allocator, s.size) /\ Held(s.allocator, f) /\ Known(f)
      /\ Sizing(s.size)
      /\ Owned(s.size, PagesOf(s.allocator), f, A, s.frame.freeIndexBuffer)
      /\ Prepared(s.frame, B0, DOMAIN s.size)
  BY StateFields DEF Whole
<1>2. b \in Buffers
  <2>1. b \in OwnBuffers(f) BY DEF OwnBuffers
  <2>2. OwnBuffers(f) \subseteq DOMAIN s.size BY <1>1 DEF Owned, Parts
  <2> QED BY <1>1, <2>1, <2>2 DEF Sizing
<1>3. d \in DOMAIN f BY DEF OwnIn
<1>4. DOMAIN g = DOMAIN f \ {d} /\ \A e \in DOMAIN f \ {d} : g[e] = f[e] BY WithoutIs
<1>5. Known(g) BY <1>1, KnownLess
<1>6. Owned(s.size, PagesOf(s.allocator), g, A, Append(s.frame.freeIndexBuffer, b))
  BY <1>1, <1>2, OwnedOwnLess
<1>7. /\ t \in States /\ t.size = s.size /\ t.allocator = s.allocator
      /\ t.frame.pre = s.frame.pre /\ t.frame.draws = s.frame.draws
      /\ t.frame.post = Append(s.frame.post, DestroyCmd(b))
      /\ t.frame.freeIndexBuffer = Append(s.frame.freeIndexBuffer, b)
  BY <1>1, <1>2, DestroyDoes
<1> HIDE DEF t, g
<1>8. PagedIn(g) = PagedIn(f) /\ \A c \in PagedIn(f) : g[c] = f[c]
  BY <1>4 DEF PagedIn, OwnIn
<1>9. Held(s.allocator, g) BY <1>1, <1>8 DEF Held
<1>10. Prepared(t.frame, B0, DOMAIN t.size)
  <2>1. s.frame \in Frames /\ t.frame \in Frames BY <1>1, <1>7, StateFields
  <2> HIDE DEF b
  <2> QED BY <1>1, <1>2, <1>7, <2>1, PreparedDestroy
<1>11. Whole(t, g, A, B0) BY <1>1, <1>5, <1>6, <1>7, <1>9, <1>10 DEF Whole
<1>12. NoPages(t.allocator, g) BY <1>7, <1>8 DEF NoPages
<1> QED BY <1>7, <1>11, <1>12 DEF t, g

\* A block of a page is given back.
LEMMA BlockGoes ==
    ASSUME NEW s, NEW f, NEW A, NEW B0 \in SUBSET Nat, Whole(s, f, A, B0), NEW d \in PagedIn(f)
    PROVE  LET c == Freed(s.allocator, f[d])
               t == [s EXCEPT !.allocator = c]
               g == Restrict(f, DOMAIN f \ {d})
           IN  /\ Whole(t, g, A, B0) /\ t.size = s.size /\ t.frame = s.frame /\ t.allocator = c
               /\ PagesOf(c) = PagesOf(s.allocator)
               /\ \A b, e \in ToSet(c.free) : b # e => b.buffer # e.buffer \/ End(b) # e.offset
<1> DEFINE c == Freed(s.allocator, f[d])
           t == [s EXCEPT !.allocator = c]
           g == Restrict(f, DOMAIN f \ {d})
<1>1. s \in States /\ Filled(s.allocator, s.size) /\ Held(s.allocator, f) /\ Known(f)
      /\ Sizing(s.size)
      /\ Owned(s.size, PagesOf(s.allocator), f, A, s.frame.freeIndexBuffer)
      /\ Prepared(s.frame, B0, DOMAIN s.size)
  BY StateFields DEF Whole
<1>2. /\ Filled(c, s.size) /\ PagesOf(c) = PagesOf(s.allocator) /\ Held(c, g)
      /\ \A b, e \in ToSet(c.free) : b # e => b.buffer # e.buffer \/ End(b) # e.offset
  BY <1>1, FreedKeeps
<1>3. c \in Allocators
  <2>1. Tidy(c) BY <1>2 DEF Filled
  <2> QED BY <2>1 DEF Tidy, Allocators
<1> HIDE DEF c
<1>4. t \in States /\ t.size = s.size /\ t.allocator = c /\ t.frame = s.frame
  BY <1>1, <1>3, WithAllocator
<1>5. Known(g) BY <1>1, KnownLess
<1>6. Owned(s.size, PagesOf(s.allocator), g, A, s.frame.freeIndexBuffer)
  BY <1>1, OwnedPagedLess
<1> HIDE DEF t, g
<1>7. Whole(t, g, A, B0) BY <1>1, <1>2, <1>4, <1>5, <1>6 DEF Whole
<1> QED BY <1>2, <1>4, <1>7 DEF t, g, c

\* All pages go when no block is in use.
LEMMA PagesGo ==
    ASSUME NEW s, NEW f, NEW A, NEW B0 \in SUBSET Nat, Whole(s, f, A, B0), s.allocator.used = {},
           \A b, e \in ToSet(s.allocator.free) : b # e => b.buffer # e.buffer \/ End(b) # e.offset
    PROVE  LET t == FoldLeft(DestroyPage, [s EXCEPT !.allocator = RemovedAll(s.allocator)],
                             Removed(s.allocator))
           IN  /\ Whole(t, f, A, B0) /\ NoPages(t.allocator, f) /\ t.size = s.size
               /\ t.frame.pre = s.frame.pre /\ t.frame.draws = s.frame.draws
<1> DEFINE a == s.allocator
           w == a.free
           P == PagesOf(a)
           q == s.frame.freeIndexBuffer
           r == [s EXCEPT !.allocator = NoBlocks]
           t == FoldLeft(DestroyPage, [s EXCEPT !.allocator = RemovedAll(a)], Removed(a))
<1>1. s \in States /\ Filled(a, s.size) /\ Held(a, f) /\ Known(f)
      /\ Sizing(s.size) /\ a \in Allocators /\ q \in Seq(Buffers)
      /\ Owned(s.size, P, f, A, q) /\ Prepared(s.frame, B0, DOMAIN s.size)
  BY StateFields DEF Whole
<1>2. PagedIn(f) = {} BY <1>1 DEF Held
<1>3. w \in Seq(Block) /\ IsInjective(w) /\ AllApart(BlocksOf(a)) /\ BlocksOf(a) = ToSet(w)
      /\ a = [free |-> w, used |-> {}]
  BY <1>1, TidyIs DEF Filled, BlocksOf
<1>4. P = {w[i].buffer : i \in 1 .. Len(w)} /\ \A i \in 1 .. Len(w) : w[i] \in BlocksOf(a)
  BY <1>3, ElementsAre DEF PagesOf
<1>5. /\ P \subseteq DOMAIN s.size /\ P \subseteq Buffers
      /\ 0 \notin P /\ \A p \in P : p \notin ToSet(q)
      /\ IsInjective(q)
  <2>1. P \subseteq DOMAIN s.size BY PagesKnown
  <2>2. Transients \intersect P = {} /\ P \intersect ToSet(q) = {} BY <1>1 DEF Owned, Parts
  <2>3. IsInjective(q) BY <1>1 DEF Owned
  <2> QED BY <1>1, <2>1, <2>2, <2>3, TransientsAssumption DEF Sizing
<1>6. Removed(a) = w /\ RemovedAll(a) = NoBlocks
  <2>1. \A b \in ToSet(w) : b.buffer # 0 BY <1>3, <1>5 DEF PagesOf
  <2>2. Removed(a) = w /\ RemovedAll(a) = [a EXCEPT !.free = <<>>] BY <1>1, <2>1, RemovedIs
  <2>3. [a EXCEPT !.free = <<>>] = NoBlocks
    <3> HIDE DEF a, w
    <3>1. [a EXCEPT !.free = <<>>] = [[free |-> w, used |-> {}] EXCEPT !.free = <<>>] BY <1>3
    <3> QED BY <3>1, Emptied
  <2> QED BY <2>2, <2>3
<1>7. \A i, j \in 1 .. Len(w) : w[i].buffer = w[j].buffer => i = j
  <2> TAKE i, j \in 1 .. Len(w)
  <2> HAVE w[i].buffer = w[j].buffer
  <2> DEFINE p == w[i].buffer
             n == s.size[p]
             S == BlocksOf(a)
  <2>1. w[i] \in S /\ w[j] \in S BY <1>4
  <2>2. p \in P BY <1>4
  <2>3. n \in Nat /\ p \in Nat BY <1>1, <1>5, <2>2, BuffersAssumption DEF Sizing
  <2>4. \A b \in S : b.buffer = p => End(b) <= n BY <1>1 DEF Filled
  <2>5. \A x \in 0 .. n - 1 : Covered(S, p, x) BY <1>1, <2>2 DEF Filled
  <2>6. \A b, e \in S : b # e => b.buffer # e.buffer \/ End(b) # e.offset BY <1>3
  <2>7. w[j].buffer = p /\ w[i].buffer = p /\ AllApart(S) BY <1>3
  <2> HIDE DEF S, p, n
  <2>8. w[i] = w[j] BY <2>1, <2>3, <2>4, <2>5, <2>6, <2>7, OneBlockPerPage
  <2>9. DOMAIN w = 1 .. Len(w) BY <1>3, ElementsAre
  <2> QED BY <1>3, <2>8, <2>9 DEF IsInjective
<1>8. r \in States /\ r.size = s.size /\ r.allocator = NoBlocks /\ r.frame = s.frame
  BY <1>1, NoBlocksIs, WithAllocator
<1>9. t = FoldLeft(DestroyPage, r, w) BY <1>6
<1>10. \A i \in 1 .. Len(w) : w[i].buffer \in Buffers /\ w[i].buffer \notin ToSet(q)
  BY <1>4, <1>5
<1> HIDE DEF r, t, P
<1>11. Gone(r, t, w, Len(w), B0, DOMAIN s.size)
  <2>1. /\ IsInjective(r.frame.freeIndexBuffer) /\ Prepared(r.frame, B0, DOMAIN s.size)
        /\ \A i \in 1 .. Len(w) : w[i].buffer \notin ToSet(r.frame.freeIndexBuffer)
        /\ \A i \in 1 .. Len(w) : w[i].buffer \in Buffers
    BY <1>1, <1>5, <1>8, <1>10
  <2> HIDE DEF w
  <2> QED BY <1>3, <1>7, <1>8, <1>9, <2>1, AllGone
<1>12. /\ t \in States /\ t.size = s.size /\ t.allocator = NoBlocks
       /\ t.frame.pre = s.frame.pre /\ t.frame.draws = s.frame.draws
       /\ IsInjective(t.frame.freeIndexBuffer) /\ ToSet(t.frame.freeIndexBuffer) = ToSet(q) \union P
       /\ Prepared(t.frame, B0, DOMAIN s.size)
  BY <1>4, <1>8, <1>11 DEF Gone
<1>13. Owned(t.size, PagesOf(t.allocator), f, A, t.frame.freeIndexBuffer)
  <2>1. t.frame.freeIndexBuffer \in Seq(Buffers) BY <1>12, StateFields
  <2>2. Owned(s.size, {}, f, A, t.frame.freeIndexBuffer) BY <1>1, <1>12, <2>1, OwnedNoPages
  <2> QED BY <1>12, <2>2, NoBlocksIs
<1>14. Filled(t.allocator, t.size) BY <1>12, NoBlocksIs DEF Filled
<1>15. Held(t.allocator, f) BY <1>2, <1>12, NoBlocksIs DEF Held
<1>16. Whole(t, f, A, B0) BY <1>1, <1>12, <1>13, <1>14, <1>15 DEF Whole
<1>17. NoPages(t.allocator, f) BY <1>12, NoBlocksIs DEF NoPages
<1> QED BY <1>12, <1>16, <1>17 DEF t

\* destroyDynamicIndexBufferInternal keeps blocks, owners and commands right.
LEMMA DestroyDynamicKeeps ==
    ASSUME NEW s, NEW f, NEW A, NEW B0 \in SUBSET Nat, Whole(s, f, A, B0), NoPages(s.allocator, f),
           NEW d \in DOMAIN f, f[d] = dib[d]
    PROVE  LET t == DestroyDynamic(s, d)
               g == Restrict(f, DOMAIN f \ {d})
           IN  /\ Whole(t, g, A, B0) /\ NoPages(t.allocator, g) /\ t.size = s.size
               /\ t.frame.pre = s.frame.pre /\ t.frame.draws = s.frame.draws
<1> DEFINE c == Freed(s.allocator, f[d])
           r == [s EXCEPT !.allocator = c]
           t == DestroyDynamic(s, d)
           g == Restrict(f, DOMAIN f \ {d})
<1>1. CASE d \in OwnIn(f)
  <2>1. t = Destroy(s, f[d].buffer) BY <1>1 DEF DestroyDynamic, OwnIn
  <2> QED BY <1>1, <2>1, OwnGoes
<1>2. CASE d \notin OwnIn(f)
  <2>1. d \in PagedIn(f) /\ "COMPUTE_READ" \notin dib[d].flags BY <1>2 DEF PagedIn, OwnIn
  <2>2. /\ Whole(r, g, A, B0) /\ r.size = s.size /\ r.frame = s.frame /\ r.allocator = c
        /\ PagesOf(c) = PagesOf(s.allocator)
        /\ \A b, e \in ToSet(c.free) : b # e => b.buffer # e.buffer \/ End(b) # e.offset
    BY <2>1, BlockGoes
  <2>3. CASE c.used # {}
    <3>1. t = r BY <2>1, <2>3 DEF DestroyDynamic, Freed
    <3>2. Held(c, g) BY <2>2 DEF Whole
    <3> HIDE DEF c, g, r
    <3>3. NoPages(c, g) BY <2>3, <3>2 DEF Held, NoPages
    <3> QED BY <2>2, <3>1, <3>3 DEF g
  <2>4. CASE c.used = {}
    <3>1. t = FoldLeft(DestroyPage, [s EXCEPT !.allocator = RemovedAll(c)], Removed(c))
      BY <2>1, <2>4 DEF DestroyDynamic, Freed
    <3>2. \A x : [s EXCEPT !.allocator = x] = [r EXCEPT !.allocator = x] OBVIOUS
    <3> DEFINE u == FoldLeft(DestroyPage, [r EXCEPT !.allocator = RemovedAll(r.allocator)],
                             Removed(r.allocator))
    <3>3. [s EXCEPT !.allocator = RemovedAll(c)] = [r EXCEPT !.allocator = RemovedAll(c)] BY <3>2
    <3>4. t = u BY <2>2, <3>1, <3>3
    <3> HIDE DEF t, g, r, c
    <3>5. /\ r.allocator.used = {}
          /\ \A b, e \in ToSet(r.allocator.free) : b # e => b.buffer # e.buffer \/ End(b) # e.offset
      BY <2>2, <2>4
    <3>6. /\ Whole(u, g, A, B0) /\ NoPages(u.allocator, g) /\ u.size = r.size
          /\ u.frame.pre = r.frame.pre /\ u.frame.draws = r.frame.draws
      BY <2>2, <3>5, PagesGo
    <3> HIDE DEF u
    <3> QED BY <2>2, <3>4, <3>6 DEF t, g
  <2> QED BY <2>3, <2>4
<1> QED BY <1>1, <1>2

-----------------------------------------------------------------------------
(* freeDynamicBuffers: the dynamic buffers that are queued go one by one.    *)

\* The records it passes through.
Releasing == {s \in States : Tidy(s.allocator) /\ PagesOf(s.allocator) \subseteq Buffers \ {0}}

\* A state that is whole is one of them.
LEMMA WholeReleasing ==
    ASSUME NEW s, NEW f, NEW A, NEW B0, Whole(s, f, A, B0)
    PROVE  /\ s \in Releasing
           /\ \A d \in DOMAIN f : f[d].buffer \in Buffers
<1>1. s \in States /\ Filled(s.allocator, s.size) /\ Sizing(s.size)
      /\ Owned(s.size, PagesOf(s.allocator), f, A, s.frame.freeIndexBuffer)
  BY StateFields DEF Whole
<1>2. /\ PagesOf(s.allocator) \subseteq DOMAIN s.size
      /\ \A d \in PagedIn(f) : f[d].buffer \in PagesOf(s.allocator)
      /\ \A d \in OwnIn(f) : f[d].buffer \in OwnBuffers(f)
  BY PagesKnown
<1>3. Transients \intersect PagesOf(s.allocator) = {} /\ OwnBuffers(f) \subseteq DOMAIN s.size
  BY <1>1 DEF Owned, Parts
<1>4. DOMAIN s.size \subseteq Buffers BY <1>1 DEF Sizing
<1>5. Tidy(s.allocator) BY <1>1 DEF Filled
<1>6. s \in Releasing BY <1>1, <1>2, <1>3, <1>4, <1>5, TransientsAssumption DEF Releasing
<1>7. \A d \in DOMAIN f : d \in PagedIn(f) \/ d \in OwnIn(f) BY DEF PagedIn, OwnIn
<1> QED BY <1>2, <1>3, <1>4, <1>6, <1>7

\* Destroying pages does not change the allocator.
LEMMA DestroysKeepAllocator ==
    ASSUME NEW s \in States, NEW w \in Seq(Block), \A i \in 1 .. Len(w) : w[i].buffer \in Buffers
    PROVE  /\ FoldLeft(DestroyPage, s, w) \in States
           /\ FoldLeft(DestroyPage, s, w).allocator = s.allocator
<1>1. PICK g : DestroyChain(g, s, w) /\ g[Len(w)] = FoldLeft(DestroyPage, s, w) BY DestroysAre
<1> DEFINE S == {k \in 0 .. Len(w) : g[k] \in States /\ g[k].allocator = s.allocator}
<1>2. Len(w) \in Nat OBVIOUS
<1>3. 0 \in S BY <1>1, <1>2 DEF DestroyChain
<1>4. ASSUME NEW k \in 0 .. Len(w) - 1, k \in S PROVE k + 1 \in S
  <2>1. k + 1 \in 1 .. Len(w) /\ k + 1 \in 0 .. Len(w) /\ (k + 1) - 1 = k BY <1>2
  <2>2. g[k + 1] = Destroy(g[k], w[k + 1].buffer) BY <1>1, <2>1 DEF DestroyChain
  <2>3. g[k] \in States /\ g[k].allocator = s.allocator BY <1>4
  <2>4. w[k + 1].buffer \in Buffers BY <2>1
  <2>5. g[k + 1] \in States /\ g[k + 1].allocator = g[k].allocator
    BY <2>2, <2>3, <2>4, DestroyDoes
  <2> QED BY <2>1, <2>3, <2>5
<1> HIDE DEF S
<1>5. \A k \in 0 .. Len(w) : k \in S BY <1>2, <1>3, <1>4, UpTo
<1>6. Len(w) \in S BY <1>2, <1>5
<1> QED BY <1>1, <1>6 DEF S

\* Destroying a dynamic buffer leads to a record of that kind.
LEMMA DestroyDynamicType ==
    ASSUME NEW s \in Releasing, NEW d, dib[d].buffer \in Buffers
    PROVE  DestroyDynamic(s, d) \in Releasing
<1> DEFINE a == s.allocator
           e == Free(a, dib[d].buffer, dib[d].offset)
           c == Compact(e)
           r == [s EXCEPT !.allocator = c]
           n == [s EXCEPT !.allocator = NoBlocks]
<1>1. s \in States /\ Tidy(a) /\ PagesOf(a) \subseteq Buffers \ {0} BY DEF Releasing
<1>2. Tidy(e) /\ BlocksOf(e) = BlocksOf(a)
  <2> HIDE DEF a
  <2> QED BY <1>1, FreeKeeps
<1>3. Tidy(c) /\ SameBytes(BlocksOf(e), BlocksOf(c))
  <2> HIDE DEF e
  <2> QED BY <1>2, CompactKeeps
<1>4. PagesOf(c) = PagesOf(a)
  <2>1. AllApart(BlocksOf(e)) /\ AllApart(BlocksOf(c)) BY <1>2, <1>3 DEF Tidy
  <2> HIDE DEF e, c, a
  <2>2. PagesOf(c) = PagesOf(e) BY <1>3, <2>1, SamePages DEF PagesOf
  <2> QED BY <1>2, <2>2 DEF PagesOf
<1>5. c \in Allocators BY <1>3 DEF Tidy, Allocators
<1>6. CASE "COMPUTE_READ" \in dib[d].flags
  <2>1. DestroyDynamic(s, d) = Destroy(s, dib[d].buffer) BY <1>6 DEF DestroyDynamic
  <2>2. /\ Destroy(s, dib[d].buffer) \in States
        /\ Destroy(s, dib[d].buffer).allocator = a
    BY <1>1, DestroyDoes
  <2> QED BY <1>1, <2>1, <2>2 DEF Releasing
<1>7. CASE "COMPUTE_READ" \notin dib[d].flags /\ c.used # {}
  <2>1. DestroyDynamic(s, d) = r BY <1>7 DEF DestroyDynamic
  <2> HIDE DEF c, a
  <2>2. r \in States /\ r.allocator = c BY <1>1, <1>5, WithAllocator
  <2> QED BY <1>1, <1>3, <1>4, <2>1, <2>2 DEF Releasing
<1>8. CASE "COMPUTE_READ" \notin dib[d].flags /\ c.used = {}
  <2> DEFINE w == c.free
  <2>1. DestroyDynamic(s, d)
        = FoldLeft(DestroyPage, [s EXCEPT !.allocator = RemovedAll(c)], Removed(c))
    BY <1>8 DEF DestroyDynamic
  <2> HIDE DEF c, a
  <2>2. c = [free |-> w, used |-> {}] /\ w \in Seq(Block) /\ BlocksOf(c) = ToSet(w)
    BY <1>3, <1>8, TidyIs DEF BlocksOf
  <2>3. \A b \in ToSet(w) : b.buffer \in Buffers /\ b.buffer # 0
    BY <1>1, <1>4, <2>2 DEF PagesOf
  <2>4. Removed(c) = w /\ RemovedAll(c) = NoBlocks
    <3>1. Removed(c) = w /\ RemovedAll(c) = [c EXCEPT !.free = <<>>] BY <1>5, <2>3, RemovedIs
    <3> HIDE DEF w
    <3>2. [c EXCEPT !.free = <<>>] = [[free |-> w, used |-> {}] EXCEPT !.free = <<>>] BY <2>2
    <3> QED BY <3>1, <3>2, Emptied
  <2>5. n \in States /\ n.allocator = NoBlocks BY <1>1, NoBlocksIs, WithAllocator
  <2>6. \A i \in 1 .. Len(w) : w[i].buffer \in Buffers BY <2>2, <2>3, ElementsAre
  <2>7. DestroyDynamic(s, d) = FoldLeft(DestroyPage, n, w) BY <2>1, <2>4
  <2> HIDE DEF n, w
  <2>8. FoldLeft(DestroyPage, n, w) \in States /\ FoldLeft(DestroyPage, n, w).allocator = NoBlocks
    BY <2>2, <2>5, <2>6, DestroysKeepAllocator
  <2>9. PagesOf(NoBlocks) \subseteq Buffers \ {0} /\ Tidy(NoBlocks) BY NoBlocksIs
  <2> QED BY <2>7, <2>8, <2>9 DEF Releasing
<1> QED BY <1>6, <1>7, <1>8

ReleaseChain(g, s, w) ==
    /\ g \in [0 .. Len(w) -> Releasing] /\ g[0] = s
    /\ \A k \in 1 .. Len(w) : g[k] = DestroyDynamic(g[k - 1], w[k])

\* The fold of DestroyDynamic goes through one state per dynamic buffer.
LEMMA ReleasesAre ==
    ASSUME NEW b \in Releasing, NEW D, NEW w \in Seq(D), \A d \in D : dib[d].buffer \in Buffers
    PROVE  \E g : ReleaseChain(g, b, w) /\ g[Len(w)] = FoldLeft(DestroyDynamic, b, w)
<1> DEFINE n == Len(w)
           Is(it) == it = [s \in SUBSET DOMAIN w |->
                              IF s = {} THEN b ELSE DestroyDynamic(it[s \ {Max(s)}], w[Max(s)])]
           G == [p \in Releasing \X (1 .. n) |-> DestroyDynamic(p[1], w[p[2]])]
<1>1. \A x \in Releasing, i \in 1 .. n : G[<<x, i>>] = DestroyDynamic(x, w[i]) OBVIOUS
<1>2. n \in Nat /\ DOMAIN w = 1 .. n /\ \A i \in 1 .. n : dib[w[i]].buffer \in Buffers
  BY LenProperties
<1>3. G \in [Releasing \X (1 .. n) -> Releasing]
  <2>1. \A x \in Releasing, i \in 1 .. n : DestroyDynamic(x, w[i]) \in Releasing
    BY <1>2, DestroyDynamicType
  <2> HIDE DEF n
  <2> QED BY <2>1
<1> HIDE DEF G, n
<1>4. \A s \in SUBSET (1 .. n) : s # {} => Max(s) \in 1 .. n BY <1>2, MaxIn
<1>5. \E it : Is(it)
  <2>1. PICK it : Unfolds(it, Releasing, b, n, G) BY <1>2, <1>3, FoldExists
  <2>2. ASSUME NEW s \in SUBSET (1 .. n), s # {}
        PROVE  it[s] = DestroyDynamic(it[s \ {Max(s)}], w[Max(s)])
    <3>1. it[s \ {Max(s)}] \in Releasing BY <2>1 DEF Unfolds
    <3>2. it[s] = G[<<it[s \ {Max(s)}], Max(s)>>] BY <2>1, <2>2 DEF Unfolds
    <3> QED BY <1>1, <1>4, <2>2, <3>1, <3>2
  <2>3. it = [s \in SUBSET (1 .. n) |-> it[s]] /\ it[{}] = b BY <2>1 DEF Unfolds
  <2>4. [s \in SUBSET (1 .. n) |-> it[s]]
            = [s \in SUBSET (1 .. n) |->
                  IF s = {} THEN b ELSE DestroyDynamic(it[s \ {Max(s)}], w[Max(s)])]
    BY <2>2, <2>3, Zenon
  <2>5. Is(it) BY <1>2, <2>3, <2>4, Zenon
  <2> QED BY <2>5, Zenon
<1> DEFINE it == CHOOSE it : Is(it)
<1>6. Is(it) BY <1>5, Zenon
<1>7. FoldLeft(DestroyDynamic, b, w) = it[1 .. n] BY <1>2, Zenon DEF FoldLeft, MapThenFoldSet
<1> HIDE DEF it
<1>8. Follows(it, Releasing, b, n, G)
  <2>1. it[{}] = b /\ \A s \in SUBSET (1 .. n) :
                         s # {} => it[s] = DestroyDynamic(it[s \ {Max(s)}], w[Max(s)])
    BY <1>2, <1>6
  <2> HIDE DEF Is
  <2> QED BY <1>1, <1>4, <2>1 DEF Follows
<1> HIDE DEF Is
<1>9. PICK g : IsChain(g, Releasing, b, n, G, it[1 .. n]) BY <1>2, <1>3, <1>8, FoldChain
<1>10. ASSUME NEW k \in 1 .. n PROVE g[k] = DestroyDynamic(g[k - 1], w[k])
  <2>1. g[k - 1] \in Releasing BY <1>2, <1>9 DEF IsChain
  <2>2. g[k] = G[<<g[k - 1], k>>] BY <1>9 DEF IsChain
  <2> QED BY <1>1, <2>1, <2>2
<1>11. ReleaseChain(g, b, w) BY <1>9, <1>10 DEF IsChain, n, ReleaseChain
<1>12. g[n] = it[1 .. n] BY <1>9 DEF IsChain
<1> QED BY <1>7, <1>11, <1>12 DEF n

\* After the first k of them.
Released(s, r, f, A, B0) ==
    /\ Whole(r, f, A, B0) /\ NoPages(r.allocator, f) /\ r.size = s.size
    /\ r.frame.pre = s.frame.pre /\ r.frame.draws = s.frame.draws

\* All that are queued are released, and everything stays right for the others.
LEMMA AllReleased ==
    ASSUME NEW s, NEW A, NEW B0 \in SUBSET Nat, Whole(s, dib, A, B0), NoPages(s.allocator, dib),
           NEW w \in Seq(dynamics), IsInjective(w)
    PROVE  Released(s, FoldLeft(DestroyDynamic, s, w), Restrict(dib, dynamics \ ToSet(w)), A, B0)
<1>1. s \in Releasing /\ \A d \in dynamics : dib[d].buffer \in Buffers
  BY WholeReleasing DEF dynamics
<1>2. PICK g : ReleaseChain(g, s, w) /\ g[Len(w)] = FoldLeft(DestroyDynamic, s, w)
  BY <1>1, ReleasesAre
<1> DEFINE left(k) == Restrict(dib, dynamics \ {w[i] : i \in 1 .. k})
           S == {k \in 0 .. Len(w) : Released(s, g[k], left(k), A, B0)}
<1>3. Len(w) \in Nat /\ DOMAIN w = 1 .. Len(w) /\ \A i \in 1 .. Len(w) : w[i] \in dynamics
  BY ElementsAre
<1>4. 0 \in S
  <2>1. g[0] = s /\ 0 \in 0 .. Len(w) BY <1>2, <1>3 DEF ReleaseChain
  <2>2. {w[i] : i \in 1 .. 0} = {} OBVIOUS
  <2>3. dib = [d \in DOMAIN dib |-> dib[d]] BY DEF Whole, Known
  <2>4. left(0) = dib BY <2>2, <2>3 DEF Restrict, dynamics
  <2>5. Released(s, s, dib, A, B0) BY DEF Released
  <2> HIDE DEF left
  <2> QED BY <2>1, <2>4, <2>5
<1>5. ASSUME NEW k \in 0 .. Len(w) - 1, k \in S PROVE k + 1 \in S
  <2> DEFINE r == g[k]
             d == w[k + 1]
             f == left(k)
             t == DestroyDynamic(r, d)
  <2>1. k + 1 \in 1 .. Len(w) /\ k + 1 \in 0 .. Len(w) /\ (k + 1) - 1 = k BY <1>3
  <2>2. g[k + 1] = t BY <1>2, <2>1 DEF ReleaseChain
  <2>3. Released(s, r, f, A, B0) BY <1>5
  <2>4. d \in dynamics /\ d \notin {w[i] : i \in 1 .. k}
    <3>1. \A i \in 1 .. k : i \in DOMAIN w /\ i # k + 1 BY <1>3
    <3>2. k + 1 \in DOMAIN w BY <1>3, <2>1
    <3>3. \A i \in 1 .. k : w[i] # w[k + 1] BY <3>1, <3>2 DEF IsInjective
    <3> QED BY <1>3, <2>1, <3>3
  <2>5. DOMAIN f = dynamics \ {w[i] : i \in 1 .. k} /\ d \in DOMAIN f /\ f[d] = dib[d]
    BY <2>4 DEF Restrict
  <2>6. Restrict(f, DOMAIN f \ {d}) = left(k + 1)
    <3>1. 1 .. k + 1 = (1 .. k) \union {k + 1} BY <1>3
    <3>2. DOMAIN f \ {d} = dynamics \ {w[i] : i \in 1 .. k + 1} BY <2>5, <3>1
    <3>3. \A e \in DOMAIN f : f[e] = dib[e] BY DEF Restrict
    <3>4. Restrict(f, DOMAIN f \ {d}) = Restrict(dib, DOMAIN f \ {d})
      <4> HIDE DEF f
      <4> QED BY <3>3 DEF Restrict
    <3> HIDE DEF f
    <3> QED BY <3>2, <3>4
  <2> HIDE DEF f, r, d, left
  <2>7. /\ Whole(t, left(k + 1), A, B0) /\ NoPages(t.allocator, left(k + 1)) /\ t.size = r.size
        /\ t.frame.pre = r.frame.pre /\ t.frame.draws = r.frame.draws
    <3>1. Whole(r, f, A, B0) /\ NoPages(r.allocator, f) BY <2>3 DEF Released
    <3> DEFINE h == Restrict(f, DOMAIN f \ {d})
    <3>2. /\ Whole(t, h, A, B0) /\ NoPages(t.allocator, h) /\ t.size = r.size
          /\ t.frame.pre = r.frame.pre /\ t.frame.draws = r.frame.draws
      BY <2>5, <3>1, DestroyDynamicKeeps
    <3> HIDE DEF h, t
    <3>3. h = left(k + 1) BY <2>6 DEF h
    <3> QED BY <3>2, <3>3
  <2> HIDE DEF t
  <2>8. Released(s, t, left(k + 1), A, B0) BY <2>3, <2>7 DEF Released
  <2> QED BY <2>1, <2>2, <2>8
<1> HIDE DEF S
<1>6. \A k \in 0 .. Len(w) : k \in S BY <1>3, <1>4, <1>5, UpTo
<1>7. Len(w) \in S BY <1>3, <1>6
<1>8. {w[i] : i \in 1 .. Len(w)} = ToSet(w) BY <1>3 DEF ToSet
<1> QED BY <1>2, <1>7, <1>8 DEF S

-----------------------------------------------------------------------------
(* The data of the dynamic buffers.                                         *)

\* Of the writes that reach byte x of buffer b the last is of owner e.
LastIsOwn(pre, b, x, e) ==
    \A i \in DOMAIN pre : pre[i].op = "Write" /\ Covers(pre[i].range, b, x) =>
        \E j \in i .. Len(pre) :
            pre[j].op = "Write" /\ Covers(pre[j].range, b, x) /\ pre[j].range.owner = e

\* C are the buffers with static data, D those with the data of dynamic buffers.  What
\* a dynamic buffer may draw it has written last.
Data(pre, draws, f, w, C, D) ==
    /\ w \in [DOMAIN f -> Nat] /\ \A e \in DOMAIN f : w[e] <= f[e].size
    /\ \A i \in DOMAIN pre : pre[i].op = "Write" =>
          pre[i].range.buffer \in (IF pre[i].range.owner = Static THEN C ELSE D)
    /\ \A r \in draws :
          /\ r.owner = Static => r.buffer \in C
          /\ r.owner # Static =>
                /\ r.owner \in DOMAIN f /\ r.buffer = f[r.owner].buffer
                /\ r.first = First(f[r.owner]) /\ r.end <= First(f[r.owner]) + w[r.owner]
    /\ \A e \in DOMAIN f : \A x \in First(f[e]) .. First(f[e]) + w[e] - 1 :
          LastIsOwn(pre, f[e].buffer, x, e)

\* No two dynamic buffers have a byte in common.
LEMMA DataApart ==
    ASSUME NEW s, NEW f, NEW A, NEW B0, Whole(s, f, A, B0), NEW d \in DOMAIN f, NEW e \in DOMAIN f,
           f[d].buffer = f[e].buffer, NEW x \in Nat,
           First(f[d]) <= x, x < First(f[d]) + f[d].size,
           First(f[e]) <= x, x < First(f[e]) + f[e].size
    PROVE  d = e
<1>1. /\ Filled(s.allocator, s.size) /\ Held(s.allocator, f) /\ Known(f)
      /\ Owned(s.size, PagesOf(s.allocator), f, A, s.frame.freeIndexBuffer)
  BY DEF Whole
<1>2. /\ \A c \in PagedIn(f) : f[c].buffer \in PagesOf(s.allocator)
      /\ \A c \in OwnIn(f) : f[c].buffer \in OwnBuffers(f)
  BY PagesKnown
<1>3. PagesOf(s.allocator) \intersect OwnBuffers(f) = {}
      /\ \A b, c \in OwnIn(f) : f[b].buffer = f[c].buffer => b = c
  BY <1>1 DEF Owned, Parts
<1>4. First(f[d]) = f[d].offset /\ First(f[e]) = f[e].offset
      /\ f[d] \in DynamicIndexBuffer /\ f[e] \in DynamicIndexBuffer
  BY <1>1 DEF Known
<1>5. CASE d \in PagedIn(f) /\ e \in PagedIn(f)
  <2>1. PICK b \in s.allocator.used :
           b.buffer = f[d].buffer /\ b.offset = f[d].offset /\ f[d].size <= b.size
    BY <1>1, <1>5 DEF Held
  <2>2. PICK c \in s.allocator.used :
           c.buffer = f[e].buffer /\ c.offset = f[e].offset /\ f[e].size <= c.size
    BY <1>1, <1>5 DEF Held
  <2>3. AllApart(BlocksOf(s.allocator)) /\ b \in BlocksOf(s.allocator) /\ c \in BlocksOf(s.allocator)
        /\ b \in Block /\ c \in Block
    BY <1>1, <2>1, <2>2 DEF Filled, Tidy, BlocksOf, AllApart
  <2>4. Within(b, b.buffer, x)
    <3>1. End(b) = b.offset + b.size /\ b.size \in Nat /\ b.offset \in Nat BY <2>3, BlockIs
    <3>2. f[d].size \in Nat BY <1>4 DEF DynamicIndexBuffer
    <3> QED BY <1>4, <2>1, <3>1, <3>2 DEF Within
  <2>5. Within(c, b.buffer, x)
    <3>1. End(c) = c.offset + c.size /\ c.size \in Nat /\ c.offset \in Nat BY <2>3, BlockIs
    <3>2. f[e].size \in Nat BY <1>4 DEF DynamicIndexBuffer
    <3> QED BY <1>4, <2>1, <2>2, <3>1, <3>2 DEF Within
  <2>6. b = c BY <2>3, <2>4, <2>5, OneBlockPerByte
  <2>7. \A u, v \in PagedIn(f) : f[u].buffer = f[v].buffer /\ f[u].offset = f[v].offset => u = v
    BY <1>1 DEF Held
  <2> QED BY <1>5, <2>1, <2>2, <2>6, <2>7
<1>6. CASE d \in OwnIn(f) /\ e \in OwnIn(f) BY <1>3, <1>6
<1>7. CASE d \in PagedIn(f) /\ e \in OwnIn(f) BY <1>2, <1>3, <1>7
<1>8. CASE d \in OwnIn(f) /\ e \in PagedIn(f) BY <1>2, <1>3, <1>8
<1>9. (d \in PagedIn(f) \/ d \in OwnIn(f)) /\ (e \in PagedIn(f) \/ e \in OwnIn(f))
  BY DEF PagedIn, OwnIn
<1> QED BY <1>5, <1>6, <1>7, <1>8, <1>9

\* A command that is not another's write of the byte.
LEMMA LastRecorded ==
    ASSUME NEW pre \in Seq(Cmds), NEW c \in Cmds, NEW b, NEW x, NEW e, LastIsOwn(pre, b, x, e),
           c.op = "Write" /\ Covers(c.range, b, x) => c.range.owner = e
    PROVE  LastIsOwn(Append(pre, c), b, x, e)
<1> DEFINE v == Append(pre, c)
           n == Len(pre)
           hits(k) == v[k].op = "Write" /\ Covers(v[k].range, b, x)
<1>1. v \in Seq(Cmds) /\ Len(v) = n + 1 /\ v[n + 1] = c /\ \A i \in 1 .. n : v[i] = pre[i]
      /\ n \in Nat /\ DOMAIN v = 1 .. n + 1 /\ DOMAIN pre = 1 .. n
  BY AppendProperties, ElementsAre
<1> HIDE DEF v
<1>2. SUFFICES ASSUME NEW i \in 1 .. n + 1, hits(i)
               PROVE  \E j \in i .. n + 1 : hits(j) /\ v[j].range.owner = e
  BY <1>1 DEF LastIsOwn, v
<1>3. CASE i = n + 1
  <2>1. hits(i) /\ v[i].range.owner = e /\ i \in i .. n + 1 BY <1>1, <1>2, <1>3
  <2> QED BY <2>1
<1>4. CASE i \in 1 .. n
  <2>1. pre[i].op = "Write" /\ Covers(pre[i].range, b, x) BY <1>1, <1>2, <1>4
  <2>2. PICK j \in i .. n :
           pre[j].op = "Write" /\ Covers(pre[j].range, b, x) /\ pre[j].range.owner = e
    BY <1>1, <1>4, <2>1 DEF LastIsOwn
  <2>3. j \in 1 .. n /\ j \in i .. n + 1 BY <1>1, <1>4, <2>2
  <2>4. v[j] = pre[j] BY <1>1, <2>3
  <2>5. hits(j) /\ v[j].range.owner = e BY <2>2, <2>4
  <2> QED BY <2>3, <2>5
<1>5. i = n + 1 \/ i \in 1 .. n BY <1>1
<1> QED BY <1>3, <1>4, <1>5

\* The write of the byte.
LEMMA LastWritten ==
    ASSUME NEW pre \in Seq(Cmds), NEW c \in Cmds, NEW b, NEW x,
           c.op = "Write", Covers(c.range, b, x)
    PROVE  LastIsOwn(Append(pre, c), b, x, c.range.owner)
<1> DEFINE v == Append(pre, c)
           n == Len(pre)
           hits(k) == v[k].op = "Write" /\ Covers(v[k].range, b, x)
<1>1. v \in Seq(Cmds) /\ Len(v) = n + 1 /\ v[n + 1] = c
      /\ n \in Nat /\ DOMAIN v = 1 .. n + 1
  BY AppendProperties, ElementsAre
<1> HIDE DEF v
<1>2. hits(n + 1) /\ v[n + 1].range.owner = c.range.owner BY <1>1
<1>3. \A i \in 1 .. n + 1 : n + 1 \in i .. n + 1 BY <1>1
<1>4. \A i \in DOMAIN v : \E j \in i .. Len(v) : hits(j) /\ v[j].range.owner = c.range.owner
  BY <1>1, <1>2, <1>3
<1> QED BY <1>4 DEF LastIsOwn, v

\* The fields of a dynamic buffer.
LEMMA KnownIs ==
    ASSUME NEW f, Known(f), NEW e \in DOMAIN f
    PROVE  /\ f[e] \in DynamicIndexBuffer /\ f[e].size \in Nat /\ f[e].buffer \in Nat
           /\ f[e].offset \in Nat /\ First(f[e]) \in Nat /\ First(f[e]) = f[e].offset
           /\ f[e].flags \in Flags /\ e \in Dynamics /\ e # Static
<1>1. f[e] \in DynamicIndexBuffer /\ First(f[e]) = f[e].offset /\ f[e].flags \in Flags /\ e \in Dynamics
  BY DEF Known
<1> QED BY <1>1, OwnerAssumption DEF DynamicIndexBuffer

\* More buffers.
LEMMA DataWider ==
    ASSUME NEW pre, NEW draws, NEW f, NEW w, NEW C, NEW D, Data(pre, draws, f, w, C, D),
           NEW C2, NEW D2, C \subseteq C2, D \subseteq D2
    PROVE  Data(pre, draws, f, w, C2, D2)
  BY DEF Data

\* A command that writes no byte of another's data.
LEMMA DataRecorded ==
    ASSUME NEW pre \in Seq(Cmds), NEW draws, NEW f, NEW w, NEW C, NEW D, Known(f),
           Data(pre, draws, f, w, C, D), NEW c \in Cmds,
           c.op = "Write" => c.range.buffer \in (IF c.range.owner = Static THEN C ELSE D),
           \A e \in DOMAIN f : \A x \in Nat :
              /\ c.op = "Write" /\ Covers(c.range, f[e].buffer, x)
              /\ First(f[e]) <= x /\ x < First(f[e]) + f[e].size
              => c.range.owner = e
    PROVE  Data(Append(pre, c), draws, f, w, C, D)
<1> DEFINE v == Append(pre, c)
<1>1. /\ v \in Seq(Cmds) /\ Len(v) = Len(pre) + 1 /\ v[Len(pre) + 1] = c
      /\ \A i \in 1 .. Len(pre) : v[i] = pre[i]
      /\ DOMAIN v = 1 .. Len(pre) + 1 /\ DOMAIN pre = 1 .. Len(pre) /\ Len(pre) \in Nat
  BY AppendProperties, ElementsAre
<1>2. \A i \in DOMAIN v : v[i].op = "Write" =>
          v[i].range.buffer \in (IF v[i].range.owner = Static THEN C ELSE D)
  <2> HIDE DEF v
  <2> TAKE i \in DOMAIN v
  <2>1. CASE i = Len(pre) + 1 BY <1>1, <2>1
  <2>2. CASE i # Len(pre) + 1
    <3>1. i \in DOMAIN pre /\ v[i] = pre[i] BY <1>1, <2>2
    <3> QED BY <3>1 DEF Data
  <2> QED BY <2>1, <2>2
<1>3. ASSUME NEW e \in DOMAIN f, NEW x \in First(f[e]) .. First(f[e]) + w[e] - 1
      PROVE  LastIsOwn(v, f[e].buffer, x, e)
  <2>1. LastIsOwn(pre, f[e].buffer, x, e) BY DEF Data
  <2>2. w[e] \in Nat /\ w[e] <= f[e].size BY DEF Data
  <2>3. First(f[e]) \in Nat /\ f[e].size \in Nat BY KnownIs
  <2>4. x \in Nat /\ First(f[e]) <= x /\ x < First(f[e]) + f[e].size BY <2>2, <2>3
  <2>5. c.op = "Write" /\ Covers(c.range, f[e].buffer, x) => c.range.owner = e BY <2>4
  <2> QED BY <2>1, <2>5, LastRecorded
<1> HIDE DEF v
<1> QED BY <1>2, <1>3 DEF Data, v

\* The write of a dynamic buffer.
DataRange(f, d, bytes) ==
    [buffer |-> f[d].buffer, first |-> First(f[d]), end |-> First(f[d]) + bytes, owner |-> d]

\* The bytes of an update are a range.
LEMMA RangeIs ==
    ASSUME NEW f, Known(f), NEW d \in DOMAIN f, NEW bytes \in Nat
    PROVE  DataRange(f, d, bytes) \in Ranges /\ WriteCmd(DataRange(f, d, bytes)) \in Cmds
<1>1. First(f[d]) \in Nat /\ f[d].buffer \in Nat /\ d \in Dynamics BY KnownIs
<1>2. DataRange(f, d, bytes) \in Ranges BY <1>1 DEF DataRange, Ranges
<1> QED BY <1>2, CmdsAre

\* An update writes its owner's data only, and those it writes may then be drawn.
LEMMA DataWritten ==
    ASSUME NEW s, NEW f, NEW A, NEW B0, Whole(s, f, A, B0),
           NEW pre \in Seq(Cmds), NEW draws \in SUBSET Ranges, NEW w, NEW C, NEW D,
           Data(pre, draws, f, w, C, D), NEW d \in DOMAIN f, f[d].buffer \in D,
           NEW bytes \in Nat, bytes <= f[d].size
    PROVE  Data(Append(pre, WriteCmd(DataRange(f, d, bytes))), draws, f,
                [w EXCEPT ![d] = Max2(@, bytes)], C, D)
<1> DEFINE r == DataRange(f, d, bytes)
           c == WriteCmd(r)
           v == Append(pre, c)
           u == [w EXCEPT ![d] = Max2(@, bytes)]
<1>1. Known(f) BY DEF Whole
<1>2. c \in Cmds /\ c.op = "Write" /\ c.range = r BY <1>1, RangeIs DEF WriteCmd
<1>3. /\ r.buffer = f[d].buffer /\ r.first = First(f[d]) /\ r.end = First(f[d]) + bytes
      /\ r.owner = d
  BY DEF DataRange
<1>4. First(f[d]) \in Nat /\ f[d].size \in Nat /\ d # Static BY <1>1, KnownIs
<1> HIDE DEF r, c
<1>5. \A e \in DOMAIN f : \A x \in Nat :
         /\ c.op = "Write" /\ Covers(c.range, f[e].buffer, x)
         /\ First(f[e]) <= x /\ x < First(f[e]) + f[e].size
         => c.range.owner = e
  <2> TAKE e \in DOMAIN f
  <2> TAKE x \in Nat
  <2> HAVE /\ c.op = "Write" /\ Covers(c.range, f[e].buffer, x)
           /\ First(f[e]) <= x /\ x < First(f[e]) + f[e].size
  <2>1. f[d].buffer = f[e].buffer /\ First(f[d]) <= x /\ x < First(f[d]) + bytes
    BY <1>2, <1>3 DEF Covers
  <2>2. x < First(f[d]) + f[d].size BY <1>4, <2>1
  <2>3. d = e BY <2>1, <2>2, DataApart
  <2> QED BY <1>2, <1>3, <2>3
<1>6. Data(v, draws, f, w, C, D)
  <2>1. c.range.buffer \in (IF c.range.owner = Static THEN C ELSE D) BY <1>2, <1>3, <1>4
  <2> QED BY <1>1, <1>2, <1>5, <2>1, DataRecorded
<1>7. w \in [DOMAIN f -> Nat] /\ \A e \in DOMAIN f : w[e] <= f[e].size BY DEF Data
<1>8. u \in [DOMAIN f -> Nat] /\ u[d] = Max2(w[d], bytes) /\ \A e \in DOMAIN f : e # d => u[e] = w[e]
  BY <1>7 DEF Max2
<1>9. w[d] <= u[d] /\ u[d] <= f[d].size /\ w[d] \in Nat /\ u[d] \in Nat
      /\ (u[d] = w[d] \/ u[d] = bytes)
  BY <1>7, <1>8 DEF Max2
<1> HIDE DEF u, v
<1>10. \A e \in DOMAIN f : u[e] <= f[e].size BY <1>7, <1>8, <1>9
<1>11. \A q \in draws : q.owner # Static =>
          /\ q.owner \in DOMAIN f /\ q.buffer = f[q.owner].buffer
          /\ q.first = First(f[q.owner]) /\ q.end <= First(f[q.owner]) + u[q.owner]
  <2> TAKE q \in draws
  <2> HAVE q.owner # Static
  <2>1. /\ q.owner \in DOMAIN f /\ q.buffer = f[q.owner].buffer
        /\ q.first = First(f[q.owner]) /\ q.end <= First(f[q.owner]) + w[q.owner]
    BY <1>6 DEF Data
  <2>2. q.end \in Nat /\ First(f[q.owner]) \in Nat /\ w[q.owner] \in Nat /\ u[q.owner] \in Nat
    BY <1>1, <1>7, <1>8, <2>1, KnownIs DEF Ranges
  <2>3. w[q.owner] <= u[q.owner] BY <1>8, <1>9, <2>1, <2>2
  <2> QED BY <2>1, <2>2, <2>3
<1>12. ASSUME NEW e \in DOMAIN f, NEW x \in First(f[e]) .. First(f[e]) + u[e] - 1
       PROVE  LastIsOwn(v, f[e].buffer, x, e)
  <2>1. CASE x \in First(f[e]) .. First(f[e]) + w[e] - 1 BY <1>6, <2>1 DEF Data
  <2>2. CASE x \notin First(f[e]) .. First(f[e]) + w[e] - 1
    <3>1. e = d BY <1>8, <2>2
    <3>2. u[d] = bytes BY <1>9, <2>2, <3>1
    <3>3. Covers(c.range, f[d].buffer, x) BY <1>2, <1>3, <1>4, <3>1, <3>2 DEF Covers
    <3>4. LastIsOwn(v, f[d].buffer, x, c.range.owner) BY <1>2, <3>3, LastWritten DEF v
    <3> QED BY <1>2, <1>3, <3>1, <3>4
  <2> QED BY <2>1, <2>2
<1>13. Data(v, draws, f, u, C, D) BY <1>6, <1>8, <1>10, <1>11, <1>12 DEF Data
<1> QED BY <1>13 DEF v, u, c, r

\* A dynamic buffer more, with nothing written yet.
LEMMA DataMore ==
    ASSUME NEW pre, NEW draws, NEW f, NEW w, NEW C, NEW D, Data(pre, draws, f, w, C, D),
           NEW d, d \notin DOMAIN f, NEW y, First(y) \in Nat, y.size \in Nat
    PROVE  Data(pre, draws, With(f, d, y), With(w, d, 0), C, D)
<1> DEFINE g == With(f, d, y)
           u == With(w, d, 0)
<1>1. w \in [DOMAIN f -> Nat] /\ \A e \in DOMAIN f : w[e] <= f[e].size BY DEF Data
<1>2. /\ DOMAIN g = DOMAIN f \union {d} /\ g[d] = y
      /\ \A e \in DOMAIN f : g[e] = f[e]
  BY DEF With
<1>3. u \in [DOMAIN g -> Nat] /\ u[d] = 0 /\ \A e \in DOMAIN f : u[e] = w[e]
  BY <1>1, <1>2 DEF With
<1> HIDE DEF g, u
<1>4. \A e \in DOMAIN g : u[e] <= g[e].size BY <1>1, <1>2, <1>3
<1>5. ASSUME NEW e \in DOMAIN g, NEW x \in First(g[e]) .. First(g[e]) + u[e] - 1
      PROVE  LastIsOwn(pre, g[e].buffer, x, e)
  <2>1. e # d BY <1>2, <1>3
  <2>2. e \in DOMAIN f /\ g[e] = f[e] /\ u[e] = w[e] BY <1>2, <1>3, <2>1
  <2> QED BY <2>2 DEF Data
<1>6. ASSUME NEW r \in draws
      PROVE  /\ r.owner = Static => r.buffer \in C
             /\ r.owner # Static =>
                   /\ r.owner \in DOMAIN g /\ r.buffer = g[r.owner].buffer
                   /\ r.first = First(g[r.owner]) /\ r.end <= First(g[r.owner]) + u[r.owner]
  <2>1. CASE r.owner = Static BY <2>1 DEF Data
  <2>2. CASE r.owner # Static
    <3>1. /\ r.owner \in DOMAIN f /\ r.buffer = f[r.owner].buffer
          /\ r.first = First(f[r.owner]) /\ r.end <= First(f[r.owner]) + w[r.owner]
      BY <2>2 DEF Data
    <3>2. r.owner \in DOMAIN g /\ g[r.owner] = f[r.owner] /\ u[r.owner] = w[r.owner]
      BY <1>2, <1>3, <3>1
    <3> QED BY <2>2, <3>1, <3>2
  <2> QED BY <2>1, <2>2
<1>7. \A i \in DOMAIN pre : pre[i].op = "Write" =>
          pre[i].range.buffer \in (IF pre[i].range.owner = Static THEN C ELSE D)
  BY DEF Data
<1>8. Data(pre, draws, g, u, C, D) BY <1>3, <1>4, <1>5, <1>6, <1>7 DEF Data
<1> QED BY <1>8 DEF g, u

\* Dynamic buffers that are not drawn are forgotten.
LEMMA DataLess ==
    ASSUME NEW pre, NEW draws, NEW f, NEW w, NEW C, NEW D, Data(pre, draws, f, w, C, D),
           NEW S, S \subseteq DOMAIN f, \A r \in draws : r.owner \in DOMAIN f => r.owner \in S
    PROVE  Data(pre, draws, Restrict(f, S), Restrict(w, S), C, D)
<1> DEFINE g == Restrict(f, S)
           u == Restrict(w, S)
<1>1. w \in [DOMAIN f -> Nat] /\ \A e \in DOMAIN f : w[e] <= f[e].size BY DEF Data
<1>2. DOMAIN g = S /\ \A e \in S : e \in DOMAIN f /\ g[e] = f[e] BY DEF Restrict
<1>3. u \in [DOMAIN g -> Nat] /\ \A e \in S : u[e] = w[e] BY <1>1, <1>2 DEF Restrict
<1> HIDE DEF g, u
<1>4. \A e \in DOMAIN g : u[e] <= g[e].size BY <1>1, <1>2, <1>3
<1>5. ASSUME NEW e \in DOMAIN g, NEW x \in First(g[e]) .. First(g[e]) + u[e] - 1
      PROVE  LastIsOwn(pre, g[e].buffer, x, e)
  <2>1. e \in DOMAIN f /\ g[e] = f[e] /\ u[e] = w[e] BY <1>2, <1>3
  <2> QED BY <2>1 DEF Data
<1>6. ASSUME NEW r \in draws
      PROVE  /\ r.owner = Static => r.buffer \in C
             /\ r.owner # Static =>
                   /\ r.owner \in DOMAIN g /\ r.buffer = g[r.owner].buffer
                   /\ r.first = First(g[r.owner]) /\ r.end <= First(g[r.owner]) + u[r.owner]
  <2>1. CASE r.owner = Static BY <2>1 DEF Data
  <2>2. CASE r.owner # Static
    <3>1. /\ r.owner \in DOMAIN f /\ r.buffer = f[r.owner].buffer
          /\ r.first = First(f[r.owner]) /\ r.end <= First(f[r.owner]) + w[r.owner]
      BY <2>2 DEF Data
    <3>2. r.owner \in DOMAIN g /\ g[r.owner] = f[r.owner] /\ u[r.owner] = w[r.owner]
      BY <1>2, <1>3, <3>1
    <3> QED BY <2>2, <3>1, <3>2
  <2> QED BY <2>1, <2>2
<1>7. \A i \in DOMAIN pre : pre[i].op = "Write" =>
          pre[i].range.buffer \in (IF pre[i].range.owner = Static THEN C ELSE D)
  BY DEF Data
<1>8. Data(pre, draws, g, u, C, D) BY <1>3, <1>4, <1>5, <1>6, <1>7 DEF Data
<1> QED BY <1>8 DEF g, u

\* One more draw of its owner's data.
LEMMA DataDrawn ==
    ASSUME NEW pre, NEW draws, NEW f, NEW w, NEW C, NEW D, Data(pre, draws, f, w, C, D), Known(f),
           NEW r, \/ r.owner = Static /\ r.buffer \in C
                  \/ \E d \in DOMAIN f : r = DataRange(f, d, w[d])
    PROVE  Data(pre, draws \union {r}, f, w, C, D)
<1>1. CASE r.owner = Static /\ r.buffer \in C BY <1>1 DEF Data
<1>2. CASE \E d \in DOMAIN f : r = DataRange(f, d, w[d])
  <2>1. PICK d \in DOMAIN f : r = DataRange(f, d, w[d]) BY <1>2
  <2>2. /\ r.buffer = f[d].buffer /\ r.first = First(f[d]) /\ r.end = First(f[d]) + w[d]
        /\ r.owner = d
    BY <2>1 DEF DataRange
  <2>3. d # Static /\ First(f[d]) \in Nat BY KnownIs
  <2>4. w[d] \in Nat BY DEF Data
  <2>5. r.end <= First(f[d]) + w[d] BY <2>2, <2>3, <2>4
  <2> QED BY <2>2, <2>3, <2>5 DEF Data
<1> QED BY <1>1, <1>2

\* What is drawn was written last by its owner.
LEMMA DataRead ==
    ASSUME NEW pre \in Seq(Cmds), NEW draws \in SUBSET Ranges, NEW f, NEW w, NEW C, NEW D,
           Data(pre, draws, f, w, C, D), Known(f), C \intersect D = {},
           \A e \in DOMAIN f : f[e].buffer \in D
    PROVE  \A d \in draws :
              /\ d.buffer \in C \union D
              /\ \A i \in DOMAIN pre : \A x \in d.first .. d.end - 1 :
                    pre[i].op = "Write" /\ Covers(pre[i].range, d.buffer, x) =>
                        \E j \in i .. Len(pre) :
                            /\ pre[j].op = "Write"
                            /\ Covers(pre[j].range, d.buffer, x)
                            /\ pre[j].range.owner = d.owner
<1> TAKE d \in draws
<1>1. CASE d.owner = Static
  <2>1. d.buffer \in C BY <1>1 DEF Data
  <2>2. ASSUME NEW i \in DOMAIN pre, NEW x \in d.first .. d.end - 1,
               pre[i].op = "Write", Covers(pre[i].range, d.buffer, x)
        PROVE  \E j \in i .. Len(pre) : /\ pre[j].op = "Write"
                                        /\ Covers(pre[j].range, d.buffer, x)
                                        /\ pre[j].range.owner = d.owner
    <3>1. pre[i].range.buffer = d.buffer BY <2>2 DEF Covers
    <3>2. pre[i].range.buffer \in (IF pre[i].range.owner = Static THEN C ELSE D) BY <2>2 DEF Data
    <3>3. pre[i].range.owner = Static BY <2>1, <3>1, <3>2
    <3>4. i \in i .. Len(pre) BY ElementsAre
    <3> QED BY <1>1, <2>2, <3>3, <3>4
  <2> QED BY <2>1, <2>2
<1>2. CASE d.owner # Static
  <2> DEFINE e == d.owner
  <2>1. e \in DOMAIN f /\ d.buffer = f[e].buffer /\ d.first = First(f[e])
        /\ d.end <= First(f[e]) + w[e]
    BY <1>2 DEF Data
  <2>2. ASSUME NEW i \in DOMAIN pre, NEW x \in d.first .. d.end - 1,
               pre[i].op = "Write", Covers(pre[i].range, d.buffer, x)
        PROVE  \E j \in i .. Len(pre) : /\ pre[j].op = "Write"
                                        /\ Covers(pre[j].range, d.buffer, x)
                                        /\ pre[j].range.owner = d.owner
    <3>1. First(f[e]) \in Nat /\ w[e] \in Nat /\ d.end \in Nat /\ d.first \in Nat
      BY <2>1, KnownIs DEF Data, Ranges
    <3>2. x \in First(f[e]) .. First(f[e]) + w[e] - 1 BY <2>1, <3>1
    <3>3. LastIsOwn(pre, f[e].buffer, x, e) BY <2>1, <3>2 DEF Data
    <3> QED BY <2>1, <2>2, <3>3 DEF LastIsOwn
  <2> QED BY <2>1, <2>2
<1> QED BY <1>1, <1>2

\* A frame with nothing in it yet.
LEMMA DataNone ==
    ASSUME NEW f, NEW w, w \in [DOMAIN f -> Nat], \A e \in DOMAIN f : w[e] <= f[e].size,
           NEW C, NEW D
    PROVE  Data(<<>>, {}, f, w, C, D)
  BY DEF Data, LastIsOwn

-----------------------------------------------------------------------------
(* Static buffers, writes and draws.                                        *)

\* A write that is recorded.
LEMMA WholeWritten ==
    ASSUME NEW s, NEW f, NEW A, NEW B0 \in SUBSET Nat, Whole(s, f, A, B0),
           NEW r \in Ranges, r.buffer \in DOMAIN s.size
    PROVE  LET t == [s EXCEPT !.frame.pre = Append(@, WriteCmd(r))]
           IN  /\ Whole(t, f, A, B0) /\ t.size = s.size /\ t.allocator = s.allocator
               /\ t.frame.pre = Append(s.frame.pre, WriteCmd(r)) /\ t.frame.draws = s.frame.draws
               /\ t.frame.freeIndexBuffer = s.frame.freeIndexBuffer
<1> DEFINE t == [s EXCEPT !.frame.pre = Append(@, WriteCmd(r))]
<1>1. s \in States BY DEF Whole
<1>2. /\ t \in States /\ t.size = s.size /\ t.allocator = s.allocator
      /\ t.frame.pre = Append(s.frame.pre, WriteCmd(r))
      /\ t.frame.post = s.frame.post /\ t.frame.draws = s.frame.draws
      /\ t.frame.freeIndexBuffer = s.frame.freeIndexBuffer
  BY <1>1, WriteDoes
<1> HIDE DEF t
<1>3. Prepared(t.frame, B0, DOMAIN t.size)
  <2>1. s.frame \in Frames /\ t.frame \in Frames BY <1>1, <1>2, StateFields
  <2>2. Prepared(s.frame, B0, DOMAIN s.size) /\ DOMAIN s.size \in SUBSET Nat
    BY PagesKnown DEF Whole
  <2> QED BY <1>2, <2>1, <2>2, PreparedWrite
<1>4. Whole(t, f, A, B0) BY <1>2, <1>3 DEF Whole
<1> QED BY <1>2, <1>4 DEF t

\* createIndexBuffer, without the data.
LEMMA StaticMore ==
    ASSUME NEW s, NEW f, NEW A, NEW B0 \in SUBSET Nat, Whole(s, f, A, B0),
           NEW b \in Buffers \ DOMAIN s.size, NEW n \in Nat
    PROVE  LET t == NewBuffer(s, b, n)
           IN  /\ Whole(t, f, A \union {b}, B0) /\ t.allocator = s.allocator
               /\ DOMAIN t.size = DOMAIN s.size \union {b}
               /\ t.frame.pre = Append(s.frame.pre, CreateCmd(b))
               /\ t.frame.draws = s.frame.draws
               /\ t.frame.freeIndexBuffer = s.frame.freeIndexBuffer
<1> DEFINE t == NewBuffer(s, b, n)
<1>1. s \in States /\ Filled(s.allocator, s.size) /\ Held(s.allocator, f) /\ Known(f)
      /\ Owned(s.size, PagesOf(s.allocator), f, A, s.frame.freeIndexBuffer)
  BY DEF Whole
<1>2. /\ t \in States /\ t.size = With(s.size, b, n) /\ t.allocator = s.allocator
      /\ t.frame.pre = Append(s.frame.pre, CreateCmd(b))
      /\ t.frame.post = s.frame.post /\ t.frame.draws = s.frame.draws
      /\ t.frame.freeIndexBuffer = s.frame.freeIndexBuffer
  BY <1>1, NewBufferDoes
<1> HIDE DEF t
<1>3. DOMAIN t.size = DOMAIN s.size \union {b} BY <1>2 DEF With
<1>4. Filled(t.allocator, t.size) BY <1>1, <1>2, FilledMore
<1>5. Owned(t.size, PagesOf(t.allocator), f, A \union {b}, t.frame.freeIndexBuffer)
  <2>1. Owned(With(s.size, b, n), PagesOf(s.allocator), f, A \union {b}, s.frame.freeIndexBuffer)
    BY <1>1, OwnedPageMore
  <2> QED BY <1>2, <2>1
<1>6. Prepared(t.frame, B0, DOMAIN t.size)
  <2>1. s.frame \in Frames /\ t.frame \in Frames BY <1>1, <1>2, StateFields
  <2>2. Prepared(s.frame, B0, DOMAIN s.size) /\ DOMAIN s.size \in SUBSET Nat
    BY PagesKnown DEF Whole
  <2>3. Prepared(t.frame, B0, DOMAIN s.size \union {b}) BY <1>2, <2>1, <2>2, PreparedCreate
  <2> QED BY <1>3, <2>3
<1>7. Whole(t, f, A \union {b}, B0) BY <1>1, <1>2, <1>4, <1>5, <1>6 DEF Whole
<1> QED BY <1>2, <1>3, <1>7 DEF t

\* destroyIndexBuffer.
LEMMA StaticLess ==
    ASSUME NEW s, NEW f, NEW A, NEW B0 \in SUBSET Nat, Whole(s, f, A, B0), NEW b \in A
    PROVE  LET t == Destroy(s, b)
           IN  /\ Whole(t, f, A \ {b}, B0) /\ t.size = s.size /\ t.allocator = s.allocator
               /\ t.frame.pre = s.frame.pre /\ t.frame.draws = s.frame.draws
               /\ ToSet(t.frame.freeIndexBuffer) = ToSet(s.frame.freeIndexBuffer) \union {b}
<1> DEFINE t == Destroy(s, b)
<1>1. s \in States /\ Filled(s.allocator, s.size) /\ Held(s.allocator, f) /\ Known(f)
      /\ Sizing(s.size) /\ s.frame.freeIndexBuffer \in Seq(Buffers)
      /\ Owned(s.size, PagesOf(s.allocator), f, A, s.frame.freeIndexBuffer)
      /\ Prepared(s.frame, B0, DOMAIN s.size)
  BY StateFields DEF Whole
<1>2. b \in Buffers
  <2>1. A \subseteq DOMAIN s.size BY <1>1 DEF Owned, Parts
  <2> QED BY <1>1, <2>1 DEF Sizing
<1>3. /\ t \in States /\ t.size = s.size /\ t.allocator = s.allocator
      /\ t.frame.pre = s.frame.pre /\ t.frame.draws = s.frame.draws
      /\ t.frame.post = Append(s.frame.post, DestroyCmd(b))
      /\ t.frame.freeIndexBuffer = Append(s.frame.freeIndexBuffer, b)
  BY <1>1, <1>2, DestroyDoes
<1> HIDE DEF t
<1>4. Owned(t.size, PagesOf(t.allocator), f, A \ {b}, t.frame.freeIndexBuffer)
  BY <1>1, <1>2, <1>3, OwnedStaticLess
<1>5. Prepared(t.frame, B0, DOMAIN t.size)
  <2>1. s.frame \in Frames /\ t.frame \in Frames BY <1>1, <1>3, StateFields
  <2> QED BY <1>1, <1>2, <1>3, <2>1, PreparedDestroy
<1>6. Whole(t, f, A \ {b}, B0) BY <1>1, <1>3, <1>4, <1>5 DEF Whole
<1>7. ToSet(t.frame.freeIndexBuffer) = ToSet(s.frame.freeIndexBuffer) \union {b}
  BY <1>1, <1>2, <1>3, AppendElements
<1> QED BY <1>3, <1>6, <1>7 DEF t

\* Only what a frame draws is different.
LEMMA WholeDrawn ==
    ASSUME NEW s, NEW f, NEW A, NEW B0, Whole(s, f, A, B0), NEW t \in States,
           t.size = s.size, t.allocator = s.allocator, t.frame.pre = s.frame.pre,
           t.frame.post = s.frame.post, t.frame.freeIndexBuffer = s.frame.freeIndexBuffer
    PROVE  Whole(t, f, A, B0)
<1>1. Prepared(t.frame, B0, DOMAIN t.size) BY DEF Whole, Prepared
<1> QED BY <1>1 DEF Whole

\* The static data of buffers C and the data of dynamic buffers are in different ones.
LEMMA DataBuffers ==
    ASSUME NEW s, NEW f, NEW A, NEW B0, Whole(s, f, A, B0)
    PROVE  LET C == A \union ToSet(s.frame.freeIndexBuffer)
               D == PagesOf(s.allocator) \union OwnBuffers(f)
           IN  /\ C \intersect D = {} /\ C \subseteq DOMAIN s.size /\ D \subseteq DOMAIN s.size
               /\ \A d \in DOMAIN f : f[d].buffer \in D
<1>1. Owned(s.size, PagesOf(s.allocator), f, A, s.frame.freeIndexBuffer) BY DEF Whole
<1>2. Parts(DOMAIN s.size, A, PagesOf(s.allocator), OwnBuffers(f), ToSet(s.frame.freeIndexBuffer))
  BY <1>1 DEF Owned
<1>3. /\ \A d \in PagedIn(f) : f[d].buffer \in PagesOf(s.allocator)
      /\ \A d \in OwnIn(f) : f[d].buffer \in OwnBuffers(f)
  BY PagesKnown
<1>4. \A d \in DOMAIN f : d \in PagedIn(f) \/ d \in OwnIn(f) BY DEF PagedIn, OwnIn
<1> QED BY <1>2, <1>3, <1>4 DEF Parts

-----------------------------------------------------------------------------
(* The inductive invariant.                                                 *)

\* The index buffers that exist in the renderer when it starts with submit.
StartsWith == IF rendering THEN WhenDone.buffers ELSE rBuffers

StaticBuffers == appBuffers \union ToSet(submit.freeIndexBuffer)
DynamicBuffers == PagesOf(allocator) \union OwnBuffers(dib)

\* The draws that the invariant is about: none if a buffer may grow that is drawn.
Seen(draws) == IF GrowDrawn THEN {} ELSE draws

ApiInv ==
    /\ Whole(State, dib, appBuffers, StartsWith)
    /\ NoPages(allocator, dib)
    /\ Data(submit.pre, Seen(submit.draws), dib, written, StaticBuffers, DynamicBuffers)
    /\ freeDynamic \in Seq(dynamics) /\ IsInjective(freeDynamic)
    /\ calls \in 0 .. MaxCalls

RenderInv ==
    /\ rendering \in BOOLEAN /\ render \in Frames
    /\ rBuffers \in SUBSET Buffers /\ StartsWith \in SUBSET Buffers
    /\ rendering => CommandsApply /\ (~GrowDrawn => DrawsReadOwnData)

IndexInv == ApiInv /\ RenderInv

\* A draw more of its owner's data.
LEMMA SeenDrawn ==
    ASSUME NEW pre, NEW draws, NEW f, NEW w, NEW C, NEW D, Data(pre, Seen(draws), f, w, C, D),
           Known(f),
           NEW r, \/ r.owner = Static /\ r.buffer \in C
                  \/ \E d \in DOMAIN f : r = DataRange(f, d, w[d])
    PROVE  Data(pre, Seen(draws \union {r}), f, w, C, D)
<1>1. CASE GrowDrawn
  <2>1. Seen(draws \union {r}) = Seen(draws) BY <1>1 DEF Seen
  <2> QED BY <2>1
<1>2. CASE ~GrowDrawn
  <2>1. Seen(draws \union {r}) = draws \union {r} /\ Seen(draws) = draws BY <1>2 DEF Seen
  <2> QED BY <2>1, DataDrawn
<1> QED BY <1>1, <1>2

\* What the renderer will have stays while the renderer does nothing.
LEMMA StartsWithStays ==
    ASSUME UNCHANGED rendVars
    PROVE  StartsWith' = StartsWith /\ (RenderInv => RenderInv')
<1>1. render' = render /\ rendering' = rendering /\ rBuffers' = rBuffers BY DEF rendVars
<1>2. WhenDrawing' = WhenDrawing BY <1>1 DEF WhenDrawing
<1>3. WhenDone' = WhenDone BY <1>1, <1>2 DEF WhenDone
<1>4. StartsWith' = StartsWith BY <1>1, <1>3 DEF StartsWith
<1>5. CommandsApply' = CommandsApply /\ DrawsReadOwnData' = DrawsReadOwnData
  BY <1>1, <1>2, <1>3 DEF DrawsReadOwnData, CommandsApply
<1> QED BY <1>1, <1>4, <1>5 DEF RenderInv

\* The variables once the record of a call has become the state.
LEMMA BecomesIs ==
    ASSUME NEW s \in States, Becomes(s)
    PROVE  State' = s /\ bufferSize' = s.size /\ allocator' = s.allocator /\ submit' = s.frame
<1>1. bufferSize' = s.size /\ allocator' = s.allocator /\ submit' = s.frame BY DEF Becomes
<1>2. State' = [size |-> s.size, allocator |-> s.allocator, frame |-> s.frame] BY <1>1 DEF State
<1>3. s = [size |-> s.size, allocator |-> s.allocator, frame |-> s.frame] BY DEF States
<1> QED BY <1>1, <1>2, <1>3

\* The invariant, for the record of the state.
LEMMA StateIs ==
    ASSUME IndexInv
    PROVE  /\ State \in States /\ State.size = bufferSize /\ State.allocator = allocator
           /\ State.frame = submit /\ Whole(State, dib, appBuffers, StartsWith)
           /\ StartsWith \in SUBSET Nat /\ Known(dib) /\ NoPages(allocator, dib)
           /\ Data(submit.pre, Seen(submit.draws), dib, written, StaticBuffers, DynamicBuffers)
           /\ submit.pre \in Seq(Cmds) /\ submit.draws \in SUBSET Ranges /\ submit \in Frames
<1>1. Whole(State, dib, appBuffers, StartsWith) BY DEF IndexInv, ApiInv
<1>2. State \in States /\ Known(dib) BY <1>1 DEF Whole
<1>3. State.size = bufferSize /\ State.allocator = allocator /\ State.frame = submit BY DEF State
<1>4. submit \in Frames /\ submit.pre \in Seq(Cmds) /\ submit.draws \in SUBSET Ranges
  BY <1>2, <1>3, StateFields
<1>5. StartsWith \in SUBSET Nat BY BuffersAssumption DEF IndexInv, RenderInv
<1> QED BY <1>1, <1>2, <1>3, <1>4, <1>5 DEF IndexInv, ApiInv

\* A call of the application: s is what it makes of the state.
LEMMA CallKeeps ==
    ASSUME IndexInv, UNCHANGED rendVars, MayCall, calls \in 0 .. MaxCalls,
           NEW s, Becomes(s), Whole(s, dib', appBuffers', StartsWith), NoPages(s.allocator, dib'),
           Data(s.frame.pre, Seen(s.frame.draws), dib', written',
                appBuffers' \union ToSet(s.frame.freeIndexBuffer),
                PagesOf(s.allocator) \union OwnBuffers(dib')),
           freeDynamic' \in Seq(dynamics'), IsInjective(freeDynamic')
    PROVE  IndexInv'
<1>1. s \in States BY DEF Whole
<1>2. State' = s /\ allocator' = s.allocator /\ submit' = s.frame BY <1>1, BecomesIs
<1>3. StartsWith' = StartsWith /\ RenderInv' BY StartsWithStays DEF IndexInv
<1>4. calls' \in 0 .. MaxCalls BY BoundsAssumption DEF MayCall
<1>5. Data(submit.pre, Seen(submit.draws), dib, written, StaticBuffers, DynamicBuffers)'
  BY <1>2 DEF StaticBuffers, DynamicBuffers
<1>6. Whole(State, dib, appBuffers, StartsWith)' BY <1>2, <1>3
<1>7. NoPages(allocator, dib)' BY <1>2
<1>8. ApiInv' BY <1>4, <1>5, <1>6, <1>7 DEF ApiInv
<1> QED BY <1>3, <1>8 DEF IndexInv

-----------------------------------------------------------------------------
(* The calls for static buffers.                                            *)

\* The rest of what the invariant gives.
LEMMA InvFacts ==
    ASSUME IndexInv
    PROVE  /\ freeDynamic \in Seq(dynamics) /\ IsInjective(freeDynamic) /\ calls \in 0 .. MaxCalls
           /\ dynamics = DOMAIN dib /\ buffers = DOMAIN bufferSize
           /\ StaticBuffers \intersect DynamicBuffers = {}
           /\ StaticBuffers \subseteq buffers /\ DynamicBuffers \subseteq buffers
           /\ \A d \in dynamics : dib[d].buffer \in DynamicBuffers
           /\ buffers \subseteq Buffers /\ bufferSize \in [buffers -> Nat]
<1>1. State.size = bufferSize /\ State.allocator = allocator /\ State.frame = submit
      /\ Whole(State, dib, appBuffers, StartsWith)
  BY StateIs
<1>2. /\ StaticBuffers \intersect DynamicBuffers = {}
      /\ StaticBuffers \subseteq DOMAIN bufferSize /\ DynamicBuffers \subseteq DOMAIN bufferSize
      /\ \A d \in DOMAIN dib : dib[d].buffer \in DynamicBuffers
  BY <1>1, DataBuffers DEF StaticBuffers, DynamicBuffers
<1>3. Sizing(bufferSize) BY <1>1, PagesKnown
<1> QED BY <1>2, <1>3 DEF IndexInv, ApiInv, dynamics, buffers, Sizing

\* createIndexBuffer.
LEMMA CreateIndexBufferKeeps ==
    ASSUME IndexInv, NEW b \in Buffers, NEW size \in Sizes, CreateIndexBuffer(b, size)
    PROVE  IndexInv'
<1> DEFINE r == [buffer |-> b, first |-> 0, end |-> size, owner |-> Static]
           t == NewBuffer(State, b, size)
           c == WriteCmd(r)
           u == [t EXCEPT !.frame.pre = Append(@, WriteCmd(r))]
           C == StaticBuffers \union {b}
           D == DynamicBuffers
<1>1. /\ MayCall /\ b \notin buffers /\ Becomes(u) /\ appBuffers' = appBuffers \union {b}
      /\ dib' = dib /\ freeDynamic' = freeDynamic /\ written' = written /\ UNCHANGED rendVars
  BY DEF CreateIndexBuffer, WriteCmd, dynamicVars
<1>2. /\ State \in States /\ State.size = bufferSize /\ State.allocator = allocator
      /\ State.frame = submit /\ Whole(State, dib, appBuffers, StartsWith)
      /\ StartsWith \in SUBSET Nat /\ Known(dib) /\ NoPages(allocator, dib)
      /\ Data(submit.pre, Seen(submit.draws), dib, written, StaticBuffers, DynamicBuffers)
      /\ submit.pre \in Seq(Cmds)
  BY StateIs
<1>3. /\ freeDynamic \in Seq(dynamics) /\ IsInjective(freeDynamic) /\ calls \in 0 .. MaxCalls
      /\ dynamics = DOMAIN dib /\ buffers = DOMAIN bufferSize /\ DynamicBuffers \subseteq buffers
      /\ \A d \in dynamics : dib[d].buffer \in DynamicBuffers
  BY InvFacts
<1>4. size \in Nat /\ b \in Nat /\ b \in Buffers \ DOMAIN State.size
  BY <1>1, <1>2, <1>3, SizesAssumption, BuffersAssumption
<1>5. /\ Whole(t, dib, appBuffers \union {b}, StartsWith) /\ t.allocator = allocator
      /\ DOMAIN t.size = buffers \union {b}
      /\ t.frame.pre = Append(submit.pre, CreateCmd(b))
      /\ t.frame.draws = submit.draws
      /\ t.frame.freeIndexBuffer = submit.freeIndexBuffer
  <2>1. /\ Whole(t, dib, appBuffers \union {b}, StartsWith) /\ t.allocator = State.allocator
        /\ DOMAIN t.size = DOMAIN State.size \union {b}
        /\ t.frame.pre = Append(State.frame.pre, CreateCmd(b))
        /\ t.frame.draws = State.frame.draws
        /\ t.frame.freeIndexBuffer = State.frame.freeIndexBuffer
    BY <1>2, <1>4, StaticMore
  <2> HIDE DEF t
  <2> QED BY <1>2, <1>3, <2>1
<1>6. r \in Ranges /\ r.buffer = b /\ r.owner = Static BY <1>4 DEF Ranges
<1> HIDE DEF r, t
<1>7. c \in Cmds /\ c.op = "Write" /\ c.range = r BY <1>6, CmdsAre DEF WriteCmd
<1>8. /\ Whole(u, dib, appBuffers \union {b}, StartsWith) /\ u.allocator = allocator
      /\ u.frame.pre = Append(t.frame.pre, c) /\ u.frame.draws = submit.draws
      /\ u.frame.freeIndexBuffer = submit.freeIndexBuffer
  <2>1. r.buffer \in DOMAIN t.size BY <1>5, <1>6
  <2>2. /\ Whole(u, dib, appBuffers \union {b}, StartsWith) /\ u.allocator = t.allocator
        /\ u.frame.pre = Append(t.frame.pre, c) /\ u.frame.draws = t.frame.draws
        /\ u.frame.freeIndexBuffer = t.frame.freeIndexBuffer
    <3>1. StartsWith \in SUBSET Nat /\ r \in Ranges /\ Whole(t, dib, appBuffers \union {b}, StartsWith)
      BY <1>2, <1>5, <1>6
    <3> DEFINE A == appBuffers \union {b}
    <3> HIDE DEF A
    <3> QED BY <2>1, <3>1, WholeWritten DEF A
  <2> HIDE DEF u
  <2> QED BY <1>5, <2>2
<1> HIDE DEF u, c
<1>9. Data(submit.pre, Seen(submit.draws), dib, written, C, D) BY <1>2, DataWider
<1> HIDE DEF C, D
<1>10. Data(t.frame.pre, Seen(submit.draws), dib, written, C, D) /\ t.frame.pre \in Seq(Cmds)
  <2>1. CreateCmd(b) \in Cmds /\ CreateCmd(b).op # "Write" BY CmdsAre DEF CreateCmd
  <2>2. t.frame.pre \in Seq(Cmds)
    <3>1. t \in States BY <1>5 DEF Whole
    <3> QED BY <3>1, StateFields
  <2>3. Data(Append(submit.pre, CreateCmd(b)), Seen(submit.draws), dib, written, C, D)
    BY <1>2, <1>9, <2>1, DataRecorded
  <2> QED BY <1>5, <2>2, <2>3
<1>11. Data(u.frame.pre, Seen(submit.draws), dib, written, C, D)
  <2>1. c.range.buffer \in (IF c.range.owner = Static THEN C ELSE D) BY <1>6, <1>7 DEF C
  <2>2. \A e \in DOMAIN dib : \A x : ~Covers(c.range, dib[e].buffer, x)
    BY <1>1, <1>3, <1>6, <1>7 DEF Covers
  <2>3. Data(Append(t.frame.pre, c), Seen(submit.draws), dib, written, C, D)
    BY <1>2, <1>7, <1>10, <2>1, <2>2, DataRecorded
  <2> QED BY <1>8, <2>3
<1>12. Data(u.frame.pre, Seen(u.frame.draws), dib', written',
            appBuffers' \union ToSet(u.frame.freeIndexBuffer),
            PagesOf(u.allocator) \union OwnBuffers(dib'))
  <2>1. appBuffers' \union ToSet(u.frame.freeIndexBuffer) = C BY <1>1, <1>8 DEF C, StaticBuffers
  <2>2. PagesOf(u.allocator) \union OwnBuffers(dib') = D BY <1>1, <1>8 DEF D, DynamicBuffers
  <2> QED BY <1>1, <1>8, <1>11, <2>1, <2>2
<1>13. dynamics' = dynamics BY <1>1 DEF dynamics
<1>14. Whole(u, dib', appBuffers', StartsWith) /\ NoPages(u.allocator, dib') BY <1>1, <1>2, <1>8
<1> QED BY <1>1, <1>3, <1>12, <1>13, <1>14, CallKeeps

\* destroyIndexBuffer.
LEMMA DestroyIndexBufferKeeps ==
    ASSUME IndexInv, NEW b \in Buffers, DestroyIndexBuffer(b)
    PROVE  IndexInv'
<1> DEFINE t == Destroy(State, b)
<1>1. /\ MayCall /\ b \in appBuffers /\ Becomes(t) /\ appBuffers' = appBuffers \ {b}
      /\ dib' = dib /\ freeDynamic' = freeDynamic /\ written' = written /\ UNCHANGED rendVars
  BY DEF DestroyIndexBuffer, dynamicVars
<1>2. /\ State \in States /\ State.size = bufferSize /\ State.allocator = allocator
      /\ State.frame = submit /\ Whole(State, dib, appBuffers, StartsWith)
      /\ StartsWith \in SUBSET Nat /\ NoPages(allocator, dib)
      /\ Data(submit.pre, Seen(submit.draws), dib, written, StaticBuffers, DynamicBuffers)
  BY StateIs
<1>3. freeDynamic \in Seq(dynamics) /\ IsInjective(freeDynamic) /\ calls \in 0 .. MaxCalls
  BY InvFacts
<1>4. /\ Whole(t, dib, appBuffers \ {b}, StartsWith) /\ t.allocator = allocator
      /\ t.frame.pre = submit.pre /\ t.frame.draws = submit.draws
      /\ ToSet(t.frame.freeIndexBuffer) = ToSet(submit.freeIndexBuffer) \union {b}
  BY <1>1, <1>2, StaticLess
<1> HIDE DEF t
<1>5. appBuffers' \union ToSet(t.frame.freeIndexBuffer) = StaticBuffers
  BY <1>1, <1>4 DEF StaticBuffers
<1>6. PagesOf(t.allocator) \union OwnBuffers(dib') = DynamicBuffers
  BY <1>1, <1>4 DEF DynamicBuffers
<1>7. Data(t.frame.pre, Seen(t.frame.draws), dib', written',
           appBuffers' \union ToSet(t.frame.freeIndexBuffer),
           PagesOf(t.allocator) \union OwnBuffers(dib'))
  BY <1>1, <1>2, <1>4, <1>5, <1>6
<1>8. dynamics' = dynamics BY <1>1 DEF dynamics
<1>9. Whole(t, dib', appBuffers', StartsWith) /\ NoPages(t.allocator, dib') BY <1>1, <1>2, <1>4
<1> QED BY <1>1, <1>3, <1>7, <1>8, <1>9, CallKeeps

\* A draw of a static buffer.
LEMMA DrawStaticKeeps ==
    ASSUME IndexInv, NEW b \in Buffers, DrawStatic(b)
    PROVE  IndexInv'
<1> DEFINE r == [buffer |-> b, first |-> 0, end |-> bufferSize[b], owner |-> Static]
           g == [submit EXCEPT !.draws = @ \union {r}]
           t == [size |-> bufferSize, allocator |-> allocator, frame |-> g]
<1>1. /\ MayCall /\ b \in appBuffers /\ submit' = g /\ appBuffers' = appBuffers
      /\ dib' = dib /\ freeDynamic' = freeDynamic /\ written' = written /\ UNCHANGED rendVars
      /\ bufferSize' = bufferSize /\ allocator' = allocator
  BY DEF DrawStatic, dynamicVars, bufferVars
<1>2. /\ State \in States /\ State.size = bufferSize /\ State.allocator = allocator
      /\ State.frame = submit /\ Whole(State, dib, appBuffers, StartsWith)
      /\ NoPages(allocator, dib) /\ Known(dib) /\ submit \in Frames
      /\ Data(submit.pre, Seen(submit.draws), dib, written, StaticBuffers, DynamicBuffers)
  BY StateIs
<1>3. /\ freeDynamic \in Seq(dynamics) /\ IsInjective(freeDynamic) /\ calls \in 0 .. MaxCalls
      /\ StaticBuffers \subseteq buffers /\ bufferSize \in [buffers -> Nat]
  BY InvFacts
<1>4. b \in StaticBuffers /\ bufferSize[b] \in Nat /\ b \in Nat
  BY <1>1, <1>3, BuffersAssumption DEF StaticBuffers
<1>5. r \in Ranges /\ r.owner = Static /\ r.buffer = b BY <1>4 DEF Ranges
<1> HIDE DEF r
<1>6. /\ g \in Frames /\ g.pre = submit.pre /\ g.post = submit.post
      /\ g.draws = submit.draws \union {r} /\ g.freeIndexBuffer = submit.freeIndexBuffer
  BY <1>2, <1>5 DEF Frames
<1> HIDE DEF g
<1>7. t \in States /\ t.size = bufferSize /\ t.allocator = allocator /\ t.frame = g
  BY <1>2, <1>6, StateFields DEF States
<1>8. Becomes(t) BY <1>1 DEF Becomes
<1> HIDE DEF t
<1>9. Whole(t, dib, appBuffers, StartsWith) BY <1>2, <1>6, <1>7, WholeDrawn
<1>10. Data(submit.pre, Seen(submit.draws \union {r}), dib, written, StaticBuffers, DynamicBuffers)
  BY <1>2, <1>4, <1>5, SeenDrawn
<1>11. Data(t.frame.pre, Seen(t.frame.draws), dib', written',
            appBuffers' \union ToSet(t.frame.freeIndexBuffer),
            PagesOf(t.allocator) \union OwnBuffers(dib'))
  BY <1>1, <1>6, <1>7, <1>10 DEF StaticBuffers, DynamicBuffers
<1>12. dynamics' = dynamics BY <1>1 DEF dynamics
<1>13. Whole(t, dib', appBuffers', StartsWith) /\ NoPages(t.allocator, dib')
  BY <1>1, <1>2, <1>7, <1>9
<1> QED BY <1>1, <1>3, <1>8, <1>11, <1>12, <1>13, CallKeeps

-----------------------------------------------------------------------------
(* The calls for dynamic buffers.                                           *)

DataOf(s, f, w, A) ==
    Data(s.frame.pre, Seen(s.frame.draws), f, w, A \union ToSet(s.frame.freeIndexBuffer),
         PagesOf(s.allocator) \union OwnBuffers(f))

\* The data of a dynamic buffer fits into its index buffer.
LEMMA DataFits ==
    ASSUME NEW s, NEW f, NEW A, NEW B0, Whole(s, f, A, B0), NEW d \in DOMAIN f
    PROVE  /\ f[d].buffer \in DOMAIN s.size /\ s.size[f[d].buffer] \in Nat
           /\ First(f[d]) + f[d].size <= s.size[f[d].buffer]
<1>1. /\ Filled(s.allocator, s.size) /\ Held(s.allocator, f) /\ Known(f) /\ s \in States
      /\ Owned(s.size, PagesOf(s.allocator), f, A, s.frame.freeIndexBuffer)
  BY DEF Whole
<1>2. f[d].size \in Nat /\ f[d].offset \in Nat /\ First(f[d]) = f[d].offset BY <1>1, KnownIs
<1>3. f[d].buffer \in DOMAIN s.size BY DataBuffers
<1>4. s.size[f[d].buffer] \in Nat BY <1>1, <1>3, StateFields DEF Sizing
<1>5. CASE d \in OwnIn(f)
  <2>1. f[d].offset = 0 /\ f[d].size <= s.size[f[d].buffer] BY <1>1, <1>5 DEF Owned
  <2> QED BY <1>2, <1>3, <1>4, <2>1
<1>6. CASE d \in PagedIn(f)
  <2>1. PICK b \in s.allocator.used :
           b.buffer = f[d].buffer /\ b.offset = f[d].offset /\ f[d].size <= b.size
    BY <1>1, <1>6 DEF Held
  <2>2. b \in BlocksOf(s.allocator) /\ b \in Block
    BY <1>1, <2>1 DEF Filled, Tidy, BlocksOf, AllApart
  <2>3. End(b) <= s.size[b.buffer] BY <1>1, <2>2 DEF Filled
  <2>4. End(b) = b.offset + b.size /\ b.size \in Nat BY <2>2, BlockIs
  <2> QED BY <1>2, <1>3, <1>4, <2>1, <2>3, <2>4
<1>7. d \in PagedIn(f) \/ d \in OwnIn(f) BY DEF PagedIn, OwnIn
<1> QED BY <1>5, <1>6, <1>7

\* update is not cut short.
LEMMA UpdatedIs ==
    ASSUME NEW s, NEW f, NEW A, NEW B0, Whole(s, f, A, B0), NEW d \in DOMAIN f,
           NEW bytes \in Nat, bytes <= f[d].size
    PROVE  Updated(s, d, f[d], bytes)
           = [s EXCEPT !.frame.pre = Append(@, WriteCmd(DataRange(f, d, bytes)))]
<1>1. First(f[d]) \in Nat /\ f[d].size \in Nat BY KnownIs DEF Whole
<1>2. First(f[d]) + f[d].size <= s.size[f[d].buffer] /\ s.size[f[d].buffer] \in Nat BY DataFits
<1>3. (IF f[d].size < bytes THEN f[d].size ELSE bytes) = bytes BY <1>1
<1>4. First(f[d]) + bytes <= s.size[f[d].buffer] BY <1>1, <1>2
<1>5. UpdateEnd(f[d], bytes, s.size) = First(f[d]) + bytes
  BY <1>1, <1>2, <1>3, <1>4 DEF UpdateEnd
<1>6. WriteCmd(DataRange(f, d, bytes))
      = [op |-> "Write", range |-> [buffer |-> f[d].buffer, first |-> First(f[d]),
                                    end |-> UpdateEnd(f[d], bytes, s.size), owner |-> d]]
  BY <1>5 DEF WriteCmd, DataRange
<1> QED BY <1>6 DEF Updated

\* The write of update, into a buffer that is large enough.
LEMMA UpdateKeeps ==
    ASSUME NEW s, NEW f, NEW A, NEW B0 \in SUBSET Nat, Whole(s, f, A, B0), NEW d \in DOMAIN f,
           NEW bytes \in Nat, bytes <= f[d].size, NEW w, DataOf(s, f, w, A)
    PROVE  LET t == Updated(s, d, f[d], bytes)
           IN  /\ Whole(t, f, A, B0) /\ t.allocator = s.allocator
               /\ DataOf(t, f, [w EXCEPT ![d] = Max2(@, bytes)], A)
<1> DEFINE t == Updated(s, d, f[d], bytes)
           r == DataRange(f, d, bytes)
           u == [w EXCEPT ![d] = Max2(@, bytes)]
<1>1. t = [s EXCEPT !.frame.pre = Append(@, WriteCmd(r))] BY UpdatedIs
<1>2. Known(f) /\ s \in States BY DEF Whole
<1>3. r \in Ranges /\ r.buffer = f[d].buffer BY <1>2, RangeIs DEF DataRange
<1>4. f[d].buffer \in DOMAIN s.size BY DataFits
<1>5. /\ Whole(t, f, A, B0) /\ t.size = s.size /\ t.allocator = s.allocator
      /\ t.frame.pre = Append(s.frame.pre, WriteCmd(r)) /\ t.frame.draws = s.frame.draws
      /\ t.frame.freeIndexBuffer = s.frame.freeIndexBuffer
  <2> HIDE DEF r, t
  <2> QED BY <1>1, <1>3, <1>4, WholeWritten
<1> HIDE DEF t
<1> DEFINE C == A \union ToSet(s.frame.freeIndexBuffer)
           D == PagesOf(s.allocator) \union OwnBuffers(f)
<1>6. s.frame.pre \in Seq(Cmds) /\ s.frame.draws \in SUBSET Ranges BY <1>2, StateFields
<1>7. f[d].buffer \in D BY DataBuffers
<1>8. Data(s.frame.pre, Seen(s.frame.draws), f, w, C, D) BY DEF DataOf
<1>11. Seen(s.frame.draws) \in SUBSET Ranges BY <1>6 DEF Seen
<1> HIDE DEF C, D
<1>9. Data(Append(s.frame.pre, WriteCmd(r)), Seen(s.frame.draws), f, u, C, D)
  BY <1>6, <1>7, <1>8, <1>11, DataWritten
<1> HIDE DEF u, r
<1>10. DataOf(t, f, u, A) BY <1>5, <1>9 DEF DataOf, C, D
<1> QED BY <1>5, <1>10 DEF t, u

\* A dynamic buffer more: its index buffer may be new.
LEMMA DataPlaced ==
    ASSUME NEW s, NEW f, NEW A, NEW B0, Whole(s, f, A, B0), NEW w, DataOf(s, f, w, A),
           NEW d, d \notin DOMAIN f, NEW y, NEW t, NEW B1, Whole(t, With(f, d, y), A, B1), Grew(s, t)
    PROVE  DataOf(t, With(f, d, y), With(w, d, 0), A)
<1> DEFINE g == With(f, d, y)
           C == A \union ToSet(s.frame.freeIndexBuffer)
           D == PagesOf(t.allocator) \union OwnBuffers(g)
<1>1. /\ DOMAIN g = DOMAIN f \union {d} /\ g[d] = y
      /\ \A e \in DOMAIN f : g[e] = f[e]
  BY DEF With
<1>2. Known(f) /\ s \in States /\ Known(g) BY DEF Whole
<1> HIDE DEF g
<1>3. First(y) \in Nat /\ y.size \in Nat BY <1>1, <1>2, KnownIs
<1>4. OwnBuffers(f) \subseteq OwnBuffers(g) BY <1>1 DEF OwnBuffers, OwnIn
<1>5. /\ t.frame.draws = s.frame.draws /\ t.frame.freeIndexBuffer = s.frame.freeIndexBuffer
      /\ PagesOf(s.allocator) \subseteq PagesOf(t.allocator)
      /\ \/ t.frame.pre = s.frame.pre
         \/ \E b \in Buffers : t.frame.pre = Append(s.frame.pre, CreateCmd(b))
  BY DEF Grew
<1>6. Data(s.frame.pre, Seen(s.frame.draws), f, w, C, D)
  <2>1. Data(s.frame.pre, Seen(s.frame.draws), f, w, C, PagesOf(s.allocator) \union OwnBuffers(f))
    BY DEF DataOf
  <2>2. PagesOf(s.allocator) \union OwnBuffers(f) \subseteq D BY <1>4, <1>5
  <2> HIDE DEF D
  <2> QED BY <2>1, <2>2, DataWider
<1> HIDE DEF C, D
<1>7. Data(t.frame.pre, Seen(s.frame.draws), f, w, C, D)
  <2>1. CASE t.frame.pre = s.frame.pre BY <1>6, <2>1
  <2>2. CASE \E b \in Buffers : t.frame.pre = Append(s.frame.pre, CreateCmd(b))
    <3>1. PICK b \in Buffers : t.frame.pre = Append(s.frame.pre, CreateCmd(b)) BY <2>2
    <3>2. CreateCmd(b) \in Cmds /\ CreateCmd(b).op # "Write" BY CmdsAre DEF CreateCmd
    <3>3. s.frame.pre \in Seq(Cmds) BY <1>2, StateFields
    <3>4. Data(Append(s.frame.pre, CreateCmd(b)), Seen(s.frame.draws), f, w, C, D)
      BY <1>2, <1>6, <3>2, <3>3, DataRecorded
    <3> QED BY <3>1, <3>4
  <2> QED BY <1>5, <2>1, <2>2
<1>8. Data(t.frame.pre, Seen(s.frame.draws), g, With(w, d, 0), C, D)
  BY <1>3, <1>7, DataMore DEF g
<1> QED BY <1>5, <1>8 DEF DataOf, C, D, g

\* The flags and sizes an application may use: no buffer is both read by compute shaders
\* and resized, and where buffers of 16-bit indices are resized beside buffers of 32-bit
\* ones the sizes are whole numbers of both.
UsedWell ==
    /\ \A f \in Flags : ~({"COMPUTE_READ", "ALLOW_RESIZE"} \subseteq f)
    /\ (\E f, g \in Flags : "INDEX32" \in f /\ "ALLOW_RESIZE" \in g /\ "INDEX32" \notin g)
          => \A n \in Sizes : n % 4 = 0

\* The sizes createDynamicIndexBuffer asks for.
LEMMA EvenlyCreated ==
    ASSUME NEW bytes \in Sizes
    PROVE  Evenly(AlignUp(bytes, 16)) /\ bytes <= AlignUp(bytes, 16) /\ bytes \in Nat
  BY SizesAssumption, AlignUp16 DEF Evenly

\* The sizes update asks for.  They are not rounded up to 16 bytes.
LEMMA EvenlyGrown ==
    ASSUME UsedWell, NEW bytes \in Sizes, NEW flags \in Flags, "ALLOW_RESIZE" \in flags,
           bytes % IndexSize(flags) = 0
    PROVE  Evenly(bytes) /\ bytes \in Nat /\ "COMPUTE_READ" \notin flags
<1>1. bytes \in Nat BY SizesAssumption
<1>2. "COMPUTE_READ" \notin flags BY DEF UsedWell
<1>3. \A n \in Nat : n % 4 = 0 => n % 2 = 0 OBVIOUS
<1>4. CASE "INDEX32" \in flags
  <2>1. bytes % 4 = 0 BY <1>4 DEF IndexSize
  <2> QED BY <1>1, <1>2, <1>3, <2>1 DEF Evenly
<1>5. CASE "INDEX32" \notin flags
  <2>1. bytes % 2 = 0 BY <1>5 DEF IndexSize
  <2>2. (\E f \in Flags : "INDEX32" \in f) => bytes % 4 = 0 BY <1>5 DEF UsedWell
  <2> QED BY <1>1, <1>2, <2>1, <2>2 DEF Evenly
<1> QED BY <1>4, <1>5

\* createDynamicIndexBuffer.
LEMMA CreateDynamicKeeps ==
    ASSUME IndexInv, NEW d \in Dynamics, NEW bytes \in Sizes, NEW flags \in Flags,
           CreateDynamicIndexBuffer(d, bytes, flags)
    PROVE  IndexInv'
<1> DEFINE n == AlignUp(bytes, 16)
           B0 == StartsWith
           A == appBuffers
<1>1. /\ MayCall /\ d \notin dynamics /\ written' = With(written, d, 0)
      /\ freeDynamic' = freeDynamic /\ appBuffers' = appBuffers /\ UNCHANGED rendVars
  BY DEF CreateDynamicIndexBuffer
<1>2. PICK r \in AllocFor(State, n, flags) :
         Becomes(r.s) /\ dib' = With(dib, d, Placed(r.at, bytes, flags))
  BY DEF CreateDynamicIndexBuffer
<1> DEFINE y == Placed(r.at, bytes, flags)
           f == With(dib, d, y)
           t == r.s
<1>3. /\ State \in States /\ State.allocator = allocator /\ State.frame = submit
      /\ Whole(State, dib, A, B0) /\ B0 \in SUBSET Nat /\ NoPages(allocator, dib)
      /\ Data(submit.pre, Seen(submit.draws), dib, written, StaticBuffers, DynamicBuffers)
  BY StateIs
<1>4. /\ freeDynamic \in Seq(dynamics) /\ IsInjective(freeDynamic) /\ calls \in 0 .. MaxCalls
      /\ dynamics = DOMAIN dib
  BY InvFacts
<1>5. Evenly(n) /\ bytes <= n /\ bytes \in Nat /\ n \in Nat BY EvenlyCreated DEF Evenly
<1>6. DataOf(State, dib, written, A) BY <1>3 DEF DataOf, StaticBuffers, DynamicBuffers
<1> HIDE DEF n, B0, A
<1>7. Whole(t, f, A, B0) /\ Grew(State, t) /\ y.flags = flags
  BY <1>1, <1>3, <1>4, <1>5, PlaceKeeps
<1> HIDE DEF y
<1>8. NoPages(t.allocator, f) BY <1>1, <1>3, <1>4, <1>5, <1>7, PlaceNoPages
<1>9. DataOf(t, f, With(written, d, 0), A) BY <1>1, <1>3, <1>4, <1>6, <1>7, DataPlaced
<1>10. dynamics' = dynamics \union {d} BY <1>2 DEF dynamics, With
<1>11. freeDynamic' \in Seq(dynamics') /\ IsInjective(freeDynamic')
  <2>1. \A S, T : S \subseteq T => Seq(S) \subseteq Seq(T) OBVIOUS
  <2> QED BY <1>1, <1>4, <1>10, <2>1
<1>12. dib' = f BY <1>2 DEF y
<1> HIDE DEF f, t
<1>13. Becomes(t) BY <1>2 DEF t
<1>14. Data(t.frame.pre, Seen(t.frame.draws), dib', written',
            appBuffers' \union ToSet(t.frame.freeIndexBuffer),
            PagesOf(t.allocator) \union OwnBuffers(dib'))
  BY <1>1, <1>9, <1>12 DEF DataOf, A
<1>15. Whole(t, dib', appBuffers', StartsWith) /\ NoPages(t.allocator, dib')
  BY <1>1, <1>7, <1>8, <1>12 DEF A, B0
<1> QED BY <1>1, <1>4, <1>11, <1>13, <1>14, <1>15, CallKeeps

\* update, where the data fits.
LEMMA UpdateInPlaceKeeps ==
    ASSUME IndexInv, NEW d \in Dynamics, NEW bytes \in Sizes, UpdateInPlace(d, bytes)
    PROVE  IndexInv'
<1> DEFINE t == Updated(State, d, dib[d], bytes)
           u == [written EXCEPT ![d] = Max2(@, bytes)]
<1>1. /\ MayCall /\ d \in dynamics /\ bytes <= dib[d].size /\ Becomes(t) /\ written' = u
      /\ dib' = dib /\ freeDynamic' = freeDynamic /\ appBuffers' = appBuffers /\ UNCHANGED rendVars
  BY DEF UpdateInPlace, appDynamics
<1>2. /\ State \in States /\ State.allocator = allocator /\ State.frame = submit
      /\ Whole(State, dib, appBuffers, StartsWith) /\ StartsWith \in SUBSET Nat
      /\ NoPages(allocator, dib)
      /\ Data(submit.pre, Seen(submit.draws), dib, written, StaticBuffers, DynamicBuffers)
  BY StateIs
<1>3. /\ freeDynamic \in Seq(dynamics) /\ IsInjective(freeDynamic) /\ calls \in 0 .. MaxCalls
      /\ dynamics = DOMAIN dib
  BY InvFacts
<1>4. DataOf(State, dib, written, appBuffers) BY <1>2 DEF DataOf, StaticBuffers, DynamicBuffers
<1>5. bytes \in Nat BY SizesAssumption
<1>6. /\ Whole(t, dib, appBuffers, StartsWith) /\ t.allocator = allocator
      /\ DataOf(t, dib, u, appBuffers)
  <2>1. /\ Whole(t, dib, appBuffers, StartsWith) /\ t.allocator = State.allocator
        /\ DataOf(t, dib, u, appBuffers)
    BY <1>1, <1>2, <1>3, <1>4, <1>5, UpdateKeeps
  <2> HIDE DEF t, u
  <2> QED BY <1>2, <2>1
<1> HIDE DEF t, u
<1>7. dynamics' = dynamics BY <1>1 DEF dynamics
<1>8. Data(t.frame.pre, Seen(t.frame.draws), dib', written',
           appBuffers' \union ToSet(t.frame.freeIndexBuffer),
           PagesOf(t.allocator) \union OwnBuffers(dib'))
  BY <1>1, <1>6 DEF DataOf
<1>9. Whole(t, dib', appBuffers', StartsWith) /\ NoPages(t.allocator, dib') BY <1>1, <1>2, <1>6
<1> QED BY <1>1, <1>3, <1>7, <1>8, <1>9, CallKeeps

\* destroyDynamicIndexBuffer, which queues the buffer.
LEMMA DestroyDynamicIndexBufferKeeps ==
    ASSUME IndexInv, NEW d \in Dynamics, DestroyDynamicIndexBuffer(d)
    PROVE  IndexInv'
<1>1. /\ MayCall /\ d \in dynamics \ ToSet(freeDynamic) /\ freeDynamic' = Append(freeDynamic, d)
      /\ dib' = dib /\ written' = written /\ appBuffers' = appBuffers /\ UNCHANGED rendVars
      /\ submit' = submit /\ bufferSize' = bufferSize /\ allocator' = allocator
  BY DEF DestroyDynamicIndexBuffer, appDynamics, bufferVars
<1>2. /\ State \in States /\ State.size = bufferSize /\ State.allocator = allocator
      /\ State.frame = submit /\ Whole(State, dib, appBuffers, StartsWith) /\ NoPages(allocator, dib)
      /\ Data(submit.pre, Seen(submit.draws), dib, written, StaticBuffers, DynamicBuffers)
  BY StateIs
<1>3. freeDynamic \in Seq(dynamics) /\ IsInjective(freeDynamic) /\ calls \in 0 .. MaxCalls
  BY InvFacts
<1>4. Becomes(State) BY <1>1, <1>2 DEF Becomes
<1>5. dynamics' = dynamics BY <1>1 DEF dynamics
<1>6. freeDynamic' \in Seq(dynamics') /\ IsInjective(freeDynamic')
  BY <1>1, <1>3, <1>5, AppendInjectively, AppendProperties
<1>7. Data(State.frame.pre, Seen(State.frame.draws), dib', written',
           appBuffers' \union ToSet(State.frame.freeIndexBuffer),
           PagesOf(State.allocator) \union OwnBuffers(dib'))
  BY <1>1, <1>2 DEF StaticBuffers, DynamicBuffers
<1>8. Whole(State, dib', appBuffers', StartsWith) /\ NoPages(State.allocator, dib') BY <1>1, <1>2
<1> QED BY <1>1, <1>3, <1>4, <1>6, <1>7, <1>8, CallKeeps

\* A draw of a dynamic buffer.
LEMMA DrawDynamicKeeps ==
    ASSUME IndexInv, NEW d \in Dynamics, DrawDynamic(d)
    PROVE  IndexInv'
<1> DEFINE r == DataRange(dib, d, written[d])
           g == [submit EXCEPT !.draws = @ \union {r}]
           t == [size |-> bufferSize, allocator |-> allocator, frame |-> g]
<1>1. /\ MayCall /\ d \in dynamics /\ submit' = g /\ appBuffers' = appBuffers
      /\ dib' = dib /\ freeDynamic' = freeDynamic /\ written' = written /\ UNCHANGED rendVars
      /\ bufferSize' = bufferSize /\ allocator' = allocator
  BY DEF DrawDynamic, dynamicVars, bufferVars, DataRange, appDynamics
<1>2. /\ State \in States /\ State.size = bufferSize /\ State.allocator = allocator
      /\ State.frame = submit /\ Whole(State, dib, appBuffers, StartsWith)
      /\ NoPages(allocator, dib) /\ Known(dib) /\ submit \in Frames
      /\ Data(submit.pre, Seen(submit.draws), dib, written, StaticBuffers, DynamicBuffers)
  BY StateIs
<1>3. /\ freeDynamic \in Seq(dynamics) /\ IsInjective(freeDynamic) /\ calls \in 0 .. MaxCalls
      /\ dynamics = DOMAIN dib
  BY InvFacts
<1>4. written[d] \in Nat BY <1>1, <1>2, <1>3 DEF Data
<1>5. r \in Ranges BY <1>1, <1>2, <1>3, <1>4, RangeIs
<1>6. Data(submit.pre, Seen(submit.draws \union {r}), dib, written, StaticBuffers, DynamicBuffers)
  BY <1>1, <1>2, <1>3, SeenDrawn
<1> HIDE DEF r
<1>7. /\ g \in Frames /\ g.pre = submit.pre /\ g.post = submit.post
      /\ g.draws = submit.draws \union {r} /\ g.freeIndexBuffer = submit.freeIndexBuffer
  BY <1>2, <1>5 DEF Frames
<1> HIDE DEF g
<1>8. t \in States /\ t.size = bufferSize /\ t.allocator = allocator /\ t.frame = g
  BY <1>2, <1>7, StateFields DEF States
<1>9. Becomes(t) BY <1>1 DEF Becomes
<1> HIDE DEF t
<1>10. Whole(t, dib, appBuffers, StartsWith) BY <1>2, <1>7, <1>8, WholeDrawn
<1>11. Data(t.frame.pre, Seen(t.frame.draws), dib', written',
            appBuffers' \union ToSet(t.frame.freeIndexBuffer),
            PagesOf(t.allocator) \union OwnBuffers(dib'))
  BY <1>1, <1>6, <1>7, <1>8 DEF StaticBuffers, DynamicBuffers
<1>12. dynamics' = dynamics BY <1>1 DEF dynamics
<1>13. Whole(t, dib', appBuffers', StartsWith) /\ NoPages(t.allocator, dib')
  BY <1>1, <1>2, <1>8, <1>10
<1> QED BY <1>1, <1>3, <1>9, <1>11, <1>12, <1>13, CallKeeps

\* A dynamic buffer that is not drawn gives its block back.
LEMMA DataFreed ==
    ASSUME NEW s, NEW f, NEW A, NEW B0 \in SUBSET Nat, Whole(s, f, A, B0), NEW w, DataOf(s, f, w, A),
           NEW d \in PagedIn(f), \A r \in Seen(s.frame.draws) : r.owner # d
    PROVE  LET t == [s EXCEPT !.allocator = Freed(s.allocator, f[d])]
               S == DOMAIN f \ {d}
           IN  Whole(t, Restrict(f, S), A, B0) /\ DataOf(t, Restrict(f, S), Restrict(w, S), A)
<1> DEFINE c == Freed(s.allocator, f[d])
           t == [s EXCEPT !.allocator = c]
           S == DOMAIN f \ {d}
           g == Restrict(f, S)
<1>1. /\ Whole(t, g, A, B0) /\ t.size = s.size /\ t.frame = s.frame /\ t.allocator = c
      /\ PagesOf(c) = PagesOf(s.allocator)
  BY BlockGoes
<1> HIDE DEF c, t
<1>2. OwnBuffers(g) = OwnBuffers(f)
  <2>1. DOMAIN g = S /\ \A e \in S : g[e] = f[e] BY DEF Restrict
  <2>2. \A e \in OwnIn(f) : e \in S BY DEF OwnIn, PagedIn
  <2>3. OwnIn(g) = OwnIn(f) BY <2>1, <2>2 DEF OwnIn
  <2>4. \A e \in OwnIn(f) : g[e] = f[e] BY <2>1, <2>2
  <2> HIDE DEF g
  <2> QED BY <2>3, <2>4 DEF OwnBuffers
<1>3. \A r \in Seen(s.frame.draws) : r.owner \in DOMAIN f => r.owner \in S OBVIOUS
<1> DEFINE C == A \union ToSet(s.frame.freeIndexBuffer)
           D == PagesOf(s.allocator) \union OwnBuffers(f)
<1>4. Data(s.frame.pre, Seen(s.frame.draws), f, w, C, D) /\ S \subseteq DOMAIN f BY DEF DataOf
<1> HIDE DEF C, D, S
<1>5. Data(s.frame.pre, Seen(s.frame.draws), g, Restrict(w, S), C, D) BY <1>3, <1>4, DataLess
<1> HIDE DEF g
<1>6. DataOf(t, g, Restrict(w, S), A) BY <1>1, <1>2, <1>5 DEF DataOf, C, D
<1> QED BY <1>1, <1>6 DEF t, c, g, S

\* A dynamic buffer that is forgotten and placed again has moved.
LEMMA MovedIs ==
    ASSUME NEW f, f = [e \in DOMAIN f |-> f[e]], NEW d \in DOMAIN f, NEW y
    PROVE  With(Restrict(f, DOMAIN f \ {d}), d, y) = [f EXCEPT ![d] = y]
<1> DEFINE g == With(Restrict(f, DOMAIN f \ {d}), d, y)
           h == [f EXCEPT ![d] = y]
<1>1. DOMAIN g = DOMAIN f /\ g = [e \in DOMAIN f |-> g[e]] BY DEF With, Restrict
<1>2. DOMAIN h = DOMAIN f /\ h = [e \in DOMAIN f |-> h[e]] OBVIOUS
<1>3. \A e \in DOMAIN f : g[e] = h[e] BY DEF With, Restrict
<1> HIDE DEF g, h
<1>4. g = h BY <1>1, <1>2, <1>3
<1> QED BY <1>4 DEF g, h

\* update, where the buffer grows: the old block is freed before the new one is taken.
LEMMA GrowKeeps ==
    ASSUME UsedWell, IndexInv, NEW d \in Dynamics, NEW bytes \in Sizes, UpdateAndGrow(d, bytes)
    PROVE  IndexInv'
<1> DEFINE c == Freed(allocator, dib[d])
           s == [State EXCEPT !.allocator = c]
           S == dynamics \ {d}
           e == Restrict(dib, S)
           v == Restrict(written, S)
           flags == dib[d].flags
           B0 == StartsWith
           A == appBuffers
<1>1. /\ MayCall /\ d \in dynamics /\ "ALLOW_RESIZE" \in flags /\ bytes % IndexSize(flags) = 0
      /\ Drawn(d) => GrowDrawn
      /\ written' = [written EXCEPT ![d] = bytes]
      /\ freeDynamic' = freeDynamic /\ appBuffers' = appBuffers /\ UNCHANGED rendVars
  BY DEF UpdateAndGrow, appDynamics
<1>2. PICK r \in AllocFor(s, bytes, flags) :
         /\ Becomes(Updated(r.s, d, Placed(r.at, bytes, flags), bytes))
         /\ dib' = [dib EXCEPT ![d] = Placed(r.at, bytes, flags)]
  BY DEF UpdateAndGrow, Freed
<1> DEFINE y == Placed(r.at, bytes, flags)
           f == With(e, d, y)
           u == With(v, d, 0)
           t == Updated(r.s, d, y, bytes)
<1>3. /\ State \in States /\ State.allocator = allocator /\ State.frame = submit
      /\ Whole(State, dib, A, B0) /\ B0 \in SUBSET Nat /\ Known(dib)
      /\ Data(submit.pre, Seen(submit.draws), dib, written, StaticBuffers, DynamicBuffers)
  BY StateIs
<1>4. /\ freeDynamic \in Seq(dynamics) /\ IsInjective(freeDynamic) /\ calls \in 0 .. MaxCalls
      /\ dynamics = DOMAIN dib
  BY InvFacts
<1>5. flags \in Flags BY <1>1, <1>3, <1>4, KnownIs
<1>6. Evenly(bytes) /\ bytes \in Nat /\ "COMPUTE_READ" \notin flags BY <1>1, <1>5, EvenlyGrown
<1>7. d \in PagedIn(dib) BY <1>1, <1>4, <1>6 DEF PagedIn
<1>8. \A q \in Seen(State.frame.draws) : q.owner # d BY <1>1, <1>3 DEF Seen, Drawn
<1>9. DataOf(State, dib, written, A) BY <1>3 DEF DataOf, StaticBuffers, DynamicBuffers
<1>10. Whole(s, e, A, B0) /\ DataOf(s, e, v, A)
  <2>1. s = [State EXCEPT !.allocator = Freed(State.allocator, dib[d])] BY <1>3
  <2>2. S = DOMAIN dib \ {d} BY <1>4
  <2> HIDE DEF s, S, B0, A
  <2> QED BY <1>3, <1>7, <1>8, <1>9, <2>1, <2>2, DataFreed
<1>11. DOMAIN e = S /\ d \notin DOMAIN e BY DEF Restrict
<1> HIDE DEF s, e, v, flags, B0, A
<1>12. /\ Whole(r.s, f, A, B0) /\ Grew(s, r.s) /\ y.size = bytes /\ y.flags = flags
  BY <1>3, <1>5, <1>6, <1>10, <1>11, PlaceKeeps
<1> HIDE DEF y
<1>13. DataOf(r.s, f, u, A) BY <1>10, <1>11, <1>12, DataPlaced
<1>14. d \in DOMAIN f /\ f[d] = y BY DEF With
<1> HIDE DEF f
<1>15. /\ Whole(t, f, A, B0) /\ t.allocator = r.s.allocator
       /\ DataOf(t, f, [u EXCEPT ![d] = Max2(@, bytes)], A)
  <2>1. bytes <= f[d].size BY <1>6, <1>12, <1>14
  <2>2. t = Updated(r.s, d, f[d], bytes) BY <1>14
  <2> HIDE DEF t, u
  <2> QED BY <1>3, <1>6, <1>12, <1>13, <1>14, <2>1, <2>2, UpdateKeeps
<1>16. dib' = f
  <2>1. dib = [x \in DOMAIN dib |-> dib[x]] BY <1>3 DEF Known
  <2>2. With(Restrict(dib, DOMAIN dib \ {d}), d, y) = [dib EXCEPT ![d] = y]
    BY <1>1, <1>4, <2>1, MovedIs
  <2> QED BY <1>2, <1>4, <2>2 DEF f, e, y, flags
<1>17. written' = [u EXCEPT ![d] = Max2(@, bytes)]
  <2>1. written \in [DOMAIN dib -> Nat] BY <1>3 DEF Data
  <2>2. DOMAIN u = dynamics /\ u[d] = 0 /\ \A x \in S : u[x] = written[x] /\ x # d
    BY <1>1, <1>4 DEF With, v, Restrict
  <2>3. u = [x \in dynamics |-> u[x]] BY <2>2 DEF With
  <2>4. Max2(u[d], bytes) = bytes BY <1>6, <2>2 DEF Max2
  <2> HIDE DEF u
  <2>5. \A x \in dynamics : [written EXCEPT ![d] = bytes][x] = [u EXCEPT ![d] = Max2(@, bytes)][x]
    BY <1>1, <1>4, <2>1, <2>2, <2>4
  <2> DEFINE p == [written EXCEPT ![d] = bytes]
             q == [u EXCEPT ![d] = Max2(@, bytes)]
  <2>6. p = [x \in dynamics |-> p[x]] BY <1>4, <2>1
  <2>7. q = [x \in dynamics |-> q[x]] BY <2>2, <2>3
  <2> HIDE DEF p, q
  <2>8. \A x \in dynamics : p[x] = q[x] BY <2>5 DEF p, q
  <2>9. p = q BY <2>6, <2>7, <2>8
  <2> QED BY <1>1, <2>9 DEF p, q
<1>18. NoPages(t.allocator, f)
  <2>1. d \in PagedIn(f) BY <1>6, <1>12, <1>14 DEF PagedIn
  <2> QED BY <2>1 DEF NoPages
<1> HIDE DEF u
<1>19. Becomes(t) BY <1>2 DEF y, flags
<1> HIDE DEF t
<1>20. dynamics' = dynamics BY <1>2 DEF dynamics
<1>21. Data(t.frame.pre, Seen(t.frame.draws), dib', written',
            appBuffers' \union ToSet(t.frame.freeIndexBuffer),
            PagesOf(t.allocator) \union OwnBuffers(dib'))
  BY <1>1, <1>15, <1>16, <1>17 DEF DataOf, A
<1>22. Whole(t, dib', appBuffers', StartsWith) /\ NoPages(t.allocator, dib')
  BY <1>1, <1>15, <1>16, <1>18 DEF A, B0
<1> QED BY <1>1, <1>4, <1>19, <1>20, <1>21, <1>22, CallKeeps

-----------------------------------------------------------------------------
(* frame and renderFrame.                                                   *)

\* A frame with nothing in it.
LEMMA EmptyFrameIs ==
    /\ EmptyFrame \in Frames /\ EmptyFrame.pre = <<>> /\ EmptyFrame.post = <<>>
    /\ EmptyFrame.draws = {} /\ EmptyFrame.freeIndexBuffer = <<>>
    /\ \A B \in SUBSET Nat : Prepared(EmptyFrame, B, B)
<1>1. /\ EmptyFrame.pre = <<>> /\ EmptyFrame.post = <<>>
      /\ EmptyFrame.draws = {} /\ EmptyFrame.freeIndexBuffer = <<>>
  BY DEF EmptyFrame
<1>2. EmptyFrame \in Frames
  <2>1. <<>> \in Seq(Cmds) /\ <<>> \in Seq(Buffers) OBVIOUS
  <2>2. {} \in SUBSET Ranges OBVIOUS
  <2> QED BY <2>1, <2>2 DEF EmptyFrame, Frames
<1>3. ASSUME NEW B \in SUBSET Nat PROVE Prepared(EmptyFrame, B, B)
  <2>1. Fresh(B) \in Renderers BY DEF Fresh, Renderers
  <2>2. FoldLeft(Execute, Fresh(B), <<>>) = Fresh(B) BY <2>1, ExecutedNone
  <2> QED BY <1>1, <2>2 DEF Prepared
<1> QED BY <1>1, <1>2, <1>3

\* freeAllHandles: the handles that wait go, and the next frame has nothing in it.
LEMMA HandlesFreed ==
    ASSUME NEW s, NEW f, NEW A, NEW B0, Whole(s, f, A, B0)
    PROVE  LET q == s.frame.freeIndexBuffer
               z == Restrict(s.size, DOMAIN s.size \ ToSet(q))
               t == [size |-> z, allocator |-> s.allocator, frame |-> EmptyFrame]
           IN  /\ Whole(t, f, A, DOMAIN z) /\ DOMAIN z = DOMAIN s.size \ ToSet(q)
               /\ DOMAIN z \in SUBSET Buffers
<1> DEFINE q == s.frame.freeIndexBuffer
           S == DOMAIN s.size \ ToSet(q)
           z == Restrict(s.size, S)
           t == [size |-> z, allocator |-> s.allocator, frame |-> EmptyFrame]
<1>1. /\ s \in States /\ Known(f) /\ Filled(s.allocator, s.size) /\ Held(s.allocator, f)
      /\ Owned(s.size, PagesOf(s.allocator), f, A, q)
  BY DEF Whole
<1>2. Sizing(s.size) /\ s.allocator \in Allocators BY <1>1, StateFields
<1>3. DOMAIN z = S /\ Sizing(z) /\ S \in SUBSET Buffers
  <2>1. DOMAIN z = S /\ \A b \in S : z[b] = s.size[b] BY DEF Restrict
  <2>2. z = [b \in S |-> s.size[b]] BY DEF Restrict
  <2> QED BY <1>2, <2>1, <2>2 DEF Sizing
<1>4. t \in States /\ t.size = z /\ t.allocator = s.allocator /\ t.frame = EmptyFrame
  <2>1. z \in Sizings BY <1>3, SizingIs
  <2> HIDE DEF z
  <2> QED BY <1>2, <2>1, EmptyFrameIs DEF States
<1>5. PagesOf(s.allocator) \subseteq S
  BY <1>1 DEF Owned, Parts
<1>6. Filled(s.allocator, z) BY <1>1, <1>5, FilledLess
<1>7. Owned(z, PagesOf(s.allocator), f, A, <<>>) BY <1>1, OwnedReleased
<1>8. Prepared(EmptyFrame, DOMAIN z, DOMAIN z) BY <1>3, BuffersAssumption, EmptyFrameIs
<1> HIDE DEF t, z, S
<1>9. Whole(t, f, A, DOMAIN z)
  BY <1>1, <1>4, <1>6, <1>7, <1>8, EmptyFrameIs DEF Whole
<1> QED BY <1>3, <1>9 DEF t, z, S

\* What the renderer makes of a frame that is whole.
LEMMA FrameApplies ==
    ASSUME NEW s, NEW f, NEW A, NEW B0 \in SUBSET Nat, Whole(s, f, A, B0)
    PROVE  LET drawing == FoldLeft(Execute, Fresh(B0), s.frame.pre)
           IN  /\ drawing = Fresh(DOMAIN s.size)
               /\ FoldLeft(Execute, drawing, s.frame.post)
                  = Fresh(DOMAIN s.size \ ToSet(s.frame.freeIndexBuffer))
<1> DEFINE q == s.frame.freeIndexBuffer
           B == DOMAIN s.size
           w == s.frame.post
<1>1. s \in States /\ Owned(s.size, PagesOf(s.allocator), f, A, q) /\ Prepared(s.frame, B0, B)
  BY DEF Whole
<1>2. w \in Seq(Cmds) /\ q \in Seq(Buffers) BY <1>1, StateFields
<1>3. /\ FoldLeft(Execute, Fresh(B0), s.frame.pre) = Fresh(B)
      /\ Len(w) = Len(q) /\ \A i \in 1 .. Len(w) : w[i] = DestroyCmd(q[i])
  BY <1>1 DEF Prepared
<1>4. B \in SUBSET Nat BY PagesKnown
<1>5. IsInjective(q) /\ ToSet(q) \subseteq B BY <1>1 DEF Owned, Parts
<1>6. FoldLeft(Execute, [buffers |-> B, ok |-> TRUE], w) = [buffers |-> B \ ToSet(q), ok |-> TRUE]
  <2> HIDE DEF B, q, w
  <2> QED BY <1>2, <1>3, <1>4, <1>5, DestroyRun
<1> QED BY <1>3, <1>6 DEF Fresh

\* The frame that is handed over: h are the dynamic buffers left once those that are
\* queued have been destroyed, which changes what the frame does when it is done only.
LEMMA FrameSafe ==
    ASSUME NEW s, NEW f, NEW A, NEW B0 \in SUBSET Nat, Whole(s, f, A, B0), NEW w, DataOf(s, f, w, A),
           rendering' = TRUE, rBuffers' = B0, render'.pre = s.frame.pre,
           render'.draws = s.frame.draws,
           NEW t, NEW h, Whole(t, h, A, B0), t.size = s.size, t.frame.pre = s.frame.pre,
           render'.post = t.frame.post
    PROVE  /\ CommandsApply' /\ (~GrowDrawn => DrawsReadOwnData')
           /\ StartsWith' = DOMAIN t.size \ ToSet(t.frame.freeIndexBuffer)
<1> DEFINE C == A \union ToSet(s.frame.freeIndexBuffer)
           D == PagesOf(s.allocator) \union OwnBuffers(f)
<1>1. /\ C \intersect D = {} /\ C \subseteq DOMAIN s.size /\ D \subseteq DOMAIN s.size
      /\ \A d \in DOMAIN f : f[d].buffer \in D
  BY DataBuffers
<1>2. Data(s.frame.pre, Seen(s.frame.draws), f, w, C, D) BY DEF DataOf
<1>3. s \in States /\ Known(f) BY DEF Whole
<1>4. s.frame.pre \in Seq(Cmds) /\ s.frame.draws \in SUBSET Ranges BY <1>3, StateFields
<1> HIDE DEF C, D
<1>5. WhenDrawing' = Fresh(DOMAIN t.size)
  <2>1. FoldLeft(Execute, Fresh(B0), t.frame.pre) = Fresh(DOMAIN t.size) BY FrameApplies
  <2> QED BY <2>1 DEF WhenDrawing, Fresh
<1>6. WhenDone' = Fresh(DOMAIN t.size \ ToSet(t.frame.freeIndexBuffer))
  <2>1. FoldLeft(Execute, Fresh(B0), t.frame.pre) = Fresh(DOMAIN t.size) BY FrameApplies
  <2>2. FoldLeft(Execute, FoldLeft(Execute, Fresh(B0), t.frame.pre), t.frame.post)
        = Fresh(DOMAIN t.size \ ToSet(t.frame.freeIndexBuffer))
    BY FrameApplies
  <2>3. WhenDone' = FoldLeft(Execute, WhenDrawing', render'.post) BY DEF WhenDone
  <2> QED BY <1>5, <2>1, <2>2, <2>3
<1>7. CommandsApply' BY <1>6 DEF CommandsApply, Fresh
<1>8. ASSUME ~GrowDrawn PROVE DrawsReadOwnData'
  <2> DEFINE pre == s.frame.pre
             draws == s.frame.draws
  <2>1. \A d \in draws :
           /\ d.buffer \in C \union D
           /\ \A i \in DOMAIN pre : \A x \in d.first .. d.end - 1 :
                 pre[i].op = "Write" /\ Covers(pre[i].range, d.buffer, x) =>
                     \E j \in i .. Len(pre) :
                         /\ pre[j].op = "Write"
                         /\ Covers(pre[j].range, d.buffer, x)
                         /\ pre[j].range.owner = d.owner
    <3>1. pre \in Seq(Cmds) /\ draws \in SUBSET Ranges /\ Data(pre, draws, f, w, C, D)
      BY <1>2, <1>4, <1>8 DEF Seen
    <3> HIDE DEF pre, draws
    <3>2. Known(f) /\ C \intersect D = {} /\ \A e \in DOMAIN f : f[e].buffer \in D BY <1>1, <1>3
    <3> QED BY <3>1, <3>2, DataRead, ZenonT(60)
  <2>2. \A d \in draws : d.buffer \in WhenDrawing'.buffers
    BY <1>1, <1>5, <2>1 DEF Fresh
  <2> QED BY <2>1, <2>2 DEF DrawsReadOwnData
<1>9. StartsWith' = DOMAIN t.size \ ToSet(t.frame.freeIndexBuffer)
  BY <1>6 DEF StartsWith, Fresh
<1> QED BY <1>7, <1>8, <1>9

\* frame.
LEMMA FrameKeeps ==
    ASSUME IndexInv, Frame
    PROVE  IndexInv'
<1> DEFINE s == FoldLeft(DestroyDynamic, State, freeDynamic)
           kept == dynamics \ ToSet(freeDynamic)
           f == Restrict(dib, kept)
           q == s.frame.freeIndexBuffer
           z == Restrict(s.size, buffers \ ToSet(q))
           t == [size |-> z, allocator |-> s.allocator, frame |-> EmptyFrame]
<1>1. /\ ~rendering /\ bufferSize' = z /\ allocator' = s.allocator
      /\ dib' = f /\ written' = Restrict(written, kept)
      /\ freeDynamic' = <<>> /\ render' = [s.frame EXCEPT !.freeIndexBuffer = <<>>]
      /\ submit' = EmptyFrame /\ rendering' = TRUE /\ calls' = 0
      /\ appBuffers' = appBuffers /\ rBuffers' = rBuffers
  BY DEF Frame
<1>2. /\ State \in States /\ State.size = bufferSize /\ State.allocator = allocator
      /\ State.frame = submit /\ Whole(State, dib, appBuffers, StartsWith)
      /\ StartsWith \in SUBSET Nat /\ Known(dib) /\ NoPages(allocator, dib)
      /\ Data(submit.pre, Seen(submit.draws), dib, written, StaticBuffers, DynamicBuffers)
  BY StateIs
<1>3. /\ freeDynamic \in Seq(dynamics) /\ IsInjective(freeDynamic)
      /\ dynamics = DOMAIN dib /\ buffers = DOMAIN bufferSize
  BY InvFacts
<1>4. StartsWith = rBuffers BY <1>1 DEF StartsWith
<1>5. /\ Whole(s, f, appBuffers, StartsWith) /\ NoPages(s.allocator, f) /\ s.size = bufferSize
      /\ s.frame.pre = submit.pre /\ s.frame.draws = submit.draws
  <2>1. Released(State, s, f, appBuffers, StartsWith) BY <1>2, <1>3, AllReleased
  <2> HIDE DEF s, f
  <2> QED BY <1>2, <2>1 DEF Released
<1>6. DataOf(State, dib, written, appBuffers)
  BY <1>2 DEF DataOf, StaticBuffers, DynamicBuffers
<1> DEFINE g == [s.frame EXCEPT !.freeIndexBuffer = <<>>]
<1>7. g \in Frames /\ g.pre = s.frame.pre /\ g.post = s.frame.post /\ g.draws = s.frame.draws
  <2>1. s.frame \in Frames
    <3>1. s \in States BY <1>5 DEF Whole
    <3> HIDE DEF s
    <3> QED BY <3>1, StateFields
  <2> HIDE DEF s
  <2>2. <<>> \in Seq(Buffers) OBVIOUS
  <2> QED BY <2>1, <2>2 DEF Frames
<1>8. /\ Whole(t, f, appBuffers, DOMAIN z) /\ DOMAIN z = DOMAIN s.size \ ToSet(q)
      /\ DOMAIN z \in SUBSET Buffers
  <2>1. buffers = DOMAIN s.size BY <1>3, <1>5
  <2>2. z = Restrict(s.size, DOMAIN s.size \ ToSet(s.frame.freeIndexBuffer)) BY <2>1
  <2>3. LET y == Restrict(s.size, DOMAIN s.size \ ToSet(s.frame.freeIndexBuffer))
            u == [size |-> y, allocator |-> s.allocator, frame |-> EmptyFrame]
        IN  /\ Whole(u, f, appBuffers, DOMAIN y)
            /\ DOMAIN y = DOMAIN s.size \ ToSet(s.frame.freeIndexBuffer)
            /\ DOMAIN y \in SUBSET Buffers
    <3> HIDE DEF s, f
    <3> QED BY <1>5, HandlesFreed
  <2> HIDE DEF s, f, z
  <2> QED BY <2>2, <2>3
<1>9. f \in [kept -> DynamicIndexBuffer] /\ DOMAIN f = kept
      /\ Restrict(written, kept) \in [kept -> Nat]
      /\ \A e \in kept : Restrict(written, kept)[e] <= f[e].size
  <2>1. kept \subseteq DOMAIN dib BY <1>3
  <2>2. written \in [DOMAIN dib -> Nat] /\ \A e \in DOMAIN dib : written[e] <= dib[e].size
    BY <1>2 DEF Data
  <2>3. dib \in [DOMAIN dib -> DynamicIndexBuffer] BY <1>2 DEF Known
  <2> QED BY <2>1, <2>2, <2>3 DEF Restrict
<1> HIDE DEF s, z, t, f, g, kept, q
<1>10. State' = t /\ t.allocator = s.allocator
  BY <1>1 DEF State, t
<1>11. /\ CommandsApply' /\ (~GrowDrawn => DrawsReadOwnData')
       /\ StartsWith' = DOMAIN s.size \ ToSet(s.frame.freeIndexBuffer)
  <2>1. render' = g BY <1>1 DEF g
  <2>2. rBuffers' = StartsWith BY <1>1, <1>4
  <2>3. render'.pre = State.frame.pre /\ render'.draws = State.frame.draws
        /\ render'.post = s.frame.post /\ s.size = State.size /\ s.frame.pre = State.frame.pre
    BY <1>2, <1>5, <1>7, <2>1
  <2> QED BY <1>1, <1>2, <1>5, <1>6, <2>2, <2>3, FrameSafe
<1>12. RenderInv'
  <2>1. StartsWith' \in SUBSET Buffers BY <1>8, <1>11 DEF q
  <2>2. render' \in Frames BY <1>1, <1>7 DEF g
  <2>3. rBuffers' \in SUBSET Buffers BY <1>1 DEF IndexInv, RenderInv
  <2>4. (rendering \in BOOLEAN)' BY <1>1
  <2> QED BY <1>11, <2>1, <2>2, <2>3, <2>4 DEF RenderInv
<1>13. ApiInv'
  <2>1. Whole(State', dib', appBuffers', StartsWith') BY <1>1, <1>8, <1>10, <1>11 DEF q
  <2>2. NoPages(allocator', dib') BY <1>1, <1>5
  <2>3. Data(submit'.pre, Seen(submit'.draws), dib', written', StaticBuffers', DynamicBuffers')
    <3>1. submit'.pre = <<>> /\ Seen(submit'.draws) = {} BY <1>1, EmptyFrameIs DEF Seen
    <3>2. written' \in [DOMAIN dib' -> Nat] /\ \A e \in DOMAIN dib' : written'[e] <= dib'[e].size
      BY <1>1, <1>9
    <3>3. Data(<<>>, {}, dib', written', StaticBuffers', DynamicBuffers') BY <3>2, DataNone
    <3> QED BY <3>1, <3>3
  <2>4. freeDynamic' \in Seq(dynamics') /\ IsInjective(freeDynamic')
    <3>1. <<>> \in Seq(dynamics') /\ IsInjective(<<>>) BY DEF IsInjective
    <3> QED BY <1>1, <3>1
  <2>5. calls' \in 0 .. MaxCalls BY <1>1, BoundsAssumption
  <2> QED BY <2>1, <2>2, <2>3, <2>4, <2>5 DEF ApiInv
<1> QED BY <1>12, <1>13 DEF IndexInv

\* renderFrame.
LEMMA RenderFrameKeeps ==
    ASSUME IndexInv, RenderFrame
    PROVE  IndexInv'
<1>1. /\ rendering /\ rBuffers' = WhenDone.buffers /\ render' = EmptyFrame /\ rendering' = FALSE
      /\ bufferSize' = bufferSize /\ allocator' = allocator /\ dib' = dib
      /\ freeDynamic' = freeDynamic /\ written' = written
      /\ appBuffers' = appBuffers /\ submit' = submit /\ calls' = calls
  BY DEF RenderFrame, bufferVars, dynamicVars
<1>2. StartsWith = WhenDone.buffers /\ StartsWith' = StartsWith BY <1>1 DEF StartsWith
<1>3. RenderInv'
  <2>1. rBuffers' \in SUBSET Buffers BY <1>1, <1>2 DEF IndexInv, RenderInv
  <2>2. ~rendering' BY <1>1
  <2>3. StartsWith' \in SUBSET Buffers BY <1>2 DEF IndexInv, RenderInv
  <2> QED BY <1>1, <2>1, <2>2, <2>3, EmptyFrameIs DEF RenderInv
<1>4. State' = State /\ dynamics' = dynamics BY <1>1 DEF State, dynamics
<1>5. StaticBuffers' = StaticBuffers /\ DynamicBuffers' = DynamicBuffers
  BY <1>1 DEF StaticBuffers, DynamicBuffers
<1>6. ApiInv' BY <1>1, <1>2, <1>4, <1>5 DEF IndexInv, ApiInv
<1> QED BY <1>3, <1>6 DEF IndexInv

-----------------------------------------------------------------------------
(* The invariant holds.                                                     *)

\* The first state.
LEMMA InitHolds ==
    ASSUME Init
    PROVE  IndexInv
<1> DEFINE f == << >>
<1>1. /\ bufferSize = [b \in Transients |-> 0] /\ allocator = NoBlocks /\ dib = f
      /\ written = << >> /\ freeDynamic = <<>> /\ appBuffers = {}
      /\ submit = EmptyFrame /\ render = EmptyFrame /\ rendering = FALSE
      /\ rBuffers = Transients /\ calls = 0
  BY DEF Init
<1>2. DOMAIN f = {} /\ f \in [{} -> DynamicIndexBuffer] /\ f \in [{} -> Nat] OBVIOUS
<1> HIDE DEF f
<1>3. Known(f) /\ OwnIn(f) = {} /\ PagedIn(f) = {} /\ OwnBuffers(f) = {}
  BY <1>2 DEF Known, OwnIn, PagedIn, OwnBuffers
<1>4. allocator \in Allocators /\ BlocksOf(allocator) = {} /\ allocator.used = {}
      /\ allocator.free = <<>> /\ PagesOf(allocator) = {}
  <2>1. allocator.used = {} /\ allocator.free = <<>> /\ allocator = [free |-> <<>>, used |-> {}]
    BY <1>1 DEF NoBlocks
  <2>2. <<>> \in Seq(Block) /\ {} \in SUBSET Block /\ ToSet(<<>>) = {} BY DEF ToSet
  <2> QED BY <2>1, <2>2 DEF Allocators, BlocksOf, PagesOf
<1>5. Filled(allocator, bufferSize)
  <2>1. IsInjective(<<>>) /\ ToSet(<<>>) = {} BY DEF IsInjective, ToSet
  <2>2. AllApart({}) BY DEF AllApart
  <2>3. Tidy(allocator) BY <1>4, <2>1, <2>2 DEF Tidy, Allocators
  <2> QED BY <1>4, <2>3 DEF Filled
<1>6. Held(allocator, f) BY <1>3, <1>4 DEF Held
<1>7. DOMAIN bufferSize = Transients /\ bufferSize \in Sizings
  <2>1. Sizing(bufferSize) /\ DOMAIN bufferSize = Transients BY <1>1, BuffersAssumption DEF Sizing
  <2> QED BY <2>1, SizingIs
<1>8. Owned(bufferSize, PagesOf(allocator), f, appBuffers, <<>>)
  <2>1. <<>> \in Seq(Buffers) /\ IsInjective(<<>>) /\ ToSet(<<>>) = {} BY DEF IsInjective, ToSet
  <2>2. Parts(Transients, {}, {}, {}, {}) BY DEF Parts
  <2> QED BY <1>1, <1>3, <1>4, <1>7, <2>1, <2>2 DEF Owned
<1>9. State \in States /\ State.size = bufferSize /\ State.allocator = allocator
      /\ State.frame = submit
  BY <1>1, <1>4, <1>7, EmptyFrameIs DEF State, States
<1>10. StartsWith = Transients BY <1>1 DEF StartsWith
<1>11. Prepared(EmptyFrame, Transients, Transients) BY BuffersAssumption, EmptyFrameIs
<1>12. Whole(State, dib, appBuffers, StartsWith)
  BY <1>1, <1>3, <1>5, <1>6, <1>7, <1>8, <1>9, <1>10, <1>11, EmptyFrameIs DEF Whole
<1>13. NoPages(allocator, dib) BY <1>4 DEF NoPages
<1>14. Data(submit.pre, Seen(submit.draws), dib, written, StaticBuffers, DynamicBuffers)
  <2>1. written \in [DOMAIN dib -> Nat] /\ \A e \in DOMAIN dib : written[e] <= dib[e].size
    BY <1>1, <1>2 DEF f
  <2>2. Data(<<>>, {}, dib, written, StaticBuffers, DynamicBuffers) BY <2>1, DataNone
  <2>3. submit.pre = <<>> /\ Seen(submit.draws) = {} BY <1>1, EmptyFrameIs DEF Seen
  <2> QED BY <2>2, <2>3
<1>15. freeDynamic \in Seq(dynamics) /\ IsInjective(freeDynamic)
  <2>1. <<>> \in Seq(dynamics) /\ IsInjective(<<>>) BY DEF IsInjective
  <2> QED BY <1>1, <2>1
<1>16. ApiInv BY <1>1, <1>12, <1>13, <1>14, <1>15, BoundsAssumption DEF ApiInv
<1>17. RenderInv BY <1>1, <1>10, BuffersAssumption, EmptyFrameIs DEF RenderInv
<1> QED BY <1>16, <1>17 DEF IndexInv

\* A step that changes nothing.
LEMMA UnchangedKeeps ==
    ASSUME IndexInv, UNCHANGED vars
    PROVE  IndexInv'
<1>1. /\ UNCHANGED rendVars /\ bufferSize' = bufferSize /\ allocator' = allocator /\ dib' = dib
      /\ freeDynamic' = freeDynamic /\ written' = written
      /\ appBuffers' = appBuffers /\ submit' = submit /\ calls' = calls
  BY DEF vars, bufferVars, dynamicVars
<1>2. StartsWith' = StartsWith /\ RenderInv' BY <1>1, StartsWithStays DEF IndexInv
<1>3. State' = State /\ dynamics' = dynamics BY <1>1 DEF State, dynamics
<1>4. StaticBuffers' = StaticBuffers /\ DynamicBuffers' = DynamicBuffers
  BY <1>1 DEF StaticBuffers, DynamicBuffers
<1>5. ApiInv' BY <1>1, <1>2, <1>3, <1>4 DEF IndexInv, ApiInv
<1> QED BY <1>2, <1>5 DEF IndexInv

\* Every step.
LEMMA StepKeeps ==
    ASSUME UsedWell, IndexInv, [Next]_vars
    PROVE  IndexInv'
<1>1. ASSUME NEW b \in Buffers, NEW size \in Sizes, CreateIndexBuffer(b, size) PROVE IndexInv'
  BY <1>1, CreateIndexBufferKeeps
<1>2. ASSUME NEW b \in Buffers, DestroyIndexBuffer(b) PROVE IndexInv'
  BY <1>2, DestroyIndexBufferKeeps
<1>3. ASSUME NEW b \in Buffers, DrawStatic(b) PROVE IndexInv'
  BY <1>3, DrawStaticKeeps
<1>4. ASSUME NEW d \in Dynamics, NEW bytes \in Sizes, NEW flags \in Flags,
             CreateDynamicIndexBuffer(d, bytes, flags)
      PROVE  IndexInv'
  BY <1>4, CreateDynamicKeeps
<1>5. ASSUME NEW d \in Dynamics, NEW bytes \in Sizes, UpdateInPlace(d, bytes) PROVE IndexInv'
  BY <1>5, UpdateInPlaceKeeps
<1>6. ASSUME NEW d \in Dynamics, NEW bytes \in Sizes, UpdateAndGrow(d, bytes) PROVE IndexInv'
  BY <1>6, GrowKeeps
<1>7. ASSUME NEW d \in Dynamics, DestroyDynamicIndexBuffer(d) PROVE IndexInv'
  BY <1>7, DestroyDynamicIndexBufferKeeps
<1>8. ASSUME NEW d \in Dynamics, DrawDynamic(d) PROVE IndexInv'
  BY <1>8, DrawDynamicKeeps
<1>9. CASE Frame BY <1>9, FrameKeeps
<1>10. CASE RenderFrame BY <1>10, RenderFrameKeeps
<1>11. CASE UNCHANGED vars BY <1>11, UnchangedKeeps
<1> HIDE DEF IndexInv
<1> QED
  BY <1>1, <1>2, <1>3, <1>4, <1>5, <1>6, <1>7, <1>8, <1>9, <1>10, <1>11 DEF Next

\* Every behaviour keeps the invariant, used well: no buffer that compute shaders read
\* is resized, which update leaks, and sizes are whole numbers of every format where
\* blocks of two formats can meet.
THEOREM Invariance ==
    ASSUME UsedWell
    PROVE  Spec => []IndexInv
<1>1. Init => IndexInv BY InitHolds
<1>2. IndexInv /\ [Next]_vars => IndexInv' BY StepKeeps
<1> QED BY <1>1, <1>2, PTL DEF Spec

-----------------------------------------------------------------------------
(* What follows from the invariant.                                         *)

\* A frame as the type invariant has it.
LEMMA FramesTyped ==
    ASSUME NEW f \in Frames
    PROVE  IsFrame(f)
BY DEF Frames, IsFrame, EmptyFrame

\* The invariant has the types.
LEMMA TypeHolds ==
    ASSUME IndexInv
    PROVE  TypeOK
<1>1. /\ State \in States /\ State.size = bufferSize /\ State.allocator = allocator
      /\ State.frame = submit /\ Whole(State, dib, appBuffers, StartsWith)
      /\ Known(dib) /\ submit \in Frames
      /\ Data(submit.pre, Seen(submit.draws), dib, written, StaticBuffers, DynamicBuffers)
  BY StateIs
<1>2. /\ freeDynamic \in Seq(dynamics) /\ calls \in 0 .. MaxCalls
      /\ dynamics = DOMAIN dib /\ StaticBuffers \subseteq buffers
      /\ buffers \subseteq Buffers /\ bufferSize \in [buffers -> Nat]
  BY InvFacts
<1>3. allocator \in Allocators BY <1>1, StateFields
<1>4. allocator.free \in Seq(Block) /\ allocator.used \subseteq Block BY <1>3 DEF Allocators
<1>5. dynamics \subseteq Dynamics /\ dib \in [dynamics -> DynamicIndexBuffer]
  BY <1>1, <1>2 DEF Known
<1>6. written \in [dynamics -> Nat] BY <1>1, <1>2 DEF Data
<1>7. appBuffers \subseteq buffers BY <1>2 DEF StaticBuffers
<1>8. /\ render \in Frames /\ rendering \in BOOLEAN /\ rBuffers \subseteq Buffers
  BY DEF IndexInv, RenderInv
<1>9. IsFrame(submit) /\ IsFrame(render) BY <1>1, <1>8, FramesTyped
<1> QED BY <1>2, <1>4, <1>5, <1>6, <1>7, <1>8, <1>9 DEF TypeOK

\* The blocks, as the run checks them.
LEMMA BlocksHold ==
    ASSUME IndexInv
    PROVE  BlocksExact
<1>1. Whole(State, dib, appBuffers, StartsWith) /\ State.size = bufferSize
      /\ State.allocator = allocator
  BY StateIs
<1>2. Filled(allocator, bufferSize) /\ Held(allocator, dib) /\ Known(dib) BY <1>1 DEF Whole
<1>3. Tidy(allocator) BY <1>2 DEF Filled
<1>4. /\ Blocks = BlocksOf(allocator) /\ Pages = PagesOf(allocator) /\ dynamics = DOMAIN dib
      /\ \A d \in dynamics : Paged(d) <=> d \in PagedIn(dib)
  BY DEF Blocks, BlocksOf, Pages, PagesOf, dynamics, Paged, PagedIn
<1>5. \A b, c \in Blocks : b = c \/ Disjoint(b, c) BY <1>3, <1>4 DEF Tidy, AllApart
<1>6. \A b \in Blocks : End(b) <= bufferSize[b.buffer] BY <1>2, <1>4 DEF Filled
<1>7. \A p \in Pages : \A x \in 0 .. bufferSize[p] - 1 :
         \E b \in Blocks : b.buffer = p /\ b.offset <= x /\ x < End(b)
  BY <1>2, <1>4 DEF Filled, Covered, Within
<1>8. IsInjective(allocator.free) /\ allocator.used \intersect ToSet(allocator.free) = {}
  BY <1>3 DEF Tidy
<1>9. ASSUME NEW d \in dynamics, Paged(d)
      PROVE  \E b \in At(allocator, dib[d].buffer, dib[d].offset) :
                First(dib[d]) + dib[d].size <= End(b)
  <2>1. d \in PagedIn(dib) BY <1>4, <1>9
  <2>2. PICK b \in allocator.used :
           b.buffer = dib[d].buffer /\ b.offset = dib[d].offset /\ dib[d].size <= b.size
    BY <1>2, <2>1 DEF Held
  <2>3. b \in At(allocator, dib[d].buffer, dib[d].offset) BY <2>2 DEF At
  <2>4. b \in Block /\ End(b) = b.offset + b.size /\ b.offset \in Nat /\ b.size \in Nat
    BY <1>3, TidyIs, BlockIs
  <2>5. First(dib[d]) = b.offset /\ dib[d].size \in Nat
    BY <1>2, <1>4, <2>2, KnownIs
  <2> QED BY <2>2, <2>3, <2>4, <2>5
<1>10. ASSUME NEW b \in allocator.used
       PROVE  \E d \in dynamics :
                 /\ Paged(d) /\ b \in At(allocator, dib[d].buffer, dib[d].offset)
                 /\ \A e \in dynamics \ {d} :
                       Paged(e) => b \notin At(allocator, dib[e].buffer, dib[e].offset)
  <2>1. PICK d \in PagedIn(dib) : dib[d].buffer = b.buffer /\ dib[d].offset = b.offset
    BY <1>2 DEF Held
  <2>2. d \in dynamics /\ Paged(d) BY <1>4, <2>1 DEF PagedIn
  <2>3. b \in At(allocator, dib[d].buffer, dib[d].offset) BY <2>1 DEF At
  <2>4. ASSUME NEW e \in dynamics \ {d}, Paged(e),
               b \in At(allocator, dib[e].buffer, dib[e].offset)
        PROVE  FALSE
    <3>1. dib[e].buffer = b.buffer /\ dib[e].offset = b.offset BY <2>4 DEF At
    <3>2. e \in PagedIn(dib) BY <1>4, <2>4
    <3> QED BY <1>2, <2>1, <2>4, <3>1, <3>2 DEF Held
  <2> QED BY <2>2, <2>3, <2>4
<1> QED BY <1>5, <1>6, <1>7, <1>8, <1>9, <1>10 DEF BlocksExact

\* A set with at most one element.
LEMMA AtMostOne ==
    ASSUME NEW S, \A x, y \in S : x = y
    PROVE  Cardinality(S) = IF S = {} THEN 0 ELSE 1
<1>1. CASE S = {} BY <1>1, FS_EmptySet
<1>2. CASE S # {}
  <2>1. PICK x : x \in S BY <1>2
  <2>2. S = {x} BY <2>1
  <2> QED BY <1>2, <2>2, FS_Singleton
<1> QED BY <1>1, <1>2

\* The owners, as the run counts them.
LEMMA OwnersHold ==
    ASSUME IndexInv
    PROVE  OneOwner
<1> DEFINE own == {d \in dynamics : ~Paged(d)}
           q == submit.freeIndexBuffer
           O(b) == {d \in own : dib[d].buffer = b}
           Q(b) == {i \in DOMAIN q : q[i] = b}
<1>1. /\ Whole(State, dib, appBuffers, StartsWith) /\ State.size = bufferSize
      /\ State.allocator = allocator /\ State.frame = submit /\ NoPages(allocator, dib)
  BY StateIs
<1>2. Owned(bufferSize, PagesOf(allocator), dib, appBuffers, q) BY <1>1 DEF Whole
<1>3. /\ q \in Seq(Buffers) /\ IsInjective(q)
      /\ \A d, e \in OwnIn(dib) : dib[d].buffer = dib[e].buffer => d = e
      /\ Parts(buffers, appBuffers, PagesOf(allocator), OwnBuffers(dib), ToSet(q))
  BY <1>2 DEF Owned, buffers
<1>4. /\ Pages = PagesOf(allocator) /\ own = OwnIn(dib)
      /\ {d \in dynamics : Paged(d)} = PagedIn(dib)
  BY DEF Blocks, BlocksOf, Pages, PagesOf, dynamics, Paged, OwnIn, PagedIn
<1>5. ASSUME NEW b
      PROVE  Cardinality(O(b)) = IF b \in OwnBuffers(dib) THEN 1 ELSE 0
  <2>1. \A d, e \in O(b) : d = e BY <1>3, <1>4
  <2>2. O(b) = {} <=> b \notin OwnBuffers(dib) BY <1>4 DEF OwnBuffers
  <2> HIDE DEF O
  <2> QED BY <2>1, <2>2, AtMostOne
<1>6. ASSUME NEW b
      PROVE  Cardinality(Q(b)) = IF b \in ToSet(q) THEN 1 ELSE 0
  <2>1. \A i, j \in Q(b) : i = j BY <1>3 DEF IsInjective
  <2>2. Q(b) = {} <=> b \notin ToSet(q) BY DEF ToSet
  <2> HIDE DEF Q
  <2> QED BY <2>1, <2>2, AtMostOne
<1> DEFINE owners(b) == (IF b \in Transients THEN 1 ELSE 0)
                        + (IF b \in appBuffers THEN 1 ELSE 0)
                        + (IF b \in Pages THEN 1 ELSE 0)
                        + Cardinality(O(b)) + Cardinality(Q(b))
<1>7. ASSUME NEW b \in Buffers PROVE owners(b) = IF b \in buffers THEN 1 ELSE 0
  <2>1. owners(b) = (IF b \in Transients THEN 1 ELSE 0) + (IF b \in appBuffers THEN 1 ELSE 0)
                    + (IF b \in PagesOf(allocator) THEN 1 ELSE 0)
                    + (IF b \in OwnBuffers(dib) THEN 1 ELSE 0) + (IF b \in ToSet(q) THEN 1 ELSE 0)
    <3> HIDE DEF O, Q, own, q
    <3> QED BY <1>4, <1>5, <1>6 DEF q
  <2> HIDE DEF owners, q
  <2> QED BY <1>3, <2>1 DEF Parts
<1>8. {d \in dynamics : Paged(d)} = {} => Pages = {} BY <1>1, <1>4 DEF NoPages
<1> QED BY <1>7, <1>8 DEF OneOwner

\* No update is cut short.
LEMMA NoneTruncated ==
    ASSUME IndexInv
    PROVE  NotTruncated
<1>1. /\ Whole(State, dib, appBuffers, StartsWith) /\ State.size = bufferSize
      /\ Known(dib) /\ dynamics = DOMAIN dib
  BY StateIs, InvFacts
<1> SUFFICES ASSUME NEW d \in dynamics
             PROVE  UpdateEnd(dib[d], dib[d].size, bufferSize) = First(dib[d]) + dib[d].size
  BY DEF NotTruncated
<1>2. /\ State.size[dib[d].buffer] \in Nat
      /\ First(dib[d]) + dib[d].size <= State.size[dib[d].buffer]
  BY <1>1, DataFits
<1>3. First(dib[d]) \in Nat /\ dib[d].size \in Nat BY <1>1, KnownIs
<1> QED BY <1>1, <1>2, <1>3 DEF UpdateEnd

-----------------------------------------------------------------------------
(* The theorems.                                                            *)

\* Every variable has its type.
THEOREM TypeCorrect ==
    ASSUME UsedWell
    PROVE  Spec => []TypeOK
<1>1. IndexInv => TypeOK BY TypeHolds
<1>2. Spec => []IndexInv BY Invariance
<1> QED BY <1>1, <1>2, PTL

\* alloc, free and compact never lose, share or leave uncovered a byte of a page, and a
\* block in use is that of one dynamic buffer, which fits into it.
THEOREM BlocksAlwaysExact ==
    ASSUME UsedWell
    PROVE  Spec => []BlocksExact
<1>1. IndexInv => BlocksExact BY BlocksHold
<1>2. Spec => []IndexInv BY Invariance
<1> QED BY <1>1, <1>2, PTL

\* createDynamicIndexBuffer, update, destroyDynamicIndexBufferInternal and frame hand
\* every index buffer from one owner to one other; none is leaked or released twice, and
\* the pages go with the last dynamic buffer.
THEOREM AlwaysOneOwner ==
    ASSUME UsedWell
    PROVE  Spec => []OneOwner
<1>1. IndexInv => OneOwner BY OwnersHold
<1>2. Spec => []IndexInv BY Invariance
<1> QED BY <1>1, <1>2, PTL

\* As long as the application grows no buffer that the frame draws, renderFrame draws no
\* byte that another buffer wrote last, and no command meets an index buffer that is
\* missing or in the way.
THEOREM RendererAlwaysSafe ==
    ASSUME UsedWell, ~GrowDrawn
    PROVE  Spec => []RendererSafe
<1>1. IndexInv => RendererSafe BY DEF IndexInv, RenderInv, RendererSafe
<1>2. Spec => []IndexInv BY Invariance
<1> QED BY <1>1, <1>2, PTL

\* Used well, update never meets its assertion about truncation.  The run index_resize
\* has a state where it does, with sizes that are not whole numbers of both formats.
THEOREM NeverTruncated ==
    ASSUME UsedWell
    PROVE  Spec => []NotTruncated
<1>1. IndexInv => NotTruncated BY NoneTruncated
<1>2. Spec => []IndexInv BY Invariance
<1> QED BY <1>1, <1>2, PTL
===============================================================================
