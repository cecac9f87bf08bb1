------------------------- MODULE NetworkSpaceRoutes -------------------------
(* The routes that generateIPList returns are those that the session asks  *)
(* for, for addresses of any width and any number of networks.             *)
EXTENDS NetworkSpaceProofs, FiniteSetTheorems

\* The networks that begin at a multiple of their size.
Blocks == {n \in Prefixes : Aligned(n)}

-----------------------------------------------------------------------------
(* How blocks lie in each other.                                           *)

LEMMA BlockFacts ==
    ASSUME NEW n \in Blocks
    PROVE  /\ n \in Prefixes /\ n.first \in Nat /\ n.mask \in Nat /\ n.mask <= Bits
           /\ n.included \in BOOLEAN /\ Bits \in Nat
           /\ Last(n) \in Nat /\ n.first <= Last(n)
           /\ Size(n.mask) \in Nat \ {0} /\ Last(n) = n.first + Size(n.mask) - 1
<1>1. n \in Prefixes /\ n.mask <= Bits
  BY DEF Blocks, Aligned
<1>2. n.first \in Nat /\ n.mask \in Nat /\ n.included \in BOOLEAN
  BY <1>1 DEF Prefixes
<1> QED
  BY <1>1, <1>2, LastFacts, SizeFacts, BitsAssumption DEF Last

\* A number that leaves no rest is a multiple.
LEMMA Multiple ==
    ASSUME NEW x \in Nat, NEW y \in Nat \ {0}
    PROVE  x % y = 0 <=> \E k \in Nat : x = k * y
<1>1. x = ((x \div y) * y) + (x % y) /\ x \div y \in Nat
  OBVIOUS
<1>2. x % y = 0 => x = (x \div y) * y
  BY <1>1
<1>3. ASSUME NEW k \in Nat, x = k * y PROVE x % y = 0
  BY <1>3
<1> QED
  BY <1>1, <1>2, <1>3

LEMMA Whole ==
    ASSUME NEW n \in Blocks
    PROVE  \E k \in Nat : n.first = k * Size(n.mask)
BY BlockFacts, Multiple DEF Blocks, Aligned

\* The sizes of blocks are multiples of each other.
LEMMA SizesDivide ==
    ASSUME NEW k \in Nat, k <= Bits, NEW i \in 0 .. k
    PROVE  \E d \in Nat \ {0} : Size(k - i) = d * Size(k)
<1> DEFINE T == {j \in 0 .. k : ~\E d \in Nat \ {0} : Size(k - j) = d * Size(k)}
<1>1. SUFFICES ASSUME T # {} PROVE FALSE
  OBVIOUS
<1>2. PICK j \in T : \A h \in T : j <= h
  <2>1. T \in SUBSET Nat
    OBVIOUS
  <2> HIDE DEF T
  <2> QED
    BY <1>1, <2>1, LeastNumber
<1>3. j \in 0 .. k /\ ~\E d \in Nat \ {0} : Size(k - j) = d * Size(k)
  OBVIOUS
<1>4. Size(k) \in Nat \ {0}
  BY SizeFacts
<1>5. j # 0
  <2>1. ASSUME j = 0 PROVE k - j = k
    BY <2>1
  <2>2. Size(k) = 1 * Size(k) /\ 1 \in Nat \ {0}
    BY <1>4
  <2> QED
    BY <1>3, <2>1, <2>2
<1>6. j - 1 \in 0 .. k /\ ~(j <= j - 1)
  BY <1>3, <1>5
<1>7. PICK d \in Nat \ {0} : Size(k - (j - 1)) = d * Size(k)
  BY <1>2, <1>6
<1>8. k - j \in Nat /\ k - j < Bits /\ (k - j) + 1 = k - (j - 1)
  BY <1>3, <1>5, BitsAssumption
<1>9. Size(k - j) = 2 * Size(k - (j - 1))
  BY <1>8, SizeFacts
<1>10. Size(k - j) = (2 * d) * Size(k) /\ 2 * d \in Nat \ {0}
  BY <1>4, <1>7, <1>9
<1> QED
  BY <1>3, <1>10

\* The shorter the mask, the greater the block.
LEMMA SizesAscend ==
    ASSUME NEW m \in Blocks, NEW n \in Blocks
    PROVE  /\ m.mask = n.mask => Size(m.mask) = Size(n.mask)
           /\ m.mask < n.mask => Size(m.mask) >= 2 * Size(n.mask)
<1>1. CASE m.mask < n.mask
  <2> DEFINE k == n.mask
             i == k - (m.mask + 1)
  <2>1. k \in Nat /\ k <= Bits /\ i \in 0 .. k /\ k - i = m.mask + 1 /\ m.mask < Bits
    BY <1>1, BlockFacts
  <2>2. Size(m.mask) = 2 * Size(k - i)
    BY <2>1, BlockFacts, SizeFacts
  <2> HIDE DEF i
  <2>3. PICK d \in Nat \ {0} : Size(k - i) = d * Size(k)
    BY <2>1, SizesDivide
  <2>4. Size(k) \in Nat \ {0}
    BY BlockFacts
  <2>5. d * Size(k) >= Size(k)
    BY <2>4
  <2> QED
    BY <2>2, <2>3, <2>4, <2>5
<1> QED
  BY <1>1, BlockFacts

\* Of two blocks that have an address in common one lies in the other.
LEMMA Nesting ==
    ASSUME NEW m \in Blocks, NEW n \in Blocks, m.mask <= n.mask,
           m.first <= Last(n), n.first <= Last(m)
    PROVE  LiesIn(n, m)
<1> DEFINE s == Size(n.mask)
<1>1. s \in Nat \ {0} /\ Size(m.mask) \in Nat \ {0}
  BY BlockFacts
<1>2. PICK l \in Nat : n.first = l * s
  BY Whole
<1>3. PICK k \in Nat : m.first = k * Size(m.mask)
  BY Whole
<1>4. PICK d \in Nat \ {0} : Size(m.mask) = d * s
  <2> DEFINE i == n.mask - m.mask
  <2>1. n.mask \in Nat /\ n.mask <= Bits /\ i \in 0 .. n.mask /\ n.mask - i = m.mask
    BY BlockFacts
  <2> HIDE DEF i
  <2> QED
    BY <2>1, SizesDivide
<1>5. Last(n) = l * s + s - 1 /\ Last(m) = k * Size(m.mask) + Size(m.mask) - 1
  BY <1>2, <1>3 DEF Last
<1> HIDE DEF s
<1>6. k * d \in Nat /\ k * Size(m.mask) = (k * d) * s
      /\ k * Size(m.mask) + Size(m.mask) = (k * d + d) * s /\ (l + 1) * s = l * s + s
  BY <1>1, <1>4
<1>7. (k * d) * s < (l + 1) * s /\ l * s < (k * d + d) * s
  BY <1>1, <1>2, <1>3, <1>5, <1>6
<1>8. ASSUME NEW x \in Nat, NEW y \in Nat PROVE x * s < y * s => x < y
  BY <1>1
<1>9. ASSUME NEW x \in Nat, NEW y \in Nat PROVE x <= y => x * s <= y * s
  BY <1>1
<1>10. k * d <= l /\ l + 1 <= k * d + d
  BY <1>6, <1>7, <1>8
<1>11. (k * d) * s <= l * s /\ (l + 1) * s <= (k * d + d) * s
  BY <1>6, <1>9, <1>10
<1> QED
  BY <1>1, <1>2, <1>3, <1>5, <1>6, <1>11 DEF LiesIn

LEMMA HalvesFacts ==
    ASSUME NEW n \in Blocks, n.mask < Bits
    PROVE  LET L == LowerHalf(n)
               U == UpperHalf(n)
           IN  /\ L \in Blocks /\ U \in Blocks /\ IsUpperHalf(U)
               /\ L.mask = n.mask + 1 /\ L.included = n.included /\ L.first = n.first
               /\ U.mask = n.mask + 1 /\ U.included = n.included
               /\ Last(L) + 1 = U.first /\ Last(U) = Last(n)
<1> DEFINE L == LowerHalf(n)
           U == UpperHalf(n)
           s == Size(n.mask + 1)
<1>1. s \in Nat \ {0} /\ Size(n.mask) = 2 * s /\ n.mask + 1 \in Nat /\ n.mask + 1 <= Bits
  BY BlockFacts, SizeFacts
<1>2. PICK k \in Nat : n.first = k * (2 * s)
  BY <1>1, Whole
<1>3. L \in Prefixes /\ L.mask = n.mask + 1 /\ L.included = n.included /\ L.first = n.first
  BY BlockFacts, HalfFacts DEF LowerHalf, Prefixes
<1>4. Last(L) = n.first + s - 1
  BY <1>3 DEF Last
<1>5. /\ U \in Prefixes /\ U.mask = n.mask + 1 /\ U.included = n.included
      /\ U.first = n.first + s
  BY <1>1, <1>3, <1>4, BlockFacts DEF UpperHalf, Prefixes
<1>6. Last(U) = Last(n)
  BY <1>1, <1>5, BlockFacts DEF Last
<1>7. L \in Blocks /\ U \in Blocks
  <2> HIDE DEF s
  <2>1. n.first = (2 * k) * s /\ n.first + s = (2 * k + 1) * s
    BY <1>1, <1>2
  <2>2. ASSUME NEW j \in Nat PROVE (j * s) % s = 0
    BY <1>1
  <2>3. n.first % s = 0 /\ (n.first + s) % s = 0
    <3>1. 2 * k \in Nat /\ 2 * k + 1 \in Nat
      OBVIOUS
    <3> QED
      BY <2>1, <2>2, <3>1, Zenon
  <2> USE DEF s
  <2> QED
    BY <1>1, <1>3, <1>5, <2>3 DEF Blocks, Aligned
<1>8. IsUpperHalf(U)
  <2> HIDE DEF s
  <2>1. (k * (2 * s) + s) % (2 * s) = s
    <3> DEFINE t == 2 * s
    <3>1. t \in Nat \ {0} /\ s \in 0 .. t - 1
      BY <1>1
    <3> HIDE DEF t
    <3>2. (k * t + s) % t = s
      BY <3>1
    <3> QED
      BY <3>2 DEF t
  <2> USE DEF s
  <2> QED
    BY <1>2, <1>5, <2>1 DEF IsUpperHalf
<1> HIDE DEF L, U, s
<1> QED
  BY <1>1, <1>3, <1>4, <1>5, <1>6, <1>7, <1>8, BlockFacts DEF L, U

\* An upper half has another block of its size before it, and the two make up one.
LEMMA Buddy ==
    ASSUME NEW n \in Blocks, IsUpperHalf(n), n.mask > 0
    PROVE  \E b, w \in Blocks :
               /\ b.mask = n.mask /\ b.first = n.first - Size(n.mask) /\ Last(b) = n.first - 1
               /\ w.mask = n.mask - 1 /\ w.first = b.first /\ Last(w) = Last(n)
<1> DEFINE s == Size(n.mask)
           t == 2 * s
           b == [first |-> n.first - s, mask |-> n.mask, included |-> n.included]
           w == [first |-> n.first - s, mask |-> n.mask - 1, included |-> n.included]
<1>1. /\ s \in Nat \ {0} /\ t \in Nat \ {0} /\ n.mask - 1 \in Nat /\ n.mask - 1 < Bits
      /\ (n.mask - 1) + 1 = n.mask
  BY BlockFacts
<1>2. Size(n.mask - 1) = t
  BY <1>1, SizeFacts
<1>3. PICK k \in Nat : n.first = k * t + s
  <2>1. t \in Nat \ {0} /\ n.first % t = s /\ n.first \in Nat
    BY <1>1, BlockFacts DEF IsUpperHalf
  <2> HIDE DEF s, t
  <2>2. ASSUME NEW x \in Nat PROVE x = ((x \div t) * t) + (x % t) /\ x \div t \in Nat
    BY <2>1
  <2> QED
    BY <2>1, <2>2, Zenon
<1>4. n.first - s \in Nat /\ n.first - s = k * t /\ n.first - s = (2 * k) * s
  BY <1>1, <1>3
<1>5. (n.first - s) % s = 0 /\ (n.first - s) % t = 0
  <2> HIDE DEF s, t
  <2>1. (k * t) % t = 0 /\ ((2 * k) * s) % s = 0
    BY <1>1
  <2> QED
    BY <1>4, <2>1, Zenon
<1>6. b \in Prefixes /\ w \in Prefixes
  BY <1>1, <1>4, BlockFacts DEF Prefixes
<1>7. b \in Blocks /\ w \in Blocks
  <2>1. b.first % Size(b.mask) = 0 /\ w.first % Size(w.mask) = 0
    BY <1>2, <1>5
  <2>2. b.mask <= Bits /\ w.mask <= Bits
    BY <1>1, BlockFacts
  <2> QED
    BY <1>6, <2>1, <2>2, Zenon DEF Blocks, Aligned
<1>8. Last(b) = n.first - 1 /\ Last(w) = Last(n)
  <2>1. Last(b) = n.first - s + s - 1 /\ Last(w) = n.first - s + t - 1
    BY <1>2 DEF Last
  <2> QED
    BY <1>1, <2>1, BlockFacts
<1> QED
  BY <1>7, <1>8

\* What is greater than an upper half and shares an address with the two is around
\* both of them, and what is no greater and shares one with the other lies in that.
LEMMA BesideFacts ==
    ASSUME NEW n \in Blocks, IsUpperHalf(n), NEW q \in Blocks,
           q.first <= Last(n), n.first - Size(n.mask) <= Last(q)
    PROVE  /\ q.mask < n.mask => q.first <= n.first - Size(n.mask) /\ Last(n) <= Last(q)
           /\ 0 < n.mask /\ n.mask <= q.mask /\ q.first < n.first =>
                  n.first - Size(n.mask) <= q.first /\ Last(q) < n.first
<1>1. CASE n.mask > 0
  <2>1. PICK b, w \in Blocks :
            /\ b.mask = n.mask /\ b.first = n.first - Size(n.mask) /\ Last(b) = n.first - 1
            /\ w.mask = n.mask - 1 /\ w.first = b.first /\ Last(w) = Last(n)
    BY <1>1, Buddy
  <2>2. q.mask < n.mask => LiesIn(w, q)
    BY <2>1, BlockFacts, Nesting
  <2>3. n.mask <= q.mask /\ q.first < n.first => LiesIn(q, b)
    BY <2>1, BlockFacts, Nesting
  <2> QED
    BY <2>1, <2>2, <2>3, BlockFacts DEF LiesIn
<1>2. CASE ~(n.mask > 0)
  BY <1>2, BlockFacts
<1> QED
  BY <1>1, <1>2

-----------------------------------------------------------------------------
(* What a turn makes of the pieces S, with c the current one and x the     *)
(* least of the others.                                                    *)

LEMMA FirstTwo ==
    ASSUME NEW S \in SUBSET Blocks, NEW c, Pieces(S, c), NEW x \in S \ {c},
           \A n \in S \ {c} : ~Before(n, x)
    PROVE  /\ c \in S /\ c \in Blocks /\ x \in Blocks
           /\ \A n \in S : /\ c.first <= n.first
                           /\ n.first = c.first => n = c \/ n.mask < c.mask
           /\ \A n \in S \ {c} : /\ x.first <= n.first
                                 /\ n.first = x.first => n = x \/ n.mask < x.mask
           /\ x.first <= Last(c) =>
                  \/ x.first = c.first /\ x.mask < c.mask /\ LiesIn(c, x)
                  \/ c.first < x.first /\ c.mask < x.mask /\ LiesIn(x, c)
<1>1. c \in S /\ c \in Blocks /\ x \in Blocks
  BY DEF Pieces
<1>2. ASSUME NEW n \in S
      PROVE  /\ c.first <= n.first
             /\ n.first = c.first => n = c \/ n.mask < c.mask
  BY <1>1, BlockFacts DEF Pieces, Before
<1>3. ASSUME NEW n \in S \ {c}
      PROVE  /\ x.first <= n.first
             /\ n.first = x.first => n = x \/ n.mask < x.mask
  <2>1. ~Before(n, x) /\ (Same(n, x) => n = x) /\ n \in Blocks
    BY DEF Pieces, Distinct
  <2> QED
    BY <1>1, <2>1, BlockFacts DEF Before, Same
<1>4. ASSUME x.first <= Last(c)
      PROVE  \/ x.first = c.first /\ x.mask < c.mask /\ LiesIn(c, x)
             \/ c.first < x.first /\ c.mask < x.mask /\ LiesIn(x, c)
  <2>1. c.first <= x.first /\ (x.first = c.first => x.mask < c.mask)
    BY <1>2
  <2>2. CASE x.first = c.first
    BY <1>1, <1>4, <2>1, <2>2, BlockFacts, Nesting
  <2>3. CASE x.first # c.first
    <3>1. x.mask <= c.mask => LiesIn(c, x)
      BY <1>1, <1>4, <2>1, BlockFacts, Nesting
    <3>2. c.mask < x.mask
      BY <1>1, <2>1, <2>3, <3>1, BlockFacts DEF LiesIn
    <3>3. LiesIn(x, c)
      BY <1>1, <1>4, <2>1, <3>2, BlockFacts, Nesting
    <3> QED
      BY <1>1, <2>1, <2>3, <3>2, <3>3, BlockFacts
  <2> QED
    BY <2>2, <2>3
<1> QED
  BY <1>1, <1>2, <1>3, <1>4

\* IgnoreNext: what is left of the pieces are pieces.
LEMMA PiecesLess ==
    ASSUME NEW S, NEW c, Pieces(S, c), NEW x, x # c
    PROVE  Pieces(S \ {x}, c)
BY DEF Pieces, Distinct

\* Keep: nothing is being cut around a piece that is apart from the others.
LEMMA PiecesKept ==
    ASSUME NEW S \in SUBSET Blocks, NEW c, Pieces(S, c), NEW x \in S \ {c},
           \A n \in S \ {c} : ~Before(n, x), Last(c) < x.first
    PROVE  Pieces(S \ {c}, x)
<1>1. \A n \in S \ {c} : c.first < n.first
  BY FirstTwo, BlockFacts
<1>2. \A n \in S \ {c} : n = x \/ Before(x, n)
  BY FirstTwo, BlockFacts DEF Before
<1>3. \A p, n, m \in S \ {c} : ~Doubles(p, n, m)
  BY <1>1, BlockFacts, FirstTwo DEF Pieces, CutAround
<1> QED
  BY <1>2, <1>3 DEF Pieces, Distinct

\* ForgetCurrent: what was being cut around the current piece is being cut around
\* the next, which it lies in.
LEMMA PiecesForgotten ==
    ASSUME NEW S \in SUBSET Blocks, NEW c, Pieces(S, c), NEW x \in S \ {c},
           \A n \in S \ {c} : ~Before(n, x),
           x.first = c.first, x.included = c.included
    PROVE  Pieces(S \ {c}, x)
<1>1. x.mask < c.mask /\ LiesIn(c, x) /\ c \in Blocks /\ x \in Blocks
  BY FirstTwo, BlockFacts
<1>2. \A n \in S \ {c} : n = x \/ Before(x, n)
  BY FirstTwo, BlockFacts DEF Before
<1>3. ASSUME NEW p \in S \ {c}, NEW n \in S \ {c}, NEW m \in S \ {c}, Doubles(p, n, m)
      PROVE  CutAround(x, n, m)
  <2>1. CutAround(c, n, m)
    BY <1>3 DEF Pieces
  <2>2. Within(n, c) => Within(n, x)
    BY <1>1, BlockFacts DEF Within, Covers, LiesIn
  <2> QED
    BY <2>1, <2>2 DEF CutAround
<1> QED
  BY <1>2, <1>3 DEF Pieces, Distinct

\* SplitNext: the halves H of the next piece that no other piece is.
LEMMA PiecesOfNext ==
    ASSUME NEW S \in SUBSET Blocks, NEW c, Pieces(S, c), NEW x \in S \ {c},
           \A n \in S \ {c} : ~Before(n, x),
           x.first = c.first, x.included # c.included,
           NEW H \in SUBSET {LowerHalf(x), UpperHalf(x)},
           \A h \in H : \A n \in S \ {x} : ~Same(n, h)
    PROVE  (S \ {x}) \cup H \in SUBSET Blocks /\ Pieces((S \ {x}) \cup H, c)
<1> DEFINE L == LowerHalf(x)
           U == UpperHalf(x)
           T == (S \ {x}) \cup H
<1>1. /\ x.mask < c.mask /\ LiesIn(c, x) /\ c \in Blocks /\ x \in Blocks /\ c \in S
      /\ \A n \in S : c.first <= n.first /\ (n.first = c.first => n = c \/ n.mask < c.mask)
      /\ \A n \in S \ {c} : n.first = x.first => n = x \/ n.mask < x.mask
  BY FirstTwo, BlockFacts
<1>2. /\ L \in Blocks /\ U \in Blocks /\ IsUpperHalf(U)
      /\ L.mask = x.mask + 1 /\ L.included = x.included /\ L.first = x.first
      /\ U.mask = x.mask + 1 /\ U.included = x.included
      /\ Last(L) + 1 = U.first /\ Last(U) = Last(x) /\ U.first - Size(U.mask) = x.first
      /\ c.first < U.first
  <2>1. x.mask < Bits
    BY <1>1, BlockFacts
  <2>2. /\ L \in Blocks /\ U \in Blocks /\ IsUpperHalf(U)
        /\ L.mask = x.mask + 1 /\ L.included = x.included /\ L.first = x.first
        /\ U.mask = x.mask + 1 /\ U.included = x.included
        /\ Last(L) + 1 = U.first /\ Last(U) = Last(x)
    BY <1>1, <2>1, HalvesFacts
  <2>3. Size(U.mask) = Size(L.mask)
    BY <2>2
  <2> HIDE DEF L, U
  <2> QED
    BY <1>1, <2>2, <2>3, BlockFacts
<1> HIDE DEF L, U
<1>3. H \subseteq {L, U} /\ \A n \in T : n \in S \/ n = L \/ n = U
  BY DEF L, U
<1>4. T \in SUBSET Blocks /\ c \in T /\ Distinct(T)
  <2>1. T \in SUBSET Blocks /\ c \in T
    BY <1>1, <1>2, <1>3
  <2>2. ~Same(L, U) /\ ~Same(U, L)
    BY <1>1, <1>2, BlockFacts DEF Same
  <2>3. \A m, n : Same(m, n) <=> Same(n, m)
    BY DEF Same
  <2>4. ASSUME NEW m \in T, NEW n \in T, Same(m, n) PROVE m = n
    <3>1. CASE m \in S \ {x} /\ n \in S \ {x}
      BY <2>4, <3>1 DEF Pieces, Distinct
    <3>2. CASE m \in H \/ n \in H
      BY <1>3, <2>2, <2>3, <2>4, <3>2
    <3> QED
      BY <3>1, <3>2
  <2> QED
    BY <2>1, <2>4 DEF Distinct
<1>5. \A n \in T : Aligned(n) /\ (n = c \/ Before(c, n))
  <2>1. Aligned(L) /\ Aligned(U)
    BY <1>2 DEF Blocks
  <2>2. Before(c, U)
    BY <1>2, BlockFacts DEF Before
  <2>3. L \in H => Before(c, L)
    <3>1. L \in H => ~Same(c, L)
      BY <1>1
    <3> QED
      BY <1>1, <1>2, <3>1, BlockFacts DEF Before, Same
  <2> QED
    BY <1>3, <2>1, <2>2, <2>3 DEF Pieces
\* What begins with c and is around x is of x's type.
<1>6. ASSUME NEW m \in S, m.first = c.first, m.mask < x.mask
      PROVE  m.included = x.included
  <2>1. ~Eclipses(c, x, m) /\ m \in Blocks
    BY <1>1 DEF Pieces
  <2> QED
    BY <1>1, <1>6, <2>1, BlockFacts DEF Eclipses, Within, Covers, LiesIn
<1>7. ASSUME NEW m \in S \ {x}, m.mask <= x.mask, m.first <= Last(x), x.first <= Last(m)
      PROVE  m.first = c.first /\ m.included = x.included
  <2>1. m \in Blocks /\ (Same(m, x) => m = x)
    BY DEF Pieces, Distinct
  <2>2. LiesIn(x, m) /\ m.first = c.first
    BY <1>1, <1>7, <2>1, BlockFacts, Nesting DEF LiesIn
  <2>3. m.mask < x.mask
    BY <1>1, <1>7, <2>1, <2>2, BlockFacts DEF Same
  <2> QED
    BY <1>6, <2>2, <2>3
<1>8. ASSUME NEW p \in T, NEW n \in T, NEW m \in T, Eclipses(p, n, m) PROVE FALSE
  <2>1. /\ p \in Blocks /\ n \in Blocks /\ m \in Blocks
        /\ n.mask < p.mask /\ m.mask < n.mask /\ p.first = n.first
        /\ m.first <= n.first /\ n.first <= Last(m) /\ LiesIn(p, n) /\ LiesIn(n, m)
        /\ p.included = m.included /\ p.included # n.included
    <3>1. p \in Blocks /\ n \in Blocks /\ m \in Blocks
      BY <1>4
    <3>2. /\ n.mask < p.mask /\ m.mask < n.mask /\ p.first = n.first
          /\ m.first <= n.first /\ n.first <= Last(m)
          /\ p.included = m.included /\ p.included # n.included
      BY <1>8 DEF Eclipses, Within, Covers
    <3> QED
      BY <3>1, <3>2, BlockFacts, Nesting
  <2>2. CASE p \in S \ {x} /\ n \in S \ {x} /\ m \in S \ {x}
    BY <1>8, <2>2 DEF Pieces
  <2>3. CASE m \in {L, U}
    <3>1. p \in S /\ n \in S /\ n.mask > x.mask /\ x.included = m.included
      BY <1>1, <1>2, <1>3, <2>1, <2>3, BlockFacts
    <3>2. x.first <= n.first /\ n.first <= Last(x)
      BY <1>1, <1>2, <2>1, <2>3, BlockFacts
    <3>3. Eclipses(p, n, x)
      BY <2>1, <3>1, <3>2, BlockFacts DEF Eclipses, Within, Covers
    <3> QED
      BY <3>1, <3>3 DEF Pieces
  <2>4. CASE n \in {L, U} /\ m \in S \ {x}
    <3>1. m.mask <= x.mask /\ m.first <= Last(x) /\ x.first <= Last(m)
      BY <1>1, <1>2, <2>1, <2>4, BlockFacts
    <3>2. m.included = x.included /\ n.included = x.included
      BY <1>2, <1>7, <2>4, <3>1
    <3> QED
      BY <2>1, <3>2
  <2>5. CASE p \in {L, U} /\ n \in S \ {x}
    <3>1. n.mask <= x.mask /\ n.first <= Last(x) /\ x.first <= Last(n)
      BY <1>1, <1>2, <2>1, <2>5, BlockFacts
    <3>2. n.included = x.included /\ p.included = x.included
      BY <1>2, <1>7, <2>5, <3>1
    <3> QED
      BY <2>1, <3>2
  <2> QED
    BY <1>3, <2>2, <2>3, <2>4, <2>5
<1>9. ASSUME NEW p \in T, NEW n \in T, NEW m \in T, Doubles(p, n, m), ~CutAround(c, n, m)
      PROVE  FALSE
  <2> DEFINE z == n.first - Size(n.mask)
  <2>1. /\ p \in Blocks /\ n \in Blocks /\ m \in Blocks /\ IsUpperHalf(n)
        /\ n.mask < p.mask /\ m.mask < n.mask /\ m.first <= n.first /\ n.first <= Last(m)
        /\ z <= p.first /\ p.first <= n.first /\ p.included # m.included
    BY <1>4, <1>9 DEF Doubles, Within, Covers
  <2>2. z \in Int /\ z < n.first /\ m.first <= z /\ Last(n) <= Last(m)
    BY <2>1, BlockFacts, BesideFacts
  <2> HIDE DEF z
  <2>3. CASE p \in S \ {x} /\ n \in S \ {x} /\ m \in S \ {x}
    BY <1>9, <2>3 DEF Pieces
  <2>4. CASE m \in {L, U}
    <3>1. p \in S /\ n \in S /\ n.mask > x.mask /\ x.included = m.included
      BY <1>1, <1>2, <1>3, <2>1, <2>4, BlockFacts
    <3>2. x.first <= n.first /\ n.first <= Last(x)
      BY <1>1, <1>2, <2>1, <2>4, BlockFacts
    <3>3. Doubles(p, n, x)
      BY <2>1, <3>1, <3>2, BlockFacts DEF Doubles, Within, Covers, z
    <3>4. CutAround(c, n, x)
      BY <3>1, <3>3 DEF Pieces
    <3>5. CASE m = L
      BY <1>1, <1>2, <1>9, <3>4, <3>5 DEF CutAround
    <3>6. CASE m = U
      <4>1. Within(n, c)
        BY <1>1, <1>2, <2>1, <2>2, <3>4, <3>6, BlockFacts DEF CutAround, z
      <4>2. LiesIn(c, L)
        BY <1>1, <1>2, BlockFacts, Nesting
      <4> QED
        BY <1>1, <1>2, <2>1, <2>2, <3>6, <4>1, <4>2, BlockFacts DEF Within, Covers, LiesIn
    <3> QED
      BY <2>4, <3>5, <3>6
  <2>5. CASE n = L /\ m \in S
    BY <1>1, <1>2, <2>1, <2>2, <2>5, BlockFacts
  <2>6. CASE n = U /\ m \in S \ {x}
    <3>1. m.mask <= x.mask /\ m.first <= Last(x) /\ x.first <= Last(m)
      BY <1>1, <1>2, <2>1, <2>6, BlockFacts
    <3>2. m.first = c.first /\ m.included = x.included
      BY <1>7, <2>6, <3>1
    <3> QED
      BY <1>1, <1>2, <1>9, <2>6, <3>2 DEF CutAround
  <2>7. CASE p \in {L, U} /\ n \in S \ {x} /\ m \in S \ {x}
    <3>1. n.mask <= x.mask
      BY <1>1, <1>2, <2>1, <2>7, BlockFacts
    <3>2. z <= x.first
      <4>1. CASE p = L
        BY <1>2, <2>1, <4>1
      <4>2. CASE p = U
        <5>1. x.first < n.first /\ x.first <= Last(n) /\ n.mask > 0
          BY <1>1, <1>2, <2>1, <4>2, BlockFacts
        <5>2. z <= Last(x)
          BY <1>1, <1>2, <2>1, <2>2, <4>2, BlockFacts
        <5> QED
          BY <1>1, <2>1, <3>1, <5>1, <5>2, BesideFacts DEF z
      <4> QED
        BY <2>7, <4>1, <4>2
    <3>3. m.first = c.first /\ m.mask < x.mask
      BY <1>1, <2>1, <2>2, <2>7, <3>1, <3>2, BlockFacts
    <3>4. m.included = x.included /\ p.included = x.included
      BY <1>2, <1>6, <2>7, <3>3
    <3> QED
      BY <2>1, <3>4
  <2> QED
    BY <1>3, <2>3, <2>4, <2>5, <2>6, <2>7
<1>10. T \in SUBSET Blocks /\ Pieces(T, c)
  BY <1>4, <1>5, <1>8, <1>9 DEF Pieces
<1> QED
  BY <1>10

\* SplitCurrent: what is split is around nothing but what lies in it, so the lower
\* half is new, and the upper one is too unless it is the next piece: any other piece
\* that it were would have been doubled.
LEMMA HalvesAreNew ==
    ASSUME NEW S \in SUBSET Blocks, NEW c, Pieces(S, c), NEW x \in S \ {c},
           \A n \in S \ {c} : ~Before(n, x), x.first <= Last(c),
           c.first < x.first, x.included # c.included
    PROVE  /\ c.mask < Bits
           /\ \A n \in S \ {c} : c.first < n.first
           /\ \A n \in S \ {c} : n.mask <= c.mask => Last(c) < n.first
           /\ \A n \in S \ {c} : ~Same(n, LowerHalf(c))
           /\ UpperHalf(c).mask = x.mask => Same(UpperHalf(c), x)
           /\ UpperHalf(c).mask # x.mask => \A n \in S \ {c} : ~Same(n, UpperHalf(c))
<1> DEFINE L == LowerHalf(c)
           U == UpperHalf(c)
<1>1. /\ c.mask < x.mask /\ LiesIn(x, c) /\ c \in Blocks /\ x \in Blocks /\ c.mask < Bits
      /\ \A n \in S \ {c} : x.first <= n.first /\ c.first < n.first
  <2>1. c \in Blocks /\ x \in Blocks /\ \A n \in S \ {c} : x.first <= n.first
    BY FirstTwo
  <2>2. c.mask < x.mask /\ LiesIn(x, c)
    BY <2>1, FirstTwo, BlockFacts
  <2> QED
    BY <2>1, <2>2, BlockFacts
<1>2. /\ L \in Blocks /\ U \in Blocks /\ IsUpperHalf(U)
      /\ L.mask = c.mask + 1 /\ L.included = c.included /\ L.first = c.first
      /\ U.mask = c.mask + 1 /\ U.included = c.included
      /\ Last(L) + 1 = U.first /\ Last(U) = Last(c)
  BY <1>1, HalvesFacts
<1>3. U.first - Size(U.mask) = c.first
  <2>1. Size(U.mask) = Size(L.mask)
    BY <1>2
  <2> HIDE DEF L, U
  <2> QED
    BY <1>2, <2>1, BlockFacts
<1> HIDE DEF L, U
<1>4. ASSUME NEW n \in S \ {c}, n.mask <= c.mask PROVE Last(c) < n.first
  <2>1. n \in Blocks /\ c.first < n.first
    BY <1>1
  <2>2. n.first <= Last(c) => LiesIn(c, n)
    BY <1>1, <1>4, <2>1, BlockFacts, Nesting
  <2> QED
    BY <1>1, <2>1, <2>2, BlockFacts DEF LiesIn
<1>5. \A n \in S \ {c} : ~Same(n, L)
  BY <1>1, <1>2, BlockFacts DEF Same
<1>6. ASSUME U.mask = x.mask PROVE Same(U, x)
  <2>1. x.first <= Last(L) => LiesIn(L, x)
    BY <1>1, <1>2, <1>6, BlockFacts, Nesting
  <2>2. Last(L) < x.first
    BY <1>1, <1>2, <2>1, BlockFacts DEF LiesIn
  <2>3. LiesIn(x, U) /\ LiesIn(U, x)
    BY <1>1, <1>2, <1>6, <2>2, BlockFacts, Nesting DEF LiesIn
  <2> QED
    BY <1>1, <1>2, <1>6, <2>3, BlockFacts DEF LiesIn, Same
<1>7. ASSUME U.mask # x.mask, NEW n \in S \ {c}, Same(n, U) PROVE FALSE
  <2>1. n \in Blocks /\ n.first = U.first /\ n.mask = U.mask /\ x.first <= n.first
    BY <1>1, <1>7 DEF Same
  <2>2. Within(n, c) /\ IsUpperHalf(n) /\ n.first - Size(n.mask) = c.first
    BY <1>1, <1>2, <1>3, <2>1, BlockFacts DEF Within, Covers, IsUpperHalf
  <2>3. x.mask > n.mask
    BY <1>1, <1>2, <1>7, <2>1, BlockFacts
  <2>4. Doubles(x, n, c)
    BY <1>1, <2>1, <2>2, <2>3, BlockFacts DEF Doubles
  <2>5. CutAround(c, n, c)
    BY <2>4 DEF Pieces
  <2> QED
    BY <2>5 DEF CutAround
<1> QED
  BY <1>1, <1>4, <1>5, <1>6, <1>7 DEF L, U

LEMMA PiecesOfCurrent ==
    ASSUME NEW S \in SUBSET Blocks, NEW c, Pieces(S, c), NEW x \in S \ {c},
           \A n \in S \ {c} : ~Before(n, x), x.first <= Last(c),
           c.first < x.first, x.included # c.included,
           NEW H, H = {n \in {UpperHalf(c)} : n.mask # x.mask}
    PROVE  /\ (S \ {c}) \cup {LowerHalf(c)} \cup H \in SUBSET Blocks
           /\ Pieces((S \ {c}) \cup {LowerHalf(c)} \cup H, LowerHalf(c))
<1> DEFINE L == LowerHalf(c)
           U == UpperHalf(c)
           T == (S \ {c}) \cup {L} \cup H
<1>1. /\ c \in S /\ c \in Blocks /\ c.mask < Bits
      /\ \A n \in S \ {c} : c.first < n.first
      /\ \A n \in S \ {c} : n.mask <= c.mask => Last(c) < n.first
      /\ \A n \in S \ {c} : ~Same(n, L)
      /\ U \in H => \A n \in S \ {c} : ~Same(n, U)
  BY HalvesAreNew, FirstTwo
<1>2. /\ L \in Blocks /\ U \in Blocks
      /\ L.mask = c.mask + 1 /\ L.included = c.included /\ L.first = c.first
      /\ U.mask = c.mask + 1 /\ U.included = c.included
      /\ Last(L) + 1 = U.first /\ Last(U) = Last(c)
  BY <1>1, HalvesFacts
<1>3. H \subseteq {U}
  OBVIOUS
<1> HIDE DEF L, U
<1>4. T \in SUBSET Blocks /\ L \in T /\ Distinct(T)
  <2>1. T \in SUBSET Blocks /\ L \in T
    BY <1>2, <1>3
  <2>2. ~Same(L, U) /\ ~Same(U, L)
    BY <1>2, BlockFacts DEF Same
  <2>3. \A m, n : Same(m, n) <=> Same(n, m)
    BY DEF Same
  <2>4. ASSUME NEW m \in T, NEW n \in T, Same(m, n) PROVE m = n
    <3>1. CASE m \in S \ {c} /\ n \in S \ {c}
      BY <2>4, <3>1 DEF Pieces, Distinct
    <3>2. CASE m \in {L} \cup H \/ n \in {L} \cup H
      BY <1>1, <1>3, <2>2, <2>3, <2>4, <3>2
    <3> QED
      BY <3>1, <3>2
  <2> QED
    BY <2>1, <2>4 DEF Distinct
<1>5. \A n \in T : Aligned(n) /\ (n = L \/ Before(L, n))
  <2>1. Aligned(L) /\ Aligned(U) /\ Before(L, U)
    BY <1>2, BlockFacts DEF Blocks, Before
  <2>2. \A n \in S \ {c} : Aligned(n) /\ Before(L, n)
    BY <1>1, <1>2 DEF Pieces, Before
  <2> QED
    BY <1>3, <2>1, <2>2
<1>6. ASSUME NEW p \in T, NEW n \in T, NEW m \in T, Eclipses(p, n, m) PROVE FALSE
  <2>1. /\ p \in Blocks /\ n \in Blocks /\ m \in Blocks
        /\ n.mask < p.mask /\ m.mask < n.mask /\ p.first = n.first
        /\ m.first <= n.first /\ n.first <= Last(m)
        /\ p.included = m.included /\ p.included # n.included
    BY <1>4, <1>6 DEF Eclipses, Within, Covers
  <2>2. CASE p \in S \ {c} /\ n \in S \ {c} /\ m \in S \ {c}
    BY <1>6, <2>2 DEF Pieces
  <2>3. CASE m \in {L, U}
    <3>1. p \in S /\ n \in S /\ n.mask > c.mask /\ c.included = m.included
      BY <1>1, <1>2, <1>3, <2>1, <2>3, BlockFacts
    <3>2. c.first <= n.first /\ n.first <= Last(c)
      BY <1>1, <1>2, <2>1, <2>3, BlockFacts
    <3>3. Eclipses(p, n, c)
      BY <2>1, <3>1, <3>2, BlockFacts, <1>1 DEF Eclipses, Within, Covers
    <3> QED
      BY <1>1, <3>1, <3>3 DEF Pieces
  <2>4. CASE n \in {L, U} /\ m \in S \ {c}
    <3>1. m.mask <= c.mask /\ m.first <= Last(c)
      BY <1>1, <1>2, <2>1, <2>4, BlockFacts
    <3> QED
      BY <1>1, <2>1, <2>4, <3>1, BlockFacts
  <2>5. CASE p \in {L, U} /\ n \in S \ {c}
    <3>1. n.mask <= c.mask /\ n.first <= Last(c)
      BY <1>1, <1>2, <2>1, <2>5, BlockFacts
    <3> QED
      BY <1>1, <2>1, <2>5, <3>1, BlockFacts
  <2> QED
    BY <1>3, <2>2, <2>3, <2>4, <2>5
<1>7. ASSUME NEW p \in T, NEW n \in T, NEW m \in T, Doubles(p, n, m) PROVE FALSE
  <2> DEFINE z == n.first - Size(n.mask)
  <2>1. /\ p \in Blocks /\ n \in Blocks /\ m \in Blocks /\ IsUpperHalf(n)
        /\ n.mask < p.mask /\ m.mask < n.mask /\ m.first <= n.first /\ n.first <= Last(m)
        /\ z <= p.first /\ p.first <= n.first /\ p.included # m.included
    BY <1>4, <1>7 DEF Doubles, Within, Covers
  <2>2. z \in Int /\ z < n.first /\ m.first <= z
    BY <2>1, BlockFacts, BesideFacts
  <2>3. CASE p \in S \ {c} /\ n \in S \ {c} /\ m \in S \ {c}
    <3>1. CutAround(c, n, m) /\ c.first < m.first
      BY <1>1, <1>7, <2>3 DEF Pieces
    <3> QED
      BY <1>1, <2>1, <3>1, BlockFacts DEF CutAround
  <2>4. CASE m \in {L, U}
    <3>1. p \in S /\ n \in S /\ n.mask > c.mask /\ c.included = m.included
      BY <1>1, <1>2, <1>3, <2>1, <2>4, BlockFacts
    <3>2. c.first <= n.first /\ n.first <= Last(c)
      BY <1>1, <1>2, <2>1, <2>4, BlockFacts
    <3>3. Doubles(p, n, c)
      BY <1>1, <2>1, <3>1, <3>2, BlockFacts DEF Doubles, Within, Covers
    <3>4. CutAround(c, n, c)
      BY <1>1, <3>1, <3>3 DEF Pieces
    <3> QED
      BY <3>4 DEF CutAround
  <2> HIDE DEF z
  <2>5. CASE n = L /\ m \in S \ {c}
    BY <1>1, <1>2, <2>1, <2>2, <2>5, BlockFacts
  <2>6. CASE n = U /\ m \in S \ {c}
    <3>1. m.mask <= c.mask /\ m.first <= Last(c)
      BY <1>1, <1>2, <2>1, <2>6, BlockFacts
    <3> QED
      BY <1>1, <2>1, <2>6, <3>1, BlockFacts
  <2>7. CASE p \in {L, U} /\ n \in S \ {c} /\ m \in S \ {c}
    <3>1. p.first <= Last(c) /\ m.mask <= c.mask
      BY <1>1, <1>2, <2>1, <2>7, BlockFacts
    <3>2. m.first <= Last(c)
      BY <1>1, <2>1, <2>2, <3>1, BlockFacts
    <3> QED
      BY <1>1, <2>1, <2>7, <3>1, <3>2, BlockFacts
  <2> QED
    BY <1>3, <2>3, <2>4, <2>5, <2>6, <2>7
<1>8. T \in SUBSET Blocks /\ Pieces(T, L)
  BY <1>4, <1>5, <1>6, <1>7 DEF Pieces
<1> QED
  BY <1>8 DEF L

-----------------------------------------------------------------------------
(* A turn leaves the address a where it is routed.                         *)

\* Two blocks of one size that have an address in common are the same one.
LEMMA OneOfASize ==
    ASSUME NEW S \in SUBSET Blocks, Distinct(S), NEW m \in S, NEW n \in S,
           m.mask = n.mask, NEW a \in Nat, Covers(m, a), Covers(n, a)
    PROVE  m = n
<1>1. LiesIn(m, n) /\ LiesIn(n, m)
  BY BlockFacts, Nesting DEF Covers
<1>2. Same(m, n)
  BY <1>1, BlockFacts DEF LiesIn, Same
<1> QED
  BY <1>2 DEF Distinct

\* What is around an address that a smaller block has is around all of that.
LEMMA Around ==
    ASSUME NEW m \in Blocks, NEW n \in Blocks, m.mask <= n.mask,
           NEW a \in Nat, Covers(m, a), Covers(n, a)
    PROVE  LiesIn(n, m)
BY BlockFacts, Nesting DEF Covers

\* ForgetCurrent: the next piece is around the current one and says the same.
LEMMA RoutedForgotten ==
    ASSUME NEW S \in SUBSET Blocks, NEW c, Pieces(S, c), NEW x \in S \ {c},
           \A n \in S \ {c} : ~Before(n, x),
           x.first = c.first, x.included = c.included, NEW a \in Nat
    PROVE  RoutedBy(S, a) <=> RoutedBy(S \ {c}, a)
<1>1. /\ x.mask < c.mask /\ LiesIn(c, x) /\ c \in Blocks /\ x \in Blocks /\ c \in S
      /\ \A n \in S : c.first <= n.first /\ (n.first = c.first => n = c \/ n.mask < c.mask)
      /\ \A n \in S \ {c} : n.first = x.first => n = x \/ n.mask < x.mask
  BY FirstTwo, BlockFacts
<1>2. Covers(c, a) => Covers(x, a)
  BY <1>1, BlockFacts DEF Covers, LiesIn
\* What is around a part of the current piece begins where it does.
<1>3. ASSUME NEW n \in S \ {c}, Covers(n, a), Covers(c, a), n.mask <= c.mask
      PROVE  n = x \/ n.mask < x.mask
  <2>1. n.first = c.first
    BY <1>1, <1>3, BlockFacts, Around DEF LiesIn
  <2> QED
    BY <1>1, <1>3, <2>1
<1>4. ASSUME RoutedBy(S, a) PROVE RoutedBy(S \ {c}, a)
  <2>1. PICK n \in S : /\ n.included /\ Covers(n, a)
                       /\ \A m \in S : Covers(m, a) /\ ~m.included => m.mask < n.mask
    BY <1>4 DEF RoutedBy
  <2>2. CASE n # c
    BY <2>1, <2>2 DEF RoutedBy
  <2>3. CASE n = c
    <3>1. ASSUME NEW m \in S \ {c}, Covers(m, a), ~m.included PROVE m.mask < x.mask
      BY <1>1, <1>3, <2>1, <2>3, <3>1, BlockFacts
    <3> QED
      BY <1>2, <2>1, <2>3, <3>1 DEF RoutedBy
  <2> QED
    BY <2>2, <2>3
<1>5. ASSUME RoutedBy(S \ {c}, a) PROVE RoutedBy(S, a)
  <2>1. PICK n \in S \ {c} :
            /\ n.included /\ Covers(n, a)
            /\ \A m \in S \ {c} : Covers(m, a) /\ ~m.included => m.mask < n.mask
    BY <1>5 DEF RoutedBy
  <2>2. ASSUME Covers(c, a), ~c.included PROVE c.mask < n.mask
    <3>1. x.mask < n.mask
      BY <1>2, <2>1, <2>2
    <3> QED
      BY <1>1, <1>3, <2>1, <2>2, <3>1, BlockFacts
  <2> QED
    BY <2>1, <2>2 DEF RoutedBy
<1> QED
  BY <1>4, <1>5

\* IgnoreNext: the current piece is around the next one and says the same, and all
\* that lies between the two does too.
LEMMA RoutedIgnored ==
    ASSUME NEW S \in SUBSET Blocks, NEW c, Pieces(S, c), NEW x \in S \ {c},
           \A n \in S \ {c} : ~Before(n, x), x.first <= Last(c),
           c.first < x.first, x.included = c.included, NEW a \in Nat
    PROVE  RoutedBy(S, a) <=> RoutedBy(S \ {x}, a)
<1>1. /\ c.mask < x.mask /\ LiesIn(x, c) /\ c \in Blocks /\ x \in Blocks /\ c \in S
      /\ \A n \in S \ {c} : x.first <= n.first
  <2>1. c \in S /\ c \in Blocks /\ x \in Blocks /\ \A n \in S \ {c} : x.first <= n.first
    BY FirstTwo
  <2> QED
    BY <2>1, FirstTwo, BlockFacts
<1>2. Covers(x, a) => Covers(c, a)
  BY <1>1, BlockFacts DEF Covers, LiesIn
<1>3. ASSUME NEW n \in S \ {x}, Covers(n, a), Covers(x, a), n.included # c.included,
             c.mask < n.mask, n.mask <= x.mask
      PROVE  FALSE
  <2>1. n \in Blocks /\ n # c /\ n.mask < x.mask
    BY <1>1, <1>3, OneOfASize, BlockFacts DEF Pieces
  <2>2. LiesIn(x, n) /\ LiesIn(n, c)
    BY <1>1, <1>2, <1>3, <2>1, BlockFacts, Around
  <2>3. x.first = n.first
    BY <1>1, <2>1, <2>2, BlockFacts DEF LiesIn
  <2>4. Eclipses(x, n, c)
    BY <1>1, <1>3, <2>1, <2>2, <2>3, BlockFacts DEF Eclipses, Within, Covers, LiesIn
  <2> QED
    BY <1>1, <2>4 DEF Pieces
<1>4. ASSUME RoutedBy(S, a) PROVE RoutedBy(S \ {x}, a)
  <2>1. PICK n \in S : /\ n.included /\ Covers(n, a)
                       /\ \A m \in S : Covers(m, a) /\ ~m.included => m.mask < n.mask
    BY <1>4 DEF RoutedBy
  <2>2. CASE n # x
    BY <2>1, <2>2 DEF RoutedBy
  <2>3. CASE n = x
    <3>1. ASSUME NEW m \in S \ {x}, Covers(m, a), ~m.included PROVE m.mask < c.mask
      <4>1. m \in Blocks /\ m.mask < x.mask /\ m.included # c.included /\ m # c
        BY <2>1, <2>3, <3>1
      <4>2. ~(c.mask < m.mask)
        BY <1>1, <1>3, <2>1, <2>3, <3>1, <4>1, BlockFacts
      <4>3. m.mask # c.mask
        BY <1>1, <1>2, <2>1, <2>3, <3>1, <4>1, OneOfASize DEF Pieces
      <4> QED
        BY <1>1, <4>1, <4>2, <4>3, BlockFacts
    <3> QED
      BY <1>1, <1>2, <2>1, <2>3, <3>1 DEF RoutedBy
  <2> QED
    BY <2>2, <2>3
<1>5. ASSUME RoutedBy(S \ {x}, a) PROVE RoutedBy(S, a)
  <2>1. PICK n \in S \ {x} :
            /\ n.included /\ Covers(n, a)
            /\ \A m \in S \ {x} : Covers(m, a) /\ ~m.included => m.mask < n.mask
    BY <1>5 DEF RoutedBy
  <2>2. ASSUME Covers(x, a), ~x.included PROVE x.mask < n.mask
    <3>1. c.mask < n.mask /\ n.included # c.included
      BY <1>1, <1>2, <2>1, <2>2
    <3> QED
      BY <1>1, <1>3, <2>1, <2>2, <3>1, BlockFacts
  <2> QED
    BY <2>1, <2>2 DEF RoutedBy
<1> QED
  BY <1>4, <1>5

\* SplitNext and SplitCurrent: the place of the piece r is taken by its halves, or by
\* what there is already in the place of one.
LEMMA RoutedInHalves ==
    ASSUME NEW S \in SUBSET Blocks, Distinct(S), NEW r \in S, r.mask < Bits,
           NEW G \in SUBSET {LowerHalf(r), UpperHalf(r)}, NEW T \in SUBSET Blocks,
           T = (S \ {r}) \cup G, Distinct(T),
           \A h \in {LowerHalf(r), UpperHalf(r)} : \E g \in T : Same(g, h),
           NEW a \in Nat
    PROVE  RoutedBy(S, a) <=> RoutedBy(T, a)
<1> DEFINE L == LowerHalf(r)
           U == UpperHalf(r)
<1>1. /\ L \in Blocks /\ U \in Blocks /\ r \in Blocks
      /\ L.mask = r.mask + 1 /\ L.included = r.included /\ L.first = r.first
      /\ U.mask = r.mask + 1 /\ U.included = r.included
      /\ Last(L) + 1 = U.first /\ Last(U) = Last(r)
  BY HalvesFacts
<1>2. \A n \in T : n \in S \ {r} \/ n \in {L, U}
  OBVIOUS
<1>3. \A h \in {L, U} : \E g \in T : Same(g, h)
  OBVIOUS
<1> HIDE DEF L, U
<1>4. \A n \in S \ {r} : n \in T
  OBVIOUS
<1>5. ASSUME Covers(r, a)
      PROVE  \E g \in T : /\ Covers(g, a) /\ g.mask = r.mask + 1
                          /\ g \in S \ {r} \/ g.included = r.included
  <2>1. PICK h \in {L, U} : Covers(h, a)
    BY <1>1, <1>5, BlockFacts DEF Covers
  <2>2. PICK g \in T : Same(g, h)
    BY <1>3
  <2>3. g.mask = h.mask /\ g.first = h.first /\ Last(g) = Last(h)
    BY <2>2 DEF Same, Last
  <2> QED
    BY <1>1, <1>2, <2>1, <2>3 DEF Covers
<1>6. ASSUME RoutedBy(S, a) PROVE RoutedBy(T, a)
  <2>1. PICK n \in S : /\ n.included /\ Covers(n, a)
                       /\ \A m \in S : Covers(m, a) /\ ~m.included => m.mask < n.mask
    BY <1>6 DEF RoutedBy
  <2>2. CASE n # r
    <3>1. ASSUME NEW m \in T, Covers(m, a), ~m.included PROVE m.mask < n.mask
      <4>1. CASE m \in S
        BY <2>1, <3>1, <4>1
      <4>2. CASE m \in {L, U}
        <5>1. Covers(r, a) /\ ~r.included /\ m.mask = r.mask + 1
          BY <1>1, <3>1, <4>2, BlockFacts DEF Covers
        <5>2. r.mask < n.mask /\ n.mask \in Nat /\ r.mask \in Nat
          BY <2>1, <5>1, BlockFacts
        <5>3. m.mask # n.mask
          BY <2>1, <2>2, <3>1, OneOfASize
        <5> QED
          BY <5>1, <5>2, <5>3
      <4> QED
        BY <1>2, <4>1, <4>2
    <3> QED
      BY <1>4, <2>1, <2>2, <3>1 DEF RoutedBy
  <2>3. CASE n = r
    <3>1. PICK g \in T : /\ Covers(g, a) /\ g.mask = r.mask + 1
                         /\ g \in S \ {r} \/ g.included = r.included
      BY <1>5, <2>1, <2>3
    <3>2. g.included
      <4>1. g \in S => ~(g.mask < r.mask)
        BY <1>1, <3>1, BlockFacts
      <4> QED
        BY <2>1, <2>3, <3>1, <4>1
    <3>3. ASSUME NEW m \in T, Covers(m, a), ~m.included PROVE m.mask < g.mask
      <4>1. m \in S /\ m.mask < r.mask
        BY <1>1, <1>2, <2>1, <2>3, <3>3
      <4> QED
        BY <1>1, <3>1, <4>1, BlockFacts
    <3> QED
      BY <3>1, <3>2, <3>3 DEF RoutedBy
  <2> QED
    BY <2>2, <2>3
<1>7. ASSUME RoutedBy(T, a) PROVE RoutedBy(S, a)
  <2>1. PICK n \in T : /\ n.included /\ Covers(n, a)
                       /\ \A m \in T : Covers(m, a) /\ ~m.included => m.mask < n.mask
    BY <1>7 DEF RoutedBy
  <2>2. CASE n \in S \ {r} /\ (Covers(r, a) /\ ~r.included => r.mask < n.mask)
    <3>1. ASSUME NEW m \in S, Covers(m, a), ~m.included PROVE m.mask < n.mask
      BY <1>4, <2>1, <2>2, <3>1
    <3> QED
      BY <2>1, <2>2, <3>1 DEF RoutedBy
  <2>3. CASE n \in S \ {r} /\ Covers(r, a) /\ ~r.included /\ ~(r.mask < n.mask)
    <3>1. PICK g \in T : /\ Covers(g, a) /\ g.mask = r.mask + 1
                         /\ g \in S \ {r} \/ g.included = r.included
      BY <1>5, <2>3
    <3>2. g.included
      BY <1>1, <2>1, <2>3, <3>1, BlockFacts
    <3>3. g \in S
      BY <2>3, <3>1, <3>2
    <3>4. ASSUME NEW m \in S, Covers(m, a), ~m.included PROVE m.mask < g.mask
      <4>1. CASE m = r
        BY <1>1, <3>1, <4>1, BlockFacts
      <4>2. CASE m # r
        <5>1. m.mask < n.mask /\ m.mask \in Nat /\ n.mask \in Nat /\ r.mask \in Nat
          BY <1>4, <2>1, <3>4, <4>2, BlockFacts
        <5> QED
          BY <2>3, <3>1, <5>1
      <4> QED
        BY <4>1, <4>2
    <3> QED
      BY <3>1, <3>2, <3>3, <3>4 DEF RoutedBy
  <2>4. CASE n \in {L, U}
    <3>1. Covers(r, a) /\ r.included /\ n.mask = r.mask + 1
      BY <1>1, <2>1, <2>4, BlockFacts DEF Covers
    <3>2. ASSUME NEW m \in S, Covers(m, a), ~m.included PROVE m.mask < r.mask
      <4>1. m \in T /\ m # r
        BY <1>4, <3>1, <3>2
      <4>2. m.mask < n.mask
        BY <2>1, <3>2, <4>1
      <4>3. m.mask = r.mask => m = r
        BY <3>1, <3>2, OneOfASize
      <4>4. m.mask \in Nat /\ r.mask \in Nat
        BY BlockFacts
      <4> QED
        BY <3>1, <4>1, <4>2, <4>3, <4>4
    <3> QED
      BY <3>1, <3>2 DEF RoutedBy
  <2> QED
    BY <1>2, <2>2, <2>3, <2>4
<1> QED
  BY <1>6, <1>7

\* What is done ends before all that is left begins, so that an address is routed by
\* the one or by the other.
LEMMA RoutedApart ==
    ASSUME NEW S \in SUBSET Blocks, NEW D \in SUBSET Prefixes, NEW f \in Nat,
           \A n \in S : f <= n.first, \A n \in D : Last(n) < f, NEW a \in Nat
    PROVE  RoutedBy(S \cup D, a) <=> IF a < f THEN RoutedBy(D, a) ELSE RoutedBy(S, a)
<1>1. CASE a < f
  <2>1. \A n \in S : ~Covers(n, a)
    BY <1>1, BlockFacts DEF Covers
  <2> QED
    BY <1>1, <2>1 DEF RoutedBy
<1>2. CASE ~(a < f)
  <2>1. \A n \in D : ~Covers(n, a)
    BY <1>2, LastFacts DEF Covers
  <2> QED
    BY <1>2, <2>1 DEF RoutedBy
<1> QED
  BY <1>1, <1>2

-----------------------------------------------------------------------------
(* The loop.                                                               *)

\* A queue that holds each network once is a set.
LEMMA OnceEach ==
    ASSUME NEW S, NEW G, NEW n
    PROVE  /\ SetToBag(S) (-) SetToBag({n}) = SetToBag(S \ {n})
           /\ S \cap G = {} => SetToBag(S) (+) SetToBag(G) = SetToBag(S \cup G)
<1>1. /\ DOMAIN SetToBag(S) = S /\ \A e \in S : SetToBag(S)[e] = 1
      /\ DOMAIN SetToBag(G) = G /\ \A e \in G : SetToBag(G)[e] = 1
      /\ DOMAIN SetToBag({n}) = {n} /\ SetToBag({n})[n] = 1
  BY DEF SetToBag
<1>2. SetToBag(S) (-) SetToBag({n}) = SetToBag(S \ {n})
  BY <1>1 DEF (-), SetToBag
<1>3. ASSUME S \cap G = {} PROVE SetToBag(S) (+) SetToBag(G) = SetToBag(S \cup G)
  BY <1>1, <1>3 DEF (+), SetToBag
<1> QED
  BY <1>2, <1>3

\* What is polled from such a queue is the least of it.
LEMMA PolledFacts ==
    ASSUME NEW S, NoNet \notin S, NEW n \in Polled(SetToBag(S))
    PROVE  \/ n = NoNet /\ S = {} /\ Rest(SetToBag(S), n) = SetToBag(S)
           \/ /\ n \in S /\ n # NoNet /\ \A m \in S : ~Before(m, n)
              /\ Rest(SetToBag(S), n) = SetToBag(S \ {n})
<1>1. BagToSet(SetToBag(S)) = S
  BY BagFacts
<1>2. CASE SetToBag(S) = EmptyBag
  BY <1>1, <1>2, BagFacts DEF Polled, Rest
<1>3. CASE SetToBag(S) # EmptyBag
  <2>1. n \in S /\ \A m \in S : ~Before(m, n)
    BY <1>1, <1>3 DEF Polled, Least
  <2>2. n # NoNet
    BY <2>1
  <2>3. Rest(SetToBag(S), n) = SetToBag(S \ {n})
    BY <2>2, OnceEach DEF Rest
  <2> QED
    BY <2>1, <2>2, <2>3
<1> QED
  BY <1>2, <1>3

\* What is left, and the queue, while the loop is on course.
LEMMA LeftFacts ==
    ASSUME InOrder, OnCourse, currentNet # NoNet
    PROVE  /\ Left \in SUBSET Blocks /\ NoNet \notin Left
           /\ Pieces(Left, currentNet) /\ currentNet \in Left
           /\ networks = SetToBag(Left \ {currentNet})
           /\ currentNet.first \in Nat /\ \A n \in Left : currentNet.first <= n.first
           /\ ipsDone \in SUBSET Prefixes /\ \A n \in ipsDone : Last(n) < currentNet.first
<1>1. /\ Pieces(Left, currentNet) /\ currentNet \in Left
      /\ networks = SetToBag(Left \ {currentNet})
  BY DEF OnCourse, Pieces
<1>2. Left \in SUBSET Prefixes
  BY DEF InOrder, TypeOK, Left
<1>3. Left \in SUBSET Blocks /\ NoNet \notin Left
  BY <1>1, <1>2, BitsAssumption DEF Pieces, Blocks
<1>4. currentNet.first \in Nat
  BY <1>1, <1>3, BlockFacts
<1>5. \A n \in Left : currentNet.first <= n.first
  BY <1>1, <1>3, BlockFacts DEF Pieces, Before
<1>6. ipsDone \in SUBSET Prefixes /\ \A n \in ipsDone : Last(n) < currentNet.first
  BY DEF InOrder, TypeOK, Ascending
<1> QED
  BY <1>1, <1>3, <1>4, <1>5, <1>6

LEMMA AddressFacts == Addresses \subseteq Nat
<1>1. Bits \in Nat /\ 2 ^ Bits \in Nat
  BY BitsAssumption, PowersArePositive
<1> QED
  BY <1>1 DEF Addresses

\* A network is a block whose addresses there are.
LEMMA NetworksAreBlocks ==
    /\ \A n \in Networks : n \in Blocks /\ Last(n) \in Addresses
    /\ \A n \in Blocks : Last(n) \in Addresses => n \in Networks
<1>1. ASSUME NEW n \in Networks PROVE n \in Blocks /\ Last(n) \in Addresses
  <2> DEFINE w == [first |-> 0, mask |-> 0, included |-> TRUE]
  <2>1. Aligned(n) /\ n.first \in Addresses
    BY Zenon DEF Networks
  <2>2. n \in Blocks
    BY <2>1, NetworksTyped, Zenon DEF Blocks
  <2>3. Size(0) = 2 ^ Bits /\ Size(0) \in Nat \ {0}
    <3>1. CASE Bits = 0
      BY <3>1, PowersOfTwo, SizeFacts DEF Size
    <3>2. CASE Bits # 0
      BY <3>2, BitsAssumption, SizeFacts DEF Size
    <3> QED
      BY <3>1, <3>2
  <2>4. w \in Blocks
    <3>1. w \in Prefixes
      BY DEF Prefixes
    <3>2. w.first % Size(w.mask) = 0
      BY <2>3
    <3> QED
      BY <3>1, <3>2, BitsAssumption DEF Blocks, Aligned
  <2>5. w.mask = 0 /\ w.first = 0 /\ Last(w) = 2 ^ Bits - 1
    BY <2>3 DEF Last
  <2> HIDE DEF w
  <2>6. n.first <= Last(w)
    BY <2>1, <2>5 DEF Addresses
  <2>7. LiesIn(n, w)
    BY <2>2, <2>4, <2>5, <2>6, Nesting, BlockFacts
  <2>8. Last(n) \in Nat /\ Last(n) <= 2 ^ Bits - 1
    BY <2>2, <2>5, <2>7, BlockFacts DEF LiesIn
  <2> QED
    BY <2>2, <2>3, <2>8 DEF Addresses
<1>2. ASSUME NEW n \in Blocks, Last(n) \in Addresses PROVE n \in Networks
  <2>1. n.first \in Addresses
    <3>1. 2 ^ Bits \in Nat
      BY BitsAssumption, PowersArePositive
    <3> QED
      BY <1>2, <3>1, BlockFacts DEF Addresses
  <2>2. n \in [first : Addresses, mask : 0 .. Bits, included : BOOLEAN] /\ Aligned(n)
    <3>1. n.mask \in 0 .. Bits
      BY BlockFacts
    <3> QED
      BY <2>1, <3>1, BlockFacts DEF Prefixes, Blocks
  <2> QED
    BY <2>2, Zenon DEF Networks
<1> QED
  BY <1>1, <1>2

\* The halves of a network are networks.
LEMMA HalvesAreNetworks ==
    ASSUME NEW n \in Networks, n.mask < Bits
    PROVE  LowerHalf(n) \in Networks /\ UpperHalf(n) \in Networks
<1> DEFINE L == LowerHalf(n)
           U == UpperHalf(n)
<1>1. n \in Blocks /\ Last(n) \in Addresses
  BY NetworksAreBlocks
<1>2. L \in Blocks /\ U \in Blocks /\ Last(L) + 1 = U.first /\ Last(U) = Last(n)
  BY <1>1, HalvesFacts
<1> HIDE DEF L, U
<1>3. Last(L) \in Nat /\ Last(L) <= Last(n)
  BY <1>2, BlockFacts
<1>4. Last(L) \in Addresses
  <2>1. 2 ^ Bits \in Nat
    BY BitsAssumption, PowersArePositive
  <2> QED
    BY <1>1, <1>3, <2>1 DEF Addresses
<1> QED
  BY <1>1, <1>2, <1>4, NetworksAreBlocks DEF L, U

\* A turn that finishes nothing stays on course, if it makes pieces of pieces and
\* leaves the addresses where they are routed.
LEMMA CourseKept ==
    ASSUME InOrder, OnCourse, currentNet # NoNet, ipsDone' = ipsDone,
           mIpAddresses' = mIpAddresses, NEW T \in SUBSET Blocks, T \subseteq Networks,
           Pieces(T, currentNet'), currentNet'.first = currentNet.first,
           networks' = SetToBag(T \ {currentNet'}),
           \A a \in Nat : RoutedBy(Left, a) <=> RoutedBy(T, a)
    PROVE  OnCourse' /\ Left' = T
<1>1. currentNet' \in T /\ currentNet' # NoNet
  BY BitsAssumption DEF Pieces, Blocks
<1>2. Left' = T
  <2>1. BagToSet(networks') = T \ {currentNet'}
    BY BagFacts
  <2> QED
    BY <1>1, <2>1 DEF Left
<1>3. \A n \in T : currentNet.first <= n.first
  BY <1>1, BlockFacts DEF Pieces, Before
<1>4. ASSUME NEW a \in Addresses
      PROVE  RoutedBy(T \cup ipsDone, a) <=> RoutedBy(mIpAddresses, a)
  <2>1. a \in Nat
    BY AddressFacts
  <2>2. /\ Left \in SUBSET Blocks /\ ipsDone \in SUBSET Prefixes /\ currentNet.first \in Nat
        /\ \A n \in Left : currentNet.first <= n.first
        /\ \A n \in ipsDone : Last(n) < currentNet.first
    BY LeftFacts
  <2>3. RoutedBy(T \cup ipsDone, a) <=>
            IF a < currentNet.first THEN RoutedBy(ipsDone, a) ELSE RoutedBy(T, a)
    BY <1>3, <2>1, <2>2, RoutedApart
  <2>4. RoutedBy(Left \cup ipsDone, a) <=>
            IF a < currentNet.first THEN RoutedBy(ipsDone, a) ELSE RoutedBy(Left, a)
    BY <2>1, <2>2, RoutedApart
  <2>5. RoutedBy(Left, a) <=> RoutedBy(T, a)
    BY <2>1
  <2> QED
    BY <2>3, <2>4, <2>5 DEF OnCourse
<1>5. (\A a \in Addresses : RoutedBy(Left \cup ipsDone, a) <=> RoutedBy(mIpAddresses, a))'
  BY <1>2, <1>4 DEF Addresses, RoutedBy, Covers, Last, Size
<1>6. (Left \cup ipsDone \subseteq Networks)'
  <2>1. Left' \cup ipsDone' \subseteq Networks
    BY <1>2 DEF OnCourse
  <2> QED
    BY <2>1 DEF Networks, Addresses, Aligned, Size
<1> QED
  BY <1>2, <1>5, <1>6 DEF OnCourse

\* The next network, if there is one.
LEMMA NextFacts ==
    ASSUME InOrder, OnCourse, currentNet # NoNet, NEW next \in Polled(networks)
    PROVE  \/ /\ next = NoNet /\ Left = {currentNet} /\ Rest(networks, next) = SetToBag({})
           \/ /\ next # NoNet /\ next \in Left \ {currentNet} /\ next \in Blocks
              /\ \A n \in Left \ {currentNet} : ~Before(n, next)
              /\ Rest(networks, next) = SetToBag(Left \ {currentNet, next})
<1>1. /\ Left \in SUBSET Blocks /\ NoNet \notin Left \ {currentNet} /\ currentNet \in Left
      /\ networks = SetToBag(Left \ {currentNet})
  BY LeftFacts
<1>2. (Left \ {currentNet}) \ {next} = Left \ {currentNet, next}
  OBVIOUS
<1>3. \/ /\ next = NoNet /\ Left \ {currentNet} = {}
         /\ Rest(networks, next) = SetToBag(Left \ {currentNet})
      \/ /\ next \in Left \ {currentNet} /\ next # NoNet
         /\ \A n \in Left \ {currentNet} : ~Before(n, next)
         /\ Rest(networks, next) = SetToBag((Left \ {currentNet}) \ {next})
  BY <1>1, PolledFacts
<1> QED
  BY <1>1, <1>2, <1>3

\* What is finished was routed by itself, and nothing else is.
LEMMA KeepOnCourse ==
    ASSUME InOrder, OnCourse, currentNet # NoNet, NEW next \in Polled(networks),
           Keep(next), mIpAddresses' = mIpAddresses
    PROVE  OnCourse' /\ Left' = Left \ {currentNet}
<1>1. /\ Left \in SUBSET Blocks /\ Pieces(Left, currentNet) /\ currentNet \in Left
      /\ ipsDone \in SUBSET Prefixes /\ \A n \in ipsDone : Last(n) < currentNet.first
  BY LeftFacts
<1>2. /\ currentNet' = next /\ networks' = Rest(networks, next)
      /\ next # NoNet => Last(currentNet) < next.first
  BY DEF Keep, Apart
<1>3. ipsDone' = ipsDone \cup {currentNet}
  <2>1. \A n \in ipsDone : ~Same(n, currentNet)
    BY <1>1, LastFacts, BlockFacts DEF Same
  <2> QED
    BY <2>1 DEF Keep
<1>4. /\ Left' = Left \ {currentNet} /\ networks' = SetToBag(Left' \ {currentNet'})
      /\ currentNet' # NoNet => Pieces(Left', currentNet')
  <2>1. CASE next = NoNet
    <3>1. networks' = SetToBag({}) /\ Left = {currentNet}
      BY <1>2, <2>1, NextFacts
    <3>2. Left' = {}
      BY <1>2, <2>1, <3>1, BagFacts DEF Left
    <3> QED
      BY <1>2, <2>1, <3>1, <3>2
  <2>2. CASE next # NoNet
    <3>1. /\ next \in Left \ {currentNet} /\ \A n \in Left \ {currentNet} : ~Before(n, next)
          /\ networks' = SetToBag(Left \ {currentNet, next})
      BY <1>2, <2>2, NextFacts
    <3>2. BagToSet(networks') = Left \ {currentNet, next}
      BY <3>1, BagFacts
    <3>3. Left' = Left \ {currentNet}
      BY <1>2, <2>2, <3>1, <3>2 DEF Left
    <3>4. Pieces(Left \ {currentNet}, next)
      BY <1>1, <1>2, <2>2, <3>1, PiecesKept
    <3>5. (Left \ {currentNet}) \ {next} = Left \ {currentNet, next}
      OBVIOUS
    <3> QED
      BY <1>2, <3>1, <3>3, <3>4, <3>5
  <2> QED
    BY <2>1, <2>2
<1>5. Left' \cup ipsDone' = Left \cup ipsDone
  BY <1>1, <1>3, <1>4
<1>6. (\A a \in Addresses : RoutedBy(Left \cup ipsDone, a) <=> RoutedBy(mIpAddresses, a))'
  <2>1. \A a \in Addresses : RoutedBy(Left \cup ipsDone, a) <=> RoutedBy(mIpAddresses, a)
    BY DEF OnCourse
  <2> QED
    BY <1>5, <2>1 DEF Addresses, RoutedBy, Covers, Last, Size
<1>7. (Left \cup ipsDone \subseteq Networks)'
  <2>1. Left' \cup ipsDone' \subseteq Networks
    BY <1>5 DEF OnCourse
  <2> QED
    BY <2>1 DEF Networks, Addresses, Aligned, Size
<1> QED
  BY <1>4, <1>6, <1>7 DEF OnCourse

\* T is S without one of its pieces, or with halves of one in its place.
TakenOrCut(S, T) ==
    \E x \in S :
        \/ T = S \ {x}
        \/ x.mask < Bits /\ \E H \in SUBSET {LowerHalf(x), UpperHalf(x)} : T = (S \ {x}) \cup H

\* A turn takes one piece away, or cuts one.
LEMMA TurnOnCourse ==
    ASSUME InOrder, OnCourse, Turn
    PROVE  OnCourse' /\ TakenOrCut(Left, Left')
<1> DEFINE c == currentNet
<1>1. c # NoNet /\ mIpAddresses' = mIpAddresses
  BY DEF Turn
<1>2. PICK next \in Polled(networks) :
          \/ Keep(next) \/ ForgetCurrent(next) \/ SplitNext(next)
          \/ IgnoreNext(next) \/ SplitCurrent(next)
  BY DEF Turn
<1>3. /\ Left \in SUBSET Blocks /\ NoNet \notin Left /\ Pieces(Left, c) /\ c \in Left
      /\ networks = SetToBag(Left \ {c}) /\ Left \subseteq Networks
  BY <1>1, LeftFacts DEF OnCourse
<1>4. CASE Keep(next)
  BY <1>1, <1>3, <1>4, KeepOnCourse DEF TakenOrCut
<1>5. SUFFICES ASSUME ~Apart(next) PROVE OnCourse' /\ TakenOrCut(Left, Left')
  BY <1>2, <1>4 DEF ForgetCurrent, SplitNext, IgnoreNext, SplitCurrent, LiesInNext, LiesInCurrent
<1>6. /\ next # NoNet /\ next \in Left \ {c} /\ next \in Blocks /\ c \in Blocks
      /\ \A n \in Left \ {c} : ~Before(n, next) /\ next.first <= Last(c)
      /\ Rest(networks, next) = SetToBag(Left \ {c, next})
  <2>1. next # NoNet /\ ~(Last(c) < next.first)
    BY <1>5 DEF Apart
  <2>2. /\ next \in Left \ {c} /\ next \in Blocks
        /\ \A n \in Left \ {c} : ~Before(n, next)
        /\ Rest(networks, next) = SetToBag(Left \ {c, next})
    BY <1>1, <2>1, NextFacts
  <2> QED
    BY <1>3, <2>1, <2>2, BlockFacts
<1>7. \/ LiesInNext(next) /\ next.first = c.first /\ next.mask < c.mask
      \/ LiesInCurrent(next) /\ c.first < next.first /\ c.mask < next.mask
  <2>1. \/ next.first = c.first /\ next.mask < c.mask
        \/ c.first < next.first /\ c.mask < next.mask
    BY <1>3, <1>6, FirstTwo
  <2> QED
    BY <1>5, <1>6, <2>1, BlockFacts DEF LiesInNext, LiesInCurrent
<1>8. CASE ForgetCurrent(next)
  <2> DEFINE T == Left \ {c}
  <2>1. /\ currentNet' = next /\ networks' = SetToBag(Left \ {c, next}) /\ ipsDone' = ipsDone
        /\ LiesInNext(next) /\ next.included = c.included
    BY <1>6, <1>8 DEF ForgetCurrent, Alike
  <2>2. next.first = c.first
    BY <2>1 DEF LiesInNext
  <2>3. T \in SUBSET Blocks /\ Pieces(T, currentNet') /\ currentNet'.first = c.first
    BY <1>3, <1>6, <2>1, <2>2, PiecesForgotten
  <2>4. networks' = SetToBag(T \ {currentNet'})
    <3>1. Left \ {c, next} = T \ {next}
      OBVIOUS
    <3> QED
      BY <2>1, <3>1
  <2>5. \A a \in Nat : RoutedBy(Left, a) <=> RoutedBy(T, a)
    BY <1>3, <1>6, <2>1, <2>2, RoutedForgotten
  <2>6. T \subseteq Networks
    BY <1>3
  <2> HIDE DEF T
  <2>7. OnCourse' /\ Left' = T
    BY <1>1, <2>1, <2>3, <2>4, <2>5, <2>6, CourseKept
  <2> QED
    BY <1>3, <2>7 DEF T, TakenOrCut
<1>9. CASE SplitNext(next)
  <2> DEFINE L     == LowerHalf(next)
             U     == UpperHalf(next)
             Q     == Left \ {c, next}
             lower == {n \in {L} : Last(n) # Last(c)}
             H     == Missing(SetToBag(Q), {U} \cup lower)
             T     == (Left \ {next}) \cup H
  <2>1. /\ currentNet' = c /\ ipsDone' = ipsDone
        /\ networks' = SetToBag(Q) (+) SetToBag(H)
        /\ LiesInNext(next) /\ next.included # c.included
    BY <1>6, <1>9, Zenon DEF SplitNext, Alike
  <2>2. next.first = c.first /\ next.mask < c.mask /\ next.mask < Bits
    BY <1>6, <1>7, <2>1, BlockFacts DEF LiesInCurrent
  <2>3. /\ L \in Blocks /\ U \in Blocks /\ L.first = next.first /\ L.mask = next.mask + 1
        /\ Last(L) + 1 = U.first
    BY <1>6, <2>2, HalvesFacts
  <2>4. BagToSet(SetToBag(Q)) = Q
    BY BagFacts
  <2>5. \A h : h \in H <=> /\ h = U \/ (h = L /\ Last(L) # Last(c))
                           /\ \A m \in Q : ~Same(m, h)
    BY <2>4 DEF Missing, Contains
  <2> HIDE DEF L, U, H
  <2>6. c.first < U.first
    BY <1>6, <2>2, <2>3, BlockFacts
  <2>7. Last(L) = Last(c) <=> Same(c, L)
    <3>1. Last(L) = Last(c) => Size(L.mask) = Size(c.mask)
      BY <1>6, <2>2, <2>3, BlockFacts
    <3>2. Size(L.mask) = Size(c.mask) => L.mask = c.mask
      BY <1>6, <2>3, SizesAscend, BlockFacts
    <3>3. Same(c, L) => Last(L) = Last(c)
      BY DEF Same, Last
    <3> QED
      BY <2>2, <2>3, <3>1, <3>2, <3>3 DEF Same
  <2>8. \A h \in H : \A n \in Left \ {next} : ~Same(n, h)
    <3>1. ASSUME NEW h \in H PROVE ~Same(c, h)
      BY <1>6, <2>3, <2>5, <2>6, <2>7, <3>1, BlockFacts DEF Same
    <3> QED
      BY <2>5, <3>1
  <2>9. \A h \in {L, U} : \E g \in T : Same(g, h)
    <3>1. ASSUME NEW h \in {L, U}, h \notin H PROVE \E g \in Left \ {next} : Same(g, h)
      <4>1. CASE h = L /\ Last(L) = Last(c)
        BY <1>3, <1>6, <2>7, <4>1
      <4>2. CASE ~(h = L /\ Last(L) = Last(c))
        BY <2>5, <3>1, <4>2
      <4> QED
        BY <4>1, <4>2
    <3>2. \A h : Same(h, h)
      BY DEF Same
    <3> QED
      BY <3>1, <3>2
  <2>10. H \in SUBSET {L, U}
    BY <2>5
  <2>11. T \in SUBSET Blocks /\ Pieces(T, c)
    BY <1>3, <1>6, <2>1, <2>2, <2>8, <2>10, PiecesOfNext DEF L, U
  <2>12. ASSUME NEW a \in Nat PROVE RoutedBy(Left, a) <=> RoutedBy(T, a)
    <3>1. Distinct(Left) /\ Distinct(T) /\ next \in Left
      BY <1>3, <1>6, <2>11 DEF Pieces
    <3> HIDE DEF T
    <3>2. T = (Left \ {next}) \cup H
      BY DEF T
    <3>3. /\ Left \in SUBSET Blocks /\ T \in SUBSET Blocks /\ next.mask < Bits
          /\ H \in SUBSET {LowerHalf(next), UpperHalf(next)}
          /\ \A h \in {LowerHalf(next), UpperHalf(next)} : \E g \in T : Same(g, h)
      BY <1>3, <2>2, <2>9, <2>10, <2>11 DEF L, U
    <3> HIDE DEF Q, lower
    <3> QED
      BY ONLY <3>1, <3>2, <3>3, a \in Nat, RoutedInHalves
  <2>13. networks' = SetToBag(T \ {c})
    <3>1. \A h : Same(h, h)
      BY DEF Same
    <3>2. Q \cap H = {} /\ T \ {c} = Q \cup H
      BY <1>3, <1>6, <2>8, <3>1
    <3> HIDE DEF T, Q
    <3>3. SetToBag(Q) (+) SetToBag(H) = SetToBag(Q \cup H)
      BY <3>2, OnceEach
    <3> QED
      BY <2>1, <3>2, <3>3
  <2>14. T \subseteq Networks
    <3>1. L \in Networks /\ U \in Networks
      BY <1>3, <1>6, <2>2, HalvesAreNetworks DEF L, U
    <3> QED
      BY <1>3, <2>10, <3>1
  <2> HIDE DEF T
  <2>15. OnCourse' /\ Left' = T
    BY <1>1, <2>1, <2>11, <2>12, <2>13, <2>14, CourseKept
  <2> QED
    BY <1>6, <2>2, <2>10, <2>15 DEF T, L, U, TakenOrCut
<1>10. CASE IgnoreNext(next)
  <2> DEFINE T == Left \ {next}
  <2>1. /\ currentNet' = c /\ networks' = SetToBag(Left \ {c, next}) /\ ipsDone' = ipsDone
        /\ LiesInCurrent(next) /\ next.included = c.included
    BY <1>6, <1>10 DEF IgnoreNext, Alike
  <2>2. c.first < next.first
    BY <1>7, <2>1 DEF LiesInCurrent
  <2>3. T \in SUBSET Blocks /\ Pieces(T, c)
    BY <1>3, <1>6, PiecesLess
  <2>4. networks' = SetToBag(T \ {c})
    <3>1. Left \ {c, next} = T \ {c}
      OBVIOUS
    <3> QED
      BY <2>1, <3>1
  <2>5. \A a \in Nat : RoutedBy(Left, a) <=> RoutedBy(T, a)
    BY <1>3, <1>6, <2>1, <2>2, RoutedIgnored
  <2>6. T \subseteq Networks
    BY <1>3
  <2> HIDE DEF T
  <2>7. OnCourse' /\ Left' = T
    BY <1>1, <2>1, <2>3, <2>4, <2>5, <2>6, CourseKept
  <2> QED
    BY <1>6, <2>7 DEF T, TakenOrCut
<1>11. CASE SplitCurrent(next)
  <2> DEFINE L == LowerHalf(c)
             U == UpperHalf(c)
             H == {n \in {U} : n.mask # next.mask}
             T == (Left \ {c}) \cup {L} \cup H
  <2>1. /\ currentNet' = L /\ ipsDone' = ipsDone
        /\ networks' = SetToBag(Left \ {c}) (+) SetToBag(H)
        /\ LiesInCurrent(next) /\ next.included # c.included
    BY <1>3, <1>11, Zenon DEF SplitCurrent, Alike
  <2>2. c.first < next.first
    BY <1>7, <2>1 DEF LiesInCurrent
  <2>3. /\ c.mask < Bits /\ \A n \in Left \ {c} : ~Same(n, L)
        /\ U.mask = next.mask => Same(U, next)
        /\ U.mask # next.mask => \A n \in Left \ {c} : ~Same(n, U)
    BY <1>3, <1>6, <2>1, <2>2, HalvesAreNew
  <2>4. T \in SUBSET Blocks /\ Pieces(T, L)
    BY <1>3, <1>6, <2>1, <2>2, PiecesOfCurrent
  <2>5. /\ L \in Blocks /\ U \in Blocks /\ L.first = c.first /\ Last(L) + 1 = U.first
    BY <1>6, <2>3, HalvesFacts
  <2>6. \A h \in H : h = U /\ U.mask # next.mask
    OBVIOUS
  <2>7. U \in H \/ U.mask = next.mask
    OBVIOUS
  <2> HIDE DEF L, U, H
  <2>8. \A h : Same(h, h)
    BY DEF Same
  <2>9. \A h \in {L, U} : \E g \in T : Same(g, h)
    <3>1. \A m, n : Same(m, n) <=> Same(n, m)
      BY DEF Same
    <3> QED
      BY <1>6, <2>3, <2>7, <2>8, <3>1
  <2>10. ASSUME NEW a \in Nat PROVE RoutedBy(Left, a) <=> RoutedBy(T, a)
    <3> DEFINE G == {L} \cup H
    <3>1. Distinct(Left) /\ Distinct(T)
      BY <1>3, <2>4 DEF Pieces
    <3>2. T = (Left \ {c}) \cup G /\ G \in SUBSET {L, U}
      BY <2>6
    <3> HIDE DEF T, G
    <3>3. c \in Left /\ Left \in SUBSET Blocks /\ c.mask < Bits
      BY <1>3, <2>3
    <3> QED
      BY <2>4, <2>9, <3>1, <3>2, <3>3, RoutedInHalves DEF L, U
  <2>11. networks' = SetToBag(T \ {L})
    <3>1. (Left \ {c}) \cap H = {}
      BY <2>3, <2>6, <2>8
    <3>2. L # U
      BY <2>5, BlockFacts
    <3>3. T \ {L} = (Left \ {c}) \cup H
      BY <2>3, <2>6, <2>8, <3>2
    <3>4. SetToBag(Left \ {c}) (+) SetToBag(H) = SetToBag((Left \ {c}) \cup H)
      BY <3>1, OnceEach
    <3> HIDE DEF T
    <3> QED
      BY <2>1, <3>3, <3>4
  <2>12. T \subseteq Networks
    <3>1. L \in Networks /\ U \in Networks
      BY <1>3, <2>3, HalvesAreNetworks DEF L, U
    <3> QED
      BY <1>3, <2>6, <3>1
  <2> DEFINE G == {L} \cup H
  <2>13. T = (Left \ {c}) \cup G /\ G \in SUBSET {L, U}
    BY <2>6
  <2> HIDE DEF T, G
  <2>14. OnCourse' /\ Left' = T
    BY <1>1, <2>1, <2>4, <2>5, <2>10, <2>11, <2>12, CourseKept
  <2> QED
    BY <1>3, <2>3, <2>13, <2>14 DEF L, U, TakenOrCut
<1> QED
  BY <1>2, <1>4, <1>8, <1>9, <1>10, <1>11

LEMMA BeginOnCourse ==
    ASSUME IInv, Begin, ~Eclipsed, ~Doubled
    PROVE  OnCourse'
<1> DEFINE S == mIpAddresses
<1>1. S \in SUBSET Blocks /\ NoNet \notin S /\ Distinct(S) /\ ipsDone = {}
  <2>1. S \in SUBSET Blocks /\ Distinct(S)
    BY NetworksAreBlocks DEF IInv
  <2>2. ipsDone = {}
    BY DEF IInv, InOrder, Ascending, Begin
  <2> QED
    BY <2>1, <2>2, BitsAssumption DEF Blocks
<1>2. PICK n \in Polled(SetToBag(S)) : currentNet' = n /\ networks' = Rest(SetToBag(S), n)
  BY DEF Begin
<1>3. ipsDone' = ipsDone /\ mIpAddresses' = mIpAddresses
  BY DEF Begin
<1>4. \/ n = NoNet /\ S = {} /\ networks' = SetToBag(S)
      \/ /\ n \in S /\ n # NoNet /\ \A m \in S : ~Before(m, n)
         /\ networks' = SetToBag(S \ {n})
  BY <1>1, <1>2, PolledFacts
<1>5. Left' = S /\ networks' = SetToBag(Left' \ {currentNet'})
  <2>1. CASE n = NoNet /\ S = {} /\ networks' = SetToBag(S)
    <3>1. BagToSet(networks') = {}
      BY <2>1, BagFacts
    <3>2. Left' = {}
      BY <1>2, <2>1, <3>1 DEF Left
    <3> QED
      BY <2>1, <3>2
  <2>2. CASE n \in S /\ n # NoNet /\ networks' = SetToBag(S \ {n})
    <3>1. BagToSet(networks') = S \ {n}
      BY <2>2, BagFacts
    <3>2. Left' = S
      BY <1>2, <2>2, <3>1 DEF Left
    <3> QED
      BY <1>2, <2>2, <3>2
  <2> QED
    BY <1>4, <2>1, <2>2
<1>6. ASSUME currentNet' # NoNet PROVE Pieces(S, n)
  <2>1. n \in S /\ \A m \in S : ~Before(m, n)
    BY <1>2, <1>4, <1>6
  <2>2. ASSUME NEW m \in S PROVE Aligned(m) /\ (m = n \/ Before(n, m))
    <3>1. Aligned(m) /\ ~Before(m, n) /\ (Same(m, n) => m = n)
      BY <1>1, <2>1 DEF Blocks, Distinct
    <3>2. m \in Blocks /\ n \in Blocks
      BY <1>1, <2>1
    <3> QED
      BY <3>1, <3>2, BlockFacts DEF Before, Same
  <2>3. \A p, q, m \in S : ~Eclipses(p, q, m) /\ ~Doubles(p, q, m)
    BY DEF Eclipsed, Doubled
  <2> QED
    BY <1>1, <2>1, <2>2, <2>3 DEF Pieces
<1>7. (\A a \in Addresses : RoutedBy(Left \cup ipsDone, a) <=> RoutedBy(mIpAddresses, a))'
  <2>1. Left' \cup ipsDone' = mIpAddresses'
    BY <1>1, <1>3, <1>5
  <2> QED
    BY <2>1
<1>8. currentNet' # NoNet => Pieces(Left', currentNet')
  BY <1>2, <1>5, <1>6
<1>9. (Left \cup ipsDone \subseteq Networks)'
  <2>1. Left' \cup ipsDone' \subseteq Networks
    BY <1>1, <1>3, <1>5 DEF IInv
  <2> QED
    BY <2>1 DEF Networks, Addresses, Aligned, Size
<1> QED
  BY <1>5, <1>7, <1>8, <1>9 DEF OnCourse

\* The loop is on course from the first turn to the last.
LEMMA StepInv == ASSUME IInv, Next PROVE IInv'
<1>1. InOrder'
  BY AddIPInv, BeginInv, TurnInv, ResetInv DEF IInv, Next
<1>2. CASE \E n \in Networks : AddIP(n)
  <2>1. PICK n \in Networks : AddIP(n)
    BY <1>2
  <2>2. ~generating' /\ mIpAddresses' = mIpAddresses \cup {n}
        /\ \A m \in mIpAddresses : ~Same(m, n)
    BY <2>1 DEF AddIP
  <2>3. Distinct(mIpAddresses')
    <3>1. \A m : Same(m, n) <=> Same(n, m)
      BY DEF Same
    <3> QED
      BY <2>2, <3>1 DEF IInv, Distinct
  <2> QED
    BY <1>1, <2>2, <2>3 DEF IInv, Networks, Addresses, Aligned, Size
<1>3. CASE Begin
  <2>1. mIpAddresses' = mIpAddresses
    BY <1>3 DEF Begin
  <2>2. Eclipsed \/ Doubled \/ OnCourse'
    BY <1>3, BeginOnCourse
  <2>3. (Eclipsed => Eclipsed') /\ (Doubled => Doubled')
    BY <2>1 DEF Eclipsed, Doubled
  <2> QED
    BY <1>1, <2>1, <2>2, <2>3 DEF IInv
<1>4. CASE Turn
  <2>1. mIpAddresses' = mIpAddresses /\ generating' = generating
    BY <1>4 DEF Turn
  <2>2. generating => Eclipsed \/ Doubled \/ OnCourse'
    BY <1>4, TurnOnCourse DEF IInv
  <2>3. (Eclipsed => Eclipsed') /\ (Doubled => Doubled')
    BY <2>1 DEF Eclipsed, Doubled
  <2> QED
    BY <1>1, <2>1, <2>2, <2>3 DEF IInv
<1>5. CASE Reset
  <2>1. mIpAddresses' = {} /\ ~generating'
    BY <1>5 DEF Reset
  <2> QED
    BY <1>1, <2>1 DEF IInv, Distinct
<1> QED
  BY <1>2, <1>3, <1>4, <1>5 DEF Next

\* The loop of generateIPList cuts the session's networks into pieces that are routed
\* as the networks are, and cuts them no further than it must: neither a network nor a
\* piece is there twice.
THEOREM Inductive == Spec => []IInv
<1>1. Init => IInv
  <2> SUFFICES ASSUME Init PROVE IInv
    OBVIOUS
  <2>1. InOrder
    BY InitInv
  <2> QED
    BY <2>1 DEF Init, IInv, Distinct
<1>2. IInv /\ [Next]_vars => IInv'
  <2> SUFFICES ASSUME IInv, [Next]_vars PROVE IInv'
    OBVIOUS
  <2>1. CASE UNCHANGED vars
    BY <2>1 DEF vars, IInv, InOrder, TypeOK, Disjoint, Ascending, Eclipsed, Doubled,
                OnCourse, Left
  <2>2. CASE Next
    BY <2>2, StepInv
  <2> QED
    BY <2>1, <2>2
<1> QED
  BY <1>1, <1>2, PTL DEF Spec

-----------------------------------------------------------------------------
(* What the invariant says of the result, and of the way there.            *)

\* Of the blocks that an address lies in one is the smallest.
LEMMA Smallest ==
    ASSUME NEW S \in SUBSET Blocks, NEW n \in S, NEW a \in Nat, Covers(n, a)
    PROVE  \E x \in S : Covers(x, a) /\ \A m \in S : Covers(m, a) => m.mask <= x.mask
<1> DEFINE A == {m \in S : Covers(m, a)}
           T == {Bits - m.mask : m \in A}
<1>1. \A m \in A : m \in S /\ Covers(m, a) /\ m.mask \in Nat /\ Bits - m.mask \in Nat
  BY BlockFacts
<1>2. T \in SUBSET Nat /\ T # {}
  BY <1>1
<1>3. PICK k \in T : \A l \in T : k <= l
  <2> HIDE DEF T
  <2> QED
    BY <1>2, LeastNumber
<1>4. PICK x \in A : k = Bits - x.mask
  OBVIOUS
<1>5. ASSUME NEW m \in S, Covers(m, a) PROVE m.mask <= x.mask
  <2>1. m \in A /\ Bits - m.mask \in T
    BY <1>5
  <2>2. Bits - x.mask <= Bits - m.mask
    BY <1>3, <1>4, <2>1
  <2> QED
    BY <1>1, <2>1, <2>2, BitsAssumption
<1> QED
  BY <1>1, <1>5

\* An address is routed by the smallest network that it lies in just if it is by one
\* that is smaller than all the excluded ones.
LEMMA RoutedBySmallest ==
    ASSUME IInv, NEW a \in Addresses
    PROVE  Routed(a) <=> RoutedBy(mIpAddresses, a)
<1>1. a \in Nat /\ mIpAddresses \in SUBSET Blocks /\ Distinct(mIpAddresses)
  BY AddressFacts, NetworksAreBlocks DEF IInv
<1>2. ASSUME Routed(a) PROVE RoutedBy(mIpAddresses, a)
  <2>1. PICK n \in mIpAddresses :
            /\ n.included /\ Covers(n, a)
            /\ \A m \in mIpAddresses : Covers(m, a) => m.mask <= n.mask
    BY <1>2 DEF Routed
  <2>2. ASSUME NEW m \in mIpAddresses, Covers(m, a), ~m.included PROVE m.mask < n.mask
    <3>1. m.mask # n.mask
      BY <1>1, <2>1, <2>2, OneOfASize
    <3> QED
      BY <1>1, <2>1, <2>2, <3>1, BlockFacts
  <2> QED
    BY <2>1, <2>2 DEF RoutedBy
<1>3. ASSUME RoutedBy(mIpAddresses, a) PROVE Routed(a)
  <2>1. PICK n \in mIpAddresses :
            /\ n.included /\ Covers(n, a)
            /\ \A m \in mIpAddresses : Covers(m, a) /\ ~m.included => m.mask < n.mask
    BY <1>3 DEF RoutedBy
  <2>2. PICK x \in mIpAddresses :
            Covers(x, a) /\ \A m \in mIpAddresses : Covers(m, a) => m.mask <= x.mask
    BY <1>1, <2>1, Smallest
  <2>3. x.included
    <3>1. n.mask <= x.mask /\ n.mask \in Nat /\ x.mask \in Nat
      BY <1>1, <2>1, <2>2, BlockFacts
    <3> QED
      BY <2>1, <2>2, <3>1
  <2> QED
    BY <2>2, <2>3 DEF Routed
<1> QED
  BY <1>2, <1>3

\* What is done does not overlap, so that no other network has a say.
LEMMA RoutedWhenDone ==
    ASSUME IInv, NEW a \in Nat
    PROVE  RoutedBy(ipsDone, a) <=> \E n \in PositiveIPList : Covers(n, a)
<1>1. ASSUME NEW m \in ipsDone, NEW n \in ipsDone, Covers(m, a), Covers(n, a) PROVE m = n
  <2>1. m \in Prefixes /\ n \in Prefixes
    BY DEF IInv, InOrder, TypeOK
  <2>2. m.first \in Nat /\ n.first \in Nat /\ Last(m) \in Nat /\ Last(n) \in Nat
    BY <2>1, LastFacts DEF Prefixes
  <2>3. m = n \/ Last(m) < n.first \/ Last(n) < m.first
    BY DEF IInv, InOrder, Disjoint
  <2> QED
    BY <1>1, <2>2, <2>3 DEF Covers
<1> QED
  BY <1>1 DEF RoutedBy, PositiveIPList

LEMMA InvRoutes == IInv => EmulatesElse
<1> SUFFICES ASSUME IInv, ~Eclipsed, ~Doubled, Done PROVE Emulates
  BY DEF EmulatesElse, Emulates
<1>1. OnCourse /\ currentNet = NoNet /\ Left = {}
  BY DEF IInv, InOrder, Ascending, Done, Left
<1>2. ASSUME NEW a \in Addresses
      PROVE  Routed(a) <=> \E n \in PositiveIPList : Covers(n, a)
  <2>1. RoutedBy(Left \cup ipsDone, a) <=> RoutedBy(mIpAddresses, a)
    BY <1>1 DEF OnCourse
  <2>2. Left \cup ipsDone = ipsDone
    BY <1>1
  <2>3. RoutedBy(ipsDone, a) <=> RoutedBy(mIpAddresses, a)
    BY <2>1, <2>2
  <2> QED
    BY <2>3, RoutedBySmallest, RoutedWhenDone, AddressFacts
<1>3. PositiveIPList \subseteq Networks
  BY <1>1 DEF OnCourse, PositiveIPList
<1> QED
  BY <1>2, <1>3 DEF Emulates

\* generateIPList returns what the session asks for: but where a network is eclipsed or
\* half of one is doubled, an address lies in one of the networks returned just if the
\* smallest of the session's networks that it lies in is included.
THEOREM RoutesAsAsked == Spec => []EmulatesElse
BY InvRoutes, Inductive, PTL

LEMMA InvAsserts == IInv => AssertionsElse
<1> DEFINE c == currentNet
<1> SUFFICES ASSUME IInv, ~Eclipsed, ~Doubled, c # NoNet,
                    NEW next \in Polled(networks), next # NoNet
             PROVE  AssertionsOf(next)
  BY DEF AssertionsElse
<1>1. InOrder /\ OnCourse
  BY DEF IInv, InOrder, Ascending
<1>2. /\ Left \in SUBSET Blocks /\ Pieces(Left, c)
      /\ next \in Left \ {c} /\ \A n \in Left \ {c} : ~Before(n, next)
      /\ c \in Blocks /\ next \in Blocks
  BY <1>1, LeftFacts, NextFacts
<1>3. SUFFICES ASSUME ~Apart(next) PROVE AssertionsOf(next)
  BY DEF AssertionsOf, LiesInNext, LiesInCurrent
<1>4. next.first <= Last(c)
  BY <1>2, <1>3, BlockFacts DEF Apart
<1>5. \/ next.first = c.first /\ next.mask < c.mask /\ LiesIn(c, next)
      \/ c.first < next.first /\ c.mask < next.mask /\ LiesIn(next, c)
  BY <1>2, <1>4, FirstTwo
<1>6. CASE next.first = c.first /\ next.mask < c.mask
  <2>1. ~LiesInCurrent(next)
    BY <1>2, <1>3, <1>6, BlockFacts DEF LiesInCurrent, LiesInNext
  <2>2. /\ Halves(next) /\ LowerHalf(next) \in Blocks
        /\ LowerHalf(next).first = c.first
    BY <1>2, <1>6, HalvesFacts, BlockFacts DEF Halves
  <2>3. ASSUME Last(LowerHalf(next)) = Last(c) PROVE LowerHalf(next).mask = c.mask
    <3> DEFINE L == LowerHalf(next)
    <3> HIDE DEF L
    <3>1. L \in Blocks /\ L.first = c.first /\ Last(L) = Last(c)
      BY <2>2, <2>3 DEF L
    <3>2. Size(L.mask) = Size(c.mask)
      BY <1>2, <3>1, BlockFacts
    <3>3. ~(L.mask < c.mask) /\ ~(c.mask < L.mask)
      BY <1>2, <3>1, <3>2, SizesAscend, BlockFacts
    <3>4. L.mask = c.mask
      BY <1>2, <3>1, <3>3, BlockFacts
    <3> QED
      BY <3>4 DEF L
  <2> QED
    BY <2>1, <2>2, <2>3 DEF AssertionsOf
<1>7. CASE c.first < next.first /\ c.mask < next.mask /\ LiesIn(next, c)
  <2>1. ~LiesInNext(next)
    BY <1>2, <1>7, BlockFacts DEF LiesInNext
  <2>2. ASSUME ~Alike(next)
        PROVE  Halves(c) /\ (UpperHalf(c).mask = next.mask => Same(UpperHalf(c), next))
    <3>1. next.included # c.included
      BY <2>2 DEF Alike
    <3>2. c.mask < Bits /\ (UpperHalf(c).mask = next.mask => Same(UpperHalf(c), next))
      BY <1>2, <1>4, <1>7, <3>1, HalvesAreNew
    <3> QED
      BY <1>2, <3>2, HalvesFacts DEF Halves
  <2> QED
    BY <1>7, <2>1, <2>2 DEF AssertionsOf, LiesIn
<1> QED
  BY <1>5, <1>6, <1>7

\* The assertions of split and generateIPList hold at every turn, but for the networks
\* named above: a network that is split has more than one address, the half that is not
\* put back is the current network, and so is the one that the queue has already.
THEOREM AssertionsHold == Spec => []AssertionsElse
BY InvAsserts, Inductive, PTL

-----------------------------------------------------------------------------
(* Why the loop ends.                                                      *)

LEMMA CutsFinite == ASSUME NEW S \in SUBSET Networks PROVE IsFiniteSet(Cuts(S))
<1> DEFINE M == 0 .. Bits
           P == (Addresses \X M) \X BOOLEAN
           R == [first : Addresses, mask : M, included : BOOLEAN]
           f == [p \in P |-> [first |-> p[1][1], mask |-> p[1][2], included |-> p[2]]]
<1>1. IsFiniteSet(P)
  <2>1. IsFiniteSet(Addresses) /\ IsFiniteSet(M)
    <3>1. Bits \in Nat /\ 2 ^ Bits \in Nat
      BY BitsAssumption, PowersArePositive
    <3> QED
      BY <3>1, FS_Interval DEF Addresses
  <2>2. IsFiniteSet({TRUE} \cup {FALSE}) /\ {TRUE} \cup {FALSE} = BOOLEAN
    BY FS_Singleton, FS_AddElement
  <2>3. IsFiniteSet(Addresses \X M)
    BY <2>1, FS_Product
  <2> QED
    BY <2>2, <2>3, FS_Product
<1>2. f \in Surjection(P, R)
  <2>1. f \in [P -> R]
    OBVIOUS
  <2>2. ASSUME NEW r \in R PROVE \E p \in P : f[p] = r
    <3>1. <<<<r.first, r.mask>>, r.included>> \in P
      OBVIOUS
    <3>2. f[<<<<r.first, r.mask>>, r.included>>] = r
      BY <3>1
    <3> QED
      BY <3>1, <3>2
  <2> HIDE DEF P, R, f
  <2> QED
    BY <2>1, <2>2 DEF Surjection
<1>3. IsFiniteSet(R)
  <2> HIDE DEF P, R, f
  <2> QED
    BY <1>1, <1>2, FS_Surjection
<1>4. Networks \in SUBSET R
  BY DEF Networks
<1> HIDE DEF R
<1>5. IsFiniteSet(Networks) /\ IsFiniteSet(S)
  BY <1>3, <1>4, FS_Subset
<1>6. IsFiniteSet(S \X Networks)
  BY <1>5, FS_Product
<1> QED
  BY <1>6, FS_Subset DEF Cuts

\* A piece less is so many cuts less, itself at least.
LEMMA FewerPieces ==
    ASSUME NEW S \in SUBSET Networks, NEW x \in S
    PROVE  Cardinality(Cuts(S \ {x})) < Cardinality(Cuts(S))
<1>1. IsFiniteSet(Cuts(S)) /\ IsFiniteSet(Cuts(S \ {x}))
  BY CutsFinite
<1>2. Cuts(S \ {x}) \in SUBSET Cuts(S)
  BY DEF Cuts
<1>3. <<x, x>> \in Cuts(S)
  <2>1. x \in Blocks
    BY NetworksAreBlocks
  <2> QED
    BY <2>1, BlockFacts DEF Cuts, LiesIn
<1>4. <<x, x>> \notin Cuts(S \ {x})
  BY DEF Cuts
<1>5. Cardinality(Cuts(S \ {x})) # Cardinality(Cuts(S))
  BY <1>1, <1>2, <1>3, <1>4, FS_Subset
<1>6. Cardinality(Cuts(S \ {x})) <= Cardinality(Cuts(S))
  BY <1>1, <1>2, FS_Subset
<1>7. Cardinality(Cuts(S \ {x})) \in Nat /\ Cardinality(Cuts(S)) \in Nat
  BY <1>1, FS_CardinalityType
<1> QED
  BY <1>5, <1>6, <1>7

\* What the two halves can be cut into the whole can be cut into, but for itself.
LEMMA SmallerPieces ==
    ASSUME NEW S \in SUBSET Networks, NEW x \in S, x.mask < Bits,
           NEW H \in SUBSET {LowerHalf(x), UpperHalf(x)}
    PROVE  Cardinality(Cuts((S \ {x}) \cup H)) < Cardinality(Cuts(S))
<1> DEFINE L == LowerHalf(x)
           U == UpperHalf(x)
           T == (S \ {x}) \cup H
           C == Cuts(S) \ {<<x, x>>}
           f == [p \in Cuts(T) |-> IF p[1] \in S \ {x} THEN p ELSE <<x, p[2]>>]
<1>1. /\ x \in Blocks /\ L \in Networks /\ U \in Networks
      /\ L.included = x.included /\ U.included = x.included
      /\ L.first = x.first /\ Last(L) + 1 = U.first /\ Last(U) = Last(x)
      /\ L \in Blocks /\ U \in Blocks
  BY NetworksAreBlocks, HalvesFacts, HalvesAreNetworks
<1> HIDE DEF L, U
<1>2. \A h \in H : h \in {L, U}
  BY DEF L, U
<1>3. /\ T \in SUBSET Networks /\ IsFiniteSet(Cuts(T)) /\ IsFiniteSet(Cuts(S))
  BY <1>1, <1>2, CutsFinite
<1>4. ASSUME NEW p \in Cuts(T)
      PROVE  /\ p = <<p[1], p[2]>> /\ p[1] \in T /\ p[2] \in Networks /\ p[2] \in Blocks
             /\ p[2].included = p[1].included /\ LiesIn(p[2], p[1])
  BY NetworksAreBlocks DEF Cuts
<1>5. ASSUME NEW p \in Cuts(T), p[1] \notin S \ {x}
      PROVE  /\ p[1] \in {L, U} /\ <<x, p[2]>> \in C
  <2>1. p[1] \in {L, U}
    BY <1>2, <1>4, <1>5
  <2>2. LiesIn(p[2], x) /\ p[2] # x
    <3>1. ASSUME NEW m \in Blocks, NEW h \in {L, U}, LiesIn(m, h)
          PROVE  LiesIn(m, x) /\ m # x
      <4>1. /\ x.first \in Nat /\ Last(x) \in Nat /\ m.first \in Nat /\ Last(m) \in Nat
            /\ L.first <= Last(L) /\ U.first <= Last(U)
            /\ L.first \in Nat /\ Last(L) \in Nat /\ U.first \in Nat /\ Last(U) \in Nat
        BY <1>1, BlockFacts
      <4>2. x.first <= m.first /\ Last(m) <= Last(x)
        BY <1>1, <3>1, <4>1 DEF LiesIn
      <4>3. ~(m.first = x.first /\ Last(m) = Last(x))
        BY <1>1, <3>1, <4>1 DEF LiesIn
      <4> QED
        BY <4>2, <4>3 DEF LiesIn
    <3>2. p[2] \in Blocks /\ LiesIn(p[2], p[1])
      BY <1>4
    <3> QED
      BY <2>1, <3>1, <3>2
  <2>3. p[2].included = x.included
    BY <1>1, <1>4, <2>1
  <2> QED
    BY <1>4, <2>1, <2>2, <2>3 DEF Cuts
<1>6. f \in Injection(Cuts(T), C)
  <2>1. ASSUME NEW p \in Cuts(T) PROVE f[p] \in C
    <3>1. CASE p[1] \in S \ {x}
      <4>1. p \in Cuts(S) /\ p # <<x, x>>
        BY <1>4, <3>1 DEF Cuts
      <4> QED
        BY <3>1, <4>1
    <3>2. CASE p[1] \notin S \ {x}
      BY <1>5, <3>2
    <3> QED
      BY <3>1, <3>2
  <2>2. f \in [Cuts(T) -> C]
    BY <2>1
  <2>3. ASSUME NEW p \in Cuts(T), NEW q \in Cuts(T), f[p] = f[q] PROVE p = q
    <3>1. CASE p[1] \in S \ {x}
      <4>1. f[p] = p /\ p[1] # x
        BY <3>1
      <4>2. q[1] \in S \ {x}
        BY <2>3, <4>1
      <4> QED
        BY <2>3, <4>1, <4>2
    <3>2. CASE p[1] \notin S \ {x}
      <4>1. f[p] = <<x, p[2]>>
        BY <3>2
      <4>2. q[1] \notin S \ {x}
        BY <2>3, <4>1
      <4>3. p[2] = q[2]
        BY <2>3, <4>1, <4>2
      <4>4. p[1] = q[1]
        <5>1. p[1] \in {L, U} /\ q[1] \in {L, U}
          BY <1>5, <3>2, <4>2
        <5>2. LiesIn(p[2], p[1]) /\ LiesIn(p[2], q[1]) /\ p[2] \in Blocks
          BY <1>4, <4>3
        <5>3. ~(LiesIn(p[2], L) /\ LiesIn(p[2], U))
          BY <1>1, <5>2, BlockFacts DEF LiesIn
        <5> QED
          BY <5>1, <5>2, <5>3
      <4> QED
        BY <1>4, <4>3, <4>4
    <3> QED
      BY <3>1, <3>2
  <2> HIDE DEF f, C
  <2> QED
    BY <2>2, <2>3 DEF Injection, IsInjective
<1>7. <<x, x>> \in Cuts(S)
  BY <1>1, BlockFacts DEF Cuts, LiesIn
<1>8. IsFiniteSet(C) /\ Cardinality(C) = Cardinality(Cuts(S)) - 1
  BY <1>3, <1>7, FS_RemoveElement
<1> HIDE DEF T, C, f
<1>9. Cardinality(Cuts(T)) <= Cardinality(C)
  BY <1>6, <1>8, FS_Injection
<1>10. Cardinality(Cuts(T)) < Cardinality(Cuts(S))
  BY <1>3, <1>8, <1>9, FS_CardinalityType
<1> QED
  BY <1>10 DEF T

LEMMA TurnLeavesLess ==
    ASSUME IInv, Turn
    PROVE  Eclipsed \/ Doubled \/ Cardinality(Cuts(Left)') < Cardinality(Cuts(Left))
<1> SUFFICES ASSUME ~Eclipsed, ~Doubled
             PROVE  Cardinality(Cuts(Left)') < Cardinality(Cuts(Left))
  OBVIOUS
<1>1. InOrder /\ OnCourse
  BY DEF IInv, InOrder, Ascending, Turn
<1>2. Left \in SUBSET Networks /\ TakenOrCut(Left, Left')
  BY <1>1, TurnOnCourse DEF OnCourse
<1>3. Cardinality(Cuts(Left')) < Cardinality(Cuts(Left))
  BY <1>2, FewerPieces, SmallerPieces DEF TakenOrCut
<1>4. Cuts(Left)' = Cuts(Left')
  BY DEF Cuts, Networks, Addresses, Aligned, LiesIn, Last, Size
<1> QED
  BY <1>3, <1>4

\* But for the networks named above, each turn of the loop leaves less to be looked at,
\* and what it counts is finite (LEMMA CutsFinite): so the loop ends, for addresses of any
\* width, if it goes on at all.
THEOREM TurnsLeaveLess == Spec => TurnsCount
<1>1. IInv /\ [Next]_vars
          => [Turn => \/ Eclipsed \/ Doubled
                      \/ Cardinality(Cuts(Left)') < Cardinality(Cuts(Left))]_vars
  BY TurnLeavesLess
<1> QED
  BY <1>1, Inductive, PTL DEF Spec, TurnsCount

=============================================================================
