------------------------- MODULE NetworkSpaceProofs -------------------------
(* Theorems about NetworkSpace, for addresses of any width and any number  *)
(* of networks.                                                            *)
EXTENDS NetworkSpace, WellFoundedInduction, TLAPS

-----------------------------------------------------------------------------
(* What the queue holds, and not how often.                                *)

\* The queue that is made of a set, and what the two bag operators do to the set
\* of what is in a queue.
LEMMA BagFacts ==
    ASSUME NEW q, NEW S
    PROVE  /\ BagToSet(SetToBag(S)) = S
           /\ BagToSet(EmptyBag) = {}
           /\ BagToSet(q (+) SetToBag(S)) = BagToSet(q) \cup S
           /\ BagToSet(q (-) SetToBag(S)) \subseteq BagToSet(q)
<1>1. /\ DOMAIN SetToBag(S) = S
      /\ DOMAIN EmptyBag = {}
  BY DEF SetToBag, EmptyBag
<1>2. DOMAIN (q (+) SetToBag(S)) = DOMAIN q \cup S
  BY <1>1 DEF (+)
<1>3. DOMAIN (q (-) SetToBag(S)) \subseteq DOMAIN q
  BY DEF (-)
<1> QED
  BY <1>1, <1>2, <1>3 DEF BagToSet

\* What is left of a queue was in it, and what is polled is as small as all of it.
LEMMA QueueFacts ==
    ASSUME NEW q, BagToSet(q) \subseteq Prefixes, NEW n \in Polled(q)
    PROVE  /\ n \in Prefixes \cup {NoNet}
           /\ BagToSet(Rest(q, n)) \subseteq BagToSet(q)
           /\ n = NoNet => BagToSet(q) = {}
           /\ n # NoNet => /\ n \in BagToSet(q)
                           /\ \A m \in BagToSet(q) : n.first <= m.first
<1>1. NoNet \notin Prefixes
  BY BitsAssumption
<1>2. BagToSet(Rest(q, n)) \subseteq BagToSet(q)
  BY BagFacts DEF Rest
<1>3. CASE q = EmptyBag
  BY <1>2, <1>3, BagFacts DEF Polled
<1>4. CASE q # EmptyBag
  <2>1. n \in BagToSet(q) /\ \A m \in BagToSet(q) : ~Before(m, n)
    BY <1>4 DEF Polled, Least
  <2>2. \A m \in BagToSet(q) : m.first \in Nat /\ n.first \in Nat
    BY <2>1 DEF Prefixes
  <2>3. \A m \in BagToSet(q) : n.first <= m.first
    BY <2>1, <2>2 DEF Before
  <2> QED
    BY <1>1, <1>2, <2>1, <2>3
<1> QED
  BY <1>3, <1>4

-----------------------------------------------------------------------------
(* Networks.                                                               *)

\* A set of numbers that is not empty has a least one: with it, what holds of 0 and
\* passes from each number to the next holds of all, the least exception being none.
LEMMA LeastNumber ==
    ASSUME NEW T \in SUBSET Nat, T # {}
    PROVE  \E x \in T : \A y \in T : x <= y
<1> DEFINE R == OpToRel(<, Nat)
<1>1. IsWellFoundedOn(R, Nat)
  BY NatLessThanWellFounded
<1>2. ASSUME NEW x \in Nat, NEW y \in Nat, y < x PROVE <<y, x>> \in R
  BY <1>2 DEF OpToRel
<1> HIDE DEF R
<1>3. PICK x \in T : \A y \in T : ~(<<y, x>> \in R)
  BY <1>1, WFMin
<1>4. ASSUME NEW y \in T PROVE x <= y
  <2>1. x \in Nat /\ y \in Nat /\ ~(<<y, x>> \in R)
    BY <1>3
  <2>2. ~(y < x)
    BY <2>1, <1>2
  <2> QED
    BY <2>1, <2>2
<1> QED
  BY <1>4

LEMMA PowersArePositive == \A k \in 0 .. Bits : 2 ^ k \in Nat \ {0}
<1> DEFINE T == {k \in 0 .. Bits : ~(2 ^ k \in Nat \ {0})}
<1>1. SUFFICES ASSUME T # {} PROVE FALSE
  OBVIOUS
<1>2. PICK k \in T : \A j \in T : k <= j
  <2>1. T \in SUBSET Nat
    BY BitsAssumption
  <2> HIDE DEF T
  <2> QED
    BY <1>1, <2>1, LeastNumber
<1>3. k \in 0 .. Bits /\ ~(2 ^ k \in Nat \ {0})
  OBVIOUS
<1>4. k # 0
  <2>1. 1 \in Nat \ {0} /\ 2 ^ 0 = 1
    BY PowersOfTwo
  <2> QED
    BY <1>3, <2>1, Zenon
<1>5. k - 1 \in 0 .. Bits - 1 /\ k - 1 \in 0 .. Bits /\ ~(k <= k - 1) /\ (k - 1) + 1 = k
  <2>1. k \in 0 .. Bits /\ Bits \in Nat
    BY BitsAssumption
  <2> HIDE DEF T
  <2> QED
    BY <1>4, <2>1
<1>6. 2 ^ (k - 1) \in Nat \ {0}
  BY <1>2, <1>5
<1>7. 2 ^ k = 2 * 2 ^ (k - 1)
  BY <1>5, PowersOfTwo
<1> QED
  BY <1>3, <1>6, <1>7

LEMMA SizeFacts ==
    ASSUME NEW k \in Nat
    PROVE  /\ Size(k) \in Nat \ {0}
           /\ k = Bits => Size(k) = 1
           /\ k < Bits => Size(k) = 2 * Size(k + 1)
<1>1. CASE k < Bits
  <2>1. /\ Bits - k \in 0 .. Bits /\ Bits - (k + 1) \in 0 .. Bits - 1
        /\ (Bits - (k + 1)) + 1 = Bits - k
    BY <1>1, BitsAssumption
  <2>2. 2 ^ (Bits - k) = 2 * 2 ^ (Bits - (k + 1))
    BY <2>1, PowersOfTwo
  <2>3. Size(k + 1) = 2 ^ (Bits - (k + 1))
    <3>1. CASE k + 1 < Bits
      BY <3>1 DEF Size
    <3>2. CASE ~(k + 1 < Bits)
      <4>1. Bits - (k + 1) = 0
        BY <1>1, <3>2, BitsAssumption
      <4> QED
        BY <3>2, <4>1, PowersOfTwo DEF Size
    <3> QED
      BY <3>1, <3>2
  <2>4. Size(k) = 2 ^ (Bits - k) /\ 2 ^ (Bits - k) \in Nat \ {0} /\ k # Bits
    BY <1>1, <2>1, PowersArePositive DEF Size
  <2> QED
    BY <2>2, <2>3, <2>4
<1>2. CASE ~(k < Bits)
  BY <1>2, BitsAssumption DEF Size
<1> QED
  BY <1>1, <1>2

\* A network ends where it begins or later.
LEMMA LastFacts ==
    ASSUME NEW n \in Prefixes
    PROVE  n.first \in Nat /\ Last(n) \in Nat /\ n.first <= Last(n)
<1>1. n.first \in Nat /\ n.mask \in Nat
  BY DEF Prefixes
<1>2. Size(n.mask) \in Nat \ {0}
  BY <1>1, SizeFacts
<1> QED
  BY <1>1, <1>2 DEF Last

\* The halves of a network begin where it does or later.
LEMMA HalfFacts ==
    ASSUME NEW n \in Prefixes
    PROVE  /\ LowerHalf(n) \in Prefixes /\ LowerHalf(n).first = n.first
           /\ UpperHalf(n) \in Prefixes /\ n.first <= UpperHalf(n).first
<1>1. n.first \in Nat /\ n.mask \in Nat /\ n.included \in BOOLEAN
  BY DEF Prefixes
<1>2. LowerHalf(n) \in Prefixes /\ LowerHalf(n).first = n.first
  BY <1>1 DEF LowerHalf, Prefixes
<1>3. Last(LowerHalf(n)) \in Nat /\ n.first <= Last(LowerHalf(n))
  BY <1>2, LastFacts
<1>4. UpperHalf(n) \in Prefixes /\ UpperHalf(n).first = Last(LowerHalf(n)) + 1
  BY <1>2, <1>3 DEF UpperHalf, Prefixes
<1> QED
  BY <1>1, <1>2, <1>3, <1>4

\* The networks that a session adds are networks.
LEMMA NetworksTyped == Networks \subseteq Prefixes
<1>1. Bits \in Nat /\ 2 ^ Bits \in Nat
  BY BitsAssumption, PowersArePositive
<1>2. Addresses \subseteq Nat
  BY <1>1 DEF Addresses
<1>3. ASSUME NEW n \in Networks PROVE n \in Prefixes
  <2>1. n \in [first : Addresses, mask : 0 .. Bits, included : BOOLEAN]
    BY Zenon DEF Networks
  <2>2. 0 .. Bits \subseteq Nat
    OBVIOUS
  <2> QED
    BY <1>2, <2>1, <2>2, Zenon DEF Prefixes
<1> QED
  BY <1>3

-----------------------------------------------------------------------------
(* The loop.                                                               *)

LEMMA InitInv == Init => InOrder
<1> SUFFICES ASSUME Init PROVE InOrder
  OBVIOUS
<1>1. BagToSet(networks) = {} /\ currentNet = NoNet /\ ipsDone = {}
  BY BagFacts DEF Init
<1> QED
  BY <1>1 DEF Init, InOrder, TypeOK, Disjoint, Ascending

LEMMA AddIPInv == ASSUME InOrder, NEW n \in Networks, AddIP(n) PROVE InOrder'
<1>1. n \in Prefixes
  BY NetworksTyped
<1> QED
  BY <1>1 DEF AddIP, InOrder, TypeOK, Disjoint, Ascending, Last, Size

\* The least of all the networks is taken first.
LEMMA BeginInv == ASSUME InOrder, Begin PROVE InOrder'
<1> DEFINE q == SetToBag(mIpAddresses)
<1>1. BagToSet(q) = mIpAddresses
  BY BagFacts
<1>2. mIpAddresses \subseteq Prefixes /\ ipsDone = {}
  BY DEF Begin, InOrder, TypeOK, Ascending
<1>3. PICK n \in Polled(q) : currentNet' = n /\ networks' = Rest(q, n)
  BY DEF Begin
<1>4. /\ n \in Prefixes \cup {NoNet} /\ BagToSet(Rest(q, n)) \subseteq mIpAddresses
      /\ n = NoNet => mIpAddresses = {}
      /\ n # NoNet => \A m \in mIpAddresses : n.first <= m.first
  BY <1>1, <1>2, QueueFacts
<1>5. TypeOK'
  BY <1>2, <1>3, <1>4 DEF Begin, TypeOK
<1>6. Disjoint'
  BY <1>2 DEF Begin, Disjoint
<1>7. Ascending'
  BY <1>2, <1>3, <1>4 DEF Begin, Ascending
<1> QED
  BY <1>5, <1>6, <1>7 DEF InOrder

LEMMA ResetInv == ASSUME InOrder, Reset PROVE InOrder'
BY DEF Reset, InOrder, TypeOK, Disjoint, Ascending

\* A turn moves currentNet to something that begins no earlier, and puts into the
\* queue only what begins no earlier than that: so the order is kept, if what is
\* done is.
LEMMA TurnKeepsOrder ==
    ASSUME InOrder, NEW next \in Polled(networks), generating' = generating,
           mIpAddresses' = mIpAddresses, currentNet # NoNet,
           ipsDone' = ipsDone, currentNet' \in Prefixes,
           currentNet.first <= currentNet'.first,
           NEW S \in SUBSET Prefixes,
           \A n \in S : currentNet'.first <= n.first,
           BagToSet(networks') \subseteq BagToSet(networks) \cup S,
           \A n \in BagToSet(networks) : currentNet'.first <= n.first
    PROVE  InOrder'
<1>1. currentNet' # NoNet
  BY BitsAssumption
<1>2. currentNet \in Prefixes /\ currentNet.first \in Nat /\ currentNet'.first \in Nat
  BY LastFacts DEF InOrder, TypeOK
<1>3. TypeOK'
  BY DEF InOrder, TypeOK
<1>4. Disjoint'
  BY DEF InOrder, Disjoint
<1>5. ASSUME NEW n \in ipsDone PROVE Last(n) < currentNet'.first
  <2>1. n \in Prefixes /\ Last(n) < currentNet.first
    BY <1>5 DEF InOrder, TypeOK, Ascending
  <2>2. Last(n) \in Nat
    BY <2>1, LastFacts
  <2> QED
    BY <1>2, <2>1, <2>2
<1>6. Ascending'
  <2>1. generating
    BY DEF InOrder, Ascending
  <2> QED
    BY <1>1, <1>5, <2>1 DEF Ascending
<1> QED
  BY <1>3, <1>4, <1>6 DEF InOrder

\* Everything that is left begins no earlier than currentNet.
LEMMA TurnFacts ==
    ASSUME InOrder, currentNet # NoNet, NEW next \in Polled(networks)
    PROVE  /\ currentNet \in Prefixes /\ currentNet.first \in Nat
           /\ next \in Prefixes \cup {NoNet}
           /\ BagToSet(Rest(networks, next)) \subseteq BagToSet(networks)
           /\ BagToSet(networks) \subseteq Prefixes
           /\ \A n \in BagToSet(networks) : currentNet.first <= n.first
           /\ next = NoNet => BagToSet(networks) = {}
           /\ next # NoNet =>
                  /\ next \in Prefixes /\ next.first \in Nat /\ currentNet.first <= next.first
                  /\ \A n \in BagToSet(networks) : next.first <= n.first
<1>1. /\ currentNet \in Prefixes /\ BagToSet(networks) \subseteq Prefixes
      /\ \A n \in BagToSet(networks) : currentNet.first <= n.first
  BY DEF InOrder, TypeOK, Ascending
<1>2. currentNet.first \in Nat
  BY <1>1, LastFacts
<1>3. /\ next \in Prefixes \cup {NoNet}
      /\ BagToSet(Rest(networks, next)) \subseteq BagToSet(networks)
      /\ next = NoNet => BagToSet(networks) = {}
      /\ next # NoNet => /\ next \in BagToSet(networks)
                         /\ \A m \in BagToSet(networks) : next.first <= m.first
  BY <1>1, QueueFacts
<1>4. next # NoNet => next \in Prefixes /\ next.first \in Nat /\ currentNet.first <= next.first
  <2>1. next # NoNet => next \in Prefixes
    BY <1>3
  <2>2. next # NoNet => next.first \in Nat
    BY <2>1, LastFacts
  <2> QED
    BY <1>1, <1>3, <2>1, <2>2
<1> QED
  BY <1>1, <1>2, <1>3, <1>4

\* What is done ends before everything that is left.
LEMMA KeepInv ==
    ASSUME InOrder, currentNet # NoNet, NEW next \in Polled(networks), Keep(next),
           UNCHANGED <<mIpAddresses, generating>>
    PROVE  InOrder'
<1>1. /\ currentNet' = next /\ networks' = Rest(networks, next)
      /\ ipsDone' \subseteq ipsDone \cup {currentNet}
      /\ next # NoNet => Last(currentNet) < next.first
  BY DEF Keep, Apart
<1>2. TypeOK'
  BY <1>1, TurnFacts DEF InOrder, TypeOK
<1>3. \A n \in ipsDone : Last(n) < currentNet.first
  BY DEF InOrder, Ascending
<1>4. Disjoint'
  BY <1>1, <1>3 DEF InOrder, Disjoint
<1>5. ASSUME NEW n \in ipsDone', next # NoNet PROVE Last(n) < next.first
  <2>1. CASE n = currentNet
    BY <1>1, <1>5, <2>1
  <2>2. CASE n # currentNet
    <3>1. n \in ipsDone /\ n \in Prefixes /\ Last(n) < currentNet.first
      BY <1>1, <1>3, <1>5, <2>2 DEF InOrder, TypeOK
    <3>2. /\ Last(n) \in Nat /\ currentNet.first \in Nat /\ next.first \in Nat
          /\ currentNet.first <= next.first
      BY <1>5, <3>1, LastFacts, TurnFacts
    <3> QED
      BY <3>1, <3>2
  <2> QED
    BY <2>1, <2>2
<1>6. Ascending'
  <2>1. generating /\ generating' = generating
    BY DEF InOrder, Ascending
  <2> QED
    BY <1>1, <1>5, <2>1, TurnFacts DEF Ascending
<1> QED
  BY <1>2, <1>4, <1>6 DEF InOrder

LEMMA TurnInv == ASSUME InOrder, Turn PROVE InOrder'
<1>0. currentNet # NoNet /\ mIpAddresses' = mIpAddresses /\ generating' = generating
  BY DEF Turn
<1>1. PICK next \in Polled(networks) :
          \/ Keep(next) \/ ForgetCurrent(next) \/ SplitNext(next)
          \/ IgnoreNext(next) \/ SplitCurrent(next)
  BY DEF Turn
<1>2. CASE Keep(next)
  BY <1>0, <1>2, KeepInv
<1>3. CASE ForgetCurrent(next)
  <2> DEFINE S == {}
  <2>1. next # NoNet /\ currentNet.first = next.first
    BY <1>3 DEF ForgetCurrent, LiesInNext, Apart
  <2>2. currentNet' = next /\ networks' = Rest(networks, next) /\ ipsDone' = ipsDone
    BY <1>3 DEF ForgetCurrent
  <2>3. /\ currentNet' \in Prefixes /\ currentNet.first <= currentNet'.first
        /\ BagToSet(networks') \subseteq BagToSet(networks) \cup S
        /\ \A n \in BagToSet(networks) : currentNet'.first <= n.first
    BY <1>0, <2>1, <2>2, TurnFacts
  <2>4. S \in SUBSET Prefixes /\ \A n \in S : currentNet'.first <= n.first
    OBVIOUS
  <2> HIDE DEF S
  <2> QED
    BY <1>0, <2>2, <2>3, <2>4, TurnKeepsOrder
<1>4. CASE SplitNext(next)
  <2> DEFINE rest  == Rest(networks, next)
             lower == {n \in {LowerHalf(next)} : Last(n) # Last(currentNet)}
             S     == Missing(rest, {UpperHalf(next)} \cup lower)
  <2>1. next # NoNet /\ currentNet.first = next.first
    BY <1>4 DEF SplitNext, LiesInNext, Apart
  <2>2. currentNet' = currentNet /\ ipsDone' = ipsDone /\ networks' = rest (+) SetToBag(S)
    BY <1>4 DEF SplitNext
  <2>3. S \subseteq {UpperHalf(next), LowerHalf(next)}
    BY DEF Missing
  <2>4. S \in SUBSET Prefixes /\ \A n \in S : currentNet'.first <= n.first
    BY <1>0, <2>1, <2>2, <2>3, TurnFacts, HalfFacts
  <2>5. BagToSet(networks') = BagToSet(rest) \cup S
    BY <2>2, BagFacts
  <2>6. /\ currentNet' \in Prefixes /\ currentNet.first <= currentNet'.first
        /\ BagToSet(networks') \subseteq BagToSet(networks) \cup S
        /\ \A n \in BagToSet(networks) : currentNet'.first <= n.first
    BY <1>0, <2>2, <2>5, TurnFacts
  <2> HIDE DEF S, rest
  <2> QED
    BY <1>0, <2>2, <2>4, <2>6, TurnKeepsOrder
<1>5. CASE IgnoreNext(next)
  <2> DEFINE S == {}
  <2>1. currentNet' = currentNet /\ networks' = Rest(networks, next) /\ ipsDone' = ipsDone
    BY <1>5 DEF IgnoreNext
  <2>2. /\ currentNet' \in Prefixes /\ currentNet.first <= currentNet'.first
        /\ BagToSet(networks') \subseteq BagToSet(networks) \cup S
        /\ \A n \in BagToSet(networks) : currentNet'.first <= n.first
    BY <1>0, <2>1, TurnFacts
  <2>3. S \in SUBSET Prefixes /\ \A n \in S : currentNet'.first <= n.first
    OBVIOUS
  <2> HIDE DEF S
  <2> QED
    BY <1>0, <2>1, <2>2, <2>3, TurnKeepsOrder
<1>6. CASE SplitCurrent(next)
  <2> DEFINE S == {n \in {UpperHalf(currentNet)} : n.mask # next.mask}
  <2>1. /\ currentNet' = LowerHalf(currentNet) /\ ipsDone' = ipsDone
        /\ networks' = networks (+) SetToBag(S)
    BY <1>6 DEF SplitCurrent
  <2>2. BagToSet(networks') = BagToSet(networks) \cup S
    BY <2>1, BagFacts
  <2>3. /\ currentNet' \in Prefixes /\ currentNet'.first = currentNet.first
        /\ S \in SUBSET Prefixes /\ \A n \in S : currentNet.first <= n.first
    BY <1>0, <2>1, TurnFacts, HalfFacts
  <2>4. /\ currentNet.first <= currentNet'.first
        /\ \A n \in S : currentNet'.first <= n.first
        /\ \A n \in BagToSet(networks) : currentNet'.first <= n.first
    BY <1>0, <2>3, TurnFacts
  <2> HIDE DEF S
  <2> QED
    BY <1>0, <2>1, <2>2, <2>3, <2>4, TurnKeepsOrder
<1> QED
  BY <1>1, <1>2, <1>3, <1>4, <1>5, <1>6

\* The queue is taken in ascending order and nothing is put back that begins
\* before what is done (generateIPList).
THEOREM TakenInOrder == Spec => []InOrder
<1>1. Init => InOrder
  BY InitInv
<1>2. InOrder /\ [Next]_vars => InOrder'
  <2> SUFFICES ASSUME InOrder, [Next]_vars PROVE InOrder'
    OBVIOUS
  <2>1. CASE UNCHANGED vars
    BY <2>1 DEF vars, InOrder, TypeOK, Disjoint, Ascending
  <2>2. CASE Next
    BY <2>2, AddIPInv, BeginInv, TurnInv, ResetInv DEF Next
  <2> QED
    BY <2>1, <2>2
<1> QED
  BY <1>1, <1>2, PTL DEF Spec

\* No two of the networks that generateIPList returns have an address in common,
\* whatever the session has said, however wide the addresses are, and whichever
\* of several equal networks the queue gives first.
THEOREM RoutesDisjoint == Spec => []Disjoint
<1>1. InOrder => Disjoint
  BY DEF InOrder
<1> QED
  BY <1>1, TakenInOrder, PTL

=============================================================================
