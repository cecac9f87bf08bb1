---------------------------- MODULE NetworkSpace ----------------------------
(***************************************************************************)
(* The routes of an OpenVPN tunnel (open/, NetworkSpace.java).  A session  *)
(* says which networks go through the tunnel and which do not; before      *)
(* Android 13 the VpnService API takes only the former, so generateIPList  *)
(* turns the networks, which may lie in each other, into a list of         *)
(* networks that do not, splitting the greater ones in halves.             *)
(*                                                                         *)
(* An address is a number of Bits bits, and a network is known by its      *)
(* first address and the length of its mask.  The class runs the same code *)
(* with 32 and 128 bits.  One step is one turn of the loop.  addIPSplit    *)
(* and clear, which nobody calls, are left out.                            *)
(***************************************************************************)
EXTENDS Integers, FiniteSets, Bags

CONSTANTS
    Bits,         \* of an address: 32, or 128
    MaxNetworks,  \* bound: networks of a tunnel
    NoNet         \* null

Prefixes == [first : Nat, mask : Nat, included : BOOLEAN]

ASSUME BitsAssumption == Bits \in Nat /\ MaxNetworks \in Nat /\ NoNet \notin Prefixes

\* What the provers do not know of powers.
ASSUME PowersOfTwo == 2 ^ 0 = 1 /\ \A k \in 0 .. Bits - 1 : 2 ^ (k + 1) = 2 * 2 ^ k

VARIABLES
    mIpAddresses,  \* the networks of the tunnel
    generating,    \* generateIPList has been called
    networks,      \* its queue, in which the same network may be twice
    currentNet,    \* its local variable, or NoNet
    ipsDone        \* its result

vars == <<mIpAddresses, generating, networks, currentNet, ipsDone>>

-----------------------------------------------------------------------------
(* Networks.                                                               *)

Size(mask) == IF mask < Bits THEN 2 ^ (Bits - mask) ELSE 1

\* getLastAddress: the bits that the mask leaves are set, if it leaves any.
Last(n) == n.first + Size(n.mask) - 1

Covers(n, a) == n.first <= a /\ a <= Last(n)

\* equals and compareTo, neither of which looks at `included'.
Same(m, n) == m.first = n.first /\ m.mask = n.mask

\* Mutant of Before: the greater of two networks that begin together comes first.
GreaterFirst(m, n) ==
    m.first < n.first \/ (m.first = n.first /\ m.mask < n.mask)

Before(m, n) ==
    m.first < n.first \/ (m.first = n.first /\ m.mask > n.mask)

\* split: a network of one address becomes that address and the one after it.
LowerHalf(n) == [n EXCEPT !.mask = @ + 1]
UpperHalf(n) == [LowerHalf(n) EXCEPT !.first = Last(LowerHalf(n)) + 1]

\* A network begins at a multiple of its size.
Aligned(n) == n.mask <= Bits /\ n.first % Size(n.mask) = 0

Addresses == 0 .. 2 ^ Bits - 1
Networks ==
    {n \in [first : Addresses, mask : 0 .. Bits, included : BOOLEAN] : Aligned(n)}

Init ==
    /\ mIpAddresses = {} /\ generating = FALSE
    /\ networks = EmptyBag /\ currentNet = NoNet /\ ipsDone = {}

-----------------------------------------------------------------------------
(* The queue.                                                              *)

\* What networks.poll() may return: the least, and any of those that are equal.
Least(q) == {n \in BagToSet(q) : \A m \in BagToSet(q) : ~Before(m, n)}
Polled(q) == IF q = EmptyBag THEN {NoNet} ELSE Least(q)
Rest(q, n) == IF n = NoNet THEN q ELSE q (-) SetToBag({n})

Contains(q, n) == \E m \in BagToSet(q) : Same(m, n)

\* Mutant of Missing: puts back what the queue has in it.
NotLookedFor(q, S) == S

Missing(q, S) == {n \in S : ~Contains(q, n)}

-----------------------------------------------------------------------------
\* addIP and addIPv6: the first of two equal networks stays.
AddIP(n) ==
    /\ ~generating /\ Cardinality(mIpAddresses) < MaxNetworks
    /\ ~\E m \in mIpAddresses : Same(m, n)
    /\ mIpAddresses' = mIpAddresses \cup {n}
    /\ UNCHANGED <<generating, networks, currentNet, ipsDone>>

\* openTun asks for getPositiveIPList.
Begin ==
    /\ ~generating
    /\ generating' = TRUE
    /\ LET q == SetToBag(mIpAddresses)
       IN \E n \in Polled(q) : currentNet' = n /\ networks' = Rest(q, n)
    /\ UNCHANGED <<mIpAddresses, ipsDone>>

Done == generating /\ currentNet = NoNet

PositiveIPList == {n \in ipsDone : n.included}

\* openTun has returned, which it may do before it asks for the routes, and a new
\* TunConfig begins.
Reset ==
    /\ currentNet = NoNet
    /\ mIpAddresses' = {} /\ generating' = FALSE /\ ipsDone' = {}
    /\ UNCHANGED <<networks, currentNet>>

\* Mutant of Apart: compares where the two networks begin.
BeginApart(next) == next # NoNet => currentNet.first < next.first

Apart(next) == next # NoNet => Last(currentNet) < next.first

\* currentNet begins with the next network and is no greater.
LiesInNext(next) ==
    /\ ~Apart(next)
    /\ currentNet.first = next.first /\ currentNet.mask >= next.mask

LiesInCurrent(next) == ~Apart(next) /\ ~LiesInNext(next)

Alike(next) == currentNet.included = next.included

\* "Everything good, no overlapping nothing to do".
Keep(next) ==
    /\ Apart(next)
    /\ ipsDone' = IF \E n \in ipsDone : Same(n, currentNet) THEN ipsDone
                  ELSE ipsDone \cup {currentNet}
    /\ currentNet' = next
    /\ networks' = Rest(networks, next)

\* Mutant of ForgetCurrent: puts the next network back as well.
ForgetNothing(next) ==
    /\ LiesInNext(next) /\ Alike(next)
    /\ currentNet' = next
    /\ UNCHANGED <<networks, ipsDone>>

\* "Included in the next next and same type".
ForgetCurrent(next) ==
    /\ LiesInNext(next) /\ Alike(next)
    /\ currentNet' = next
    /\ networks' = Rest(networks, next)
    /\ UNCHANGED ipsDone

\* The halves of the next network, but for the one that currentNet is.
SplitNext(next) ==
    /\ LiesInNext(next) /\ ~Alike(next)
    /\ LET rest  == Rest(networks, next)
           lower == {n \in {LowerHalf(next)} : Last(n) # Last(currentNet)}
       IN networks' =
              rest (+) SetToBag(Missing(rest, {UpperHalf(next)} \cup lower))
    /\ UNCHANGED <<currentNet, ipsDone>>

\* "Simply ignore the next and move on".
IgnoreNext(next) ==
    /\ LiesInCurrent(next) /\ Alike(next)
    /\ networks' = Rest(networks, next)
    /\ UNCHANGED <<currentNet, ipsDone>>

\* The upper half is put into the queue whether or not it is there, unless it
\* is as great as the next network, which then should be that half.
SplitCurrent(next) ==
    /\ LiesInCurrent(next) /\ ~Alike(next)
    /\ LET upper == {n \in {UpperHalf(currentNet)} : n.mask # next.mask}
       IN networks' = networks (+) SetToBag(upper)
    /\ currentNet' = LowerHalf(currentNet)
    /\ UNCHANGED ipsDone

Turn ==
    /\ currentNet # NoNet
    /\ \E next \in Polled(networks) :
          \/ Keep(next) \/ ForgetCurrent(next) \/ SplitNext(next)
          \/ IgnoreNext(next) \/ SplitCurrent(next)
    /\ UNCHANGED <<mIpAddresses, generating>>

Next == (\E n \in Networks : AddIP(n)) \/ Begin \/ Turn \/ Reset

\* The loop goes on; nobody has to open a tunnel.
Spec == Init /\ [][Next]_vars /\ WF_vars(Turn)

-----------------------------------------------------------------------------
TypeOK ==
    /\ mIpAddresses \subseteq Prefixes /\ ipsDone \subseteq Prefixes
    /\ generating \in BOOLEAN
    /\ BagToSet(networks) \subseteq Prefixes
    /\ currentNet \in Prefixes \cup {NoNet}

\* No two of the routes overlap: what was split and put back is met again in
\* order, and nothing comes back that begins before what is done.  (The order
\* of the queue in generateIPList.)
Disjoint ==
    \A m, n \in ipsDone : m = n \/ Last(m) < n.first \/ Last(n) < m.first

\* The networks are taken in ascending order.
Ascending ==
    /\ currentNet = NoNet => BagToSet(networks) = {}
    /\ currentNet # NoNet =>
           /\ \A n \in BagToSet(networks) : currentNet.first <= n.first
           /\ \A n \in ipsDone : Last(n) < currentNet.first
    /\ ~generating => currentNet = NoNet /\ ipsDone = {}

\* How the loop goes through the networks, whatever they are.  (generateIPList.)
InOrder == TypeOK /\ Disjoint /\ Ascending

\* What the routes are to be: the smallest network that an address lies in says
\* whether it goes through the tunnel.
Routed(a) ==
    \E n \in mIpAddresses :
        /\ n.included /\ Covers(n, a)
        /\ \A m \in mIpAddresses : Covers(m, a) => m.mask <= n.mask

Emulates ==
    Done => /\ PositiveIPList \subseteq Networks
            /\ \A a \in Addresses :
                  Routed(a) <=> \E n \in PositiveIPList : Covers(n, a)

\* Where generateIPList goes wrong.  A network is forgotten as part of a greater
\* one of its type, though a third of the other type lies between the two and
\* begins where the smallest does.
Within(m, n) == n.mask < m.mask /\ Covers(n, m.first)

Eclipses(p, n, m) ==
    /\ Within(p, n) /\ Within(n, m) /\ p.first = n.first
    /\ p.included = m.included /\ p.included # n.included

Eclipsed == \E p, n, m \in mIpAddresses : Eclipses(p, n, m)

\* And the half of a network that was split is put beside the very network that
\* the session has said something about.
IsUpperHalf(n) == n.first % (2 * Size(n.mask)) = Size(n.mask)

Doubles(p, n, m) ==
    /\ Within(n, m) /\ IsUpperHalf(n)
    /\ p.mask > n.mask /\ n.first - Size(n.mask) <= p.first /\ p.first <= n.first
    /\ p.included # m.included

Doubled == \E p, n, m \in mIpAddresses : Doubles(p, n, m)

\* In all other cases what comes out are networks, and each address is routed as
\* the session says, however the networks lie in each other and whatever pieces
\* they are cut into.
EmulatesElse == Eclipsed \/ Doubled \/ Emulates

\* And the assertions that a debug build makes on the way hold: those of split
\* and of the three cases of the loop.
Halves(n) == Last(UpperHalf(n)) = Last(n)
AssertionsOf(next) ==
    /\ LiesInNext(next) /\ ~Alike(next) =>
           /\ Halves(next)
           /\ Last(LowerHalf(next)) = Last(currentNet) =>
                  LowerHalf(next).mask = currentNet.mask
    /\ LiesInCurrent(next) =>
           /\ currentNet.mask < next.mask
           /\ currentNet.first < next.first /\ Last(next) <= Last(currentNet)
    /\ LiesInCurrent(next) /\ ~Alike(next) =>
           /\ Halves(currentNet)
           /\ UpperHalf(currentNet).mask = next.mask =>
                  Same(UpperHalf(currentNet), next)
AssertionsElse ==
    Eclipsed \/ Doubled \/ currentNet = NoNet
        \/ \A next \in Polled(networks) \ {NoNet} : AssertionsOf(next)

-----------------------------------------------------------------------------
(* Why: what is true of a session's networks stays true of the pieces that *)
(* they are cut into.                                                      *)

\* Each is there once, whatever its type.
Distinct(S) == \A m, n \in S : Same(m, n) => m = n

\* What is left for the loop.
Left == BagToSet(networks) \cup ({currentNet} \ {NoNet})

\* m is being cut around c, which it begins with, and not at n: n either lies in c
\* or is what the cutting leaves beside c.
CutAround(c, n, m) ==
    /\ c.first = m.first /\ c.included # m.included
    /\ n.first - Size(n.mask) = m.first \/ Within(n, c)

\* The pieces S, of which c is the current one, are a session's networks: the queue
\* holds each once and behind c, and neither nesting has come about by cutting but
\* where it does no harm.
Pieces(S, c) ==
    /\ c \in S /\ Distinct(S)
    /\ \A n \in S : Aligned(n) /\ (n = c \/ Before(c, n))
    /\ \A p, n, m \in S : ~Eclipses(p, n, m)
    /\ \A p, n, m \in S : Doubles(p, n, m) => CutAround(c, n, m)

\* An included network that an address lies in is smaller than all the excluded
\* ones that it lies in.
RoutedBy(S, a) ==
    \E n \in S :
        /\ n.included /\ Covers(n, a)
        /\ \A m \in S : Covers(m, a) /\ ~m.included => m.mask < n.mask

\* What is left and what is done route the addresses as the session's networks do.
OnCourse ==
    /\ networks = SetToBag(Left \ {currentNet})
    /\ currentNet # NoNet => Pieces(Left, currentNet)
    /\ Left \cup ipsDone \subseteq Networks
    /\ \A a \in Addresses : RoutedBy(Left \cup ipsDone, a) <=> RoutedBy(mIpAddresses, a)

\* The inductive invariant.  (generateIPList.)
IInv ==
    /\ InOrder
    /\ mIpAddresses \subseteq Networks /\ Distinct(mIpAddresses)
    /\ generating => Eclipsed \/ Doubled \/ OnCourse

\* What the loop may still have to look at: what is left, with all that it can be
\* cut into.
LiesIn(n, m) == m.first <= n.first /\ Last(n) <= Last(m)
Cuts(S) ==
    {p \in S \X Networks : p[2].included = p[1].included /\ LiesIn(p[2], p[1])}

\* Each turn leaves less, though it may put back more than it takes.  (The loop of
\* generateIPList.)
TurnsCount ==
    [][Turn => \/ Eclipsed \/ Doubled
               \/ Cardinality(Cuts(Left)') < Cardinality(Cuts(Left))]_vars

\* And so the loop ends, in those two cases as well.
Ends == generating ~> Done

=============================================================================
