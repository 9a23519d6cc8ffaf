--------------------------- MODULE PageAllocLemmas ---------------------------
(***************************************************************************)
(* What the proof that IInv is inductive rests on: blocks and buddies, how *)
(* owner follows frames from place to place, and what a step leaves alone. *)
(* Then the initial states, the properties that follow from IInv, and the  *)
(* steps that move no frame.                                               *)
(***************************************************************************)
EXTENDS PageAllocInv, WellFoundedInduction, TLAPS

\* The first-order prover does most steps; those with arithmetic, or that take
\* tuples or records apart, name the SMT solver and allow it a second try.
USE ZenonT(60)

\* A set of natural numbers that is not empty has a least element.
LEMMA LeastNat ==
  ASSUME NEW S, S \subseteq Nat, S # {}
  PROVE  \E m \in S : \A k \in S : m <= k
<1>1. PICK x \in S : \A y \in S : ~ (<<y, x>> \in OpToRel(<, Nat))
  BY WFMin, NatLessThanWellFounded
<1>2. \A y \in S : ~(y < x)
  BY <1>1 DEF OpToRel
<1>3. x \in S /\ x \in Nat /\ \A y \in S : y \in Nat
  OBVIOUS
<1>4. \A y \in S : x <= y
  BY SMTT(20), SMTT(30), <1>2, <1>3
<1> QED BY <1>3, <1>4

\* Division with remainder.
LEMMA DivMod ==
  ASSUME NEW p \in Nat, NEW s \in Nat \ {0}
  PROVE  p \div s \in Nat /\ p % s \in Nat /\ p = s * (p \div s) + (p % s) /\ p % s < s
BY SMTT(20), SMTT(30)

\* A multiple of s divides by s without remainder.
LEMMA Multiple ==
  ASSUME NEW m \in Nat, NEW s \in Nat \ {0}, NEW p \in Nat, p = s * m
  PROVE  p \div s = m /\ p % s = 0
<1>1. /\ p \div s \in Nat /\ p % s \in Nat 
      /\ p = s * (p \div s) + (p % s) /\ p % s < s
  BY DivMod
<1>2. s * (m - p \div s) = p % s
  BY SMTT(20), SMTT(30), <1>1
<1>3. m - p \div s < 1
  <2> SUFFICES ASSUME m - p \div s >= 1 PROVE FALSE
    BY SMTT(20), SMTT(30), <1>1
  <2>1. s * (m - p \div s) >= s * 1
    BY SMTT(20), SMTT(30), <1>1
  <2> QED BY SMTT(20), SMTT(30), <2>1, <1>1, <1>2
<1>4. m - p \div s > -1
  <2> SUFFICES ASSUME m - p \div s <= -1 PROVE FALSE
    BY SMTT(20), SMTT(30), <1>1
  <2>1. s * (m - p \div s) <= s * (-1)
    BY SMTT(20), SMTT(30), <1>1
  <2> QED BY SMTT(20), SMTT(30), <2>1, <1>1, <1>2
<1>5. m - p \div s = 0
  BY SMTT(20), SMTT(30), <1>1, <1>3, <1>4
<1> QED BY SMTT(20), SMTT(30), <1>1, <1>2, <1>5

-----------------------------------------------------------------------------
\* Sizes are positive, and double with the order.
LEMMA SizeFacts ==
  ASSUME NEW o \in Order
  PROVE  /\ o \in Nat /\ Size[o] \in Nat \ {0}
         /\ o > 0 => o - 1 \in Order /\ Size[o] = 2 * Size[o - 1]
         /\ o < MAX_ORDER - 1 => o + 1 \in Order /\ Size[o + 1] = 2 * Size[o]
<1>1. MAX_ORDER \in Nat \ {0} /\ o \in Nat /\ o < MAX_ORDER
  BY SMTT(20), SMTT(30), OrderAssumption DEF Order
<1>2. o > 0 => o - 1 \in Order
  BY SMTT(20), SMTT(30), <1>1 DEF Order
<1>3. o < MAX_ORDER - 1 => o + 1 \in Order /\ (o + 1) - 1 = o /\ o + 1 > 0
  BY SMTT(20), SMTT(30), <1>1 DEF Order
<1>4. Size[o] \in Nat \ {0}
  BY OrderAssumption
<1> QED BY <1>1, <1>2, <1>3, <1>4, OrderAssumption

\* The buddy of an aligned block is aligned and is not the block; the buddy of
\* the buddy is the block; the lower one of both is aligned to twice the size.
LEMMA Buddies ==
  ASSUME NEW p \in Nat, NEW o \in Order, p % Size[o] = 0
  PROVE  LET b == find_buddy_pfn(p, o)  q == IF b < p THEN b ELSE p IN
         /\ b \in Nat /\ b % Size[o] = 0 /\ b # p /\ find_buddy_pfn(b, o) = p
         /\ q \in Nat /\ q % (2 * Size[o]) = 0
         /\ (q = p /\ b = q + Size[o]) \/ (q = b /\ p = q + Size[o])
<1> DEFINE s == Size[o]
           k == p \div s
           b == find_buddy_pfn(p, o)
           q == IF b < p THEN b ELSE p
<1>0. s \in Nat \ {0} /\ 2 * s \in Nat \ {0} /\ p % s = 0
  BY SMTT(20), SMTT(30), SizeFacts
<1>b. \A x : find_buddy_pfn(x, o) = IF (x \div s) % 2 = 0 THEN x + s ELSE x - s
  BY DEF find_buddy_pfn
<1> HIDE DEF s
<1>1. k \in Nat /\ p = s * k
  <2>1. k \in Nat /\ p = s * k + (p % s)
    BY <1>0, DivMod
  <2> QED BY SMTT(20), SMTT(30), <1>0, <2>1
<1>3. CASE k % 2 = 0
  <2>1. PICK m \in Nat : k = 2 * m
    BY SMTT(20), SMTT(30), <1>1, <1>3
  <2>2. b = p + s /\ q = p /\ b = s * (k + 1) /\ (k + 1) % 2 = 1
    BY SMTT(20), SMTT(30), <1>0, <1>b, <1>1, <1>3, <2>1
  <2>3. b \div s = k + 1 /\ b % s = 0
    <3>1. k + 1 \in Nat /\ b \in Nat /\ b = s * (k + 1)
      BY SMTT(20), SMTT(30), <1>0, <1>1, <2>2
    <3> HIDE DEF b, k
    <3> QED BY <1>0, <3>1, Multiple
  <2>4. p = (2 * s) * m
    BY SMTT(20), SMTT(30), <1>0, <1>1, <2>1
  <2>5. p % (2 * s) = 0
    BY <1>0, <2>4, Multiple
  <2>6. find_buddy_pfn(b, o) = p
    BY SMTT(20), SMTT(30), <1>0, <1>b, <2>2, <2>3
  <2> QED BY SMTT(20), SMTT(30), <1>0, <2>2, <2>3, <2>5, <2>6, <1>1 DEF s
<1>4. CASE k % 2 # 0
  <2>1. PICK m \in Nat : k = 2 * m + 1
    BY SMTT(20), SMTT(30), <1>1, <1>4
  <2>2. k >= 1 /\ k - 1 = 2 * m /\ (k - 1) % 2 = 0
    BY SMTT(20), SMTT(30), <1>1, <2>1
  <2>3. b = p - s /\ b < p /\ q = b /\ b = s * (k - 1) /\ b \in Nat
    BY SMTT(20), SMTT(30), <1>0, <1>b, <1>1, <1>4, <2>1, <2>2
  <2>4. b \div s = k - 1 /\ b % s = 0
    <3>1. k - 1 \in Nat
      BY SMTT(20), SMTT(30), <1>1, <2>2
    <3> HIDE DEF b, k
    <3> QED BY <1>0, <2>3, <3>1, Multiple
  <2>5. b = (2 * s) * m
    BY SMTT(20), SMTT(30), <1>0, <1>1, <2>1, <2>3
  <2>6. b % (2 * s) = 0
    BY <1>0, <2>3, <2>5, Multiple
  <2>7. find_buddy_pfn(b, o) = p
    BY SMTT(20), SMTT(30), <1>0, <1>b, <2>2, <2>3, <2>4
  <2> QED BY SMTT(20), SMTT(30), <1>0, <2>2, <2>3, <2>4, <2>6, <2>7, <1>1 DEF s
<1> QED BY <1>3, <1>4

\* Both halves of an aligned block are aligned, and they are buddies.
LEMMA Halves ==
  ASSUME NEW p \in Nat, NEW o \in Order, p % (2 * Size[o]) = 0
  PROVE  /\ p % Size[o] = 0 /\ (p + Size[o]) % Size[o] = 0
         /\ find_buddy_pfn(p, o) = p + Size[o]
         /\ find_buddy_pfn(p + Size[o], o) = p
<1> DEFINE s == Size[o]
           d == 2 * s
           m == p \div d
<1>0. s \in Nat \ {0} /\ d \in Nat \ {0} /\ p % d = 0
  BY SMTT(20), SMTT(30), SizeFacts
<1>b. \A x : find_buddy_pfn(x, o) = IF (x \div s) % 2 = 0 THEN x + s ELSE x - s
  BY DEF find_buddy_pfn
<1> HIDE DEF s
<1>1. p = d * m /\ m \in Nat
  <2> HIDE DEF d
  <2>1. p = d * m + (p % d) /\ m \in Nat
    BY <1>0, DivMod
  <2> QED BY SMTT(20), SMTT(30), <1>0, <2>1
<1> HIDE DEF m
<1>2. /\ p = s * (2 * m) /\ p + s = s * (2 * m + 1)
      /\ 2 * m \in Nat /\ 2 * m + 1 \in Nat /\ p + s \in Nat
      /\ (2 * m) % 2 = 0 /\ (2 * m + 1) % 2 = 1
  BY SMTT(20), SMTT(30), <1>0, <1>1
<1>3. p \div s = 2 * m /\ p % s = 0
  BY <1>0, <1>2, Multiple
<1>4. (p + s) \div s = 2 * m + 1 /\ (p + s) % s = 0
  BY <1>0, <1>2, Multiple
<1>5. find_buddy_pfn(p, o) = p + s /\ find_buddy_pfn(p + s, o) = p
  BY SMTT(20), SMTT(30), <1>0, <1>b, <1>2, <1>3, <1>4
<1> QED BY <1>3, <1>4, <1>5 DEF s

\* A block holds its first frame; a block of order 0 holds nothing else.
LEMMA FirstFrame ==
  ASSUME NEW p \in Page, NEW o \in Order
  PROVE  p \in Nat /\ p \in Frames(p, o) /\ Frames(p, o) \subseteq Page /\ Frames(p, 0) = {p}
<1>1. Size[o] \in Nat \ {0} /\ Size[0] = 1 /\ Page \subseteq Nat
  BY SizeFacts, OrderAssumption, PageAssumption
<1>2. p \in Nat /\ p <= p /\ p < p + Size[o]
  BY SMTT(20), SMTT(30), <1>1
<1>3. \A f \in Page : p <= f /\ f < p + 1 <=> f = p
  BY SMTT(20), SMTT(30), <1>1
<1>4. p \in Frames(p, o) /\ Frames(p, o) \subseteq Page
  BY <1>2 DEF Frames
<1>5. Frames(p, 0) = {p}
  BY <1>1, <1>3 DEF Frames
<1> QED BY <1>2, <1>4, <1>5

\* A frame is a whole block of order 0.
LEMMA FrameWhole ==
  ASSUME NEW p \in Page
  PROVE  0 \in Order /\ Whole(p, 0)
<1>1. 0 \in Order /\ Size[0] = 1 /\ p \in Nat
  BY SMTT(20), SMTT(30), OrderAssumption, PageAssumption DEF Order
<1>2. Frames(p, 0) = {p}
  BY <1>1, FirstFrame
<1>3. p % 1 = 0 /\ p .. p + 1 - 1 = {p}
  BY SMTT(20), SMTT(30), <1>1
<1> QED BY <1>1, <1>2, <1>3 DEF Whole

\* The halves of a whole block are whole, lie in the same zone and make it up.
LEMMA SplitWhole ==
  ASSUME NEW p \in Page, NEW o \in Order, o > 0, Whole(p, o)
  PROVE  LET q == p + Size[o - 1] IN
         /\ o - 1 \in Order /\ q \in Page /\ ZoneOf[q] = ZoneOf[p]
         /\ Whole(p, o - 1) /\ Whole(q, o - 1)
         /\ Frames(p, o) = Frames(p, o - 1) \cup Frames(q, o - 1)
         /\ Frames(p, o - 1) \cap Frames(q, o - 1) = {}
         /\ find_buddy_pfn(q, o - 1) = p /\ find_buddy_pfn(p, o - 1) = q
<1> DEFINE h == o - 1
           s == Size[h]
           q == p + s
<1>1. h \in Order /\ s \in Nat \ {0} /\ Size[o] = 2 * s /\ p \in Nat /\ Page \subseteq Nat
  BY SizeFacts, PageAssumption
<1>2. p % Size[h] = 0 /\ q % Size[h] = 0 /\ find_buddy_pfn(p, h) = q /\ find_buddy_pfn(q, h) = p
  <2>1. p % (2 * Size[h]) = 0
    BY <1>1 DEF Whole
  <2> HIDE DEF h
  <2> QED BY <1>1, <2>1, Halves
<1>3. p .. p + s - 1 \subseteq Page /\ q .. q + s - 1 \subseteq Page /\ q \in Page
  BY SMTT(20), SMTT(30), <1>1 DEF Whole
<1>4. /\ Frames(p, o) = Frames(p, h) \cup Frames(q, h)
      /\ Frames(p, h) \cap Frames(q, h) = {}
  <2>1. \A f \in Page : p <= f /\ f < p + Size[o] <=> \/ p <= f /\ f < p + s
                                                      \/ q <= f /\ f < q + s
    BY SMTT(20), SMTT(30), <1>1
  <2>2. \A f \in Page : ~(p <= f /\ f < p + s /\ q <= f /\ f < q + s)
    BY SMTT(20), SMTT(30), <1>1
  <2> HIDE DEF q
  <2>3. Frames(p, o) = Frames(p, h) \cup Frames(q, h)
    BY <2>1 DEF Frames
  <2>4. Frames(p, h) \cap Frames(q, h) = {}
    BY <2>2 DEF Frames
  <2> QED BY <2>3, <2>4
<1>5. q \in Frames(p, o)
  BY <1>1, <1>3, <1>4, FirstFrame
<1>6. \A f \in Frames(p, o) : ZoneOf[f] = ZoneOf[p]
  BY DEF Whole
<1>7. ZoneOf[q] = ZoneOf[p]
  BY <1>5, <1>6
<1>8. Whole(p, h) /\ Whole(q, h)
  BY <1>2, <1>3, <1>4, <1>6, <1>7 DEF Whole
<1> QED BY <1>1, <1>2, <1>3, <1>4, <1>7, <1>8

\* A whole block and its buddy, whole and in the same zone, make a whole block.
LEMMA MergeWhole ==
  ASSUME NEW p \in Page, NEW o \in Order, o < MAX_ORDER - 1, Whole(p, o),
         find_buddy_pfn(p, o) \in Page, Whole(find_buddy_pfn(p, o), o),
         ZoneOf[find_buddy_pfn(p, o)] = ZoneOf[p]
  PROVE  LET b == find_buddy_pfn(p, o)  q == IF b < p THEN b ELSE p IN
         /\ o + 1 \in Order /\ q \in Page /\ ZoneOf[q] = ZoneOf[p]
         /\ Whole(q, o + 1)
         /\ Frames(q, o + 1) = Frames(p, o) \cup Frames(b, o)
<1> DEFINE b == find_buddy_pfn(p, o)
           q == IF b < p THEN b ELSE p
           s == Size[o]
<1>1. /\ o + 1 \in Order /\ s \in Nat \ {0} /\ Size[o + 1] = 2 * s
      /\ p \in Nat /\ b \in Nat /\ Page \subseteq Nat
  BY SizeFacts, PageAssumption
<1>2. /\ q \in Nat /\ q % (2 * s) = 0
      /\ (q = p /\ b = q + s) \/ (q = b /\ p = q + s)
  BY <1>1, Buddies DEF Whole
<1>3. q \in Page /\ ZoneOf[q] = ZoneOf[p]
  BY <1>2
<1>4. q .. q + Size[o + 1] - 1 \subseteq Page
  <2>1. p .. p + s - 1 \subseteq Page /\ b .. b + s - 1 \subseteq Page
    BY DEF Whole
  <2> HIDE DEF b, q, s
  <2>2. \A f \in q .. q + 2 * s - 1 : f \in p .. p + s - 1 \/ f \in b .. b + s - 1
    BY SMTT(20), SMTT(30), <1>1, <1>2
  <2> QED BY <1>1, <2>1, <2>2
<1>5. Frames(q, o + 1) = Frames(p, o) \cup Frames(b, o)
  <2> HIDE DEF b, q
  <2>1. \A f \in Page : f \in Nat /\ (q <= f /\ f < q + 2 * s <=> \/ p <= f /\ f < p + s
                                                                  \/ b <= f /\ f < b + s)
    BY SMTT(20), SMTT(30), <1>1, <1>2
  <2> QED BY <1>1, <2>1 DEF Frames
<1>6. \A f \in Frames(q, o + 1) : ZoneOf[f] = ZoneOf[q]
  BY <1>3, <1>5 DEF Whole
<1> QED BY <1>1, <1>2, <1>3, <1>4, <1>5, <1>6 DEF Whole

-----------------------------------------------------------------------------
\* The walk of a zonelist from position i goes to a later position, or to the
\* first one behind the list.
LEMMA NextZone ==
  ASSUME NEW list \in Seq(Zone), NEW i \in Nat \ {0}, i <= Len(list) + 1, NEW h \in Nat
  PROVE  next_zones_zonelist(list, i, h) \in i .. Len(list) + 1
<1> DEFINE S == {j \in i .. Len(list) + 1 : j <= Len(list) => ZoneIdx[list[j]] <= h}
<1>1. Len(list) \in Nat /\ \A j \in 1 .. Len(list) : list[j] \in Zone
  BY SMTT(20), SMTT(30)
<1>2. S \subseteq Nat /\ S # {}
  <2>1. Len(list) + 1 \in S
    BY SMTT(20), SMTT(30), <1>1
  <2> QED BY SMTT(20), SMTT(30), <1>1, <2>1
<1>3. PICK m \in S : \A k \in S : m <= k
  <2> HIDE DEF S
  <2> QED BY <1>2, LeastNat
<1>4. \A k \in i .. m - 1 : ZoneIdx[list[k]] > h
  <2> SUFFICES ASSUME NEW k \in i .. m - 1 PROVE ZoneIdx[list[k]] > h
    OBVIOUS
  <2>1. k \in i .. Len(list) + 1 /\ k < m /\ k <= Len(list) /\ k \in 1 .. Len(list)
    BY SMTT(20), SMTT(30), <1>1, <1>3
  <2>2. ZoneIdx[list[k]] \in Nat
    BY <1>1, <2>1, ListAssumption
  <2>3. k \notin S
    BY SMTT(20), SMTT(30), <1>3, <2>1, <1>2
  <2>4. ~(ZoneIdx[list[k]] <= h)
    BY <2>1, <2>3
  <2> QED BY SMTT(20), SMTT(30), <2>2, <2>4
<1>5. \E j \in i .. Len(list) + 1 : /\ j <= Len(list) => ZoneIdx[list[j]] <= h
                                    /\ \A k \in i .. j - 1 : ZoneIdx[list[k]] > h
  BY <1>3, <1>4
<1> QED BY <1>5 DEF next_zones_zonelist

\* The smallest order with a free block has one.
LEMMA SmallestFacts ==
  ASSUME NEW z \in Zone, NEW o \in Order, Available(z, o) # {}
  PROVE  /\ Smallest(z, o) \in Order /\ Smallest(z, o) >= o
         /\ free[z][Smallest(z, o)] # {}
<1>1. Available(z, o) \subseteq Nat
  BY SizeFacts DEF Available
<1>2. \E i \in Available(z, o) : \A j \in Available(z, o) : i <= j
  BY <1>1, LeastNat
<1>3. Smallest(z, o) \in Available(z, o)
  BY <1>2 DEF Smallest
<1> QED BY <1>3 DEF Available

-----------------------------------------------------------------------------
(***************************************************************************)
(* Moving frames F to the place w.                                         *)
(***************************************************************************)
\* The free lists, when F neither leaves nor joins one.
LEMMA FreeKept ==
  ASSUME FreeOwner, NEW F, NEW w, Moved(F, w), free' = free,
         w[1] # "free", \A f \in F : owner[f][1] # "free"
  PROVE  FreeOwner'
BY SMTT(20), SMTT(30) DEF FreeOwner, Moved

\* The page sets, when F neither leaves nor joins one.
LEMMA PcpKept ==
  ASSUME PcpOwner, NEW F, NEW w, Moved(F, w), \A s \in PageSet : pcp'[s].list = pcp[s].list,
         w[1] # "pcp", \A f \in F : owner[f][1] # "pcp"
  PROVE  PcpOwner'
BY SMTT(20), SMTT(30) DEF PcpOwner, Moved

\* The blocks in use, when F neither leaves nor joins one.
LEMMA HeldKept ==
  ASSUME HeldOwner, NEW F, NEW w, Moved(F, w), held' = held,
         w[1] # "held", \A f \in F : owner[f][1] # "held"
  PROVE  HeldOwner'
BY SMTT(20), SMTT(30) DEF HeldOwner, Moved

\* The hands of contexts, when F neither leaves nor enters them.
LEMMA HandKept ==
  ASSUME HandOwner, NEW F, NEW w, Moved(F, w), \A t \in Ctx : Hand(t)' = Hand(t),
         w[1] # "ctx", \A f \in F : owner[f][1] # "ctx"
  PROVE  HandOwner'
BY SMTT(20), SMTT(30) DEF HandOwner, Moved

\* What contexts have gathered, when F neither leaves nor joins it.
LEMMA GotKept ==
  ASSUME GotOwner, NEW F, NEW w, Moved(F, w), got' = got,
         w[1] # "got", \A f \in F : owner[f][1] # "got"
  PROVE  GotOwner'
BY SMTT(20), SMTT(30) DEF GotOwner, Moved

\* A free block leaves its list.
LEMMA FreeLoses ==
  ASSUME FreeOwner, free \in [Zone -> [Order -> SUBSET Page]],
         NEW z \in Zone, NEW o \in Order, NEW p \in free[z][o], NEW w,
         Moved(Frames(p, o), w), w[1] # "free",
         free'[z][o] = free[z][o] \ {p} /\ Elsewhere(z, o)
  PROVE  FreeOwner'
<1>1. p \in Page
  OBVIOUS
<1>2. \A f \in Page : f \in Frames(p, o) <=> owner[f] = <<"free", z, p, o>>
  BY <1>1 DEF FreeOwner
<1> SUFFICES ASSUME NEW y \in Zone, NEW i \in Order, NEW q \in Page, NEW f \in Page
             PROVE  owner'[f] = <<"free", y, q, i>> <=> q \in free'[y][i] /\ f \in Frames(q, i)
  BY DEF FreeOwner
<1>3. owner[f] = <<"free", y, q, i>> <=> q \in free[y][i] /\ f \in Frames(q, i)
  BY DEF FreeOwner
<1>4. q \in free'[y][i] <=> q \in free[y][i] /\ ~(y = z /\ i = o /\ q = p)
  BY DEF Elsewhere
<1>5. CASE f \in Frames(p, o)
  <2>1. owner[f] = <<"free", y, q, i>> <=> y = z /\ q = p /\ i = o
    BY SMTT(20), SMTT(30), <1>2, <1>5
  <2>2. owner'[f] = w
    BY <1>5 DEF Moved
  <2> QED BY SMTT(20), SMTT(30), <1>3, <1>4, <2>1, <2>2
<1>6. CASE f \notin Frames(p, o)
  BY <1>3, <1>4, <1>6 DEF Moved
<1> QED BY <1>5, <1>6

\* A block joins a free list.
LEMMA FreeGains ==
  ASSUME FreeOwner, free \in [Zone -> [Order -> SUBSET Page]],
         NEW z \in Zone, NEW o \in Order, NEW p \in Page,
         Moved(Frames(p, o), <<"free", z, p, o>>), \A f \in Frames(p, o) : owner[f][1] # "free",
         free'[z][o] = free[z][o] \cup {p} /\ Elsewhere(z, o)
  PROVE  FreeOwner'
<1> SUFFICES ASSUME NEW y \in Zone, NEW i \in Order, NEW q \in Page, NEW f \in Page
             PROVE  owner'[f] = <<"free", y, q, i>> <=> q \in free'[y][i] /\ f \in Frames(q, i)
  BY DEF FreeOwner
<1>1. owner[f] = <<"free", y, q, i>> <=> q \in free[y][i] /\ f \in Frames(q, i)
  BY DEF FreeOwner
<1>2. q \in free'[y][i] <=> q \in free[y][i] \/ (y = z /\ i = o /\ q = p)
  BY DEF Elsewhere
<1>3. CASE f \in Frames(p, o)
  <2>1. owner'[f] = <<"free", y, q, i>> <=> y = z /\ q = p /\ i = o
    BY <1>3 DEF Moved
  <2>2. ~(q \in free[y][i] /\ f \in Frames(q, i))
    BY SMTT(20), SMTT(30), <1>1, <1>3
  <2> QED BY <1>2, <1>3, <2>1, <2>2
<1>4. CASE f \notin Frames(p, o)
  <2>1. owner'[f] = owner[f]
    BY <1>4 DEF Moved
  <2> QED BY <1>1, <1>2, <1>4, <2>1
<1> QED BY <1>3, <1>4

\* Pages leave a page set.
LEMMA PcpLoses ==
  ASSUME PcpOwner, NEW s \in PageSet, NEW F, F \subseteq pcp[s].list, NEW w,
         Moved(F, w), w[1] # "pcp",
         pcp'[s].list = pcp[s].list \ F /\ \A r \in PageSet \ {s} : pcp'[r].list = pcp[r].list
  PROVE  PcpOwner'
BY SMTT(20), SMTT(30) DEF PcpOwner, Moved

\* Pages join a page set.
LEMMA PcpGains ==
  ASSUME PcpOwner, NEW s \in PageSet, NEW F, F \subseteq Page,
         Moved(F, <<"pcp", s>>), \A f \in F : owner[f][1] # "pcp",
         pcp'[s].list = pcp[s].list \cup F /\ \A r \in PageSet \ {s} : pcp'[r].list = pcp[r].list
  PROVE  PcpOwner'
BY SMTT(20), SMTT(30) DEF PcpOwner, Moved

\* A block is freed by its user.
LEMMA HeldLoses ==
  ASSUME HeldOwner, NEW b \in Page \X Order, b \in held, NEW w,
         Moved(Frames(b[1], b[2]), w), w[1] # "held", held' = held \ {b}
  PROVE  HeldOwner'
BY SMTT(20), SMTT(30) DEF HeldOwner, Moved

\* A block is given to a user.
LEMMA HeldGains ==
  ASSUME HeldOwner, NEW b \in Page \X Order,
         Moved(Frames(b[1], b[2]), <<"held", b>>), held' = held \cup {b},
         \A f \in Frames(b[1], b[2]) : owner[f][1] # "held"
  PROVE  HeldOwner'
BY SMTT(20), SMTT(30) DEF HeldOwner, Moved

\* Frames leave the hands of a context.
LEMMA HandLoses ==
  ASSUME HandOwner, NEW t \in Ctx, NEW F, F \subseteq Hand(t), NEW w,
         Moved(F, w), w[1] # "ctx",
         Hand(t)' = Hand(t) \ F /\ \A u \in Ctx \ {t} : Hand(u)' = Hand(u)
  PROVE  HandOwner'
BY SMTT(20), SMTT(30) DEF HandOwner, Moved

\* A context takes frames into its hands.
LEMMA HandGains ==
  ASSUME HandOwner, NEW t \in Ctx, NEW F, F \subseteq Page,
         Moved(F, <<"ctx", t>>), \A f \in F : owner[f][1] # "ctx",
         Hand(t)' = Hand(t) \cup F /\ \A u \in Ctx \ {t} : Hand(u)' = Hand(u)
  PROVE  HandOwner'
BY SMTT(20), SMTT(30) DEF HandOwner, Moved

\* A context takes pages from those it has gathered.
LEMMA GotLoses ==
  ASSUME GotOwner, NEW t \in Ctx, NEW F, F \subseteq got[t], NEW w,
         Moved(F, w), w[1] # "got",
         got'[t] = got[t] \ F /\ \A u \in Ctx \ {t} : got'[u] = got[u]
  PROVE  GotOwner'
BY SMTT(20), SMTT(30) DEF GotOwner, Moved

\* A context gathers pages.
LEMMA GotGains ==
  ASSUME GotOwner, NEW t \in Ctx, NEW F, F \subseteq Page,
         Moved(F, <<"got", t>>), \A f \in F : owner[f][1] # "got",
         got'[t] = got[t] \cup F /\ \A u \in Ctx \ {t} : got'[u] = got[u]
  PROVE  GotOwner'
BY SMTT(20), SMTT(30) DEF GotOwner, Moved

\* No frame gets lost on the way.
LEMMA SomewhereKept ==
  ASSUME Somewhere, NEW F, NEW w, Moved(F, w), Place(w)
  PROVE  Somewhere'
BY DEF Somewhere, Moved, Place, Frames

-----------------------------------------------------------------------------
(***************************************************************************)
(* What a step of the context t leaves alone.                              *)
(***************************************************************************)
\* So the other contexts stay where they are and keep what they have.
LEMMA OthersSame ==
  ASSUME NEW t \in Ctx, Others(t), NEW u \in Ctx \ {t}
  PROVE  /\ pc'[u] = pc[u] /\ blk'[u] = blk[u] /\ cpu'[u] = cpu[u]
         /\ Area(u)' = Area(u) /\ Hand(u)' = Hand(u)
         /\ Control(u) => Control(u)'
         /\ Ours(u) => Ours(u)'
<1>1. /\ pc'[u] = pc[u] /\ cpu'[u] = cpu[u] /\ nid'[u] = nid[u] /\ pref'[u] = pref[u]
      /\ pos'[u] = pos[u] /\ want'[u] = want[u] /\ blk'[u] = blk[u] /\ zn'[u] = zn[u]
      /\ n'[u] = n[u] /\ got'[u] = got[u]
  BY DEF Others
<1>2. Area(u)' = Area(u)
  BY <1>1 DEF Area, zone, zonelist
<1>3. Hand(u)' = Hand(u)
  BY <1>1 DEF Hand, InHand
<1>4. Control(u) => Control(u)'
  BY <1>1 DEF Control, zonelist
<1>5. Ours(u) => Ours(u)'
  BY <1>1, <1>2 DEF Ours, InHand
<1> QED BY <1>1, <1>2, <1>3, <1>4, <1>5

\* A step that neither disables nor enables interrupts.
LEMMA IrqSame ==
  ASSUME IrqInv, NEW t \in Ctx, Others(t), irq_off' = irq_off, cpu' = cpu,
         pc'[t] \in OffPcs <=> pc[t] \in OffPcs
  PROVE  IrqInv'
BY DEF IrqInv, Others

\* A context disables the interrupts of its CPU and has it for itself.
LEMMA IrqSave ==
  ASSUME TypeOK, IrqInv, NEW t \in Ctx, NEW p \in CPU, Others(t), local_irq_save(t, p),
         pc[t] \notin OffPcs, pc'[t] \in OffPcs
  PROVE  IrqInv'
<1>1. irq_off \in [CPU -> Ctx \cup {None}] /\ cpu \in [Ctx -> CPU \cup {None}]
      /\ None \notin Ctx /\ None \notin CPU
  BY ListAssumption DEF TypeOK
<1> QED BY SMTT(20), SMTT(30), <1>1 DEF IrqInv, Others, local_irq_save

\* A context enables the interrupts again and leaves its CPU.
LEMMA IrqRestore ==
  ASSUME TypeOK, IrqInv, NEW t \in Ctx, Others(t), local_irq_restore(t),
         pc[t] \in OffPcs, pc'[t] \notin OffPcs
  PROVE  IrqInv'
<1>1. irq_off \in [CPU -> Ctx \cup {None}] /\ cpu \in [Ctx -> CPU \cup {None}]
      /\ None \notin Ctx /\ None \notin CPU
  BY ListAssumption DEF TypeOK
<1> QED BY SMTT(20), SMTT(30), <1>1 DEF IrqInv, Others, local_irq_restore

\* A step that neither takes nor drops a zone lock.
LEMMA LockSame ==
  ASSUME LockInv, NEW t \in Ctx, Others(t), zlock' = zlock,
         pc'[t] \in LockPcs <=> pc[t] \in LockPcs,
         pc[t] \in LockPcs => Area(t)' = Area(t)
  PROVE  LockInv'
BY SMTT(20), SMTT(30), OthersSame DEF LockInv

\* A context takes the lock of its zone.
LEMMA LockTake ==
  ASSUME TypeOK, LockInv, NEW t \in Ctx, NEW z \in Zone, Others(t), lock_zone(t, z),
         pc[t] \notin LockPcs, pc'[t] \in LockPcs, Area(t)' = z
  PROVE  LockInv'
<1>1. zlock \in [Zone -> Ctx \cup {None}] /\ None \notin Ctx
  BY ListAssumption DEF TypeOK
<1> QED BY SMTT(20), SMTT(30), <1>1, OthersSame DEF LockInv, lock_zone

\* A context drops the lock of its zone.
LEMMA LockDrop ==
  ASSUME TypeOK, LockInv, NEW t \in Ctx, Others(t), unlock_zone(Area(t)), Area(t) \in Zone,
         pc[t] \in LockPcs, pc'[t] \notin LockPcs
  PROVE  LockInv'
<1>1. zlock \in [Zone -> Ctx \cup {None}] /\ None \notin Ctx
  BY ListAssumption DEF TypeOK
<1> QED BY SMTT(20), SMTT(30), <1>1, OthersSame DEF LockInv, unlock_zone

\* Taking blocks off the lists separates no buddies.
LEMMA ApartLess ==
  ASSUME TypeOK, ApartInv, NEW t \in Ctx, Others(t),
         \A z \in Zone, o \in Order : free'[z][o] \subseteq free[z][o],
         \A x \in Page : border'[x] = border[x] \/ border'[x] = -1,
         pc'[t] \notin {"add", "drain_add"}
  PROVE  ApartInv'
<1>1. \A z \in Zone, o \in Order : o < MAX_ORDER - 1 =>
        \A p \in free'[z][o] : find_buddy_pfn(p, o) \notin free'[z][o]
  BY SMTT(20), SMTT(30) DEF ApartInv
<1>2. ASSUME NEW u \in Ctx, pc'[u] \in {"add", "drain_add"}
      PROVE  ~CanMerge(blk[u][1], blk[u][2])'
  <2>1. u # t /\ pc'[u] = pc[u] /\ blk'[u] = blk[u] /\ blk[u][2] \in Order
    BY <1>2, OthersSame DEF TypeOK, Block
  <2>2. ~CanMerge(blk[u][1], blk[u][2])
    BY <1>2, <2>1 DEF ApartInv
  <2>3. blk[u][2] # -1
    BY SMTT(20), SMTT(30), <2>1, SizeFacts
  <2> QED BY <2>1, <2>2, <2>3 DEF CanMerge, page_is_buddy, find_buddy_pfn
<1> QED BY <1>1, <1>2 DEF ApartInv

\* Nor does a block that becomes free under the lock while its buddy is not.
LEMMA ApartMore ==
  ASSUME TypeOK, ApartInv, LockInv, BlockInv, NEW t \in Ctx, Others(t),
         NEW z \in Zone, NEW o \in Order, NEW q \in Page, ZoneOf[q] = z, Whole(q, o),
         pc[t] \in LockPcs, Area(t) = z, pc'[t] \notin {"add", "drain_add"},
         o < MAX_ORDER - 1 => find_buddy_pfn(q, o) \notin free[z][o],
         free' = [free EXCEPT ![z][o] = @ \cup {q}], border' = [border EXCEPT ![q] = o]
  PROVE  ApartInv'
<1>1. /\ free \in [Zone -> [Order -> SUBSET Page]] /\ border \in [Page -> Order \cup {-1}]
      /\ Page \subseteq Nat
  BY PageAssumption DEF TypeOK
<1>2. ASSUME NEW y \in Zone, NEW i \in Order, i < MAX_ORDER - 1, NEW p \in free'[y][i]
      PROVE  find_buddy_pfn(p, i) \notin free'[y][i]
  <2>1. CASE y # z \/ i # o
    BY <1>1, <1>2, <2>1 DEF ApartInv
  <2>2. CASE y = z /\ i = o
    <3>1. free'[y][i] = free[z][o] \cup {q} /\ p \in Nat
      BY SMTT(20), SMTT(30), <1>1, <1>2, <2>2
    <3>2. find_buddy_pfn(q, o) # q
      BY <1>1, Buddies DEF Whole
    <3>3. CASE p = q
      BY <1>2, <2>2, <3>1, <3>2, <3>3
    <3>4. CASE p # q
      <4>1. p \in free[z][o] /\ p % Size[o] = 0
        BY SMTT(20), SMTT(30), <1>2, <3>1, <3>4, <2>2 DEF BlockInv, Whole
      <4>2. find_buddy_pfn(find_buddy_pfn(p, o), o) = p
        BY <4>1, <3>1, Buddies
      <4> QED BY <1>2, <2>2, <3>1, <4>1, <4>2 DEF ApartInv
    <3> QED BY <3>3, <3>4
  <2> QED BY <2>1, <2>2
<1>3. ASSUME NEW u \in Ctx, pc'[u] \in {"add", "drain_add"}
      PROVE  ~CanMerge(blk[u][1], blk[u][2])'
  <2>1. u # t /\ pc'[u] = pc[u] /\ blk'[u] = blk[u]
    BY <1>3, OthersSame
  <2>2. ~CanMerge(blk[u][1], blk[u][2])
    BY <1>3, <2>1 DEF ApartInv
  <2>3. ZoneOf[blk[u][1]] = Area(u) /\ Area(u) # z
    BY SMTT(20), SMTT(30), <1>3, <2>1 DEF BlockInv, Ours, InHand, HandPcs, OffPcs, GivePcs,
       LockInv, LockPcs
  <2> QED BY <1>1, <2>1, <2>2, <2>3 DEF CanMerge, page_is_buddy, find_buddy_pfn
<1> QED BY <1>2, <1>3 DEF ApartInv

\* A step that moves no frame.
LEMMA OwnerSame ==
  ASSUME OwnerInv, NEW t \in Ctx, Others(t), owner' = owner, free' = free, held' = held,
         got' = got, \A s \in PageSet : pcp'[s].list = pcp[s].list, Hand(t)' = Hand(t)
  PROVE  OwnerInv'
<1>1. \A u \in Ctx : Hand(u)' = Hand(u)
  BY OthersSame
<1>2. FreeOwner' /\ HeldOwner' /\ GotOwner' /\ Somewhere'
  BY SMTT(20), SMTT(30) DEF OwnerInv, FreeOwner, HeldOwner, GotOwner, Somewhere, Place
<1>3. PcpOwner' /\ HandOwner'
  BY <1>1 DEF OwnerInv, PcpOwner, HandOwner
<1> QED BY <1>2, <1>3 DEF OwnerInv

\* What the step of t itself has to see to.
LEMMA CoreStep ==
  ASSUME IInv, NEW t \in Ctx, Others(t), Control(t)', Ours(t)', IrqInv', LockInv', OwnerInv',
         ApartInv',
         \A z \in Zone, o \in Order : \A p \in free'[z][o] :
           p \in free[z][o] \/ (Whole(p, o) /\ ZoneOf[p] = z),
         \A b \in held' : b \in held \/ Whole(b[1], b[2])
  PROVE  Core'
<1>1. ControlInv' /\ \A u \in Ctx : Ours(u)'
  BY OthersSame DEF IInv, Core, ControlInv, BlockInv
<1>2. BlockInv'
  BY SMTT(20), SMTT(30), <1>1 DEF IInv, Core, BlockInv, Whole, Frames
<1> QED BY <1>1, <1>2 DEF Core

\* If the step moves no frame, only the locals, interrupts and locks are left.
LEMMA QuietStep ==
  ASSUME IInv, NEW t \in Ctx, Others(t), Control(t)', IrqInv', LockInv',
         UNCHANGED <<free, border, held, owner, blk, got>>,
         \A s \in PageSet : pcp'[s].list = pcp[s].list,
         InHand(t)' <=> InHand(t),
         InHand(t) /\ pc'[t] \in OffPcs => ZoneOf[blk[t][1]] = Area(t)',
         got[t] # {} => zn'[t] = zn[t],
         pc'[t] \in {"add", "drain_add"} => ~CanMerge(blk[t][1], blk[t][2])
  PROVE  Core'
<1>1. Hand(t)' = Hand(t)
  BY DEF Hand
<1>2. OwnerInv'
  BY <1>1, OwnerSame DEF IInv, Core
<1>3. Ours(t)'
  BY DEF IInv, Core, BlockInv, Ours
<1>4. ApartInv'
  <2>1. \A u \in Ctx : pc'[u] \in {"add", "drain_add"} => ~CanMerge(blk[u][1], blk[u][2])
    BY OthersSame DEF IInv, Core, ApartInv
  <2> QED BY <2>1 DEF IInv, Core, ApartInv, CanMerge, page_is_buddy, find_buddy_pfn
<1> QED BY <1>2, <1>3, <1>4, CoreStep DEF IInv, Core

-----------------------------------------------------------------------------
(***************************************************************************)
(* Boot, and what follows from the invariant.                              *)
(***************************************************************************)
\* A step that touches neither contexts nor lists.
LEMMA CoreSame ==
  ASSUME Core, ListInv,
         /\ free' = free /\ nr_free' = nr_free /\ border' = border /\ zlock' = zlock
         /\ irq_off' = irq_off /\ held' = held /\ pc' = pc /\ cpu' = cpu /\ owner' = owner
         /\ nid' = nid /\ pref' = pref /\ want' = want /\ pos' = pos /\ blk' = blk
         /\ zn' = zn /\ n' = n /\ got' = got,
         \A s \in PageSet : pcp'[s].list = pcp[s].list
  PROVE  Core' /\ ListInv' /\ \A t \in Ctx : Area(t)' = Area(t)
<1> USE DEF Core
<1>1. ListInv'
  BY DEF ListInv
<1>2. \A t \in Ctx : Area(t)' = Area(t)
  BY DEF Area, zone, zonelist
<1>3. ControlInv'
  BY DEF ControlInv, Control, zonelist
<1>4. IrqInv' /\ LockInv'
  BY SMTT(20), SMTT(30), <1>2 DEF IrqInv, LockInv
<1>5. OwnerInv'
  <2>1. FreeOwner'
    BY DEF OwnerInv, FreeOwner
  <2>2. HeldOwner' /\ GotOwner'
    BY DEF OwnerInv, HeldOwner, GotOwner
  <2>3. PcpOwner'
    BY DEF OwnerInv, PcpOwner
  <2>4. HandOwner'
    BY DEF OwnerInv, HandOwner, Hand, InHand
  <2>5. Somewhere'
    BY DEF OwnerInv, Somewhere, Place
  <2> QED BY <2>1, <2>2, <2>3, <2>4, <2>5 DEF OwnerInv
<1>6. BlockInv'
  <2>1. \A t \in Ctx : Ours(t)'
    BY <1>2 DEF BlockInv, Ours, InHand
  <2> QED BY <2>1 DEF BlockInv
<1>7. ApartInv'
  BY DEF ApartInv, CanMerge, page_is_buddy
<1> QED BY <1>1, <1>2, <1>3, <1>4, <1>5, <1>6, <1>7

\* Nothing changes.
LEMMA StutterKeeps ==
  ASSUME IInv, UNCHANGED vars
  PROVE  IInv'
<1>1. /\ free' = free /\ nr_free' = nr_free /\ border' = border /\ ref' = ref /\ zlock' = zlock
      /\ irq_off' = irq_off /\ held' = held /\ pc' = pc /\ cpu' = cpu /\ owner' = owner
      /\ nid' = nid /\ hidx' = hidx /\ pref' = pref /\ want' = want /\ pos' = pos /\ blk' = blk
      /\ zn' = zn /\ n' = n /\ got' = got /\ pageset' = pageset /\ pcp' = pcp
  BY DEF vars, zone_vars, locals, request
<1>2. Core' /\ ListInv' /\ \A t \in Ctx : Area(t)' = Area(t)
  BY <1>1, CoreSame DEF IInv
<1>3. TypeOK'
  BY <1>1 DEF IInv, TypeOK
<1>4. \A t \in Ctx : \A s : Uses(t, s)' <=> Uses(t, s)
  BY <1>1, <1>2 DEF Uses, my_pcp
<1>5. PcpInv'
  <2>1. \A t \in Ctx : Filling(t)'
    BY <1>1, <1>2 DEF IInv, PcpInv, Filling, my_pcp
  <2> QED BY <1>1, <1>4, <2>1 DEF IInv, PcpInv, Marks, Level
<1>6. PcpZone'
  <2> SUFFICES ASSUME NEW s \in PageSet, NEW f \in pcp[s].list
               PROVE  /\ pageset[ZoneOf[f]] = s[2]
                      /\ s[2] = "boot" => \E t \in Ctx : Uses(t, s)' /\ ZoneOf[f] = Area(t)'
    BY <1>1 DEF PcpZone
  <2>1. /\ pageset[ZoneOf[f]] = s[2]
        /\ s[2] = "boot" => \E t \in Ctx : Uses(t, s) /\ ZoneOf[f] = Area(t)
    BY DEF IInv, PcpZone
  <2>2. \A t \in Ctx : Area(t)' = Area(t) /\ (Uses(t, s)' <=> Uses(t, s))
    BY <1>2, <1>4
  <2> QED BY <2>1, <2>2
<1> QED BY <1>2, <1>3, <1>5, <1>6 DEF IInv

\* setup_zone_pageset() replaces page sets that are empty: the zone's own
\* because nothing refers to them yet, and the boot page sets because they
\* are, whenever nobody is inside the allocator.
LEMMA SetupKeeps ==
  ASSUME IsFiniteSet({}), Cardinality({}) = 0, IInv, NEW z \in Zone, setup_zone_pageset(z)
  PROVE  IInv'
<1> USE DEF IInv
<1>1. /\ \A t \in Ctx : pc[t] = "idle"
      /\ pageset[z] = "boot" /\ pageset' = [pageset EXCEPT ![z] = z]
      /\ pcp' = [s \in PageSet |-> IF s[2] = z THEN zone_pageset(z) ELSE pcp[s]]
      /\ UNCHANGED <<zone_vars, ref, zlock, irq_off, held, pc, cpu, locals, owner>>
  BY DEF setup_zone_pageset
<1>2. /\ free' = free /\ nr_free' = nr_free /\ border' = border /\ ref' = ref /\ zlock' = zlock
      /\ irq_off' = irq_off /\ held' = held /\ pc' = pc /\ cpu' = cpu /\ owner' = owner
      /\ nid' = nid /\ hidx' = hidx /\ pref' = pref /\ want' = want /\ pos' = pos /\ blk' = blk
      /\ zn' = zn /\ n' = n /\ got' = got
  BY <1>1 DEF zone_vars, locals, request
<1>3. z # "boot" /\ Batch[z] \in Nat
  BY ListAssumption
<1>4. \A t \in Ctx : \A s : ~Uses(t, s) /\ ~Uses(t, s)'
  BY <1>1, <1>2 DEF Uses
<1>5. /\ zone_pageset(z) \in [list : SUBSET Page, count : Nat, high : Nat, batch : Nat]
      /\ zone_pageset(z).list = {} /\ zone_pageset(z).count = 0
      /\ zone_pageset(z).batch >= 1 /\ zone_pageset(z).batch - 1 <= zone_pageset(z).high
      /\ zone_pageset(z).high \in Nat
  <2>1. 6 * Batch[z] \in Nat /\ (IF Batch[z] > 1 THEN Batch[z] ELSE 1) \in Nat
    BY SMTT(20), SMTT(30), <1>3
  <2>2. (IF Batch[z] > 1 THEN Batch[z] ELSE 1) - 1 <= 6 * Batch[z]
    BY SMTT(20), SMTT(30), <1>3
  <2> QED BY SMTT(20), SMTT(30), <1>3, <2>1, <2>2 DEF zone_pageset
<1>6. /\ \A s \in PageSet : s[2] = z => pcp'[s] = zone_pageset(z)
      /\ \A s \in PageSet : s[2] # z => pcp'[s] = pcp[s]
  BY <1>1
<1>7. \A s \in PageSet : s[2] \in {z, "boot"} => pcp[s].list = {}
  <2> SUFFICES ASSUME NEW s \in PageSet, s[2] \in {z, "boot"}, NEW f \in pcp[s].list
               PROVE  FALSE
    OBVIOUS
  <2>1. /\ pageset[ZoneOf[f]] = s[2] /\ s[2] # "boot"
    BY <1>4 DEF PcpZone
  <2>2. f \in Page /\ ZoneOf[f] \in Zone
    BY PageAssumption DEF TypeOK
  <2>3. ZoneOf[f] = z
    BY <2>1, <2>2 DEF PcpInv
  <2> QED BY <1>1, <2>1, <2>3
<1>8. \A s \in PageSet : pcp'[s].list = pcp[s].list
  BY <1>5, <1>6, <1>7
<1>9. TypeOK'
  <2>1. pcp' \in [PageSet -> [list : SUBSET Page, count : Nat, high : Nat, batch : Nat]]
    BY <1>1, <1>5 DEF TypeOK
  <2>2. pageset' \in [Zone -> Zone \cup {"boot"}]
    BY <1>1 DEF TypeOK
  <2> QED BY <1>2, <2>1, <2>2 DEF TypeOK
<1>10. Core' /\ ListInv'
  BY <1>2, <1>8, CoreSame
<1>11. PcpInv'
  <2>1. \A y \in Zone : pageset'[y] \in {"boot", y}
    BY <1>1 DEF PcpInv, TypeOK
  <2>2. ASSUME NEW s \in PageSet
        PROVE  IsFiniteSet(pcp'[s].list) /\ Marks(s)' /\ Level(s)'
    <3>1. CASE s[2] = z
      <4>1. /\ pcp'[s].list = {} /\ pcp'[s].count = 0 /\ pcp'[s].high \in Nat
            /\ pcp'[s].batch >= 1 /\ pcp'[s].batch - 1 <= pcp'[s].high /\ s[2] # "boot"
        BY <1>3, <1>5, <1>6, <3>1
      <4> QED BY SMTT(20), SMTT(30), <4>1 DEF Marks, Level
    <3>2. CASE s[2] # z
      BY <1>4, <1>6, <3>2 DEF PcpInv, Marks, Level
    <3> QED BY <3>1, <3>2
  <2>3. \A t \in Ctx : Filling(t)'
    BY <1>1, <1>2 DEF Filling
  <2> QED BY <2>1, <2>2, <2>3 DEF PcpInv
<1>12. PcpZone'
  <2> SUFFICES ASSUME NEW s \in PageSet, NEW f \in pcp'[s].list
               PROVE  pageset'[ZoneOf[f]] = s[2] /\ s[2] # "boot"
    BY DEF PcpZone
  <2>1. f \in pcp[s].list /\ s[2] \notin {z, "boot"}
    BY <1>7, <1>8
  <2>2. pageset[ZoneOf[f]] = s[2] /\ f \in Page /\ ZoneOf[f] \in Zone
    BY <2>1, PageAssumption DEF PcpZone, TypeOK
  <2>3. ZoneOf[f] # z
    BY <1>1, <2>1, <2>2
  <2> QED BY <1>1, <2>1, <2>2, <2>3 DEF TypeOK
<1> QED BY <1>9, <1>10, <1>11, <1>12

\* At boot memblock holds every block that it hands over.
LEMMA InitIInv ==
  ASSUME IsFiniteSet({}), Cardinality({}) = 0, Init
  PROVE  IInv
<1>1. TypeOK
  <2>1. pcp \in [PageSet -> [list : SUBSET Page, count : Nat, high : Nat, batch : Nat]]
    BY DEF Init, boot_pageset
  <2>2. held \subseteq Page \X Order /\ ref \in [Page -> 0 .. 1]
    BY SMTT(20), SMTT(30), PageAssumption DEF Init
  <2>3. /\ nid \in [Ctx -> Node] /\ want \in [Ctx -> Order] /\ blk \in [Ctx -> Block]
        /\ pc \in [Ctx -> Pcs]
    <3>1. AnyNode \in Node
      BY ListAssumption DEF AnyNode
    <3>2. 0 \in Order /\ <<0, 0>> \in Block
      BY SMTT(20), SMTT(30), OrderAssumption DEF Order, Block
    <3> QED BY <3>1, <3>2 DEF Init, Pcs
  <2> QED BY <2>1, <2>2, <2>3 DEF Init, TypeOK
<1>2. ControlInv
  BY SMTT(20), SMTT(30) DEF Init, ControlInv, Control, TakePcs, GivePcs
<1>3. IrqInv
  BY ListAssumption DEF Init, IrqInv, OffPcs, TakePcs, GivePcs
<1>4. LockInv
  BY ListAssumption DEF Init, LockInv, LockPcs
<1>5. \A f \in Page :
        \/ \E b \in Boot : f \in Frames(b[1], b[2]) /\ owner[f] = <<"held", b>>
        \/ owner[f] = <<"reserved">> /\ \A b \in Boot : f \notin Frames(b[1], b[2])
  BY DEF Init
<1>6. FreeOwner /\ PcpOwner /\ HandOwner /\ GotOwner
  <2>1. FreeOwner
    BY <1>5 DEF Init, FreeOwner
  <2>2. PcpOwner
    BY <1>5 DEF Init, PcpOwner, boot_pageset
  <2>3. HandOwner
    BY <1>5 DEF Init, HandOwner, Hand, InHand, HandPcs
  <2>4. GotOwner
    BY <1>5 DEF Init, GotOwner
  <2> QED BY <2>1, <2>2, <2>3, <2>4
<1>7. HeldOwner
  <2> SUFFICES ASSUME NEW b \in Page \X Order, NEW f \in Page
               PROVE  owner[f] = <<"held", b>> <=> b \in Boot /\ f \in Frames(b[1], b[2])
    BY DEF Init, HeldOwner
  <2>1. CASE \E c \in Boot : f \in Frames(c[1], c[2]) /\ owner[f] = <<"held", c>>
    <3>1. PICK c \in Boot : f \in Frames(c[1], c[2]) /\ owner[f] = <<"held", c>>
      BY <2>1
    <3>2. b \in Boot /\ f \in Frames(b[1], b[2]) => b = c
      BY <3>1, PageAssumption
    <3> QED BY SMTT(20), SMTT(30), <3>1, <3>2
  <2>2. CASE owner[f] = <<"reserved">> /\ \A c \in Boot : f \notin Frames(c[1], c[2])
    BY SMTT(20), SMTT(30), <2>2
  <2> QED BY <1>5, <2>1, <2>2
<1>8. Somewhere
  <2> SUFFICES ASSUME NEW b \in Boot, NEW f \in Frames(b[1], b[2])
               PROVE  \E c \in Page \X Order : owner[f] = <<"held", c>>
    BY DEF Somewhere, Place
  <2> QED BY <1>5, PageAssumption DEF Frames
<1>9. BlockInv /\ ApartInv /\ ListInv
  <2>1. BlockInv
    BY PageAssumption DEF Init, BlockInv, Ours, InHand, HandPcs
  <2>2. ApartInv
    BY DEF Init, ApartInv
  <2>3. ListInv
    <3>1. \A z \in Zone, o \in Order : IsFiniteSet(free[z][o]) /\ nr_free[z][o] = Cardinality(free[z][o])
      BY DEF Init
    <3>2. \A p \in Page, o \in Order : border[p] = o <=> \E z \in Zone : p \in free[z][o]
      <4>1. -1 \notin Order
        BY SMTT(20), SMTT(30), SizeFacts
      <4> QED BY <4>1 DEF Init
    <3> QED BY <3>1, <3>2 DEF ListInv
  <2> QED BY <2>1, <2>2, <2>3
<1>10. PcpInv /\ PcpZone
  <2>1. \A s \in PageSet : /\ pcp[s].list = {} /\ pcp[s].count = 0 /\ pcp[s].high = 0
                           /\ pcp[s].batch = 1
    BY DEF Init, boot_pageset
  <2>2. \A s \in PageSet : IsFiniteSet(pcp[s].list) /\ Marks(s) /\ Level(s)
    <3> SUFFICES ASSUME NEW s \in PageSet
                 PROVE  IsFiniteSet(pcp[s].list) /\ Marks(s) /\ Level(s)
      OBVIOUS
    <3>2. /\ pcp[s].list = {} /\ pcp[s].count = 0 /\ pcp[s].high = 0 /\ pcp[s].batch = 1
      BY <2>1
    <3>3. IsFiniteSet(pcp[s].list) /\ Cardinality(pcp[s].list) = 0
      BY <3>2
    <3>4. Marks(s)
      BY SMTT(20), SMTT(30), <3>2 DEF Marks
    <3> QED BY SMTT(20), SMTT(30), <3>2, <3>3, <3>4 DEF Level
  <2>3. \A t \in Ctx : Filling(t)
    BY DEF Init, Filling
  <2>4. \A z \in Zone : pageset[z] \in {"boot", z}
    BY DEF Init
  <2> QED BY <2>1, <2>2, <2>3, <2>4 DEF PcpInv, PcpZone
<1> QED BY <1>1, <1>2, <1>3, <1>4, <1>6, <1>7, <1>8, <1>9, <1>10 DEF IInv, Core, OwnerInv

\* A frame that is in two places would have two owners.
LEMMA OneOwner == IInv => NoOverlap
<1> SUFFICES ASSUME IInv
             PROVE  NoOverlap
  OBVIOUS
<1>0. \A b \in FreeBlocks : \E z \in Zone, o \in Order : \E p \in free[z][o] : b = <<p, o, z>>
  BY SMTT(20), SMTT(30) DEF FreeBlocks
<1> USE DEF IInv, Core, OwnerInv
<1>1. \A b \in held : \A f \in Frames(b[1], b[2]) : f \in Page /\ owner[f] = <<"held", b>>
  BY DEF TypeOK, HeldOwner, Frames
<1>2. \A b \in FreeBlocks : \A f \in Frames(b[1], b[2]) :
        f \in Page /\ owner[f] = <<"free", b[3], b[1], b[2]>>
  <2> SUFFICES ASSUME NEW b \in FreeBlocks, NEW f \in Frames(b[1], b[2])
               PROVE  f \in Page /\ owner[f] = <<"free", b[3], b[1], b[2]>>
    OBVIOUS
  <2>1. PICK z \in Zone, o \in Order : \E p \in free[z][o] : b = <<p, o, z>>
    BY <1>0
  <2>2. PICK p \in free[z][o] : b = <<p, o, z>>
    BY <2>1
  <2>3. b[1] = p /\ b[2] = o /\ b[3] = z
    BY SMTT(20), SMTT(30), <2>2
  <2>4. p \in Page /\ f \in Page /\ f \in Frames(p, o)
    <3>1. free \in [Zone -> [Order -> SUBSET Page]]
      BY DEF TypeOK
    <3>2. free[z][o] \subseteq Page
      BY <3>1
    <3> QED BY <2>3, <3>2 DEF Frames
  <2>5. owner[f] = <<"free", z, p, o>>
    BY <2>4 DEF FreeOwner
  <2> QED BY <2>3, <2>4, <2>5
<1>3. \A s \in PageSet : \A f \in pcp[s].list : f \in Page /\ owner[f] = <<"pcp", s>>
  BY DEF TypeOK, PcpOwner
<1>4. \A b, c \in held : b # c => Disjoint(b, c)
  BY SMTT(20), SMTT(30), <1>1 DEF Disjoint
<1>5. \A b, c \in FreeBlocks : b # c => Disjoint(b, c)
  <2> SUFFICES ASSUME NEW b \in FreeBlocks, NEW c \in FreeBlocks,
                      NEW f \in Frames(b[1], b[2]), f \in Frames(c[1], c[2])
               PROVE  b = c
    BY DEF Disjoint
  <2>1. b[1] = c[1] /\ b[2] = c[2] /\ b[3] = c[3]
    BY SMTT(20), SMTT(30), <1>2
  <2>2. b = <<b[1], b[2], b[3]>> /\ c = <<c[1], c[2], c[3]>>
    BY SMTT(20), SMTT(30), <1>0
  <2> QED BY <2>1, <2>2
<1>6. \A b \in held, c \in FreeBlocks : Disjoint(b, c)
  BY SMTT(20), SMTT(30), <1>1, <1>2 DEF Disjoint
<1>7. \A s \in PageSet : \A f \in pcp[s].list :
        /\ \A b \in held \cup FreeBlocks : f \notin Frames(b[1], b[2])
        /\ \A r \in PageSet : f \in pcp[r].list => r = s
  BY SMTT(20), SMTT(30), <1>1, <1>2, <1>3
<1> QED BY <1>4, <1>5, <1>6, <1>7 DEF NoOverlap

\* A frame whose owner is a place is at that place.
LEMMA NoneLost == IInv => NoLeak
<1> SUFFICES ASSUME IInv, NEW b \in Boot, NEW f \in Frames(b[1], b[2])
             PROVE  \/ \E z \in Zone, o \in Order : \E p \in free[z][o] : f \in Frames(p, o)
                    \/ \E c \in CPU : f \in pcp[<<c, pageset[ZoneOf[f]]>>].list
                    \/ \E c \in held : f \in Frames(c[1], c[2])
                    \/ \E t \in Ctx : f \in got[t]
                                      \/ (InHand(t) /\ f \in Frames(blk[t][1], blk[t][2]))
  BY DEF NoLeak
<1> USE DEF IInv, Core, OwnerInv
<1>1. f \in Page /\ Place(owner[f])
  BY DEF Somewhere, Frames
<1>2. CASE \E z \in Zone, o \in Order, p \in Page : owner[f] = <<"free", z, p, o>>
  <2>1. PICK z \in Zone, o \in Order, p \in Page : owner[f] = <<"free", z, p, o>>
    BY <1>2
  <2>2. p \in free[z][o] /\ f \in Frames(p, o)
    BY <1>1, <2>1 DEF FreeOwner
  <2> QED BY <2>2
<1>3. CASE \E s \in PageSet : owner[f] = <<"pcp", s>>
  <2>1. PICK s \in PageSet : f \in pcp[s].list
    BY <1>1, <1>3 DEF PcpOwner
  <2>2. s = <<s[1], pageset[ZoneOf[f]]>> /\ s[1] \in CPU
    BY SMTT(20), SMTT(30), <2>1 DEF PcpZone, PageSet
  <2> QED BY <2>1, <2>2
<1>4. CASE \E c \in Page \X Order : owner[f] = <<"held", c>>
  BY <1>1, <1>4 DEF HeldOwner
<1>5. CASE \E t \in Ctx : owner[f] = <<"ctx", t>> \/ owner[f] = <<"got", t>>
  BY <1>1, <1>5 DEF HandOwner, GotOwner, Hand
<1> QED BY <1>1, <1>2, <1>3, <1>4, <1>5 DEF Place

\* Blocks are whole, and pages are on the page sets of their zones.
LEMMA PureLists == IInv => ZonePure
<1> SUFFICES ASSUME IInv
             PROVE  ZonePure
  OBVIOUS
<1>1. \A z \in Zone, o \in Order : \A p \in free[z][o] :
        /\ p % Size[o] = 0
        /\ p .. p + Size[o] - 1 \subseteq Page
        /\ \A f \in Frames(p, o) : ZoneOf[f] = z
  BY SMTT(20), SMTT(30) DEF IInv, Core, BlockInv, Whole
<1>2. ASSUME NEW z \in Zone, NEW c \in CPU, NEW f \in pcp[<<c, z>>].list
      PROVE  ZoneOf[f] = z
  <2>1. <<c, z>> \in PageSet
    BY DEF PageSet
  <2>2. pageset[ZoneOf[f]] = z /\ z # "boot" /\ ZoneOf[f] \in Zone
    BY <1>2, <2>1, ListAssumption, PageAssumption DEF IInv, PcpZone, TypeOK
  <2> QED BY <2>2 DEF IInv, PcpInv
<1>3. \A t \in Ctx : \A f \in got[t] : ZoneOf[f] = zn[t]
  BY DEF IInv, Core, BlockInv, Ours
<1> QED BY <1>1, <1>2, <1>3 DEF ZonePure

\* The free lists are apart.
LEMMA NoFreeBuddies == IInv => Coalesced
BY DEF IInv, Core, ApartInv, Coalesced

-----------------------------------------------------------------------------
(***************************************************************************)
(* The steps that move no frame.                                           *)
(***************************************************************************)
\* The entries of a zone list are zones.
LEMMA SeqFacts ==
  ASSUME NEW s \in Seq(Zone)
  PROVE  Len(s) \in Nat /\ 1 <= Len(s) + 1 /\ \A i \in 1 .. Len(s) : s[i] \in Zone
BY SMTT(20), SMTT(30)

\* The zone of a request, once the request has one.
LEMMA TakeZone ==
  ASSUME IInv, NEW t \in Ctx, pc[t] \in TakePcs
  PROVE  zone(t) \in Zone /\ Area(t) = zone(t)
<1>1. zonelist(t) \in Seq(Zone) /\ pos[t] \in 1 .. Len(zonelist(t))
  BY SMTT(20), SMTT(30), ListAssumption DEF IInv, Core, ControlInv, Control, TypeOK, zonelist
<1> QED BY <1>1, SeqFacts DEF zone, Area

\* alloc_pages() starts on the zone list.
LEMMA AllocPages ==
  ASSUME IInv, NEW t \in Ctx, NEW x \in Node, NEW o \in Order, NEW z \in Zone,
         alloc_pages(t, x, o, ZoneIdx[z])
  PROVE  Others(t) /\ Core' /\ pos'[t] \in Nat /\ pref'[t] \in Nat
<1> USE DEF IInv, Core
<1>1. Others(t)
  BY DEF alloc_pages, At, Goto, zone_vars, Others, TypeOK
<1>2. next_zones_zonelist(Zonelist[x], 1, ZoneIdx[z]) \in 1 .. Len(Zonelist[x]) + 1
  <2>1. Zonelist[x] \in Seq(Zone) /\ ZoneIdx[z] \in Nat
    BY ListAssumption
  <2>2. 1 \in Nat \ {0}
    BY SMTT(20), SMTT(30)
  <2>3. 1 <= Len(Zonelist[x]) + 1
    BY <2>1, SeqFacts
  <2> QED BY <2>1, <2>2, <2>3, NextZone
<1>6. pos'[t] \in Nat /\ pref'[t] \in Nat /\ pos'[t] >= 1 /\ pref'[t] >= 1
  BY SMTT(20), SMTT(30), <1>2, ListAssumption DEF alloc_pages, TypeOK
<1>3. Control(t)'
  BY <1>6 DEF alloc_pages, At, Goto, zone_vars, ControlInv, Control, TypeOK, TakePcs, GivePcs,
     zonelist
<1>4. IrqInv'
  BY <1>1, IrqSame DEF alloc_pages, At, Goto, zone_vars, TypeOK, OffPcs, TakePcs, GivePcs, LockPcs
<1>5. LockInv'
  BY <1>1, LockSame DEF alloc_pages, At, Goto, zone_vars, TypeOK, OffPcs, TakePcs, GivePcs,
     LockPcs, Area, zone, zonelist
<1> QED BY <1>1, <1>3, <1>4, <1>5, <1>6, QuietStep DEF alloc_pages, At, Goto, zone_vars, TypeOK,
           InHand, HandPcs

\* __alloc_pages_slowpath() starts over on the same list.
LEMMA Slowpath ==
  ASSUME IInv, NEW t \in Ctx, slowpath(t)
  PROVE  Others(t) /\ Core'
<1> USE DEF IInv, Core
<1>1. Others(t)
  BY DEF slowpath, At, Goto, zone_vars, locals, request, Others, TypeOK
<1>3. Control(t)'
  BY DEF slowpath, At, Goto, zone_vars, locals, request, ControlInv, Control, TypeOK, TakePcs,
     GivePcs, zonelist
<1>4. IrqInv'
  BY <1>1, IrqSame DEF slowpath, At, Goto, zone_vars, locals, request, TypeOK, OffPcs, TakePcs,
     GivePcs, LockPcs
<1>5. LockInv'
  BY <1>1, LockSame DEF slowpath, At, Goto, zone_vars, locals, request, TypeOK, OffPcs, TakePcs,
     GivePcs, LockPcs, Area, zone, zonelist
<1> QED BY <1>1, <1>3, <1>4, <1>5, QuietStep DEF slowpath, At, Goto, zone_vars, locals, request,
           TypeOK, InHand, HandPcs

\* A zone of another node is skipped.
LEMMA RemoteZone ==
  ASSUME IInv, NEW t \in Ctx, remote_zone(t)
  PROVE  Others(t) /\ Core'
<1> USE DEF IInv, Core
<1>1. Others(t)
  BY DEF remote_zone, At, zone_vars, request, Others, TypeOK
<1>3. Control(t)'
  BY DEF remote_zone, At, zone_vars, request, ControlInv, Control, TypeOK, TakePcs, GivePcs,
     zonelist
<1>4. IrqInv'
  BY <1>1, IrqSame DEF remote_zone, At, zone_vars, request, TypeOK, OffPcs, TakePcs, GivePcs,
     LockPcs
<1>5. LockInv'
  BY <1>1, LockSame DEF remote_zone, At, zone_vars, request, TypeOK, OffPcs, TakePcs, GivePcs,
     LockPcs, Area, zone, zonelist
<1> QED BY <1>1, <1>3, <1>4, <1>5, QuietStep DEF remote_zone, At, zone_vars, request, TypeOK,
           InHand, HandPcs

\* rmqueue_pcplist() disables interrupts.
LEMMA RmqueuePcplist ==
  ASSUME IInv, NEW t \in Ctx, NEW p \in CPU, rmqueue_pcplist(t, p)
  PROVE  Others(t) /\ Core'
<1> USE DEF IInv, Core
<1>1. Others(t)
  BY DEF rmqueue_pcplist, CanTry, At, Goto, zone_vars, locals, request, Others, TypeOK,
     local_irq_save
<1>3. Control(t)'
  BY DEF rmqueue_pcplist, CanTry, At, Goto, zone_vars, locals, request, ControlInv, Control,
     TypeOK, TakePcs, GivePcs, zonelist
<1>4. IrqInv'
  BY <1>1, IrqSave DEF rmqueue_pcplist, CanTry, At, Goto, zone_vars, locals, request, TypeOK,
     OffPcs, TakePcs, GivePcs, LockPcs
<1>5. LockInv'
  BY <1>1, LockSame DEF rmqueue_pcplist, CanTry, At, Goto, zone_vars, locals, request, TypeOK,
     OffPcs, TakePcs, GivePcs, LockPcs, Area, zone, zonelist
<1> QED BY <1>1, <1>3, <1>4, <1>5, QuietStep DEF rmqueue_pcplist, CanTry, At, Goto, zone_vars,
           locals, request, TypeOK, InHand, HandPcs

\* A zone without a block that is large enough is skipped.
LEMMA RmqueueFail ==
  ASSUME IInv, NEW t \in Ctx, NEW p \in CPU, rmqueue_fail(t, p)
  PROVE  Others(t) /\ Core' /\ pos'[t] \in Nat
<1> USE DEF IInv, Core
<1>1. Others(t)
  BY DEF rmqueue_fail, CanTry, At, zone_vars, request, Others, TypeOK
<1>2. next_zones_zonelist(zonelist(t), pos[t] + 1, hidx[t]) \in pos[t] + 1 .. Len(zonelist(t)) + 1
  <2>1. zonelist(t) \in Seq(Zone) /\ pos[t] + 1 \in Nat \ {0} /\ hidx[t] \in Nat
    <3>1. zonelist(t) \in Seq(Zone) /\ pos[t] \in Nat /\ hidx[t] \in Nat
      BY ListAssumption DEF TypeOK, zonelist
    <3> QED BY SMTT(20), SMTT(30), <3>1
  <2>2. pos[t] + 1 <= Len(zonelist(t)) + 1
    <3>1. pos[t] <= Len(zonelist(t))
      BY DEF rmqueue_fail, CanTry, At, ControlInv, Control, TakePcs
    <3>2. pos[t] \in Nat /\ Len(zonelist(t)) \in Nat
      BY <2>1, SeqFacts DEF TypeOK
    <3> QED BY SMTT(20), SMTT(30), <3>1, <3>2
  <2> QED BY <2>1, <2>2, NextZone
<1>6. pos'[t] \in Nat /\ pos'[t] >= 1
  BY SMTT(20), SMTT(30), <1>2 DEF rmqueue_fail, TypeOK
<1>3. Control(t)'
  BY <1>6 DEF rmqueue_fail, CanTry, At, zone_vars, request, ControlInv, Control, TypeOK,
     TakePcs, GivePcs, zonelist
<1>4. IrqInv'
  BY <1>1, IrqSame DEF rmqueue_fail, CanTry, At, zone_vars, request, TypeOK, OffPcs, TakePcs,
     GivePcs, LockPcs
<1>5. LockInv'
  BY <1>1, LockSame DEF rmqueue_fail, CanTry, At, zone_vars, request, TypeOK, OffPcs, TakePcs,
     GivePcs, LockPcs, Area, zone, zonelist
<1> QED BY <1>1, <1>3, <1>4, <1>5, <1>6, QuietStep DEF rmqueue_fail, CanTry, At, zone_vars,
           request, TypeOK, InHand, HandPcs

\* rmqueue_pcplist() finds no page, and the zone is skipped.
LEMMA PcpFail ==
  ASSUME IInv, NEW t \in Ctx, pcp_fail(t)
  PROVE  Others(t) /\ Core' /\ pos'[t] \in Nat
<1> USE DEF IInv, Core
<1>1. Others(t)
  BY DEF pcp_fail, At, Goto, zone_vars, request, Others, TypeOK, local_irq_restore
<1>2. next_zones_zonelist(zonelist(t), pos[t] + 1, hidx[t]) \in pos[t] + 1 .. Len(zonelist(t)) + 1
  <2>1. zonelist(t) \in Seq(Zone) /\ pos[t] + 1 \in Nat \ {0} /\ hidx[t] \in Nat
    <3>1. zonelist(t) \in Seq(Zone) /\ pos[t] \in Nat /\ hidx[t] \in Nat
      BY ListAssumption DEF TypeOK, zonelist
    <3> QED BY SMTT(20), SMTT(30), <3>1
  <2>2. pos[t] + 1 <= Len(zonelist(t)) + 1
    <3>1. pos[t] <= Len(zonelist(t))
      BY DEF pcp_fail, At, ControlInv, Control, TakePcs
    <3>2. pos[t] \in Nat /\ Len(zonelist(t)) \in Nat
      BY <2>1, SeqFacts DEF TypeOK
    <3> QED BY SMTT(20), SMTT(30), <3>1, <3>2
  <2> QED BY <2>1, <2>2, NextZone
<1>6. pos'[t] \in Nat /\ pos'[t] >= 1
  BY SMTT(20), SMTT(30), <1>2 DEF pcp_fail, TypeOK
<1>3. Control(t)'
  BY <1>6 DEF pcp_fail, At, Goto, zone_vars, request, ControlInv, Control, TypeOK, TakePcs,
     GivePcs, zonelist
<1>4. IrqInv'
  BY <1>1, IrqRestore DEF pcp_fail, At, Goto, zone_vars, request, TypeOK, OffPcs, TakePcs,
     GivePcs, LockPcs
<1>5. LockInv'
  BY <1>1, LockSame DEF pcp_fail, At, Goto, zone_vars, request, TypeOK, OffPcs, TakePcs,
     GivePcs, LockPcs, Area, zone, zonelist
<1> QED BY <1>1, <1>3, <1>4, <1>5, <1>6, QuietStep DEF pcp_fail, At, Goto, zone_vars, request,
           TypeOK, InHand, HandPcs

\* rmqueue_bulk() takes the zone lock.
LEMMA RmqueueBulk ==
  ASSUME IInv, NEW t \in Ctx, rmqueue_bulk(t)
  PROVE  Others(t) /\ Core'
<1> USE DEF IInv, Core
<1>1. Others(t)
  BY DEF rmqueue_bulk, At, Goto, zone_vars, locals, request, Others, TypeOK
<1>2. zone(t) \in Zone
  BY TakeZone DEF rmqueue_bulk, At, TakePcs
<1>3. Control(t)'
  BY DEF rmqueue_bulk, At, Goto, zone_vars, locals, request, ControlInv, Control, TypeOK,
     TakePcs, GivePcs, zonelist
<1>4. IrqInv'
  BY <1>1, IrqSame DEF rmqueue_bulk, At, Goto, zone_vars, locals, request, TypeOK, OffPcs,
     TakePcs, GivePcs, LockPcs
<1>5. LockInv'
  BY <1>1, LockTake, <1>2, ListAssumption DEF rmqueue_bulk, At, Goto, zone_vars, locals,
     request, TypeOK, OffPcs, TakePcs, GivePcs, LockPcs, Area, zone, zonelist
<1> QED BY <1>1, <1>3, <1>4, <1>5, QuietStep DEF rmqueue_bulk, At, Goto, zone_vars, locals,
           request, TypeOK, InHand, HandPcs

\* rmqueue_bulk() has its pages and drops the zone lock.
LEMMA BulkDone ==
  ASSUME IInv, NEW t \in Ctx, bulk_done(t)
  PROVE  Others(t) /\ Core'
<1> USE DEF IInv, Core
<1>1. Others(t)
  BY DEF bulk_done, At, Goto, zone_vars, request, Others, TypeOK
<1>2. zone(t) \in Zone
  BY TakeZone DEF bulk_done, At, TakePcs
<1>6. \A s \in PageSet : pcp'[s].list = pcp[s].list
  BY SMTT(20), SMTT(30) DEF bulk_done, TypeOK
<1>3. Control(t)'
  BY DEF bulk_done, At, Goto, zone_vars, request, ControlInv, Control, TypeOK, TakePcs, GivePcs,
     zonelist
<1>4. IrqInv'
  BY <1>1, IrqSame DEF bulk_done, At, Goto, zone_vars, request, TypeOK, OffPcs, TakePcs,
     GivePcs, LockPcs
<1>5. LockInv'
  BY <1>1, LockDrop, <1>2 DEF bulk_done, At, Goto, zone_vars, request, TypeOK, OffPcs, TakePcs,
     GivePcs, LockPcs, Area, zone, zonelist
<1> QED BY <1>1, <1>3, <1>4, <1>5, <1>6, QuietStep DEF bulk_done, At, Goto, zone_vars, request,
           TypeOK, InHand, HandPcs

\* free_pcppages_bulk() takes the zone lock once the pages are gathered.
LEMMA DrainLock ==
  ASSUME IInv, NEW t \in Ctx, drain_lock(t)
  PROVE  Others(t) /\ Core'
<1> USE DEF IInv, Core
<1>1. Others(t)
  BY DEF drain_lock, At, Goto, zone_vars, locals, request, Others, TypeOK
<1>3. Control(t)'
  BY DEF drain_lock, At, Goto, zone_vars, locals, request, ControlInv, Control, TypeOK, TakePcs,
     GivePcs, zonelist
<1>4. IrqInv'
  BY <1>1, IrqSame DEF drain_lock, At, Goto, zone_vars, locals, request, TypeOK, OffPcs,
     TakePcs, GivePcs, LockPcs
<1>5. LockInv'
  BY <1>1, LockTake DEF drain_lock, At, Goto, zone_vars, locals, request, TypeOK, OffPcs,
     TakePcs, GivePcs, LockPcs, Area, zone, zonelist, ControlInv, Control
<1> QED BY <1>1, <1>3, <1>4, <1>5, QuietStep DEF drain_lock, At, Goto, zone_vars, locals,
           request, TypeOK, InHand, HandPcs

\* free_pcppages_bulk() has freed them and drops the zone lock.
LEMMA DrainDone ==
  ASSUME IInv, NEW t \in Ctx, drain_done(t)
  PROVE  Others(t) /\ Core'
<1> USE DEF IInv, Core
<1>1. Others(t)
  BY DEF drain_done, At, Goto, zone_vars, request, Others, TypeOK, local_irq_restore
<1>3. Control(t)'
  BY DEF drain_done, At, Goto, zone_vars, request, ControlInv, Control, TypeOK, TakePcs,
     GivePcs, zonelist
<1>4. IrqInv'
  BY <1>1, IrqRestore DEF drain_done, At, Goto, zone_vars, request, TypeOK, OffPcs, TakePcs,
     GivePcs, LockPcs
<1>5. LockInv'
  BY <1>1, LockDrop DEF drain_done, At, Goto, zone_vars, request, TypeOK, OffPcs, TakePcs,
     GivePcs, LockPcs, Area, zone, zonelist, ControlInv, Control
<1> QED BY <1>1, <1>3, <1>4, <1>5, QuietStep DEF drain_done, At, Goto, zone_vars, request,
           TypeOK, InHand, HandPcs

\* free_one_page() disables interrupts and takes the zone lock.
LEMMA FreeOnePage ==
  ASSUME IInv, NEW t \in Ctx, NEW p \in CPU, free_one_page(t, p)
  PROVE  Others(t) /\ Core'
<1> USE DEF IInv, Core
<1>1. Others(t)
  BY DEF free_one_page, At, Goto, zone_vars, request, Others, TypeOK, local_irq_save
<1>2. blk[t][1] \in Page /\ ZoneOf[blk[t][1]] \in Zone
  BY PageAssumption DEF free_one_page, At, BlockInv, Ours, InHand, HandPcs
<1>6. Area(t)' = ZoneOf[blk[t][1]]
  BY DEF free_one_page, Goto, Area, TakePcs, TypeOK
<1>3. Control(t)'
  BY <1>2, PageAssumption DEF free_one_page, At, Goto, zone_vars, request, ControlInv, Control,
     TypeOK, TakePcs, GivePcs, zonelist
<1>4. IrqInv'
  BY <1>1, IrqSave DEF free_one_page, At, Goto, zone_vars, request, TypeOK, OffPcs, TakePcs,
     GivePcs, LockPcs
<1>5. LockInv'
  BY <1>1, LockTake, <1>2, PageAssumption DEF free_one_page, At, Goto, zone_vars, request,
     TypeOK, OffPcs, TakePcs, GivePcs, LockPcs, Area, zone, zonelist
<1> QED BY <1>1, <1>3, <1>4, <1>5, <1>6, QuietStep DEF free_one_page, At, Goto, zone_vars,
           request, TypeOK, InHand, HandPcs, ControlInv, Control

\* __free_one_page() finds no buddy to merge with.
LEMMA MergeStop ==
  ASSUME IInv, NEW t \in Ctx, merge_stop(t)
  PROVE  Others(t) /\ Core'
<1> USE DEF IInv, Core
<1>1. Others(t)
  BY DEF merge_stop, At, Goto, zone_vars, locals, request, Others, TypeOK
<1>3. Control(t)'
  BY DEF merge_stop, At, Goto, zone_vars, locals, request, ControlInv, Control, TypeOK, TakePcs,
     GivePcs, zonelist
<1>4. IrqInv'
  BY <1>1, IrqSame DEF merge_stop, At, Goto, zone_vars, locals, request, TypeOK, OffPcs,
     TakePcs, GivePcs, LockPcs
<1>5. LockInv'
  BY <1>1, LockSame DEF merge_stop, At, Goto, zone_vars, locals, request, TypeOK, OffPcs,
     TakePcs, GivePcs, LockPcs, Area, zone, zonelist
<1> QED BY <1>1, <1>3, <1>4, <1>5, QuietStep DEF merge_stop, At, Goto, zone_vars, locals,
           request, TypeOK, InHand, HandPcs, BlockInv, Ours, Area, zone, zonelist, OffPcs,
           TakePcs, GivePcs
=============================================================================
