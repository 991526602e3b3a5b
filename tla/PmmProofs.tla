----------------------------- MODULE PmmProofs ------------------------------
(***************************************************************************)
(* Proofs about Pmm.tla for callers that take one frame at a time, leave   *)
(* the frame behind each region unused, and count bases from the end of    *)
(* the map: for every size of memory, every place of the map, every width  *)
(* of a word and every order of calls, no frame has two holders, none is   *)
(* lost, and the manager implements FrameAllocator.tla on addresses.       *)
(***************************************************************************)
EXTENDS Pmm, FiniteSetTheorems, WellFoundedInduction, TLAPS

(* Careful is what those callers do; the theorems assume it. *)
Careful == MaxRequest <= 1 /\ Spare = 1 /\ RegionStart = MapEnd

(* The inductive invariant: every grant is the address of one frame, and   *)
(* the bitmap, the grants and the regions say the same of all memory.      *)
Inv ==
  /\ used \subseteq Bit
  /\ granted \subseteq [addr : Addresses(Bit), size : {1}]
  /\ NoOverlap
  /\ NothingLeaks
  /\ passed \cap behind = {}

-----------------------------------------------------------------------------
(* The frames of the memory have a bit. *)
LEMMA MemoryHasBits == 0 .. MaxBlocks - 1 \subseteq Bit
<1>1. MaxBlocks \in Nat /\ WordBits \in Nat /\ WordBits >= 1
  BY PmmAssumption
<1>2. WordBits * MaxBlocks \in Nat /\ WordBits * MaxBlocks >= MaxBlocks
  <2>1. WordBits * MaxBlocks = MaxBlocks + (WordBits - 1) * MaxBlocks
    BY <1>1
  <2>2. (WordBits - 1) * MaxBlocks >= 0
    BY <1>1
  <2> QED BY <1>1, <2>1, <2>2
<1> QED BY <1>1, <1>2 DEF Bit

LEMMA BitIsNat == Bit \subseteq Nat
  BY DEF Bit

(* A number of whole frames, divided by their size. *)
LEMMA WholeFrames ==
  ASSUME NEW n \in Nat, NEW d \in Nat \ {0}
  PROVE  n * d \in Nat /\ (n * d) \div d = n
<1> DEFINE p == n * d
           q == p \div d
<1>1. p \in Nat
  OBVIOUS
<1>2. q \in Nat /\ d * q <= p /\ p < d * q + d
  <2> HIDE DEF p
  <2> QED BY <1>1
<1>3. q <= n
  <2> SUFFICES ASSUME n + 1 <= q PROVE FALSE
    BY <1>2
  <2> HIDE DEF q
  <2>1. q = n + 1 + (q - n - 1) /\ q - n - 1 \in Nat
    BY <1>2
  <2>2. d * q = p + d + d * (q - n - 1)
    BY <2>1
  <2>3. d * (q - n - 1) >= 0
    BY <2>1
  <2>4. d * (q - n - 1) \in Int
    BY <2>1
  <2> HIDE DEF p
  <2> QED BY <1>1, <1>2, <2>2, <2>3, <2>4
<1>4. n <= q
  <2> SUFFICES ASSUME q + 1 <= n PROVE FALSE
    BY <1>2
  <2> HIDE DEF q
  <2>1. n - q - 1 \in Nat
    BY <1>2
  <2>2. p = d * q + d + d * (n - q - 1)
    BY <1>2
  <2>3. d * (n - q - 1) >= 0 /\ d * (n - q - 1) \in Int
    BY <2>1
  <2>4. d * q \in Int
    BY <1>2
  <2> HIDE DEF p
  <2> QED BY <1>1, <1>2, <2>2, <2>3, <2>4
<1> QED BY <1>1, <1>2, <1>3, <1>4

(* A frame's address leads back to it. *)
LEMMA FrameOfAddress ==
  ASSUME NEW f \in Nat
  PROVE  Address(f) \in Nat /\ FrameOf(Address(f)) = f
<1>1. MapEnd \in Nat /\ BlockSize \in Nat \ {0}
  BY PmmAssumption
<1>2. f * BlockSize \in Nat /\ (f * BlockSize) \div BlockSize = f
  BY <1>1, WholeFrames
<1>3. \A p \in Nat : p + MapEnd \in Nat /\ (p + MapEnd) - MapEnd = p
  BY <1>1
<1>4. Address(f) \in Nat /\ Address(f) - MapEnd = f * BlockSize
  <2>1. /\ f * BlockSize + MapEnd \in Nat
        /\ (f * BlockSize + MapEnd) - MapEnd = f * BlockSize
    BY <1>2, <1>3
  <2> QED BY <2>1 DEF Address
<1>5. FrameOf(Address(f)) = (f * BlockSize) \div BlockSize
  BY <1>4, Zenon DEF FrameOf
<1> QED BY <1>2, <1>4, <1>5, Zenon

LEMMA AddressIsFrame == \A f, g \in Nat : Address(f) = Address(g) => f = g
<1> SUFFICES ASSUME NEW f \in Nat, NEW g \in Nat, Address(f) = Address(g)
             PROVE  f = g
  OBVIOUS
<1>1. FrameOf(Address(f)) = f /\ FrameOf(Address(g)) = g
  BY FrameOfAddress
<1> QED BY <1>1

(* Sets of frames and sets of their addresses are alike. *)
LEMMA AddressSets ==
  ASSUME NEW S \in SUBSET Nat, NEW T \in SUBSET Nat
  PROVE  /\ Addresses(S \cup T) = Addresses(S) \cup Addresses(T)
         /\ Addresses(S \ T) = Addresses(S) \ Addresses(T)
         /\ Addresses(S) \subseteq Addresses(T) => S \subseteq T
         /\ Addresses(S) \cap Addresses(T) = {} => S \cap T = {}
         /\ S \subseteq T => Addresses(S) \subseteq Addresses(T)
BY AddressIsFrame DEF Addresses

(* One frame from an address is that address. *)
LEMMA OneFrame ==
  ASSUME NEW a \in Nat
  PROVE  FramesFrom(a, 1) = {a}
<1>1. 0 .. 1 - 1 = {0}
  OBVIOUS
<1>2. a + 0 * BlockSize = a
  BY PmmAssumption
<1> QED BY <1>1, <1>2 DEF FramesFrom

LEMMA BitAddresses == Addresses(Bit) \subseteq Nat
  BY BitIsNat, FrameOfAddress DEF Addresses

(* Grants of one frame hold just that frame. *)
LEMMA FramesOfOne ==
  ASSUME NEW g \in [addr : Addresses(Bit), size : {1}]
  PROVE  /\ FramesFrom(g.addr, g.size) = {g.addr}
         /\ g.addr \in Addresses(Bit) /\ g.size = 1
         /\ FrameOf(g.addr) \in Bit /\ Address(FrameOf(g.addr)) = g.addr
         /\ FrameOf(g.addr) .. FrameOf(g.addr) + g.size - 1 = {FrameOf(g.addr)}
<1>1. g.addr \in Addresses(Bit) /\ g.size = 1 /\ g.addr \in Nat
  BY BitAddresses
<1>2. PICK f \in Bit : g.addr = Address(f)
  BY <1>1 DEF Addresses
<1>3. f \in Nat /\ FrameOf(g.addr) = f
  BY <1>2, BitIsNat, FrameOfAddress
<1>4. f .. f + 1 - 1 = {f}
  BY <1>3
<1> QED BY <1>1, <1>2, <1>3, <1>4, OneFrame

LEMMA HeldOfOnes ==
  ASSUME granted \subseteq [addr : Addresses(Bit), size : {1}]
  PROVE  /\ Held = {g.addr : g \in granted}
         /\ Held \subseteq Addresses(Bit)
<1>1. \A g \in granted : FramesFrom(g.addr, g.size) = {g.addr} /\ g.addr \in Addresses(Bit)
  BY FramesOfOne
<1>2. \A a : a \in Held <=> \E g \in granted : a = g.addr
  BY <1>1, Zenon DEF Held
<1> QED BY <1>1, <1>2

(* The same of the grants after a step. *)
LEMMA HeldOfOnesAfter ==
  ASSUME granted' \subseteq [addr : Addresses(Bit), size : {1}]
  PROVE  /\ Held' = {g.addr : g \in granted'}
         /\ Held' \subseteq Addresses(Bit)
<1>1. \A g \in granted' : FramesFrom(g.addr, g.size) = {g.addr} /\ g.addr \in Addresses(Bit)
  BY FramesOfOne
<1>2. Held' = UNION {FramesFrom(g.addr, g.size) : g \in granted'}
  BY DEF Held, FramesFrom
<1>3. \A a : a \in Held' <=> \E g \in granted' : a = g.addr
  BY <1>1, <1>2, Zenon
<1> QED BY <1>1, <1>3

LEMMA SameGrants == UNCHANGED granted => Held' = Held
  BY DEF Held, FramesFrom

LEMMA AvailableAfter == Available' = Addresses(Clear')
  BY DEF Available, Addresses, Address

(* The frames of a region are the ones whose addresses a caller means, and *)
(* the one behind them, when its bases count from the end of the map.      *)
LEMMA RegionIsMeant ==
  ASSUME Careful, NEW align \in Nat, NEW blocks \in Nat \ {0}
  PROVE  LET base == align * BlockSize
             size == blocks * BlockSize
         IN  /\ RegionFrames(base, size) = align .. align + blocks
             /\ size \div BlockSize = blocks
             /\ Padded(base, size) = Addresses(align .. align + blocks)
             /\ After(base, size) \notin Meant(base, size)
<1> DEFINE base == align * BlockSize
           size == blocks * BlockSize
<1>1. BlockSize \in Nat \ {0} /\ MapEnd \in Nat /\ RegionStart = MapEnd
  BY PmmAssumption DEF Careful
<1>2. base \div BlockSize = align /\ size \div BlockSize = blocks
  BY <1>1, WholeFrames
<1>3. \A i \in Nat : MapEnd + base + i * BlockSize = Address(align + i)
  BY <1>1 DEF Address
<1>4. Meant(base, size) = {Address(align + i) : i \in 0 .. blocks - 1}
  <2>1. Meant(base, size) = {RegionStart + base + i * BlockSize : i \in 0 .. blocks - 1}
    BY <1>2 DEF Meant, FramesFrom
  <2> HIDE DEF base, size
  <2>2. \A i \in 0 .. blocks - 1 : i \in Nat
    OBVIOUS
  <2>3. \A i \in 0 .. blocks - 1 : RegionStart + base + i * BlockSize = Address(align + i)
    BY <1>1, <1>3, <2>2, Zenon
  <2> QED BY <2>1, <2>3
<1>5. After(base, size) = Address(align + blocks)
  BY <1>1, <1>3 DEF After
<1> HIDE DEF base, size
<1>6. Padded(base, size) = Addresses(align .. align + blocks)
  <2>1. \A f \in align .. align + blocks :
          f = align + blocks \/ (f - align \in 0 .. blocks - 1 /\ f = align + (f - align))
    OBVIOUS
  <2>2. \A i \in 0 .. blocks - 1 : align + i \in align .. align + blocks
    OBVIOUS
  <2>3. align + blocks \in align .. align + blocks
    OBVIOUS
  <2>4. \A f \in align .. align + blocks : Address(f) \in Padded(base, size)
    BY <1>4, <1>5, <2>1 DEF Padded
  <2>5. \A a \in Padded(base, size) : \E f \in align .. align + blocks : a = Address(f)
    BY <1>4, <1>5, <2>2, <2>3, Zenon DEF Padded
  <2> QED BY <2>4, <2>5 DEF Addresses
<1>7. After(base, size) \notin Meant(base, size)
  <2>1. \A i \in 0 .. blocks - 1 :
          align + i \in Nat /\ align + blocks \in Nat /\ align + i # align + blocks
    OBVIOUS
  <2> QED BY <1>4, <1>5, <2>1, AddressIsFrame
<1> QED BY <1>2, <1>6, <1>7 DEF RegionFrames, base, size

-----------------------------------------------------------------------------
(* What each kind of step does to the memory available, held and lent, and *)
(* why it keeps the invariant.                                             *)
Lent == passed \cup behind

LEMMA InitRegionStep ==
  ASSUME Inv, Careful, NEW align \in 0 .. MaxBlocks - 1,
         NEW blocks \in 1 .. MaxBlocks - align - Spare,
         pmm_init_region(align * BlockSize, blocks * BlockSize)
  PROVE  /\ Inv'
         /\ LET S == align .. align + blocks
            IN  /\ S \subseteq 0 .. MaxBlocks - 1 /\ S \cap Clear = {}
                /\ Clear' = Clear \cup S /\ Minus(blocks + 1)
                /\ Addresses(S) \cap Lent = {} /\ Lent' = Lent \cup Addresses(S)
                /\ Available' = Available \cup Addresses(S) /\ Held' = Held
<1> DEFINE S == align .. align + blocks
           base == align * BlockSize
           size == blocks * BlockSize
<1>1. S \subseteq 0 .. MaxBlocks - 1 /\ align \in Nat /\ blocks \in Nat \ {0}
  BY PmmAssumption DEF Careful
<1>2. /\ RegionFrames(base, size) = S /\ size \div BlockSize = blocks
      /\ Padded(base, size) = Addresses(S)
      /\ After(base, size) \notin Meant(base, size)
  BY <1>1, RegionIsMeant
<1>3. S \subseteq Bit /\ S \subseteq Nat /\ Clear \subseteq Nat
  BY <1>1, MemoryHasBits, BitIsNat DEF Clear
<1> HIDE DEF S, base, size
<1>4. /\ Addresses(S) \cap Lent = {} /\ used' = used \ S /\ Minus(blocks + 1)
      /\ passed' = passed \cup Meant(base, size)
      /\ behind' = behind \cup {After(base, size)}
      /\ UNCHANGED << granted, doubled >>
  BY <1>2 DEF pmm_init_region, Careful, Lent, base, size
<1>5. Lent' = Lent \cup Addresses(S)
  BY <1>2, <1>4 DEF Lent, Padded
<1>6. Clear' = Clear \cup S /\ Held' = Held
  BY <1>3, <1>4, SameGrants DEF Clear, Bit
<1>7. Available' = Available \cup Addresses(S)
  BY <1>3, <1>6, AvailableAfter, AddressSets DEF Available
<1>8. Addresses(S) \cap (Available \cup Held) = {}
  BY <1>4 DEF Inv, NothingLeaks, Lent
<1>9. S \cap Clear = {}
  <2>1. Addresses(S) \cap Addresses(Clear) = {}
    BY <1>8 DEF Available
  <2> QED BY <1>3, <2>1, AddressSets
<1>10. NothingLeaks'
  <2>1. Lent' = Available' \cup Held' /\ Available' \cap Held' = {}
    BY <1>5, <1>6, <1>7, <1>8 DEF Inv, NothingLeaks, Lent
  <2> QED BY <2>1 DEF NothingLeaks, Lent
<1>11. (passed \cap behind)' = {}
  BY <1>2, <1>4 DEF Inv, Lent, Padded
<1>12. used' \subseteq Bit' /\ granted' \subseteq [addr : Addresses(Bit), size : {1}]' /\ NoOverlap'
  BY <1>4 DEF Inv, NoOverlap, Bit, Addresses, Address
<1>13. Inv'
  BY <1>10, <1>11, <1>12 DEF Inv
<1> QED BY <1>1, <1>4, <1>5, <1>6, <1>7, <1>9, <1>13 DEF S

LEMMA DeinitRegionStep ==
  ASSUME Inv, Careful, NEW align \in 0 .. MaxBlocks - 1,
         NEW blocks \in 1 .. MaxBlocks - align - Spare,
         pmm_deinit_region(align * BlockSize, blocks * BlockSize)
  PROVE  /\ Inv'
         /\ LET S == align .. align + blocks
            IN  /\ S \subseteq Clear
                /\ Clear' = Clear \ S /\ Plus(blocks + 1)
                /\ Addresses(S) \subseteq Available
                /\ Lent' = Lent \ Addresses(S)
                /\ Available' = Available \ Addresses(S) /\ Held' = Held
<1> DEFINE S == align .. align + blocks
           base == align * BlockSize
           size == blocks * BlockSize
<1>1. S \subseteq 0 .. MaxBlocks - 1 /\ align \in Nat /\ blocks \in Nat \ {0}
  BY PmmAssumption DEF Careful
<1>2. /\ RegionFrames(base, size) = S /\ size \div BlockSize = blocks
      /\ Padded(base, size) = Addresses(S)
      /\ After(base, size) \notin Meant(base, size)
  BY <1>1, RegionIsMeant
<1>3. S \subseteq Bit /\ S \subseteq Nat /\ Clear \subseteq Nat
  BY <1>1, MemoryHasBits, BitIsNat DEF Clear
<1> HIDE DEF S, base, size
<1>4. /\ Meant(base, size) \subseteq passed /\ After(base, size) \in behind
      /\ Addresses(S) \cap Held = {} /\ used' = used \cup S /\ Plus(blocks + 1)
      /\ passed' = passed \ Meant(base, size)
      /\ behind' = behind \ {After(base, size)}
      /\ UNCHANGED << granted, doubled >>
  BY <1>2 DEF pmm_deinit_region, base, size
<1>5. Addresses(S) \subseteq Available
  BY <1>2, <1>4 DEF Inv, NothingLeaks, Padded
<1>6. S \subseteq Clear
  BY <1>3, <1>5, AddressSets DEF Available
<1>7. Lent' = Lent \ Addresses(S)
  BY <1>2, <1>4 DEF Inv, Lent, Padded
<1>8. Clear' = Clear \ S /\ Held' = Held
  BY <1>3, <1>4, SameGrants DEF Clear, Bit
<1>9. Available' = Available \ Addresses(S)
  BY <1>3, <1>8, AvailableAfter, AddressSets DEF Available
<1>10. NothingLeaks'
  <2>1. Lent' = Available' \cup Held' /\ Available' \cap Held' = {}
    BY <1>4, <1>7, <1>8, <1>9 DEF Inv, NothingLeaks, Lent
  <2> QED BY <2>1 DEF NothingLeaks, Lent
<1>11. (passed \cap behind)' = {}
  BY <1>4 DEF Inv
<1>12. used' \subseteq Bit' /\ granted' \subseteq [addr : Addresses(Bit), size : {1}]' /\ NoOverlap'
  BY <1>3, <1>4 DEF Inv, NoOverlap, Bit, Addresses, Address
<1>13. Inv'
  BY <1>10, <1>11, <1>12 DEF Inv
<1> QED BY <1>4, <1>5, <1>6, <1>7, <1>8, <1>9, <1>13 DEF S

LEMMA GiveOutStep ==
  ASSUME Inv, NEW f \in Clear, GiveOut(f, 1)
  PROVE  /\ Inv' /\ Lent' = Lent /\ Address(f) \in Available
         /\ Clear' = Clear \ {f}
         /\ Available' = Available \ {Address(f)} /\ Held' = Held \cup {Address(f)}
<1> DEFINE g == Grant(f, 1)
<1>1. f \in Bit /\ f \in Nat /\ f .. f + 1 - 1 = {f} /\ Clear \subseteq Nat
  <2>1. f \in Bit /\ f \in Nat /\ Clear \subseteq Nat
    BY BitIsNat DEF Clear
  <2>2. f .. f + 1 - 1 = {f}
    BY <2>1
  <2> QED BY <2>1, <2>2
<1>2. Address(f) \in Nat /\ Address(f) \in Available /\ Address(f) \in Addresses(Bit)
  BY <1>1, FrameOfAddress DEF Available, Addresses
<1>3. /\ used' = used \cup {f} /\ granted' = granted \cup {g}
      /\ UNCHANGED << passed, behind >>
  BY <1>1 DEF GiveOut
<1>4. g \in [addr : Addresses(Bit), size : {1}] /\ g.addr = Address(f)
  BY <1>2 DEF Grant
<1>5. granted' \subseteq [addr : Addresses(Bit), size : {1}]
  BY <1>3, <1>4 DEF Inv
<1>6. Clear' = Clear \ {f}
  BY <1>3 DEF Clear, Bit
<1>7. Available' = Available \ {Address(f)}
  <2>1. Addresses({f}) = {Address(f)}
    BY DEF Addresses
  <2> QED BY <1>1, <1>6, <2>1, AvailableAfter, AddressSets DEF Available
<1>8. Held' = Held \cup {Address(f)}
  <2>1. Held = {h.addr : h \in granted}
    BY HeldOfOnes DEF Inv
  <2>2. Held' = {h.addr : h \in granted'}
    BY <1>5, HeldOfOnesAfter
  <2> HIDE DEF g
  <2> QED BY <1>3, <1>4, <2>1, <2>2
<1>9. NoOverlap'
  <2>1. {Address(f)} \cap Held = {}
    BY <1>2 DEF Inv, NothingLeaks
  <2>2. FramesFrom(Address(f), 1) = {Address(f)}
    BY <1>2, OneFrame
  <2> QED BY <2>1, <2>2, Zenon DEF Inv, NoOverlap, GiveOut
<1>10. NothingLeaks'
  <2>1. passed' \cup behind' = Available' \cup Held' /\ Available' \cap Held' = {}
    BY <1>2, <1>3, <1>7, <1>8 DEF Inv, NothingLeaks
  <2> QED BY <2>1 DEF NothingLeaks
<1>11. used' \subseteq Bit' /\ granted' \subseteq [addr : Addresses(Bit), size : {1}]'
  BY <1>1, <1>3, <1>5 DEF Inv, Bit, Addresses, Address
<1>12. Inv' /\ Lent' = Lent
  BY <1>3, <1>9, <1>10, <1>11 DEF Inv, Lent
<1> QED BY <1>2, <1>6, <1>7, <1>8, <1>12

LEMMA GiveBackStep ==
  ASSUME Inv, NEW g \in granted,
         used' = used \ {FrameOf(g.addr)}, granted' = granted \ {g},
         UNCHANGED << doubled, passed, behind >>
  PROVE  /\ Inv' /\ Lent' = Lent /\ g.addr \in Held
         /\ FrameOf(g.addr) \notin Clear
         /\ Clear' = Clear \cup {FrameOf(g.addr)}
         /\ Available' = Available \cup {g.addr} /\ Held' = Held \ {g.addr}
<1> DEFINE f == FrameOf(g.addr)
<1>1. /\ f \in Bit /\ Address(f) = g.addr /\ g.addr \in Held
      /\ f \in Nat /\ Clear \subseteq Nat
  BY FramesOfOne, HeldOfOnes, BitIsNat DEF Inv, Clear
<1> HIDE DEF f
<1>2. granted' \subseteq [addr : Addresses(Bit), size : {1}]
  BY DEF Inv
<1>3. Clear' = Clear \cup {f}
  BY <1>1 DEF Clear, Bit, f
<1>4. Available' = Available \cup {g.addr}
  <2>1. Addresses({f}) = {g.addr}
    BY <1>1 DEF Addresses
  <2>2. {f} \in SUBSET Nat /\ Clear \in SUBSET Nat
    BY <1>1
  <2>3. Addresses(Clear \cup {f}) = Addresses(Clear) \cup Addresses({f})
    BY <2>2, AddressSets
  <2> QED BY <1>3, <2>1, <2>3, AvailableAfter DEF Available
<1>5. \A h \in granted' : h.addr # g.addr
  BY FramesOfOne DEF Inv
<1>6. Held' = Held \ {g.addr}
  BY <1>2, <1>5, HeldOfOnes, HeldOfOnesAfter DEF Inv
<1>7. f \notin Clear
  <2>1. f \in Clear => g.addr \in Available
    BY <1>1 DEF Available, Addresses
  <2> QED BY <1>1, <2>1 DEF Inv, NothingLeaks
<1>8. NothingLeaks'
  <2>1. passed' \cup behind' = Available' \cup Held' /\ Available' \cap Held' = {}
    BY <1>1, <1>4, <1>6 DEF Inv, NothingLeaks
  <2> QED BY <2>1 DEF NothingLeaks
<1>9. /\ used' \subseteq Bit' /\ granted' \subseteq [addr : Addresses(Bit), size : {1}]'
      /\ NoOverlap'
  BY <1>2 DEF Inv, Bit, Addresses, Address, NoOverlap
<1>10. Inv' /\ Lent' = Lent
  BY <1>8, <1>9 DEF Inv, Lent
<1> QED BY <1>1, <1>3, <1>4, <1>6, <1>7, <1>10 DEF f

-----------------------------------------------------------------------------
(* Every step is one of the four, or changes none of the three. *)
Effect ==
  \/ \E S \in SUBSET Addresses(Bit) :
       \/ /\ S \cap Lent = {} /\ Lent' = Lent \cup S
          /\ Available' = Available \cup S /\ Held' = Held
       \/ /\ S \subseteq Available /\ Lent' = Lent \ S
          /\ Available' = Available \ S /\ Held' = Held
       \/ /\ S \subseteq Available /\ Lent' = Lent
          /\ Available' = Available \ S /\ Held' = Held \cup S
       \/ /\ S \subseteq Held /\ Lent' = Lent
          /\ Available' = Available \cup S /\ Held' = Held \ S
  \/ Lent' = Lent /\ Available' = Available /\ Held' = Held

LEMMA InvInit == Init => Inv /\ Clear = {} /\ Available = {} /\ Held = {} /\ Lent = {}
  BY DEF Init, Inv, NoOverlap, NothingLeaks, Clear, Held, Available, Addresses, Lent

(* A request of at most one frame's bytes is one for one frame. *)
LEMMA OneBlock ==
  ASSUME Careful, NEW bytes \in 1 .. BlockSize * MaxRequest
  PROVE  MaxRequest = 1 /\ bytes_to_blocks(bytes) = 1
<1>1. MaxRequest = 1
  <2>1. MaxRequest \in {0, 1}
    BY PmmAssumption DEF Careful
  <2>2. MaxRequest # 0
    BY PmmAssumption
  <2> QED BY <2>1, <2>2
<1>2. bytes \in 1 .. BlockSize
  BY <1>1, PmmAssumption
<1>3. BlockSize \in Nat \ {0} /\ bytes + BlockSize - 1 \in BlockSize .. 2 * BlockSize - 1
  BY <1>2, PmmAssumption
<1>4. \A d \in Nat \ {0} : \A n \in d .. 2 * d - 1 : n \div d = 1
  OBVIOUS
<1> QED BY <1>1, <1>3, <1>4 DEF bytes_to_blocks

LEMMA InvStep ==
  ASSUME Careful, Inv, [Next]_vars
  PROVE  Inv' /\ Effect
<1>1. ASSUME NEW align \in 0 .. MaxBlocks - 1,
             NEW blocks \in 1 .. MaxBlocks - align - Spare,
             pmm_init_region(align * BlockSize, blocks * BlockSize)
      PROVE  Inv' /\ Effect
  <2> DEFINE S == align .. align + blocks
  <2>1. /\ Inv' /\ S \subseteq 0 .. MaxBlocks - 1
        /\ Addresses(S) \cap Lent = {} /\ Lent' = Lent \cup Addresses(S)
        /\ Available' = Available \cup Addresses(S) /\ Held' = Held
    BY <1>1, InitRegionStep
  <2> HIDE DEF S
  <2>2. Addresses(S) \in SUBSET Addresses(Bit)
    BY <2>1, MemoryHasBits DEF Addresses
  <2> QED BY <2>1, <2>2 DEF Effect
<1>2. ASSUME NEW align \in 0 .. MaxBlocks - 1,
             NEW blocks \in 1 .. MaxBlocks - align - Spare,
             pmm_deinit_region(align * BlockSize, blocks * BlockSize)
      PROVE  Inv' /\ Effect
  <2> DEFINE S == align .. align + blocks
  <2>1. /\ Inv' /\ S \subseteq Clear
        /\ Addresses(S) \subseteq Available /\ Lent' = Lent \ Addresses(S)
        /\ Available' = Available \ Addresses(S) /\ Held' = Held
    BY <1>2, DeinitRegionStep
  <2> HIDE DEF S
  <2>2. Addresses(S) \in SUBSET Addresses(Bit)
    BY <2>1 DEF Addresses, Clear
  <2> QED BY <2>1, <2>2 DEF Effect
<1>3. ASSUME NEW f \in Clear, GiveOut(f, 1)
      PROVE  Inv' /\ Effect
  <2>1. {Address(f)} \in SUBSET Addresses(Bit)
    BY <1>3 DEF Clear, Addresses
  <2>2. /\ Inv' /\ Lent' = Lent /\ {Address(f)} \subseteq Available
        /\ Available' = Available \ {Address(f)} /\ Held' = Held \cup {Address(f)}
    BY <1>3, GiveOutStep
  <2> QED BY <2>1, <2>2 DEF Effect
<1>4. ASSUME NEW g \in granted, pmm_free_blocks(g) \/ free(g)
      PROVE  Inv' /\ Effect
  <2>1. /\ FrameOf(g.addr) .. FrameOf(g.addr) + g.size - 1 = {FrameOf(g.addr)}
        /\ g.addr \in Addresses(Bit)
    BY <1>4, FramesOfOne DEF Inv
  <2>2. /\ used' = used \ {FrameOf(g.addr)} /\ granted' = granted \ {g}
        /\ UNCHANGED << doubled, passed, behind >>
    BY <1>4, <2>1 DEF pmm_free_blocks, free
  <2>3. /\ Inv' /\ Lent' = Lent /\ {g.addr} \subseteq Held
        /\ Available' = Available \cup {g.addr} /\ Held' = Held \ {g.addr}
    BY <1>4, <2>2, GiveBackStep
  <2>4. {g.addr} \in SUBSET Addresses(Bit)
    BY <2>1
  <2> QED BY <2>3, <2>4 DEF Effect
<1>5. ASSUME UNCHANGED << used, granted, doubled, passed, behind >>
      PROVE  Inv' /\ Effect
  <2>1. Clear' = Clear /\ Held' = Held /\ Lent' = Lent
    BY <1>5, SameGrants DEF Clear, Bit, Lent
  <2>2. Available' = Available
    BY <2>1, AvailableAfter DEF Available
  <2>3. /\ used' \subseteq Bit' /\ granted' \subseteq [addr : Addresses(Bit), size : {1}]'
        /\ NoOverlap'
    BY <1>5 DEF Inv, Bit, Addresses, Address, NoOverlap
  <2>4. NothingLeaks' /\ (passed \cap behind)' = {}
    BY <1>5, <2>1, <2>2 DEF Inv, NothingLeaks
  <2> QED BY <2>1, <2>2, <2>3, <2>4 DEF Inv, Effect
<1>6. CASE pmm_alloc_block
  <2>1. pmm_mmap_first_free \subseteq Clear
    BY DEF pmm_mmap_first_free, First
  <2> QED BY <1>3, <1>5, <1>6, <2>1 DEF pmm_alloc_block, AnswerNull
<1>7. ASSUME NEW size \in 0 .. MaxRequest, pmm_alloc_blocks(size)
      PROVE  Inv' /\ Effect
  <2>1. size \in {0, 1}
    BY <1>7, PmmAssumption DEF Careful
  <2>2. /\ pmm_mmap_first_free_by_size(0) = {}
        /\ pmm_mmap_first_free_by_size(1) \subseteq Clear
    BY DEF pmm_mmap_first_free_by_size, pmm_mmap_first_free, First
  <2> QED BY <1>3, <1>5, <1>7, <2>1, <2>2 DEF pmm_alloc_blocks, AnswerNull
<1>8. ASSUME NEW bytes \in 1 .. BlockSize * MaxRequest, malloc(bytes)
      PROVE  Inv' /\ Effect
  <2>1. bytes_to_blocks(bytes) = 1
    BY <1>8, PmmAssumption, OneBlock DEF Careful
  <2>2. 1 \in 0 .. MaxRequest
    BY <1>8, PmmAssumption, OneBlock DEF Careful
  <2> QED BY <1>7, <1>8, <2>1, <2>2 DEF malloc
<1>9. CASE UNCHANGED vars
  BY <1>5, <1>9 DEF vars
<1> QED BY <1>1, <1>2, <1>4, <1>6, <1>7, <1>8, <1>9 DEF Next

(* No frame is ever in the hands of two callers. *)
THEOREM FramesExclusive == Careful => (Spec => []NoOverlap)
<1> SUFFICES ASSUME Careful PROVE Spec => []NoOverlap
  OBVIOUS
<1>1. Init => Inv
  BY InvInit
<1>2. Inv /\ [Next]_vars => Inv'
  BY InvStep
<1>3. Inv => NoOverlap
  BY DEF Inv
<1> QED BY <1>1, <1>2, <1>3, PTL DEF Spec

(* No frame of a region is lost, and only memory of regions and the frame  *)
(* behind each is given out, at the addresses the caller passed it by.     *)
THEOREM FramesAccounted == Careful => (Spec => []NothingLeaks)
<1> SUFFICES ASSUME Careful PROVE Spec => []NothingLeaks
  OBVIOUS
<1>1. Init => Inv
  BY InvInit
<1>2. Inv /\ [Next]_vars => Inv'
  BY InvStep
<1>3. Inv => NothingLeaks
  BY DEF Inv
<1> QED BY <1>1, <1>2, <1>3, PTL DEF Spec

(* The manager implements the allocator of FrameAllocator.tla. *)
THEOREM Implements == Careful => (Spec => PromiseSpec)
<1> SUFFICES ASSUME Careful PROVE Spec => PromiseSpec
  OBVIOUS
<1>1. Init => Inv /\ Promise!Init
  BY InvInit DEF Promise!Init, Lent
<1>2. Inv /\ [Next]_vars => Inv'
  BY InvStep
<1>3. Inv /\ [Next]_vars => [Promise!Next]_(Promise!vars)
  <2> SUFFICES ASSUME Inv, [Next]_vars PROVE [Promise!Next]_(Promise!vars)
    OBVIOUS
  <2>1. Effect
    BY InvStep
  <2> QED BY <2>1
       DEF Effect, Lent, Promise!Next, Promise!vars, Promise!AddRegion,
           Promise!RemoveRegion, Promise!Grant, Promise!Release
<1> QED BY <1>1, <1>2, <1>3, PTL DEF Spec, PromiseSpec, Promise!Spec

-----------------------------------------------------------------------------
(***************************************************************************)
(* The count.  The regions lie in the memory, so that at most MaxBlocks    *)
(* frames are free and used_blocks never wraps around: it is what the free *)
(* ones leave of MaxBlocks.                                                *)
(***************************************************************************)
CountInv ==
  /\ Lent \subseteq Addresses(0 .. MaxBlocks - 1)
  /\ used_blocks = MaxBlocks - Cardinality(Clear)

LEMMA FreeInMemory ==
  ASSUME Inv, Lent \subseteq Addresses(0 .. MaxBlocks - 1)
  PROVE  Clear \subseteq 0 .. MaxBlocks - 1
<1> DEFINE M == 0 .. MaxBlocks - 1
<1>1. Clear \in SUBSET Nat /\ M \in SUBSET Nat
  BY PmmAssumption DEF Clear, Bit
<1>2. Addresses(Clear) \subseteq Addresses(M)
  BY DEF Inv, NothingLeaks, Available, Lent
<1> HIDE DEF M
<1>3. Clear \subseteq M
  BY <1>1, <1>2, AddressSets
<1> QED BY <1>3 DEF M

(* The same after a step. *)
LEMMA FreeInMemoryAfter ==
  ASSUME Inv', Lent' \subseteq Addresses(0 .. MaxBlocks - 1)
  PROVE  Clear' \subseteq 0 .. MaxBlocks - 1
<1> DEFINE M == 0 .. MaxBlocks - 1
<1>1. Clear' \in SUBSET Nat /\ M \in SUBSET Nat
  BY PmmAssumption DEF Clear, Bit
<1>2. Addresses(Clear') \subseteq Addresses(M)
  BY AvailableAfter DEF Inv, NothingLeaks, Lent
<1> HIDE DEF M
<1>3. Clear' \subseteq M
  BY <1>1, <1>2, AddressSets
<1> QED BY <1>3 DEF M

LEMMA FewFree ==
  ASSUME NEW C, C \subseteq 0 .. MaxBlocks - 1
  PROVE  IsFiniteSet(C) /\ Cardinality(C) \in 0 .. MaxBlocks
<1>1. MaxBlocks \in Nat \ {0}
  BY PmmAssumption
<1>2. IsFiniteSet(0 .. MaxBlocks - 1) /\ Cardinality(0 .. MaxBlocks - 1) = MaxBlocks
  BY <1>1, FS_Interval
<1>3. IsFiniteSet(C) /\ Cardinality(C) <= MaxBlocks
  BY <1>2, FS_Subset
<1>4. Cardinality(C) \in Nat
  BY <1>3, FS_CardinalityType
<1> QED BY <1>1, <1>3, <1>4

(* The words of the map have a bit for every frame, and UintMod exceeds    *)
(* their number.                                                           *)
LEMMA Widths ==
  /\ MaxBlocks \in Nat \ {0} /\ UintMod \in Nat /\ UintMod > MaxBlocks
<1>1. MaxBlocks \in Nat \ {0} /\ UintMod \in Nat /\ UintMod > WordBits * MaxBlocks
  BY PmmAssumption
<1>2. WordBits * MaxBlocks >= MaxBlocks
  <2>1. WordBits * MaxBlocks = MaxBlocks + (WordBits - 1) * MaxBlocks
    BY PmmAssumption
  <2>2. (WordBits - 1) * MaxBlocks >= 0
    BY PmmAssumption
  <2>3. (WordBits - 1) * MaxBlocks \in Int
    BY PmmAssumption
  <2> QED BY <1>1, <2>1, <2>2, <2>3
<1>3. WordBits * MaxBlocks \in Int
  BY PmmAssumption
<1> QED BY <1>1, <1>2, <1>3

LEMMA NoWrap ==
  ASSUME NEW m \in Nat \ {0}, NEW v \in 0 .. m - 1
  PROVE  v % m = v /\ (v + m) % m = v
OBVIOUS

(* Frames that become free are taken off the count. *)
LEMMA Freed ==
  ASSUME used_blocks = MaxBlocks - Cardinality(Clear),
         Clear \subseteq 0 .. MaxBlocks - 1,
         NEW S, S \subseteq 0 .. MaxBlocks - 1, S \cap Clear = {},
         Clear' = Clear \cup S, Minus(Cardinality(S))
  PROVE  used_blocks' = MaxBlocks - Cardinality(Clear')
<1> DEFINE n == Cardinality(S)
           c == Cardinality(Clear)
<1>1. IsFiniteSet(Clear) /\ c \in 0 .. MaxBlocks /\ IsFiniteSet(S) /\ n \in Nat
  <2>1. IsFiniteSet(Clear) /\ c \in 0 .. MaxBlocks
    BY FewFree
  <2>2. IsFiniteSet(S)
    BY FewFree
  <2> QED BY <2>1, <2>2, FS_CardinalityType
<1>2. Cardinality(Clear') \in 0 .. MaxBlocks
  <2>1. Clear' \subseteq 0 .. MaxBlocks - 1
    OBVIOUS
  <2> QED BY <2>1, FewFree
<1>4. Cardinality(Clear') = c + n
  <2>1. Clear \cap S = {} /\ Cardinality({}) = 0
    BY FS_EmptySet
  <2>2. Cardinality(Clear \cup S) = c + n - Cardinality({})
    BY <1>1, <2>1, FS_Union
  <2> QED BY <1>1, <2>1, <2>2
<1> HIDE DEF n, c
<1>5. used_blocks' = (MaxBlocks - c + UintMod - n) % UintMod
  BY DEF Minus, n, c
<1>6. MaxBlocks - (c + n) \in 0 .. UintMod - 1
  BY <1>1, <1>2, <1>4, Widths
<1>7. MaxBlocks - c + UintMod - n = MaxBlocks - (c + n) + UintMod
  BY <1>1, Widths
<1>8. used_blocks' = MaxBlocks - (c + n)
  BY <1>5, <1>6, <1>7, Widths, NoWrap
<1> QED BY <1>4, <1>8

(* Frames that are free no more are added to it. *)
LEMMA Spent ==
  ASSUME used_blocks = MaxBlocks - Cardinality(Clear),
         Clear \subseteq 0 .. MaxBlocks - 1,
         NEW S, S \subseteq Clear,
         Clear' = Clear \ S, Plus(Cardinality(S))
  PROVE  used_blocks' = MaxBlocks - Cardinality(Clear')
<1> DEFINE n == Cardinality(S)
           c == Cardinality(Clear)
<1>1. IsFiniteSet(Clear) /\ c \in 0 .. MaxBlocks
  BY FewFree
<1>2. IsFiniteSet(S) /\ n <= c
  BY <1>1, FS_Subset
<1>3. n \in Nat
  BY <1>2, FS_CardinalityType
<1>4. Cardinality(Clear') = c - n
  <2>1. Clear \cap S = S
    OBVIOUS
  <2> QED BY <1>1, <2>1, FS_Difference
<1> HIDE DEF n, c
<1>5. used_blocks' = (MaxBlocks - c + n) % UintMod
  BY DEF Plus, n, c
<1>6. MaxBlocks - c + n \in 0 .. UintMod - 1 /\ MaxBlocks - c + n = MaxBlocks - (c - n)
  BY <1>1, <1>2, <1>3, Widths
<1>7. used_blocks' = MaxBlocks - (c - n)
  BY <1>5, <1>6, Widths, NoWrap
<1> QED BY <1>4, <1>7

LEMMA CountInit == Init => CountInv
<1>1. Cardinality({}) = 0
  BY FS_EmptySet
<1>2. Init => Clear = {} /\ Lent = {} /\ used_blocks = MaxBlocks
  BY InvInit DEF Init
<1>3. MaxBlocks - 0 = MaxBlocks
  BY Widths
<1> QED BY <1>1, <1>2, <1>3 DEF CountInv

LEMMA MemoryAddresses ==
  Addresses(0 .. MaxBlocks - 1)' = Addresses(0 .. MaxBlocks - 1)
  BY DEF Addresses, Address

LEMMA CountStep ==
  ASSUME Careful, Inv, CountInv, [Next]_vars
  PROVE  CountInv'
<1>1. Clear \subseteq 0 .. MaxBlocks - 1 /\ used_blocks = MaxBlocks - Cardinality(Clear)
  BY FreeInMemory DEF CountInv
<1>2. ASSUME NEW align \in 0 .. MaxBlocks - 1,
             NEW blocks \in 1 .. MaxBlocks - align - Spare,
             \/ pmm_init_region(align * BlockSize, blocks * BlockSize)
             \/ pmm_deinit_region(align * BlockSize, blocks * BlockSize)
      PROVE  CountInv'
  <2> DEFINE S == align .. align + blocks
  <2>1. Cardinality(S) = blocks + 1
    BY <1>2, FS_Interval, PmmAssumption DEF Careful
  <2>2. CASE pmm_init_region(align * BlockSize, blocks * BlockSize)
    <3>1. /\ S \subseteq 0 .. MaxBlocks - 1 /\ S \cap Clear = {}
          /\ Clear' = Clear \cup S /\ Minus(blocks + 1)
          /\ Lent' = Lent \cup Addresses(S)
      BY <2>2, InitRegionStep
    <3> HIDE DEF S
    <3>2. Lent' \subseteq Addresses(0 .. MaxBlocks - 1)
      BY <3>1 DEF CountInv, Addresses
    <3>3. used_blocks' = MaxBlocks - Cardinality(Clear')
      BY <1>1, <2>1, <3>1, Freed
    <3> QED BY <3>2, <3>3, MemoryAddresses DEF CountInv
  <2>3. CASE pmm_deinit_region(align * BlockSize, blocks * BlockSize)
    <3>1. /\ S \subseteq Clear /\ Clear' = Clear \ S /\ Plus(blocks + 1)
          /\ Lent' = Lent \ Addresses(S)
      BY <2>3, DeinitRegionStep
    <3> HIDE DEF S
    <3>2. used_blocks' = MaxBlocks - Cardinality(Clear')
      BY <1>1, <2>1, <3>1, Spent
    <3> QED BY <3>1, <3>2, MemoryAddresses DEF CountInv
  <2> QED BY <1>2, <2>2, <2>3
<1>3. ASSUME NEW f \in Clear, GiveOut(f, 1)
      PROVE  CountInv'
  <2>1. Clear' = Clear \ {f} /\ {f} \subseteq Clear /\ Lent' = Lent
    BY <1>3, GiveOutStep
  <2>2. Plus(Cardinality({f}))
    BY <1>3, FS_Singleton DEF GiveOut
  <2>3. used_blocks' = MaxBlocks - Cardinality(Clear')
    BY <1>1, <2>1, <2>2, Spent
  <2> QED BY <2>1, <2>3, MemoryAddresses DEF CountInv
<1>4. ASSUME NEW g \in granted, pmm_free_blocks(g) \/ free(g)
      PROVE  CountInv'
  <2> DEFINE f == FrameOf(g.addr)
  <2>1. f .. f + g.size - 1 = {f} /\ g.size = 1
    BY <1>4, FramesOfOne DEF Inv
  <2>2. /\ used' = used \ {f} /\ granted' = granted \ {g}
        /\ UNCHANGED << doubled, passed, behind >> /\ Minus(1)
    BY <1>4, <2>1 DEF pmm_free_blocks, free
  <2>3. Inv' /\ Lent' = Lent /\ f \notin Clear /\ Clear' = Clear \cup {f}
    BY <1>4, <2>2, GiveBackStep
  <2> HIDE DEF f
  <2>4. Minus(Cardinality({f})) /\ {f} \cap Clear = {}
    BY <2>2, <2>3, FS_Singleton
  <2>5. Lent' \subseteq Addresses(0 .. MaxBlocks - 1)
    BY <2>3 DEF CountInv
  <2>6. {f} \subseteq 0 .. MaxBlocks - 1
    BY <2>3, <2>5, FreeInMemoryAfter
  <2>7. used_blocks' = MaxBlocks - Cardinality(Clear')
    BY <1>1, <2>3, <2>4, <2>6, Freed
  <2> QED BY <2>5, <2>7, MemoryAddresses DEF CountInv
<1>5. ASSUME UNCHANGED << used, used_blocks, passed, behind >> PROVE CountInv'
  BY <1>5, MemoryAddresses DEF CountInv, Clear, Bit, Lent
<1>6. CASE pmm_alloc_block
  <2>1. pmm_mmap_first_free \subseteq Clear
    BY DEF pmm_mmap_first_free, First
  <2> QED BY <1>3, <1>5, <1>6, <2>1 DEF pmm_alloc_block, AnswerNull
<1>7. ASSUME NEW size \in 0 .. MaxRequest, pmm_alloc_blocks(size)
      PROVE  CountInv'
  <2>1. size \in {0, 1}
    BY <1>7, PmmAssumption DEF Careful
  <2>2. /\ pmm_mmap_first_free_by_size(0) = {}
        /\ pmm_mmap_first_free_by_size(1) \subseteq Clear
    BY DEF pmm_mmap_first_free_by_size, pmm_mmap_first_free, First
  <2> QED BY <1>3, <1>5, <1>7, <2>1, <2>2 DEF pmm_alloc_blocks, AnswerNull
<1>8. ASSUME NEW bytes \in 1 .. BlockSize * MaxRequest, malloc(bytes)
      PROVE  CountInv'
  <2>1. bytes_to_blocks(bytes) = 1 /\ MaxRequest = 1
    BY <1>8, OneBlock
  <2> QED BY <1>7, <1>8, <2>1 DEF malloc
<1>9. CASE UNCHANGED vars
  BY <1>5, <1>9 DEF vars
<1> QED BY <1>2, <1>4, <1>6, <1>7, <1>8, <1>9 DEF Next

LEMMA CountMeans ==
  ASSUME Inv, CountInv
  PROVE  max_minus_used = Cardinality(Clear) /\ Cardinality(Clear) \in Nat
<1> DEFINE c == Cardinality(Clear)
<1>1. c \in 0 .. MaxBlocks
  BY FewFree, FreeInMemory DEF CountInv
<1>2. max_minus_used = (MaxBlocks + UintMod - (MaxBlocks - c)) % UintMod
  BY DEF max_minus_used, CountInv
<1> HIDE DEF c
<1>3. c \in 0 .. UintMod - 1 /\ MaxBlocks + UintMod - (MaxBlocks - c) = c + UintMod
  BY <1>1, Widths
<1>4. max_minus_used = c
  BY <1>2, <1>3, Widths, NoWrap
<1> QED BY <1>1, <1>4, Widths DEF c

(* The number of free frames the manager computes is the number of clear   *)
(* bits, after every order of calls: the one frame too many that a region  *)
(* gets is counted too.                                                    *)
THEOREM CountSafety == Careful => (Spec => []FreeCountExact)
<1> SUFFICES ASSUME Careful PROVE Spec => []FreeCountExact
  OBVIOUS
<1>1. Init => Inv /\ CountInv
  BY InvInit, CountInit
<1>2. Inv /\ CountInv /\ [Next]_vars => Inv' /\ CountInv'
  BY InvStep, CountStep
<1>3. Inv /\ CountInv => FreeCountExact
  BY CountMeans DEF FreeCountExact
<1> QED BY <1>1, <1>2, <1>3, PTL DEF Spec

-----------------------------------------------------------------------------
(* A search fails on a full memory only. *)
LEMMA SearchFinds ==
  ASSUME pmm_mmap_first_free = {}
  PROVE  Clear = {}
<1> SUFFICES ASSUME Clear # {} PROVE FALSE
  OBVIOUS
<1>1. Clear \subseteq Nat
  BY BitIsNat DEF Clear
<1>2. PICK x \in Clear : \A y \in Clear : ~ (<< y, x >> \in OpToRel(<, Nat))
  BY <1>1, WFMin, NatLessThanWellFounded, Zenon
<1>3. \A y \in Clear : ~ (y < x)
  BY <1>1, <1>2 DEF OpToRel
<1>4. \A y \in Clear : x <= y
  BY <1>1, <1>3
<1> QED BY <1>4 DEF pmm_mmap_first_free, First

LEMMA NullStep ==
  ASSUME Careful, Inv, CountInv, NullMeansFull, [Next]_vars
  PROVE  NullMeansFull'
<1>1. ASSUME null' = NoCall PROVE NullMeansFull'
  BY <1>1 DEF NullMeansFull, NoCall
<1>2. max_minus_used = Cardinality(Clear) /\ Cardinality(Clear) \in Nat
  BY CountMeans
<1>3. IsFiniteSet(Clear)
  BY FewFree, FreeInMemory DEF CountInv
<1>4. CASE pmm_alloc_block
  <2>1. CASE AnswerNull("alloc_block", 1) /\ (max_minus_used = 0 \/ pmm_mmap_first_free = {})
    <3>1. Clear = {}
      BY <1>2, <1>3, <2>1, SearchFinds, FS_EmptySet
    <3>2. Clear' = {} /\ null'.op = "alloc_block"
      BY <2>1, <3>1 DEF AnswerNull, Clear, Bit
    <3> QED BY <3>2 DEF NullMeansFull
  <2> QED BY <1>1, <1>4, <2>1 DEF pmm_alloc_block, GiveOut
<1>5. ASSUME NEW size \in 0 .. MaxRequest, pmm_alloc_blocks(size)
      PROVE  NullMeansFull'
  <2>1. size \in {0, 1} /\ pmm_mmap_first_free_by_size(1) = pmm_mmap_first_free
    BY <1>5, PmmAssumption DEF Careful, pmm_mmap_first_free_by_size
  <2>2. CASE AnswerNull("alloc_blocks", size)
             /\ (max_minus_used <= size \/ pmm_mmap_first_free_by_size(size) = {})
    <3>1. size = 0 \/ Cardinality(Clear) <= size
      <4>1. CASE size = 1 /\ pmm_mmap_first_free = {}
        BY <4>1, SearchFinds, FS_EmptySet
      <4> QED BY <1>2, <2>1, <2>2, <4>1
    <3>2. Clear' = Clear /\ null'.op = "alloc_blocks" /\ null'.size = size
      BY <2>2 DEF AnswerNull, Clear, Bit
    <3> QED BY <3>1, <3>2 DEF NullMeansFull
  <2> QED BY <1>1, <1>5, <2>2 DEF pmm_alloc_blocks, GiveOut
<1>6. ASSUME NEW bytes \in 1 .. BlockSize * MaxRequest, malloc(bytes)
      PROVE  NullMeansFull'
  <2>1. bytes_to_blocks(bytes) = 1 /\ MaxRequest = 1
    BY <1>6, OneBlock
  <2> QED BY <1>5, <1>6, <2>1 DEF malloc
<1>7. ASSUME NEW align \in 0 .. MaxBlocks - 1,
             NEW blocks \in 1 .. MaxBlocks - align - Spare,
             \/ pmm_init_region(align * BlockSize, blocks * BlockSize)
             \/ pmm_deinit_region(align * BlockSize, blocks * BlockSize)
      PROVE  NullMeansFull'
  BY <1>1, <1>7 DEF pmm_init_region, pmm_deinit_region
<1>8. ASSUME NEW g \in granted, pmm_free_blocks(g) \/ free(g)
      PROVE  NullMeansFull'
  BY <1>1, <1>8 DEF pmm_free_blocks, free
<1>9. CASE UNCHANGED vars
  BY <1>9 DEF vars, NullMeansFull, Clear, Bit
<1> QED BY <1>4, <1>5, <1>6, <1>7, <1>8, <1>9 DEF Next

(* A request of one frame is refused only by a memory with no other frame  *)
(* than that one free; the search never misses a clear bit.                *)
THEOREM RefusalSafety == Careful => (Spec => []NullMeansFull)
<1> SUFFICES ASSUME Careful PROVE Spec => []NullMeansFull
  OBVIOUS
<1>1. Init => Inv /\ CountInv /\ NullMeansFull
  BY InvInit, CountInit DEF Init, NullMeansFull, NoCall
<1>2. Inv /\ CountInv /\ NullMeansFull /\ [Next]_vars
        => Inv' /\ CountInv' /\ NullMeansFull'
  BY InvStep, CountStep, NullStep
<1> QED BY <1>1, <1>2, PTL DEF Spec

-----------------------------------------------------------------------------
LEMMA TypeStep ==
  ASSUME Careful, Inv, CountInv, TypeOK, [Next]_vars
  PROVE  TypeOK'
<1>1. used' \subseteq Bit' /\ granted' \subseteq [addr : Addresses(Bit), size : {1}]'
  BY InvStep DEF Inv
<1>2. granted' \subseteq [addr : Addresses(Bit), size : Nat]' /\ doubled' \in BOOLEAN
  <2>1. doubled' = doubled \/ doubled' \in BOOLEAN
    BY DEF Next, vars, pmm_init_region, pmm_deinit_region, pmm_alloc_block,
           pmm_alloc_blocks, malloc, GiveOut, AnswerNull, pmm_free_blocks, free
  <2> QED BY <1>1, <2>1 DEF TypeOK
<1>3. passed' \subseteq Nat /\ behind' \subseteq Nat /\ used_blocks' \in 0 .. UintMod - 1
  <2>1. Inv' /\ CountInv'
    BY CountStep, InvStep
  <2>2. Lent' \subseteq Addresses(0 .. MaxBlocks - 1)
    BY <2>1, MemoryAddresses DEF CountInv
  <2>3. Addresses(0 .. MaxBlocks - 1) \subseteq Nat
    BY MemoryHasBits, BitIsNat, FrameOfAddress DEF Addresses
  <2>4. Clear' \subseteq 0 .. MaxBlocks - 1
    BY <2>1, <2>2, FreeInMemoryAfter
  <2>5. Cardinality(Clear') \in 0 .. MaxBlocks
    BY <2>4, FewFree
  <2>6. used_blocks' = MaxBlocks - Cardinality(Clear')
    BY <2>1 DEF CountInv
  <2>7. used_blocks' \in 0 .. UintMod - 1
    BY <2>5, <2>6, Widths
  <2> QED BY <2>2, <2>3, <2>7 DEF Lent
<1>4. null' \in [op : {"none", "alloc_block", "alloc_blocks"}, size : Nat]
  <2> DEFINE Null == [op : {"none", "alloc_block", "alloc_blocks"}, size : Nat]
  <2>1. NoCall \in Null /\ null \in Null
    BY DEF NoCall, TypeOK
  <2>2. ASSUME NEW n \in Nat
        PROVE  /\ AnswerNull("alloc_block", n) => null' \in Null
               /\ AnswerNull("alloc_blocks", n) => null' \in Null
    BY DEF AnswerNull
  <2>3. CASE pmm_alloc_block
    BY <2>1, <2>2, <2>3 DEF pmm_alloc_block, GiveOut
  <2>4. ASSUME NEW size \in 0 .. MaxRequest, pmm_alloc_blocks(size)
        PROVE  null' \in Null
    BY <2>1, <2>2, <2>4, PmmAssumption DEF pmm_alloc_blocks, GiveOut
  <2>5. ASSUME NEW bytes \in 1 .. BlockSize * MaxRequest, malloc(bytes)
        PROVE  null' \in Null
    <3>1. bytes_to_blocks(bytes) = 1 /\ MaxRequest = 1
      BY <2>5, OneBlock
    <3> QED BY <2>4, <2>5, <3>1 DEF malloc
  <2>6. ASSUME NEW align \in 0 .. MaxBlocks - 1,
               NEW blocks \in 1 .. MaxBlocks - align - Spare,
               \/ pmm_init_region(align * BlockSize, blocks * BlockSize)
             \/ pmm_deinit_region(align * BlockSize, blocks * BlockSize)
        PROVE  null' \in Null
    BY <2>1, <2>6 DEF pmm_init_region, pmm_deinit_region
  <2>7. ASSUME NEW g \in granted, pmm_free_blocks(g) \/ free(g)
        PROVE  null' \in Null
    BY <2>1, <2>7 DEF pmm_free_blocks, free
  <2>8. CASE UNCHANGED vars
    BY <2>1, <2>8 DEF vars
  <2> HIDE DEF Null
  <2> QED BY <2>3, <2>4, <2>5, <2>6, <2>7, <2>8 DEF Next, Null
<1> QED BY <1>1, <1>2, <1>3, <1>4 DEF TypeOK

(* Every variable keeps its type: in particular used_blocks, which is      *)
(* unsigned, is never taken below zero, and no frame behind the map's last *)
(* bit is handed out.                                                      *)
THEOREM PmmTypeCorrect == Careful => (Spec => []TypeOK)
<1> SUFFICES ASSUME Careful PROVE Spec => []TypeOK
  OBVIOUS
<1>1. Init => Inv /\ CountInv /\ TypeOK
  <2> SUFFICES ASSUME Init PROVE TypeOK
    BY InvInit, CountInit
  <2>1. NoCall \in [op : {"none", "alloc_block", "alloc_blocks"}, size : Nat]
    BY DEF NoCall
  <2>2. used_blocks \in 0 .. UintMod - 1
    BY Widths DEF Init
  <2>3. granted \subseteq [addr : Addresses(Bit), size : Nat] /\ passed \subseteq Nat /\ behind \subseteq Nat
    BY DEF Init
  <2> QED BY <2>1, <2>2, <2>3 DEF Init, TypeOK
<1>2. Inv /\ CountInv /\ TypeOK /\ [Next]_vars => Inv' /\ CountInv' /\ TypeOK'
  BY InvStep, CountStep, TypeStep
<1> QED BY <1>1, <1>2, PTL DEF Spec
=============================================================================
