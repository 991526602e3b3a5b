-------------------------------- MODULE Pmm ---------------------------------
(***************************************************************************)
(* The physical memory manager (shell32/accessories/pmm.c): a bitmap of    *)
(* page frames, a set bit for one in use, and a count of the used ones.    *)
(* The kernel links it and does not call it yet, so its callers are the    *)
(* ones pmm.h documents: they pass a region once, ask for frames, and give *)
(* back only what they hold.                                               *)
(*                                                                         *)
(* The manager counts in two ways.  A region is passed by its base and     *)
(* the frame of a base is base / PMM_BLOCK_SIZE; the address a caller gets *)
(* is the frame's offset behind memory_map_end, and what is given back has *)
(* memory_map_end taken off.  The history variables hold addresses of      *)
(* memory, as the callers see it.                                          *)
(***************************************************************************)
EXTENDS Naturals, FiniteSets, FiniteSetsExt

CONSTANTS
  MaxBlocks,   \* max_blocks: the frames of the memory, and the map's words
  BlockSize,   \* PMM_BLOCK_SIZE, 4096 in the source
  WordBits,    \* bits of a word of memory_map_array, 32 in the source
  UintMod,     \* used_blocks is a uint32_t: 2^32 in the source
  MapEnd,      \* memory_map_end: the address behind the map's last word
  RegionStart, \* the callers' convention: the address a base of 0 stands for
  MaxRequest,  \* bound: the most frames a caller asks for at once
  Spare        \* the frames callers leave unused behind a region they pass

ASSUME PmmAssumption ==
  /\ MaxBlocks \in Nat \ {0} /\ WordBits \in Nat \ {0, 1}
  /\ UintMod \in Nat /\ UintMod > WordBits * MaxBlocks
  /\ BlockSize \in Nat \ {0} /\ MaxRequest \in Nat /\ Spare \in {0, 1}
  /\ MapEnd \in Nat /\ RegionStart \in Nat

VARIABLES
  used,         \* memory_map_array: the bits that are set
  used_blocks,
  granted,      \* history: what callers hold, [addr |-> _, size |-> _]
  doubled,      \* history: a frame was given out that a caller held
  passed,       \* history: the memory of the regions passed and not taken back
  behind,       \* history: the one frame behind each of these regions
  null          \* history: the request the last call answered with NULL

vars == << used, used_blocks, granted, doubled, passed, behind, null >>

(* The map has max_blocks words, not max_blocks bits. *)
Bit == 0 .. WordBits * MaxBlocks - 1
Clear == Bit \ used

NoCall == [op |-> "none", size |-> 0]

(* A mutant of FrameOf: the map is not skipped on the way back. *)
FrameOfPhysical(addr) == addr \div BlockSize

Address(frame) == frame * BlockSize + MapEnd
FrameOf(addr) == (addr - MapEnd) \div BlockSize

(* Memory is named by the addresses of its frames. *)
Addresses(S) == {Address(f) : f \in S}
FramesFrom(addr, n) == {addr + i * BlockSize : i \in 0 .. n - 1}

Available == Addresses(Clear)
Held == UNION {FramesFrom(g.addr, g.size) : g \in granted}

max_minus_used == (MaxBlocks + UintMod - used_blocks) % UintMod

-----------------------------------------------------------------------------
(* The frame an unlucky search does not find: the set is empty for -1. *)
First(S) == {b \in S : \A c \in S : b <= c}

pmm_mmap_first_free == First(Clear)

(* The clear bits the innermost loop counts when it starts at bit b.       *)
CountedFrom(b) == {c \in Clear : c >= b /\ c \div WordBits = b \div WordBits}

(* `free' is never reset: the search at b goes on from what the searches   *)
(* at the clear bits before it counted.                                    *)
CountedAt(b) ==
  MapThenSumSet(LAMBDA c : Cardinality(CountedFrom(c)), {c \in Clear : c <= b})

pmm_mmap_first_free_by_size(size) ==
  IF size = 0 THEN {}
  ELSE IF size = 1 THEN pmm_mmap_first_free
  ELSE First({b \in Clear : CountedAt(b) >= size})

bytes_to_blocks(bytes) == (bytes + BlockSize - 1) \div BlockSize

-----------------------------------------------------------------------------
Init ==
  /\ used = Bit
  /\ used_blocks = MaxBlocks
  /\ granted = {} /\ doubled = FALSE /\ null = NoCall
  /\ passed = {} /\ behind = {}

Plus(n)  == used_blocks' = (used_blocks + n) % UintMod
Minus(n) == used_blocks' = (used_blocks + UintMod - n) % UintMod

(* The memory a caller means by a region of whole frames, and the frame    *)
(* behind it.                                                              *)
Meant(base, size) == FramesFrom(RegionStart + base, size \div BlockSize)
After(base, size) == RegionStart + base + size
Padded(base, size) == Meant(base, size) \cup {After(base, size)}

(* `blocks >= 0' takes one frame more than asked for. *)
RegionFrames(base, size) ==
  base \div BlockSize .. base \div BlockSize + size \div BlockSize

pmm_init_region(base, size) ==
  /\ Meant(base, size) \cap passed = {}
  /\ Spare = 1 => Padded(base, size) \cap (passed \cup behind) = {}
  /\ used' = used \ RegionFrames(base, size)
  /\ Minus(size \div BlockSize + 1)
  /\ passed' = passed \cup Meant(base, size)
  /\ behind' = behind \cup {After(base, size)}
  /\ null' = NoCall
  /\ UNCHANGED << granted, doubled >>

(* Callers take back what they passed, up to its end, when none of it is   *)
(* in use.                                                                 *)
pmm_deinit_region(base, size) ==
  /\ Meant(base, size) \subseteq passed /\ After(base, size) \in behind
  /\ Padded(base, size) \cap Held = {}
  /\ used' = used \cup RegionFrames(base, size)
  /\ Plus(size \div BlockSize + 1)
  /\ passed' = passed \ Meant(base, size)
  /\ behind' = behind \ {After(base, size)}
  /\ null' = NoCall
  /\ UNCHANGED << granted, doubled >>

(* What a caller gets: the address of the first of `size' frames. *)
Grant(frame, size) == [addr |-> Address(frame), size |-> size]

(* A mutant of GiveOut: the frames are not marked. *)
GiveOutUnmarked(frame, size) ==
  /\ Plus(size)
  /\ granted' = granted \cup {Grant(frame, size)}
  /\ doubled' = (doubled \/ FramesFrom(Address(frame), size) \cap Held # {})
  /\ null' = NoCall
  /\ UNCHANGED << used, passed, behind >>

GiveOut(frame, size) ==
  /\ used' = used \cup (frame .. frame + size - 1)
  /\ Plus(size)
  /\ granted' = granted \cup {Grant(frame, size)}
  /\ doubled' = (doubled \/ FramesFrom(Address(frame), size) \cap Held # {})
  /\ null' = NoCall
  /\ UNCHANGED << passed, behind >>

AnswerNull(call, n) ==
  /\ null' = [op |-> call, size |-> n]
  /\ UNCHANGED << used, used_blocks, granted, doubled, passed, behind >>

(* Mutants of pmm_alloc_block: neither test for a full memory is made; the *)
(* last free frame is refused.                                             *)
pmm_alloc_block_untested ==
  \E frame \in IF Clear = {} THEN {WordBits * MaxBlocks} ELSE pmm_mmap_first_free :
    GiveOut(frame, 1)

pmm_alloc_block_early ==
  \/ /\ max_minus_used > 1
     /\ \E frame \in pmm_mmap_first_free : GiveOut(frame, 1)
  \/ /\ max_minus_used <= 1 \/ pmm_mmap_first_free = {}
     /\ AnswerNull("alloc_block", 1)

pmm_alloc_block ==
  \/ /\ max_minus_used > 0
     /\ \E frame \in pmm_mmap_first_free : GiveOut(frame, 1)
  \/ /\ max_minus_used = 0 \/ pmm_mmap_first_free = {}
     /\ AnswerNull("alloc_block", 1)

pmm_alloc_blocks(size) ==
  \/ /\ max_minus_used > size
     /\ \E frame \in pmm_mmap_first_free_by_size(size) : GiveOut(frame, size)
  \/ /\ max_minus_used <= size \/ pmm_mmap_first_free_by_size(size) = {}
     /\ AnswerNull("alloc_blocks", size)

(* A request for no bytes is refused at once. *)
malloc(bytes) == bytes > 0 /\ pmm_alloc_blocks(bytes_to_blocks(bytes))

(* pmm_free_block, and pmm_free_blocks with the size of the grant. *)
pmm_free_blocks(g) ==
  /\ used' = used \ (FrameOf(g.addr) .. FrameOf(g.addr) + g.size - 1)
  /\ Minus(g.size)
  /\ granted' = granted \ {g}
  /\ null' = NoCall
  /\ UNCHANGED << doubled, passed, behind >>

(* Mutants of free: the count stays, the bit stays. *)
freeUncounted(g) ==
  /\ used' = used \ {FrameOf(g.addr)}
  /\ granted' = granted \ {g}
  /\ null' = NoCall
  /\ UNCHANGED << used_blocks, doubled, passed, behind >>

freeUncleared(g) ==
  /\ Minus(1)
  /\ granted' = granted \ {g}
  /\ null' = NoCall
  /\ UNCHANGED << used, doubled, passed, behind >>

(* free(p) does not know the size: it gives back one frame. *)
free(g) ==
  /\ used' = used \ {FrameOf(g.addr)}
  /\ Minus(1)
  /\ granted' = granted \ {g}
  /\ null' = NoCall
  /\ UNCHANGED << doubled, passed, behind >>

Next ==
  \/ \E align \in 0 .. MaxBlocks - 1 : \E blocks \in 1 .. MaxBlocks - align - Spare :
       \/ pmm_init_region(align * BlockSize, blocks * BlockSize)
       \/ pmm_deinit_region(align * BlockSize, blocks * BlockSize)
  \/ pmm_alloc_block
  \/ \E size \in 0 .. MaxRequest : pmm_alloc_blocks(size)
  \/ \E bytes \in 1 .. BlockSize * MaxRequest : malloc(bytes)
  \/ \E g \in granted : pmm_free_blocks(g) \/ free(g)

Spec == Init /\ [][Next]_vars

-----------------------------------------------------------------------------
(***************************************************************************)
(* What holds for callers that take one frame at a time, leave the frame   *)
(* behind each region unused, and count bases from the end of the map:     *)
(* RegionStart = MapEnd, "starting point of regions" in pmm_init.  For     *)
(* callers that pass addresses of memory (RegionStart = 0) the frames they *)
(* get lie memory_map_end further on than the regions they passed.         *)
(***************************************************************************)

(* Every variable has its type, and what callers hold are addresses of     *)
(* frames that have a bit.                                                 *)
TypeOK ==
  /\ used \subseteq Bit
  /\ used_blocks \in 0 .. UintMod - 1
  /\ granted \subseteq [addr : Addresses(Bit), size : Nat]
  /\ doubled \in BOOLEAN /\ passed \subseteq Nat /\ behind \subseteq Nat
  /\ null \in [op : {"none", "alloc_block", "alloc_blocks"}, size : Nat]

(* No frame is handed out while a caller holds it (the search and the      *)
(* marking of pmm_alloc_block and pmm_alloc_blocks, over every order of    *)
(* calls).                                                                 *)
NoOverlap == ~ doubled

(* The memory available or held is the memory of the regions, and the one  *)
(* frame behind each that pmm_init_region makes available with it; no      *)
(* frame is both.  The bases of regions, the bits, and the addresses given *)
(* out and taken back agree over every order of calls.                     *)
NothingLeaks ==
  /\ passed \cup behind = Available \cup Held
  /\ Available \cap Held = {}

(* The count of the used blocks agrees with the bitmap, modulo its width:  *)
(* the calls that change one change the other by as much.                  *)
FreeCountExact == max_minus_used = Cardinality(Clear)

(* A request is refused only when no more frames are free than it asks for *)
(* (the two tests of pmm_alloc_block and pmm_alloc_blocks).                *)
NullMeansFull ==
  /\ null.op = "alloc_block" => Clear = {}
  /\ null.op = "alloc_blocks" => Cardinality(Clear) <= null.size \/ null.size = 0

(* The manager implements what pmm.h promises. *)
Promise == INSTANCE FrameAllocator
             WITH Frame <- Addresses(Bit), avail <- Available, held <- Held,
                  lent <- passed \cup behind
PromiseSpec == Promise!Spec
=============================================================================
