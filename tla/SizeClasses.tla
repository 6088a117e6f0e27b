---------------------------- MODULE SizeClasses ----------------------------
(***************************************************************************)
(* Which block serves a request (class_for, alloc_large), and what realloc *)
(* does with it.  The numbers are those of the code.                       *)
(*                                                                         *)
(* An operator named ...Bug is the operator after it with a mistake such   *)
(* code could have; no specification uses one.                             *)
(***************************************************************************)
EXTENDS Integers, Sequences, FiniteSets

CONSTANTS
    AllocSizes,     \* sizes requested from alloc
    ReallocSizes,   \* sizes requested from realloc
    Aligns

MAX_SMALL == 1024
MAX_POOL == 32768
MAX_ALIGN == 16
PAGE_HEADER == 128
LARGE_UNIT == 65536
LARGE_BUCKETS == 64
LARGE_MAX == LARGE_BUCKETS * LARGE_UNIT - PAGE_HEADER
NUM_SMALL_CLASSES == 20

CLASS_SIZES ==
    <<8, 16, 24, 32, 40, 48, 56, 64, 80, 96, 112, 128, 152, 168, 192, 256, 384, 512,
      768, 1024, 1280, 1536, 1792, 2048, 2560, 3072, 3584, 4096, 5120, 6144, 7168,
      8192, 10240, 12288, 14336, 16384, 20480, 24576, 28672, 32768>>

Classes == 0..(Len(CLASS_SIZES) - 1)

BlockSize(class) == CLASS_SIZES[class + 1]

NoClass == -1

VARIABLES
    size, align,   \* the layout of the block the program holds; size 0: none
    origin         \* where the block lives: a class, a number of units, System

vars == <<size, align, origin>>

Pool(class) == [in |-> "pool", n |-> class]
Large(units) == [in |-> "large", n |-> units]
System == [in |-> "system", n |-> 0]
----------------------------------------------------------------------------
(* build_class_table: the first class that is large enough and, for        *)
(* alignment 16, a multiple of 16.                                         *)
TableClass(s, a) ==
    LET adequate == {c \in Classes : BlockSize(c) >= s /\ BlockSize(c) % a = 0}
    IN  CHOOSE c \in adequate : \A d \in adequate : c <= d

(* usize::BITS - 1 - leading_zeros.                                        *)
Log2(n) == CHOOSE k \in 0..16 : 2^k <= n /\ n < 2^(k + 1)

(* Four classes per power of two, 1.25, 1.5, 1.75 and 2 times it.          *)
MediumClassBug(s) ==
    LET log == Log2(s) IN
    NUM_SMALL_CLASSES + (log - 10) * 4 + ((s \div 2^(log - 2)) % 4)

MediumClass(s) ==
    LET n == s - 1
        log == Log2(n)
    IN  NUM_SMALL_CLASSES + (log - 10) * 4 + ((n \div 2^(log - 2)) % 4)

ClassFor(s, a) ==
    IF a > MAX_ALIGN \/ s > MAX_POOL THEN NoClass
    ELSE IF s <= MAX_SMALL THEN TableClass(s, IF a > 8 THEN 16 ELSE 8)
    ELSE MediumClass(s)

UnitsFor(s) == (s + PAGE_HEADER + LARGE_UNIT - 1) \div LARGE_UNIT

LargeCapacity(units) == units * LARGE_UNIT - PAGE_HEADER

(* alloc: a class, else the large region, else System; a region that is    *)
(* exhausted also falls back to System.                                    *)
Origins(s, a) ==
    LET class == ClassFor(s, a) IN
    {System}
    \cup (IF class # NoClass THEN {Pool(class)} ELSE {})
    \cup (IF class = NoClass /\ a <= MAX_ALIGN /\ s <= LARGE_MAX
          THEN {Large(UnitsFor(s))} ELSE {})

(* realloc leaves a large block where it is while the new size still needs *)
(* the large region and uses more than half of the block.                  *)
KeepsLargeBug(units, s) == s > MAX_POOL /\ s * 2 > LargeCapacity(units)

KeepsLarge(units, s) ==
    /\ s > MAX_POOL
    /\ s <= LargeCapacity(units)
    /\ s * 2 > LargeCapacity(units)

InPlace(s) ==
    \/ origin.in = "system"   \* System.realloc; the origin never changes
    \/ origin.in = "pool" /\ ClassFor(s, align) = origin.n
    \/ origin.in = "large" /\ KeepsLarge(origin.n, s)
----------------------------------------------------------------------------
Init == size = 0 /\ align = 1 /\ origin = System

Alloc(s, a) ==
    /\ size = 0
    /\ size' = s
    /\ align' = a
    /\ origin' \in Origins(s, a)

Realloc(s) ==
    /\ size # 0
    /\ size' = s
    /\ origin' \in IF InPlace(s) THEN {origin} ELSE Origins(s, align)
    /\ UNCHANGED align

Free == size # 0 /\ size' = 0 /\ align' = 1 /\ origin' = System

Next ==
    \/ \E s \in AllocSizes, a \in Aligns : Alloc(s, a)
    \/ \E s \in ReallocSizes : Realloc(s)
    \/ Free

Spec == Init /\ [][Next]_vars
----------------------------------------------------------------------------
(* Through any sequence of reallocations the program's block holds the     *)
(* bytes it last asked for, at the alignment it asked for.  Pages start on *)
(* 64 KiB boundaries and colours are multiples of 64, so the alignment of  *)
(* a pool block is that of its class size; a large block follows a header  *)
(* of PAGE_HEADER bytes.                                                   *)
BlockHoldsRequest ==
    /\ origin.in = "pool" =>
           BlockSize(origin.n) >= size /\ BlockSize(origin.n) % align = 0
    /\ origin.in = "large" =>
           /\ origin.n \in 1..LARGE_BUCKETS
           /\ LargeCapacity(origin.n) >= size
           /\ PAGE_HEADER % align = 0

(* No smaller class would have done: the shift-and-mask formula of the     *)
(* medium classes agrees with a search of the table.                       *)
SmallestClass ==
    origin.in = "pool" =>
        \A c \in Classes : c < origin.n =>
            \/ BlockSize(c) < size
            \/ align > 8 /\ BlockSize(c) % 16 # 0
=============================================================================
