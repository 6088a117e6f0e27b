--------------------------- MODULE HeapReservation ---------------------------
(***************************************************************************)
(* The address range of the heap: how racing threads reserve and publish   *)
(* it, carve pages and large blocks from it, and find the page of a block  *)
(* that is freed.  Pages are never given back here; HeapPages and PageStack *)
(* model their reuse.                                                      *)
(*                                                                         *)
(* An operator named ...Bug is the operator after it with a mistake such   *)
(* code could have; no specification uses one.                             *)
(***************************************************************************)
EXTENDS Integers, Sequences, FiniteSets

CONSTANTS
    Threads,
    LARGE_UNIT,         \* also the size of a small page
    MEDIUM_PAGE_SIZE,
    HEADER_SIZE,
    Mappings,           \* <<raw, size>> pairs mmap may return
    MaxUnits,           \* the largest large block, in units
    AddressSpace,       \* addresses a free is asked about
    EnvModes            \* what getenv("RPHP_HEAP") may say: 1 pool, 2 system

ASSUME UnitsAssumption ==
    /\ LARGE_UNIT \in Nat \ {0}
    /\ HEADER_SIZE \in 1..LARGE_UNIT
    /\ \E k \in 1..LARGE_UNIT : MEDIUM_PAGE_SIZE = k * LARGE_UNIT

VARIABLES
    MODE,
    range,      \* base, half, large_start, small_start, reserve, three cursors
    mapped,     \* mmap'ed and not munmap'ed
    claims,     \* carved so far: [at, region, bytes]
    pc, job, mine, step,   \* per thread: what it is doing
    heap        \* per thread: mode, base and small_limit of its ThreadHeap

vars == <<MODE, range, mapped, claims, pc, job, mine, step, heap>>

Regions == {"small", "medium", "large"}

NoMapping == <<0, 0>>

NoJob == [region |-> "small", bytes |-> 0, at |-> 0]

Down(n, unit) == (n \div unit) * unit
Up(n, unit) == Down(n + unit - 1, unit)
----------------------------------------------------------------------------
(* How reserve_range cuts up a mapping.                                    *)
MediumCursor(base, half) == Up(base + half, MEDIUM_PAGE_SIZE)

HeaderArrayBug(half, large_start) == Up((half \div LARGE_UNIT) * HEADER_SIZE, LARGE_UNIT)

HeaderArray(half, large_start) == Up((large_start \div LARGE_UNIT) * HEADER_SIZE, LARGE_UNIT)

Layout(m) ==
    LET raw == m[1]
        base == Up(raw, LARGE_UNIT)
        reserve == Down(raw + m[2] - base, LARGE_UNIT)
        half == Down(reserve \div 2, MEDIUM_PAGE_SIZE)
        large_start == half + Down(reserve \div 4, LARGE_UNIT)
        small_start == HeaderArray(half, large_start)
    IN  [base |-> base, half |-> half, large_start |-> large_start,
         small_start |-> small_start, reserve |-> reserve,
         small |-> base + small_start, medium |-> MediumCursor(base, half),
         large |-> base + large_start]

(* The smallest mapping reserve_range asks for, 256 MiB, has room for its  *)
(* headers below half many times over.                                     *)
ASSUME MappingsAssumption ==
    \A m \in Mappings :
        /\ m \in (Nat \ {0}) \X (Nat \ {0})
        /\ Layout(m).reserve > 0
        /\ Layout(m).small_start <= Layout(m).half

(* The winner's stores, in program order; reserve says the rest is there.  *)
PublishOrderBug == <<"reserve", "half", "large_start", "small_start", "small", "medium", "large">>

NoReserveBug == <<"half", "large_start", "small_start", "small", "medium", "large">>

PublishOrder == <<"half", "large_start", "small_start", "small", "medium", "large", "reserve">>

HeaderOf(page) ==
    range.base + ((page - range.base) \div LARGE_UNIT) * HEADER_SIZE

PageStartAt(ptr) ==
    Down(ptr, IF ptr - range.base < range.half THEN LARGE_UNIT ELSE MEDIUM_PAGE_SIZE)

(* Where thread t sends a free of ptr: fast_dealloc, then dealloc_other.   *)
Route(t, ptr) ==
    LET cached == ptr - heap[t].base
        offset == ptr - range.base
    IN  IF cached >= 0 /\ cached < heap[t].small_limit
        THEN [to |-> "page", at |-> heap[t].base + (cached \div LARGE_UNIT) * HEADER_SIZE]
        ELSE IF offset < 0 \/ offset >= range.reserve THEN [to |-> "system", at |-> ptr]
        ELSE IF offset >= range.large_start THEN [to |-> "large", at |-> ptr]
        ELSE [to |-> "page", at |-> HeaderOf(PageStartAt(ptr))]
----------------------------------------------------------------------------
Init ==
    /\ MODE = 0
    /\ range = [f \in DOMAIN Layout(NoMapping) |-> 0]
    /\ mapped = {}
    /\ claims = {}
    /\ pc = [t \in Threads |-> "idle"]
    /\ job = [t \in Threads |-> NoJob]
    /\ mine = [t \in Threads |-> NoMapping]
    /\ step = [t \in Threads |-> 1]
    /\ heap = [t \in Threads |-> [mode |-> 0, base |-> 0, small_limit |-> 0]]

Goto(t, from, to) == pc[t] = from /\ pc' = [pc EXCEPT ![t] = to]

Bytes(region, units) ==
    CASE region = "small" -> LARGE_UNIT
      [] region = "medium" -> MEDIUM_PAGE_SIZE
      [] region = "large" -> units * LARGE_UNIT

(* alloc_slow and alloc_large: an initialised pool thread carves at once;  *)
(* the first page of a thread goes through init_thread, which sends the    *)
(* allocations made meanwhile to System; a large block asks for the mode.  *)
Request(t, region, units) ==
    /\ IF region # "large" /\ heap[t].mode = 1
       THEN Goto(t, "idle", "carve")
       ELSE Goto(t, "idle", "mode")
    /\ region # "large" => heap[t].mode # 2
    /\ heap' = IF region # "large" /\ heap[t].mode = 0
               THEN [heap EXCEPT ![t].mode = 2] ELSE heap
    /\ job' = [job EXCEPT ![t] = [region |-> region, bytes |-> Bytes(region, units), at |-> 0]]
    /\ UNCHANGED <<MODE, range, mapped, claims, mine, step>>

(* process_mode, decide_mode: the first thread to swap decides.            *)
DecideMode(t, env) ==
    LET mode == IF MODE = 0 THEN env ELSE MODE IN
    /\ MODE' = mode
    /\ Goto(t, "mode", IF mode = 1 THEN "ensure" ELSE "idle")
    /\ UNCHANGED <<range, mapped, claims, job, mine, step, heap>>

EnsureReserved(t) ==
    /\ Goto(t, "ensure", IF range.reserve # 0 THEN "ready" ELSE "mmap")
    /\ UNCHANGED <<MODE, range, mapped, claims, job, mine, step, heap>>

Span(m) == m[1]..(m[1] + m[2] - 1)

Mmap(t, m) ==
    /\ \A other \in mapped : Span(other) \cap Span(m) = {}
    /\ Goto(t, "mmap", "swap")
    /\ mapped' = mapped \cup {m}
    /\ mine' = [mine EXCEPT ![t] = m]
    /\ UNCHANGED <<MODE, range, claims, job, step, heap>>

(* Every size down to the smallest was refused: the request goes to        *)
(* System, and a thread that was initialising stays in mode 2.             *)
MmapFails(t) ==
    /\ Goto(t, "mmap", "idle")
    /\ UNCHANGED <<MODE, range, mapped, claims, job, mine, step, heap>>

ReleaseBug(m) == mapped

Release(m) == mapped \ {m}

SwapBase(t) ==
    /\ \/ /\ range.base = 0
          /\ Goto(t, "swap", "publish")
          /\ range' = [range EXCEPT !.base = Layout(mine[t]).base]
          /\ UNCHANGED <<mapped, mine>>
       \/ /\ range.base # 0
          /\ Goto(t, "swap", "spin")
          /\ mapped' = Release(mine[t])
          /\ mine' = [mine EXCEPT ![t] = NoMapping]
          /\ UNCHANGED range
    /\ UNCHANGED <<MODE, claims, job, step, heap>>

Publish(t) ==
    LET field == PublishOrder[step[t]] IN
    /\ Goto(t, "publish", IF step[t] = Len(PublishOrder) THEN "ready" ELSE "publish")
    /\ range' = [range EXCEPT ![field] = Layout(mine[t])[field]]
    /\ step' = [step EXCEPT ![t] = @ + 1]
    /\ UNCHANGED <<MODE, mapped, claims, job, mine, heap>>

Spin(t) ==
    /\ range.reserve # 0
    /\ Goto(t, "spin", "ready")
    /\ UNCHANGED <<MODE, range, mapped, claims, job, mine, step, heap>>

(* The rest of init_thread: the exit guard is armed and the bounds cached. *)
(* A large request has no per-thread state to set up.                      *)
Ready(t) ==
    /\ Goto(t, "ready", "carve")
    /\ heap' = IF job[t].region = "large" THEN heap
               ELSE [heap EXCEPT ![t] = [mode |-> 1, base |-> range.base,
                                         small_limit |-> range.half]]
    /\ UNCHANGED <<MODE, range, mapped, claims, job, mine, step>>

(* EXIT_GUARD could not be armed: the thread takes no pages.               *)
NoGuard(t) ==
    /\ job[t].region # "large"
    /\ Goto(t, "ready", "idle")
    /\ UNCHANGED <<MODE, range, mapped, claims, job, mine, step, heap>>

Limit(region) ==
    CASE region = "small" -> range.base + range.half
      [] region = "medium" -> range.base + range.large_start
      [] region = "large" -> range.base + range.reserve

CarveLoad(t) ==
    /\ Goto(t, "carve", "claim")
    /\ job' = [job EXCEPT ![t].at = range[job[t].region]]
    /\ UNCHANGED <<MODE, range, mapped, claims, mine, step, heap>>

(* Whether compare_exchange installs the new cursor.                       *)
SwapsBug(t) == TRUE

Swaps(t) == range[job[t].region] = job[t].at

CarveClaim(t) ==
    LET at == job[t].at
        bytes == job[t].bytes
    IN
    /\ \/ /\ at + bytes > Limit(job[t].region)
          /\ Goto(t, "claim", "idle")
          /\ job' = [job EXCEPT ![t] = NoJob]
          /\ UNCHANGED <<range, claims>>
       \/ /\ at + bytes <= Limit(job[t].region)
          /\ Swaps(t)
          /\ Goto(t, "claim", "idle")
          /\ range' = [range EXCEPT ![job[t].region] = at + bytes]
          /\ claims' = claims \cup {[at |-> at, region |-> job[t].region, bytes |-> bytes, by |-> t]}
          /\ job' = [job EXCEPT ![t] = NoJob]
       \/ /\ at + bytes <= Limit(job[t].region)
          /\ ~Swaps(t)
          /\ pc[t] = "claim"
          /\ job' = [job EXCEPT ![t].at = range[job[t].region]]
          /\ UNCHANGED <<pc, range, claims>>
    /\ UNCHANGED <<MODE, mapped, mine, step, heap>>

(* dealloc_other of a pool block by a thread that knows no bounds yet: it  *)
(* caches them, so that its next frees take the fast path.                 *)
FirstFree(t) ==
    /\ pc[t] = "idle" /\ heap[t].base = 0
    /\ \E c \in claims : Route(t, c.at).to # "system"
    /\ heap' = [heap EXCEPT ![t].base = range.base, ![t].small_limit = range.half]
    /\ UNCHANGED <<MODE, range, mapped, claims, pc, job, mine, step>>

Work(t) ==
    \/ \E env \in EnvModes : DecideMode(t, env)
    \/ EnsureReserved(t)
    \/ \E m \in Mappings : Mmap(t, m)
    \/ MmapFails(t)
    \/ SwapBase(t)
    \/ Publish(t)
    \/ Spin(t)
    \/ Ready(t)
    \/ NoGuard(t)
    \/ CarveLoad(t)
    \/ CarveClaim(t)

Next ==
    \E t \in Threads :
        \/ \E region \in Regions, units \in 1..MaxUnits : Request(t, region, units)
        \/ FirstFree(t)
        \/ Work(t)

Spec == Init /\ [][Next]_vars

FairSpec == Spec /\ \A t \in Threads : WF_vars(Work(t))
----------------------------------------------------------------------------
Claimed(c) == c.at..(c.at + c.bytes - 1)

(* No address is handed out twice, whichever threads carve at once, and    *)
(* what is carved stays inside the mapping and clear of the header array.  *)
ClaimsDisjoint ==
    /\ \A c, d \in claims : c # d => Claimed(c) \cap Claimed(d) = {}
    /\ \A c \in claims :
        /\ Claimed(c) \cap range.base..(range.base + range.small_start - 1) = {}
        /\ \E m \in mapped : Claimed(c) \subseteq Span(m)

(* Every thread, initialised or not and at any moment of the publication,  *)
(* sends a pointer back to where it came from: a block of a page to that   *)
(* page's header, a large block to its bucket, and an address outside      *)
(* every mapping to System.                                                *)
FreesGoHome ==
    \A t \in Threads :
        /\ \A c \in claims : \A ptr \in Claimed(c) :
               Route(t, ptr) = IF c.region = "large" THEN [to |-> "large", at |-> ptr]
                               ELSE [to |-> "page", at |-> HeaderOf(c.at)]
        /\ \A ptr \in AddressSpace :
               (\A m \in mapped : ptr \notin Span(m)) => Route(t, ptr).to = "system"

(* The header entries of carved pages lie in the header array and do not   *)
(* overlap, small and medium pages together.                               *)
HeadersApart ==
    LET pages == {c \in claims : c.region # "large"} IN
    /\ \A c \in pages :
           HeaderOf(c.at) + HEADER_SIZE <= range.base + range.small_start
    /\ \A c, d \in pages : c # d => HeaderOf(c.at) # HeaderOf(d.at)

(* A thread that lost the race gives its mapping back: when nobody is      *)
(* reserving, at most the published one is mapped.                         *)
OneReservation ==
    (\A t \in Threads : pc[t] # "swap") => Cardinality(mapped) <= 1

(* Every request returns: a loser's wait for the winner ends, and carving  *)
(* cannot be overtaken forever.                                            *)
RequestsReturn ==
    \A t \in Threads : pc[t] # "idle" ~> pc[t] = "idle"
=============================================================================
