----------------------------- MODULE HeapPages -----------------------------
(***************************************************************************)
(* The pages of the process-global allocator (src/heap): which thread owns *)
(* a page, which of its blocks are free, and how blocks freed by another   *)
(* thread come back to the owner.                                          *)
(*                                                                         *)
(* An action is one access to a word other threads also access, with the   *)
(* owner-private work up to the next one.  Compare-exchange loops that act *)
(* only on the value they replace are their successful exchange; the spin  *)
(* loops are guards.  Free lists are sets: their order is not observable.  *)
(* The pools are sequences, which PageStack justifies.  The `owner` word   *)
(* of a page is compared only by a thread with its own address, which only *)
(* that thread stores, so it is the owner part of the state word.          *)
(*                                                                         *)
(* An operator named ...Bug is the operator after it with a mistake such   *)
(* code could have; the properties are checked to notice it.  No           *)
(* specification uses one.                                                 *)
(***************************************************************************)
EXTENDS Naturals, Sequences, FiniteSets

CONSTANTS
    Threads,      \* heap addresses; a new thread may reuse an old address
    Pages,
    Classes,      \* size classes of one region
    Capacity,     \* blocks of a page
    MaxPushers,   \* 31 in the code: PUSHER_MASK / PUSHER_UNIT
    NoThread,
    NoPage,       \* null, and the sentinel page
    NoClass       \* the class of a header or local nobody has written yet

ASSUME SizesAssumption ==
    /\ Capacity \in Nat \ {0}
    /\ MaxPushers \in Nat \ {0}
ASSUME NullsAssumption ==
    NoThread \notin Threads /\ NoPage \notin Pages /\ NoClass \notin Classes

VARIABLES
    hdr,         \* the owner-only cells of each PageHeader
    state,       \* its `owner_state`: owner, QUEUED and the pusher count
    remote,      \* its `remote_free` list
    nextQueued,  \* its `next_queued`
    heap,        \* the owner-only cells of each ThreadHeap
    queue,       \* its RemoteQueue
    orphans,     \* the ORPHANS lists, their lock, and ORPHAN_COUNT
    pool,        \* warm and cold stacks, and the pages not carved yet
    loc,         \* where each thread is, and its locals
    live         \* how often the program holds each block of each page

vars == <<hdr, state, remote, nextQueued, heap, queue, orphans, pool, loc, live>>

Blocks == 1..Capacity

Idle == [pc |-> "idle", pg |-> NoPage, nxt |-> NoPage, ret |-> "idle",
         own |-> NoThread, cls |-> NoClass]

Unowned == [owner |-> NoThread, queued |-> FALSE, pushers |-> 0]

(* init_page.                                                              *)
FreshHeader(c) ==
    [class |-> c, local |-> {}, bump |-> 0, used |-> 0, retired |-> FALSE,
     listing |-> "none"]

(* ThreadHeap::new.                                                        *)
NewHeap ==
    [mode |-> "undecided", pages |-> {},
     current |-> [c \in Classes |-> NoPage], avail |-> [c \in Classes |-> <<>>]]

Without(s, p) == SelectSeq(s, LAMBDA q : q # p)

PushAvail(h, p) == [h EXCEPT !.avail[hdr[p].class] = <<p>> \o @]

RemoveAvailBug(h, p) == h

RemoveAvail(h, p) == [h EXCEPT !.avail[hdr[p].class] = Without(@, p)]
----------------------------------------------------------------------------
(* Pure operations on the cells of a page.                                 *)

HasRoom(p) == p # NoPage /\ (hdr[p].local # {} \/ hdr[p].bump < Capacity)

TakenBug(h, b) ==
    IF h.local # {}
    THEN [h EXCEPT !.used = @ + 1]
    ELSE [h EXCEPT !.bump = b, !.used = @ + 1]

(* page_alloc: `h` after handing out block b, from the list or the bump.   *)
Taken(h, b) ==
    IF h.local # {}
    THEN [h EXCEPT !.local = @ \ {b}, !.used = @ + 1]
    ELSE [h EXCEPT !.bump = b, !.used = @ + 1]

Takeable(h) == IF h.local # {} THEN h.local ELSE {h.bump + 1}

AbsorbedBug(h, blocks) == [h EXCEPT !.local = @ \cup blocks]

(* absorb_remote: the remote chain moves onto the local list.              *)
Absorbed(h, blocks) ==
    [h EXCEPT !.local = @ \cup blocks, !.used = @ - Cardinality(blocks)]

(* set_current: the previous page loses its bias and retires, unless it    *)
(* has no live block.                                                      *)
Retired(h) ==
    [h EXCEPT !.used = @ - 1, !.retired = h.used > 1, !.listing = "none"]

MadeCurrent(h) == [h EXCEPT !.used = @ + 1, !.listing = "current"]

SetCurrent(p, previous) ==
    [q \in Pages |->
        CASE q = p        -> MadeCurrent(hdr[q])
          [] q = previous -> Retired(hdr[q])
          [] OTHER        -> hdr[q]]

(* Where set_current goes on: it first recycles a previous page that is    *)
(* empty, and comes back for page `after`.                                 *)
AfterSetCurrent(t, previous, label, after) ==
    IF previous # NoPage /\ hdr[previous].used = 1
    THEN [loc[t] EXCEPT !.pc = "recycle", !.pg = previous, !.nxt = after, !.ret = label]
    ELSE [loc[t] EXCEPT !.pc = label, !.pg = after]

(* The label at which drain_remote goes on with page p.                    *)
DrainFrom(p) == IF p = NoPage THEN "refill" ELSE "drain"
----------------------------------------------------------------------------
Init ==
    /\ hdr = [p \in Pages |-> FreshHeader(NoClass)]
    /\ state = [p \in Pages |-> Unowned]
    /\ remote = [p \in Pages |-> {}]
    /\ nextQueued = [p \in Pages |-> NoPage]
    /\ heap = [t \in Threads |-> NewHeap]
    /\ queue = [t \in Threads |-> NoPage]
    /\ orphans = [list |-> [c \in Classes |-> <<>>], count |-> 0, lock |-> NoThread]
    /\ pool = [warm |-> <<>>, cold |-> <<>>, fresh |-> Pages]
    /\ loc = [t \in Threads |-> Idle]
    /\ live = [p \in Pages |-> [b \in Blocks |-> 0]]
----------------------------------------------------------------------------
(* Allocation.                                                             *)

(* fast_alloc, and alloc_other's first try: the current page has room.     *)
AllocFast(t, c) ==
    LET p == heap[t].current[c] IN
    /\ loc[t].pc = "idle"
    /\ HasRoom(p)
    /\ \E b \in Takeable(hdr[p]) :
           /\ hdr' = [hdr EXCEPT ![p] = Taken(@, b)]
           /\ live' = [live EXCEPT ![p][b] = @ + 1]
    /\ UNCHANGED <<state, remote, nextQueued, heap, queue, orphans, pool, loc>>

(* alloc_slow and the head of refill: a thread's first visit puts it in    *)
(* pool mode; a queue that is not empty is taken whole.                    *)
Refill(t, c) ==
    /\ loc[t].pc = "idle"
    /\ heap[t].mode # "system"
    /\ ~HasRoom(heap[t].current[c])
    /\ heap' = [heap EXCEPT ![t].mode = "pool"]
    /\ queue' = [queue EXCEPT ![t] = NoPage]
    /\ loc' = [loc EXCEPT ![t] = [Idle EXCEPT !.pc = DrainFrom(queue[t]),
                                              !.pg = queue[t], !.cls = c]]
    /\ UNCHANGED <<hdr, state, remote, nextQueued, orphans, pool, live>>

(* drain_remote: the link is read before QUEUED is cleared, for a page     *)
(* without QUEUED may be queued again at once.                             *)
DrainTake(t) ==
    LET p == loc[t].pg IN
    /\ loc[t].pc = "drain"
    /\ state' = [state EXCEPT ![p].queued = FALSE]
    /\ loc' = [loc EXCEPT ![t].pc = "absorb", ![t].nxt = nextQueued[p]]
    /\ UNCHANGED <<hdr, remote, nextQueued, heap, queue, orphans, pool, live>>

(* The link read after QUEUED was cleared.                                 *)
GoOnDrainingBug(t) ==
    LET next == nextQueued[loc[t].pg] IN
    loc' = [loc EXCEPT ![t].pc = DrainFrom(next), ![t].pg = next, ![t].nxt = NoPage]

GoOnDraining(t) ==
    loc' = [loc EXCEPT ![t].pc = DrainFrom(loc[t].nxt), ![t].pg = loc[t].nxt,
                       ![t].nxt = NoPage]

RecycleThenDrain(t) ==
    loc' = [loc EXCEPT ![t].pc = "recycle", ![t].ret = DrainFrom(loc[t].nxt)]

(* drain_remote: absorb the page, then recycle it if it emptied, or list   *)
(* it if it was retired and got room.                                      *)
DrainAbsorb(t) ==
    LET p == loc[t].pg
        h == Absorbed(hdr[p], remote[p])
    IN
    /\ loc[t].pc = "absorb"
    /\ remote' = [remote EXCEPT ![p] = {}]
    /\ \/ /\ h.listing = "avail" /\ h.used = 0
          /\ hdr' = [hdr EXCEPT ![p] = [h EXCEPT !.listing = "none"]]
          /\ heap' = [heap EXCEPT ![t] = RemoveAvail(@, p)]
          /\ RecycleThenDrain(t)
       \/ /\ h.listing = "none" /\ remote[p] # {} /\ h.used = 0
          /\ hdr' = [hdr EXCEPT ![p] = [h EXCEPT !.retired = FALSE]]
          /\ RecycleThenDrain(t)
          /\ UNCHANGED heap
       \/ /\ h.listing = "none" /\ remote[p] # {} /\ h.used > 0
          /\ hdr' = [hdr EXCEPT ![p] = [h EXCEPT !.retired = FALSE, !.listing = "avail"]]
          /\ heap' = [heap EXCEPT ![t] = PushAvail(@, p)]
          /\ GoOnDraining(t)
       \/ /\ \/ h.listing = "avail" /\ h.used > 0
             \/ h.listing = "none" /\ remote[p] = {}
             \/ h.listing = "current"
          /\ hdr' = [hdr EXCEPT ![p] = h]
          /\ GoOnDraining(t)
          /\ UNCHANGED heap
    /\ UNCHANGED <<state, nextQueued, queue, orphans, pool, live>>

(* pool_page: when the resident budget looks used up and `reclaim` gives   *)
(* the memory back to the system, the page goes to the cold stack.  Both   *)
(* the count read and the system call may go either way.                   *)
PoolPage(p) ==
    \/ pool' = [pool EXCEPT !.warm = <<p>> \o @]
    \/ pool' = [pool EXCEPT !.cold = <<p>> \o @]

(* detach and try_detach spin while a freer is pushing the page.           *)
NoPushersBug(p) == TRUE

NoPushers(p) == state[p].pushers = 0

UnlinkPageBug(h, p) == h

UnlinkPage(h, p) == [h EXCEPT !.pages = @ \ {p}]

(* recycle_or_list: try_detach refuses a queued page, which stays listed,  *)
(* and waits for pushers; then the page is unlinked and pooled.            *)
Recycle(t) ==
    LET p == loc[t].pg IN
    /\ loc[t].pc = "recycle"
    /\ \/ /\ state[p].queued
          /\ hdr' = [hdr EXCEPT ![p].listing = "avail"]
          /\ heap' = [heap EXCEPT ![t] = PushAvail(@, p)]
          /\ UNCHANGED <<state, pool>>
       \/ /\ ~state[p].queued /\ NoPushers(p)
          /\ state' = [state EXCEPT ![p] = Unowned]
          /\ heap' = [heap EXCEPT ![t] = UnlinkPage(@, p)]
          /\ PoolPage(p)
          /\ UNCHANGED hdr
    /\ loc' = [loc EXCEPT ![t].pc = loc[t].ret, ![t].pg = loc[t].nxt,
                          ![t].nxt = NoPage, ![t].ret = "idle"]
    /\ UNCHANGED <<remote, nextQueued, queue, orphans, live>>

(* refill's loop: allocate from the current page.                          *)
RefillCurrent(t) ==
    LET p == heap[t].current[loc[t].cls] IN
    /\ loc[t].pc = "refill"
    /\ HasRoom(p)
    /\ \E b \in Takeable(hdr[p]) :
           /\ hdr' = [hdr EXCEPT ![p] = Taken(@, b)]
           /\ live' = [live EXCEPT ![p][b] = @ + 1]
    /\ loc' = [loc EXCEPT ![t] = Idle]
    /\ UNCHANGED <<state, remote, nextQueued, heap, queue, orphans, pool>>

(* refill's loop: another owned page with room becomes current.            *)
RefillAvail(t) ==
    LET c == loc[t].cls
        previous == heap[t].current[c]
    IN
    /\ loc[t].pc = "refill"
    /\ ~HasRoom(previous)
    /\ heap[t].avail[c] # <<>>
    /\ LET p == Head(heap[t].avail[c]) IN
           /\ hdr' = SetCurrent(p, previous)
           /\ heap' = [heap EXCEPT ![t].avail[c] = Tail(@), ![t].current[c] = p]
    /\ loc' = [loc EXCEPT ![t] = AfterSetCurrent(t, previous, "refill", NoPage)]
    /\ UNCHANGED <<state, remote, nextQueued, queue, orphans, pool, live>>

NeedsPage(t) ==
    /\ loc[t].pc = "refill"
    /\ ~HasRoom(heap[t].current[loc[t].cls])
    /\ heap[t].avail[loc[t].cls] = <<>>

(* adopt_orphan: the count, read without the lock, is a hint ...           *)
ReadOrphanCount(t) ==
    /\ NeedsPage(t)
    /\ loc' = [loc EXCEPT ![t].pc = IF orphans.count = 0 THEN "warm" ELSE "adopt"]
    /\ UNCHANGED <<hdr, state, remote, nextQueued, heap, queue, orphans, pool, live>>

(* The lock released before the count is lowered.                          *)
TakeOrphanBug(t) ==
    LET list == orphans.list[loc[t].cls] IN
    /\ loc[t].pc = "adopt" /\ orphans.lock = NoThread
    /\ list # <<>>
    /\ orphans' = [orphans EXCEPT !.list[loc[t].cls] = Tail(@)]
    /\ loc' = [loc EXCEPT ![t].pc = "adopted", ![t].pg = Head(list)]
    /\ UNCHANGED <<hdr, state, remote, nextQueued, heap, queue, pool, live>>

(* ... under the lock a page is taken off the list of the class ...        *)
TakeOrphan(t) ==
    LET list == orphans.list[loc[t].cls] IN
    /\ loc[t].pc = "adopt" /\ orphans.lock = NoThread
    /\ list # <<>>
    /\ orphans' = [orphans EXCEPT !.list[loc[t].cls] = Tail(@), !.lock = t]
    /\ loc' = [loc EXCEPT ![t].pc = "adopted", ![t].pg = Head(list)]
    /\ UNCHANGED <<hdr, state, remote, nextQueued, heap, queue, pool, live>>

NoOrphan(t) ==
    /\ loc[t].pc = "adopt" /\ orphans.lock = NoThread
    /\ orphans.list[loc[t].cls] = <<>>
    /\ loc' = [loc EXCEPT ![t].pc = "warm"]
    /\ UNCHANGED <<hdr, state, remote, nextQueued, heap, queue, orphans, pool, live>>

(* ... and then the count is lowered.                                      *)
AdoptOrphan(t) ==
    /\ loc[t].pc = "adopted"
    /\ orphans' = [orphans EXCEPT !.count = @ - 1, !.lock = NoThread]
    /\ loc' = [loc EXCEPT ![t].pc = "publish"]
    /\ UNCHANGED <<hdr, state, remote, nextQueued, heap, queue, pool, live>>

(* init_page of a popped or carved page.                                   *)
InitPage(t, p) ==
    /\ hdr' = [hdr EXCEPT ![p] = FreshHeader(loc[t].cls)]
    /\ state' = [state EXCEPT ![p] = Unowned]
    /\ remote' = [remote EXCEPT ![p] = {}]
    /\ nextQueued' = [nextQueued EXCEPT ![p] = NoPage]
    /\ loc' = [loc EXCEPT ![t].pc = "publish", ![t].pg = p]

(* new_page, in the order of its three sources.                            *)
NewWarm(t) ==
    /\ loc[t].pc = "warm"
    /\ \/ /\ pool.warm # <<>>
          /\ InitPage(t, Head(pool.warm))
          /\ pool' = [pool EXCEPT !.warm = Tail(@)]
       \/ /\ pool.warm = <<>>
          /\ loc' = [loc EXCEPT ![t].pc = "cold"]
          /\ UNCHANGED <<hdr, state, remote, nextQueued, pool>>
    /\ UNCHANGED <<heap, queue, orphans, live>>

NewCold(t) ==
    /\ loc[t].pc = "cold"
    /\ \/ /\ pool.cold # <<>>
          /\ InitPage(t, Head(pool.cold))
          /\ pool' = [pool EXCEPT !.cold = Tail(@)]
       \/ /\ pool.cold = <<>>
          /\ loc' = [loc EXCEPT ![t].pc = "carve"]
          /\ UNCHANGED <<hdr, state, remote, nextQueued, pool>>
    /\ UNCHANGED <<heap, queue, orphans, live>>

(* An exhausted region sends the request to the system allocator.          *)
NewCarved(t) ==
    /\ loc[t].pc = "carve"
    /\ \/ \E p \in pool.fresh :
              /\ InitPage(t, p)
              /\ pool' = [pool EXCEPT !.fresh = @ \ {p}]
       \/ /\ pool.fresh = {}
          /\ loc' = [loc EXCEPT ![t] = Idle]
          /\ UNCHANGED <<hdr, state, remote, nextQueued, pool>>
    /\ UNCHANGED <<heap, queue, orphans, live>>

(* refill: publish the ownership of the new page, link it, make it current.*)
Publish(t) ==
    LET p == loc[t].pg
        c == loc[t].cls
        previous == heap[t].current[c]
    IN
    /\ loc[t].pc = "publish"
    /\ state' = [state EXCEPT ![p] = [Unowned EXCEPT !.owner = t]]
    /\ hdr' = SetCurrent(p, previous)
    /\ heap' = [heap EXCEPT ![t].pages = @ \cup {p}, ![t].current[c] = p]
    /\ loc' = [loc EXCEPT ![t] = AfterSetCurrent(t, previous, "absorb_new", p)]
    /\ UNCHANGED <<remote, nextQueued, queue, orphans, pool, live>>

AbsorbNewBug(t) ==
    /\ loc[t].pc = "absorb_new"
    /\ loc' = [loc EXCEPT ![t].pc = "refill", ![t].pg = NoPage]
    /\ UNCHANGED <<hdr, remote, state, nextQueued, heap, queue, orphans, pool, live>>

(* refill: recover what was freed into the page while nobody owned it.     *)
AbsorbNew(t) ==
    LET p == loc[t].pg IN
    /\ loc[t].pc = "absorb_new"
    /\ hdr' = [hdr EXCEPT ![p] = Absorbed(@, remote[p])]
    /\ remote' = [remote EXCEPT ![p] = {}]
    /\ loc' = [loc EXCEPT ![t].pc = "refill", ![t].pg = NoPage]
    /\ UNCHANGED <<state, nextQueued, heap, queue, orphans, pool, live>>
----------------------------------------------------------------------------
(* Freeing.  Any thread may free any block the program holds, in any mode. *)

(* pool_free_page by the owner, with free_cold.                            *)
FreeLocal(t, p, b) ==
    LET h == [hdr[p] EXCEPT !.local = @ \cup {b}, !.used = @ - 1] IN
    /\ loc[t].pc = "idle"
    /\ live[p][b] > 0
    /\ state[p].owner = t
    /\ live' = [live EXCEPT ![p][b] = @ - 1]
    /\ \/ /\ ~h.retired /\ h.used > 0
          /\ hdr' = [hdr EXCEPT ![p] = h]
          /\ UNCHANGED <<heap, loc>>
       \/ /\ h.retired /\ h.used > 0
          /\ hdr' = [hdr EXCEPT ![p] = [h EXCEPT !.retired = FALSE, !.listing = "avail"]]
          /\ heap' = [heap EXCEPT ![t] = PushAvail(@, p)]
          /\ UNCHANGED loc
       \/ /\ h.retired /\ h.used = 0
          /\ hdr' = [hdr EXCEPT ![p] = [h EXCEPT !.retired = FALSE]]
          /\ loc' = [loc EXCEPT ![t].pc = "recycle", ![t].pg = p]
          /\ UNCHANGED heap
       \/ /\ ~h.retired /\ h.used = 0
          /\ hdr' = [hdr EXCEPT ![p] = [h EXCEPT !.listing = "none"]]
          /\ heap' = [heap EXCEPT ![t] = RemoveAvail(@, p)]
          /\ loc' = [loc EXCEPT ![t].pc = "recycle", ![t].pg = p]
    /\ UNCHANGED <<state, remote, nextQueued, queue, orphans, pool>>

(* remote_free: the block joins the page's remote list ...                 *)
RemotePush(t, p, b) ==
    /\ loc[t].pc = "idle"
    /\ live[p][b] > 0
    /\ state[p].owner # t
    /\ live' = [live EXCEPT ![p][b] = @ - 1]
    /\ remote' = [remote EXCEPT ![p] = @ \cup {b}]
    /\ loc' = [loc EXCEPT ![t].pc = "rf_state", ![t].pg = p]
    /\ UNCHANGED <<hdr, state, nextQueued, heap, queue, orphans, pool>>

PusherRoomBug(p) == state[p].pushers <= MaxPushers

PusherRoom(p) == state[p].pushers < MaxPushers

(* ... the page is marked queued, unless it already is or has no owner; at *)
(* the pusher limit the thread waits ...                                   *)
RemoteMark(t) ==
    LET p == loc[t].pg IN
    /\ loc[t].pc = "rf_state"
    /\ \/ /\ state[p].queued \/ state[p].owner = NoThread
          /\ loc' = [loc EXCEPT ![t] = Idle]
          /\ UNCHANGED state
       \/ /\ ~state[p].queued /\ state[p].owner # NoThread
          /\ PusherRoom(p)
          /\ state' = [state EXCEPT ![p].queued = TRUE, ![p].pushers = @ + 1]
          /\ loc' = [loc EXCEPT ![t].pc = "rf_queue", ![t].own = state[p].owner]
    /\ UNCHANGED <<hdr, remote, nextQueued, heap, queue, orphans, pool, live>>

(* ... it is pushed on the owner's queue ...                               *)
RemoteEnqueue(t) ==
    LET p == loc[t].pg
        o == loc[t].own
    IN
    /\ loc[t].pc = "rf_queue"
    /\ nextQueued' = [nextQueued EXCEPT ![p] = queue[o]]
    /\ queue' = [queue EXCEPT ![o] = p]
    /\ loc' = [loc EXCEPT ![t].pc = "rf_done"]
    /\ UNCHANGED <<hdr, state, remote, heap, orphans, pool, live>>

RemoteDoneBug(t) ==
    /\ loc[t].pc = "rf_done"
    /\ loc' = [loc EXCEPT ![t] = Idle]
    /\ UNCHANGED <<state, hdr, remote, nextQueued, heap, queue, orphans, pool, live>>

(* ... and the owner may give the page up again.                           *)
RemoteDone(t) ==
    /\ loc[t].pc = "rf_done"
    /\ state' = [state EXCEPT ![loc[t].pg].pushers = @ - 1]
    /\ loc' = [loc EXCEPT ![t] = Idle]
    /\ UNCHANGED <<hdr, remote, nextQueued, heap, queue, orphans, pool, live>>
----------------------------------------------------------------------------
(* Thread exit: orphan_all, run by the exit guard of a thread in pool mode.*)

GaveUp == [NewHeap EXCEPT !.mode = "system"]

ExitBegin(t) ==
    /\ loc[t].pc = "idle"
    /\ heap[t].mode = "pool"
    /\ \/ /\ heap[t].pages = {}
          /\ heap' = [heap EXCEPT ![t] = GaveUp]
          /\ UNCHANGED <<orphans, loc>>
       \/ /\ heap[t].pages # {}
          /\ orphans.lock = NoThread
          /\ heap' = [heap EXCEPT ![t].mode = "system"]
          /\ orphans' = [orphans EXCEPT !.lock = t]
          /\ loc' = [loc EXCEPT ![t].pc = "orphan"]
    /\ UNCHANGED <<hdr, state, remote, nextQueued, queue, pool, live>>

(* The count of a page without the bias of a current page.                 *)
Unbiased(p) == hdr[p].used - (IF hdr[p].listing = "current" THEN 1 ELSE 0)

(* One turn of the loop; the order of the page list is not observable.     *)
(* detach waits for pushers and clears the state word; what it found there *)
(* and the count decide whether the page may be pooled ...                 *)
OrphanDetach(t, p) ==
    /\ loc[t].pc = "orphan"
    /\ p \in heap[t].pages
    /\ NoPushers(p)
    /\ state' = [state EXCEPT ![p] = Unowned]
    /\ hdr' = [hdr EXCEPT ![p].used = Unbiased(p), ![p].retired = FALSE, ![p].listing = "none"]
    /\ heap' = [heap EXCEPT ![t] = UnlinkPage(@, p)]
    /\ loc' = [loc EXCEPT ![t].pc = "orphan_page", ![t].pg = p,
                          ![t].ret = IF Unbiased(p) = 0 /\ ~state[p].queued
                                     THEN "pool" ELSE "list"]
    /\ UNCHANGED <<remote, nextQueued, queue, orphans, pool, live>>

FullyFreeBug(t) == remote[loc[t].pg] = {}

FullyFree(t) == loc[t].ret = "pool" /\ remote[loc[t].pg] = {}

(* ... which the load of its remote list confirms ...                      *)
OrphanPool(t) ==
    /\ loc[t].pc = "orphan_page"
    /\ FullyFree(t)
    /\ PoolPage(loc[t].pg)
    /\ loc' = [loc EXCEPT ![t] = [Idle EXCEPT !.pc = "orphan"]]
    /\ UNCHANGED <<hdr, state, remote, nextQueued, heap, queue, orphans, live>>

(* ... or the page joins the list of its class ...                         *)
OrphanPage(t) ==
    LET p == loc[t].pg IN
    /\ loc[t].pc = "orphan_page"
    /\ ~FullyFree(t)
    /\ orphans' = [orphans EXCEPT !.list[hdr[p].class] = <<p>> \o @]
    /\ loc' = [loc EXCEPT ![t] = [Idle EXCEPT !.pc = "orphan_count"]]
    /\ UNCHANGED <<hdr, state, remote, nextQueued, heap, queue, pool, live>>

(* ... and is counted.                                                     *)
CountOrphan(t) ==
    /\ loc[t].pc = "orphan_count"
    /\ orphans' = [orphans EXCEPT !.count = @ + 1]
    /\ loc' = [loc EXCEPT ![t].pc = "orphan"]
    /\ UNCHANGED <<hdr, state, remote, nextQueued, heap, queue, pool, live>>

OrphanEnd(t) ==
    /\ loc[t].pc = "orphan"
    /\ heap[t].pages = {}
    /\ queue' = [queue EXCEPT ![t] = NoPage]
    /\ orphans' = [orphans EXCEPT !.lock = NoThread]
    /\ heap' = [heap EXCEPT ![t] = GaveUp]
    /\ loc' = [loc EXCEPT ![t] = Idle]
    /\ UNCHANGED <<hdr, state, remote, nextQueued, pool, live>>

(* A later thread gets the thread-local block of a finished one.           *)
Restart(t) ==
    /\ loc[t].pc = "idle"
    /\ heap[t].mode = "system"
    /\ heap' = [heap EXCEPT ![t] = NewHeap]
    /\ queue' = [queue EXCEPT ![t] = NoPage]
    /\ UNCHANGED <<hdr, state, remote, nextQueued, orphans, pool, loc, live>>
----------------------------------------------------------------------------
Next ==
    \E t \in Threads :
        \/ \E c \in Classes : AllocFast(t, c) \/ Refill(t, c)
        \/ DrainTake(t) \/ DrainAbsorb(t) \/ Recycle(t)
        \/ RefillCurrent(t) \/ RefillAvail(t)
        \/ ReadOrphanCount(t) \/ TakeOrphan(t) \/ NoOrphan(t) \/ AdoptOrphan(t)
        \/ NewWarm(t) \/ NewCold(t) \/ NewCarved(t) \/ Publish(t) \/ AbsorbNew(t)
        \/ \E p \in Pages, b \in Blocks : FreeLocal(t, p, b) \/ RemotePush(t, p, b)
        \/ RemoteMark(t) \/ RemoteEnqueue(t) \/ RemoteDone(t)
        \/ ExitBegin(t) \/ \E p \in Pages : OrphanDetach(t, p)
        \/ OrphanPool(t) \/ OrphanPage(t) \/ CountOrphan(t) \/ OrphanEnd(t) \/ Restart(t)

Spec == Init /\ [][Next]_vars

(* Steps a thread takes in the allocator without waiting for another       *)
(* thread's program: a running thread is scheduled again.                  *)
GiveUp(t) ==
    \/ Recycle(t) \/ OrphanPool(t) \/ OrphanPage(t) \/ CountOrphan(t) \/ OrphanEnd(t)
    \/ \E p \in Pages : OrphanDetach(t, p)

FinishPush(t) == RemoteEnqueue(t) \/ RemoteDone(t)

FairSpec ==
    Spec /\ \A t \in Threads : WF_vars(GiveUp(t)) /\ WF_vars(FinishPush(t))
----------------------------------------------------------------------------
Exiting == {"orphan", "orphan_page", "orphan_count"}

Labels == {"idle", "drain", "absorb", "recycle", "refill", "adopt", "adopted", "warm",
           "cold", "carve", "publish", "absorb_new", "rf_state", "rf_queue", "rf_done"}
          \cup Exiting

(* The cells and words of pages, heaps and locals have their types; the    *)
(* pusher count never spills into the owner's address above it.            *)
TypeOK ==
    /\ hdr \in [Pages -> [class : Classes \cup {NoClass}, local : SUBSET Blocks,
                          bump : 0..Capacity, used : 0..(Capacity + 1), retired : BOOLEAN,
                          listing : {"none", "avail", "current"}]]
    /\ state \in [Pages -> [owner : Threads \cup {NoThread}, queued : BOOLEAN,
                            pushers : 0..MaxPushers]]
    /\ remote \in [Pages -> SUBSET Blocks]
    /\ nextQueued \in [Pages -> Pages \cup {NoPage}]
    /\ \A t \in Threads :
           /\ heap[t].mode \in {"undecided", "pool", "system"}
           /\ heap[t].pages \subseteq Pages
           /\ heap[t].current \in [Classes -> Pages \cup {NoPage}]
           /\ \A c \in Classes : heap[t].avail[c] \in Seq(Pages)
           /\ loc[t].pc \in Labels
    /\ queue \in [Threads -> Pages \cup {NoPage}]
    /\ orphans.lock \in Threads \cup {NoThread}
    /\ pool.fresh \subseteq Pages
    /\ live \in [Pages -> [Blocks -> 0..1]]

Live(p) == {b \in Blocks : live[p][b] > 0}

(* Blocks are conserved: a block carved from a page is with the program,   *)
(* on the local list or on the remote list, never on two of them, and      *)
(* `used` counts those not on the local list, plus the bias of a current   *)
(* page.  The debug assertion of absorb_remote follows.                    *)
BlocksConserved ==
    \A p \in Pages \ pool.fresh :
        /\ Live(p) \cup hdr[p].local \cup remote[p] = 1..hdr[p].bump
        /\ Live(p) \cap hdr[p].local = {}
        /\ Live(p) \cap remote[p] = {}
        /\ hdr[p].local \cap remote[p] = {}
        /\ hdr[p].used = Cardinality(Live(p)) + Cardinality(remote[p])
                           + (IF hdr[p].listing = "current" THEN 1 ELSE 0)

(* Where a page is: never carved, pooled, orphaned, owned, or in the hands *)
(* of the thread that is about to publish it or has just detached it.      *)
Positions(s, p) == {i \in DOMAIN s : s[i] = p}

Places(p) ==
    (IF p \in pool.fresh THEN {<<"fresh">>} ELSE {})
    \cup {<<"warm", i>> : i \in Positions(pool.warm, p)}
    \cup {<<"cold", i>> : i \in Positions(pool.cold, p)}
    \cup UNION {{<<"orphan", c, i>> : i \in Positions(orphans.list[c], p)} : c \in Classes}
    \cup {<<"owned", t>> : t \in {u \in Threads : p \in heap[u].pages}}
    \cup {<<"taken", t>> : t \in {u \in Threads : /\ loc[u].pc \in {"adopted", "publish", "orphan_page"}
                                               /\ loc[u].pg = p}}

(* No page is lost and none is in two places, whoever recycles, orphans,   *)
(* adopts and pools it; the state word names exactly the thread whose list *)
(* it is on.                                                               *)
EveryPageInOnePlace ==
    \A p \in Pages :
        /\ Cardinality(Places(p)) = 1
        /\ \A t \in Threads : p \in heap[t].pages <=> state[p].owner = t

(* A pooled page is dead: no block of it is in use or on its way back, and *)
(* it carries no flag that would make a later owner believe it queued.     *)
PooledPagesAreEmpty ==
    \A p \in Pages :
        (\E i \in DOMAIN pool.warm : pool.warm[i] = p)
        \/ (\E i \in DOMAIN pool.cold : pool.cold[i] = p)
        => Live(p) = {} /\ remote[p] = {} /\ state[p] = Unowned

(* The pages linked from p by `next_queued`, p first.                      *)
QueueWalk(p) ==
    LET W[i \in 0..Cardinality(Pages)] ==
            IF i = 0 THEN p
            ELSE IF W[i - 1] = NoPage THEN NoPage ELSE nextQueued[W[i - 1]]
    IN W

(* What is left of the chain drain_remote took.                            *)
DrainRest(t) ==
    CASE loc[t].pc = "drain" -> loc[t].pg
      [] loc[t].pc = "absorb" \/ (loc[t].pc = "recycle" /\ loc[t].ret = "drain") -> loc[t].nxt
      [] OTHER -> NoPage

(* Every page marked QUEUED will be drained exactly once: it is once in    *)
(* its owner's queue, in the rest of the chain its owner is draining, or   *)
(* about to be pushed.  A page that is not marked is in none of them, so   *)
(* no queue entry outlives the ownership of its page.  Until an exiting    *)
(* thread has dropped its queue, the pages it gave up may still be there.  *)
QueuedExactlyOnce ==
    \A t \in Threads, p \in Pages :
        loc[t].pc \notin Exiting \/ state[p].owner = t =>
            Cardinality({i \in 0..Cardinality(Pages) : QueueWalk(queue[t])[i] = p})
            + Cardinality({i \in 0..Cardinality(Pages) : QueueWalk(DrainRest(t))[i] = p})
            + Cardinality({u \in Threads : loc[u].pc = "rf_queue" /\ loc[u].pg = p
                                            /\ loc[u].own = t})
            = IF state[p].owner = t /\ state[p].queued THEN 1 ELSE 0

(* No remote free is forgotten: an owned page with blocks on its remote    *)
(* list is queued, is being absorbed, or a freer has still to look at its  *)
(* state.  (An unowned page is absorbed by its next owner.)                *)
NoRemoteFreeLost ==
    \A p \in Pages :
        remote[p] # {} /\ state[p].owner # NoThread =>
            \/ state[p].queued
            \/ \E t \in Threads :
                   /\ loc[t].pc \in {"rf_state", "absorb", "absorb_new"}
                   /\ loc[t].pg = p

(* The pusher count pins the owner: between marking a page and leaving it, *)
(* a freer finds the page with the owner whose queue it writes, so it      *)
(* never touches the heap of a thread that has gone.                       *)
PushersPinOwner ==
    \A p \in Pages :
        LET Pushing == {t \in Threads : loc[t].pc \in {"rf_queue", "rf_done"}
                                        /\ loc[t].pg = p}
        IN  /\ state[p].pushers = Cardinality(Pushing)
            /\ \A t \in Pushing : p \in heap[loc[t].own].pages

(* No room is stranded: the pages of a thread are its current pages and    *)
(* its available pages, each listed once under its class, and otherwise    *)
(* full ones, retired with a live or remotely freed block whose free will  *)
(* list them again.  Only the page a thread is recycling is in between.    *)
NoRoomStranded ==
    \A t \in Threads : loc[t].pc \notin Exiting =>
        /\ \A c \in Classes, p \in Pages :
               /\ Cardinality(Positions(heap[t].avail[c], p)) =
                      IF /\ p \in heap[t].pages
                         /\ hdr[p].class = c /\ hdr[p].listing = "avail"
                      THEN 1 ELSE 0
               /\ heap[t].current[c] = p <=>
                      /\ p \in heap[t].pages
                      /\ hdr[p].class = c /\ hdr[p].listing = "current"
        /\ \A p \in heap[t].pages :
               hdr[p].listing = "none" =>
                   \/ hdr[p].retired /\ hdr[p].used > 0 /\ ~HasRoom(p)
                   \/ loc[t].pc = "recycle" /\ loc[t].pg = p

(* ORPHAN_COUNT, which adopt_orphan reads without the lock to skip the     *)
(* lists, lags behind them by one page at most, in either direction, and   *)
(* only while a thread is inside the lock: the count of several threads    *)
(* that exit and adopt never drifts, never wraps below zero, and a thread  *)
(* that reads zero passes over nothing but the page an exiting thread has  *)
(* just listed.                                                            *)
OrphanCountLags ==
    LET listed == Cardinality({<<c, i>> \in Classes \X (1..Cardinality(Pages)) :
                                   i <= Len(orphans.list[c])})
        At(label) == orphans.lock # NoThread /\ loc[orphans.lock].pc = label
    IN  /\ orphans.count \in Nat
        /\ orphans.count = CASE At("orphan_count") -> listed - 1
                              [] At("adopted")      -> listed + 1
                              [] OTHER              -> listed

(* A thread that recycles a page or gives its pages up at exit does not    *)
(* spin for ever on the pusher counts of detach and try_detach.            *)
GivingUpFinishes ==
    \A t \in Threads :
        loc[t].pc \in {"recycle"} \cup Exiting ~> loc[t].pc \notin {"recycle"} \cup Exiting

(* The allocator as the program sees it.                                   *)
Program == INSTANCE Allocator WITH
    AllBlocks <- Pages \X Blocks,
    holders <- [pb \in Pages \X Blocks |-> live[pb[1]][pb[2]]]

(* The pages, lists and queues together hand out only blocks the program   *)
(* does not hold, and take back only what it frees.                        *)
ImplementsAllocator == Program!Spec
=============================================================================
