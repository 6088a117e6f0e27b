----------------------- MODULE HeapReservationProofs -----------------------
(***************************************************************************)
(* HeapReservation for any number of threads, any units and any mappings   *)
(* large enough to hold their headers: one range is reserved, and nothing  *)
(* is carved from it twice.                                                *)
(***************************************************************************)
EXTENDS HeapReservation, FiniteSetTheorems, TLAPS

(* A leaf that names no prover is tried with SMT, with Zenon and, if the   *)
(* machine was too busy for either, with SMT once more.                    *)
USE SMTT(10), ZenonT(20), SMTT(30)

Fields == {"base", "half", "large_start", "small_start", "reserve", "small", "medium", "large"}

LEMMA DownFacts ==
    ASSUME NEW n \in Int, NEW unit \in Nat \ {0}
    PROVE  /\ Down(n, unit) \in Int /\ Down(n, unit) <= n
           /\ n < Down(n, unit) + unit
           /\ n >= 0 => Down(n, unit) >= 0
BY DEF Down

LEMMA DownNat ==
    ASSUME NEW n \in Nat, NEW unit \in Nat \ {0}
    PROVE  Down(n, unit) \in Nat /\ Down(n, unit) <= n
BY DownFacts

LEMMA UpFacts ==
    ASSUME NEW n \in Int, NEW unit \in Nat \ {0}
    PROVE  Up(n, unit) \in Int /\ Up(n, unit) >= n
<1>1. n + unit - 1 \in Int /\ n + unit - 1 < Down(n + unit - 1, unit) + unit
      /\ Down(n + unit - 1, unit) \in Int
  BY DownFacts
<1> QED
  BY <1>1 DEF Up

LEMMA MediumUnit == MEDIUM_PAGE_SIZE \in Nat \ {0}
BY UnitsAssumption

LEMMA LayoutFacts ==
    ASSUME NEW m \in Mappings
    PROVE  LET l == Layout(m) IN
           /\ \A f \in Fields : l[f] \in Nat
           /\ l.base > 0 /\ m[1] <= l.base /\ l.base + l.reserve <= m[1] + m[2]
           /\ l.reserve > 0
           /\ l.small_start <= l.half /\ l.half <= l.large_start /\ l.large_start <= l.reserve
           /\ l.small = l.base + l.small_start
           /\ l.medium >= l.base + l.half
           /\ l.large = l.base + l.large_start
<1> DEFINE l == Layout(m)
           raw == m[1]
           base == Up(raw, LARGE_UNIT)
           reserve == Down(raw + m[2] - base, LARGE_UNIT)
           half == Down(reserve \div 2, MEDIUM_PAGE_SIZE)
           large_start == half + Down(reserve \div 4, LARGE_UNIT)
           small_start == HeaderArray(half, large_start)
           medium == MediumCursor(base, half)
<1>1. /\ l.base = base /\ l.half = half /\ l.large_start = large_start
      /\ l.small_start = small_start /\ l.reserve = reserve
      /\ l.small = base + small_start /\ l.medium = medium /\ l.large = base + large_start
  BY ZenonT(30) DEF Layout
<1> HIDE DEF l
<1>2. raw \in Nat \ {0} /\ m[2] \in Nat \ {0} /\ LARGE_UNIT \in Nat \ {0}
  BY MappingsAssumption, UnitsAssumption
<1>3. reserve > 0 /\ small_start <= half
  BY <1>1, MappingsAssumption DEF l
<1>4. base \in Nat /\ base >= raw
  BY <1>2, UpFacts
<1>5. reserve \in Nat /\ reserve <= raw + m[2] - base
  <2>1. raw + m[2] - base \in Int
    BY <1>2, <1>4
  <2> HIDE DEF base
  <2> QED
    BY <1>2, <1>3, <2>1, DownFacts
<1> HIDE DEF base, reserve
<1>6. half \in Nat /\ half <= reserve \div 2
  <2>1. reserve \div 2 \in Nat
    BY <1>5
  <2> QED
    BY <2>1, MediumUnit, DownNat, ZenonT(30)
<1> HIDE DEF half
<1>7. large_start \in Nat /\ half <= large_start /\ large_start <= reserve
  <2>1. Down(reserve \div 4, LARGE_UNIT) \in Nat /\ Down(reserve \div 4, LARGE_UNIT) <= reserve \div 4
    <3>1. reserve \div 4 \in Nat
      BY <1>5
    <3> QED
      BY <1>2, <3>1, DownNat, ZenonT(30)
  <2>2. reserve \div 2 + reserve \div 4 <= reserve
    BY <1>5
  <2> QED
    BY <1>5, <1>6, <2>1, <2>2
<1> HIDE DEF large_start
<1>8. small_start \in Nat
  <2>1. (large_start \div LARGE_UNIT) * HEADER_SIZE \in Nat
    BY <1>2, <1>7, UnitsAssumption
  <2> QED
    BY <1>2, <2>1, UpFacts DEF HeaderArray
<1>9. medium \in Nat /\ medium >= base + half
  BY <1>4, <1>6, MediumUnit, UpFacts DEF MediumCursor
<1> HIDE DEF small_start, medium
<1> QED
  BY <1>1, <1>2, <1>3, <1>4, <1>5, <1>6, <1>7, <1>8, <1>9 DEF l, Fields
-----------------------------------------------------------------------------
(* The invariant. *)

Labels == {"idle", "mode", "ensure", "mmap", "swap", "publish", "spin", "ready", "carve", "claim"}

(* Where a thread relies on the whole range being published.               *)
Served == {"ready", "carve", "claim"}

Heaps == [mode : {0, 1, 2}, base : Nat, small_limit : Nat]

Typed ==
    /\ pc \in [Threads -> Labels]
    /\ job \in [Threads -> [region : Regions, bytes : Nat, at : Nat]]
    /\ mine \in [Threads -> Mappings \cup {NoMapping}]
    /\ step \in [Threads -> Nat]
    /\ range \in [Fields -> Nat]
    /\ heap \in [Threads -> Heaps]
    /\ claims \subseteq [at : Nat, region : Regions, bytes : Nat, by : Threads]

(* The mappings of the threads that are about to swap.                     *)
Swapping == {t \in Threads : pc[t] = "swap"}

Candidates == {mine[t] : t \in Swapping}

Sealed == {"half", "large_start", "small_start", "reserve"}

(* The winner is storing the fields of mapping m.                          *)
Publishing(m) ==
    \E w \in Threads :
        /\ pc[w] = "publish" /\ mine[w] = m /\ step[w] \in 1..7
        /\ \A t \in Threads \ {w} : pc[t] # "publish"
        /\ \A i \in 1..7 : i < step[w] => range[PublishOrder[i]] = Layout(m)[PublishOrder[i]]

(* Mapping m is published: bounds are final, cursors only grow.            *)
Published(m) ==
    /\ \A t \in Threads : pc[t] # "publish"
    /\ \A f \in Sealed : range[f] = Layout(m)[f]
    /\ \A r \in Regions : range[r] >= Layout(m)[r]

Chosen(m) ==
    /\ m \in Mappings /\ range.base = Layout(m).base
    /\ mapped = {m} \cup Candidates /\ m \notin Candidates
    /\ IF range.reserve = 0 THEN Publishing(m) ELSE Published(m)

(* Carved ranges lie between the start of their region and its cursor,     *)
(* and those of one region do not overlap.                                 *)
Carved(m) ==
    /\ \A c \in claims :
           /\ Layout(m)[c.region] <= c.at /\ c.at + c.bytes <= range[c.region]
           /\ c.at + c.bytes <= Limit(c.region)
    /\ \A c, d \in claims :
           c # d /\ c.region = d.region => c.at + c.bytes <= d.at \/ d.at + d.bytes <= c.at

RangeInv ==
    /\ Typed
    /\ Candidates \subseteq Mappings
    /\ \A t, u \in Swapping : t # u => mine[t] # mine[u]
    /\ range.reserve = 0 =>
           claims = {} /\ \A t \in Threads : pc[t] \notin Served /\ heap[t].mode # 1
    /\ range.base = 0 =>
           /\ range.reserve = 0 /\ mapped = Candidates
           /\ \A t \in Threads : pc[t] \notin {"publish", "spin"} /\ step[t] = 1
    /\ range.base # 0 => \E m : Chosen(m) /\ Carved(m)

LEMMA InitRangeInv == Init => RangeInv
<1> SUFFICES ASSUME Init PROVE RangeInv
  OBVIOUS
<1>1. DOMAIN Layout(NoMapping) = Fields
  BY ZenonT(30) DEF Layout, Fields
<1>2. range = [f \in Fields |-> 0]
  BY <1>1 DEF Init
<1>3. Typed
  BY <1>2 DEF Init, Typed, Heaps, Labels, NoJob, Regions
<1>4. Swapping = {} /\ Candidates = {}
  BY DEF Init, Swapping, Candidates
<1>5. range.base = 0 /\ range.reserve = 0
  BY <1>2 DEF Fields
<1> QED
  BY <1>3, <1>4, <1>5 DEF Init, RangeInv, Served

(* A thread moves on without a mapping of its own, and touches neither the *)
(* range nor what is carved.                                               *)
LEMMA LocalStep ==
    ASSUME RangeInv, Typed', NEW t \in Threads,
           UNCHANGED <<range, mapped, claims, mine, step>>,
           \A u \in Threads \ {t} : pc'[u] = pc[u] /\ heap'[u] = heap[u],
           pc[t] \notin {"swap", "publish"}, pc'[t] \notin {"swap", "publish"},
           pc'[t] = "spin" => pc[t] = "spin",
           pc'[t] \in Served \/ heap'[t].mode = 1 => range.reserve # 0
    PROVE  RangeInv'
<1>1. Swapping' = Swapping /\ Candidates' = Candidates
  BY DEF Swapping, Candidates
<1>2. \A u \in Threads : pc'[u] = "publish" <=> pc[u] = "publish"
  OBVIOUS
<1>3. range'.base # 0 => \E m : Chosen(m)' /\ Carved(m)'
  <2> SUFFICES ASSUME range.base # 0 PROVE \E m : Chosen(m)' /\ Carved(m)'
    OBVIOUS
  <2>1. PICK m : Chosen(m) /\ Carved(m)
    BY DEF RangeInv
  <2>2. Carved(m)'
    BY <2>1, ZenonT(30) DEF Carved, Limit
  <2>3. Publishing(m) => Publishing(m)'
    BY <1>2 DEF Publishing
  <2>4. Published(m) => Published(m)'
    BY <1>2 DEF Published
  <2>5. Chosen(m)'
    BY <1>1, <2>1, <2>3, <2>4 DEF Chosen
  <2> QED
    BY <2>2, <2>5
<1>4. /\ Candidates' \subseteq Mappings
      /\ \A a, b \in Swapping' : a # b => mine'[a] # mine'[b]
  BY <1>1 DEF RangeInv
<1>5. range'.reserve = 0 =>
          claims' = {} /\ \A u \in Threads : pc'[u] \notin Served /\ heap'[u].mode # 1
  BY DEF RangeInv
<1>6. range'.base = 0 =>
          /\ range'.reserve = 0 /\ mapped' = Candidates'
          /\ \A u \in Threads : pc'[u] \notin {"publish", "spin"} /\ step'[u] = 1
  BY <1>1 DEF RangeInv
<1> QED
  BY <1>3, <1>4, <1>5, <1>6 DEF RangeInv

LEMMA TypedStep == Typed /\ Candidates \subseteq Mappings /\ [Next]_vars
                       /\ (\A t \in Threads : ~Publish(t)) => Typed'
<1> SUFFICES ASSUME Typed, Candidates \subseteq Mappings, [Next]_vars,
                    \A t \in Threads : ~Publish(t)
             PROVE  Typed'
  OBVIOUS
<1>1. CASE UNCHANGED vars
  BY <1>1 DEF vars, Typed
<1>2. ASSUME NEW t \in Threads, NEW region \in Regions, NEW units \in 1..MaxUnits,
             Request(t, region, units)
      PROVE  Typed'
  <2>1. Bytes(region, units) \in Nat
    BY UnitsAssumption, MediumUnit DEF Bytes, Regions
  <2>2. job'[t] = [region |-> region, bytes |-> Bytes(region, units), at |-> 0]
        /\ job' \in [Threads -> [region : Regions, bytes : Nat, at : Nat]]
    BY <1>2, <2>1 DEF Request, Typed
  <2>3. pc' \in [Threads -> Labels]
    BY <1>2, ZenonT(30) DEF Request, Goto, Typed, Labels
  <2>4. heap' \in [Threads -> Heaps]
    BY <1>2 DEF Request, Typed, Heaps
  <2> QED
    BY <1>2, <2>2, <2>3, <2>4 DEF Request, Typed
<1>3. ASSUME NEW t \in Threads, FirstFree(t) PROVE Typed'
  <2>1. range.base \in Nat /\ range.half \in Nat
    BY DEF Typed, Fields
  <2>2. heap' \in [Threads -> Heaps]
    <3>1. heap' = [heap EXCEPT ![t] = [heap[t] EXCEPT !.base = range.base, !.small_limit = range.half]]
      BY <1>3, <2>1, ZenonT(30) DEF FirstFree, Typed, Heaps
    <3>2. [heap[t] EXCEPT !.base = range.base, !.small_limit = range.half] \in Heaps
      BY <2>1, ZenonT(30) DEF Typed, Heaps
    <3> QED
      BY <3>1, <3>2 DEF Typed
  <2> QED
    BY <1>3, <2>2 DEF FirstFree, Typed
<1>4. ASSUME NEW t \in Threads, NEW env \in EnvModes, DecideMode(t, env) PROVE Typed'
  BY <1>4 DEF DecideMode, Goto, Typed, Labels
<1>5. ASSUME NEW t \in Threads, EnsureReserved(t) \/ MmapFails(t) \/ Spin(t) \/ NoGuard(t)
      PROVE  Typed'
  BY <1>5 DEF EnsureReserved, MmapFails, Spin, NoGuard, Goto, Typed, Labels
<1>10. ASSUME NEW t \in Threads, Ready(t) PROVE Typed'
  <2>1. range.base \in Nat /\ range.half \in Nat
    BY DEF Typed, Fields
  <2>2. heap' \in [Threads -> Heaps]
    BY <1>10, <2>1 DEF Ready, Typed, Heaps
  <2> QED
    BY <1>10, <2>2 DEF Ready, Goto, Typed, Labels
<1>6. ASSUME NEW t \in Threads, NEW m \in Mappings, Mmap(t, m) PROVE Typed'
  BY <1>6 DEF Mmap, Goto, Typed, Labels
<1>7. ASSUME NEW t \in Threads, SwapBase(t) PROVE Typed'
  <2>1. pc[t] = "swap" /\ pc' \in [Threads -> Labels]
    BY <1>7 DEF SwapBase, Goto, Typed, Labels
  <2>2. mine[t] \in Mappings
    BY <2>1 DEF Candidates, Swapping
  <2>3. range' \in [Fields -> Nat]
    BY <1>7, <2>2, LayoutFacts, ZenonT(30) DEF SwapBase, Typed, Fields
  <2>4. mine' \in [Threads -> Mappings \cup {NoMapping}]
    BY <1>7 DEF SwapBase, Typed
  <2> QED
    BY <1>7, <2>1, <2>3, <2>4 DEF SwapBase, Typed
<1>8. ASSUME NEW t \in Threads, CarveLoad(t) PROVE Typed'
  <2>1. range[job[t].region] \in Nat
    BY DEF Typed, Fields, Regions
  <2> QED
    BY <1>8, <2>1 DEF CarveLoad, Goto, Typed, Labels
<1>9. ASSUME NEW t \in Threads, CarveClaim(t) PROVE Typed'
  <2>1. range[job[t].region] \in Nat /\ job[t].region \in Fields /\ job[t].region \in Regions
        /\ job[t].at \in Nat /\ job[t].bytes \in Nat
    BY DEF Typed, Fields, Regions
  <2>2. pc' \in [Threads -> Labels]
    BY <1>9 DEF CarveClaim, Goto, Typed, Labels
  <2>3. job' \in [Threads -> [region : Regions, bytes : Nat, at : Nat]]
    <3>1. NoJob \in [region : Regions, bytes : Nat, at : Nat]
      BY DEF NoJob, Regions
    <3>2. [job[t] EXCEPT !.at = range[job[t].region]] \in [region : Regions, bytes : Nat, at : Nat]
      BY <2>1 DEF Typed
    <3>3. \/ job' = [job EXCEPT ![t] = NoJob]
          \/ job' = [job EXCEPT ![t] = [job[t] EXCEPT !.at = range[job[t].region]]]
      BY <1>9, ZenonT(30) DEF CarveClaim
    <3> QED
      BY <3>1, <3>2, <3>3, ZenonT(30) DEF Typed
  <2>4. range' \in [Fields -> Nat]
    BY <1>9, <2>1 DEF CarveClaim, Typed
  <2>5. claims' \subseteq [at : Nat, region : Regions, bytes : Nat, by : Threads]
    BY <1>9, <2>1 DEF CarveClaim, Typed
  <2> QED
    BY <1>9, <2>2, <2>3, <2>4, <2>5 DEF CarveClaim, Typed
<1> QED
  BY <1>1, <1>2, <1>3, <1>4, <1>5, <1>6, <1>7, <1>8, <1>9, <1>10 DEF Next, Work

(* A new mapping is disjoint from those in use, hence another one.         *)
LEMMA Fresh ==
    ASSUME NEW a \in Mappings, NEW b \in Mappings, Span(a) \cap Span(b) = {}
    PROVE  a # b
<1>1. a[1] \in Nat \ {0} /\ a[2] \in Nat \ {0}
  BY MappingsAssumption
<1>2. a[1] \in Span(a)
  BY <1>1 DEF Span
<1> QED
  BY <1>2

LEMMA MmapStep ==
    ASSUME RangeInv, Typed', NEW t \in Threads, NEW m \in Mappings, Mmap(t, m)
    PROVE  RangeInv'
<1>1. pc[t] = "mmap" /\ pc' = [pc EXCEPT ![t] = "swap"] /\ mine' = [mine EXCEPT ![t] = m]
      /\ UNCHANGED <<range, claims, step, heap>> /\ mapped' = mapped \cup {m}
  BY DEF Mmap, Goto
<1>2. pc'[t] = "swap" /\ mine'[t] = m
      /\ \A u \in Threads \ {t} : pc'[u] = pc[u] /\ mine'[u] = mine[u]
  BY <1>1 DEF RangeInv, Typed
<1>3. Swapping' = Swapping \cup {t} /\ t \notin Swapping
  BY <1>1, <1>2 DEF Swapping
<1>4. Candidates' = Candidates \cup {m}
  BY <1>2, <1>3 DEF Candidates, Swapping
<1>5. Candidates \subseteq mapped /\ mapped \subseteq Mappings
  BY DEF RangeInv, Chosen
<1>6. m \notin mapped
  BY <1>5, Fresh DEF Mmap
<1>7. \A a, b \in Swapping' : a # b => mine'[a] # mine'[b]
  <2>1. \A a \in Swapping : mine'[a] = mine[a] /\ mine[a] \in mapped
    BY <1>2, <1>3, <1>5 DEF Candidates, Swapping
  <2> QED
    BY <1>2, <1>3, <1>6, <2>1 DEF RangeInv
<1>8. range'.base # 0 => \E n : Chosen(n)' /\ Carved(n)'
  <2> SUFFICES ASSUME range.base # 0 PROVE \E n : Chosen(n)' /\ Carved(n)'
    BY <1>1
  <2>1. PICK n : Chosen(n) /\ Carved(n)
    BY DEF RangeInv
  <2>2. Carved(n)'
    BY <1>1, <2>1, ZenonT(30) DEF Carved, Limit
  <2>3. Publishing(n) => Publishing(n)'
    <3> SUFFICES ASSUME Publishing(n) PROVE Publishing(n)'
      OBVIOUS
    <3>1. PICK w \in Threads :
            /\ pc[w] = "publish" /\ mine[w] = n /\ step[w] \in 1..7
            /\ \A u \in Threads \ {w} : pc[u] # "publish"
            /\ \A i \in 1..7 : i < step[w] => range[PublishOrder[i]] = Layout(n)[PublishOrder[i]]
      BY DEF Publishing
    <3>2. w # t
      BY <1>1, <3>1
    <3> QED
      BY <1>1, <1>2, <3>1, <3>2 DEF Publishing
  <2>4. Published(n) => Published(n)'
    BY <1>1, <1>2 DEF Published
  <2>5. n # m
    BY <1>6, <2>1 DEF Chosen
  <2>6. Chosen(n)'
    BY <1>1, <1>4, <2>1, <2>3, <2>4, <2>5 DEF Chosen
  <2> QED
    BY <2>2, <2>6
<1>9. range'.reserve = 0 =>
          claims' = {} /\ \A u \in Threads : pc'[u] \notin Served /\ heap'[u].mode # 1
  BY <1>1, <1>2 DEF RangeInv, Served
<1>10. range'.base = 0 =>
          /\ range'.reserve = 0 /\ mapped' = Candidates'
          /\ \A u \in Threads : pc'[u] \notin {"publish", "spin"} /\ step'[u] = 1
  BY <1>1, <1>2, <1>4 DEF RangeInv
<1>11. Candidates' \subseteq Mappings
  BY <1>4 DEF RangeInv
<1> QED
  BY <1>7, <1>8, <1>9, <1>10, <1>11 DEF RangeInv

(* The first swap: the winner's mapping becomes the range.                 *)
LEMMA WinStep ==
    ASSUME RangeInv, Typed', NEW t \in Threads, SwapBase(t), range.base = 0
    PROVE  RangeInv'
<1>0. PICK m : m = mine[t]
  OBVIOUS
<1>1. pc[t] = "swap" /\ pc' = [pc EXCEPT ![t] = "publish"]
      /\ range' = [range EXCEPT !.base = Layout(m).base]
      /\ UNCHANGED <<mapped, mine, claims, step, heap>>
  BY <1>0 DEF SwapBase, Goto
<1>2. t \in Swapping /\ m \in Candidates /\ m \in Mappings
  BY <1>0, <1>1 DEF Swapping, Candidates, RangeInv
<1>3. pc'[t] = "publish" /\ \A u \in Threads \ {t} : pc'[u] = pc[u]
  BY <1>1 DEF RangeInv, Typed
<1>4. Swapping' = Swapping \ {t}
  BY <1>3 DEF Swapping
<1>5. Candidates' = Candidates \ {m}
  <2>1. \A u \in Swapping \ {t} : mine[u] # m
    BY <1>0, <1>2 DEF RangeInv
  <2> QED
    BY <1>0, <1>1, <1>2, <1>4, <2>1 DEF Candidates
<1>6. /\ Layout(m).base > 0 /\ range'.base = Layout(m).base
      /\ range'.reserve = range.reserve /\ range.reserve = 0
  BY <1>1, <1>2, LayoutFacts DEF RangeInv, Typed, Fields
<1>7. claims = {} /\ \A u \in Threads : pc[u] \notin Served /\ heap[u].mode # 1
  BY <1>6 DEF RangeInv
<1>8. Publishing(m)'
  <2>1. step'[t] = 1 /\ \A u \in Threads \ {t} : pc'[u] # "publish"
    BY <1>1, <1>3 DEF RangeInv
  <2> QED
    BY <1>0, <1>1, <1>3, <2>1 DEF Publishing
<1>9. Chosen(m)'
  <2>1. mapped' = {m} \cup Candidates' /\ m \notin Candidates'
    BY <1>1, <1>2, <1>5 DEF RangeInv
  <2> QED
    BY <1>2, <1>6, <1>8, <2>1 DEF Chosen
<1>10. Carved(m)'
  BY <1>1, <1>7 DEF Carved
<1>11. Candidates' \subseteq Mappings /\ \A a, b \in Swapping' : a # b => mine'[a] # mine'[b]
  BY <1>1, <1>4, <1>5 DEF RangeInv
<1>12. claims' = {} /\ \A u \in Threads : pc'[u] \notin Served /\ heap'[u].mode # 1
  BY <1>1, <1>3, <1>7 DEF Served
<1>13. range'.base # 0
  BY <1>2, <1>6, LayoutFacts
<1>14. \E n : Chosen(n)' /\ Carved(n)'
  BY <1>9, <1>10
<1> QED
  BY <1>11, <1>12, <1>13, <1>14 DEF RangeInv

(* A later swap: the loser gives its mapping back.                         *)
LEMMA LoseStep ==
    ASSUME RangeInv, Typed', NEW t \in Threads, SwapBase(t), range.base # 0
    PROVE  RangeInv'
<1>1. pc[t] = "swap" /\ pc' = [pc EXCEPT ![t] = "spin"]
      /\ mapped' = mapped \ {mine[t]} /\ mine' = [mine EXCEPT ![t] = NoMapping]
      /\ UNCHANGED <<range, claims, step, heap>>
  BY DEF SwapBase, Goto, Release
<1>2. t \in Swapping /\ mine[t] \in Candidates
  BY <1>1 DEF Swapping, Candidates
<1>3. pc'[t] = "spin" /\ \A u \in Threads \ {t} : pc'[u] = pc[u] /\ mine'[u] = mine[u]
  BY <1>1 DEF RangeInv, Typed
<1>4. Swapping' = Swapping \ {t}
  BY <1>3 DEF Swapping
<1>5. Candidates' = Candidates \ {mine[t]}
  <2>1. \A u \in Swapping \ {t} : mine[u] # mine[t] /\ mine'[u] = mine[u]
    BY <1>2, <1>3 DEF RangeInv, Swapping
  <2> QED
    BY <1>2, <1>4, <2>1 DEF Candidates
<1>6. PICK m : Chosen(m) /\ Carved(m)
  BY DEF RangeInv
<1>7. Carved(m)'
  BY <1>1, <1>6, ZenonT(30) DEF Carved, Limit
<1>8. Publishing(m) => Publishing(m)'
  <2> SUFFICES ASSUME Publishing(m) PROVE Publishing(m)'
    OBVIOUS
  <2>1. PICK w \in Threads :
          /\ pc[w] = "publish" /\ mine[w] = m /\ step[w] \in 1..7
          /\ \A u \in Threads \ {w} : pc[u] # "publish"
          /\ \A i \in 1..7 : i < step[w] => range[PublishOrder[i]] = Layout(m)[PublishOrder[i]]
    BY DEF Publishing
  <2>2. w # t
    BY <1>1, <2>1
  <2> QED
    BY <1>1, <1>3, <2>1, <2>2 DEF Publishing
<1>9. Published(m) => Published(m)'
  BY <1>1, <1>3 DEF Published
<1>10. Chosen(m)'
  BY <1>1, <1>2, <1>5, <1>6, <1>8, <1>9 DEF Chosen
<1>11. Candidates' \subseteq Mappings /\ \A a, b \in Swapping' : a # b => mine'[a] # mine'[b]
  <2>1. \A a \in Swapping' : mine'[a] = mine[a] /\ a \in Swapping
    BY <1>3, <1>4 DEF Swapping
  <2> QED
    BY <1>5, <2>1 DEF RangeInv
<1>12. range'.reserve = 0 =>
          claims' = {} /\ \A u \in Threads : pc'[u] \notin Served /\ heap'[u].mode # 1
  BY <1>1, <1>3 DEF RangeInv, Served
<1>13. \E n : Chosen(n)' /\ Carved(n)'
  BY <1>7, <1>10
<1> QED
  BY <1>1, <1>11, <1>12, <1>13 DEF RangeInv

(* The winner stores one field, the last time the one that opens the range. *)
LEMMA PublishStep ==
    ASSUME RangeInv, NEW t \in Threads, Publish(t)
    PROVE  RangeInv'
<1> DEFINE field == PublishOrder[step[t]]
<1>1. pc[t] = "publish"
  BY DEF Publish, Goto
<1>2. range.base # 0
  BY <1>1 DEF RangeInv
<1>3. PICK m : Chosen(m) /\ Carved(m)
  BY <1>2 DEF RangeInv
<1>4. range.reserve = 0 /\ Publishing(m)
  BY <1>1, <1>3 DEF Chosen, Published
<1>5. /\ mine[t] = m /\ step[t] \in 1..7
      /\ \A u \in Threads \ {t} : pc[u] # "publish"
      /\ \A i \in 1..7 : i < step[t] => range[PublishOrder[i]] = Layout(m)[PublishOrder[i]]
  BY <1>1, <1>4 DEF Publishing
<1>6. /\ Len(PublishOrder) = 7
      /\ \A i, j \in 1..7 : i # j => PublishOrder[i] # PublishOrder[j]
      /\ \A i \in 1..7 : PublishOrder[i] \in Fields \ {"base"}
      /\ PublishOrder[7] = "reserve" /\ \A i \in 1..6 : PublishOrder[i] # "reserve"
      /\ \A f \in Fields \ {"base"} : \E i \in 1..7 : PublishOrder[i] = f
  BY DEF PublishOrder, Fields
<1>7. /\ pc' = [pc EXCEPT ![t] = IF step[t] = 7 THEN "ready" ELSE "publish"]
      /\ range' = [range EXCEPT ![field] = Layout(m)[field]]
      /\ step' = [step EXCEPT ![t] = @ + 1]
      /\ UNCHANGED <<mapped, claims, job, mine, heap>>
  BY <1>5, <1>6 DEF Publish, Goto
<1>8. field \in Fields \ {"base"} /\ Layout(m)[field] \in Nat /\ m \in Mappings
  BY <1>3, <1>5, <1>6, LayoutFacts DEF Chosen
<1> HIDE DEF field
<1>9. Typed'
  BY <1>7, <1>8 DEF RangeInv, Typed, Labels
<1>10. /\ pc'[t] = IF step[t] = 7 THEN "ready" ELSE "publish"
       /\ step'[t] = step[t] + 1
       /\ \A u \in Threads \ {t} : pc'[u] = pc[u] /\ step'[u] = step[u]
       /\ range'[field] = Layout(m)[field]
       /\ \A f \in Fields \ {field} : range'[f] = range[f]
  BY <1>7, <1>8 DEF RangeInv, Typed
<1>11. Swapping' = Swapping /\ Candidates' = Candidates
  <2>1. Swapping' = Swapping
    BY <1>1, <1>10 DEF Swapping
  <2> QED
    BY <1>7, <2>1 DEF Candidates
<1>12. claims = {} /\ \A u \in Threads : pc[u] \notin Served /\ heap[u].mode # 1
  BY <1>4 DEF RangeInv
<1>13. range'.base = range.base
  BY <1>8, <1>10 DEF Fields
<1>14. \A i \in 1..7 : i <= step[t] => range'[PublishOrder[i]] = Layout(m)[PublishOrder[i]]
  <2> SUFFICES ASSUME NEW i \in 1..7, i <= step[t]
               PROVE range'[PublishOrder[i]] = Layout(m)[PublishOrder[i]]
    OBVIOUS
  <2>1. CASE i = step[t]
    BY <1>10, <2>1 DEF field
  <2>2. CASE i < step[t]
    <3>1. PublishOrder[i] # field /\ PublishOrder[i] \in Fields
      BY <1>5, <1>6, <2>2 DEF field
    <3> QED
      BY <1>5, <1>10, <2>2, <3>1
  <2> QED
    BY <1>5, <2>1, <2>2
<1>15. CASE step[t] # 7
  <2>1. range'.reserve = 0
    BY <1>4, <1>5, <1>6, <1>10, <1>15 DEF field, Fields
  <2>2. Publishing(m)'
    <3>1. pc'[t] = "publish" /\ mine'[t] = m /\ step'[t] \in 1..7
      BY <1>5, <1>7, <1>10, <1>15
    <3>2. \A u \in Threads \ {t} : pc'[u] # "publish"
      BY <1>5, <1>10
    <3>3. \A i \in 1..7 : i < step'[t] => range'[PublishOrder[i]] = Layout(m)[PublishOrder[i]]
      BY <1>5, <1>10, <1>14
    <3> QED
      BY <3>1, <3>2, <3>3 DEF Publishing
  <2>3. Chosen(m)'
    BY <1>3, <1>7, <1>11, <1>13, <2>1, <2>2 DEF Chosen
  <2>4. Carved(m)'
    BY <1>7, <1>12 DEF Carved
  <2>5. \A u \in Threads : pc'[u] \notin Served /\ heap'[u].mode # 1
    BY <1>7, <1>10, <1>12, <1>15 DEF Served
  <2>6. \E n : Chosen(n)' /\ Carved(n)'
    BY <2>3, <2>4
  <2> QED
    BY <1>2, <1>7, <1>9, <1>11, <1>12, <1>13, <2>5, <2>6 DEF RangeInv
<1>16. CASE step[t] = 7
  <2>1. \A f \in Fields \ {"base"} : range'[f] = Layout(m)[f]
    BY <1>5, <1>6, <1>14, <1>16
  <2>2. range'.reserve # 0
    BY <1>8, <2>1, LayoutFacts DEF Fields
  <2>3. Published(m)'
    <3>1. \A u \in Threads : pc'[u] # "publish"
      BY <1>5, <1>10, <1>16
    <3>2. \A r \in Regions : range'[r] = Layout(m)[r] /\ Layout(m)[r] \in Nat
      BY <1>8, <2>1, LayoutFacts DEF Fields, Regions
    <3> QED
      BY <2>1, <3>1, <3>2 DEF Published, Sealed, Fields
  <2>4. Chosen(m)'
    BY <1>3, <1>7, <1>11, <1>13, <2>2, <2>3 DEF Chosen
  <2>5. Carved(m)'
    BY <1>7, <1>12 DEF Carved
  <2>6. \E n : Chosen(n)' /\ Carved(n)'
    BY <2>4, <2>5
  <2> QED
    BY <1>2, <1>7, <1>9, <1>11, <1>13, <2>2, <2>6 DEF RangeInv
<1> QED
  BY <1>15, <1>16

(* carve: a block is taken at the cursor, so after everything carved from  *)
(* its region before, and the cursor moves past it.                        *)
LEMMA ClaimStep ==
    ASSUME RangeInv, Typed', NEW t \in Threads, CarveClaim(t)
    PROVE  RangeInv'
<1> DEFINE r == job[t].region
           at == job[t].at
           bytes == job[t].bytes
           new == [at |-> at, region |-> r, bytes |-> bytes, by |-> t]
<1>1. pc[t] = "claim" /\ UNCHANGED <<mapped, mine, step, heap>>
  BY DEF CarveClaim, Goto
<1>2. \A u \in Threads \ {t} : pc'[u] = pc[u]
  BY DEF CarveClaim, Goto, RangeInv, Typed
<1>3. pc'[t] \in {"idle", "claim"}
  BY <1>1 DEF CarveClaim, Goto, RangeInv, Typed
<1>4. range.reserve # 0
  BY <1>1 DEF RangeInv, Served
<1>5. CASE UNCHANGED <<range, claims>>
  BY <1>1, <1>2, <1>3, <1>4, <1>5, LocalStep DEF Served
<1>6. CASE ~UNCHANGED <<range, claims>>
  <2>1. /\ at + bytes <= Limit(r) /\ range[r] = at
        /\ range' = [range EXCEPT ![r] = at + bytes] /\ claims' = claims \cup {new}
    BY <1>6 DEF CarveClaim, Swaps
  <2>2. r \in Regions /\ at \in Nat /\ bytes \in Nat /\ r \in Fields \ (Sealed \cup {"base"})
    BY DEF RangeInv, Typed, Fields, Sealed, Regions
  <2>3. new.at = at /\ new.region = r /\ new.bytes = bytes
    OBVIOUS
  <2> HIDE DEF r, at, bytes, new
  <2>4. range'[r] = at + bytes /\ \A f \in Fields \ {r} : range'[f] = range[f]
    BY <2>1, <2>2 DEF RangeInv, Typed
  <2>5. \A f \in Sealed \cup {"base"} : range'[f] = range[f]
    BY <2>2, <2>4 DEF Sealed, Fields
  <2>6. range'.reserve = range.reserve /\ range'.base = range.base
        /\ range'.half = range.half /\ range'.large_start = range.large_start
    BY <2>5 DEF Sealed
  <2>7. \A q \in Regions : Limit(q)' = Limit(q)
    BY <2>6 DEF Limit
  <2>8. Swapping' = Swapping /\ Candidates' = Candidates
    <3>1. Swapping' = Swapping
      BY <1>1, <1>2, <1>3 DEF Swapping
    <3> QED
      BY <1>1, <3>1 DEF Candidates
  <2>9. range.base # 0
    BY <1>4 DEF RangeInv
  <2>10. PICK m : Chosen(m) /\ Carved(m)
    BY <2>9 DEF RangeInv
  <2>11. Published(m) /\ m \in Mappings
    BY <1>4, <2>10 DEF Chosen
  <2>12. \A q \in Regions : range[q] \in Nat /\ Layout(m)[q] \in Nat /\ range[q] >= Layout(m)[q]
    BY <2>11, LayoutFacts DEF Published, RangeInv, Typed, Fields, Regions
  <2>13. Published(m)'
    <3>1. \A u \in Threads : pc'[u] # "publish"
      BY <1>2, <1>3, <2>11 DEF Published
    <3>2. \A f \in Sealed : range'[f] = Layout(m)[f]
      BY <2>5, <2>11 DEF Published
    <3>3. \A q \in Regions : range'[q] >= Layout(m)[q]
      BY <2>1, <2>2, <2>4, <2>12 DEF Fields, Regions
    <3> QED
      BY <3>1, <3>2, <3>3 DEF Published
  <2>14. Chosen(m)'
    BY <1>1, <1>4, <2>6, <2>8, <2>10, <2>13 DEF Chosen
  <2>15. \A c \in claims : /\ c.region \in Regions /\ c.at \in Nat /\ c.bytes \in Nat
                           /\ Layout(m)[c.region] <= c.at
                           /\ c.at + c.bytes <= range[c.region]
                           /\ c.at + c.bytes <= Limit(c.region)
    BY <2>10 DEF Carved, RangeInv, Typed
  <2>16. \A q \in Regions : range'[q] \in Nat /\ range[q] <= range'[q]
    BY <2>1, <2>2, <2>4, <2>12 DEF Fields, Regions
  <2>17. Carved(m)'
    <3>1. ASSUME NEW c \in claims'
          PROVE  /\ Layout(m)[c.region] <= c.at /\ c.at + c.bytes <= range'[c.region]
                 /\ c.at + c.bytes <= Limit(c.region)'
      <4>1. CASE c \in claims
        BY <2>7, <2>12, <2>15, <2>16, <4>1
      <4>2. CASE c = new
        BY <2>1, <2>2, <2>3, <2>4, <2>7, <2>12, <4>2
      <4> QED
        BY <2>1, <3>1, <4>1, <4>2
    <3>2. \A c \in claims : c.region = r => c.at + c.bytes <= at
      BY <2>1, <2>15
    <3>3. ASSUME NEW c \in claims', NEW d \in claims', c # d, c.region = d.region
          PROVE  c.at + c.bytes <= d.at \/ d.at + d.bytes <= c.at
      <4>1. CASE c \in claims /\ d \in claims
        BY <2>10, <3>3, <4>1 DEF Carved
      <4>2. CASE c = new \/ d = new
        BY <2>1, <2>3, <3>2, <3>3, <4>2
      <4> QED
        BY <2>1, <4>1, <4>2
    <3> QED
      BY <3>1, <3>3 DEF Carved
  <2>18. \E n : Chosen(n)' /\ Carved(n)'
    BY <2>14, <2>17
  <2> QED
    BY <1>1, <1>4, <2>6, <2>8, <2>9, <2>18 DEF RangeInv
<1> QED
  BY <1>5, <1>6

LEMMA NextRangeInv == RangeInv /\ [Next]_vars => RangeInv'
<1> SUFFICES ASSUME RangeInv, [Next]_vars PROVE RangeInv'
  OBVIOUS
<1>1. ASSUME NEW t \in Threads, Publish(t) PROVE RangeInv'
  BY <1>1, PublishStep
<1> SUFFICES ASSUME \A t \in Threads : ~Publish(t) PROVE RangeInv'
  BY <1>1
<1>2. Typed'
  BY TypedStep DEF RangeInv
<1>3. CASE UNCHANGED vars
  <2>1. Swapping' = Swapping /\ Candidates' = Candidates
    BY <1>3 DEF vars, Swapping, Candidates
  <2>2. \A m : Chosen(m) /\ Carved(m) => Chosen(m)' /\ Carved(m)'
    BY <1>3, <2>1, ZenonT(30) DEF vars, Chosen, Carved, Limit, Publishing, Published
  <2> QED
    BY <1>2, <1>3, <2>1, <2>2 DEF vars, RangeInv
<1>4. ASSUME NEW t \in Threads, NEW region \in Regions, NEW units \in 1..MaxUnits,
             Request(t, region, units)
      PROVE  RangeInv'
  <2>1. /\ UNCHANGED <<range, mapped, claims, mine, step>>
        /\ \A u \in Threads \ {t} : pc'[u] = pc[u] /\ heap'[u] = heap[u]
        /\ pc[t] \notin {"swap", "publish"} /\ pc'[t] \notin {"swap", "publish"}
        /\ pc'[t] = "spin" => pc[t] = "spin"
    BY <1>4 DEF Request, Goto, RangeInv, Typed
  <2>2. pc'[t] \in Served \/ heap'[t].mode = 1 => range.reserve # 0
    BY <1>4 DEF Request, Goto, RangeInv, Typed, Heaps, Served
  <2> QED
    BY <1>2, <2>1, <2>2, LocalStep
<1>5. ASSUME NEW t \in Threads, FirstFree(t) PROVE RangeInv'
  <2>1. /\ UNCHANGED <<range, mapped, claims, mine, step>>
        /\ \A u \in Threads \ {t} : pc'[u] = pc[u] /\ heap'[u] = heap[u]
        /\ pc[t] \notin {"swap", "publish"} /\ pc'[t] \notin {"swap", "publish"}
        /\ pc'[t] = "spin" => pc[t] = "spin"
    BY <1>5 DEF FirstFree, RangeInv, Typed
  <2>2. pc'[t] \in Served \/ heap'[t].mode = 1 => range.reserve # 0
    BY <1>5 DEF FirstFree, RangeInv, Typed, Heaps, Served
  <2> QED
    BY <1>2, <2>1, <2>2, LocalStep
<1>6. ASSUME NEW t \in Threads, NEW env \in EnvModes, DecideMode(t, env) PROVE RangeInv'
  <2>1. /\ UNCHANGED <<range, mapped, claims, mine, step>>
        /\ \A u \in Threads \ {t} : pc'[u] = pc[u] /\ heap'[u] = heap[u]
        /\ pc[t] \notin {"swap", "publish"} /\ pc'[t] \notin {"swap", "publish"}
        /\ pc'[t] = "spin" => pc[t] = "spin"
    BY <1>6 DEF DecideMode, Goto, RangeInv, Typed
  <2>2. pc'[t] \in Served \/ heap'[t].mode = 1 => range.reserve # 0
    BY <1>6 DEF DecideMode, Goto, RangeInv, Typed, Heaps, Served
  <2> QED
    BY <1>2, <2>1, <2>2, LocalStep
<1>7. ASSUME NEW t \in Threads, EnsureReserved(t) \/ MmapFails(t) \/ Spin(t) \/ NoGuard(t)
      PROVE  RangeInv'
  <2>1. /\ UNCHANGED <<range, mapped, claims, mine, step>>
        /\ \A u \in Threads \ {t} : pc'[u] = pc[u] /\ heap'[u] = heap[u]
        /\ pc[t] \notin {"swap", "publish"} /\ pc'[t] \notin {"swap", "publish"}
        /\ pc'[t] = "spin" => pc[t] = "spin"
    BY <1>7 DEF EnsureReserved, MmapFails, Spin, NoGuard, Goto, RangeInv, Typed
  <2>2. pc'[t] \in Served \/ heap'[t].mode = 1 => range.reserve # 0
    BY <1>7 DEF EnsureReserved, MmapFails, Spin, NoGuard, Goto, RangeInv, Typed, Heaps, Served
  <2> QED
    BY <1>2, <2>1, <2>2, LocalStep
<1>8. ASSUME NEW t \in Threads, Ready(t) PROVE RangeInv'
  <2>1. /\ UNCHANGED <<range, mapped, claims, mine, step>>
        /\ \A u \in Threads \ {t} : pc'[u] = pc[u] /\ heap'[u] = heap[u]
        /\ pc[t] \notin {"swap", "publish"} /\ pc'[t] \notin {"swap", "publish"}
        /\ pc'[t] = "spin" => pc[t] = "spin"
    BY <1>8 DEF Ready, Goto, RangeInv, Typed
  <2>2. pc'[t] \in Served \/ heap'[t].mode = 1 => range.reserve # 0
    BY <1>8 DEF Ready, Goto, RangeInv, Typed, Heaps, Served
  <2> QED
    BY <1>2, <2>1, <2>2, LocalStep
<1>9. ASSUME NEW t \in Threads, CarveLoad(t) PROVE RangeInv'
  <2>1. /\ UNCHANGED <<range, mapped, claims, mine, step>>
        /\ \A u \in Threads \ {t} : pc'[u] = pc[u] /\ heap'[u] = heap[u]
        /\ pc[t] \notin {"swap", "publish"} /\ pc'[t] \notin {"swap", "publish"}
        /\ pc'[t] = "spin" => pc[t] = "spin"
    BY <1>9 DEF CarveLoad, Goto, RangeInv, Typed
  <2>2. pc'[t] \in Served \/ heap'[t].mode = 1 => range.reserve # 0
    BY <1>9 DEF CarveLoad, Goto, RangeInv, Typed, Heaps, Served
  <2> QED
    BY <1>2, <2>1, <2>2, LocalStep
<1>10. ASSUME NEW t \in Threads, NEW m \in Mappings, Mmap(t, m) PROVE RangeInv'
  BY <1>2, <1>10, MmapStep
<1>11. ASSUME NEW t \in Threads, SwapBase(t) PROVE RangeInv'
  BY <1>2, <1>11, WinStep, LoseStep
<1>12. ASSUME NEW t \in Threads, CarveClaim(t) PROVE RangeInv'
  BY <1>2, <1>12, ClaimStep
<1> QED
  BY <1>1, <1>3, <1>4, <1>5, <1>6, <1>7, <1>8, <1>9, <1>10, <1>11, <1>12 DEF Next, Work
-----------------------------------------------------------------------------
LEMMA RangeInvariant == Spec => []RangeInv
<1>1. Init => RangeInv
  BY InitRangeInv
<1>2. RangeInv /\ [Next]_vars => RangeInv'
  BY NextRangeInv
<1> QED
  BY <1>1, <1>2, PTL DEF Spec

(* At most one mapping survives the race to reserve, however many threads  *)
(* run ensure_reserved at once: the losers of the swap unmap theirs.       *)
THEOREM ReservedOnce == Spec => []OneReservation
<1>1. RangeInv => OneReservation
  <2> SUFFICES ASSUME RangeInv, \A t \in Threads : pc[t] # "swap"
               PROVE  Cardinality(mapped) <= 1
    BY DEF OneReservation
  <2>1. Candidates = {}
    BY DEF Candidates, Swapping
  <2>2. mapped = {} \/ \E m : mapped = {m}
    BY <2>1 DEF RangeInv, Chosen
  <2>3. Cardinality(mapped) = 0 \/ Cardinality(mapped) = 1
    BY <2>2, FS_EmptySet, FS_Singleton, ZenonT(30)
  <2> QED
    BY <2>3
<1> QED
  BY <1>1, RangeInvariant, PTL

(* Whatever threads carve from the three regions at once, no address is    *)
(* handed out twice, none lies in the header array, and all lie inside     *)
(* the mapping, for every mapping reserve_range may be given.              *)
THEOREM CarvesAreDisjoint == Spec => []ClaimsDisjoint
<1>1. RangeInv => ClaimsDisjoint
  <2> SUFFICES ASSUME RangeInv PROVE ClaimsDisjoint
    OBVIOUS
  <2>1. CASE claims = {}
    BY <2>1 DEF ClaimsDisjoint
  <2>2. CASE claims # {}
    <3>1. range.reserve # 0 /\ range.base # 0
      BY <2>2 DEF RangeInv
    <3>2. PICK m : Chosen(m) /\ Carved(m)
      BY <3>1 DEF RangeInv
    <3>3. m \in Mappings /\ m \in mapped /\ Published(m) /\ range.base = Layout(m).base
      BY <3>1, <3>2 DEF Chosen
    <3> DEFINE l == Layout(m)
    <3>4. /\ range.half = l.half /\ range.large_start = l.large_start
          /\ range.small_start = l.small_start /\ range.reserve = l.reserve
      BY <3>3 DEF Published, Sealed
    <3>5. /\ \A f \in Fields : l[f] \in Nat
          /\ m[1] <= l.base /\ l.base + l.reserve <= m[1] + m[2]
          /\ l.small_start <= l.half /\ l.half <= l.large_start /\ l.large_start <= l.reserve
          /\ l.small = l.base + l.small_start
          /\ l.medium >= l.base + l.half
          /\ l.large = l.base + l.large_start
      BY <3>3, LayoutFacts
    <3>6. m[1] \in Nat /\ m[2] \in Nat
      BY <3>3, MappingsAssumption
    <3> HIDE DEF l
    <3>7. /\ l.base \in Nat /\ l.half \in Nat /\ l.large_start \in Nat /\ l.small_start \in Nat
          /\ l.reserve \in Nat /\ l.medium \in Nat
      BY <3>5 DEF Fields
    <3>8. ASSUME NEW c \in claims
          PROVE  /\ c.at \in Nat /\ c.bytes \in Nat
                 /\ \/ /\ c.region = "small" /\ l.base + l.small_start <= c.at
                       /\ c.at + c.bytes <= l.base + l.half
                    \/ /\ c.region = "medium" /\ l.base + l.half <= c.at
                       /\ c.at + c.bytes <= l.base + l.large_start
                    \/ /\ c.region = "large" /\ l.base + l.large_start <= c.at
                       /\ c.at + c.bytes <= l.base + l.reserve
      <4>1. c.at \in Nat /\ c.bytes \in Nat /\ c.region \in Regions
        BY DEF RangeInv, Typed
      <4>2. l[c.region] <= c.at /\ c.at + c.bytes <= Limit(c.region)
        BY <3>2 DEF Carved, l
      <4>3. CASE c.region = "small"
        BY <3>3, <3>4, <3>5, <3>7, <4>1, <4>2, <4>3 DEF Limit, l
      <4>4. CASE c.region = "medium"
        <5>1. Limit(c.region) = l.base + l.large_start /\ l.medium <= c.at
          BY <3>3, <3>4, <4>2, <4>4 DEF Limit, l
        <5> QED
          BY <3>5, <3>7, <4>1, <4>2, <4>4, <5>1
      <4>5. CASE c.region = "large"
        BY <3>3, <3>4, <3>5, <3>7, <4>1, <4>2, <4>5 DEF Limit, l
      <4> QED
        BY <4>1, <4>3, <4>4, <4>5 DEF Regions
    <3>9. ASSUME NEW c \in claims, NEW d \in claims, c # d
          PROVE  Claimed(c) \cap Claimed(d) = {}
      <4>1. c.region = d.region => c.at + c.bytes <= d.at \/ d.at + d.bytes <= c.at
        BY <3>2, <3>9 DEF Carved
      <4>2. c.at + c.bytes <= d.at \/ d.at + d.bytes <= c.at
        BY <3>5, <3>7, <3>8, <4>1
      <4> QED
        BY <3>8, <4>2 DEF Claimed
    <3>10. ASSUME NEW c \in claims
           PROVE  /\ Claimed(c) \cap range.base..(range.base + range.small_start - 1) = {}
                  /\ Claimed(c) \subseteq Span(m)
      <4>1. l.base + l.small_start <= c.at /\ c.at + c.bytes <= l.base + l.reserve
        BY <3>5, <3>7, <3>8
      <4>2. range.base = l.base /\ range.small_start = l.small_start
        BY <3>3, <3>4 DEF l
      <4> QED
        BY <3>5, <3>6, <3>7, <3>8, <4>1, <4>2 DEF Claimed, Span
    <3> QED
      BY <3>3, <3>9, <3>10 DEF ClaimsDisjoint
  <2> QED
    BY <2>1, <2>2
<1> QED
  BY <1>1, RangeInvariant, PTL
=============================================================================
