--------------------------- MODULE MemoryPaneProofs ---------------------------
(***************************************************************************)
(* The memory pane for every memory map, every set of window sizes and     *)
(* every order of events: motions show the cursor, and the bytes shown are *)
(* those of the addresses shown.                                           *)
(***************************************************************************)
EXTENDS MemoryPane, WellFoundedInduction, TLAPS

-----------------------------------------------------------------------------
(* Arithmetic of rows *)

LEMMA MultipleOf ==
  ASSUME NEW n \in Int, NEW c \in Nat \ {0}
  PROVE  n % c = 0 <=> \E q \in Int : n = q * c
<1>1. \A q \in Int : (q * c) % c = 0
  OBVIOUS
<1>2. n % c = 0 => \E q \in Int : n = q * c
  OBVIOUS
<1> QED BY <1>1, <1>2

LEMMA SumOfRows ==
  ASSUME NEW n \in Int, NEW m \in Int, NEW c \in Nat \ {0}, n % c = 0, m % c = 0
  PROVE  (n + m) % c = 0 /\ (n - m) % c = 0
<1>1. PICK p \in Int : n = p * c
  BY MultipleOf
<1>2. PICK q \in Int : m = q * c
  BY MultipleOf
<1>3. n + m = (p + q) * c /\ n - m = (p - q) * c
  BY <1>1, <1>2
<1>4. n + m \in Int /\ n - m \in Int /\ p + q \in Int /\ p - q \in Int
  OBVIOUS
<1> QED BY <1>3, <1>4, MultipleOf

\* RoundDown is the begin of a row, less than a row below.
LEMMA RowBegin ==
  ASSUME NEW n \in Int, NEW c \in Nat \ {0}
  PROVE  /\ RoundDown(n, c) \in Int /\ RoundDown(n, c) % c = 0
         /\ RoundDown(n, c) <= n /\ n < RoundDown(n, c) + c
         /\ n % c = 0 => RoundDown(n, c) = n
<1> DEFINE q == n \div c
<1>1. q \in Int
  OBVIOUS
<1>2. q * c <= n /\ n - c < q * c
  OBVIOUS
<1>3. \A k \in Int : (k * c) \div c = k
  OBVIOUS
<1>4. n % c = 0 => q * c = n
  BY <1>3, MultipleOf
<1>5. (q * c) % c = 0 /\ q * c \in Int
  BY <1>1
<1> HIDE DEF q
<1>6. n < q * c + c
  BY <1>1, <1>2, <1>5
<1> QED BY <1>2, <1>4, <1>5, <1>6 DEF RoundDown, q

LEMMA RowRemainder ==
  ASSUME NEW n \in Int, NEW c \in Nat \ {0}
  PROVE  n - (n % c) = RoundDown(n, c)
<1> DEFINE q == n \div c
<1>1. q \in Int /\ q * c <= n /\ n - c < q * c
  OBVIOUS
<1>2. \A k \in Int, r \in 0 .. (c - 1) : (k * c + r) % c = r
  OBVIOUS
<1>3. n - q * c \in 0 .. (c - 1) /\ n = q * c + (n - q * c)
  BY <1>1
<1> HIDE DEF q
<1>4. n % c = n - q * c
  BY <1>1, <1>2, <1>3
<1> QED BY <1>1, <1>4 DEF RoundDown, q

\* A row below a bound that is a multiple of rows ends below it too.
LEMMA RowFits ==
  ASSUME NEW n \in Int, NEW m \in Int, NEW c \in Nat \ {0},
         n % c = 0, m % c = 0, n < m
  PROVE  n + c <= m
<1>1. PICK p \in Int : n = p * c
  BY MultipleOf
<1>2. PICK q \in Int : m = q * c
  BY MultipleOf
<1>3. p < q
  <2> SUFFICES ASSUME q <= p PROVE FALSE
    OBVIOUS
  <2>1. (p - q) * c >= 0
    OBVIOUS
  <2> QED BY <1>1, <1>2, <2>1
<1>4. (q - p - 1) * c >= 0
  BY <1>3
<1> QED BY <1>1, <1>2, <1>4

-----------------------------------------------------------------------------
(* The memory map *)

\* A set of numbers has a least element: the induction over the regions.
LEMMA LeastElement ==
  ASSUME NEW T \in SUBSET Nat, T # {}
  PROVE  \E x \in T : \A y \in T : x <= y
<1> DEFINE R == OpToRel(<, Nat)
<1>1. IsWellFoundedOn(R, Nat)
  BY NatLessThanWellFounded
<1>2. \A x, y \in Nat : x < y => <<x, y>> \in R
  BY DEF OpToRel
<1> HIDE DEF R
<1>3. T \subseteq Nat
  OBVIOUS
<1>4. PICK x \in T : \A y \in T : ~(<<y, x>> \in R)
  BY <1>1, <1>3, WFMin, Zenon
<1>5. \A y \in T : ~(y < x)
  BY <1>2, <1>4
<1>6. \A y \in T : x <= y
  BY <1>5
<1> QED BY <1>6

RegionType == [base : Nat, size : Nat \ {0}]

LEMMA RegionsFacts ==
  /\ Regions \in Seq(RegionType) /\ Len(Regions) \in Nat \ {0}
  /\ DOMAIN Regions = 1 .. Len(Regions)
  /\ \A i \in 1 .. Len(Regions) : Regions[i].base \in Nat /\ Regions[i].size \in Nat \ {0}
<1>1. Regions \in Seq(RegionType) /\ Regions # <<>>
  BY PaneAssumption DEF RegionType
<1>2. Len(Regions) \in Nat /\ DOMAIN Regions = 1 .. Len(Regions)
  BY <1>1
<1>3. Len(Regions) # 0
  BY <1>1
<1>4. \A i \in 1 .. Len(Regions) : Regions[i] \in RegionType
  BY <1>1
<1> QED BY <1>1, <1>2, <1>3, <1>4 DEF RegionType

\* The offsets at which the regions begin, as far as the nth.
BaseOf(f, i) == IF i = 1 THEN 0 ELSE f[i - 1] + Regions[i - 1].size

LEMMA BasesExist ==
  \A n \in 0 .. Len(Regions) :
    \E f \in [1 .. (n + 1) -> Nat] : \A i \in 1 .. (n + 1) : f[i] = BaseOf(f, i)
<1> DEFINE Good(n) ==
      \E f \in [1 .. (n + 1) -> Nat] : \A i \in 1 .. (n + 1) : f[i] = BaseOf(f, i)
    T == {n \in 0 .. Len(Regions) : ~Good(n)}
<1> SUFFICES ASSUME T # {} PROVE FALSE
  OBVIOUS
<1>1. T \in SUBSET Nat
  BY RegionsFacts
<1> HIDE DEF Good
<1>2. PICK n \in T : \A m \in T : n <= m
  BY <1>1, LeastElement
<1>3. n \in 0 .. Len(Regions) /\ ~Good(n)
  OBVIOUS
<1>4. CASE n = 0
  <2>1. [i \in 1 .. 1 |-> 0] \in [1 .. (n + 1) -> Nat]
    BY <1>4
  <2>2. \A i \in 1 .. (n + 1) : [j \in 1 .. 1 |-> 0][i] = BaseOf([j \in 1 .. 1 |-> 0], i)
    BY <1>4 DEF BaseOf
  <2> QED BY <1>3, <2>1, <2>2 DEF Good
<1>5. CASE n # 0
  <2>1. n - 1 \in 0 .. Len(Regions) /\ n \in 1 .. Len(Regions)
    BY <1>3, <1>5, RegionsFacts
  <2>2. Good(n - 1)
    BY <1>2, <1>3, <2>1, RegionsFacts
  <2>3. PICK f \in [1 .. n -> Nat] : \A i \in 1 .. n : f[i] = BaseOf(f, i)
    BY <2>1, <2>2, RegionsFacts DEF Good
  <2> DEFINE g == [i \in 1 .. (n + 1) |-> IF i <= n THEN f[i] ELSE f[n] + Regions[n].size]
  <2>4. g \in [1 .. (n + 1) -> Nat]
    BY <2>1, <2>3, RegionsFacts
  <2>5. \A i \in 1 .. n : g[i] = f[i]
    BY <2>1, RegionsFacts
  <2>6. g[n + 1] = f[n] + Regions[n].size
    BY <2>1, RegionsFacts
  <2> HIDE DEF g
  <2>7. ASSUME NEW i \in 1 .. (n + 1) PROVE g[i] = BaseOf(g, i)
    <3>1. CASE i = n + 1
      BY <2>1, <2>5, <2>6, <3>1, RegionsFacts DEF BaseOf
    <3>2. CASE i \in 1 .. n
      <4>1. i # 1 => g[i - 1] = f[i - 1]
        BY <2>1, <2>5, <3>2, RegionsFacts
      <4>2. g[i] = f[i] /\ f[i] = BaseOf(f, i)
        BY <2>3, <2>5, <3>2
      <4> QED BY <4>1, <4>2 DEF BaseOf
    <3> QED BY <2>1, <3>1, <3>2, RegionsFacts
  <2> QED BY <1>3, <2>4, <2>7 DEF Good
<1> QED BY <1>4, <1>5

\* LinearBase begins at 0, grows by the size of each region, and is a number.
LEMMA LinearBaseFacts ==
  /\ LinearBase[1] = 0
  /\ \A i \in 1 .. Len(Regions) : LinearBase[i + 1] = LinearBase[i] + Regions[i].size
  /\ \A i \in 1 .. (Len(Regions) + 1) : LinearBase[i] \in Nat
<1> DEFINE Defines(f) ==
      f = [i \in 1 .. (Len(Regions) + 1) |->
             IF i = 1 THEN 0 ELSE f[i - 1] + Regions[i - 1].size]
<1>1. \E f : Defines(f)
  <2>0. Len(Regions) \in 0 .. Len(Regions)
    BY RegionsFacts
  <2>1. PICK f \in [1 .. (Len(Regions) + 1) -> Nat] :
          \A i \in 1 .. (Len(Regions) + 1) : f[i] = BaseOf(f, i)
    BY <2>0, BasesExist, Zenon
  <2>2. Defines(f)
    BY <2>1 DEF BaseOf
  <2> QED BY <2>2
<1>2. Defines(LinearBase)
  BY <1>1, Zenon DEF LinearBase
<1>3. \A i \in 1 .. (Len(Regions) + 1) : LinearBase[i] = BaseOf(LinearBase, i)
  BY <1>2 DEF BaseOf
<1> HIDE DEF Defines
<1>4. LinearBase[1] = 0
  BY <1>3, RegionsFacts DEF BaseOf
<1>5. \A i \in 1 .. Len(Regions) : LinearBase[i + 1] = LinearBase[i] + Regions[i].size
  <2> TAKE i \in 1 .. Len(Regions)
  <2>1. i + 1 \in 1 .. (Len(Regions) + 1) /\ i + 1 # 1 /\ (i + 1) - 1 = i
    BY RegionsFacts
  <2> QED BY <1>3, <2>1 DEF BaseOf
<1>6. \A i \in 1 .. (Len(Regions) + 1) : LinearBase[i] \in Nat
  <2> DEFINE T == {i \in 1 .. (Len(Regions) + 1) : LinearBase[i] \notin Nat}
  <2> SUFFICES ASSUME T # {} PROVE FALSE
    OBVIOUS
  <2>1. T \in SUBSET Nat
    BY RegionsFacts
  <2>2. PICK i \in T : \A j \in T : i <= j
    BY <2>1, LeastElement
  <2>3. i # 1 /\ i - 1 \in 1 .. Len(Regions)
    BY <1>4, RegionsFacts
  <2>4. LinearBase[i - 1] \in Nat
    BY <2>2, <2>3, RegionsFacts
  <2>5. LinearBase[i] = LinearBase[i - 1] + Regions[i - 1].size
    BY <1>5, <2>3, RegionsFacts
  <2> QED BY <2>3, <2>4, <2>5, RegionsFacts
<1> QED BY <1>4, <1>5, <1>6

LEMMA MapSizeFacts == MapSize \in Nat \ {0}
<1>1. Len(Regions) \in 1 .. Len(Regions) /\ Len(Regions) \in 1 .. (Len(Regions) + 1)
  BY RegionsFacts
<1> QED BY <1>1, LinearBaseFacts, RegionsFacts DEF MapSize

LEMMA RegionFacts ==
  ASSUME NEW a \in Int, Region(a) # None
  PROVE  \E i \in 1 .. Len(Regions) : Region(a) = Regions[i] /\ Contains(Regions[i], a)
<1>1. \E r \in {Regions[i] : i \in DOMAIN Regions} : Contains(r, a)
  BY DEF Region
<1>2. /\ Region(a) \in {Regions[i] : i \in DOMAIN Regions}
      /\ Contains(Region(a), a)
  BY <1>1 DEF Region
<1> QED BY <1>2, RegionsFacts

LEMMA InRegion ==
  ASSUME NEW a \in Int, NEW i \in 1 .. Len(Regions), Contains(Regions[i], a)
  PROVE  Region(a) # None
<1>1. Region(a) \in {Regions[k] : k \in DOMAIN Regions}
  BY RegionsFacts DEF Region
<1>2. \A k \in 1 .. Len(Regions) : Regions[k] \in RegionType
  BY RegionsFacts
<1> QED BY <1>1, <1>2, RegionsFacts, PaneAssumption DEF RegionType

\* Every offset of the map without gaps leads into a region.
LEMMA AddressMapped ==
  ASSUME NEW offset \in 0 .. (MapSize - 1)
  PROVE  AddressAt(offset) \in Nat /\ Region(AddressAt(offset)) # None
<1> DEFINE T == {k \in 1 .. (Len(Regions) + 1) : offset < LinearBase[k]}
           Holds(k) == LinearBase[k] <= offset /\ offset < LinearBase[k + 1]
<1>1. Len(Regions) + 1 \in T
  BY MapSizeFacts, RegionsFacts DEF MapSize
<1>2. T \in SUBSET Nat
  BY RegionsFacts
<1>3. PICK k \in T : \A j \in T : k <= j
  BY <1>1, <1>2, LeastElement
<1>4. k # 1
  BY LinearBaseFacts
<1>5. k - 1 \in 1 .. Len(Regions) /\ k - 1 \in 1 .. (Len(Regions) + 1)
  BY <1>4, RegionsFacts
<1>6. ~(offset < LinearBase[k - 1])
  BY <1>3, <1>5
<1>7. Holds(k - 1)
  BY <1>5, <1>6, LinearBaseFacts, RegionsFacts
<1>8. \E i \in DOMAIN Regions : Holds(i)
  BY <1>5, <1>7, RegionsFacts
<1> DEFINE i == CHOOSE j \in DOMAIN Regions : Holds(j)
<1>9. i \in 1 .. Len(Regions) /\ Holds(i)
  BY <1>8, RegionsFacts
<1>10. AddressAt(offset) = Regions[i].base + (offset - LinearBase[i])
  BY MapSizeFacts DEF AddressAt
<1> HIDE DEF i
<1>11. /\ LinearBase[i] \in Nat /\ LinearBase[i + 1] = LinearBase[i] + Regions[i].size
       /\ Regions[i].base \in Nat /\ Regions[i].size \in Nat /\ offset \in Int
       /\ LinearBase[i] <= offset /\ offset < LinearBase[i + 1]
  <2>1. i \in 1 .. (Len(Regions) + 1) /\ MapSize \in Nat
    BY <1>9, RegionsFacts, MapSizeFacts
  <2> QED BY <1>9, <2>1, LinearBaseFacts, RegionsFacts
<1>12. Contains(Regions[i], AddressAt(offset)) /\ AddressAt(offset) \in Nat
  BY <1>10, <1>11 DEF Contains
<1>13. i \in 1 .. Len(Regions) /\ AddressAt(offset) \in Int
  BY <1>9, <1>12
<1> QED BY <1>12, <1>13, InRegion

LEMMA LinearOffsetFacts ==
  ASSUME NEW a \in Int PROVE LinearOffset(a) \in Nat
<1>1. CASE Region(a) = None
  BY <1>1 DEF LinearOffset
<1>2. CASE Region(a) # None
  <2> DEFINE i == CHOOSE k \in DOMAIN Regions : Contains(Regions[k], a)
  <2>1. i \in 1 .. Len(Regions) /\ Contains(Regions[i], a)
    BY <1>2, RegionFacts, RegionsFacts
  <2>2. LinearOffset(a) = LinearBase[i] + (a - Regions[i].base)
    BY <1>2 DEF LinearOffset
  <2> HIDE DEF i
  <2>3. LinearBase[i] \in Nat
    BY <2>1, LinearBaseFacts, RegionsFacts
  <2> QED BY <2>1, <2>2, <2>3, RegionsFacts DEF Contains
<1> QED BY <1>1, <1>2

-----------------------------------------------------------------------------
(* The inductive invariant *)

Windows == [start : Int, length : Nat]

PaneType ==
  [ subview : {"PhysicalMemory", "VirtualMemory", "Disassembly"}, active : BOOLEAN,
    columns : Nat \ {0}, window : Nat \ {0},
    range : Windows, cursor : Nat, bytes : Windows \cup {None}, dirty : BOOLEAN,
    vinit : BOOLEAN, vstart : Int, vcursor : Nat, vbytes : Windows \cup {None},
    vdirty : BOOLEAN, execution : Pcs \cup {None}, disassembly : Int \cup {None} ]

\* The pane has a size it can have, and its cursors are addresses of memory.
Placed(p) ==
  /\ p \in PaneType
  /\ [columns |-> p.columns, window |-> p.window] \in Geometries
  /\ Region(p.cursor) # None /\ p.vcursor <= AddressMax

\* Its windows are of that size and begin with a row, wherever they are.
Settled(p) ==
  /\ p.range.length = p.window /\ p.range.start % p.columns = 0
  /\ p.vstart % p.columns = 0

\* Searches find addresses of memory.
FindsMapped(requests) ==
  \A r \in requests : r.kind = "SearchMemory" =>
    r.address = None \/ (r.address \in Nat /\ Region(r.address) # None)

PaneInv ==
  /\ Placed(pane) /\ Settled(pane)
  /\ FindsMapped(pending)
  /\ ShownBytesCurrent

-----------------------------------------------------------------------------
(* What the windows become *)

LEMMA GeometryFacts ==
  ASSUME NEW p, Placed(p)
  PROVE  /\ p.columns \in Nat \ {0} /\ p.window \in Nat \ {0}
         /\ p.window % p.columns = 0 /\ p.columns <= p.window
         /\ (AddressMax + 1) % p.columns = 0 /\ p.window <= AddressMax
         /\ AddressMax \in Nat
         /\ \A i \in 1 .. Len(Regions) :
              /\ Regions[i].base % p.columns = 0 /\ Regions[i].size % p.columns = 0
              /\ p.window <= Regions[i].size
<1> DEFINE g == [columns |-> p.columns, window |-> p.window]
<1>1. g \in Geometries /\ g.columns = p.columns /\ g.window = p.window
  BY DEF Placed
<1>2. p.columns \in Nat \ {0} /\ p.window \in Nat \ {0}
  BY DEF Placed, PaneType
<1> HIDE DEF g
<1>3. p.window % p.columns = 0
  BY <1>1, PaneAssumption
<1>4. p.columns <= p.window
  <2>1. 0 % p.columns = 0
    BY <1>2, MultipleOf, 0 = 0 * p.columns
  <2> QED BY <1>2, <1>3, <2>1, RowFits
<1>5. (AddressMax + 1) % p.columns = 0 /\ p.window <= AddressMax /\ AddressMax \in Nat
  BY <1>1, PaneAssumption
<1>6. \A i \in 1 .. Len(Regions) :
        /\ Regions[i].base % p.columns = 0 /\ Regions[i].size % p.columns = 0
        /\ p.window <= Regions[i].size
  BY <1>1, PaneAssumption, RegionsFacts
<1> QED BY <1>2, <1>3, <1>4, <1>5, <1>6

\* The window of the cursor, in terms of its region.
LEMMA CursorRegion ==
  ASSUME NEW p, Placed(p)
  PROVE  LET region == Region(p.cursor)
         IN  /\ region.base \in Nat /\ region.size \in Nat \ {0}
             /\ p.cursor \in Nat
             /\ region.base <= p.cursor /\ p.cursor < region.base + region.size
             /\ region.base % p.columns = 0 /\ region.size % p.columns = 0
             /\ p.window <= region.size
<1>1. p.cursor \in Nat /\ Region(p.cursor) # None
  BY DEF Placed, PaneType
<1>2. PICK i \in 1 .. Len(Regions) :
        Region(p.cursor) = Regions[i] /\ Contains(Regions[i], p.cursor)
  BY <1>1, RegionFacts
<1> QED BY <1>1, <1>2, GeometryFacts, RegionsFacts DEF Contains

\* ensure_cursor_visible leaves all but the window, which begins with a row; it shows
\* the cursor when the window was settled before.
LEMMA CursorVisibleFacts ==
  ASSUME NEW p, Placed(p)
  PROVE  /\ Placed(CursorVisible(p))
         /\ \E start \in Int :
              /\ CursorVisible(p) = [p EXCEPT !.range = Window(start, p.window)]
              /\ start % p.columns = 0
         /\ Settled(p) => PhysicalShown(CursorVisible(p))
<1> DEFINE region == Region(p.cursor)
           c == p.columns
           w == p.window
           lastStart == region.base + region.size - w
           same == Region(p.range.start) = region
           start == IF same /\ InWindow(p.cursor, p.range)
                      THEN Least(p.range.start, lastStart)
                    ELSE IF p.cursor < p.range.start \/ ~same
                      THEN Least(p.cursor - ((p.cursor - region.base) % c), lastStart)
                    ELSE Least(Difference(p.cursor, w - c), lastStart)
           begin == region.base + RoundDown(start - region.base, c)
<1>1. /\ region.base \in Nat /\ region.size \in Nat \ {0} /\ p.cursor \in Nat
      /\ region.base <= p.cursor /\ p.cursor < region.base + region.size
      /\ region.base % c = 0 /\ region.size % c = 0 /\ w <= region.size
  BY CursorRegion
<1>2. c \in Nat \ {0} /\ w \in Nat \ {0} /\ w % c = 0 /\ c <= w
  BY GeometryFacts
<1>3. p \in PaneType /\ p.range.start \in Int
  BY DEF Placed, PaneType, Windows
<1>4. Least(w, region.size) = w
  BY <1>1, <1>2 DEF Least
<1>5. CursorVisible(p) = [p EXCEPT !.range = Window(begin, w)]
  BY <1>4 DEF CursorVisible
<1>6. (p.cursor - region.base) % c \in Int
  BY <1>1, <1>2
<1>7. lastStart \in Int /\ region.base <= lastStart /\ (lastStart - region.base) % c = 0
  <2>1. (region.size - w) % c = 0
    BY <1>1, <1>2, SumOfRows
  <2> QED BY <1>1, <1>2, <2>1
<1> HIDE DEF region, c, w, lastStart, same
<1>8. start \in Int
  BY <1>1, <1>2, <1>3, <1>6, <1>7 DEF Least, Difference
<1> DEFINE down == RoundDown(start - region.base, c)
<1>r. /\ down \in Int /\ down % c = 0 /\ down <= start - region.base
      /\ start - region.base < down + c
      /\ (start - region.base) % c = 0 => down = start - region.base
  <2> HIDE DEF start
  <2>1. start - region.base \in Int
    BY <1>1, <1>8
  <2> QED BY <1>2, <2>1, RowBegin
<1> HIDE DEF down
<1>s. begin = region.base + down
  BY DEF down
<1>9. begin \in Int /\ begin % c = 0
  <2> HIDE DEF begin
  <2>1. region.base \in Int /\ region.base % c = 0 /\ down \in Int /\ down % c = 0
    BY <1>1, <1>r
  <2>2. (region.base + down) % c = 0
    BY <1>2, <2>1, SumOfRows
  <2> QED BY <1>s, <2>1, <2>2
<1>10. Placed(CursorVisible(p))
  <2>1. Window(begin, w) \in Windows
    BY <1>2, <1>9 DEF Window, Windows
  <2> HIDE DEF begin
  <2>2. CursorVisible(p) \in PaneType
    BY <1>3, <1>5, <2>1 DEF PaneType
  <2> QED BY <1>3, <1>5, <2>2 DEF Placed, PaneType
<1>11. ASSUME Settled(p) PROVE PhysicalShown(CursorVisible(p))
  <2>1. p.range.length = w /\ p.range.start % c = 0
    BY <1>11 DEF Settled, c, w
  <2>2. ASSUME same PROVE region.base <= p.range.start
    <3>1. Region(p.range.start) # None
      BY <2>2 DEF same, region, Placed
    <3>2. PICK i \in 1 .. Len(Regions) :
            Region(p.range.start) = Regions[i] /\ Contains(Regions[i], p.range.start)
      BY <1>3, <3>1, RegionFacts
    <3> QED BY <2>2, <3>2 DEF same, Contains
  <2>3. /\ region.base <= begin /\ begin + w <= region.base + region.size
        /\ begin <= p.cursor /\ p.cursor < begin + w
        /\ (begin - region.base) % c = 0
    <3>2. (begin - region.base) % c = 0 /\ begin <= start /\ start < begin + c
          /\ ((start - region.base) % c = 0 => begin = start)
      <4> HIDE DEF start, begin
      <4> QED BY <1>1, <1>2, <1>8, <1>r, <1>s
    <3>3. ASSUME start = lastStart, lastStart <= p.cursor
          PROVE  /\ region.base <= begin /\ begin + w <= region.base + region.size
                 /\ begin <= p.cursor /\ p.cursor < begin + w
      <4> HIDE DEF start, begin
      <4> QED BY <1>1, <1>2, <1>7, <3>2, <3>3 DEF lastStart
    <3>4. CASE same /\ InWindow(p.cursor, p.range)
      <4>1. /\ p.range.start <= p.cursor /\ p.cursor < p.range.start + w
            /\ start = Least(p.range.start, lastStart)
        BY <2>1, <3>4 DEF InWindow
      <4>2. region.base <= p.range.start /\ (p.range.start - region.base) % c = 0
        BY <1>1, <1>2, <1>3, <2>1, <2>2, <3>4, SumOfRows
      <4> HIDE DEF start, begin
      <4>3. CASE p.range.start < lastStart
        <5>1. start = p.range.start /\ begin = start
          BY <3>2, <4>1, <4>2, <4>3 DEF Least
        <5> QED BY <1>1, <1>2, <1>3, <1>7, <3>2, <4>1, <4>2, <4>3, <5>1 DEF lastStart
      <4>4. CASE ~(p.range.start < lastStart)
        BY <1>1, <1>3, <1>7, <3>2, <3>3, <4>1, <4>4 DEF Least
      <4> QED BY <4>3, <4>4
    <3>5. CASE ~(same /\ InWindow(p.cursor, p.range)) /\ (p.cursor < p.range.start \/ ~same)
      <4> DEFINE row == p.cursor - ((p.cursor - region.base) % c)
      <4>1. start = Least(row, lastStart)
        BY <3>5
      <4>2. /\ row \in Int /\ row <= p.cursor /\ p.cursor < row + c
            /\ region.base <= row /\ (row - region.base) % c = 0
        <5> DEFINE d == p.cursor - region.base
        <5>1. d \in Nat
          BY <1>1
        <5>2. d % c \in Nat /\ d % c < c /\ d % c <= d
          BY <1>2, <5>1
        <5>3. d - (d % c) = RoundDown(d, c)
          BY <1>2, <5>1, RowRemainder
        <5>4. (d - (d % c)) % c = 0
          BY <1>2, <5>1, <5>3, RowBegin
        <5>5. row - region.base = d - (d % c)
          BY <1>1, <5>2
        <5> HIDE DEF row, start, begin
        <5>6. p.cursor = region.base + d
          BY <1>1
        <5>7. row = p.cursor - (d % c)
          BY DEF row
        <5> HIDE DEF d
        <5>8. row \in Int /\ row <= p.cursor /\ p.cursor < row + c /\ region.base <= row
          <6> DEFINE m == d % c
          <6>1. m \in Nat /\ m < c /\ m <= d /\ row = p.cursor - m
            BY <5>2, <5>7
          <6> HIDE DEF m
          <6> QED BY <1>1, <1>2, <5>1, <5>6, <6>1
        <5> QED BY <5>4, <5>5, <5>8
      <4> HIDE DEF row, start, begin
      <4>3. CASE row < lastStart
        <5>1. start = row /\ begin = start
          BY <3>2, <4>1, <4>2, <4>3 DEF Least
        <5> QED BY <1>1, <1>2, <1>7, <3>2, <4>2, <4>3, <5>1 DEF lastStart
      <4>4. CASE ~(row < lastStart)
        BY <1>1, <1>7, <3>2, <3>3, <4>1, <4>2, <4>4 DEF Least
      <4> QED BY <4>3, <4>4
    <3>6. CASE same /\ ~InWindow(p.cursor, p.range) /\ ~(p.cursor < p.range.start)
      <4>1. /\ p.range.start + w <= p.cursor /\ region.base <= p.range.start
            /\ start = Least(Difference(p.cursor, w - c), lastStart)
        BY <1>1, <1>2, <1>3, <2>1, <2>2, <3>6 DEF InWindow
      <4> HIDE DEF start, begin
      <4>2. Difference(p.cursor, w - c) = p.cursor - (w - c)
        BY <1>1, <1>2, <1>3, <4>1 DEF Difference
      <4>3. CASE p.cursor - (w - c) < lastStart
        <5>1. start = p.cursor - (w - c)
          BY <4>1, <4>2, <4>3 DEF Least
        <5>2. region.base <= begin
          BY <1>1, <1>2, <1>3, <1>8, <1>9, <3>2, <4>1, <5>1
        <5> QED BY <1>1, <1>2, <1>3, <1>7, <1>9, <3>2, <4>1, <4>3, <5>1, <5>2 DEF lastStart
      <4>4. CASE ~(p.cursor - (w - c) < lastStart)
        BY <1>1, <1>2, <1>7, <3>2, <3>3, <4>1, <4>2, <4>4 DEF Least
      <4> QED BY <4>3, <4>4
    <3> HIDE DEF start, begin
    <3> QED BY <3>2, <3>4, <3>5, <3>6
  <2> HIDE DEF start, begin
  <2>4. /\ CursorVisible(p).cursor = p.cursor /\ CursorVisible(p).columns = c
        /\ CursorVisible(p).range.start = begin /\ CursorVisible(p).range.length = w
    BY <1>3, <1>5 DEF PaneType, Window, c
  <2> QED BY <2>3, <2>4 DEF PhysicalShown, InWindow, region
<1> HIDE DEF start, begin
<1> QED BY <1>5, <1>9, <1>10, <1>11 DEF c, w

\* ensure_virtual_cursor_visible, likewise, with the whole address space as region.
LEMMA VirtualVisibleFacts ==
  ASSUME NEW p, Placed(p)
  PROVE  /\ Placed(VirtualVisible(p))
         /\ \E start \in Int :
              /\ VirtualVisible(p) = [p EXCEPT !.vstart = start]
              /\ start % p.columns = 0
         /\ p.vstart % p.columns = 0 => VirtualShown(VirtualVisible(p))
<1> DEFINE c == p.columns
           w == p.window
           lastStart == AddressMax - (w - 1)
           start == IF InWindow(p.vcursor, Window(p.vstart, w)) THEN Least(p.vstart, lastStart)
                    ELSE IF p.vcursor < p.vstart
                      THEN Least(RoundDown(p.vcursor, c), lastStart)
                    ELSE Least(Difference(p.vcursor, w - c), lastStart)
           begin == RoundDown(start, c)
<1>1. /\ c \in Nat \ {0} /\ w \in Nat \ {0} /\ w % c = 0 /\ c <= w
      /\ AddressMax \in Nat /\ (AddressMax + 1) % c = 0 /\ w <= AddressMax
  BY GeometryFacts
<1>2. /\ p \in PaneType /\ p.vstart \in Int /\ p.vcursor \in Nat /\ p.vcursor <= AddressMax
  BY DEF Placed, PaneType
<1>3. VirtualVisible(p) = [p EXCEPT !.vstart = begin]
  BY DEF VirtualVisible
<1>4. lastStart \in Nat /\ lastStart % c = 0 /\ lastStart + w = AddressMax + 1
  <2>1. ((AddressMax + 1) - w) % c = 0
    BY <1>1, SumOfRows
  <2>0. AddressMax \in Nat /\ w \in Nat
    BY <1>1
  <2>2. lastStart = (AddressMax + 1) - w
    BY <2>0
  <2> HIDE DEF lastStart
  <2> QED BY <1>1, <2>1, <2>2
<1>5. /\ RoundDown(p.vcursor, c) \in Int /\ RoundDown(p.vcursor, c) % c = 0
      /\ RoundDown(p.vcursor, c) <= p.vcursor /\ p.vcursor < RoundDown(p.vcursor, c) + c
  <2>1. c \in Nat \ {0} /\ p.vcursor \in Int
    BY <1>1, <1>2
  <2> HIDE DEF c
  <2> QED BY <1>2, <2>1, RowBegin
<1> HIDE DEF c, w, lastStart
<1>6. start \in Int
  BY <1>1, <1>2, <1>4, <1>5 DEF Least, Difference
<1> HIDE DEF start
<1>7. /\ begin \in Int /\ begin % c = 0 /\ begin <= start /\ start < begin + c
      /\ start % c = 0 => begin = start
  BY <1>1, <1>6, RowBegin
<1> HIDE DEF begin
<1>8. Placed(VirtualVisible(p))
  BY <1>2, <1>3, <1>7 DEF Placed, PaneType
<1>9. ASSUME p.vstart % c = 0 PROVE VirtualShown(VirtualVisible(p))
  <2>1. ASSUME start = lastStart, lastStart <= p.vcursor
        PROVE  begin <= p.vcursor /\ p.vcursor < begin + w /\ begin + w <= AddressMax + 1
    BY <1>1, <1>2, <1>4, <1>7, <2>1
  <2>2. begin <= p.vcursor /\ p.vcursor < begin + w /\ begin + w <= AddressMax + 1
    <3>1. CASE InWindow(p.vcursor, Window(p.vstart, w))
      <4>1. /\ p.vstart <= p.vcursor /\ p.vcursor < p.vstart + w
            /\ start = Least(p.vstart, lastStart)
        BY <3>1 DEF InWindow, Window, start
      <4>2. CASE p.vstart < lastStart
        <5>1. begin = p.vstart
          BY <1>7, <1>9, <4>1, <4>2 DEF Least
        <5> QED BY <1>1, <1>2, <1>4, <4>1, <4>2, <5>1
      <4>3. CASE ~(p.vstart < lastStart)
        BY <1>2, <1>4, <2>1, <4>1, <4>3 DEF Least
      <4> QED BY <4>2, <4>3
    <3>2. CASE ~InWindow(p.vcursor, Window(p.vstart, w)) /\ p.vcursor < p.vstart
      <4> DEFINE row == RoundDown(p.vcursor, c)
      <4>1. start = Least(row, lastStart)
        BY <3>2 DEF start
      <4>2. row \in Int /\ row % c = 0 /\ row <= p.vcursor /\ p.vcursor < row + c
        BY <1>5
      <4> HIDE DEF row
      <4>3. CASE row < lastStart
        <5>1. begin = row
          BY <1>7, <4>1, <4>2, <4>3 DEF Least
        <5> QED BY <1>1, <1>2, <1>4, <4>2, <4>3, <5>1
      <4>4. CASE ~(row < lastStart)
        BY <1>2, <1>4, <2>1, <4>1, <4>2, <4>4 DEF Least
      <4> QED BY <4>3, <4>4
    <3>3. CASE ~InWindow(p.vcursor, Window(p.vstart, w)) /\ ~(p.vcursor < p.vstart)
      <4> DEFINE first == Difference(p.vcursor, w - c)
      <4>1. start = Least(first, lastStart)
        BY <3>3 DEF start
      <4>2. first \in Nat /\ first <= p.vcursor /\ p.vcursor - (w - c) <= first
            /\ (first = 0 \/ first = p.vcursor - (w - c))
        BY <1>1, <1>2 DEF Difference
      <4> HIDE DEF first
      <4>3. CASE first < lastStart
        <5>1. start = first
          BY <4>1, <4>3 DEF Least
        <5>2. 0 % c = 0
          BY <1>1, MultipleOf, 0 = 0 * c
        <5>3. CASE first = 0
          BY <1>1, <1>2, <1>4, <1>7, <4>2, <4>3, <5>1, <5>2, <5>3
        <5>4. CASE first = p.vcursor - (w - c)
          BY <1>1, <1>2, <1>4, <1>7, <4>2, <4>3, <5>1, <5>4
        <5> QED BY <4>2, <5>3, <5>4
      <4>4. CASE ~(first < lastStart)
        BY <1>2, <1>4, <2>1, <4>1, <4>2, <4>4 DEF Least
      <4> QED BY <4>3, <4>4
    <3> QED BY <3>1, <3>2, <3>3
  <2>3. /\ VirtualVisible(p).vcursor = p.vcursor /\ VirtualVisible(p).columns = c
        /\ VirtualVisible(p).vstart = begin /\ VirtualVisible(p).window = w
    BY <1>2, <1>3 DEF PaneType, c, w
  <2> QED BY <1>7, <2>2, <2>3 DEF VirtualShown, InWindow, Window
<1> QED BY <1>3, <1>7, <1>8, <1>9 DEF c

-----------------------------------------------------------------------------
(* What the events make of the pane *)

\* A pane that is in order, and shows the cursors that are not where they were.
MovesTo(p) ==
  /\ Placed(p) /\ Settled(p)
  /\ p.cursor # pane.cursor => PhysicalShown(p)
  /\ p.vcursor # pane.vcursor => VirtualShown(p)

\* A pane like this one but for what is shown, and for the subview.
LEMMA SameWindows ==
  ASSUME PaneInv, NEW p \in PaneType,
         p.columns = pane.columns, p.window = pane.window, p.range = pane.range,
         p.cursor = pane.cursor, p.vstart = pane.vstart, p.vcursor = pane.vcursor
  PROVE  MovesTo(p)
BY DEF PaneInv, MovesTo, Placed, Settled

LEMMA CursorMoves ==
  ASSUME PaneInv, NEW a \in Nat, Region(a) # None,
         NEW subview \in {"PhysicalMemory", "VirtualMemory", "Disassembly"}
  PROVE  MovesTo(CursorVisible([pane EXCEPT !.cursor = a, !.subview = subview]))
<1> DEFINE p == [pane EXCEPT !.cursor = a, !.subview = subview]
<1>1. Placed(pane) /\ Settled(pane) /\ pane \in PaneType
  BY DEF PaneInv, Placed
<1>2. /\ p \in PaneType /\ p.columns = pane.columns /\ p.window = pane.window
      /\ p.range = pane.range /\ p.vstart = pane.vstart /\ p.vcursor = pane.vcursor
      /\ p.cursor = a
  BY <1>1 DEF PaneType
<1> HIDE DEF p
<1>3. Placed(p) /\ Settled(p)
  BY <1>1, <1>2 DEF Placed, Settled
<1>4. PICK start \in Int : /\ CursorVisible(p) = [p EXCEPT !.range = Window(start, p.window)]
                           /\ start % p.columns = 0
  BY <1>3, CursorVisibleFacts
<1>5. Placed(CursorVisible(p)) /\ PhysicalShown(CursorVisible(p))
  BY <1>3, CursorVisibleFacts
<1>6. Settled(CursorVisible(p)) /\ CursorVisible(p).vcursor = pane.vcursor
  BY <1>2, <1>3, <1>4 DEF Settled, PaneType, Window
<1> QED BY <1>5, <1>6 DEF MovesTo, p

LEMMA VirtualMoves ==
  ASSUME PaneInv, NEW a \in 0 .. AddressMax, NEW p \in PaneType,
         p.columns = pane.columns, p.window = pane.window, p.range = pane.range,
         p.cursor = pane.cursor, p.vstart = pane.vstart, p.vcursor = a
  PROVE  MovesTo(VirtualVisible(p))
<1>1. Placed(pane) /\ Settled(pane)
  BY DEF PaneInv
<1>2. Placed(p) /\ Settled(p)
  BY <1>1, PaneAssumption DEF Placed, Settled
<1>3. PICK start \in Int : /\ VirtualVisible(p) = [p EXCEPT !.vstart = start]
                           /\ start % p.columns = 0
  BY <1>2, VirtualVisibleFacts
<1>4. Placed(VirtualVisible(p)) /\ VirtualShown(VirtualVisible(p))
  BY <1>2, VirtualVisibleFacts DEF Settled
<1>5. Settled(VirtualVisible(p)) /\ VirtualVisible(p).cursor = pane.cursor
  BY <1>2, <1>3 DEF Settled, PaneType
<1> QED BY <1>4, <1>5 DEF MovesTo

LEMMA VirtualAtMoves ==
  ASSUME PaneInv, NEW pc \in 0 .. AddressMax, NEW p \in PaneType,
         p.columns = pane.columns, p.window = pane.window, p.range = pane.range,
         p.cursor = pane.cursor, p.vstart = pane.vstart
  PROVE  MovesTo(VirtualAt(p, pc))
<1> DEFINE q == [p EXCEPT !.vcursor = pc, !.vinit = TRUE]
<1>1. AddressMax \in Nat
  BY PaneAssumption
<1>2. /\ q \in PaneType /\ q.columns = pane.columns /\ q.window = pane.window
      /\ q.range = pane.range /\ q.cursor = pane.cursor /\ q.vstart = pane.vstart
      /\ q.vcursor = pc
  <2>1. pc \in Nat
    BY <1>1
  <2> QED BY <2>1 DEF PaneType
<1> HIDE DEF q
<1>3. MovesTo(VirtualVisible(q))
  BY <1>2, VirtualMoves
<1> QED BY <1>3 DEF VirtualAt, q

\* A motion stays in the space.
LEMMA MovedFacts ==
  ASSUME NEW motion, motion.count \in Nat, NEW columns \in Nat, NEW current \in Nat,
         NEW maximum \in Nat
  PROVE  Moved(motion, columns, current, maximum) \in 0 .. maximum
<1>1. Step(motion, columns) \in Nat
  BY PaneAssumption DEF Step
<1> DEFINE distance == Step(motion, columns) * motion.count
<1>2. distance \in Nat
  BY <1>1
<1> HIDE DEF distance
<1>3. RoundDown(current, Item) + Item - 1 \in Nat
  <2>1. Item \in Nat \ {0} /\ current \in Int
    BY PaneAssumption
  <2>2. RoundDown(current, Item) \in Int /\ current < RoundDown(current, Item) + Item
    BY <2>1, RowBegin
  <2> QED BY <2>1, <2>2
<1> DEFINE to == CASE motion.to = "Top" -> 0
                   [] motion.to = "Bottom" -> maximum
                   [] motion.to \in {"Left", "Up"} -> Difference(current, distance)
                   [] motion.to = "EndItem" -> RoundDown(current, Item) + Item - 1
                   [] OTHER -> current + distance
<1>4. to \in Nat
  BY <1>2, <1>3 DEF Difference
<1> HIDE DEF to
<1>5. Moved(motion, columns, current, maximum) = Least(maximum, to)
  BY DEF Moved, to, distance
<1> QED BY <1>4, <1>5 DEF Least

LEMMA NavigateMoves ==
  ASSUME PaneInv, NEW motion \in Motions
  PROVE  /\ MovesTo(NavPhysical(pane, motion))
         /\ MovesTo(NavVirtual(pane, motion))
         /\ MovesTo(NavDisassembly(pane, motion))
<1>1. pane \in PaneType /\ Placed(pane)
  BY DEF PaneInv, Placed
<1>2. pane.columns \in Nat /\ pane.cursor \in Int /\ pane.vcursor \in Nat
  BY <1>1 DEF PaneType
<1>3. motion.count \in Nat
  BY PaneAssumption DEF Motions
<1>4. MovesTo(NavPhysical(pane, motion))
  <2> DEFINE offset == Moved(motion, pane.columns, LinearOffset(pane.cursor), MapSize - 1)
  <2>1. MapSize - 1 \in Nat /\ LinearOffset(pane.cursor) \in Nat
    BY <1>2, MapSizeFacts, LinearOffsetFacts
  <2>2. offset \in 0 .. (MapSize - 1)
    BY <1>2, <1>3, <2>1, MovedFacts
  <2> HIDE DEF offset
  <2>3. AddressAt(offset) \in Nat /\ Region(AddressAt(offset)) # None
    BY <2>2, AddressMapped
  <2> DEFINE a == AddressAt(offset)
  <2> HIDE DEF a
  <2>4. [pane EXCEPT !.cursor = a] = [pane EXCEPT !.cursor = a, !.subview = pane.subview]
    BY <1>1 DEF PaneType
  <2>5. pane.subview \in {"PhysicalMemory", "VirtualMemory", "Disassembly"}
    BY <1>1 DEF PaneType
  <2>6. MovesTo(CursorVisible([pane EXCEPT !.cursor = a]))
    BY <2>3, <2>4, <2>5, CursorMoves DEF a
  <2> QED BY <2>6 DEF NavPhysical, a, offset
<1>5. MovesTo(NavVirtual(pane, motion))
  <2> DEFINE a == Moved(Truncated(motion), pane.columns, pane.vcursor, AddressMax)
             p == [pane EXCEPT !.vinit = TRUE, !.vcursor = a]
  <2>1. AddressMax \in Nat
    BY PaneAssumption
  <2>2. a \in 0 .. AddressMax
    <3>1. Truncated(motion).count \in Nat
      BY <1>3, <2>1 DEF Truncated, Motions
    <3> QED BY <1>2, <2>1, <3>1, MovedFacts
  <2> HIDE DEF a
  <2>3. a \in Nat
    BY <2>1, <2>2
  <2>4. /\ p \in PaneType /\ p.columns = pane.columns /\ p.window = pane.window
        /\ p.range = pane.range /\ p.cursor = pane.cursor /\ p.vstart = pane.vstart
        /\ p.vcursor = a
    BY <1>1, <2>3 DEF PaneType
  <2> HIDE DEF p
  <2>5. MovesTo(VirtualVisible(p))
    BY <2>2, <2>4, VirtualMoves
  <2> QED BY <2>5 DEF NavVirtual, a, p
<1>6. MovesTo(NavDisassembly(pane, motion))
  <2> DEFINE current == IF pane.disassembly # None THEN pane.disassembly
                        ELSE IF pane.execution # None THEN pane.execution ELSE 0
             step == IF motion.to \in {"Left", "Right"} THEN 1 ELSE Item
             distance == (step * motion.count) % (AddressMax + 1)
             address == CASE motion.to = "Top" -> 0
                          [] motion.to = "Bottom" -> AddressMax - DisassemblyTail
                          [] motion.to \in {"Left", "Up"} -> Difference(current, distance)
                          [] OTHER -> Least(current + distance, AddressMax)
             p == [pane EXCEPT !.disassembly = RoundDown(address, Item)]
  <2>1. current \in Int
    <3>1. pane.disassembly \in Int \cup {None} /\ pane.execution \in Pcs \cup {None}
      BY <1>1 DEF PaneType
    <3>2. Pcs \subseteq Int
      BY PaneAssumption
    <3>3. pane.disassembly # None => pane.disassembly \in Int
      BY <3>1
    <3>4. pane.execution # None => pane.execution \in Int
      BY <3>1, <3>2
    <3> QED BY <3>3, <3>4
  <2>2. distance \in Int
    <3>1. motion.count \in Nat /\ step \in Nat /\ AddressMax + 1 \in Nat \ {0}
      BY PaneAssumption DEF Motions
    <3> HIDE DEF step
    <3>2. step * motion.count \in Nat
      BY <3>1
    <3> DEFINE n == step * motion.count
               m == AddressMax + 1
    <3>3. n \in Nat /\ m \in Nat \ {0} /\ distance = n % m
      BY <3>1, <3>2
    <3> HIDE DEF n, m, distance
    <3> QED BY <3>3
  <2> HIDE DEF current, distance
  <2>3. address \in Int
    BY <2>1, <2>2, PaneAssumption DEF Difference, Least
  <2> HIDE DEF address
  <2>4. RoundDown(address, Item) \in Int
    <3>1. Item \in Nat \ {0}
      BY PaneAssumption
    <3> QED BY <2>3, <3>1, RowBegin
  <2>5. /\ p \in PaneType /\ p.columns = pane.columns /\ p.window = pane.window
        /\ p.range = pane.range /\ p.cursor = pane.cursor /\ p.vstart = pane.vstart
        /\ p.vcursor = pane.vcursor
    BY <1>1, <2>4 DEF PaneType
  <2> HIDE DEF p
  <2>6. MovesTo(p)
    BY <2>5, SameWindows
  <2> QED BY <2>6 DEF NavDisassembly, p, address, distance, current
<1> QED BY <1>4, <1>5, <1>6

\* Of the requests, only those of searches name what is found.
LEMMA WantedKind ==
  ASSUME NEW p \in PaneType
  PROVE  /\ Wanted(p).kind \in {"LiveMemory", "VirtualMemory", "Execution"}
         /\ Wanted(p).kind = "Execution" =>
              p.subview = "Disassembly" \/ (p.subview = "VirtualMemory" /\ ~p.vinit)
<1>1. /\ p.subview \in {"PhysicalMemory", "VirtualMemory", "Disassembly"}
      /\ p.vinit \in BOOLEAN
  BY DEF PaneType
<1>2. CASE p.subview = "PhysicalMemory"
  BY <1>2 DEF Wanted, Physical
<1>3. CASE p.subview = "VirtualMemory" /\ p.vinit
  BY <1>3 DEF Wanted, Virtual
<1>4. CASE p.subview = "VirtualMemory" /\ ~p.vinit
  BY <1>4 DEF Wanted, Execution
<1>5. CASE p.subview = "Disassembly"
  BY <1>5 DEF Wanted, Execution
<1> QED BY <1>1, <1>2, <1>3, <1>4, <1>5

\* What is sent is pending, or lost; nothing else becomes pending.
LEMMA SendFacts ==
  ASSUME NEW requests, NEW known, Send(requests, known)
  PROVE  /\ requests \subseteq pending' \cup lost'
         /\ pending' \subseteq known \cup requests
         /\ known \subseteq pending'
         /\ lost \ requests \subseteq lost'
BY DEF Send

\* An event that makes the pane refresh, or leaves it inactive.
LEMMA HandleKeeps ==
  ASSUME PaneInv, NEW p, MovesTo(p), NEW refresh, Handle(p, refresh),
         refresh \/ ~p.active
  PROVE  PaneInv' /\ MovesTo(pane')
<1>1. pane' = p /\ p \in PaneType
  BY DEF Handle, MovesTo, Placed
<1>2. Wanted(p).kind # "SearchMemory"
  BY <1>1, WantedKind
<1>3. Send(IF refresh THEN {Wanted(p)} ELSE {}, pending)
  BY DEF Handle
<1>4. pending' \subseteq pending \cup {Wanted(p)}
  BY <1>3, SendFacts
<1>5. FindsMapped(pending')
  BY <1>2, <1>4 DEF PaneInv, FindsMapped
<1>6. ShownBytesCurrent'
  <2>1. CASE refresh
    <3>1. Wanted(p) \in pending' \cup lost'
      BY <1>3, <2>1, SendFacts
    <3> QED BY <1>1, <3>1 DEF ShownBytesCurrent
  <2>2. CASE ~p.active
    BY <1>1, <2>2 DEF ShownBytesCurrent
  <2> QED BY <2>1, <2>2
<1> QED BY <1>1, <1>5, <1>6 DEF PaneInv, MovesTo

LEMMA UserEventsKeep ==
  ASSUME PaneInv, SelectView \/ Refresh \/ SelectSubview \/ Navigate \/ Goto
  PROVE  PaneInv' /\ MovesTo(pane')
<1>1. pane \in PaneType /\ Placed(pane)
  BY DEF PaneInv, Placed
<1>2. CASE SelectView
  <2> DEFINE p == [pane EXCEPT !.active = ~pane.active]
  <2>1. /\ p \in PaneType /\ p.columns = pane.columns /\ p.window = pane.window
        /\ p.range = pane.range /\ p.cursor = pane.cursor /\ p.vstart = pane.vstart
        /\ p.vcursor = pane.vcursor /\ p.active = ~pane.active
    BY <1>1 DEF PaneType
  <2>2. Handle(p, ~pane.active)
    BY <1>2 DEF SelectView
  <2> HIDE DEF p
  <2>3. MovesTo(p)
    BY <2>1, SameWindows
  <2> QED BY <2>1, <2>2, <2>3, HandleKeeps
<1>3. CASE Refresh
  <2>1. MovesTo(pane)
    BY <1>1, SameWindows
  <2> QED BY <1>3, <2>1, HandleKeeps DEF Refresh
<1>4. CASE SelectSubview
  <2>1. PICK subview \in {"PhysicalMemory", "VirtualMemory", "Disassembly"} :
          LET p == [pane EXCEPT !.subview = subview]
              entered == IF subview = "VirtualMemory" /\ ~p.vinit /\ p.execution # None
                           THEN VirtualAt(p, p.execution) ELSE p
          IN  Handle(entered, pane.active)
    BY <1>4 DEF SelectSubview
  <2> DEFINE p == [pane EXCEPT !.subview = subview]
             entered == IF subview = "VirtualMemory" /\ ~p.vinit /\ p.execution # None
                          THEN VirtualAt(p, p.execution) ELSE p
  <2>2. Handle(entered, pane.active)
    BY <2>1
  <2>3. /\ p \in PaneType /\ p.columns = pane.columns /\ p.window = pane.window
        /\ p.range = pane.range /\ p.cursor = pane.cursor /\ p.vstart = pane.vstart
        /\ p.vcursor = pane.vcursor /\ p.active = pane.active
    BY <1>1 DEF PaneType
  <2> HIDE DEF p
  <2>4. CASE subview = "VirtualMemory" /\ ~p.vinit /\ p.execution # None
    <3>1. p.execution \in 0 .. AddressMax
      BY <2>3, <2>4, PaneAssumption DEF PaneType
    <3>2. MovesTo(VirtualAt(p, p.execution))
      BY <2>3, <3>1, VirtualAtMoves
    <3>3. VirtualAt(p, p.execution).active = pane.active
      BY <2>3 DEF VirtualAt, VirtualVisible, PaneType
    <3>4. Handle(VirtualAt(p, p.execution), pane.active)
      BY <2>2, <2>4
    <3> QED BY <3>2, <3>3, <3>4, HandleKeeps
  <2>5. CASE ~(subview = "VirtualMemory" /\ ~p.vinit /\ p.execution # None)
    <3>1. MovesTo(p)
      BY <2>3, SameWindows
    <3>2. Handle(p, pane.active)
      BY <2>2, <2>5
    <3> QED BY <2>3, <3>1, <3>2, HandleKeeps
  <2> QED BY <2>4, <2>5
<1>5. CASE Navigate
  <2>1. PICK motion \in Motions :
          Handle(CASE pane.subview = "PhysicalMemory" -> NavPhysical(pane, motion)
                   [] pane.subview = "VirtualMemory" -> NavVirtual(pane, motion)
                   [] pane.subview = "Disassembly" -> NavDisassembly(pane, motion),
                 TRUE)
    BY <1>5 DEF Navigate
  <2>2. pane.subview \in {"PhysicalMemory", "VirtualMemory", "Disassembly"}
    BY <1>1 DEF PaneType
  <2>3. \E p \in {NavPhysical(pane, motion), NavVirtual(pane, motion),
                  NavDisassembly(pane, motion)} : Handle(p, TRUE)
    BY <2>1, <2>2
  <2>4. PICK p : MovesTo(p) /\ Handle(p, TRUE)
    BY <2>3, NavigateMoves
  <2> QED BY <2>4, HandleKeeps
<1>6. CASE Goto
  <2>1. PICK address \in Targets :
          CASE pane.subview = "PhysicalMemory" ->
                 /\ Region(address) # None
                 /\ Handle(CursorVisible([pane EXCEPT !.cursor = address]), TRUE)
            [] pane.subview = "VirtualMemory" ->
                 /\ address <= AddressMax
                 /\ Handle(VirtualAt(pane, address), TRUE)
            [] pane.subview = "Disassembly" ->
                 /\ address <= AddressMax
                 /\ Handle([pane EXCEPT !.disassembly = RoundDown(address, Item)], TRUE)
    BY <1>6 DEF Goto
  <2>2. /\ pane.subview \in {"PhysicalMemory", "VirtualMemory", "Disassembly"}
        /\ address \in Nat
    BY <1>1, PaneAssumption DEF PaneType
  <2>3. CASE pane.subview = "PhysicalMemory"
    <3>1. /\ Region(address) # None
          /\ Handle(CursorVisible([pane EXCEPT !.cursor = address]), TRUE)
      BY <2>1, <2>3
    <3>2. [pane EXCEPT !.cursor = address]
            = [pane EXCEPT !.cursor = address, !.subview = pane.subview]
      BY <1>1 DEF PaneType
    <3>3. MovesTo(CursorVisible([pane EXCEPT !.cursor = address]))
      BY <2>2, <3>1, <3>2, CursorMoves
    <3> QED BY <3>1, <3>3, HandleKeeps
  <2>4. CASE pane.subview = "VirtualMemory"
    <3>0. address <= AddressMax /\ Handle(VirtualAt(pane, address), TRUE)
      BY <2>1, <2>4
    <3>1. address \in 0 .. AddressMax
      BY <2>2, <3>0, PaneAssumption
    <3>2. MovesTo(VirtualAt(pane, address))
      BY <1>1, <3>1, VirtualAtMoves
    <3> QED BY <3>0, <3>2, HandleKeeps
  <2>5. CASE pane.subview = "Disassembly"
    <3> DEFINE p == [pane EXCEPT !.disassembly = RoundDown(address, Item)]
    <3>1. Handle(p, TRUE)
      BY <2>1, <2>5
    <3>2. RoundDown(address, Item) \in Int
      <4>1. Item \in Nat \ {0} /\ address \in Int
        BY <2>2, PaneAssumption
      <4> QED BY <4>1, RowBegin
    <3>3. /\ p \in PaneType /\ p.columns = pane.columns /\ p.window = pane.window
          /\ p.range = pane.range /\ p.cursor = pane.cursor /\ p.vstart = pane.vstart
          /\ p.vcursor = pane.vcursor
      BY <1>1, <3>2 DEF PaneType
    <3> HIDE DEF p
    <3> QED BY <3>1, <3>3, SameWindows, HandleKeeps
  <2> QED BY <2>2, <2>3, <2>4, <2>5
<1> QED BY <1>2, <1>3, <1>4, <1>5, <1>6

LEMMA SearchKeeps ==
  ASSUME PaneInv, RequestSearch PROVE PaneInv' /\ MovesTo(pane')
<1>1. PICK address \in {a \in Targets : Contains(Last, a)} \cup {None} :
        Send({Search(address)}, pending) /\ pane' = pane
  BY DEF RequestSearch
<1>2. pane \in PaneType
  BY DEF PaneInv, Placed
<1>3. MovesTo(pane)
  BY <1>2, SameWindows
<1>4. address = None \/ (address \in Nat /\ Region(address) # None)
  <2> SUFFICES ASSUME address # None PROVE address \in Nat /\ Region(address) # None
    OBVIOUS
  <2>1. address \in Nat /\ Contains(Regions[Len(Regions)], address)
    BY <1>1, PaneAssumption DEF Last
  <2>2. Len(Regions) \in 1 .. Len(Regions) /\ address \in Int
    BY <2>1, RegionsFacts
  <2> QED BY <2>1, <2>2, InRegion
<1>5. pending' \subseteq pending \cup {Search(address)}
  BY <1>1, SendFacts
<1>6. FindsMapped(pending')
  BY <1>4, <1>5 DEF PaneInv, FindsMapped, Search
<1>7. Wanted(pane) # Search(address)
  BY <1>2, WantedKind DEF Search
<1>8. Wanted(pane) \in pending \cup lost => Wanted(pane) \in pending' \cup lost'
  BY <1>1, <1>7, SendFacts
<1>9. ShownBytesCurrent'
  BY <1>1, <1>8 DEF PaneInv, ShownBytesCurrent
<1> QED BY <1>1, <1>3, <1>6, <1>9 DEF PaneInv, MovesTo

\* Another size: the windows begin with a row of the new size.
LEMMA ResizeKeeps ==
  ASSUME PaneInv, Resize PROVE PaneInv' /\ MovesTo(pane')
<1>1. PICK g \in Geometries :
        LET sized == [pane EXCEPT !.columns = g.columns, !.window = g.window]
        IN  pane' = [VirtualVisible(CursorVisible(sized)) EXCEPT
                       !.bytes = None, !.vbytes = None, !.dirty = TRUE, !.vdirty = TRUE]
  BY DEF Resize
<1> DEFINE sized == [pane EXCEPT !.columns = g.columns, !.window = g.window]
           shown == CursorVisible(sized)
           both == VirtualVisible(shown)
<1>2. pane \in PaneType /\ Placed(pane)
  BY DEF PaneInv, Placed
<1>3. /\ g \in [columns : Nat \ {0}, window : Nat \ {0}]
      /\ g.columns \in Nat \ {0} /\ g.window \in Nat \ {0}
  BY PaneAssumption
<1>4. /\ sized \in PaneType /\ sized.columns = g.columns /\ sized.window = g.window
      /\ sized.cursor = pane.cursor /\ sized.vcursor = pane.vcursor
  BY <1>2, <1>3 DEF PaneType
<1>5. pane' = [both EXCEPT !.bytes = None, !.vbytes = None, !.dirty = TRUE, !.vdirty = TRUE]
  BY <1>1
<1> HIDE DEF sized
<1>6. [columns |-> sized.columns, window |-> sized.window] = g
  BY <1>3, <1>4
<1>7. Placed(sized)
  BY <1>2, <1>4, <1>6 DEF Placed
<1>8. PICK start \in Int : /\ shown = [sized EXCEPT !.range = Window(start, sized.window)]
                           /\ start % sized.columns = 0
  BY <1>7, CursorVisibleFacts
<1>9. Placed(shown)
  BY <1>7, CursorVisibleFacts
<1>10. /\ shown.columns = g.columns /\ shown.window = g.window
       /\ shown.range = Window(start, g.window) /\ start % g.columns = 0
       /\ shown.cursor = pane.cursor /\ shown.vcursor = pane.vcursor
  BY <1>4, <1>8 DEF PaneType
<1> HIDE DEF shown
<1>11. PICK vstart \in Int : /\ both = [shown EXCEPT !.vstart = vstart]
                             /\ vstart % shown.columns = 0
  BY <1>9, VirtualVisibleFacts
<1>12. Placed(both) /\ both \in PaneType /\ shown \in PaneType
  BY <1>9, VirtualVisibleFacts DEF Placed
<1>13. /\ both.columns = g.columns /\ both.window = g.window
       /\ both.range = Window(start, g.window) /\ both.vstart = vstart
       /\ both.cursor = pane.cursor /\ both.vcursor = pane.vcursor
  BY <1>10, <1>11, <1>12 DEF PaneType
<1> HIDE DEF both
<1>14. /\ pane' \in PaneType /\ pane'.columns = g.columns /\ pane'.window = g.window
       /\ pane'.range = Window(start, g.window) /\ pane'.vstart = vstart
       /\ pane'.cursor = pane.cursor /\ pane'.vcursor = pane.vcursor
       /\ pane'.dirty /\ pane'.vdirty
  BY <1>5, <1>12, <1>13 DEF PaneType
<1>15. Placed(pane')
  BY <1>12, <1>13, <1>14 DEF Placed
<1>16. Settled(pane')
  BY <1>10, <1>11, <1>14 DEF Settled, Window
<1>17. ShownBytesCurrent'
  BY <1>14 DEF ShownBytesCurrent
<1>18. FindsMapped(pending')
  BY DEF PaneInv, Resize
<1> QED BY <1>14, <1>15, <1>16, <1>17, <1>18 DEF PaneInv, MovesTo

LEMMA PulseKeeps ==
  ASSUME PaneInv, Pulse PROVE PaneInv' /\ MovesTo(pane')
<1>1. pane \in PaneType
  BY DEF PaneInv, Placed
<1>2. /\ pane' \in PaneType /\ pane'.columns = pane.columns /\ pane'.window = pane.window
      /\ pane'.range = pane.range /\ pane'.cursor = pane.cursor
      /\ pane'.vstart = pane.vstart /\ pane'.vcursor = pane.vcursor
      /\ pane'.subview = pane.subview /\ pane'.vinit = pane.vinit
      /\ pane'.disassembly = pane.disassembly
  BY <1>1 DEF Pulse, PaneType
<1>3. MovesTo(pane')
  BY <1>2, SameWindows
<1>4. Wanted(pane') = Wanted(pane)
  BY <1>2 DEF Wanted
<1>5. Send({Wanted(pane)}, pending)
  BY DEF Pulse
<1>6. Wanted(pane)' \in pending' \cup lost' /\ pending' \subseteq pending \cup {Wanted(pane)}
  BY <1>4, <1>5, SendFacts
<1>7. FindsMapped(pending')
  BY <1>1, <1>6, WantedKind DEF PaneInv, FindsMapped
<1>8. ShownBytesCurrent'
  BY <1>6 DEF ShownBytesCurrent
<1> QED BY <1>3, <1>7, <1>8 DEF PaneInv, MovesTo

\* Bytes are shown when they are those of the window as it is then.
LEMMA BytesKeep ==
  ASSUME PaneInv, AnswerPhysical \/ AnswerVirtual PROVE PaneInv' /\ MovesTo(pane')
<1>1. PICK request \in pending :
        /\ pending' = pending \ {request} /\ lost' = lost
        /\ \/ /\ request.kind = "LiveMemory"
              /\ pane' = IF request.window = pane.range
                           THEN [pane EXCEPT !.bytes = request.window, !.dirty = FALSE]
                           ELSE pane
           \/ /\ request.kind = "VirtualMemory"
              /\ pane' = IF request.window = Window(pane.vstart, pane.window)
                           THEN [pane EXCEPT !.vbytes = request.window, !.vdirty = FALSE]
                           ELSE pane
  BY DEF AnswerPhysical, AnswerVirtual, Answered, Settle
<1>2. pane \in PaneType
  BY DEF PaneInv, Placed
<1>3. pane.range \in Windows /\ Window(pane.vstart, pane.window) \in Windows
  BY <1>2 DEF PaneType, Windows, Window
<1>4. /\ pane' \in PaneType /\ pane'.columns = pane.columns /\ pane'.window = pane.window
      /\ pane'.range = pane.range /\ pane'.cursor = pane.cursor
      /\ pane'.vstart = pane.vstart /\ pane'.vcursor = pane.vcursor
      /\ pane'.subview = pane.subview /\ pane'.vinit = pane.vinit
      /\ pane'.disassembly = pane.disassembly /\ pane'.active = pane.active
  <2>1. \/ pane' = pane
        \/ pane' = [pane EXCEPT !.bytes = pane.range, !.dirty = FALSE]
        \/ pane' = [pane EXCEPT !.vbytes = Window(pane.vstart, pane.window),
                               !.vdirty = FALSE]
    BY <1>1
  <2>2. CASE pane' = pane
    BY <1>2, <2>2
  <2>3. CASE pane' = [pane EXCEPT !.bytes = pane.range, !.dirty = FALSE]
    BY <1>2, <1>3, <2>3 DEF PaneType
  <2>4. CASE pane' = [pane EXCEPT !.vbytes = Window(pane.vstart, pane.window),
                                  !.vdirty = FALSE]
    BY <1>2, <1>3, <2>4 DEF PaneType
  <2> QED BY <2>1, <2>2, <2>3, <2>4
<1>5. MovesTo(pane')
  BY <1>4, SameWindows
<1>6. FindsMapped(pending')
  BY <1>1 DEF PaneInv, FindsMapped
<1>7. Wanted(pane') = Wanted(pane)
  BY <1>4 DEF Wanted
<1>8. ASSUME pane.active, Wanted(pane) \notin pending' \cup lost',
             pane.subview = "PhysicalMemory", ~pane'.dirty
      PROVE  pane'.bytes = pane.range
  <2>1. Wanted(pane) = Physical(pane.range)
    BY <1>8 DEF Wanted
  <2>2. CASE request.kind = "LiveMemory" /\ request.window = pane.range
    BY <1>1, <1>2, <2>2 DEF PaneType
  <2>3. CASE ~(request.kind = "LiveMemory" /\ request.window = pane.range)
    <3>1. Wanted(pane) # request
      BY <2>1, <2>3 DEF Physical
    <3>2. Wanted(pane) \notin pending \cup lost
      BY <1>1, <1>8, <3>1
    <3>3. pane'.bytes = pane.bytes /\ pane'.dirty = pane.dirty
      BY <1>1, <1>2, <2>3 DEF PaneType
    <3> QED BY <1>8, <3>2, <3>3 DEF PaneInv, ShownBytesCurrent
  <2> QED BY <2>2, <2>3
<1>9. ASSUME pane.active, Wanted(pane) \notin pending' \cup lost',
             pane.subview = "VirtualMemory", pane.vinit, ~pane'.vdirty
      PROVE  pane'.vbytes = Window(pane.vstart, pane.window)
  <2>1. Wanted(pane) = Virtual(pane.vstart, pane.window)
    BY <1>9 DEF Wanted
  <2>2. CASE request.kind = "VirtualMemory"
             /\ request.window = Window(pane.vstart, pane.window)
    BY <1>1, <1>2, <2>2 DEF PaneType
  <2>3. CASE ~(request.kind = "VirtualMemory"
               /\ request.window = Window(pane.vstart, pane.window))
    <3>1. Wanted(pane) # request
      BY <2>1, <2>3 DEF Virtual
    <3>2. Wanted(pane) \notin pending \cup lost
      BY <1>1, <1>9, <3>1
    <3>3. pane'.vbytes = pane.vbytes /\ pane'.vdirty = pane.vdirty
      BY <1>1, <1>2, <2>3 DEF PaneType
    <3> QED BY <1>9, <3>2, <3>3 DEF PaneInv, ShownBytesCurrent
  <2> QED BY <2>2, <2>3
<1>10. ShownBytesCurrent'
  BY <1>4, <1>7, <1>8, <1>9 DEF ShownBytesCurrent
<1> QED BY <1>5, <1>6, <1>10 DEF PaneInv, MovesTo

\* The first execution opens the virtual window, and its bytes are requested.
LEMMA ExecutionKeeps ==
  ASSUME PaneInv, AnswerExecution PROVE PaneInv' /\ MovesTo(pane')
<1>1. PICK request \in {r \in pending : r.kind = "Execution"}, pc \in Pcs :
        LET p == [pane EXCEPT !.execution = pc]
            opens == p.subview = "VirtualMemory" /\ ~p.vinit
            next == IF opens THEN VirtualAt(p, pc) ELSE p
        IN  /\ Answered(request, next)
            /\ Send(IF opens THEN {Wanted(next)} ELSE {}, pending \ {request})
  BY DEF AnswerExecution
<1> DEFINE p == [pane EXCEPT !.execution = pc]
           opens == p.subview = "VirtualMemory" /\ ~p.vinit
<1>2. /\ opens => /\ pane' = VirtualAt(p, pc)
                  /\ Send({Wanted(pane')}, pending \ {request})
      /\ ~opens => pane' = p /\ Send({}, pending \ {request})
  BY <1>1 DEF Answered
<1>3. pane \in PaneType
  BY DEF PaneInv, Placed
<1>4. /\ p \in PaneType /\ p.columns = pane.columns /\ p.window = pane.window
      /\ p.range = pane.range /\ p.cursor = pane.cursor
      /\ p.vstart = pane.vstart /\ p.vcursor = pane.vcursor
      /\ p.subview = pane.subview /\ p.vinit = pane.vinit
      /\ p.disassembly = pane.disassembly /\ p.active = pane.active
      /\ p.bytes = pane.bytes /\ p.vbytes = pane.vbytes
      /\ p.dirty = pane.dirty /\ p.vdirty = pane.vdirty
  BY <1>3 DEF PaneType
<1> HIDE DEF p
<1>5. CASE opens
  <2>1. pc \in 0 .. AddressMax
    BY PaneAssumption
  <2>2. MovesTo(pane')
    BY <1>2, <1>4, <1>5, <2>1, VirtualAtMoves
  <2>3. pane' \in PaneType
    BY <2>2 DEF MovesTo, Placed
  <2>4. Wanted(pane') \in pending' \cup lost'
        /\ pending' \subseteq (pending \ {request}) \cup {Wanted(pane')}
    BY <1>2, <1>5, SendFacts
  <2>5. FindsMapped(pending')
    BY <2>3, <2>4, WantedKind DEF PaneInv, FindsMapped
  <2>6. ShownBytesCurrent'
    BY <2>4 DEF ShownBytesCurrent
  <2> QED BY <2>2, <2>5, <2>6 DEF PaneInv, MovesTo
<1>6. CASE ~opens
  <2>1. pane' = p /\ MovesTo(pane')
    BY <1>2, <1>4, <1>6, SameWindows
  <2>2. /\ pending' \subseteq pending /\ pending \ {request} \subseteq pending'
        /\ lost \subseteq lost'
    BY <1>2, <1>6, SendFacts
  <2>3. FindsMapped(pending')
    BY <2>2 DEF PaneInv, FindsMapped
  <2>4. Wanted(p) = Wanted(pane)
    BY <1>4 DEF Wanted
  <2>5. ASSUME Wanted(pane) \notin pending' \cup lost',
               pane.subview = "PhysicalMemory" \/ (pane.subview = "VirtualMemory" /\ pane.vinit)
        PROVE  Wanted(pane) \notin pending \cup lost
    <3>1. Wanted(pane).kind # "Execution"
      BY <1>3, <2>5, WantedKind
    <3>2. Wanted(pane) # request
      BY <1>1, <3>1
    <3> QED BY <2>2, <2>5, <3>2
  <2>6. ShownBytesCurrent'
    BY <1>4, <2>1, <2>4, <2>5 DEF PaneInv, ShownBytesCurrent
  <2> QED BY <2>1, <2>3, <2>6 DEF PaneInv, MovesTo
<1> QED BY <1>5, <1>6

\* The match that was found is turned to, and requested by an active pane.
LEMMA FoundKeeps ==
  ASSUME PaneInv, AnswerSearch PROVE PaneInv' /\ MovesTo(pane')
<1>1. PICK request \in {r \in pending : r.kind = "SearchMemory"} :
        LET found == CursorVisible([pane EXCEPT !.cursor = request.address,
                                                !.subview = "PhysicalMemory"])
            next == IF request.address = None THEN pane ELSE found
        IN  /\ Answered(request, next)
            /\ Send(IF request.address # None /\ pane.active THEN {Wanted(next)} ELSE {},
                    pending \ {request})
  BY DEF AnswerSearch
<1> DEFINE moved == [pane EXCEPT !.cursor = request.address, !.subview = "PhysicalMemory"]
           found == CursorVisible(moved)
<1>2. pane \in PaneType
  BY DEF PaneInv, Placed
<1>3. CASE request.address = None
  <2>1. pane' = pane /\ Send({}, pending \ {request})
    BY <1>1, <1>3 DEF Answered
  <2>2. MovesTo(pane')
    BY <1>2, <2>1, SameWindows
  <2>3. /\ pending' \subseteq pending /\ pending \ {request} \subseteq pending'
        /\ lost \subseteq lost'
    BY <2>1, SendFacts
  <2>4. FindsMapped(pending')
    BY <2>3 DEF PaneInv, FindsMapped
  <2>5. Wanted(pane) # request
    BY <1>1, <1>2, WantedKind
  <2>6. ShownBytesCurrent'
    BY <2>1, <2>3, <2>5 DEF PaneInv, ShownBytesCurrent
  <2> QED BY <2>2, <2>4, <2>6 DEF PaneInv, MovesTo
<1>4. CASE request.address # None
  <2>1. /\ pane' = found
        /\ Send(IF pane.active THEN {Wanted(found)} ELSE {}, pending \ {request})
    BY <1>1, <1>4 DEF Answered
  <2>2. request.address \in Nat /\ Region(request.address) # None
    BY <1>4 DEF PaneInv, FindsMapped
  <2>3. MovesTo(found)
    BY <2>2, CursorMoves
  <2>4. found.active = pane.active
    BY <1>2, <2>2 DEF CursorVisible, PaneType
  <2> HIDE DEF found
  <2>5. found \in PaneType
    BY <2>3 DEF MovesTo, Placed
  <2>6. /\ pending' \subseteq pending \cup {Wanted(found)}
        /\ pane.active => Wanted(found) \in pending' \cup lost'
    BY <2>1, SendFacts
  <2>7. FindsMapped(pending')
    BY <2>5, <2>6, WantedKind DEF PaneInv, FindsMapped
  <2>8. ShownBytesCurrent'
    BY <2>1, <2>4, <2>6 DEF ShownBytesCurrent
  <2> QED BY <2>1, <2>3, <2>7, <2>8 DEF PaneInv, MovesTo
<1> QED BY <1>3, <1>4

LEMMA FailureKeeps ==
  ASSUME PaneInv, AnswerFails \/ UNCHANGED vars PROVE PaneInv' /\ MovesTo(pane')
<1>1. /\ pane' = pane /\ pending' \subseteq pending
      /\ pending \cup lost \subseteq pending' \cup lost'
  BY DEF AnswerFails, vars
<1>2. pane \in PaneType
  BY DEF PaneInv, Placed
<1>3. MovesTo(pane')
  BY <1>1, <1>2, SameWindows
<1>4. FindsMapped(pending')
  BY <1>1 DEF PaneInv, FindsMapped
<1>5. ShownBytesCurrent'
  BY <1>1 DEF PaneInv, ShownBytesCurrent
<1> QED BY <1>3, <1>4, <1>5 DEF PaneInv, MovesTo

LEMMA PaneStarts == Init => PaneInv
<1> SUFFICES ASSUME Init PROVE PaneInv
  OBVIOUS
<1> DEFINE g == FirstGeometry
<1>1. g \in Geometries /\ g.columns \in Nat \ {0} /\ g.window \in Nat \ {0}
      /\ g = [columns |-> g.columns, window |-> g.window]
  BY PaneAssumption
<1>2. Len(Regions) \in 1 .. Len(Regions) /\ Last = Regions[Len(Regions)]
  BY RegionsFacts DEF Last
<1>3. Last.base \in Nat /\ Last.size \in Nat \ {0} /\ Last.base % g.columns = 0
  BY <1>1, <1>2, RegionsFacts, PaneAssumption
<1>4. Region(Last.base) # None
  <2>1. Contains(Last, Last.base)
    BY <1>3 DEF Contains
  <2> QED BY <1>2, <1>3, <2>1, InRegion
<1>5. Window(Last.base, g.window) \in Windows
  BY <1>1, <1>3 DEF Window, Windows
<1>6. pane \in PaneType
  BY <1>1, <1>3, <1>5 DEF Init, PaneType
<1>7. 0 % g.columns = 0
  BY <1>1, MultipleOf, 0 = 0 * g.columns
<1>8. Placed(pane)
  BY <1>1, <1>4, <1>6, PaneAssumption DEF Init, Placed
<1>9. Settled(pane)
  BY <1>3, <1>7 DEF Init, Settled, Window
<1>10. FindsMapped(pending) /\ ShownBytesCurrent
  BY DEF Init, FindsMapped, ShownBytesCurrent
<1> QED BY <1>8, <1>9, <1>10 DEF PaneInv

LEMMA PaneStep ==
  PaneInv /\ [Next]_vars => PaneInv' /\ MovesTo(pane')
BY UserEventsKeep, SearchKeeps, ResizeKeeps, PulseKeeps, BytesKeep, ExecutionKeeps,
   FoundKeeps, FailureKeeps DEF Next

LEMMA PaneInductive == Spec => []PaneInv
<1>1. PaneInv /\ [Next]_vars => PaneInv'
  BY PaneStep
<1> QED BY <1>1, PaneStarts, PTL DEF Spec

\* The bytes under the addresses of the active pane are those of these addresses
\* once nothing is awaited for them: for every memory map and every set of sizes,
\* and however views, windows, sizes, answers and failures interleave (update).
THEOREM BytesAreCurrent == Spec => []ShownBytesCurrent
<1>1. PaneInv => ShownBytesCurrent
  BY DEF PaneInv
<1> QED BY <1>1, PaneInductive, PTL

\* Whatever moves a cursor leaves it visible, in a window of whole rows of its
\* region or of the address space, for every memory map, every set of sizes and
\* every count before a motion (ensure_cursor_visible,
\* ensure_virtual_cursor_visible, memory_address_at).
THEOREM MotionsShowCursor == Spec => MotionShowsCursor
<1>1. PaneInv /\ [Next]_vars =>
        [/\ pane'.cursor # pane.cursor => PhysicalShown(pane')
         /\ pane'.vcursor # pane.vcursor => VirtualShown(pane')]_vars
  BY PaneStep DEF MovesTo
<1> QED BY <1>1, PaneInductive, PTL DEF Spec, MotionShowsCursor

=============================================================================
