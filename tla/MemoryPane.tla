------------------------------ MODULE MemoryPane ------------------------------
(***************************************************************************)
(* The primary pane of the inspect view (tui/widgets/primary.rs): physical *)
(* memory, virtual memory and disassembly, each with a cursor or address,  *)
(* a window around it that follows the cursor and the size of the pane,    *)
(* and the bytes last received for it.                                     *)
(*                                                                         *)
(* Bytes are represented by the request they answer. The runtime answers   *)
(* requests, or fails them, in any order and any time later.               *)
(***************************************************************************)
EXTENDS Integers, Sequences, FiniteSets

CONSTANTS
  None,
  Regions,         \* the mapped physical regions, ascending: [base, size]
  AddressMax,      \* the last virtual address
  Item,            \* bytes of a word
  Geometries,      \* sizes of the pane: [columns, window]
  FirstGeometry,   \* the size assumed before the pane is drawn
  Counts,          \* counts typed before a motion
  Targets,         \* addresses the user goes to, and where patterns are found
  Pcs,             \* program counters of the inspected guest
  DisassemblyTail, \* bytes below the end where Bottom leads to
  MaxPending,      \* bound: requests in flight
  MaxEvents        \* bound: events

VARIABLES
  pane,      \* the PrimaryWidget
  pending,   \* requests sent and not answered
  lost,      \* history: requests refused or failed since they were last sent
  events     \* counter for the bound

vars == <<pane, pending, lost, events>>

Last == Regions[Len(Regions)]

\* Regions, rows and windows as update_memory_geometry and the memory map have them:
\* regions ascend, they and the address space are whole rows, and no window is empty
\* or larger than a region.
ASSUME PaneAssumption ==
  /\ None \notin Int /\ None \notin [base : Nat, size : Nat \ {0}]
  /\ AddressMax \in Nat /\ Item \in Nat \ {0}
  /\ Regions \in Seq([base : Nat, size : Nat \ {0}]) /\ Regions # <<>>
  /\ Geometries \subseteq [columns : Nat \ {0}, window : Nat \ {0}]
  /\ FirstGeometry \in Geometries
  /\ \A g \in Geometries :
       /\ g.window % g.columns = 0
       /\ (AddressMax + 1) % g.columns = 0 /\ g.window <= AddressMax
  /\ \A i \in DOMAIN Regions : \A g \in Geometries :
       /\ Regions[i].base % g.columns = 0 /\ Regions[i].size % g.columns = 0
       /\ g.window <= Regions[i].size
  /\ \A i \in 2 .. Len(Regions) :
       Regions[i - 1].base + Regions[i - 1].size <= Regions[i].base
  /\ Counts \subseteq Nat /\ Targets \subseteq Nat /\ Pcs \subseteq 0 .. AddressMax
  /\ DisassemblyTail \in 0 .. AddressMax

-----------------------------------------------------------------------------
(* The physical memory map, without its gaps *)

Contains(region, address) ==
  address >= region.base /\ address < region.base + region.size

\* memory_region
Region(address) ==
  IF \E i \in DOMAIN Regions : Contains(Regions[i], address)
    THEN CHOOSE r \in {Regions[i] : i \in DOMAIN Regions} : Contains(r, address)
    ELSE None

\* Where a region begins when the regions are put one after another.
LinearBase[i \in 1 .. (Len(Regions) + 1)] ==
  IF i = 1 THEN 0 ELSE LinearBase[i - 1] + Regions[i - 1].size

\* memory_map_size
MapSize == LinearBase[Len(Regions) + 1]

\* memory_linear_offset; an address in a gap counts as 0
LinearOffset(address) ==
  IF Region(address) = None THEN 0
  ELSE LET i == CHOOSE k \in DOMAIN Regions : Contains(Regions[k], address)
       IN  LinearBase[i] + (address - Regions[i].base)

\* memory_address_at
AddressAt(offset) ==
  IF offset >= MapSize THEN Last.base + Last.size - 1
  ELSE LET i == CHOOSE k \in DOMAIN Regions :
                  LinearBase[k] <= offset /\ offset < LinearBase[k + 1]
       IN  Regions[i].base + (offset - LinearBase[i])

-----------------------------------------------------------------------------
(* Windows *)

Least(a, b) == IF a < b THEN a ELSE b
Difference(a, b) == IF a > b THEN a - b ELSE 0     \* saturating_sub

RoundDown(n, step) == (n \div step) * step

Window(start, length) == [start |-> start, length |-> length]

InWindow(address, window) ==
  address >= window.start /\ address < window.start + window.length

\* Mutant: the window ends before the row of the cursor.
CursorVisibleShort(p) ==
  LET region == Region(p.cursor)
      length == Least(p.window, region.size)
      lastStart == region.base + region.size - length
      same == Region(p.range.start) = region
      start == IF same /\ InWindow(p.cursor, p.range) THEN Least(p.range.start, lastStart)
               ELSE IF p.cursor < p.range.start \/ ~same
                 THEN Least(p.cursor - ((p.cursor - region.base) % p.columns), lastStart)
               ELSE Least(Difference(p.cursor, length), lastStart)
  IN  [p EXCEPT !.range =
         Window(region.base + RoundDown(start - region.base, p.columns), length)]

\* ensure_cursor_visible. The last difference, start - base, is of 32 bits: below
\* zero it panics in a build that checks overflow; otherwise it wraps, and the sum
\* wraps back to the row below the region that is computed here.
CursorVisible(p) ==
  LET region == Region(p.cursor)
      length == Least(p.window, region.size)
      lastStart == region.base + region.size - length
      same == Region(p.range.start) = region
      start == IF same /\ InWindow(p.cursor, p.range) THEN Least(p.range.start, lastStart)
               ELSE IF p.cursor < p.range.start \/ ~same
                 THEN Least(p.cursor - ((p.cursor - region.base) % p.columns), lastStart)
               ELSE Least(Difference(p.cursor, length - p.columns), lastStart)
  IN  [p EXCEPT !.range =
         Window(region.base + RoundDown(start - region.base, p.columns), length)]

\* ensure_virtual_cursor_visible
VirtualVisible(p) ==
  LET lastStart == AddressMax - (p.window - 1)
      start == IF InWindow(p.vcursor, Window(p.vstart, p.window))
                 THEN Least(p.vstart, lastStart)
               ELSE IF p.vcursor < p.vstart
                 THEN Least(RoundDown(p.vcursor, p.columns), lastStart)
               ELSE Least(Difference(p.vcursor, p.window - p.columns), lastStart)
  IN  [p EXCEPT !.vstart = RoundDown(start, p.columns)]

\* initialize_virtual_memory
VirtualAt(p, pc) == VirtualVisible([p EXCEPT !.vcursor = pc, !.vinit = TRUE])

-----------------------------------------------------------------------------
(* Motions *)

Motions ==
  {[to |-> to, count |-> n] : to \in {"Left", "Right", "Up", "Down", "NextItem", "EndItem"},
                              n \in Counts}
    \cup {[to |-> to, count |-> 1] : to \in {"Top", "Bottom"}}

Step(motion, columns) ==
  CASE motion.to \in {"Left", "Right"} -> 1
    [] motion.to \in {"Up", "Down"} -> columns
    [] OTHER -> Item

\* Where a motion leads from `current` in a space that ends at `maximum`.
Moved(motion, columns, current, maximum) ==
  LET distance == Step(motion, columns) * motion.count
  IN  Least(maximum,
            CASE motion.to = "Top" -> 0
              [] motion.to = "Bottom" -> maximum
              [] motion.to \in {"Left", "Up"} -> Difference(current, distance)
              [] motion.to = "EndItem" -> RoundDown(current, Item) + Item - 1
              [] OTHER -> current + distance)

\* nav_physical_memory
NavPhysical(p, motion) ==
  CursorVisible([p EXCEPT !.cursor =
    AddressAt(Moved(motion, p.columns, LinearOffset(p.cursor), MapSize - 1))])

\* A count cast to the width of an address.
Truncated(motion) == [motion EXCEPT !.count = @ % (AddressMax + 1)]

\* nav_virtual_memory
NavVirtual(p, motion) ==
  VirtualVisible([p EXCEPT !.vinit = TRUE,
                           !.vcursor = Moved(Truncated(motion), p.columns, p.vcursor,
                                             AddressMax)])

\* nav_disassembly; here the product is not saturated
NavDisassembly(p, motion) ==
  LET current == IF p.disassembly # None THEN p.disassembly
                 ELSE IF p.execution # None THEN p.execution ELSE 0
      step == IF motion.to \in {"Left", "Right"} THEN 1 ELSE Item
      distance == (step * motion.count) % (AddressMax + 1)
      address == CASE motion.to = "Top" -> 0
                   [] motion.to = "Bottom" -> AddressMax - DisassemblyTail
                   [] motion.to \in {"Left", "Up"} -> Difference(current, distance)
                   [] OTHER -> Least(current + distance, AddressMax)
  IN  [p EXCEPT !.disassembly = RoundDown(address, Item)]

-----------------------------------------------------------------------------
(* Requests *)

Physical(range) == [kind |-> "LiveMemory", window |-> range]
Virtual(start, length) == [kind |-> "VirtualMemory", window |-> Window(start, length)]
Execution(address) == [kind |-> "Execution", address |-> address]
Search(address) == [kind |-> "SearchMemory", address |-> address]

\* inspection_request
Wanted(p) ==
  CASE p.subview = "PhysicalMemory" -> Physical(p.range)
    [] p.subview = "VirtualMemory" /\ p.vinit -> Virtual(p.vstart, p.window)
    [] p.subview = "VirtualMemory" /\ ~p.vinit -> Execution(None)
    [] p.subview = "Disassembly" -> Execution(p.disassembly)

\* RuntimeController::request for a set of at most one request: one that is pending
\* is not sent again, and the runtime may refuse one.
Send(requests, known) ==
  LET fresh == requests \ known
  IN  \/ /\ Cardinality(known \cup fresh) <= MaxPending
         /\ pending' = known \cup fresh /\ lost' = lost \ requests
      \/ fresh # {} /\ pending' = known /\ lost' = lost \cup fresh

\* An event that leaves the pane as p, and makes it refresh if `refresh`.
Handle(p, refresh) ==
  /\ events < MaxEvents /\ events' = events + 1
  /\ pane' = p
  /\ Send(IF refresh THEN {Wanted(p)} ELSE {}, pending)

\* A request that was answered, with nothing to ask next.
Settle(request) == pending' = pending \ {request} /\ UNCHANGED lost

-----------------------------------------------------------------------------
(* Events of the user *)

\* ViewChanged
SelectView ==
  Handle([pane EXCEPT !.active = ~pane.active], ~pane.active)

\* Refresh: the guest was stopped or reset.
Refresh == pane.active /\ Handle(pane, TRUE)

\* PrimarySelected, by Tab or by a command in any view
SelectSubview ==
  \E subview \in {"PhysicalMemory", "VirtualMemory", "Disassembly"} :
    LET p == [pane EXCEPT !.subview = subview]
        entered == IF subview = "VirtualMemory" /\ ~p.vinit /\ p.execution # None
                     THEN VirtualAt(p, p.execution) ELSE p
    IN  Handle(entered, pane.active)

Navigate ==
  /\ pane.active
  /\ \E motion \in Motions :
       Handle(CASE pane.subview = "PhysicalMemory" -> NavPhysical(pane, motion)
                [] pane.subview = "VirtualMemory" -> NavVirtual(pane, motion)
                [] pane.subview = "Disassembly" -> NavDisassembly(pane, motion),
              TRUE)

\* goto; what does not parse and what is not mapped is only reported
Goto ==
  /\ pane.active
  /\ \E address \in Targets :
       CASE pane.subview = "PhysicalMemory" ->
              /\ Region(address) # None
              /\ Handle(CursorVisible([pane EXCEPT !.cursor = address]), TRUE)
         [] pane.subview = "VirtualMemory" ->
              /\ address <= AddressMax
              /\ Handle(VirtualAt(pane, address), TRUE)
         [] pane.subview = "Disassembly" ->
              /\ address <= AddressMax
              /\ Handle([pane EXCEPT !.disassembly = RoundDown(address, Item)], TRUE)

\* A search of RAM is requested; what it will find is chosen here.
RequestSearch ==
  /\ pane.active /\ pane.subview = "PhysicalMemory"
  /\ \E address \in {a \in Targets : Contains(Last, a)} \cup {None} :
       /\ events < MaxEvents /\ events' = events + 1
       /\ Send({Search(address)}, pending)
       /\ UNCHANGED pane

\* render with an area of another size: update_memory_geometry
Resize ==
  /\ pane.active /\ pane.subview # "Disassembly"
  /\ \E g \in Geometries \ {[columns |-> pane.columns, window |-> pane.window]} :
       LET sized == [pane EXCEPT !.columns = g.columns, !.window = g.window]
       IN  pane' = [VirtualVisible(CursorVisible(sized)) EXCEPT
                      !.bytes = None, !.vbytes = None, !.dirty = TRUE, !.vdirty = TRUE]
  /\ events < MaxEvents /\ events' = events + 1
  /\ UNCHANGED <<pending, lost>>

-----------------------------------------------------------------------------
(* Events of the loop *)

\* Pulse, once per turn of the loop: a window of another size is requested.
Pulse ==
  /\ pane.active
  /\ \/ pane.subview = "PhysicalMemory" /\ pane.dirty
        /\ pane' = [pane EXCEPT !.dirty = FALSE]
     \/ pane.subview = "VirtualMemory" /\ pane.vdirty
        /\ pane' = [pane EXCEPT !.vdirty = FALSE]
  /\ Send({Wanted(pane)}, pending)
  /\ UNCHANGED events

Answered(request, p) ==
  /\ request \in pending
  /\ pane' = p
  /\ UNCHANGED events

\* Mutant: whatever arrives is shown.
AnswerPhysicalAny ==
  \E request \in {r \in pending : r.kind = "LiveMemory"} :
    /\ Answered(request, [pane EXCEPT !.bytes = request.window, !.dirty = FALSE])
    /\ Settle(request)

\* LiveMemory: bytes of another window are dropped
AnswerPhysical ==
  \E request \in {r \in pending : r.kind = "LiveMemory"} :
    /\ Answered(request, IF request.window = pane.range
                           THEN [pane EXCEPT !.bytes = request.window, !.dirty = FALSE]
                           ELSE pane)
    /\ Settle(request)

\* VirtualMemory
AnswerVirtual ==
  \E request \in {r \in pending : r.kind = "VirtualMemory"} :
    /\ Answered(request, IF request.window = Window(pane.vstart, pane.window)
                           THEN [pane EXCEPT !.vbytes = request.window, !.vdirty = FALSE]
                           ELSE pane)
    /\ Settle(request)

\* Execution: the first one opens the virtual window around the program counter
AnswerExecution ==
  \E request \in {r \in pending : r.kind = "Execution"}, pc \in Pcs :
    LET p == [pane EXCEPT !.execution = pc]
        opens == p.subview = "VirtualMemory" /\ ~p.vinit
        next == IF opens THEN VirtualAt(p, pc) ELSE p
    IN  /\ Answered(request, next)
        /\ Send(IF opens THEN {Wanted(next)} ELSE {}, pending \ {request})

\* SearchMemory: the pane turns to the match, and asks for it if it is active
AnswerSearch ==
  \E request \in {r \in pending : r.kind = "SearchMemory"} :
    LET found == CursorVisible([pane EXCEPT !.cursor = request.address,
                                            !.subview = "PhysicalMemory"])
        next == IF request.address = None THEN pane ELSE found
    IN  /\ Answered(request, next)
        /\ Send(IF request.address # None /\ pane.active THEN {Wanted(next)} ELSE {},
                pending \ {request})

\* InspectionFailed: reported, and the pane stays as it is
AnswerFails ==
  \E request \in pending :
    /\ pending' = pending \ {request}
    /\ lost' = lost \cup {request}
    /\ UNCHANGED <<pane, events>>

Init ==
  /\ pane = [ subview |-> "PhysicalMemory", active |-> FALSE,
              columns |-> FirstGeometry.columns, window |-> FirstGeometry.window,
              range |-> Window(Last.base, FirstGeometry.window), cursor |-> Last.base,
              bytes |-> None, dirty |-> FALSE,
              vinit |-> FALSE, vstart |-> 0, vcursor |-> 0, vbytes |-> None,
              vdirty |-> FALSE, execution |-> None, disassembly |-> None ]
  /\ pending = {} /\ lost = {} /\ events = 0

Next ==
  \/ SelectView \/ Refresh \/ SelectSubview \/ Navigate \/ Goto \/ RequestSearch
  \/ Resize \/ Pulse
  \/ AnswerPhysical \/ AnswerVirtual \/ AnswerExecution \/ AnswerSearch \/ AnswerFails

Spec == Init /\ [][Next]_vars

-----------------------------------------------------------------------------
(* Properties *)

\* The window lies in the region of the cursor, shows it, and begins with a row.
PhysicalShown(p) ==
  LET region == Region(p.cursor)
  IN  /\ InWindow(p.cursor, p.range)
      /\ p.range.start >= region.base
      /\ p.range.start + p.range.length <= region.base + region.size
      /\ (p.range.start - region.base) % p.columns = 0

VirtualShown(p) ==
  /\ InWindow(p.vcursor, Window(p.vstart, p.window))
  /\ p.vstart + p.window <= AddressMax + 1 /\ p.vstart % p.columns = 0

\* Every motion, address and match that moves a cursor leaves it visible in a window
\* of whole rows of mapped memory, over the gaps between regions and at both ends
\* of the address space, wherever earlier resizes left the window and the cursor
\* ("motions move the cursor and automatically shift the visible window";
\* ensure_cursor_visible, ensure_virtual_cursor_visible).
MotionShowsCursor ==
  [][/\ pane'.cursor # pane.cursor => PhysicalShown(pane')
     /\ pane'.vcursor # pane.vcursor => VirtualShown(pane')]_vars

\* The bytes under the addresses of the active pane are those of these addresses
\* once nothing is awaited for them, in whatever order answers arrive and views,
\* windows and sizes change before they do (update). A request that was refused or
\* failed is in the dialog instead.
ShownBytesCurrent ==
  pane.active /\ Wanted(pane) \notin pending \cup lost =>
    /\ pane.subview = "PhysicalMemory" /\ ~pane.dirty => pane.bytes = pane.range
    /\ pane.subview = "VirtualMemory" /\ pane.vinit /\ ~pane.vdirty =>
         pane.vbytes = Window(pane.vstart, pane.window)

\* The window lies in mapped memory ("cursor window remains in mapped memory",
\* ensure_cursor_visible).
WindowMapped ==
  LET region == Region(pane.cursor)
  IN  /\ pane.range.start >= region.base
      /\ pane.range.start + pane.range.length <= region.base + region.size

=============================================================================
