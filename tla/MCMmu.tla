------------------------------- MODULE MCMmu -------------------------------
(* Two-entry tables: a Boot ROM page, two RAM pages that serve as directory,  *)
(* as table and as data, a device page, and a hole in the physical map.       *)
EXTENDS Mmu

MapOfFive == [p \in 0 .. 4 |-> CASE p = 0 -> "Rom" [] p \in {1, 2} -> "Ram"
                                 [] p = 3 -> "Device" [] p = 4 -> "Unmapped"]

\* The first word of the Boot ROM happens to name a table.
BootRom == [p \in {0} |-> [i \in 0 .. 1 |-> [valid |-> i = 0, page |-> 2, bits |-> {}]]]

Word(page, bits) == [valid |-> TRUE, page |-> page, bits |-> bits]

\* Directory entries of page 1 for page 2 and for itself (a self-map), and table
\* entries for RAM, the device, ROM and the hole.
TableStores ==
  { <<1, 0, Word(2, {})>>, <<1, 0, Word(1, {})>>,
    <<1, 1, Word(1, {"EXECUTE"})>>,
    <<1, 1, Word(2, {"WRITE", "USER"})>>,
    <<1, 1, Word(4, {"WRITE"})>>,
    <<2, 1, Word(3, {"WRITE", "EXECUTE"})>>,
    <<2, 1, Word(3, {"WRITE", "USER"})>>,
    <<2, 1, Word(0, {"WRITE", "EXECUTE", "USER"})>> }

\* With the self-map, the table entry of page 1 is the directory entry of page 3.
FirstPages == {<<1, "Fetch">>, <<1, "Write">>, <<3, "Read">>}
=============================================================================
