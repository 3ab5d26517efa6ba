----------------------------- MODULE MCMemoryPane -----------------------------
(* Instances of MemoryPane for TLC: three regions of 8 bytes, rows of 2 and 4. *)
EXTENDS MemoryPane

ThreeRegions ==
  <<[base |-> 0, size |-> 8], [base |-> 12, size |-> 8], [base |-> 24, size |-> 8]>>

TwoRows == [columns |-> 4, window |-> 8]
NarrowRow == [columns |-> 2, window |-> 2]
NarrowRows == [columns |-> 2, window |-> 6]
Sizes == {TwoRows, NarrowRow, NarrowRows}

=============================================================================
