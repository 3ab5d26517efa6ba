------------------------------- MODULE MCImage -------------------------------
(* An instance of Image for TLC: RAM of 8 bytes, instructions of 2 bytes. *)
EXTENDS Image

Segment(address, stored, memory, flags) ==
  [address |-> address, file_size |-> stored, memory_size |-> memory, flags |-> flags]

RX == {0, 2}
RW == {0, 1}

Elf(entry, segments) == [arm |-> TRUE, entry |-> entry, segments |-> segments]

\* Around the bootstrap entry (12, virtually 28), low and high, with and without
\* zeroed tails, next to and over the workspace (8 to 10), outside RAM.
KernelSegmentInputs ==
  { Segment(28, 2, 2, RX), Segment(28, 2, 3, RX), Segment(12, 2, 2, RX),
    Segment(30, 2, 2, RX), Segment(30, 0, 2, RW), Segment(27, 1, 1, RW),
    Segment(11, 0, 1, RW), Segment(26, 1, 1, RW), Segment(15, 1, 2, RW),
    Segment(3, 1, 1, RW), Segment(28, 0, 0, RW) }

SmallKernels ==
  {Elf(28, <<s>>) : s \in KernelSegmentInputs}
    \cup {Elf(entry, <<s, t>>) : entry \in {28, 30},
                                 s \in KernelSegmentInputs, t \in KernelSegmentInputs}
    \cup { Elf(28, <<Segment(30, 0, 2, RW), Segment(27, 1, 1, RW), Segment(28, 2, 2, RX)>>),
           Elf(30, <<Segment(30, 2, 2, RX), Segment(11, 1, 1, RW), Segment(12, 2, 2, RX)>>),
           Elf(12, <<Segment(12, 2, 2, RX)>>), Elf(29, <<Segment(28, 4, 4, RX)>>),
           Elf(28, <<Segment(28, 3, 2, RX)>>),
           [arm |-> FALSE, entry |-> 28, segments |-> <<Segment(28, 2, 2, RX)>>] }

SmallModules ==
  { [name |-> 1, elf |-> Elf(2, <<Segment(2, 2, 2, RX)>>)],
    [name |-> 2, elf |-> Elf(2, <<Segment(4, 1, 1, RW), Segment(2, 2, 2, RX)>>)],
    [name |-> 1, elf |-> Elf(32, <<Segment(32, 2, 2, RX), Segment(20, 0, 4, RW)>>)],
    [name |-> 1, elf |-> Elf(22, <<Segment(22, 2, 3, RX)>>)],
    [name |-> 0, elf |-> Elf(2, <<Segment(2, 2, 2, RX)>>)] }

=============================================================================
