------------------------------- MODULE MCRunner -------------------------------
(* Instances of Runner for TLC. *)
EXTENDS Runner

ScheduledOne == <<1>>
AddressesTwo == {0, 1}

Nothing == [o \in DOMAIN Source |-> None]

\* A run, and the tests that differ in what they expect or are given.
RunJob ==
  [ kind |-> "Run", image |-> "Valid", boot_rom |-> "64KiB", same_file |-> FALSE,
    media |-> {"block_media"}, uarts |-> {}, ram_prefill |-> {}, values |-> Nothing,
    empty_texts |-> {}, ticks_at_least |-> None, execution_lifecycle |-> None,
    shutdown_lifecycle |-> None, block_media |-> {} ]

TestJob ==
  [RunJob EXCEPT !.kind = "Test", !.media = {"block0_media", "block1_media"},
                 !.uarts = {0}, !.ram_prefill = {[address |-> 4, length |-> 4]}]

SmallJobs ==
  { RunJob,
    [RunJob EXCEPT !.image = "Invalid"],
    TestJob,
    [TestJob EXCEPT !.shutdown_lifecycle = "Stopped"],
    [TestJob EXCEPT !.shutdown_lifecycle = "Failed"],
    [TestJob EXCEPT !.execution_lifecycle = "Stopped"],
    [TestJob EXCEPT !.execution_lifecycle = "Paused", !.same_file = TRUE],
    [TestJob EXCEPT !.ticks_at_least = 2, !.empty_texts = {"uart1_contains"}],
    [TestJob EXCEPT !.values["fault_status"] = 1, !.values["trace_values"] = 1],
    [TestJob EXCEPT !.values["cpu_mode"] = 0, !.values["uart0_contains"] = 0,
                    !.execution_lifecycle = "Paused"],
    [TestJob EXCEPT !.values["mmu_enabled"] = 1,
                    !.block_media = {[unit |-> 1, inside |-> TRUE],
                                     [unit |-> 0, inside |-> TRUE]}],
    [TestJob EXCEPT !.block_media = {[unit |-> 0, inside |-> FALSE]}],
    [TestJob EXCEPT !.media = {"block_media"},
                    !.block_media = {[unit |-> 1, inside |-> TRUE]}],
    [TestJob EXCEPT !.ticks_at_least = 0, !.media = {"block_media", "block0_media"}],
    [TestJob EXCEPT !.ticks_at_least = 0, !.uarts = {2}],
    [TestJob EXCEPT !.ticks_at_least = 0,
                    !.ram_prefill = {[address |-> 6, length |-> 4]}] }

=============================================================================
