--------------------------- MODULE InterruptFrame ---------------------------
(***************************************************************************)
(* The register block that an interrupt saves and that a thread switch     *)
(* loads back (cpu_regs in cpu_regs.h).                                    *)
(*                                                                         *)
(* common_isr (isr.asm) pushes the general purpose registers; the slots    *)
(* are numbered from the lowest address up.  _switch_threads               *)
(* (set_context.asm) loads every register from a fixed offset of the same  *)
(* block.  r15..r8 sit in the same eight slots on both sides and are one   *)
(* register here; the others keep their names.                             *)
(***************************************************************************)
EXTENDS Integers

CONSTANT RegValues     \* what a register may hold

gpo_regs == {"r8_r15", "rdi", "rsi", "rbp", "rbx", "rdx", "rcx", "rax"}
frame_slots == 1..8

\* The register common_isr leaves in each slot (last pushed is lowest).
common_isr_push ==
  <<"r8_r15", "rdi", "rsi", "rbp", "rbx", "rdx", "rcx", "rax">>

\* The slot _switch_threads loads each register from.
switch_threads_load ==
  [r8_r15 |-> 1, rbp |-> 2, rdi |-> 3, rsi |-> 4,
   rdx |-> 5, rcx |-> 6, rbx |-> 7, rax |-> 8]

RegisterFiles == [gpo_regs -> RegValues]
RegisterBlocks == [frame_slots -> RegValues]

\* The block on the interrupt stack for the register file g.
save_regs(g) == [s \in frame_slots |-> g[common_isr_push[s]]]

\* The register file after _switch_threads has read the block b.
load_regs(b) == [r \in gpo_regs |-> b[switch_threads_load[r]]]
=============================================================================
