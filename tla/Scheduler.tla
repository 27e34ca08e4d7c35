------------------------------ MODULE Scheduler ------------------------------
(***************************************************************************)
(* The thread scheduler of the kernel (scheduler.c), from the calls kmain  *)
(* makes to create the first processes to the timer interrupts that switch *)
(* threads afterwards.  One processor; every handler runs with interrupts  *)
(* masked (all IDT gates are interrupt gates).                             *)
(*                                                                         *)
(* A tcb is a member of Threads, or dummy_tcb, the block that stands for   *)
(* kmain's own context.  The fields of the tcbs are functions.  The loop   *)
(* of scheduler_pick_next_thread takes one step per list element.          *)
(***************************************************************************)
EXTENDS Integers, FiniteSets, InterruptFrame

CONSTANTS
  Threads,             \* the tcbs create_thread can return
  dummy_tcb,           \* the static tcb of scheduler.c
  NULL,                \* the null pointer
  Kernel_PML4_TABLE,   \* the page table kmain runs on
  UINT16_MAX,          \* largest uint16_t (65535 in the kernel)
  Priorities,          \* priorities the processes are created with
  NumProcesses,        \* how many processes kmain creates (3 in the kernel)
  Positions,           \* values of the pushed frame (rip, cs, rflags, rsp, ss)
  ThreadEntry,         \* ... that create_thread gives a new thread
  ZeroReg              \* what Imemset leaves in the registers of a new tcb

ASSUME ThreadsAssumption ==
  /\ dummy_tcb \notin Threads
  /\ NULL \notin Threads \cup {dummy_tcb}
  /\ IsFiniteSet(Threads)
ASSUME PriorityAssumption ==
  /\ UINT16_MAX \in Nat \ {0, 1}
  /\ Priorities \subseteq 0..(UINT16_MAX - 1)
ASSUME ContextAssumption == ThreadEntry \in Positions /\ ZeroReg \in RegValues
ASSUME CallsAssumption == NumProcesses \in Nat \ {0}

VARIABLES
  \* the globals of scheduler.c
  top_tcb, last_tcb, running_tcb, thread_count,
  \* fields of the tcbs
  next, prev, state, priority, active_priority, registers,
  \* locals of scheduler_pick_next_thread
  active_tcb, best_tcb, max_priority,
  \* where the kernel is, and how many processes kmain tried to create
  mode, calls,
  \* processor and local APIC: registers, page table, interrupt flag, frame
  \* pushed by the last interrupt, timer programmed, vector 32 requested,
  \* vector 32 in service
  cpu, cr3, rflags_IF, frame, timer_on, irr, isr,
  \* history: the queue order (behind[x]: the tcbs after x), the active
  \* priorities when the pick loop began, the ticks since each thread was
  \* last picked, and the context each thread was last seen with
  behind, entry_priority, waited, context

list_vars == <<top_tcb, last_tcb, next, prev, behind>>
tcb_vars == <<state, priority, active_priority>>
pick_vars == <<active_tcb, best_tcb, max_priority, entry_priority>>
boot_vars == <<thread_count, calls>>
cpu_vars == <<cpu, cr3, rflags_IF, frame>>
apic_vars == <<timer_on, irr, isr>>
ctx_vars == <<registers, context>>
vars == <<list_vars, tcb_vars, pick_vars, boot_vars, cpu_vars, apic_vars,
          ctx_vars, running_tcb, mode, waited>>

-----------------------------------------------------------------------------
Tcbs == Threads \cup {dummy_tcb}
uint16 == 0..UINT16_MAX
Contexts == [gpo : RegisterFiles, psp : Positions]
SavedContexts == [gpo : RegisterBlocks, psp : Positions]

Modes == {"kmain",     \* creating processes, interrupts off
          "sti",       \* interrupts on, timer not programmed yet
          "run",       \* a thread, or kmain's final loop, has the processor
          "pick",      \* in the loop of scheduler_pick_next_thread
          "switch",    \* context_switch
          "restore",   \* _switch_threads
          "fault"}     \* null dereference: page_fault_handler halts

\* The tcbs that are in the queue.
Queued == IF top_tcb = NULL THEN {}
          ELSE {t \in Threads : state[t] # "THREAD_NEW"} \cup {dummy_tcb}

\* Mutants of saturating_dec16: the comparison is dropped; nothing ages.
wrapping_dec16(a) == a - 1
no_aging(a) == a

saturating_dec16(a) == IF a >= 1 THEN a - 1 ELSE 0

\* Mutant: the thread that ran competes with its plain priority.
reset_without_penalty(p) == p

\* Mutant: the thread that ran goes behind all others, whatever its priority.
reset_to_lowest(p) == UINT16_MAX

\* priority + 1 stored in a uint16_t
reset_priority(p) == IF p = UINT16_MAX THEN 0 ELSE p + 1

\* dummy_tcb is zeroed, so its page_table is NULL.
page_table(t) == IF t = dummy_tcb THEN NULL ELSE t

\* The order after t has been put at the end of the queue.
MovedToEnd(t) ==
  [x \in Tcbs |-> IF x = t \/ x \notin Queued THEN {} ELSE behind[x] \cup {t}]

\* Whose context the processor holds: kmain's until the first switch.
Current == IF running_tcb = NULL THEN dummy_tcb ELSE running_tcb

Init ==
  /\ top_tcb = NULL /\ last_tcb = NULL /\ running_tcb = NULL
  /\ thread_count = 0 /\ calls = 0 /\ mode = "kmain"
  /\ next = [t \in Tcbs |-> NULL]
  /\ prev = [t \in Tcbs |-> NULL]
  /\ state = [t \in Tcbs |-> "THREAD_NEW"]
  /\ priority = [t \in Tcbs |-> 0]
  /\ active_priority = [t \in Tcbs |-> 0]
  /\ active_tcb = NULL /\ best_tcb = NULL /\ max_priority = UINT16_MAX
  /\ cpu \in [gpo : {[r \in gpo_regs |-> ZeroReg]}, psp : Positions]
  /\ cr3 = Kernel_PML4_TABLE
  /\ rflags_IF = FALSE /\ timer_on = FALSE /\ irr = FALSE /\ isr = FALSE
  /\ frame = [gpo |-> [s \in frame_slots |-> ZeroReg], psp |-> ThreadEntry]
  /\ registers = [t \in Tcbs |-> frame]
  /\ behind = [t \in Tcbs |-> {}]
  /\ entry_priority = active_priority
  /\ waited = [t \in Tcbs |-> 0]
  /\ context = [t \in Tcbs |->
                  IF t = dummy_tcb THEN cpu
                  ELSE [gpo |-> [r \in gpo_regs |-> ZeroReg],
                        psp |-> ThreadEntry]]

-----------------------------------------------------------------------------
(* kmain: create_initial_process, then create_process, then sti and timer. *)

\* What create_thread leaves in the tcb t.
create_thread(t, p) ==
  /\ priority' = [priority EXCEPT ![t] = p]
  /\ active_priority' = [active_priority EXCEPT ![t] = p]

\* Mutant: no dummy_tcb in the list.
scheduler_init_alone(t) ==
  /\ running_tcb' = dummy_tcb
  /\ last_tcb' = t
  /\ top_tcb' = t
  /\ next' = [next EXCEPT ![t] = NULL]
  /\ prev' = [prev EXCEPT ![t] = NULL]
  /\ state' = [state EXCEPT ![dummy_tcb] = "THREAD_DENIED",
                            ![t] = "THREAD_READY"]
  /\ thread_count' = thread_count + 1
  /\ UNCHANGED behind

\* scheduler_init: t is the top, dummy_tcb is last and stands for kmain.
scheduler_init(t) ==
  /\ running_tcb' = dummy_tcb
  /\ last_tcb' = dummy_tcb
  /\ top_tcb' = t
  /\ next' = [next EXCEPT ![dummy_tcb] = NULL, ![t] = dummy_tcb]
  /\ prev' = [prev EXCEPT ![dummy_tcb] = t, ![t] = NULL]
  /\ state' = [state EXCEPT ![dummy_tcb] = "THREAD_DENIED",
                            ![t] = "THREAD_READY"]
  /\ thread_count' = thread_count + 1
  /\ behind' = [behind EXCEPT ![t] = {dummy_tcb}]

create_initial_process(t, p) ==
  /\ mode = "kmain" /\ calls = 0
  /\ calls' = 1
  /\ create_thread(t, p)
  /\ scheduler_init(t)
  /\ UNCHANGED <<mode, pick_vars, cpu_vars, apic_vars, ctx_vars, waited>>

\* scheduler_add_thread dereferences last_tcb.
scheduler_add_thread(t) ==
  IF last_tcb = NULL
    THEN /\ mode' = "fault"
         /\ UNCHANGED <<list_vars, thread_count>>
    ELSE /\ next' = [next EXCEPT ![last_tcb] = t, ![t] = NULL]
         /\ prev' = [prev EXCEPT ![t] = last_tcb]
         /\ last_tcb' = t
         /\ thread_count' = thread_count + 1
         /\ behind' = MovedToEnd(t)
         /\ UNCHANGED <<mode, top_tcb>>

create_process(t, p) ==
  /\ mode = "kmain" /\ calls \in 1..(NumProcesses - 1)
  /\ state[t] = "THREAD_NEW"
  /\ calls' = calls + 1
  /\ create_thread(t, p)
  /\ state' = [state EXCEPT ![t] = "THREAD_READY"]
  /\ rflags_IF' = FALSE
  /\ scheduler_add_thread(t)
  /\ UNCHANGED <<running_tcb, pick_vars, cpu, cr3, frame, apic_vars, ctx_vars,
                 waited>>

\* init_process ran out of frames and returned NULL; kmain goes on.
create_process_fails ==
  /\ mode = "kmain" /\ calls < NumProcesses
  /\ calls' = calls + 1
  /\ UNCHANGED <<list_vars, tcb_vars, pick_vars, thread_count, cpu_vars,
                 apic_vars, ctx_vars, running_tcb, mode, waited>>

kmain_sti ==
  /\ mode = "kmain" /\ calls = NumProcesses
  /\ mode' = "sti"
  /\ rflags_IF' = TRUE
  /\ UNCHANGED <<list_vars, tcb_vars, pick_vars, boot_vars, cpu, cr3, frame,
                 apic_vars, ctx_vars, running_tcb, waited>>

\* INITCNT = LAPIC_TICKS_PER_MS * 500; the count is 0, and the timer stays
\* off, when enable_apic found no PM timer to calibrate with.
kmain_start_timer ==
  /\ mode = "sti"
  /\ mode' = "run"
  /\ timer_on' \in BOOLEAN
  /\ UNCHANGED <<list_vars, tcb_vars, pick_vars, boot_vars, cpu_vars, irr, isr,
                 ctx_vars, running_tcb, waited>>

Kmain ==
  \/ \E t \in Threads, p \in Priorities : create_initial_process(t, p)
  \/ \E t \in Threads, p \in Priorities : create_process(t, p)
  \/ create_process_fails
  \/ kmain_sti
  \/ kmain_start_timer

-----------------------------------------------------------------------------
(* What runs between interrupts, and the timer.                            *)

\* The running thread computes.
ThreadStep ==
  /\ mode = "run" /\ running_tcb \in Threads
  /\ cpu' \in Contexts
  /\ context' = [context EXCEPT ![running_tcb] = cpu']
  /\ UNCHANGED <<list_vars, tcb_vars, pick_vars, boot_vars, cr3, rflags_IF,
                 frame, apic_vars, registers, running_tcb, mode, waited>>

\* The periodic timer requests vector 32; a second request is absorbed.
TimerExpires ==
  /\ timer_on /\ ~irr /\ mode # "fault"
  /\ irr' = TRUE
  /\ UNCHANGED <<list_vars, tcb_vars, pick_vars, boot_vars, cpu_vars, timer_on,
                 isr, ctx_vars, running_tcb, mode, waited>>

\* Mutant: the vector is installed as a trap gate.
trap_gate == UNCHANGED rflags_IF

\* What entering the handler through its IDT descriptor (0x8E) does to IF.
interrupt_gate == rflags_IF' = FALSE

\* common_isr, c_isr, timer_interrupt_handler, schedule, and the start of
\* scheduler_pick_next_thread.
timer_interrupt_handler ==
  /\ irr /\ rflags_IF /\ ~isr
  /\ irr' = FALSE /\ isr' = TRUE
  /\ interrupt_gate
  /\ frame' = [gpo |-> save_regs(cpu.gpo), psp |-> cpu.psp]
  /\ mode' = "pick"
  /\ active_tcb' = top_tcb
  /\ best_tcb' = top_tcb
  /\ max_priority' = UINT16_MAX
  /\ entry_priority' = active_priority
  /\ UNCHANGED <<list_vars, tcb_vars, boot_vars, cpu, cr3, timer_on, ctx_vars,
                 running_tcb, waited>>

-----------------------------------------------------------------------------
(* scheduler_pick_next_thread                                              *)

Visiting == mode = "pick" /\ active_tcb # NULL

\* Not THREAD_READY: next element.
pick_skip ==
  /\ Visiting /\ state[active_tcb] # "THREAD_READY"
  /\ active_tcb' = next[active_tcb]
  /\ UNCHANGED <<list_vars, tcb_vars, best_tcb, max_priority, entry_priority,
                 boot_vars, cpu_vars, apic_vars, ctx_vars, running_tcb, mode,
                 waited>>

\* Ready, but no better than the best one so far: only age it.
pick_pass ==
  /\ Visiting /\ state[active_tcb] = "THREAD_READY"
  /\ active_priority[active_tcb] >= max_priority
  /\ active_priority' = [active_priority EXCEPT
                           ![active_tcb] = saturating_dec16(@)]
  /\ active_tcb' = next[active_tcb]
  /\ UNCHANGED <<list_vars, state, priority, best_tcb, max_priority,
                 entry_priority, boot_vars, cpu_vars, apic_vars, ctx_vars,
                 running_tcb, mode, waited>>

\* Better than the best one so far.
pick_take ==
  /\ Visiting /\ state[active_tcb] = "THREAD_READY"
  /\ active_priority[active_tcb] < max_priority
  /\ best_tcb' = active_tcb
  /\ active_priority' = [active_priority EXCEPT
                           ![active_tcb] = saturating_dec16(@)]
  /\ max_priority' = active_priority'[active_tcb]
  /\ active_tcb' = next[active_tcb]
  /\ UNCHANGED <<list_vars, state, priority, entry_priority, boot_vars,
                 cpu_vars, apic_vars, ctx_vars, running_tcb, mode, waited>>

Visited == mode = "pick" /\ active_tcb = NULL

\* Mutant: the fallback is the first tcb of the queue.
pick_none_first ==
  /\ Visited /\ max_priority = UINT16_MAX
  /\ best_tcb' = top_tcb
  /\ IF top_tcb = NULL
       THEN mode' = "fault" /\ UNCHANGED active_priority
       ELSE /\ mode' = "switch"
            /\ active_priority' = [active_priority EXCEPT
                 ![top_tcb] = reset_priority(priority[top_tcb])]
  /\ UNCHANGED <<list_vars, state, priority, active_tcb, max_priority,
                 entry_priority, boot_vars, cpu_vars, apic_vars, ctx_vars,
                 running_tcb, waited>>

\* No thread was taken: the last one in the queue runs (again).
pick_none ==
  /\ Visited /\ max_priority = UINT16_MAX
  /\ best_tcb' = last_tcb
  /\ IF last_tcb = NULL
       THEN mode' = "fault" /\ UNCHANGED active_priority
       ELSE /\ mode' = "switch"
            /\ active_priority' = [active_priority EXCEPT
                 ![last_tcb] = reset_priority(priority[last_tcb])]
  /\ UNCHANGED <<list_vars, state, priority, active_tcb, max_priority,
                 entry_priority, boot_vars, cpu_vars, apic_vars, ctx_vars,
                 running_tcb, waited>>

\* A thread was taken: what happens to it wherever it stands in the queue.
pick_selected ==
  /\ Visited /\ max_priority # UINT16_MAX
  /\ active_priority' = [active_priority EXCEPT
       ![best_tcb] = reset_priority(priority[best_tcb])]
  /\ state' = [state EXCEPT ![best_tcb] = "THREAD_RUNNING"]
  /\ UNCHANGED <<priority, pick_vars, boot_vars, cpu_vars, apic_vars, ctx_vars,
                 running_tcb, waited>>

\* It was the top; the new top is dereferenced.
pick_top ==
  /\ pick_selected
  /\ prev[best_tcb] = NULL
  /\ top_tcb' = next[best_tcb]
  /\ IF next[best_tcb] = NULL
       THEN /\ mode' = "fault"
            /\ UNCHANGED <<last_tcb, next, prev, behind>>
       ELSE /\ mode' = "switch"
            /\ prev' = [prev EXCEPT ![next[best_tcb]] = NULL,
                                    ![best_tcb] = last_tcb]
            /\ next' = [next EXCEPT ![last_tcb] = best_tcb,
                                    ![best_tcb] = NULL]
            /\ last_tcb' = best_tcb
            /\ behind' = MovedToEnd(best_tcb)

\* It was the last: it is where it has to be.
pick_last ==
  /\ pick_selected
  /\ prev[best_tcb] # NULL /\ next[best_tcb] = NULL
  /\ mode' = "switch"
  /\ UNCHANGED list_vars

\* Mutant: the successor keeps its old prev pointer.
pick_middle_no_back_link ==
  /\ pick_selected
  /\ prev[best_tcb] # NULL /\ next[best_tcb] # NULL
  /\ mode' = "switch"
  /\ next' = [next EXCEPT ![prev[best_tcb]] = next[best_tcb],
                          ![last_tcb] = best_tcb,
                          ![best_tcb] = NULL]
  /\ prev' = [prev EXCEPT ![best_tcb] = last_tcb]
  /\ last_tcb' = best_tcb
  /\ behind' = MovedToEnd(best_tcb)
  /\ UNCHANGED top_tcb

\* It was in the middle.
pick_middle ==
  /\ pick_selected
  /\ prev[best_tcb] # NULL /\ next[best_tcb] # NULL
  /\ mode' = "switch"
  /\ next' = [next EXCEPT ![prev[best_tcb]] = next[best_tcb],
                          ![last_tcb] = best_tcb,
                          ![best_tcb] = NULL]
  /\ prev' = [prev EXCEPT ![next[best_tcb]] = prev[best_tcb],
                          ![best_tcb] = last_tcb]
  /\ last_tcb' = best_tcb
  /\ behind' = MovedToEnd(best_tcb)
  /\ UNCHANGED top_tcb

-----------------------------------------------------------------------------
(* The switch.                                                             *)

\* Mutant: the two assignments to the states are swapped.
switched_state_swapped(t) ==
  IF t = running_tcb /\ t # dummy_tcb THEN "THREAD_READY"
  ELSE IF t = best_tcb THEN "THREAD_RUNNING"
  ELSE state[t]

\* The interrupted thread becomes ready before the next one starts running:
\* they may be the same.  dummy_tcb keeps its state.
switched_state(t) ==
  IF t = best_tcb THEN "THREAD_RUNNING"
  ELSE IF t = running_tcb /\ t # dummy_tcb THEN "THREAD_READY"
  ELSE state[t]

\* Mutant: the end of the interrupt is never signalled.
no_EOI == UNCHANGED isr

LAPIC_EOI == isr' = FALSE

context_switch ==
  /\ mode = "switch"
  /\ registers' = [registers EXCEPT ![running_tcb] = frame]
  /\ state' = [t \in Tcbs |-> switched_state(t)]
  /\ cr3' = page_table(best_tcb)
  /\ running_tcb' = best_tcb
  /\ LAPIC_EOI
  /\ mode' = "restore"
  /\ waited' = [t \in Tcbs |-> IF t = best_tcb THEN 0
                               ELSE IF t \in Threads /\ state[t] # "THREAD_NEW"
                                    THEN waited[t] + 1 ELSE waited[t]]
  /\ UNCHANGED <<list_vars, priority, active_priority, pick_vars, boot_vars,
                 cpu, rflags_IF, frame, timer_on, irr, context>>

\* Registers from the tcb, then iretq; the rflags it pops have IF set.
switch_threads ==
  /\ mode = "restore"
  /\ cpu' = [gpo |-> load_regs(registers[running_tcb].gpo),
             psp |-> registers[running_tcb].psp]
  /\ rflags_IF' = TRUE
  /\ mode' = "run"
  /\ UNCHANGED <<list_vars, tcb_vars, pick_vars, boot_vars, cr3, frame,
                 apic_vars, ctx_vars, running_tcb, waited>>

\* The endless loop at the end of kmain, and the cli; hlt of the fault handler.
Spin ==
  /\ mode = "fault" \/ (mode = "run" /\ running_tcb \notin Threads)
  /\ UNCHANGED vars

Pick == \/ pick_skip \/ pick_pass \/ pick_take
        \/ pick_none \/ pick_top \/ pick_last \/ pick_middle

Handler == timer_interrupt_handler \/ Pick \/ context_switch \/ switch_threads

Next == Kmain \/ ThreadStep \/ TimerExpires \/ Handler \/ Spin

Spec == Init /\ [][Next]_vars

\* The processor executes the instructions of the kernel, and the periodic
\* timer keeps expiring.  Nothing is assumed of the threads.
FairSpec == Spec /\ WF_vars(Kmain \/ Handler) /\ WF_vars(TimerExpires)

-----------------------------------------------------------------------------
(* Properties *)

\* The type of every variable.
TypeOK ==
  /\ top_tcb \in Tcbs \cup {NULL} /\ last_tcb \in Tcbs \cup {NULL}
  /\ running_tcb \in Tcbs \cup {NULL}
  /\ thread_count \in Nat /\ calls \in 0..NumProcesses /\ mode \in Modes
  /\ next \in [Tcbs -> Tcbs \cup {NULL}]
  /\ prev \in [Tcbs -> Tcbs \cup {NULL}]
  /\ state \in [Tcbs -> {"THREAD_NEW", "THREAD_READY", "THREAD_RUNNING",
                         "THREAD_DENIED"}]
  /\ priority \in [Tcbs -> 0..(UINT16_MAX - 1)]
  /\ active_priority \in [Tcbs -> uint16]
  /\ entry_priority \in [Tcbs -> uint16]
  /\ active_tcb \in Tcbs \cup {NULL} /\ best_tcb \in Tcbs \cup {NULL}
  /\ max_priority \in uint16
  /\ cpu \in Contexts /\ context \in [Tcbs -> Contexts]
  /\ frame \in SavedContexts /\ registers \in [Tcbs -> SavedContexts]
  /\ cr3 \in Threads \cup {NULL, Kernel_PML4_TABLE}
  /\ rflags_IF \in BOOLEAN /\ timer_on \in BOOLEAN
  /\ irr \in BOOLEAN /\ isr \in BOOLEAN
  /\ behind \in [Tcbs -> SUBSET Tcbs]
  /\ waited \in [Tcbs -> Nat]

\* The pointers form one doubly linked list that runs from top_tcb to
\* last_tcb through every queued tcb, in the order of the queue: what the
\* appends of scheduler_add_thread and the three relinking cases of
\* scheduler_pick_next_thread have to preserve.
QueueIsLinkedList ==
  top_tcb # NULL /\ mode # "fault" =>
    /\ top_tcb \in Queued /\ prev[top_tcb] = NULL
    /\ behind[top_tcb] = Queued \ {top_tcb}
    /\ last_tcb \in Queued /\ next[last_tcb] = NULL /\ behind[last_tcb] = {}
    /\ \A x \in Queued :
         /\ x # last_tcb => /\ next[x] \in Queued
                            /\ prev[next[x]] = x
                            /\ behind[x] = {next[x]} \cup behind[next[x]]
         /\ x # top_tcb => prev[x] \in Queued /\ next[prev[x]] = x

\* scheduler_pick_next_thread and scheduler_add_thread follow a null pointer
\* only when create_initial_process has failed, a failure kmain ignores: once
\* scheduler_init ran, no step of the scheduler does.
FaultOnlyWithoutInit == mode = "fault" => last_tcb = NULL

\* While a thread runs it is the only one in THREAD_RUNNING, it is last in the
\* queue (which the fallback of scheduler_pick_next_thread relies on), and
\* every other queued thread can be picked at the next tick.
RunningIsLast ==
  mode \in {"run", "restore", "pick"} /\ running_tcb \in Threads =>
    /\ last_tcb = running_tcb
    /\ state[running_tcb] = "THREAD_RUNNING"
    /\ \A t \in Queued \ {running_tcb, dummy_tcb} : state[t] = "THREAD_READY"

\* context_switch is only handed a thread that may run: the one the loop took,
\* or the interrupted one; never dummy_tcb, which has no page table.
DispatchesRunnable ==
  mode = "switch" =>
    /\ best_tcb \in Threads /\ state[best_tcb] = "THREAD_RUNNING"
    /\ \A t \in Threads \ {best_tcb, running_tcb} :
         state[t] # "THREAD_RUNNING"

\* Whoever has the processor continues at the instruction and on the stack it
\* was interrupted at, on its own page table: context_switch never mixes the
\* saved frames of two threads and a tick between LAPIC_EOI and iretq cannot
\* slip in.
ResumesWhereInterrupted ==
  mode = "run" => /\ cpu.psp = context[Current].psp
                  /\ cr3 = IF Current = dummy_tcb THEN Kernel_PML4_TABLE
                           ELSE Current

\* ... with the register values it was interrupted with ("set registers to
\* the values of the last execution", set_context.asm).
RegistersPreserved == mode = "run" => cpu.gpo = context[Current].gpo

\* A thread is picked at the latest once its active priority has counted down
\* and every other thread has had one turn.
BoundedWaiting ==
  \A t \in Threads : waited[t] <= priority[t] + Cardinality(Threads) - 1

\* A thread of priority 0 does not get two turns in a row while another
\* thread is ready (goal of docs/Scheduling/Design.md), unless that one has the
\* lowest priority: its reset active priority is the sentinel of the loop.
NoTwoContiguousTurns ==
  [][mode = "switch" /\ mode' = "restore" /\ best_tcb = running_tcb
       /\ priority[best_tcb] = 0
     => \A t \in Threads :
          state[t] = "THREAD_READY" => priority[t] = UINT16_MAX - 1]_vars

\* Nobody is chosen over a thread whose active priority was lower by more than
\* one.  docs/Scheduling/Design.md has "check whether active prio == 0 (first
\* wins)"; the loop keeps a running minimum of aged values instead, so that one
\* that had 1 can be chosen over one behind it that had 0.
LeastWins ==
  mode = "switch" =>
    \A t \in Queued \ {dummy_tcb, running_tcb} :
      entry_priority[best_tcb] <= entry_priority[t] + 1

\* Once the timer is on, every thread in the queue keeps getting the processor.
NoStarvation ==
  \A t \in Threads :
    timer_on /\ t \in Queued ~> mode = "run" /\ running_tcb = t

-----------------------------------------------------------------------------
(* The queue the scheduler implements.  The tick takes effect when the     *)
(* pick loop has ended; until then the queue still has the active          *)
(* priorities the loop began with.                                         *)

Queue == INSTANCE SchedulerQueue WITH
  None <- NULL,
  queued <- Queued \ {dummy_tcb},
  behind <- [t \in Threads |-> behind[t] \ {dummy_tcb}],
  priority <- [t \in Threads |-> IF t \in Queued THEN priority[t] ELSE 0],
  active_priority <- [t \in Threads |->
    IF t \notin Queued THEN 0
    ELSE IF mode = "pick" THEN entry_priority[t] ELSE active_priority[t]],
  running <- IF mode = "switch" THEN best_tcb
             ELSE IF running_tcb \in Threads THEN running_tcb ELSE NULL

\* The list walk with its running minimum, the relinking and the switch
\* implement the queue discipline of SchedulerQueue: each tick chooses an
\* eligible thread, ages exactly the waiting ones and moves only the chosen
\* thread, and a tick that chooses nobody keeps the running one.
ImplementsQueue == Queue!QueueSpec
=============================================================================
