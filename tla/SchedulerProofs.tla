--------------------------- MODULE SchedulerProofs ---------------------------
EXTENDS SchedulerInv, FiniteSetTheorems, TLAPS

(***************************************************************************)
(* Facts about the helpers.                                                *)
(***************************************************************************)

USE DEF interrupt_gate, LAPIC_EOI, switched_state

\* saturating_dec16 stays in uint16_t and never increases its argument.
LEMMA DecType ==
  ASSUME NEW a \in uint16
  PROVE  /\ saturating_dec16(a) \in uint16
         /\ saturating_dec16(a) <= a
         /\ saturating_dec16(a) < UINT16_MAX
BY PriorityAssumption DEF saturating_dec16, uint16

\* priority + 1 of a valid priority fits in a uint16_t: no wrap to 0.
LEMMA ResetType ==
  ASSUME NEW p \in 0..(UINT16_MAX - 1)
  PROVE  reset_priority(p) = p + 1 /\ reset_priority(p) \in uint16
BY PriorityAssumption DEF reset_priority, uint16

\* common_isr fills every slot of the block.
LEMMA SaveType ==
  ASSUME NEW g \in RegisterFiles
  PROVE  save_regs(g) \in RegisterBlocks
<1>1. ASSUME NEW s \in frame_slots PROVE common_isr_push[s] \in gpo_regs
  BY <1>1 DEF frame_slots, common_isr_push, gpo_regs
<1> QED BY <1>1 DEF save_regs, RegisterFiles, RegisterBlocks

\* _switch_threads reads every register from a slot of the block.
LEMMA LoadType ==
  ASSUME NEW b \in RegisterBlocks
  PROVE  load_regs(b) \in RegisterFiles
<1>1. ASSUME NEW r \in gpo_regs PROVE switch_threads_load[r] \in frame_slots
  BY <1>1 DEF frame_slots, switch_threads_load, gpo_regs
<1> QED BY <1>1 DEF load_regs, RegisterFiles, RegisterBlocks

(***************************************************************************)
(* Type correctness.                                                       *)
(***************************************************************************)

\* The initial state has the right types.
LEMMA InitType == Init => TypeOK
<1> SUFFICES ASSUME Init PROVE TypeOK OBVIOUS
<1>1. [r \in gpo_regs |-> ZeroReg] \in RegisterFiles
      /\ [s \in frame_slots |-> ZeroReg] \in RegisterBlocks
  BY ContextAssumption DEF RegisterFiles, RegisterBlocks
<1>2. cpu \in Contexts /\ frame \in SavedContexts
  BY <1>1, ContextAssumption DEF Init, Contexts, SavedContexts
<1>3. context \in [Tcbs -> Contexts] /\ registers \in [Tcbs -> SavedContexts]
  BY <1>1, <1>2, ContextAssumption DEF Init, Contexts, SavedContexts
<1>4. /\ priority \in [Tcbs -> 0..(UINT16_MAX - 1)]
      /\ active_priority \in [Tcbs -> uint16]
      /\ entry_priority \in [Tcbs -> uint16]
      /\ max_priority \in uint16
  BY PriorityAssumption DEF Init, uint16
<1>5. /\ next \in [Tcbs -> Tcbs \cup {NULL}]
      /\ prev \in [Tcbs -> Tcbs \cup {NULL}]
      /\ behind \in [Tcbs -> SUBSET Tcbs]
      /\ waited \in [Tcbs -> Nat]
      /\ state \in [Tcbs -> {"THREAD_NEW", "THREAD_READY", "THREAD_RUNNING",
                            "THREAD_DENIED"}]
  BY DEF Init
<1>6. calls \in 0..NumProcesses /\ thread_count \in Nat /\ mode \in Modes
  BY CallsAssumption DEF Init, Modes
<1> QED BY <1>2, <1>3, <1>4, <1>5, <1>6 DEF Init, TypeOK

\* The pointers that pick, context_switch and _switch_threads follow are not
\* NULL where they are followed.
LEMMA PointerTypes ==
  ASSUME IInv
  PROVE  /\ Queued \subseteq Tcbs
         /\ pick_selected => best_tcb \in Queued
         /\ mode = "switch" => best_tcb \in Threads /\ running_tcb \in Tcbs
         /\ mode = "restore" => running_tcb \in Threads
<1>1. Queued \subseteq Tcbs BY DEF Queued, Tcbs
<1>2. pick_selected => best_tcb \in Queued
  BY DEF pick_selected, Visited, IInv, PickInv, SeenReady
<1>3. mode = "switch" => best_tcb \in Threads /\ running_tcb \in Tcbs
  BY <1>1 DEF IInv, ModeInv, StateInv, QueuedThreads, Tcbs
<1>4. mode = "restore" => running_tcb \in Threads BY DEF IInv, ModeInv
<1> QED BY <1>1, <1>2, <1>3, <1>4

\* Every step keeps the types.
LEMMA NextType == IInv /\ [Next]_vars => TypeOK'
<1> SUFFICES ASSUME IInv, [Next]_vars PROVE TypeOK' OBVIOUS
<1> TypeOK BY DEF IInv
<1> USE DEF list_vars, tcb_vars, pick_vars, boot_vars, cpu_vars, apic_vars,
            ctx_vars
<1> dummy_tcb \in Tcbs /\ Threads \subseteq Tcbs BY DEF Tcbs
<1>1. ASSUME NEW t \in Threads, NEW p \in Priorities,
             create_initial_process(t, p)
      PROVE  TypeOK'
  BY <1>1, PriorityAssumption, CallsAssumption
  DEF create_initial_process, create_thread, scheduler_init, TypeOK, uint16
<1>2. ASSUME NEW t \in Threads, NEW p \in Priorities, create_process(t, p)
      PROVE  TypeOK'
  <2>1. p \in 0..(UINT16_MAX - 1) /\ p \in uint16
    BY PriorityAssumption DEF uint16
  <2>2. MovedToEnd(t) \in [Tcbs -> SUBSET Tcbs]
    BY DEF MovedToEnd, TypeOK
  <2>3. calls' \in 0..NumProcesses
    BY <1>2, CallsAssumption DEF create_process, TypeOK
  <2>4. /\ top_tcb' \in Tcbs \cup {NULL} /\ last_tcb' \in Tcbs \cup {NULL}
        /\ next' \in [Tcbs -> Tcbs \cup {NULL}]
        /\ prev' \in [Tcbs -> Tcbs \cup {NULL}]
        /\ behind' \in [Tcbs -> SUBSET Tcbs]
        /\ thread_count' \in Nat /\ mode' \in Modes
    BY <1>2, <2>2 DEF create_process, scheduler_add_thread, TypeOK, Modes
  <2> QED
    BY <1>2, <2>1, <2>3, <2>4 DEF create_process, create_thread, TypeOK
<1>3. CASE create_process_fails
  BY <1>3, CallsAssumption DEF create_process_fails, TypeOK
<1>4. CASE kmain_sti BY <1>4 DEF kmain_sti, TypeOK, Modes
<1>5. CASE kmain_start_timer BY <1>5 DEF kmain_start_timer, TypeOK, Modes
<1>6. CASE ThreadStep BY <1>6 DEF ThreadStep, TypeOK
<1>7. CASE TimerExpires BY <1>7 DEF TimerExpires, TypeOK
<1>8. CASE timer_interrupt_handler
  <2>1. frame' \in SavedContexts
    BY <1>8, SaveType DEF timer_interrupt_handler, TypeOK, Contexts,
       SavedContexts
  <2>2. max_priority' \in uint16 /\ mode' \in Modes
    BY <1>8, PriorityAssumption DEF timer_interrupt_handler, uint16, Modes
  <2> QED BY <1>8, <2>1, <2>2 DEF timer_interrupt_handler, TypeOK
<1>9. CASE pick_skip BY <1>9 DEF pick_skip, Visiting, TypeOK
<1>10. CASE pick_pass
  BY <1>10, DecType DEF pick_pass, Visiting, TypeOK
<1>11. CASE pick_take
  BY <1>11, DecType DEF pick_take, Visiting, TypeOK
<1>12. CASE pick_none
  BY <1>12, ResetType DEF pick_none, Visited, TypeOK, Modes
<1>13. ASSUME pick_selected
       PROVE  /\ best_tcb \in Tcbs
              /\ active_priority' \in [Tcbs -> uint16]
              /\ MovedToEnd(best_tcb) \in [Tcbs -> SUBSET Tcbs]
  <2>1. best_tcb \in Tcbs BY <1>13, PointerTypes
  <2>2. active_priority' \in [Tcbs -> uint16]
    BY <1>13, <2>1, ResetType DEF pick_selected, TypeOK
  <2> QED BY <2>1, <2>2 DEF TypeOK, MovedToEnd
<1>14. CASE pick_top
  BY <1>14, <1>13 DEF pick_top, pick_selected, TypeOK, Modes
<1>15. CASE pick_last
  BY <1>15, <1>13 DEF pick_last, pick_selected, TypeOK, Modes
<1>16. CASE pick_middle
  BY <1>16, <1>13 DEF pick_middle, pick_selected, TypeOK, Modes
<1>17. CASE context_switch
  <2>1. best_tcb \in Threads /\ running_tcb \in Tcbs
    BY <1>17, PointerTypes DEF context_switch
  <2>2. cr3' \in Threads \cup {NULL, Kernel_PML4_TABLE} /\ mode' \in Modes
    BY <1>17, <2>1 DEF context_switch, page_table, Modes
  <2>3. state' \in [Tcbs -> {"THREAD_NEW", "THREAD_READY", "THREAD_RUNNING",
                            "THREAD_DENIED"}]
    BY <1>17 DEF context_switch, TypeOK
  <2>4. registers' \in [Tcbs -> SavedContexts]
    BY <1>17, <2>1 DEF context_switch, TypeOK
  <2>5. waited' \in [Tcbs -> Nat]
    BY <1>17 DEF context_switch, TypeOK
  <2> QED
    BY <1>17, <2>1, <2>2, <2>3, <2>4, <2>5 DEF context_switch, TypeOK
<1>18. CASE switch_threads
  <2>1. cpu' \in Contexts
    BY <1>18, LoadType, PointerTypes
    DEF switch_threads, TypeOK, Contexts, SavedContexts
  <2> QED BY <1>18, <2>1 DEF switch_threads, TypeOK, Modes
<1>19. CASE UNCHANGED vars BY <1>19 DEF vars, TypeOK
<1> QED
  BY <1>1, <1>2, <1>3, <1>4, <1>5, <1>6, <1>7, <1>8, <1>9, <1>10, <1>11,
     <1>12, <1>14, <1>15, <1>16, <1>17, <1>18, <1>19
  DEF Next, Kmain, Handler, Pick, Spin

(***************************************************************************)
(* What each action does to the set of queued tcbs.                        *)
(***************************************************************************)

\* What membership in the queue means.
LEMMA QueuedBasics ==
  ASSUME IInv
  PROVE  /\ Queued \subseteq Tcbs
         /\ top_tcb = NULL => Queued = {} /\ last_tcb = NULL
         /\ top_tcb # NULL => /\ dummy_tcb \in Queued
                              /\ last_tcb \in Queued /\ last_tcb # NULL
                              /\ NULL \notin Queued
  BY ThreadsAssumption DEF IInv, ModeInv, LinkInv, Queued, Tcbs

\* A step that changes neither top_tcb nor a state keeps the queue.
LEMMA QueuedStable ==
  ASSUME UNCHANGED <<top_tcb, state>>
  PROVE  Queued' = Queued
  BY DEF Queued

\* scheduler_init queues the first thread and dummy_tcb.
LEMMA QueuedInitial ==
  ASSUME IInv, NEW t \in Threads, NEW p \in Priorities,
         create_initial_process(t, p)
  PROVE  top_tcb = NULL /\ Queued = {} /\ Queued' = {t, dummy_tcb}
<1>1. top_tcb = NULL /\ mode = "kmain"
  BY DEF create_initial_process, IInv, ModeInv
<1>2. \A u \in Tcbs : state[u] = "THREAD_NEW" BY <1>1 DEF IInv, ModeInv
<1>3. top_tcb' = t /\ t # NULL
  BY ThreadsAssumption DEF create_initial_process, scheduler_init
<1>4. \A u \in Threads : state'[u] # "THREAD_NEW" <=> u = t
  BY <1>2, ThreadsAssumption
  DEF create_initial_process, scheduler_init, IInv, TypeOK, Tcbs
<1> QED BY <1>1, <1>3, <1>4 DEF Queued

\* create_process queues one more thread.
LEMMA QueuedCreate ==
  ASSUME IInv, NEW t \in Threads, NEW p \in Priorities, create_process(t, p)
  PROVE  /\ t \notin Queued
         /\ top_tcb = NULL => last_tcb = NULL /\ mode' = "fault" /\ Queued' = {}
         /\ top_tcb # NULL => last_tcb # NULL /\ Queued' = Queued \cup {t}
<1>1. state[t] = "THREAD_NEW" /\ t # dummy_tcb
  BY ThreadsAssumption DEF create_process
<1>2. top_tcb' = top_tcb
  BY DEF create_process, scheduler_add_thread, list_vars
<1>3. \A u \in Threads :
        state'[u] # "THREAD_NEW" <=> u = t \/ state[u] # "THREAD_NEW"
  BY DEF create_process, IInv, TypeOK, Tcbs
<1>4. top_tcb = NULL => last_tcb = NULL /\ mode' = "fault"
  BY QueuedBasics DEF create_process, scheduler_add_thread
<1> QED BY <1>1, <1>2, <1>3, <1>4, QueuedBasics DEF Queued

\* The thread the loop took is ready and queued, so it is not dummy_tcb.
LEMMA SelectedFacts ==
  ASSUME IInv, pick_selected
  PROVE  /\ top_tcb # NULL
         /\ best_tcb \in Queued /\ best_tcb \in Threads
         /\ state[best_tcb] = "THREAD_READY"
         /\ \A u \in Threads :
              state'[u] # "THREAD_NEW" <=> state[u] # "THREAD_NEW"
<1>1. best_tcb \in SeenReady
  BY DEF pick_selected, Visited, IInv, PickInv
<1>2. best_tcb \in Queued /\ state[best_tcb] = "THREAD_READY"
  BY <1>1 DEF SeenReady
<1>3. top_tcb # NULL BY <1>2 DEF Queued
<1>4. best_tcb # dummy_tcb BY <1>2, <1>3 DEF IInv, StateInv
<1>5. best_tcb \in Threads BY <1>2, <1>4, <1>3 DEF Queued
<1> QED BY <1>2, <1>3, <1>5 DEF pick_selected, IInv, TypeOK, Tcbs

\* What relinking the top tcb assigns, and that a new top exists.
LEMMA PickTopFacts ==
  ASSUME IInv, pick_top
  PROVE  /\ best_tcb = top_tcb /\ best_tcb # last_tcb
         /\ next[best_tcb] \in Queued /\ next[best_tcb] # NULL
         /\ next[best_tcb] # best_tcb
         /\ Queued' = Queued
<1>1. pick_selected /\ prev[best_tcb] = NULL BY DEF pick_top
<1>2. /\ best_tcb \in Queued /\ best_tcb \in Threads /\ top_tcb # NULL
      /\ dummy_tcb \in Queued /\ NULL \notin Queued
  BY <1>1, SelectedFacts, QueuedBasics
<1>3. best_tcb = top_tcb BY <1>1, <1>2 DEF IInv, LinkInv
<1>4. dummy_tcb \in behind[best_tcb]
  BY <1>2, <1>3, ThreadsAssumption DEF IInv, LinkInv
<1>5. best_tcb # last_tcb BY <1>2, <1>4 DEF IInv, LinkInv
<1>6. next[best_tcb] \in Queued /\ next[best_tcb] \in behind[best_tcb]
  BY <1>2, <1>5 DEF IInv, LinkInv
<1>7. next[best_tcb] # best_tcb
  BY <1>2, <1>6, QueuedBasics DEF IInv, OrderInv
<1>8. top_tcb' # NULL BY <1>2, <1>6 DEF pick_top
<1> QED
  BY <1>1, <1>2, <1>3, <1>5, <1>6, <1>7, <1>8, SelectedFacts DEF Queued

\* Selecting the last tcb leaves the list alone.
LEMMA PickLastFacts ==
  ASSUME IInv, pick_last
  PROVE  best_tcb = last_tcb /\ Queued' = Queued
<1>1. pick_selected /\ next[best_tcb] = NULL BY DEF pick_last
<1>2. best_tcb \in Queued /\ top_tcb # NULL /\ NULL \notin Queued
  BY <1>1, SelectedFacts, QueuedBasics
<1>3. best_tcb = last_tcb BY <1>1, <1>2 DEF IInv, LinkInv
<1>4. top_tcb' = top_tcb BY DEF pick_last, list_vars
<1> QED BY <1>1, <1>2, <1>3, <1>4, SelectedFacts DEF Queued

\* What relinking a tcb in the middle assigns.
LEMMA PickMiddleFacts ==
  ASSUME IInv, pick_middle
  PROVE  /\ best_tcb # top_tcb /\ best_tcb # last_tcb
         /\ next[best_tcb] \in Queued /\ prev[best_tcb] \in Queued
         /\ Queued' = Queued
<1>1. pick_selected /\ prev[best_tcb] # NULL /\ next[best_tcb] # NULL
  BY DEF pick_middle
<1>2. best_tcb \in Queued /\ top_tcb # NULL /\ NULL \notin Queued
  BY <1>1, SelectedFacts, QueuedBasics
<1>3. best_tcb # top_tcb /\ best_tcb # last_tcb
  BY <1>1, <1>2 DEF IInv, LinkInv
<1>4. next[best_tcb] \in Queued /\ prev[best_tcb] \in Queued
  BY <1>2, <1>3 DEF IInv, LinkInv
<1>5. top_tcb' = top_tcb BY DEF pick_middle
<1> QED BY <1>1, <1>2, <1>3, <1>4, <1>5, SelectedFacts DEF Queued

(***************************************************************************)
(* The order of the queue and the linked list.                             *)
(***************************************************************************)

\* A step that touches no pointer and no membership keeps the list.
LEMMA ListStable ==
  ASSUME OrderInv, LinkInv, UNCHANGED list_vars, Queued' = Queued
  PROVE  OrderInv' /\ LinkInv'
  BY DEF OrderInv, LinkInv, list_vars

\* Putting a tcb at the end, from inside the queue or from outside, keeps the
\* order total.
LEMMA MovedOrder ==
  ASSUME TypeOK, OrderInv, NEW t \in Tcbs, Queued \subseteq Tcbs,
         Queued' = Queued \cup {t}, behind' = MovedToEnd(t)
  PROVE  OrderInv'
<1>1. ASSUME NEW x \in Tcbs
      PROVE  /\ x = t \/ x \notin Queued => behind'[x] = {}
             /\ x # t /\ x \in Queued => behind'[x] = behind[x] \cup {t}
  BY DEF MovedToEnd
<1>O. /\ \A x \in Tcbs : behind[x] \subseteq Queued \ {x}
      /\ \A x, y \in Queued : x # y => (y \in behind[x] <=> x \notin behind[y])
      /\ \A x, y \in Queued : y \in behind[x] => behind[y] \subseteq behind[x]
  BY DEF OrderInv
<1>2. ASSUME NEW x \in Tcbs PROVE behind'[x] \subseteq Queued' \ {x}
  <2>1. CASE x = t \/ x \notin Queued BY <1>1, <2>1
  <2>2. CASE x # t /\ x \in Queued BY <1>1, <1>O, <2>2
  <2> QED BY <2>1, <2>2
<1>3. \A x \in Tcbs \ Queued' : behind'[x] = {}
  BY <1>1
<1>4. \A x, y \in Queued' : x # y => (y \in behind'[x] <=> x \notin behind'[y])
  <2> SUFFICES ASSUME NEW x \in Queued', NEW y \in Queued', x # y
               PROVE  y \in behind'[x] <=> x \notin behind'[y]
    OBVIOUS
  <2> x \in Tcbs /\ y \in Tcbs OBVIOUS
  <2>1. CASE x = t BY <1>1, <2>1
  <2>2. CASE y = t BY <1>1, <2>2
  <2>3. CASE x # t /\ y # t
    <3>1. x \in Queued /\ y \in Queued BY <2>3
    <3>2. behind'[x] = behind[x] \cup {t} /\ behind'[y] = behind[y] \cup {t}
      BY <1>1, <2>3, <3>1
    <3> QED BY <1>O, <2>3, <3>1, <3>2
  <2> QED BY <2>1, <2>2, <2>3
<1>5. \A x, y \in Queued' : y \in behind'[x] => behind'[y] \subseteq behind'[x]
  <2> SUFFICES ASSUME NEW x \in Queued', NEW y \in Queued', y \in behind'[x]
               PROVE  behind'[y] \subseteq behind'[x]
    OBVIOUS
  <2> x \in Tcbs /\ y \in Tcbs OBVIOUS
  <2>1. CASE y = t BY <1>1, <2>1
  <2>2. CASE y # t
    <3>1. x # t /\ x \in Queued /\ y \in Queued /\ y \in behind[x]
      BY <1>1, <2>2
    <3>2. behind'[x] = behind[x] \cup {t} /\ behind'[y] = behind[y] \cup {t}
      BY <1>1, <2>2, <3>1
    <3>3. behind[y] \subseteq behind[x] BY <1>O, <3>1
    <3> QED BY <3>2, <3>3
  <2> QED BY <2>1, <2>2
<1> QED BY <1>2, <1>3, <1>4, <1>5 DEF OrderInv

\* scheduler_init builds a two-element list.
LEMMA InitialList ==
  ASSUME IInv, NEW t \in Threads, NEW p \in Priorities,
         create_initial_process(t, p)
  PROVE  OrderInv' /\ LinkInv'
<1>1. Queued = {} /\ Queued' = {t, dummy_tcb} BY QueuedInitial
<1>2. t \in Tcbs /\ dummy_tcb \in Tcbs /\ t # dummy_tcb /\ t # NULL
      /\ dummy_tcb # NULL
  BY ThreadsAssumption DEF Tcbs
<1>3. \A x \in Tcbs : behind'[x] = IF x = t THEN {dummy_tcb} ELSE {}
  <2>1. \A x \in Tcbs : behind[x] = {} BY <1>1 DEF IInv, OrderInv
  <2>2. behind' = [behind EXCEPT ![t] = {dummy_tcb}]
    BY DEF create_initial_process, scheduler_init
  <2> QED BY <1>2, <2>1, <2>2 DEF IInv, TypeOK
<1>4. /\ top_tcb' = t /\ last_tcb' = dummy_tcb
      /\ next'[t] = dummy_tcb /\ next'[dummy_tcb] = NULL
      /\ prev'[t] = NULL /\ prev'[dummy_tcb] = t
  BY <1>2 DEF create_initial_process, scheduler_init, IInv, TypeOK
<1>5. OrderInv' BY <1>1, <1>2, <1>3 DEF OrderInv
<1>6. LinkInv' BY <1>1, <1>2, <1>3, <1>4 DEF LinkInv
<1> QED BY <1>5, <1>6

\* scheduler_add_thread appends to a correct list.
LEMMA CreateList ==
  ASSUME IInv, NEW t \in Threads, NEW p \in Priorities, create_process(t, p)
  PROVE  OrderInv' /\ LinkInv'
<1> t \in Tcbs BY DEF Tcbs
<1>1. CASE top_tcb = NULL
  <2>1. Queued = {} /\ Queued' = {} /\ last_tcb = NULL
    BY <1>1, QueuedCreate, QueuedBasics
  <2>2. UNCHANGED list_vars
    BY <2>1 DEF create_process, scheduler_add_thread
  <2> QED BY <2>1, <2>2, ListStable DEF IInv
<1>2. CASE top_tcb # NULL
  <2>1. /\ t \notin Queued /\ last_tcb # NULL /\ Queued' = Queued \cup {t}
        /\ Queued \subseteq Tcbs /\ last_tcb \in Queued
    BY <1>2, QueuedCreate, QueuedBasics
  <2>2. /\ behind' = MovedToEnd(t) /\ top_tcb' = top_tcb /\ last_tcb' = t
        /\ next' = [next EXCEPT ![last_tcb] = t, ![t] = NULL]
        /\ prev' = [prev EXCEPT ![t] = last_tcb]
    BY <2>1 DEF create_process, scheduler_add_thread
  <2>3. OrderInv' BY <2>1, <2>2, MovedOrder DEF IInv
  <2>4. \A x \in Queued : behind'[x] = behind[x] \cup {t}
    BY <2>1, <2>2 DEF MovedToEnd
  <2>5. behind'[t] = {} BY <2>1, <2>2 DEF MovedToEnd
  <2>6. /\ next'[last_tcb] = t /\ next'[t] = NULL /\ prev'[t] = last_tcb
        /\ \A x \in Queued \ {last_tcb} : next'[x] = next[x]
        /\ \A x \in Queued : prev'[x] = prev[x]
    BY <2>1, <2>2 DEF IInv, TypeOK
  <2>7. /\ top_tcb \in Queued /\ prev[top_tcb] = NULL
        /\ behind[top_tcb] = Queued \ {top_tcb}
        /\ behind[last_tcb] = {}
        /\ \A x \in Queued \ {last_tcb} :
             /\ next[x] \in Queued /\ prev[next[x]] = x
             /\ behind[x] = {next[x]} \cup behind[next[x]]
        /\ \A x \in Queued \ {top_tcb} :
             prev[x] \in Queued /\ next[prev[x]] = x
        /\ next[last_tcb] = NULL /\ NULL \notin Queued
    BY <1>2, QueuedBasics DEF IInv, LinkInv
  <2>8. \A x \in Queued' \ {t} :
             /\ next'[x] \in Queued' /\ prev'[next'[x]] = x
             /\ behind'[x] = {next'[x]} \cup behind'[next'[x]]
    BY <2>1, <2>4, <2>5, <2>6, <2>7
  <2>9. \A x \in Queued' \ {top_tcb} :
             prev'[x] \in Queued' /\ next'[prev'[x]] = x
    BY <2>1, <2>6, <2>7
  <2>10. prev'[top_tcb] = NULL /\ behind'[top_tcb] = Queued' \ {top_tcb}
    BY <2>1, <2>4, <2>6, <2>7
  <2>11. LinkInv'
    BY <2>1, <2>2, <2>5, <2>6, <2>7, <2>8, <2>9, <2>10 DEF LinkInv
  <2> QED BY <2>3, <2>11
<1> QED BY <1>1, <1>2

\* The facts about the list and the order that the relinking cases start from.
LEMMA ListFacts ==
  ASSUME IInv, top_tcb # NULL
  PROVE  /\ top_tcb \in Queued /\ prev[top_tcb] = NULL
         /\ behind[top_tcb] = Queued \ {top_tcb}
         /\ last_tcb \in Queued /\ next[last_tcb] = NULL
         /\ behind[last_tcb] = {}
         /\ NULL \notin Queued /\ Queued \subseteq Tcbs
         /\ \A x \in Queued \ {last_tcb} :
              /\ next[x] \in Queued /\ prev[next[x]] = x /\ next[x] # x
              /\ behind[x] = {next[x]} \cup behind[next[x]]
         /\ \A x \in Queued \ {top_tcb} :
              prev[x] \in Queued /\ next[prev[x]] = x /\ prev[x] # x
         /\ \A x \in Queued : x \notin behind[x]
<1>1. NULL \notin Queued /\ Queued \subseteq Tcbs BY QueuedBasics
<1>2. \A x \in Queued : x \notin behind[x] BY <1>1 DEF IInv, OrderInv
<1>3. /\ top_tcb \in Queued /\ prev[top_tcb] = NULL
      /\ behind[top_tcb] = Queued \ {top_tcb}
      /\ last_tcb \in Queued /\ next[last_tcb] = NULL /\ behind[last_tcb] = {}
      /\ \A x \in Queued \ {last_tcb} :
           /\ next[x] \in Queued /\ prev[next[x]] = x
           /\ behind[x] = {next[x]} \cup behind[next[x]]
      /\ \A x \in Queued \ {top_tcb} : prev[x] \in Queued /\ next[prev[x]] = x
  BY DEF IInv, LinkInv
<1>4. \A x \in Queued \ {last_tcb} : next[x] # x BY <1>2, <1>3
<1>5. \A x \in Queued \ {top_tcb} : prev[x] # x BY <1>1, <1>3, <1>4
<1> QED BY <1>1, <1>2, <1>3, <1>4, <1>5

\* Moving the top tcb to the end gives a correct list again.
LEMMA PickTopList ==
  ASSUME IInv, pick_top
  PROVE  OrderInv' /\ LinkInv'
<1> DEFINE b == best_tcb
           n == next[best_tcb]
           l == last_tcb
<1>1. /\ b = top_tcb /\ b # l /\ n \in Queued /\ n # NULL /\ n # b
      /\ Queued' = Queued
  BY PickTopFacts
<1>2. b \in Queued /\ b \in Tcbs /\ top_tcb # NULL
  BY SelectedFacts DEF pick_top, Tcbs
<1>3. /\ top_tcb' = n /\ last_tcb' = b
      /\ next' = [next EXCEPT ![l] = b, ![b] = NULL]
      /\ prev' = [prev EXCEPT ![n] = NULL, ![b] = l]
      /\ behind' = MovedToEnd(b)
  BY <1>1 DEF pick_top
<1> USE ListFacts
<1>4. OrderInv' BY <1>1, <1>2, <1>3, MovedOrder DEF IInv
<1>5. /\ behind'[b] = {}
      /\ \A x \in Queued \ {b} : behind'[x] = behind[x] \cup {b}
  BY <1>2, <1>3 DEF MovedToEnd
<1>6. /\ next'[b] = NULL /\ next'[l] = b
      /\ \A x \in Queued \ {b, l} : next'[x] = next[x]
  BY <1>1, <1>2, <1>3 DEF IInv, TypeOK
<1>7. /\ prev'[n] = NULL /\ prev'[b] = l
      /\ \A x \in Queued \ {b, n} : prev'[x] = prev[x]
  BY <1>1, <1>2, <1>3 DEF IInv, TypeOK
<1>8. behind'[n] = Queued \ {n}
  <2>1. Queued \ {b} = {n} \cup behind[n] BY <1>1, <1>2
  <2> QED BY <1>1, <1>2, <1>5, <2>1
<1>9. \A x \in Queued \ {b} :
        /\ next'[x] \in Queued /\ prev'[next'[x]] = x
        /\ behind'[x] = {next'[x]} \cup behind'[next'[x]]
  <2> SUFFICES ASSUME NEW x \in Queued \ {b}
               PROVE  /\ next'[x] \in Queued /\ prev'[next'[x]] = x
                      /\ behind'[x] = {next'[x]} \cup behind'[next'[x]]
    OBVIOUS
  <2>1. CASE x = l BY <1>1, <1>2, <1>5, <1>6, <1>7, <2>1
  <2>2. CASE x # l
    <3>1. next'[x] = next[x] BY <1>6, <2>2
    <3>2. next[x] # b /\ next[x] # n BY <1>1, <1>2, <2>2
    <3>3. prev'[next[x]] = x BY <1>2, <1>7, <3>2, <2>2
    <3>4. behind[x] = {next[x]} \cup behind[next[x]] /\ next[x] \in Queued
      BY <1>2, <2>2
    <3>5. behind'[x] = {next[x]} \cup behind'[next[x]]
      BY <1>5, <3>2, <3>4
    <3> QED BY <3>1, <3>3, <3>4, <3>5
  <2> QED BY <2>1, <2>2
<1>10. \A x \in Queued \ {n} : prev'[x] \in Queued /\ next'[prev'[x]] = x
  BY <1>1, <1>2, <1>6, <1>7
<1>11. LinkInv'
  <2>1. /\ top_tcb' \in Queued' /\ prev'[top_tcb'] = NULL
        /\ behind'[top_tcb'] = Queued' \ {top_tcb'}
    BY <1>1, <1>3, <1>7, <1>8
  <2>2. last_tcb' \in Queued' /\ next'[last_tcb'] = NULL /\ behind'[last_tcb'] = {}
    BY <1>1, <1>2, <1>3, <1>5, <1>6
  <2> HIDE ListFacts
  <2>0. Queued' = Queued /\ last_tcb' = b BY <1>1, <1>3
  <2>3. \A x \in Queued' \ {last_tcb'} :
          /\ next'[x] \in Queued' /\ prev'[next'[x]] = x
          /\ behind'[x] = {next'[x]} \cup behind'[next'[x]]
    BY <2>0, <1>9
  <2>4. \A x \in Queued' \ {top_tcb'} :
          prev'[x] \in Queued' /\ next'[prev'[x]] = x
    <3>1. top_tcb' = n BY <1>3
    <3> QED BY <2>0, <3>1, <1>10
  <2> QED BY <2>1, <2>2, <2>3, <2>4 DEF LinkInv
<1> QED BY <1>4, <1>11

\* Moving a tcb out of the middle to the end gives a correct list again.
LEMMA PickMiddleList ==
  ASSUME IInv, pick_middle
  PROVE  OrderInv' /\ LinkInv'
<1> DEFINE b == best_tcb
           n == next[best_tcb]
           m == prev[best_tcb]
           l == last_tcb
<1>1. /\ b # top_tcb /\ b # l /\ n \in Queued /\ m \in Queued
      /\ Queued' = Queued
  BY PickMiddleFacts
<1>2. b \in Queued /\ b \in Tcbs /\ top_tcb # NULL
  BY SelectedFacts DEF pick_middle, Tcbs
<1>3. /\ top_tcb' = top_tcb /\ last_tcb' = b
      /\ next' = [next EXCEPT ![m] = n, ![l] = b, ![b] = NULL]
      /\ prev' = [prev EXCEPT ![n] = m, ![b] = l]
      /\ behind' = MovedToEnd(b)
  BY DEF pick_middle
<1> USE ListFacts
<1>4. OrderInv' BY <1>1, <1>2, <1>3, MovedOrder DEF IInv
<1>5. /\ behind'[b] = {}
      /\ \A x \in Queued \ {b} : behind'[x] = behind[x] \cup {b}
  BY <1>2, <1>3 DEF MovedToEnd
<1>6. /\ n # b /\ m # b /\ m # l /\ next[m] = b /\ prev[n] = b
      /\ n # top_tcb
  BY <1>1, <1>2
<1>7. /\ next'[b] = NULL /\ next'[l] = b /\ next'[m] = n
      /\ \A x \in Queued \ {b, l, m} : next'[x] = next[x]
  BY <1>1, <1>2, <1>3, <1>6 DEF IInv, TypeOK
<1>8. /\ prev'[n] = m /\ prev'[b] = l
      /\ \A x \in Queued \ {b, n} : prev'[x] = prev[x]
  BY <1>1, <1>2, <1>3, <1>6 DEF IInv, TypeOK
<1>9. prev'[top_tcb] = NULL /\ behind'[top_tcb] = Queued \ {top_tcb}
  BY <1>1, <1>2, <1>5, <1>6, <1>8
<1>10. \A x \in Queued \ {b} :
        /\ next'[x] \in Queued /\ prev'[next'[x]] = x
        /\ behind'[x] = {next'[x]} \cup behind'[next'[x]]
  <2> SUFFICES ASSUME NEW x \in Queued \ {b}
               PROVE  /\ next'[x] \in Queued /\ prev'[next'[x]] = x
                      /\ behind'[x] = {next'[x]} \cup behind'[next'[x]]
    OBVIOUS
  <2>1. CASE x = l BY <1>1, <1>2, <1>5, <1>7, <1>8, <2>1
  <2>2. CASE x = m
    <3>1. behind[m] = {b} \cup behind[b] /\ behind[b] = {n} \cup behind[n]
      BY <1>1, <1>2, <1>6
    <3>2. behind'[m] = {n} \cup behind'[n] BY <1>1, <1>5, <1>6, <3>1
    <3> QED BY <1>1, <1>7, <1>8, <2>2, <3>2
  <2>3. CASE x # l /\ x # m
    <3>1. next'[x] = next[x] BY <1>7, <2>3
    <3>2. next[x] # b /\ next[x] # n BY <1>1, <1>2, <1>6, <2>3
    <3>3. prev'[next[x]] = x BY <1>2, <1>8, <3>2, <2>3
    <3>4. behind[x] = {next[x]} \cup behind[next[x]] /\ next[x] \in Queued
      BY <1>2, <2>3
    <3>5. behind'[x] = {next[x]} \cup behind'[next[x]]
      BY <1>5, <3>2, <3>4
    <3> QED BY <3>1, <3>3, <3>4, <3>5
  <2> QED BY <2>1, <2>2, <2>3
<1>11. \A x \in Queued \ {top_tcb} : prev'[x] \in Queued /\ next'[prev'[x]] = x
  <2> SUFFICES ASSUME NEW x \in Queued \ {top_tcb}
               PROVE  prev'[x] \in Queued /\ next'[prev'[x]] = x
    OBVIOUS
  <2>1. CASE x = b \/ x = n BY <1>1, <1>2, <1>7, <1>8, <2>1
  <2>2. CASE x # b /\ x # n
    <3>1. prev'[x] = prev[x] /\ prev[x] \in Queued /\ next[prev[x]] = x
      BY <1>2, <1>8, <2>2
    <3>2. prev[x] \notin {b, l, m} BY <1>2, <1>6, <2>2, <3>1
    <3> QED BY <1>7, <3>1, <3>2
  <2> QED BY <2>1, <2>2
<1>12. LinkInv'
  <2>1. /\ top_tcb' \in Queued' /\ prev'[top_tcb'] = NULL
        /\ behind'[top_tcb'] = Queued' \ {top_tcb'}
    BY <1>1, <1>2, <1>3, <1>9
  <2>2. last_tcb' \in Queued' /\ next'[last_tcb'] = NULL /\ behind'[last_tcb'] = {}
    BY <1>1, <1>2, <1>3, <1>5, <1>7
  <2> HIDE ListFacts
  <2>0. Queued' = Queued /\ last_tcb' = b BY <1>1, <1>3
  <2>3. \A x \in Queued' \ {last_tcb'} :
          /\ next'[x] \in Queued' /\ prev'[next'[x]] = x
          /\ behind'[x] = {next'[x]} \cup behind'[next'[x]]
    BY <2>0, <1>10
  <2>4. \A x \in Queued' \ {top_tcb'} :
          prev'[x] \in Queued' /\ next'[prev'[x]] = x
    <3>1. top_tcb' = top_tcb BY <1>3
    <3> QED BY <2>0, <3>1, <1>11
  <2> QED BY <2>1, <2>2, <2>3, <2>4 DEF LinkInv
<1> QED BY <1>4, <1>12

\* The steps that touch neither the list nor any tcb state.
QuietStep ==
  \/ create_process_fails \/ kmain_sti \/ kmain_start_timer
  \/ ThreadStep \/ TimerExpires \/ timer_interrupt_handler
  \/ pick_skip \/ pick_pass \/ pick_take \/ pick_none
  \/ switch_threads \/ UNCHANGED vars

\* The steps that leave the list and the states alone.
LEMMA QuietFacts ==
  ASSUME QuietStep
  PROVE  UNCHANGED list_vars /\ UNCHANGED state /\ UNCHANGED priority
         /\ UNCHANGED running_tcb
BY DEF QuietStep, create_process_fails, kmain_sti, kmain_start_timer,
       ThreadStep, TimerExpires, timer_interrupt_handler, pick_skip,
       pick_pass, pick_take, pick_none, switch_threads, vars, tcb_vars

\* Every step is quiet, creates a thread, relinks the list or switches.
LEMMA NextCases ==
  ASSUME [Next]_vars
  PROVE  \/ \E t \in Threads, p \in Priorities : create_initial_process(t, p)
         \/ \E t \in Threads, p \in Priorities : create_process(t, p)
         \/ QuietStep \/ pick_top \/ pick_last \/ pick_middle
         \/ context_switch
BY DEF Next, Kmain, Handler, Pick, Spin, QuietStep

\* What context_switch does to the states.
LEMMA SwitchFacts ==
  ASSUME IInv, context_switch
  PROVE  /\ UNCHANGED list_vars /\ Queued' = Queued /\ top_tcb # NULL
         /\ best_tcb \in Queued /\ best_tcb \in Threads
         /\ last_tcb = best_tcb /\ running_tcb \in Queued
         /\ running_tcb' = best_tcb /\ mode' = "restore"
<1>1. mode = "switch" /\ UNCHANGED list_vars BY DEF context_switch
<1>2. top_tcb # NULL BY <1>1 DEF IInv, ModeInv
<1>3. best_tcb \in Queued \ {dummy_tcb} /\ last_tcb = best_tcb
  BY <1>1, <1>2 DEF IInv, StateInv, QueuedThreads
<1>4. best_tcb \in Threads /\ state[best_tcb] # "THREAD_NEW"
  BY <1>2, <1>3 DEF Queued
<1>5. running_tcb \in Queued BY <1>2 DEF IInv, ModeInv
<1>6. running_tcb \in Threads => state[running_tcb] # "THREAD_NEW"
  BY <1>2, <1>5, ThreadsAssumption DEF Queued
<1>7. \A t \in Threads :
        state'[t] # "THREAD_NEW" <=> state[t] # "THREAD_NEW"
  BY <1>4, <1>6 DEF context_switch, Tcbs
<1>8. top_tcb' = top_tcb BY <1>1 DEF list_vars
<1>9. Queued' = Queued BY <1>7, <1>8 DEF Queued
<1> QED BY <1>1, <1>2, <1>3, <1>4, <1>5, <1>9 DEF context_switch

\* Every step keeps the list and its order.
LEMMA NextList == IInv /\ [Next]_vars => OrderInv' /\ LinkInv'
<1> SUFFICES ASSUME IInv, [Next]_vars PROVE OrderInv' /\ LinkInv' OBVIOUS
<1>1. CASE QuietStep
  <2>1. UNCHANGED list_vars /\ UNCHANGED <<top_tcb, state>>
    BY <1>1, QuietFacts DEF list_vars
  <2> QED BY <2>1, QueuedStable, ListStable DEF IInv
<1>2. CASE pick_last
  <2>1. UNCHANGED list_vars BY <1>2 DEF pick_last
  <2> QED BY <1>2, <2>1, PickLastFacts, ListStable DEF IInv
<1>3. CASE context_switch
  BY <1>3, SwitchFacts, ListStable DEF IInv
<1> QED
  BY <1>1, <1>2, <1>3, NextCases, InitialList, CreateList, PickTopList,
     PickMiddleList

(***************************************************************************)
(* Modes and tcb states.                                                   *)
(***************************************************************************)

\* Every step keeps what the mode says about the globals.
LEMMA NextMode == IInv /\ [Next]_vars => ModeInv'
<1> SUFFICES ASSUME IInv, [Next]_vars PROVE ModeInv' OBVIOUS
<1> ModeInv /\ TypeOK BY DEF IInv
<1> USE DEF list_vars, tcb_vars, pick_vars, boot_vars, cpu_vars, apic_vars,
            ctx_vars
<1>1. ASSUME NEW t \in Threads, NEW p \in Priorities,
             create_initial_process(t, p)
      PROVE  ModeInv'
  <2>1. Queued' = {t, dummy_tcb} BY <1>1, QueuedInitial
  <2> QED
    BY <1>1, <2>1, ThreadsAssumption
    DEF create_initial_process, scheduler_init, ModeInv
<1>2. ASSUME NEW t \in Threads, NEW p \in Priorities, create_process(t, p)
      PROVE  ModeInv'
  <2>1. CASE top_tcb = NULL
    <3>1. mode' = "fault" /\ UNCHANGED <<top_tcb, last_tcb, running_tcb>>
      BY <1>2, <2>1, QueuedCreate DEF create_process, scheduler_add_thread
    <3> QED BY <2>1, <3>1, ThreadsAssumption DEF ModeInv
  <2>2. CASE top_tcb # NULL
    <3>1. Queued' = Queued \cup {t} /\ last_tcb # NULL
      BY <1>2, <2>2, QueuedCreate
    <3>2. /\ UNCHANGED <<top_tcb, running_tcb, mode>>
          /\ calls \in 1..(NumProcesses - 1) /\ calls' = calls + 1
      BY <1>2, <3>1 DEF create_process, scheduler_add_thread
    <3>3. calls' # 0 BY <3>2, CallsAssumption
    <3> QED BY <2>2, <3>1, <3>2, <3>3 DEF ModeInv
  <2> QED BY <2>1, <2>2
<1>3. CASE QuietStep
  <2>1. /\ UNCHANGED <<top_tcb, last_tcb, running_tcb, state>>
        /\ Queued' = Queued
    BY <1>3, QuietFacts, QueuedStable
  <2>2. calls' = 0 => calls = 0
    BY <1>3, CallsAssumption
    DEF QuietStep, create_process_fails, kmain_sti, kmain_start_timer,
        ThreadStep, TimerExpires, timer_interrupt_handler, pick_skip,
        pick_pass, pick_take, pick_none, switch_threads, vars, TypeOK
  <2>3. /\ mode' \in {"switch", "restore"} =>
             \/ mode' = mode
             \/ mode' = "switch" /\ last_tcb # NULL
        /\ mode' = "fault" => mode = "fault" \/ last_tcb = NULL
        /\ mode' \in {"kmain", "sti"} => mode \in {"kmain", "sti"}
        /\ mode = "fault" => mode' = "fault" \/ rflags_IF
    BY <1>3
    DEF QuietStep, create_process_fails, kmain_sti, kmain_start_timer,
        ThreadStep, TimerExpires, timer_interrupt_handler, pick_skip,
        pick_pass, pick_take, pick_none, switch_threads, vars, Visiting,
        Visited
  <2>4. mode = "fault" => mode' = "fault"
    BY <2>3 DEF IInv, MaskInv
  <2>5. top_tcb # NULL => last_tcb # NULL BY QueuedBasics
  <2> QED BY <2>1, <2>2, <2>3, <2>4, <2>5 DEF ModeInv
<1>4. CASE pick_top
  <2>1. /\ next[best_tcb] # NULL /\ Queued' = Queued /\ top_tcb # NULL
    BY <1>4, PickTopFacts, SelectedFacts DEF pick_top
  <2> QED
    BY <1>4, <2>1 DEF pick_top, pick_selected, ModeInv
<1>5. CASE pick_last
  <2>1. Queued' = Queued /\ top_tcb # NULL
    BY <1>5, PickLastFacts, SelectedFacts DEF pick_last
  <2> QED BY <1>5, <2>1 DEF pick_last, pick_selected, ModeInv
<1>6. CASE pick_middle
  <2>1. Queued' = Queued /\ top_tcb # NULL
    BY <1>6, PickMiddleFacts, SelectedFacts DEF pick_middle
  <2> QED BY <1>6, <2>1 DEF pick_middle, pick_selected, ModeInv
<1>7. CASE context_switch
  <2>1. calls' = calls BY <1>7 DEF context_switch
  <2> QED BY <1>7, <2>1, SwitchFacts DEF ModeInv
<1> QED BY <1>1, <1>2, <1>3, <1>4, <1>5, <1>6, <1>7, NextCases

\* When the loop has taken nobody, a thread is already running and it is the
\* last of the queue: at the first tick the loop always takes somebody.
LEMMA FallbackFacts ==
  ASSUME IInv, pick_none, top_tcb # NULL
  PROVE  running_tcb \in QueuedThreads /\ last_tcb = running_tcb
<1>1. mode = "pick" /\ active_tcb = NULL /\ max_priority = UINT16_MAX
  BY DEF pick_none, Visited
<1>2. running_tcb # dummy_tcb
  <2> SUFFICES ASSUME running_tcb = dummy_tcb PROVE FALSE OBVIOUS
  <2>1. top_tcb \in Threads /\ top_tcb \in Queued /\ top_tcb # dummy_tcb
    BY <1>1, ThreadsAssumption DEF IInv, FirstTickInv, LinkInv
  <2>2. entry_priority[top_tcb] < UINT16_MAX
    BY <1>1, <2>1 DEF IInv, FirstTickInv, QueuedThreads
  <2>3. state[top_tcb] = "THREAD_READY"
    BY <1>1, <2>1 DEF IInv, StateInv, QueuedThreads
  <2>4. top_tcb \in SeenReady BY <1>1, <2>1, <2>3 DEF SeenReady, ToVisit
  <2>5. entry_priority[top_tcb] = UINT16_MAX
    BY <1>1, <2>4 DEF IInv, PickInv
  <2> QED BY <2>2, <2>5, PriorityAssumption
<1>3. running_tcb \in Queued BY DEF IInv, ModeInv
<1>4. running_tcb \in Threads BY <1>2, <1>3 DEF Queued
<1>5. last_tcb = running_tcb BY <1>1, <1>4 DEF IInv, StateInv
<1> QED BY <1>2, <1>3, <1>5 DEF QueuedThreads

\* A step inside the loop, or into it, leaves everything else as it was; a
\* handler that switches threads cannot be interrupted.
LEMMA QuietModes ==
  ASSUME IInv, QuietStep
  PROVE  /\ mode' = "switch" => (mode = "switch" /\ best_tcb' = best_tcb)
                               \/ (pick_none /\ best_tcb' = last_tcb)
         /\ mode = "switch" => mode' = "switch"
<1> USE DEF list_vars, tcb_vars, pick_vars, boot_vars, cpu_vars, apic_vars,
            ctx_vars
<1>1. rflags_IF => mode # "switch" BY DEF IInv, MaskInv
<1> QED
  BY <1>1
  DEF QuietStep, create_process_fails, kmain_sti, kmain_start_timer,
      ThreadStep, TimerExpires, timer_interrupt_handler, pick_skip,
      pick_pass, pick_take, pick_none, switch_threads, vars, Visiting,
      Visited

\* Every step keeps the states of the tcbs consistent with who runs.
LEMMA NextState == IInv /\ [Next]_vars => StateInv'
<1> SUFFICES ASSUME IInv, [Next]_vars PROVE StateInv' OBVIOUS
<1> StateInv /\ TypeOK /\ ModeInv BY DEF IInv
<1> USE DEF QueuedThreads
<1>1. ASSUME NEW t \in Threads, NEW p \in Priorities,
             create_initial_process(t, p)
      PROVE  StateInv'
  <2>1. Queued' = {t, dummy_tcb} /\ t # dummy_tcb
    BY <1>1, QueuedInitial, ThreadsAssumption
  <2>2. /\ running_tcb' = dummy_tcb /\ mode' = "kmain"
        /\ state'[t] = "THREAD_READY" /\ state'[dummy_tcb] = "THREAD_DENIED"
    BY <1>1, <2>1
    DEF create_initial_process, scheduler_init, TypeOK, Tcbs
  <2> QED BY <2>1, <2>2, ThreadsAssumption DEF StateInv
<1>2. ASSUME NEW t \in Threads, NEW p \in Priorities, create_process(t, p)
      PROVE  StateInv'
  <2>1. CASE top_tcb = NULL
    <3>1. top_tcb' = NULL
      BY <1>2, <2>1 DEF create_process, scheduler_add_thread, list_vars
    <3> QED BY <3>1 DEF StateInv
  <2>2. CASE top_tcb # NULL
    <3>1. Queued' = Queued \cup {t} /\ t \notin Queued /\ last_tcb # NULL
          /\ dummy_tcb \in Queued /\ t \in Tcbs /\ Queued \subseteq Tcbs
      BY <1>2, <2>2, QueuedCreate, QueuedBasics DEF Tcbs
    <3>2. /\ mode' = mode /\ mode = "kmain" /\ running_tcb' = running_tcb
          /\ running_tcb \notin Threads
      BY <1>2, <3>1 DEF create_process, scheduler_add_thread, ModeInv
    <3>3. /\ state'[t] = "THREAD_READY"
          /\ \A u \in Queued : state'[u] = state[u]
      BY <1>2, <3>1 DEF create_process, TypeOK
    <3> QED BY <2>2, <3>1, <3>2, <3>3 DEF StateInv
  <2> QED BY <2>1, <2>2
<1>3. CASE QuietStep
  <2>1. /\ UNCHANGED <<top_tcb, last_tcb, running_tcb, state>>
        /\ Queued' = Queued
    BY <1>3, QuietFacts, QueuedStable DEF list_vars
  <2>2. CASE mode' # "switch"
    BY <1>3, <2>1, <2>2, QuietModes DEF StateInv
  <2>3. CASE mode' = "switch" /\ mode = "switch" /\ best_tcb' = best_tcb
    BY <2>1, <2>3 DEF StateInv
  <2>4. CASE mode' = "switch" /\ pick_none /\ best_tcb' = last_tcb
    <3>1. mode = "pick" BY <2>4 DEF pick_none, Visited
    <3> QED BY <2>1, <2>4, <3>1, FallbackFacts DEF StateInv
  <2> QED BY <1>3, <2>2, <2>3, <2>4, QuietModes
<1>4. ASSUME pick_selected, Queued' = Queued, last_tcb' = best_tcb,
             mode' = "switch"
      PROVE  StateInv'
  <2>1. /\ best_tcb \in Queued /\ best_tcb \in Threads /\ top_tcb # NULL
        /\ best_tcb # dummy_tcb /\ dummy_tcb \in Tcbs /\ Queued \subseteq Tcbs
    BY <1>4, SelectedFacts, QueuedBasics, ThreadsAssumption DEF Tcbs
  <2>2. /\ mode = "pick" /\ running_tcb' = running_tcb /\ best_tcb' = best_tcb
        /\ state' = [state EXCEPT ![best_tcb] = "THREAD_RUNNING"]
    BY <1>4 DEF pick_selected, Visited, pick_vars
  <2>3. /\ state'[best_tcb] = "THREAD_RUNNING"
        /\ \A u \in Tcbs \ {best_tcb} : state'[u] = state[u]
    BY <2>1, <2>2 DEF TypeOK
  <2> QED BY <1>4, <2>1, <2>2, <2>3 DEF StateInv
<1>5. CASE pick_top
  BY <1>4, <1>5, PickTopFacts DEF pick_top
<1>6. CASE pick_last
  BY <1>4, <1>6, PickLastFacts DEF pick_last, list_vars
<1>7. CASE pick_middle
  BY <1>4, <1>7, PickMiddleFacts DEF pick_middle
<1>8. CASE context_switch
  <2>1. /\ mode = "switch" /\ best_tcb # dummy_tcb /\ Queued \subseteq Tcbs
        /\ dummy_tcb \in Tcbs
    BY <1>8, SwitchFacts, QueuedBasics, ThreadsAssumption
    DEF context_switch, Tcbs
  <2>2. \A u \in Tcbs : state'[u] =
          IF u = best_tcb THEN "THREAD_RUNNING"
          ELSE IF u = running_tcb /\ u # dummy_tcb THEN "THREAD_READY"
          ELSE state[u]
    BY <1>8 DEF context_switch
  <2>3. last_tcb' = last_tcb BY <1>8 DEF context_switch, list_vars
  <2> QED BY <1>8, <2>1, <2>2, <2>3, SwitchFacts DEF StateInv
<1> QED BY <1>1, <1>2, <1>3, <1>5, <1>6, <1>7, <1>8, NextCases

\* Every step keeps interrupts masked inside the handler.
LEMMA NextMask == IInv /\ [Next]_vars => MaskInv'
<1> SUFFICES ASSUME IInv, [Next]_vars PROVE MaskInv' OBVIOUS
<1> MaskInv BY DEF IInv
<1> USE DEF list_vars, tcb_vars, pick_vars, boot_vars, cpu_vars, apic_vars,
            ctx_vars
<1>1. ASSUME NEW t \in Threads, NEW p \in Priorities,
             create_initial_process(t, p)
      PROVE  MaskInv'
  BY <1>1 DEF create_initial_process, MaskInv
<1>2. ASSUME NEW t \in Threads, NEW p \in Priorities, create_process(t, p)
      PROVE  MaskInv'
  <2>1. mode = "kmain" /\ ~rflags_IF' /\ UNCHANGED <<timer_on, irr>>
    BY <1>2 DEF create_process
  <2> QED BY <2>1 DEF MaskInv
<1>3. CASE QuietStep
  BY <1>3
  DEF QuietStep, create_process_fails, kmain_sti, kmain_start_timer,
      ThreadStep, TimerExpires, timer_interrupt_handler, pick_skip,
      pick_pass, pick_take, pick_none, switch_threads, vars, Visiting,
      Visited, MaskInv
<1>4. CASE pick_top \/ pick_last \/ pick_middle
  <2>1. /\ mode = "pick" /\ mode' \in {"switch", "fault"}
        /\ UNCHANGED <<rflags_IF, timer_on, irr>>
    BY <1>4 DEF pick_top, pick_last, pick_middle, pick_selected, Visited
  <2> QED BY <2>1 DEF MaskInv
<1>5. CASE context_switch BY <1>5 DEF context_switch, MaskInv
<1> QED BY <1>1, <1>2, <1>3, <1>4, <1>5, NextCases

\* Every step before the first switch keeps somebody to pick.
LEMMA NextFirstTick == IInv /\ [Next]_vars => FirstTickInv'
<1> SUFFICES ASSUME IInv, [Next]_vars PROVE FirstTickInv' OBVIOUS
<1> FirstTickInv /\ TypeOK /\ ModeInv /\ MaskInv BY DEF IInv
<1> USE DEF QueuedThreads
<1>1. ASSUME NEW t \in Threads, NEW p \in Priorities,
             create_initial_process(t, p)
      PROVE  FirstTickInv'
  <2>1. Queued' = {t, dummy_tcb} BY <1>1, QueuedInitial
  <2>2. top_tcb' = t /\ active_priority'[t] = p /\ mode' = "kmain"
    BY <1>1
    DEF create_initial_process, scheduler_init, create_thread, TypeOK, Tcbs
  <2>3. p < UINT16_MAX BY PriorityAssumption
  <2> QED BY <2>1, <2>2, <2>3 DEF FirstTickInv
<1>2. ASSUME NEW t \in Threads, NEW p \in Priorities, create_process(t, p)
      PROVE  FirstTickInv'
  <2>1. CASE top_tcb = NULL
    <3>1. top_tcb' = NULL
      BY <1>2, <2>1 DEF create_process, scheduler_add_thread, list_vars
    <3> QED BY <3>1 DEF FirstTickInv
  <2>2. CASE top_tcb # NULL
    <3>1. Queued' = Queued \cup {t} /\ last_tcb # NULL /\ t \in Tcbs
          /\ t \notin Queued /\ Queued \subseteq Tcbs
      BY <1>2, <2>2, QueuedCreate, QueuedBasics DEF Tcbs
    <3>2. /\ mode' = "kmain" /\ mode = "kmain"
          /\ UNCHANGED <<running_tcb, top_tcb>>
      BY <1>2, <3>1 DEF create_process, scheduler_add_thread
    <3>3. /\ active_priority'[t] = p
          /\ \A u \in Queued : active_priority'[u] = active_priority[u]
      BY <1>2, <3>1 DEF create_process, create_thread, TypeOK
    <3>4. p < UINT16_MAX BY PriorityAssumption
    <3> QED BY <2>2, <3>1, <3>2, <3>3, <3>4 DEF FirstTickInv
  <2> QED BY <2>1, <2>2
<1>3. CASE QuietStep
  <2>1. UNCHANGED <<top_tcb, running_tcb>> /\ Queued' = Queued
    BY <1>3, QuietFacts, QueuedStable DEF list_vars
  <2>2. CASE timer_interrupt_handler
    <3>1. mode' = "pick" /\ entry_priority' = active_priority
          /\ mode \in {"sti", "run"}
      BY <2>2 DEF timer_interrupt_handler, MaskInv
    <3> QED BY <2>1, <3>1 DEF FirstTickInv
  <2>3. CASE mode' = "switch" \/ mode = "restore" \/ mode = "switch"
    BY <1>3, <2>1, <2>3, QuietModes, ThreadsAssumption DEF FirstTickInv, ModeInv
  <2>4. CASE mode = "pick" /\ mode' = "pick" /\ entry_priority' = entry_priority
    BY <2>1, <2>4 DEF FirstTickInv
  <2>5. CASE /\ mode' # "pick" /\ mode # "pick" /\ mode # "switch"
             /\ active_priority' = active_priority
    BY <2>1, <2>5 DEF FirstTickInv
  <2>6. CASE top_tcb = NULL BY <2>1, <2>6 DEF FirstTickInv
  <2>7. \/ timer_interrupt_handler
        \/ mode' = "switch" \/ mode = "restore" \/ mode = "switch"
        \/ mode = "pick" /\ mode' = "pick" /\ entry_priority' = entry_priority
        \/ /\ mode' # "pick" /\ mode # "pick" /\ mode # "switch"
           /\ active_priority' = active_priority
        \/ top_tcb = NULL
    <3>1. last_tcb = NULL => top_tcb = NULL BY QueuedBasics
    <3> QED
      BY <1>3, <3>1
      DEF QuietStep, create_process_fails, kmain_sti, kmain_start_timer,
          ThreadStep, TimerExpires, pick_skip, pick_pass, pick_take,
          pick_none, switch_threads, vars, Visiting, Visited, list_vars,
          tcb_vars, pick_vars, boot_vars, cpu_vars, apic_vars, ctx_vars
  <2> QED BY <2>2, <2>3, <2>4, <2>5, <2>6, <2>7
<1>4. CASE pick_top
  BY <1>4, PickTopFacts DEF pick_top, FirstTickInv
<1>5. CASE pick_last \/ pick_middle
  BY <1>5 DEF pick_last, pick_middle, FirstTickInv
<1>6. CASE context_switch
  BY <1>6, SwitchFacts, ThreadsAssumption DEF FirstTickInv
<1> QED BY <1>1, <1>2, <1>3, <1>4, <1>5, <1>6, NextCases

(***************************************************************************)
(* The loop of scheduler_pick_next_thread.                                 *)
(***************************************************************************)

\* One iteration moves exactly the visited tcb out of the part to visit.
LEMMA Advance ==
  ASSUME IInv, Visiting, active_tcb' = next[active_tcb],
         UNCHANGED list_vars, UNCHANGED state
  PROVE  /\ active_tcb \in Queued /\ Queued' = Queued
         /\ active_tcb' # NULL => active_tcb' \in Queued
         /\ active_tcb \notin SeenReady
         /\ SeenReady' = IF state[active_tcb] = "THREAD_READY"
                           THEN SeenReady \cup {active_tcb} ELSE SeenReady
         /\ \A t \in SeenReady :
              /\ t \in Queued /\ t # active_tcb
              /\ active_tcb \in behind[t] /\ t \notin behind[active_tcb]
<1>1. active_tcb \in Queued /\ active_tcb # NULL
  BY DEF Visiting, IInv, PickInv
<1>2. top_tcb # NULL BY <1>1 DEF Queued
<1>3. Queued' = Queued BY QueuedStable DEF list_vars
<1>4. active_tcb' # NULL => active_tcb' \in Queued
  BY <1>1, <1>2, ListFacts
<1>5. ToVisit = {active_tcb} \cup behind[active_tcb] BY <1>1 DEF ToVisit
<1>6. ToVisit' = behind[active_tcb]
  <2>1. CASE active_tcb = last_tcb
    <3>1. active_tcb' = NULL /\ behind[active_tcb] = {}
      BY <1>2, <2>1, ListFacts
    <3> QED BY <3>1 DEF ToVisit
  <2>2. CASE active_tcb # last_tcb
    <3>1. /\ active_tcb' # NULL
          /\ behind[active_tcb] = {active_tcb'} \cup behind[active_tcb']
      BY <1>1, <1>2, <2>2, ListFacts
    <3> QED BY <3>1 DEF ToVisit, list_vars
  <2> QED BY <2>1, <2>2
<1>7. active_tcb \notin behind[active_tcb] BY <1>1, <1>2, ListFacts
<1>8. SeenReady' = IF state[active_tcb] = "THREAD_READY"
                    THEN SeenReady \cup {active_tcb} ELSE SeenReady
  BY <1>1, <1>3, <1>5, <1>6, <1>7 DEF SeenReady
<1>9. \A t \in SeenReady :
        /\ t \in Queued /\ t # active_tcb /\ t \notin behind[active_tcb]
  BY <1>5 DEF SeenReady
<1>10. \A t \in SeenReady : active_tcb \in behind[t]
  BY <1>1, <1>9 DEF IInv, OrderInv
<1> QED BY <1>1, <1>3, <1>4, <1>8, <1>9, <1>10

\* Every iteration of scheduler_pick_next_thread keeps its loop invariant.
LEMMA NextPick == IInv /\ [Next]_vars => PickInv'
<1> SUFFICES ASSUME IInv, [Next]_vars, mode' = "pick" PROVE PickInv'
  BY DEF PickInv
<1> TypeOK /\ PickInv BY DEF IInv
<1> USE DEF list_vars, tcb_vars, pick_vars, boot_vars, cpu_vars, apic_vars,
            ctx_vars
<1> DEFINE Ready == state[active_tcb] = "THREAD_READY"
<1>1. CASE timer_interrupt_handler
  <2>1. /\ active_tcb' = top_tcb /\ max_priority' = UINT16_MAX
        /\ entry_priority' = active_priority
        /\ active_priority' = active_priority
        /\ UNCHANGED behind /\ Queued' = Queued
    BY <1>1, QueuedStable DEF timer_interrupt_handler
  <2>2. Queued \subseteq ToVisit'
    <3>1. CASE top_tcb = NULL BY <3>1, QueuedBasics
    <3>2. CASE top_tcb # NULL
      <4>1. Queued = {top_tcb} \cup behind[top_tcb] BY <3>2, ListFacts
      <4> QED BY <2>1, <3>2, <4>1 DEF ToVisit
    <3> QED BY <3>1, <3>2
  <2>3. SeenReady' = {} BY <2>1, <2>2 DEF SeenReady
  <2>4. active_tcb' # NULL => active_tcb' \in Queued' BY <2>1, ListFacts
  <2> QED BY <2>1, <2>3, <2>4 DEF PickInv
<1>2. ASSUME pick_skip PROVE PickInv'
  <2>1. /\ UNCHANGED <<list_vars, state, behind, active_priority,
                       entry_priority, best_tcb, max_priority>>
        /\ Visiting /\ ~Ready /\ active_tcb' = next[active_tcb]
    BY <1>2 DEF pick_skip
  <2>2. /\ SeenReady' = SeenReady /\ Queued' = Queued
        /\ active_tcb' # NULL => active_tcb' \in Queued
    BY <2>1, Advance
  <2>3. mode = "pick" BY <2>1 DEF Visiting
  <2> QED BY <2>1, <2>2, <2>3 DEF PickInv
<1>3. ASSUME Visiting, Ready, active_tcb' = next[active_tcb],
             UNCHANGED <<list_vars, state, entry_priority>>,
             active_priority' = [active_priority EXCEPT
                                   ![active_tcb] = saturating_dec16(@)]
      PROVE  /\ mode = "pick" /\ active_tcb \in Tcbs
             /\ SeenReady' = SeenReady \cup {active_tcb} /\ Queued' = Queued
             /\ active_tcb' # NULL => active_tcb' \in Queued
             /\ active_tcb \notin SeenReady
             /\ active_priority[active_tcb] = entry_priority[active_tcb]
             /\ \A t \in Tcbs : active_priority'[t] =
                  IF t \in SeenReady' THEN saturating_dec16(entry_priority'[t])
                  ELSE entry_priority'[t]
  <2>1. /\ SeenReady' = SeenReady \cup {active_tcb} /\ Queued' = Queued
        /\ active_tcb' # NULL => active_tcb' \in Queued
        /\ active_tcb \notin SeenReady
    BY <1>3, Advance
  <2>2. mode = "pick" /\ active_tcb \in Tcbs
    BY <1>3 DEF Visiting, TypeOK
  <2>3. active_priority[active_tcb] = entry_priority[active_tcb]
    BY <2>1, <2>2 DEF PickInv
  <2>4. \A t \in Tcbs : active_priority'[t] =
           IF t = active_tcb THEN saturating_dec16(active_priority[t])
           ELSE active_priority[t]
    BY <1>3, <2>2 DEF TypeOK
  <2>5. \A t \in Tcbs : active_priority[t] =
           IF t \in SeenReady THEN saturating_dec16(entry_priority[t])
           ELSE entry_priority[t]
    BY <2>2 DEF PickInv
  <2> QED BY <1>3, <2>1, <2>2, <2>3, <2>4, <2>5
<1>4. ASSUME pick_pass PROVE PickInv'
  <2>1. /\ UNCHANGED <<list_vars, state, entry_priority>>
        /\ UNCHANGED <<behind, best_tcb, max_priority>>
        /\ Visiting /\ Ready /\ active_tcb' = next[active_tcb]
        /\ active_priority' = [active_priority EXCEPT
                                 ![active_tcb] = saturating_dec16(@)]
        /\ active_priority[active_tcb] >= max_priority
    BY <1>4 DEF pick_pass
  <2>2. /\ mode = "pick" /\ active_tcb \in Tcbs
        /\ SeenReady' = SeenReady \cup {active_tcb} /\ Queued' = Queued
        /\ active_tcb' # NULL => active_tcb' \in Queued
        /\ active_tcb \notin SeenReady
        /\ active_priority[active_tcb] = entry_priority[active_tcb]
        /\ \A t \in Tcbs : active_priority'[t] =
             IF t \in SeenReady' THEN saturating_dec16(entry_priority'[t])
             ELSE entry_priority'[t]
    BY <2>1, <1>3
  <2>3. entry_priority[active_tcb] >= max_priority
        /\ entry_priority[active_tcb] \in uint16 /\ max_priority \in uint16
    BY <2>1, <2>2 DEF TypeOK
  <2>4. max_priority' = UINT16_MAX =>
          \A t \in SeenReady' : entry_priority'[t] = UINT16_MAX
    <3>1. max_priority = UINT16_MAX => entry_priority[active_tcb] = UINT16_MAX
      BY <2>3, PriorityAssumption DEF uint16
    <3> QED BY <2>1, <2>2, <3>1 DEF PickInv
  <2>5. max_priority' # UINT16_MAX =>
         /\ best_tcb' \in SeenReady'
         /\ entry_priority'[best_tcb'] < UINT16_MAX
         /\ max_priority' = saturating_dec16(entry_priority'[best_tcb'])
         /\ \A t \in SeenReady' \ {best_tcb'} :
              IF best_tcb' \in behind'[t]
                THEN entry_priority'[best_tcb'] < entry_priority'[t]
                ELSE max_priority' <= entry_priority'[t]
    <3> SUFFICES ASSUME max_priority # UINT16_MAX
                 PROVE  /\ best_tcb \in SeenReady'
                        /\ entry_priority[best_tcb] < UINT16_MAX
                        /\ max_priority = saturating_dec16(entry_priority[best_tcb])
                        /\ \A t \in SeenReady' \ {best_tcb} :
                             IF best_tcb \in behind[t]
                               THEN entry_priority[best_tcb] < entry_priority[t]
                               ELSE max_priority <= entry_priority[t]
      BY <2>1
    <3>1. /\ best_tcb \in SeenReady
          /\ entry_priority[best_tcb] < UINT16_MAX
          /\ max_priority = saturating_dec16(entry_priority[best_tcb])
          /\ \A t \in SeenReady \ {best_tcb} :
               IF best_tcb \in behind[t]
                 THEN entry_priority[best_tcb] < entry_priority[t]
                 ELSE max_priority <= entry_priority[t]
      BY <2>2 DEF PickInv
    <3>2. best_tcb \notin behind[active_tcb] BY <2>1, <3>1, Advance
    <3>3. max_priority <= entry_priority[active_tcb]
      BY <2>3, PriorityAssumption DEF uint16
    <3> QED BY <2>2, <3>1, <3>2, <3>3
  <2> QED BY <2>1, <2>2, <2>4, <2>5 DEF PickInv
<1>5. ASSUME pick_take PROVE PickInv'
  <2>1. /\ UNCHANGED <<list_vars, state, entry_priority>> /\ UNCHANGED behind
        /\ Visiting /\ Ready /\ active_tcb' = next[active_tcb]
        /\ active_priority' = [active_priority EXCEPT
                                 ![active_tcb] = saturating_dec16(@)]
        /\ active_priority[active_tcb] < max_priority
        /\ best_tcb' = active_tcb
        /\ max_priority' = active_priority'[active_tcb]
    BY <1>5 DEF pick_take
  <2>2. /\ mode = "pick" /\ active_tcb \in Tcbs
        /\ SeenReady' = SeenReady \cup {active_tcb} /\ Queued' = Queued
        /\ active_tcb' # NULL => active_tcb' \in Queued
        /\ active_tcb \notin SeenReady
        /\ active_priority[active_tcb] = entry_priority[active_tcb]
        /\ \A t \in Tcbs : active_priority'[t] =
             IF t \in SeenReady' THEN saturating_dec16(entry_priority'[t])
             ELSE entry_priority'[t]
    BY <2>1, <1>3
  <2> DEFINE e == entry_priority[active_tcb]
  <2>3. e \in uint16 /\ max_priority \in uint16 /\ e < max_priority
    BY <2>1, <2>2 DEF TypeOK
  <2>4. max_priority' = saturating_dec16(e) /\ max_priority' # UINT16_MAX
        /\ e < UINT16_MAX
    <3>1. max_priority' = saturating_dec16(e) BY <2>1, <2>2
    <3>2. saturating_dec16(e) < UINT16_MAX /\ saturating_dec16(e) \in uint16
      BY <2>3, DecType
    <3> QED BY <2>3, <3>1, <3>2, PriorityAssumption DEF uint16
  <2>5. \A t \in SeenReady : e < entry_priority[t]
    <3> SUFFICES ASSUME NEW t \in SeenReady PROVE e < entry_priority[t]
      OBVIOUS
    <3>1. entry_priority[t] \in uint16 BY QueuedBasics DEF SeenReady, TypeOK
    <3>2. CASE max_priority = UINT16_MAX
      <4>1. entry_priority[t] = UINT16_MAX BY <2>2, <3>2 DEF PickInv
      <4> QED BY <2>4, <4>1
    <3>3. CASE max_priority # UINT16_MAX
      <4>1. /\ best_tcb \in SeenReady
            /\ max_priority = saturating_dec16(entry_priority[best_tcb])
            /\ t # best_tcb =>
                 \/ entry_priority[best_tcb] < entry_priority[t]
                 \/ max_priority <= entry_priority[t]
        BY <2>2, <3>3 DEF PickInv
      <4>2. entry_priority[best_tcb] \in uint16
        BY <4>1, QueuedBasics DEF SeenReady, TypeOK
      <4>3. max_priority <= entry_priority[best_tcb] BY <4>1, <4>2, DecType
      <4> QED BY <2>3, <3>1, <4>1, <4>2, <4>3 DEF uint16
    <3> QED BY <3>2, <3>3
  <2>6. \A t \in SeenReady' \ {active_tcb} :
          active_tcb \in behind[t] /\ e < entry_priority[t]
    BY <2>1, <2>2, <2>5, Advance
  <2> HIDE DEF e
  <2>7. /\ entry_priority'[best_tcb'] = e
        /\ \A t \in SeenReady' \ {best_tcb'} :
              IF best_tcb' \in behind'[t]
                THEN entry_priority'[best_tcb'] < entry_priority'[t]
                ELSE max_priority' <= entry_priority'[t]
    BY <2>1, <2>6 DEF e
  <2> QED BY <2>1, <2>2, <2>4, <2>7 DEF PickInv
<1>6. ASSUME UNCHANGED <<list_vars, tcb_vars, pick_vars, mode>> PROVE PickInv'
  <2>1. UNCHANGED <<active_tcb, best_tcb, max_priority, entry_priority,
                    active_priority, state, behind, mode>> /\ Queued' = Queued
    BY <1>6, QueuedStable
  <2>2. SeenReady' = SeenReady BY <2>1 DEF SeenReady, ToVisit
  <2> QED BY <2>1, <2>2 DEF PickInv
<1>7. \/ timer_interrupt_handler \/ pick_skip \/ pick_pass \/ pick_take
      \/ UNCHANGED <<list_vars, tcb_vars, pick_vars, mode>>
  <2>1. \A t \in Threads, p \in Priorities :
          ~create_initial_process(t, p) /\ ~create_process(t, p)
    BY DEF create_initial_process, create_process, scheduler_add_thread
  <2>2. ~pick_top /\ ~pick_last /\ ~pick_middle /\ ~context_switch
    BY DEF pick_top, pick_last, pick_middle, context_switch
  <2> QED
    BY <2>1, <2>2, NextCases
    DEF QuietStep, create_process_fails, kmain_sti, kmain_start_timer,
        ThreadStep, TimerExpires, pick_none, switch_threads, vars
<1> QED BY <1>1, <1>2, <1>4, <1>5, <1>6, <1>7

(***************************************************************************)
(* Saved contexts.                                                         *)
(***************************************************************************)

\* Every step keeps saved contexts with their threads.
LEMMA NextContext == IInv /\ [Next]_vars => ContextInv'
<1> SUFFICES ASSUME IInv, [Next]_vars PROVE ContextInv' OBVIOUS
<1> ContextInv /\ TypeOK /\ ModeInv /\ MaskInv BY DEF IInv
<1> USE DEF list_vars, tcb_vars, pick_vars, boot_vars, cpu_vars, apic_vars,
            ctx_vars
<1>1. ASSUME Current' = Current,
             UNCHANGED <<cpu, cr3, frame, registers, context>>,
             \/ mode' = mode \/ mode' = "fault"
             \/ {mode, mode'} \subseteq {"kmain", "sti", "run"}
             \/ {mode, mode'} \subseteq {"pick", "switch"}
      PROVE  ContextInv'
  BY <1>1 DEF ContextInv
<1>2. ASSUME NEW t \in Threads, NEW p \in Priorities,
             create_initial_process(t, p)
      PROVE  ContextInv'
  <2>1. running_tcb = NULL BY <1>2, QueuedInitial DEF ModeInv
  <2>2. Current' = Current
    BY <1>2, <2>1 DEF create_initial_process, scheduler_init, Current
  <2> QED BY <1>1, <1>2, <2>2 DEF create_initial_process
<1>3. ASSUME NEW t \in Threads, NEW p \in Priorities, create_process(t, p)
      PROVE  ContextInv'
  <2>1. Current' = Current BY <1>3 DEF create_process, Current
  <2>2. mode' = mode \/ mode' = "fault"
    BY <1>3 DEF create_process, scheduler_add_thread
  <2> QED BY <1>1, <1>3, <2>1, <2>2 DEF create_process
<1>4. CASE QuietStep
  <2>1. Current' = Current BY <1>4, QuietFacts DEF Current
  <2>2. CASE ThreadStep
    <3>1. /\ running_tcb \in Threads /\ Current = running_tcb
          /\ running_tcb \in Tcbs
      BY <2>2, ThreadsAssumption DEF ThreadStep, Current, Tcbs
    <3>2. /\ context'[running_tcb] = cpu'
          /\ \A t \in Threads \ {running_tcb} : context'[t] = context[t]
      BY <2>2, <3>1 DEF ThreadStep, TypeOK, Tcbs
    <3>3. mode = "run" /\ mode' = "run" /\ UNCHANGED <<cr3, registers>>
      BY <2>2 DEF ThreadStep
    <3> QED BY <2>1, <3>1, <3>2, <3>3 DEF ContextInv
  <2>3. CASE timer_interrupt_handler
    <3>1. /\ mode \in {"sti", "run"} /\ mode' = "pick"
          /\ frame'.psp = cpu.psp /\ UNCHANGED <<cr3, registers, context>>
      BY <2>3 DEF timer_interrupt_handler, MaskInv
    <3> QED BY <2>1, <3>1 DEF ContextInv
  <2>4. CASE switch_threads
    <3>1. /\ mode = "restore" /\ mode' = "run" /\ running_tcb \in Threads
          /\ cpu'.psp = registers[running_tcb].psp
          /\ UNCHANGED <<cr3, registers, context>>
      BY <2>4 DEF switch_threads, ModeInv
    <3>2. Current = running_tcb BY <3>1, ThreadsAssumption DEF Current
    <3> QED BY <2>1, <3>1, <3>2 DEF ContextInv
  <2>5. CASE ~ThreadStep /\ ~timer_interrupt_handler /\ ~switch_threads
    <3>1. UNCHANGED <<cpu, cr3, frame, registers, context>>
      BY <1>4, <2>5
      DEF QuietStep, create_process_fails, kmain_sti, kmain_start_timer,
          TimerExpires, pick_skip, pick_pass, pick_take, pick_none, vars
    <3>2. \/ mode' = mode \/ mode' = "fault"
          \/ {mode, mode'} \subseteq {"kmain", "sti", "run"}
          \/ {mode, mode'} \subseteq {"pick", "switch"}
      BY <1>4, <2>5
      DEF QuietStep, create_process_fails, kmain_sti, kmain_start_timer,
          TimerExpires, pick_skip, pick_pass, pick_take, pick_none, vars,
          Visiting, Visited
    <3> QED BY <1>1, <2>1, <3>1, <3>2
  <2> QED BY <2>2, <2>3, <2>4, <2>5
<1>5. CASE pick_top \/ pick_last \/ pick_middle
  <2>1. /\ mode = "pick" /\ mode' \in {"switch", "fault"}
        /\ UNCHANGED <<cpu, cr3, frame, registers, context, running_tcb>>
    BY <1>5 DEF pick_top, pick_last, pick_middle, pick_selected, Visited
  <2> QED BY <1>1, <2>1 DEF Current
<1>6. CASE context_switch
  <2>1. /\ mode = "switch" /\ mode' = "restore"
        /\ running_tcb' = best_tcb /\ best_tcb \in Threads
        /\ running_tcb \in Tcbs /\ running_tcb # NULL
    BY <1>6, SwitchFacts, QueuedBasics DEF context_switch
  <2>2. /\ Current = running_tcb /\ Current' = best_tcb
        /\ best_tcb # dummy_tcb
    BY <2>1, ThreadsAssumption DEF Current
  <2>3. cr3' = best_tcb BY <1>6, <2>2 DEF context_switch, page_table
  <2>4. /\ registers'[running_tcb] = frame
        /\ \A t \in Threads \ {running_tcb} : registers'[t] = registers[t]
        /\ context' = context
    BY <1>6, <2>1 DEF context_switch, TypeOK, Tcbs
  <2>5. \A t \in Threads : registers'[t].psp = context'[t].psp
    BY <2>1, <2>2, <2>4 DEF ContextInv
  <2> QED BY <2>1, <2>2, <2>3, <2>5 DEF ContextInv
<1> QED BY <1>2, <1>3, <1>4, <1>5, <1>6, NextCases

(***************************************************************************)
(* The theorems.                                                           *)
(***************************************************************************)

\* The initial state satisfies the inductive invariant.
LEMMA InitInv == Init => IInv
<1> SUFFICES ASSUME Init PROVE IInv OBVIOUS
<1>1. TypeOK BY InitType
<1>2. Queued = {} /\ top_tcb = NULL BY DEF Init, Queued
<1>3. OrderInv BY <1>2 DEF Init, OrderInv
<1>4. LinkInv /\ StateInv /\ FirstTickInv /\ PickInv /\ MaskInv
  BY <1>2 DEF Init, LinkInv, StateInv, FirstTickInv, PickInv, MaskInv
<1>5. ModeInv BY ThreadsAssumption DEF Init, ModeInv
<1>6. ContextInv
  <2>1. Current = dummy_tcb /\ mode = "kmain" /\ cr3 = Kernel_PML4_TABLE
        /\ dummy_tcb \in Tcbs /\ Threads \subseteq Tcbs
    BY DEF Init, Current, Tcbs
  <2>2. context[dummy_tcb] = cpu BY <2>1 DEF Init
  <2>3. \A t \in Threads : registers[t].psp = ThreadEntry
                          /\ context[t].psp = ThreadEntry
    BY <2>1, ThreadsAssumption DEF Init
  <2> QED BY <2>1, <2>2, <2>3 DEF ContextInv
<1> QED BY <1>1, <1>3, <1>4, <1>5, <1>6 DEF IInv

\* The inductive invariant holds in every reachable state of the scheduler,
\* for any number of threads and any priorities.
THEOREM Invariance == Spec => []IInv
<1>1. IInv /\ [Next]_vars => IInv'
  BY NextType, NextList, NextMode, NextState, NextFirstTick, NextPick,
     NextMask, NextContext
  DEF IInv
<1> QED BY <1>1, InitInv, PTL DEF Spec

\* Every variable of the scheduler keeps its type; in particular no priority
\* leaves the range of uint16_t.
THEOREM TypeCorrect == Spec => []TypeOK
<1>1. IInv => TypeOK BY DEF IInv
<1> QED BY <1>1, Invariance, PTL

\* The pointers always form the doubly linked list of the queue: neither the
\* appends nor the three relinking cases break it.
THEOREM ListCorrect == Spec => []QueueIsLinkedList
<1>1. IInv => QueueIsLinkedList BY DEF IInv, LinkInv, QueueIsLinkedList
<1> QED BY <1>1, Invariance, PTL

\* The scheduler follows a null pointer only if create_initial_process failed.
THEOREM NoNullDereference == Spec => []FaultOnlyWithoutInit
<1>1. IInv => FaultOnlyWithoutInit
  BY DEF IInv, ModeInv, FaultOnlyWithoutInit
<1> QED BY <1>1, Invariance, PTL

\* While a thread runs, it is last in the queue and every other queued thread
\* is ready: the state the fallback of scheduler_pick_next_thread relies on.
THEOREM RunningThreadIsLast == Spec => []RunningIsLast
<1>1. IInv => RunningIsLast
  <2> SUFFICES ASSUME IInv, mode \in {"run", "restore", "pick"},
                      running_tcb \in Threads
               PROVE  /\ last_tcb = running_tcb
                      /\ state[running_tcb] = "THREAD_RUNNING"
                      /\ \A t \in Queued \ {running_tcb, dummy_tcb} :
                           state[t] = "THREAD_READY"
    BY DEF RunningIsLast
  <2>1. top_tcb # NULL BY ThreadsAssumption DEF IInv, ModeInv
  <2>2. running_tcb \in QueuedThreads
    BY <2>1, ThreadsAssumption DEF IInv, ModeInv, QueuedThreads
  <2> QED BY <2>1, <2>2 DEF IInv, StateInv, QueuedThreads
<1> QED BY <1>1, Invariance, PTL

\* Only a thread that may run is ever dispatched, never dummy_tcb.
THEOREM OnlyRunnableDispatched == Spec => []DispatchesRunnable
<1>1. IInv => DispatchesRunnable
  <2> SUFFICES ASSUME IInv, mode = "switch"
               PROVE  /\ best_tcb \in Threads
                      /\ state[best_tcb] = "THREAD_RUNNING"
                      /\ \A t \in Threads \ {best_tcb, running_tcb} :
                           state[t] # "THREAD_RUNNING"
    BY DEF DispatchesRunnable
  <2>1. top_tcb # NULL BY DEF IInv, ModeInv
  <2>2. best_tcb \in QueuedThreads BY <2>1 DEF IInv, StateInv
  <2>3. \A t \in Threads : t \in QueuedThreads \/ state[t] = "THREAD_NEW"
    BY <2>1, ThreadsAssumption DEF Queued, QueuedThreads
  <2>4. best_tcb \in Threads BY <2>1, <2>2 DEF Queued, QueuedThreads
  <2> QED BY <2>1, <2>2, <2>3, <2>4 DEF IInv, StateInv
<1> QED BY <1>1, Invariance, PTL

\* A thread always continues where it was interrupted, on its own page table,
\* however the ticks fall.
THEOREM ContextsNotMixed == Spec => []ResumesWhereInterrupted
<1>1. IInv => ResumesWhereInterrupted
  BY DEF IInv, ContextInv, ResumesWhereInterrupted
<1> QED BY <1>1, Invariance, PTL

-----------------------------------------------------------------------------

(***************************************************************************)
(* Scheduler implements SchedulerQueue.                                    *)
(***************************************************************************)

\* The names of SchedulerInv stand for what the mapping substitutes.
LEMMA MappedVars ==
  Queue!qvars = <<QueuedThreads, QBehind, QPriority, QActive, QRunning>>
BY DEF Queue!qvars, QueuedThreads, QBehind, QPriority, QActive, QRunning

\* The scheduler starts with the empty queue.
LEMMA QueueInit == Init => Queue!Init
<1> SUFFICES ASSUME Init PROVE Queue!Init OBVIOUS
<1>1. Queued = {} BY DEF Init, Queued
<1>2. running_tcb \notin Threads /\ mode # "switch"
  BY ThreadsAssumption DEF Init
<1>3. \A t \in Threads : behind[t] = {} BY DEF Init, Tcbs
<1> QED BY <1>1, <1>2, <1>3 DEF Queue!Init

\* The actions of the queue in those names.
QAtEnd(c) == [t \in Threads |->
                IF t \in QueuedThreads \ {c} THEN QBehind[t] \cup {c} ELSE {}]
QAged(c) == [t \in Threads |->
               IF t = c THEN QPriority[c] + 1
               ELSE IF t \in QueuedThreads \ {QRunning}
                 THEN saturating_dec16(QActive[t]) ELSE QActive[t]]

QAdmit(t, p) ==
  /\ t \notin QueuedThreads /\ QRunning = NULL
  /\ QueuedThreads' = QueuedThreads \cup {t} /\ QBehind' = QAtEnd(t)
  /\ QPriority' = [QPriority EXCEPT ![t] = p]
  /\ QActive' = [QActive EXCEPT ![t] = p]
  /\ QRunning' = QRunning

QChoose(c) ==
  /\ c \in QueuedThreads \ {QRunning} /\ QActive[c] < UINT16_MAX
  /\ \A u \in QueuedThreads \ {QRunning, c} :
       IF c \in QBehind[u]
         THEN QActive[c] < QActive[u]
         ELSE saturating_dec16(QActive[c]) <= QActive[u]
  /\ QRunning' = c /\ QBehind' = QAtEnd(c) /\ QActive' = QAged(c)
  /\ QueuedThreads' = QueuedThreads /\ QPriority' = QPriority

QKeep ==
  /\ QRunning # NULL
  /\ \A u \in QueuedThreads \ {QRunning} : QActive[u] = UINT16_MAX
  /\ QActive' = QAged(QRunning)
  /\ QRunning' = QRunning /\ QBehind' = QBehind
  /\ QueuedThreads' = QueuedThreads /\ QPriority' = QPriority

\* The actions above are the mapped actions of SchedulerQueue.
LEMMA MappedActions ==
  /\ \A t \in Threads, p \in Priorities : QAdmit(t, p) => Queue!Next
  /\ \A c \in Threads : QChoose(c) => Queue!Next
  /\ QKeep => Queue!Next
<1> USE DEF QueuedThreads, QBehind, QPriority, QActive, QRunning, QAtEnd,
            QAged, saturating_dec16
<1>1. ASSUME NEW t \in Threads, NEW p \in Priorities, QAdmit(t, p)
      PROVE  Queue!Admit(t, p)
  BY <1>1 DEF QAdmit, Queue!Admit, Queue!AtEnd
<1>2. ASSUME NEW c \in Threads, QChoose(c) PROVE Queue!Choose(c)
  <2>1. Queue!Eligible(c)
    BY <1>2 DEF QChoose, Queue!Eligible, Queue!Waiting, Queue!Aged
  <2> QED
    BY <1>2, <2>1 DEF QChoose, Queue!Choose, Queue!AtEnd, Queue!AgeAndRestart,
       Queue!Waiting, Queue!Aged
<1>3. ASSUME QKeep PROVE Queue!Keep
  BY <1>3 DEF QKeep, Queue!Keep, Queue!AgeAndRestart, Queue!Waiting,
     Queue!Aged
<1> QED BY <1>1, <1>2, <1>3 DEF Queue!Next

(***************************************************************************)
(* Every step of the scheduler is a step of the queue or leaves it alone.  *)
(***************************************************************************)

\* What the queue sees.
QVars == <<QueuedThreads, QBehind, QPriority, QActive, QRunning>>

\* A step is invisible if it leaves the list, the states and the effective
\* active priorities alone.
LEMMA Invisible ==
  ASSUME UNCHANGED <<behind, priority>>, Queued' = Queued,
         QActive' = QActive, QRunning' = QRunning
  PROVE  UNCHANGED QVars
BY DEF QVars, QueuedThreads, QBehind, QPriority

\* The quiet steps: the tick becomes visible only when the loop has ended.
LEMMA QuietInvisible ==
  ASSUME IInv, QuietStep, ~pick_none
  PROVE  UNCHANGED QVars
<1> USE DEF list_vars, tcb_vars, pick_vars, boot_vars, cpu_vars, apic_vars,
            ctx_vars
<1>1. /\ UNCHANGED <<top_tcb, behind, state, priority, running_tcb>>
      /\ Queued' = Queued
  BY QuietFacts, QueuedStable
<1>2. \/ timer_interrupt_handler
      \/ /\ mode = "pick" /\ mode' = "pick" /\ entry_priority' = entry_priority
      \/ /\ mode # "pick" /\ mode' # "pick"
         /\ active_priority' = active_priority
  BY ThreadsAssumption
  DEF QuietStep, create_process_fails, kmain_sti, kmain_start_timer,
      ThreadStep, TimerExpires, pick_skip, pick_pass, pick_take,
      switch_threads, vars, Visiting, Visited
<1>3. QActive' = QActive
  <2>1. CASE timer_interrupt_handler
    <3>1. mode \in {"sti", "run"} /\ mode' = "pick"
          /\ entry_priority' = active_priority
      BY <2>1 DEF timer_interrupt_handler, IInv, MaskInv
    <3> QED BY <1>1, <3>1 DEF QActive
  <2> QED BY <1>1, <1>2, <2>1 DEF QActive
<1>4. QRunning' = QRunning
  <2>1. mode' = "switch" => mode = "switch" /\ best_tcb' = best_tcb
    BY QuietModes
  <2>2. mode = "switch" => mode' = "switch" BY QuietModes
  <2> QED BY <1>1, <2>1, <2>2 DEF QRunning
<1> QED BY <1>1, <1>3, <1>4, Invisible

\* scheduler_init and create_initial_process admit the first thread.
LEMMA InitialAdmits ==
  ASSUME IInv, NEW t \in Threads, NEW p \in Priorities,
         create_initial_process(t, p)
  PROVE  QAdmit(t, p)
<1>1. Queued = {} /\ Queued' = {t, dummy_tcb} /\ top_tcb = NULL
  BY QueuedInitial
<1>2. /\ mode = "kmain" /\ mode' = "kmain" /\ running_tcb = NULL
      /\ running_tcb' = dummy_tcb
  BY <1>1 DEF create_initial_process, scheduler_init, IInv, ModeInv
<1>3. \A x \in Tcbs : behind[x] = {} BY <1>1 DEF IInv, OrderInv
<1>4. behind' = [behind EXCEPT ![t] = {dummy_tcb}]
      /\ priority' = [priority EXCEPT ![t] = p]
      /\ active_priority' = [active_priority EXCEPT ![t] = p]
  BY DEF create_initial_process, scheduler_init, create_thread
<1>5. \A x \in Threads : behind'[x] \ {dummy_tcb} = {}
  BY <1>3, <1>4 DEF IInv, TypeOK, Tcbs
<1>6. priority'[t] = p /\ active_priority'[t] = p
  BY <1>4 DEF IInv, TypeOK, Tcbs
<1>7. QRunning = NULL /\ QRunning' = NULL
  BY <1>2, ThreadsAssumption DEF QRunning
<1>8. QBehind' = QAtEnd(t)
  BY <1>1, <1>5 DEF QBehind, QAtEnd, QueuedThreads
<1>9. /\ QPriority' = [QPriority EXCEPT ![t] = p]
      /\ QActive' = [QActive EXCEPT ![t] = p]
  BY <1>1, <1>2, <1>6, ThreadsAssumption DEF QPriority, QActive
<1>10. t \notin QueuedThreads /\ QueuedThreads' = QueuedThreads \cup {t}
  BY <1>1, ThreadsAssumption DEF QueuedThreads
<1> QED BY <1>7, <1>8, <1>9, <1>10 DEF QAdmit

\* create_process admits one more thread, or faults without a queue.
LEMMA CreateAdmits ==
  ASSUME IInv, NEW t \in Threads, NEW p \in Priorities, create_process(t, p)
  PROVE  QAdmit(t, p) \/ UNCHANGED QVars
<1>1. /\ mode = "kmain" /\ running_tcb' = running_tcb
      /\ running_tcb \notin Threads /\ mode' \in {"kmain", "fault"}
      /\ priority' = [priority EXCEPT ![t] = p]
      /\ active_priority' = [active_priority EXCEPT ![t] = p]
  BY DEF create_process, create_thread, scheduler_add_thread, IInv, ModeInv
<1>2. QRunning = NULL /\ QRunning' = NULL BY <1>1 DEF QRunning
<1>3. CASE top_tcb = NULL
  <2>1. Queued = {} /\ Queued' = {} BY <1>3, QueuedCreate, QueuedBasics
  <2>2. behind' = behind
    BY <1>3, QueuedCreate DEF create_process, scheduler_add_thread, list_vars
  <2>3. QActive' = QActive /\ QPriority' = QPriority
    BY <2>1 DEF QActive, QPriority
  <2> QED BY <1>2, <2>1, <2>2, <2>3 DEF QVars, QBehind, QueuedThreads
<1>4. CASE top_tcb # NULL
  <2>1. /\ Queued' = Queued \cup {t} /\ t \notin Queued /\ last_tcb # NULL
        /\ t # dummy_tcb
    BY <1>4, QueuedCreate, ThreadsAssumption
  <2>2. behind' = MovedToEnd(t)
    BY <2>1 DEF create_process, scheduler_add_thread
  <2>3. QBehind' = QAtEnd(t)
    BY <2>1, <2>2, ThreadsAssumption
    DEF QBehind, QAtEnd, QueuedThreads, MovedToEnd, Tcbs
  <2>4. /\ priority'[t] = p /\ active_priority'[t] = p
        /\ \A u \in Threads \ {t} : /\ priority'[u] = priority[u]
                                    /\ active_priority'[u] = active_priority[u]
    BY <1>1 DEF IInv, TypeOK, Tcbs
  <2>5. /\ QPriority' = [QPriority EXCEPT ![t] = p]
        /\ QActive' = [QActive EXCEPT ![t] = p]
    BY <1>1, <2>1, <2>4 DEF QPriority, QActive
  <2>6. t \notin QueuedThreads /\ QueuedThreads' = QueuedThreads \cup {t}
    BY <2>1 DEF QueuedThreads
  <2> QED BY <1>2, <2>3, <2>5, <2>6 DEF QAdmit
<1> QED BY <1>3, <1>4

\* At the end of the loop, everybody who waits has been seen and aged.
LEMMA LoopEnded ==
  ASSUME IInv, Visited, top_tcb # NULL
  PROVE  /\ QRunning \in QueuedThreads \cup {NULL}
         /\ QRunning = NULL <=> running_tcb = dummy_tcb
         /\ running_tcb # dummy_tcb => QRunning = running_tcb
         /\ SeenReady = QueuedThreads \ {QRunning}
         /\ QueuedThreads \subseteq Threads
         /\ \A t \in QueuedThreads :
              /\ QActive[t] = entry_priority[t] /\ QPriority[t] = priority[t]
              /\ active_priority[t] =
                   IF t # QRunning THEN saturating_dec16(QActive[t])
                   ELSE QActive[t]
<1>1. mode = "pick" /\ active_tcb = NULL BY DEF Visited
<1>2. QueuedThreads \subseteq Threads BY DEF QueuedThreads, Queued
<1>3. running_tcb \in Queued BY DEF IInv, ModeInv
<1>4. running_tcb \in QueuedThreads \/ running_tcb = dummy_tcb
  BY <1>3 DEF QueuedThreads
<1>5. /\ QRunning \in QueuedThreads \cup {NULL}
      /\ QRunning = NULL <=> running_tcb = dummy_tcb
      /\ running_tcb # dummy_tcb => QRunning = running_tcb
  BY <1>1, <1>2, <1>4, ThreadsAssumption DEF QRunning
<1>6. SeenReady = {t \in Queued : state[t] = "THREAD_READY"}
  BY <1>1 DEF SeenReady, ToVisit
<1>7. \A t \in QueuedThreads : state[t] = "THREAD_READY" <=> t # running_tcb
  BY <1>1 DEF IInv, StateInv
<1>8. state[dummy_tcb] = "THREAD_DENIED" BY DEF IInv, StateInv
<1>9. SeenReady = QueuedThreads \ {QRunning}
  BY <1>2, <1>5, <1>6, <1>7, <1>8, ThreadsAssumption DEF QueuedThreads
<1>10. \A t \in QueuedThreads :
         QActive[t] = entry_priority[t] /\ QPriority[t] = priority[t]
  BY <1>1, <1>2 DEF QActive, QPriority, QueuedThreads
<1>11. \A t \in QueuedThreads : active_priority[t] =
         IF t # QRunning THEN saturating_dec16(QActive[t]) ELSE QActive[t]
  BY <1>1, <1>2, <1>9, <1>10 DEF IInv, PickInv, Tcbs
<1> QED BY <1>2, <1>5, <1>9, <1>10, <1>11

\* The fallback keeps the running thread.
LEMMA FallbackKeeps ==
  ASSUME IInv, pick_none
  PROVE  /\ top_tcb = NULL => UNCHANGED QVars
         /\ top_tcb # NULL => QKeep
<1>1. /\ Visited /\ max_priority = UINT16_MAX
      /\ UNCHANGED <<top_tcb, behind, state, priority, running_tcb>>
      /\ mode = "pick" /\ active_tcb = NULL
  BY DEF pick_none, Visited, list_vars
<1>2. Queued' = Queued BY <1>1, QueuedStable
<1>3. CASE top_tcb = NULL
  <2>1. Queued = {} /\ mode' = "fault"
    BY <1>3, QueuedBasics DEF pick_none
  <2>2. QActive' = QActive BY <1>2, <2>1 DEF QActive
  <2>3. QRunning' = QRunning BY <1>1, <2>1 DEF QRunning
  <2> QED BY <1>1, <1>2, <1>3, <2>2, <2>3, Invisible
<1>4. CASE top_tcb # NULL
  <2> DEFINE r == running_tcb
  <2>1. r \in QueuedThreads /\ last_tcb = r /\ r # dummy_tcb
    BY <1>4, FallbackFacts DEF QueuedThreads
  <2>2. /\ QRunning = r /\ r # NULL
        /\ SeenReady = QueuedThreads \ {r} /\ QueuedThreads \subseteq Threads
        /\ \A t \in QueuedThreads :
              /\ QActive[t] = entry_priority[t] /\ QPriority[t] = priority[t]
              /\ active_priority[t] =
                   IF t # r THEN saturating_dec16(QActive[t]) ELSE QActive[t]
    BY <1>1, <1>4, <2>1, LoopEnded, ThreadsAssumption
  <2>3. mode' = "switch" /\ best_tcb' = r
        /\ active_priority' = [active_priority EXCEPT
                                 ![r] = reset_priority(priority[r])]
    BY <2>1, <2>2 DEF pick_none
  <2>4. priority[r] \in 0..(UINT16_MAX - 1) /\ r \in Tcbs
    BY <2>1, <2>2 DEF IInv, TypeOK, Tcbs
  <2>5. /\ active_priority'[r] = QPriority[r] + 1
        /\ \A t \in QueuedThreads \ {r} :
             active_priority'[t] = saturating_dec16(QActive[t])
    BY <2>1, <2>2, <2>3, <2>4, ResetType DEF IInv, TypeOK, Tcbs
  <2>6. QActive' = QAged(r)
    <3> SUFFICES ASSUME NEW t \in Threads PROVE QActive'[t] = QAged(r)[t]
      BY DEF QActive, QAged
    <3>1. CASE t \in QueuedThreads
      <4>1. t \in Queued BY <3>1 DEF QueuedThreads
      <4>2. QActive'[t] = active_priority'[t]
        BY <1>2, <2>3, <4>1 DEF QActive
      <4> QED BY <2>2, <2>5, <3>1, <4>2 DEF QAged
    <3>2. CASE t \notin QueuedThreads
      <4>1. t \notin Queued BY <3>2, ThreadsAssumption DEF QueuedThreads
      <4>2. QActive'[t] = 0 /\ QActive[t] = 0 BY <1>2, <4>1 DEF QActive
      <4> QED BY <2>1, <3>2, <4>2 DEF QAged
    <3> QED BY <3>1, <3>2
  <2>7. \A u \in QueuedThreads \ {r} : QActive[u] = UINT16_MAX
    BY <1>1, <2>2 DEF IInv, PickInv
  <2>8. QRunning' = r BY <2>3 DEF QRunning
  <2>9. QBehind' = QBehind /\ QPriority' = QPriority
        /\ QueuedThreads' = QueuedThreads
    BY <1>1, <1>2 DEF QBehind, QPriority, QueuedThreads
  <2> QED BY <1>4, <2>2, <2>6, <2>7, <2>8, <2>9 DEF QKeep
<1> QED BY <1>3, <1>4

\* The three relinking cases put the chosen thread at the end of the order.
LEMMA PickRelinks ==
  ASSUME IInv, pick_top \/ pick_last \/ pick_middle
  PROVE  /\ pick_selected /\ Queued' = Queued /\ mode' = "switch"
         /\ QBehind' = QAtEnd(best_tcb)
<1>1. pick_selected /\ Queued' = Queued /\ mode' = "switch"
  BY PickTopFacts, PickLastFacts, PickMiddleFacts
  DEF pick_top, pick_last, pick_middle
<1>2. /\ best_tcb \in Queued /\ best_tcb \in Threads /\ top_tcb # NULL
      /\ Queued \subseteq Tcbs
  BY <1>1, SelectedFacts, QueuedBasics
<1>3. \A x \in Threads \ Queued : behind[x] = {}
  BY <1>2 DEF IInv, OrderInv, Tcbs
<1>4. CASE behind' = MovedToEnd(best_tcb)
  BY <1>1, <1>2, <1>3, <1>4, ThreadsAssumption
  DEF QBehind, QAtEnd, QueuedThreads, MovedToEnd, Tcbs
<1>5. CASE pick_last
  <2>1. behind' = behind /\ best_tcb = last_tcb
    BY <1>5, PickLastFacts DEF pick_last, list_vars
  <2>2. behind[best_tcb] = {} BY <1>2, <2>1 DEF IInv, LinkInv
  <2>3. \A x \in Queued \ {best_tcb} : best_tcb \in behind[x]
    BY <1>2, <2>2 DEF IInv, OrderInv
  <2> QED
    BY <1>1, <1>2, <1>3, <2>1, <2>2, <2>3, ThreadsAssumption
    DEF QBehind, QAtEnd, QueuedThreads
<1> QED
  BY <1>1, <1>4, <1>5, PickTopFacts DEF pick_top, pick_middle

\* A tick that takes a thread chooses an eligible one.
LEMMA PickChooses ==
  ASSUME IInv, pick_top \/ pick_last \/ pick_middle
  PROVE  best_tcb \in Threads /\ QChoose(best_tcb)
<1> DEFINE c == best_tcb
<1>1. /\ pick_selected /\ Queued' = Queued /\ mode' = "switch"
      /\ QBehind' = QAtEnd(c)
  BY PickRelinks
<1>2. /\ Visited /\ mode = "pick" /\ max_priority # UINT16_MAX
      /\ active_priority' = [active_priority EXCEPT
                               ![c] = reset_priority(priority[c])]
      /\ best_tcb' = c /\ UNCHANGED <<priority, running_tcb>>
  BY <1>1 DEF pick_selected, Visited, pick_vars
<1>3. c \in Queued /\ c \in Threads /\ top_tcb # NULL
  BY <1>1, SelectedFacts
<1>4. /\ SeenReady = QueuedThreads \ {QRunning}
      /\ QueuedThreads \subseteq Threads
      /\ \A t \in QueuedThreads :
           /\ QActive[t] = entry_priority[t] /\ QPriority[t] = priority[t]
           /\ active_priority[t] =
                IF t # QRunning THEN saturating_dec16(QActive[t])
                ELSE QActive[t]
  BY <1>2, <1>3, LoopEnded
<1>5. /\ c \in SeenReady /\ entry_priority[c] < UINT16_MAX
      /\ \A t \in SeenReady \ {c} :
           IF c \in behind[t]
             THEN entry_priority[c] < entry_priority[t]
             ELSE saturating_dec16(entry_priority[c]) <= entry_priority[t]
  BY <1>2 DEF IInv, PickInv
<1>6. \A t \in QueuedThreads : c \in behind[t] <=> c \in QBehind[t]
  BY <1>3, <1>4, ThreadsAssumption DEF QBehind
<1>7. c \in QueuedThreads \ {QRunning} /\ QActive[c] < UINT16_MAX
  BY <1>4, <1>5
<1>8. \A u \in QueuedThreads \ {QRunning, c} :
        IF c \in QBehind[u]
          THEN QActive[c] < QActive[u]
          ELSE saturating_dec16(QActive[c]) <= QActive[u]
  BY <1>4, <1>5, <1>6, <1>7
<1>9. priority[c] \in 0..(UINT16_MAX - 1) /\ c \in Tcbs
  BY <1>3 DEF IInv, TypeOK, Tcbs
<1>10. /\ active_priority'[c] = QPriority[c] + 1
       /\ \A t \in QueuedThreads \ {c} : active_priority'[t] =
            IF t # QRunning THEN saturating_dec16(QActive[t]) ELSE QActive[t]
  BY <1>2, <1>4, <1>7, <1>9, ResetType DEF IInv, TypeOK, Tcbs
<1>11. QActive' = QAged(c)
  <2> SUFFICES ASSUME NEW t \in Threads PROVE QActive'[t] = QAged(c)[t]
    BY DEF QActive, QAged
  <2>1. CASE t \in QueuedThreads
    <3>1. t \in Queued BY <2>1 DEF QueuedThreads
    <3>2. QActive'[t] = active_priority'[t] BY <1>1, <3>1 DEF QActive
    <3> QED BY <1>10, <2>1, <3>2 DEF QAged
  <2>2. CASE t \notin QueuedThreads
    <3>1. t \notin Queued BY <2>2, ThreadsAssumption DEF QueuedThreads
    <3>2. QActive'[t] = 0 /\ QActive[t] = 0 BY <1>1, <3>1 DEF QActive
    <3> QED BY <1>7, <2>2, <3>2 DEF QAged
  <2> QED BY <2>1, <2>2
<1>12. QRunning' = c BY <1>1, <1>2 DEF QRunning
<1>13. QueuedThreads' = QueuedThreads /\ QPriority' = QPriority
  BY <1>1, <1>2 DEF QueuedThreads, QPriority
<1> QED
  BY <1>1, <1>3, <1>7, <1>8, <1>11, <1>12, <1>13 DEF QChoose

\* The queue does not see the switch itself.
LEMMA SwitchInvisible ==
  ASSUME IInv, context_switch
  PROVE  UNCHANGED QVars
<1>1. /\ UNCHANGED <<behind, priority, active_priority>> /\ Queued' = Queued
      /\ mode = "switch" /\ mode' = "restore"
      /\ best_tcb \in Threads /\ running_tcb' = best_tcb
  BY SwitchFacts DEF context_switch, list_vars
<1>2. QActive' = QActive BY <1>1 DEF QActive
<1>3. QRunning' = QRunning BY <1>1 DEF QRunning
<1> QED BY <1>1, <1>2, <1>3, Invisible

\* How the count of ticks goes along with that.
Unseen ==
  /\ UNCHANGED QVars
  /\ \A t \in QueuedThreads : Passed(t)' = Passed(t)
  /\ \A t \in Threads \ QueuedThreads : waited'[t] = waited[t]
  /\ mode' = "switch" => /\ mode = "switch"
                         /\ UNCHANGED <<best_tcb, running_tcb, waited>>

Before == mode # "switch" /\ mode' # "switch" /\ waited' = waited

Tick(c) == /\ mode = "pick" /\ mode' = "switch" /\ best_tcb' = c
           /\ UNCHANGED <<waited, running_tcb>>

\* A step the queue does not see either leaves the count alone or is the
\* switch that completes a tick.
LEMMA UnseenSteps ==
  ASSUME IInv, (QuietStep /\ ~pick_none) \/ context_switch, UNCHANGED QVars
  PROVE  Unseen
<1> USE DEF list_vars, tcb_vars, pick_vars, boot_vars, cpu_vars, apic_vars,
            ctx_vars
<1>1. QueuedThreads \subseteq Threads /\ Threads \subseteq Tcbs
  BY DEF QueuedThreads, Queued, Tcbs
<1>2. CASE QuietStep /\ ~pick_none
  <2>1. /\ mode' = "switch" => mode = "switch" /\ UNCHANGED best_tcb
        /\ mode = "switch" => mode' = "switch"
        /\ UNCHANGED running_tcb
    BY <1>2, QuietModes, QuietFacts
  <2>2. waited' = waited
    BY <1>2
    DEF QuietStep, create_process_fails, kmain_sti, kmain_start_timer,
        ThreadStep, TimerExpires, timer_interrupt_handler, pick_skip,
        pick_pass, pick_take, switch_threads, vars
  <2> QED BY <2>1, <2>2 DEF Unseen, Passed
<1>3. CASE context_switch
  <2>1. mode = "switch" /\ mode' = "restore" BY <1>3 DEF context_switch
  <2>2. top_tcb # NULL /\ best_tcb \in QueuedThreads
    BY <1>3, SwitchFacts, ThreadsAssumption DEF QueuedThreads
  <2>3. \A t \in Threads : t \in QueuedThreads <=> state[t] # "THREAD_NEW"
    BY <2>2, ThreadsAssumption DEF QueuedThreads, Queued
  <2>4. \A t \in Threads : waited'[t] =
          IF t = best_tcb THEN 0
          ELSE IF t \in QueuedThreads THEN waited[t] + 1 ELSE waited[t]
    BY <1>1, <1>3, <2>3 DEF context_switch
  <2> QED BY <1>1, <2>1, <2>2, <2>4 DEF Unseen, Passed
<1> QED BY <1>2, <1>3

\* What the queue sees of a step of the scheduler.
LEMMA StepKinds ==
  ASSUME IInv, [Next]_vars
  PROVE  \/ Unseen
         \/ \E t \in Threads, p \in Priorities : QAdmit(t, p) /\ Before
         \/ \E c \in Threads : QChoose(c) /\ Tick(c)
         \/ QKeep /\ Tick(QRunning)
<1>1. CASE QuietStep /\ ~pick_none BY <1>1, QuietInvisible, UnseenSteps
<1>2. CASE context_switch BY <1>2, SwitchInvisible, UnseenSteps
<1>3. ASSUME NEW t \in Threads, NEW p \in Priorities,
             create_initial_process(t, p)
      PROVE  QAdmit(t, p) /\ Before
  BY <1>3, InitialAdmits DEF create_initial_process, Before
<1>4. ASSUME NEW t \in Threads, NEW p \in Priorities, create_process(t, p)
      PROVE  (QAdmit(t, p) /\ Before) \/ Unseen
  <2>1. /\ mode = "kmain" /\ mode' \in {"kmain", "fault"} /\ waited' = waited
    BY <1>4 DEF create_process, scheduler_add_thread
  <2>2. CASE QAdmit(t, p) BY <2>1, <2>2 DEF Before
  <2>3. CASE UNCHANGED QVars BY <2>1, <2>3 DEF Unseen, Passed
  <2> QED BY <1>4, <2>2, <2>3, CreateAdmits
<1>5. CASE pick_none
  <2>1. mode = "pick" /\ mode' \in {"switch", "fault"}
        /\ UNCHANGED <<waited, running_tcb>>
    BY <1>5 DEF pick_none, Visited
  <2>2. mode' = "switch" => best_tcb' = running_tcb /\ QRunning' = best_tcb'
                            /\ running_tcb \in Threads
    <3>1. mode' = "switch" => top_tcb # NULL
      BY <1>5, QueuedBasics DEF pick_none
    <3> QED
      BY <1>5, <3>1, FallbackFacts
      DEF pick_none, QRunning, QueuedThreads, Queued
  <2>3. CASE mode' = "switch"
    <3>1. QRunning = running_tcb BY <2>1, <2>2, <2>3 DEF QRunning
    <3>2. Tick(QRunning) BY <2>1, <2>2, <2>3, <3>1 DEF Tick
    <3>3. QKeep
      <4>1. top_tcb # NULL BY <1>5, <2>3, QueuedBasics DEF pick_none
      <4> QED BY <1>5, <4>1, FallbackKeeps
    <3> QED BY <3>2, <3>3
  <2>4. CASE mode' = "fault"
    <3>1. top_tcb = NULL BY <1>5, <2>4, QueuedBasics DEF pick_none
    <3>2. UNCHANGED QVars BY <1>5, <3>1, FallbackKeeps
    <3> QED BY <2>1, <2>4, <3>2 DEF Unseen, Passed
  <2> QED BY <2>1, <2>3, <2>4
<1>6. CASE pick_top \/ pick_last \/ pick_middle
  <2>1. Tick(best_tcb)
    BY <1>6, PickRelinks DEF pick_selected, Visited, pick_vars, Tick
  <2> QED BY <1>6, <2>1, PickChooses
<1> QED BY <1>1, <1>2, <1>3, <1>4, <1>5, <1>6, NextCases

\* The scheduler, with its list, its loop and its switch, implements the queue
\* discipline of SchedulerQueue for any number of threads and any priorities:
\* a tick chooses an eligible thread, ages exactly those who wait, and moves
\* only the chosen one.
THEOREM Refinement == Spec => ImplementsQueue
<1>1. IInv /\ [Next]_vars => [Queue!Next]_(Queue!qvars)
  <2> SUFFICES ASSUME IInv, [Next]_vars
               PROVE  Queue!Next \/ UNCHANGED Queue!qvars
    OBVIOUS
  <2>1. Queue!qvars = QVars BY MappedVars DEF QVars
  <2>2. UNCHANGED QVars => UNCHANGED Queue!qvars
    BY DEF QVars, Queue!qvars, QueuedThreads, QBehind, QPriority, QActive,
           QRunning
  <2> QED BY <2>2, StepKinds, MappedActions DEF Unseen
<1> QED
  BY <1>1, QueueInit, Invariance, PTL DEF Spec, ImplementsQueue,
     Queue!QueueSpec

(***************************************************************************)
(* How long a thread waits.                                                *)
(***************************************************************************)

\* The queue is a finite set of threads in a total order.
LEMMA QueueFacts ==
  ASSUME IInv
  PROVE  /\ QueuedThreads \subseteq Threads /\ NULL \notin QueuedThreads
         /\ IsFiniteSet(QueuedThreads)
         /\ Cardinality(QueuedThreads) <= Cardinality(Threads)
         /\ Cardinality(QueuedThreads) \in Nat /\ Cardinality(Threads) \in Nat
         /\ \A t \in QueuedThreads :
              /\ QPriority[t] = priority[t]
              /\ QPriority[t] \in 0..(UINT16_MAX - 1)
              /\ QActive[t] \in uint16 /\ waited[t] \in Nat
              /\ Ahead(t) \subseteq QueuedThreads \ {t}
              /\ IsFiniteSet(Ahead(t)) /\ Cardinality(Ahead(t)) \in Nat
         /\ \A t, u \in QueuedThreads : t # u =>
              (u \in QBehind[t] <=> t \notin QBehind[u])
<1>1. QueuedThreads \subseteq Threads /\ Threads \subseteq Tcbs
      /\ QueuedThreads \subseteq Queued /\ dummy_tcb \notin QueuedThreads
  BY DEF QueuedThreads, Queued, Tcbs
<1>2. /\ IsFiniteSet(QueuedThreads)
      /\ Cardinality(QueuedThreads) <= Cardinality(Threads)
      /\ Cardinality(QueuedThreads) \in Nat /\ Cardinality(Threads) \in Nat
  BY <1>1, ThreadsAssumption, FS_Subset, FS_CardinalityType
<1>3. \A t \in QueuedThreads :
         /\ QPriority[t] = priority[t]
         /\ QPriority[t] \in 0..(UINT16_MAX - 1)
         /\ QActive[t] \in uint16 /\ waited[t] \in Nat
  BY <1>1 DEF IInv, TypeOK, QPriority, QActive
<1>4. \A t \in QueuedThreads : QBehind[t] = behind[t] \ {dummy_tcb}
  BY <1>1 DEF QBehind
<1>5. \A t, u \in QueuedThreads : t # u =>
        (u \in QBehind[t] <=> t \notin QBehind[u])
  BY <1>1, <1>4 DEF IInv, OrderInv
<1>6. \A t \in QueuedThreads : t \notin QBehind[t]
  BY <1>1, <1>4 DEF IInv, OrderInv
<1>7. \A t \in QueuedThreads : Ahead(t) \subseteq QueuedThreads \ {t}
  BY <1>6 DEF Ahead
<1>8. \A t \in QueuedThreads :
        IsFiniteSet(Ahead(t)) /\ Cardinality(Ahead(t)) \in Nat
  <2> SUFFICES ASSUME NEW t \in QueuedThreads
               PROVE  IsFiniteSet(Ahead(t)) /\ Cardinality(Ahead(t)) \in Nat
    OBVIOUS
  <2>1. Ahead(t) \in SUBSET QueuedThreads BY <1>7
  <2>2. IsFiniteSet(Ahead(t)) BY <1>2, <2>1, FS_Subset
  <2> QED BY <2>2, FS_CardinalityType
<1> QED BY <1>1, <1>2, <1>3, <1>5, <1>7, <1>8, ThreadsAssumption

\* Who is ahead of whom once c is at the end.
LEMMA AheadMoved ==
  ASSUME IInv, NEW c \in Threads, QueuedThreads' = QueuedThreads \cup {c},
         QBehind' = QAtEnd(c)
  PROVE  /\ Ahead(c)' = QueuedThreads \ {c}
         /\ \A t \in QueuedThreads \ {c} : Ahead(t)' = Ahead(t) \ {c}
<1>1. QueuedThreads \subseteq Threads BY QueueFacts
<1>2. \A u \in QueuedThreads \ {c} : QBehind'[u] = QBehind[u] \cup {c}
  BY <1>1 DEF QAtEnd
<1>3. QBehind'[c] = {} BY DEF QAtEnd
<1>4. Ahead(c)' = QueuedThreads \ {c} BY <1>2, <1>3 DEF Ahead
<1>5. ASSUME NEW t \in QueuedThreads \ {c} PROVE Ahead(t)' = Ahead(t) \ {c}
  BY <1>2, <1>3 DEF Ahead
<1> QED BY <1>4, <1>5

\* Nobody waits in the empty queue.
LEMMA WaitInit == Init => WaitInv
<1> SUFFICES ASSUME Init PROVE WaitInv OBVIOUS
<1>1. QueuedThreads = {} BY DEF Init, Queued, QueuedThreads
<1>2. \A t \in Threads : waited[t] = 0 BY DEF Init, Tcbs
<1>3. mode # "switch" BY DEF Init
<1> QED BY <1>1, <1>2, <1>3 DEF WaitInv

\* Two threads in the queue.
LEMMA TwoThreads ==
  ASSUME IInv, NEW t \in QueuedThreads, NEW u \in QueuedThreads, t # u
  PROVE  Cardinality(QueuedThreads) >= 2 /\ Cardinality(Threads) >= 2
<1>1. IsFiniteSet({t}) /\ Cardinality({t}) = 1 BY FS_Singleton
<1>2. IsFiniteSet({t} \cup {u}) /\ Cardinality({t} \cup {u}) = 2
  BY <1>1, FS_AddElement
<1>3. {t} \cup {u} \in SUBSET QueuedThreads OBVIOUS
<1>4. Cardinality({t} \cup {u}) <= Cardinality(QueuedThreads)
  BY <1>3, QueueFacts, FS_Subset
<1>5. /\ Cardinality(QueuedThreads) \in Nat /\ Cardinality(Threads) \in Nat
      /\ Cardinality(QueuedThreads) <= Cardinality(Threads)
  BY QueueFacts
<1> QED BY <1>2, <1>4, <1>5

\* The bound on the ticks a thread has waited.
LEMMA PassedBound ==
  ASSUME IInv, WaitInv, NEW t \in QueuedThreads
  PROVE  Passed(t) <= QPriority[t] + Cardinality(Threads) - 1
<1>1. /\ QPriority[t] \in 0..(UINT16_MAX - 1) /\ QActive[t] \in uint16
      /\ Cardinality(Ahead(t)) \in Nat /\ waited[t] \in Nat
      /\ Cardinality(QueuedThreads) \in Nat
      /\ Cardinality(Threads) \in Nat
      /\ Cardinality(QueuedThreads) <= Cardinality(Threads)
  BY QueueFacts
<1>2. Passed(t) \in Nat BY <1>1 DEF Passed
<1>3. Cardinality(Threads) >= 1
  <2>1. Cardinality(QueuedThreads) # 0 BY QueueFacts, FS_EmptySet
  <2> QED BY <1>1, <2>1
<1>4. CASE t = QRunning
  <2>1. Passed(t) = 0 BY <1>4 DEF WaitInv
  <2> QED BY <1>1, <1>3, <2>1, PriorityAssumption
<1>5. CASE t # QRunning /\ JustRan(t)
  <2>1. Cardinality(Threads) >= 2 BY <1>5, TwoThreads DEF JustRan
  <2> QED BY <1>1, <1>5, <2>1, PriorityAssumption DEF JustRan
<1>6. CASE CountsDown(t)
  BY <1>1, <1>2, <1>6, PriorityAssumption DEF CountsDown, uint16
<1>7. CASE PassedOver(t)
  <2>1. Cardinality(Threads) >= 2 BY <1>7, TwoThreads DEF PassedOver
  <2> QED BY <1>1, <1>7, <2>1, PriorityAssumption DEF PassedOver
<1> QED BY <1>4, <1>5, <1>6, <1>7 DEF WaitInv

\* A step the queue does not see keeps the counts.
LEMMA WaitUnseen ==
  ASSUME IInv, IInv', WaitInv, Unseen
  PROVE  WaitInv'
<1>1. /\ QueuedThreads' = QueuedThreads /\ QBehind' = QBehind
      /\ QPriority' = QPriority /\ QActive' = QActive /\ QRunning' = QRunning
  BY DEF Unseen, QVars
<1>2. \A t \in QueuedThreads : Passed(t)' = Passed(t) /\ Ahead(t)' = Ahead(t)
  BY <1>1 DEF Unseen, Ahead
<1>3. ASSUME NEW t \in QueuedThreads
      PROVE  /\ JustRan(t) => JustRan(t)'
             /\ CountsDown(t) => CountsDown(t)'
             /\ PassedOver(t) => PassedOver(t)'
  BY <1>1, <1>2 DEF JustRan, CountsDown, PassedOver
<1>4. ASSUME NEW t \in QueuedThreads
      PROVE  waited'[t] <= QPriority[t] + Cardinality(Threads) - 1
  <2>1. CASE mode' = "switch"
    <3>1. waited' = waited BY <2>1 DEF Unseen
    <3> QED BY <3>1 DEF WaitInv
  <2>2. CASE mode' # "switch"
    <3>1. waited'[t] = Passed(t) BY <1>2, <2>2 DEF Passed
    <3> QED BY <3>1, PassedBound
  <2> QED BY <2>1, <2>2
<1>5. ASSUME NEW t \in QueuedThreads
      PROVE  /\ t = QRunning' => /\ Passed(t)' = 0
                                 /\ QActive'[t] <= QPriority'[t] + 1
                                 /\ Ahead(t)' = QueuedThreads' \ {t}
             /\ t # QRunning' => JustRan(t)' \/ CountsDown(t)' \/ PassedOver(t)'
  BY <1>1, <1>2, <1>3 DEF WaitInv
<1>6. \A t \in Threads \ QueuedThreads : waited'[t] = 0
  BY DEF Unseen, WaitInv
<1>7. mode' = "switch" /\ best_tcb' = running_tcb' =>
       \A t \in QueuedThreads \ {best_tcb'} : QPriority'[t] = UINT16_MAX - 1
  BY <1>1 DEF Unseen, WaitInv
<1> QED BY <1>1, <1>4, <1>5, <1>6, <1>7 DEF WaitInv

\* A thread that is admitted starts to count down.
LEMMA WaitAdmit ==
  ASSUME IInv, IInv', WaitInv, NEW c \in Threads, NEW p \in Priorities,
         QAdmit(c, p), Before
  PROVE  WaitInv'
<1>1. /\ c \notin QueuedThreads /\ QueuedThreads' = QueuedThreads \cup {c}
      /\ QBehind' = QAtEnd(c)
      /\ QPriority' = [QPriority EXCEPT ![c] = p]
      /\ QActive' = [QActive EXCEPT ![c] = p]
      /\ QRunning = NULL /\ QRunning' = NULL
      /\ mode # "switch" /\ mode' # "switch" /\ waited' = waited
  BY DEF QAdmit, Before
<1>2. /\ QueuedThreads \subseteq Threads /\ NULL \notin QueuedThreads
      /\ NULL # c
  BY QueueFacts, ThreadsAssumption
<1>3. /\ QPriority'[c] = p /\ QActive'[c] = p
      /\ \A t \in QueuedThreads : /\ QPriority'[t] = QPriority[t]
                                  /\ QActive'[t] = QActive[t]
  BY <1>1, <1>2 DEF QPriority, QActive
<1>4. Ahead(c)' = QueuedThreads
      /\ \A t \in QueuedThreads : Ahead(t)' = Ahead(t)
  <2>1. Ahead(c)' = QueuedThreads \ {c}
        /\ \A t \in QueuedThreads \ {c} : Ahead(t)' = Ahead(t) \ {c}
    BY <1>1, AheadMoved
  <2>2. \A t \in QueuedThreads : c \notin Ahead(t) BY <1>1 DEF Ahead
  <2> QED BY <1>1, <2>1, <2>2
<1>5. /\ p \in Nat /\ p < UINT16_MAX BY PriorityAssumption
<1>6. Cardinality(QueuedThreads) + 1 <= Cardinality(Threads)
  <2>1. Cardinality(QueuedThreads \cup {c}) = Cardinality(QueuedThreads) + 1
    BY <1>1, QueueFacts, FS_AddElement
  <2>2. QueuedThreads \cup {c} \in SUBSET Threads BY <1>2
  <2>3. Cardinality(QueuedThreads \cup {c}) <= Cardinality(Threads)
    BY <2>2, ThreadsAssumption, FS_Subset
  <2> QED BY <2>1, <2>3
<1>7. waited[c] = 0 BY <1>1 DEF WaitInv
<1>8. CountsDown(c)'
  BY <1>1, <1>3, <1>4, <1>5, <1>6, <1>7, QueueFacts DEF CountsDown, Passed
<1>9. ASSUME NEW t \in QueuedThreads PROVE CountsDown(t)'
  <2>1. t # QRunning BY <1>1, <1>2
  <2>2. CountsDown(t)
    <3>1. ~JustRan(t) BY <1>1, <1>2 DEF JustRan
    <3>2. ~PassedOver(t) BY <1>1, <1>2 DEF PassedOver
    <3> QED BY <2>1, <3>1, <3>2 DEF WaitInv
  <2> QED BY <1>1, <1>3, <1>4, <2>2 DEF CountsDown, Passed
<1>10. \A t \in QueuedThreads' :
         waited'[t] <= QPriority'[t] + Cardinality(Threads) - 1
  <2>1. \A t \in QueuedThreads :
          waited[t] <= QPriority[t] + Cardinality(Threads) - 1
    BY DEF WaitInv
  <2>2. 0 <= p + Cardinality(Threads) - 1 BY <1>5, <1>6, QueueFacts
  <2> QED BY <1>1, <1>3, <1>7, <2>1, <2>2
<1>11. \A t \in QueuedThreads' : t # QRunning' /\ CountsDown(t)'
  BY <1>1, <1>2, <1>8, <1>9
<1>12. \A t \in Threads \ QueuedThreads' : waited'[t] = 0
  BY <1>1 DEF WaitInv
<1> QED BY <1>1, <1>10, <1>11, <1>12 DEF WaitInv

\* A tick that chooses somebody keeps the counts: the thread that ran stands
\* behind all others, and whoever waits is closer to its turn.
LEMMA WaitChoose ==
  ASSUME IInv, IInv', WaitInv, NEW c \in Threads, QChoose(c), Tick(c)
  PROVE  WaitInv'
<1> DEFINE r == QRunning
<1>1. /\ c \in QueuedThreads \ {r} /\ QueuedThreads' = QueuedThreads
      /\ QBehind' = QAtEnd(c) /\ QPriority' = QPriority
      /\ QActive' = QAged(c) /\ QRunning' = c
      /\ mode = "pick" /\ mode' = "switch" /\ best_tcb' = c
      /\ waited' = waited /\ running_tcb' = running_tcb
  BY DEF QChoose, Tick
<1>2. QueuedThreads \subseteq Threads BY QueueFacts
<1>3. /\ QActive'[c] = QPriority[c] + 1
      /\ \A t \in QueuedThreads \ {c, r} :
           QActive'[t] = saturating_dec16(QActive[t])
      /\ r \in QueuedThreads => QActive'[r] = QActive[r]
  BY <1>1, <1>2 DEF QAged
<1>4. Ahead(c)' = QueuedThreads \ {c}
      /\ \A t \in QueuedThreads \ {c} : Ahead(t)' = Ahead(t) \ {c}
  BY <1>1, AheadMoved
<1>5. /\ Passed(c)' = 0
      /\ \A t \in QueuedThreads \ {c} : Passed(t)' = Passed(t) + 1
  BY <1>1 DEF Passed
<1>6. ASSUME NEW t \in QueuedThreads \ {c}
      PROVE  JustRan(t)' \/ CountsDown(t)' \/ PassedOver(t)'
  <2>1. /\ QPriority[t] \in 0..(UINT16_MAX - 1) /\ QActive[t] \in uint16
        /\ QPriority[t] \in Nat
        /\ Ahead(t) \subseteq QueuedThreads \ {t} /\ IsFiniteSet(Ahead(t))
        /\ Cardinality(Ahead(t)) \in Nat /\ waited[t] \in Nat
    BY QueueFacts, PriorityAssumption
  <2>2. Passed(t) \in Nat BY <1>1, <2>1 DEF Passed
  <2>3. CASE t = r
    <3>1. /\ Passed(t) = 0 /\ QActive[t] <= QPriority[t] + 1
          /\ Ahead(t) = QueuedThreads \ {t}
      BY <2>3 DEF WaitInv
    <3>2. Ahead(t)' = QueuedThreads \ {t, c} BY <1>4, <3>1
    <3>3. Passed(t)' = 1 /\ QActive'[t] <= QPriority'[t] + 1
      BY <1>1, <1>3, <1>5, <2>3, <3>1
    <3>4. JustRan(t)' BY <1>1, <3>2, <3>3 DEF JustRan
    <3> QED BY <3>4
  <2>4. ASSUME t # r
        PROVE  /\ QActive'[t] = saturating_dec16(QActive[t])
               /\ QActive'[t] \in uint16 /\ QActive'[t] < UINT16_MAX
               /\ QActive'[t] <= QActive[t]
    BY <1>3, <2>1, <2>4, DecType
  <2>5. CASE t # r /\ JustRan(t)
    <3>1. /\ r \in QueuedThreads /\ Passed(t) = 1
          /\ QActive[t] <= QPriority[t] + 1
          /\ Ahead(t) = QueuedThreads \ {t, r}
      BY <2>5 DEF JustRan
    <3> DEFINE n == Cardinality(QueuedThreads)
    <3>n. n \in Nat BY QueueFacts
    <3>2. /\ Cardinality(QueuedThreads \ {t}) = n - 1
          /\ IsFiniteSet(QueuedThreads \ {t})
      BY QueueFacts, FS_RemoveElement
    <3> HIDE DEF n
    <3>3. /\ Cardinality((QueuedThreads \ {t}) \ {r}) = n - 2
          /\ IsFiniteSet((QueuedThreads \ {t}) \ {r})
      BY <2>5, <3>n, <3>1, <3>2, FS_RemoveElement
    <3>4. Cardinality(((QueuedThreads \ {t}) \ {r}) \ {c}) = n - 3
      BY <1>1, <3>n, <3>3, FS_RemoveElement
    <3>5. Ahead(t)' = ((QueuedThreads \ {t}) \ {r}) \ {c} BY <1>4, <3>1
    <3>6. QActive'[t] <= QPriority[t]
      BY <2>1, <2>4, <2>5, <3>1 DEF saturating_dec16, uint16
    <3>7. Passed(t)' = 2 BY <1>5, <3>1
    <3>8. Passed(t)' + QActive'[t] + Cardinality(Ahead(t))'
            <= QPriority'[t] + Cardinality(Threads) - 1
      <4>1. n <= Cardinality(Threads) /\ Cardinality(Threads) \in Nat
        BY QueueFacts DEF n
      <4> QED
        BY <1>1, <2>1, <2>4, <2>5, <3>n, <3>4, <3>5, <3>6, <3>7, <4>1,
           PriorityAssumption
        DEF uint16
    <3> QED BY <2>4, <2>5, <3>8 DEF CountsDown
  <2>6. CASE t # r /\ CountsDown(t)
    <3>1. Passed(t) + QActive[t] + Cardinality(Ahead(t))
            <= QPriority[t] + Cardinality(Threads) - 1
      BY <2>6 DEF CountsDown
    <3>2. CASE c \in Ahead(t)
      <4>1. Cardinality(Ahead(t))' = Cardinality(Ahead(t)) - 1
        BY <1>4, <2>1, <3>2, FS_RemoveElement
      <4>2. Passed(t)' + QActive'[t] + Cardinality(Ahead(t))'
              <= QPriority'[t] + Cardinality(Threads) - 1
        BY <1>1, <1>5, <2>1, <2>2, <2>4, <2>6, <3>1, <4>1, QueueFacts,
           PriorityAssumption
        DEF uint16
      <4> QED BY <2>4, <2>6, <4>2 DEF CountsDown
    <3>3. CASE c \notin Ahead(t)
      <4>1. Ahead(t)' = Ahead(t) BY <1>4, <3>3
      <4>2. c \in QBehind[t] BY <1>1, <3>3, QueueFacts DEF Ahead
      <4>3. QActive[c] < QActive[t] /\ QActive[c] \in uint16
        BY <1>1, <2>6, <4>2, QueueFacts DEF QChoose
      <4>4. QActive'[t] = QActive[t] - 1
        BY <2>1, <2>4, <2>6, <4>3, PriorityAssumption
        DEF saturating_dec16, uint16
      <4>5. Passed(t)' + QActive'[t] + Cardinality(Ahead(t))'
              <= QPriority'[t] + Cardinality(Threads) - 1
        BY <1>1, <1>5, <2>1, <2>2, <3>1, <4>1, <4>4, QueueFacts,
           PriorityAssumption
        DEF uint16
      <4> QED BY <2>4, <2>6, <4>5 DEF CountsDown
    <3> QED BY <3>2, <3>3
  <2>7. CASE t # r /\ PassedOver(t)
    BY <1>1, <2>7 DEF PassedOver
  <2> QED BY <2>3, <2>5, <2>6, <2>7 DEF WaitInv
<1>7. /\ Passed(c)' = 0 /\ QActive'[c] <= QPriority'[c] + 1
      /\ Ahead(c)' = QueuedThreads' \ {c}
  BY <1>1, <1>3, <1>4, <1>5, QueueFacts, PriorityAssumption
<1>8. \A t \in QueuedThreads :
        waited[t] <= QPriority[t] + Cardinality(Threads) - 1
  BY DEF WaitInv
<1>9. \A t \in Threads \ QueuedThreads : waited[t] = 0 BY DEF WaitInv
<1>10. best_tcb' # running_tcb'
  <2>1. running_tcb \in Threads => r = running_tcb BY <1>1 DEF QRunning
  <2> QED BY <1>1, <2>1
<1> QED BY <1>1, <1>6, <1>7, <1>8, <1>9, <1>10 DEF WaitInv

\* A tick that keeps the running thread: everybody who waits has the sentinel
\* as active priority, so at most one thread waits, and it just ran.
LEMMA WaitKeep ==
  ASSUME IInv, IInv', WaitInv, QKeep, Tick(QRunning)
  PROVE  WaitInv'
<1> DEFINE r == QRunning
<1>1. /\ r # NULL /\ QueuedThreads' = QueuedThreads
      /\ QBehind' = QBehind /\ QPriority' = QPriority
      /\ QActive' = QAged(r) /\ QRunning' = r
      /\ \A u \in QueuedThreads \ {r} : QActive[u] = UINT16_MAX
      /\ mode = "pick" /\ mode' = "switch" /\ best_tcb' = r
      /\ waited' = waited /\ running_tcb' = running_tcb
  BY DEF QKeep, Tick
<1>2. QueuedThreads \subseteq Threads BY QueueFacts
<1>3. \A t \in QueuedThreads : Ahead(t)' = Ahead(t) BY <1>1 DEF Ahead
<1>4. r \in QueuedThreads => QActive'[r] = QPriority[r] + 1
  BY <1>1, <1>2 DEF QAged
<1>5. ASSUME NEW t \in QueuedThreads \ {r}
      PROVE  JustRan(t) /\ QPriority[t] = UINT16_MAX - 1
  <2>1. QActive[t] = UINT16_MAX BY <1>1
  <2>2. JustRan(t)
    BY <2>1, PriorityAssumption DEF WaitInv, CountsDown, PassedOver
  <2>3. QActive[t] <= QPriority[t] + 1 BY <2>2 DEF JustRan
  <2>4. QPriority[t] \in 0..(UINT16_MAX - 1) BY QueueFacts
  <2> QED BY <2>1, <2>2, <2>3, <2>4, PriorityAssumption
<1>6. ASSUME NEW t \in QueuedThreads \ {r} PROVE PassedOver(t)'
  <2>1. r \in QueuedThreads /\ Passed(t) = 1 BY <1>5 DEF JustRan
  <2>2. QueuedThreads = {t, r}
    <3> SUFFICES ASSUME NEW u \in QueuedThreads \ {t, r} PROVE FALSE
      BY <2>1
    <3>1. u \in Ahead(t) /\ t \in Ahead(u) BY <1>5 DEF JustRan
    <3> QED BY <3>1, QueueFacts DEF Ahead
  <2>3. Passed(t)' = 2 BY <1>1, <2>1 DEF Passed
  <2>4. QActive'[t] = UINT16_MAX - 1
    BY <1>1, <1>2, PriorityAssumption DEF QAged, saturating_dec16
  <2>5. QActive'[t] < UINT16_MAX BY <2>4, PriorityAssumption
  <2> QED BY <1>1, <1>5, <2>2, <2>3, <2>5 DEF PassedOver
<1>7. r \in QueuedThreads => /\ Passed(r)' = 0
                             /\ QActive'[r] <= QPriority'[r] + 1
                             /\ Ahead(r)' = QueuedThreads' \ {r}
  <2>1. r \in QueuedThreads => Ahead(r) = QueuedThreads \ {r} BY DEF WaitInv
  <2>2. r \in QueuedThreads => QPriority[r] + 1 <= QPriority[r] + 1
    BY QueueFacts, PriorityAssumption
  <2>3. r \in QueuedThreads => Passed(r)' = 0 BY <1>1 DEF Passed
  <2> QED BY <1>1, <1>3, <1>4, <2>1, <2>2, <2>3
<1>8. \A t \in QueuedThreads :
        waited[t] <= QPriority[t] + Cardinality(Threads) - 1
  BY DEF WaitInv
<1>9. \A t \in Threads \ QueuedThreads : waited[t] = 0 BY DEF WaitInv
<1> QED BY <1>1, <1>5, <1>6, <1>7, <1>8, <1>9 DEF WaitInv

\* WaitInv holds in every reachable state.
LEMMA WaitInvariance == Spec => [](IInv /\ WaitInv)
<1>1. IInv /\ IInv' /\ WaitInv /\ [Next]_vars => WaitInv'
  BY StepKinds, WaitUnseen, WaitAdmit, WaitChoose, WaitKeep
<1>2. Init => IInv /\ WaitInv BY InitInv, WaitInit
<1> QED BY <1>1, <1>2, Invariance, PTL DEF Spec

\* Whatever the other threads' priorities and however many there are, a thread
\* is picked at the latest when its priority has counted down and every other
\* thread has had a turn.
THEOREM WaitingIsBounded == Spec => []BoundedWaiting
<1>1. IInv /\ WaitInv => BoundedWaiting
  <2> SUFFICES ASSUME IInv, WaitInv, NEW t \in Threads
               PROVE  waited[t] <= priority[t] + Cardinality(Threads) - 1
    BY DEF BoundedWaiting
  <2>1. CASE t \in QueuedThreads BY <2>1, QueueFacts DEF WaitInv
  <2>2. CASE t \notin QueuedThreads
    <3>1. waited[t] = 0 BY <2>2 DEF WaitInv
    <3>2. priority[t] \in Nat
      BY PriorityAssumption DEF IInv, TypeOK, Tcbs
    <3>3. Cardinality(Threads) \in Nat /\ Cardinality(Threads) # 0
      BY ThreadsAssumption, FS_EmptySet, FS_CardinalityType
    <3> QED BY <3>1, <3>2, <3>3
  <2> QED BY <2>1, <2>2
<1> QED BY <1>1, WaitInvariance, PTL

\* The fallback gives a thread a second turn in a row only when every ready
\* thread has the lowest priority.
THEOREM TurnsAlternate == Spec => NoTwoContiguousTurns
<1> DEFINE Turn ==
      mode = "switch" /\ mode' = "restore" /\ best_tcb = running_tcb
        /\ priority[best_tcb] = 0
      => \A t \in Threads :
           state[t] = "THREAD_READY" => priority[t] = UINT16_MAX - 1
<1>1. IInv /\ WaitInv /\ [Next]_vars => [Turn]_vars
  <2> SUFFICES ASSUME IInv, WaitInv, mode = "switch",
                      best_tcb = running_tcb,
                      NEW t \in Threads, state[t] = "THREAD_READY"
               PROVE  priority[t] = UINT16_MAX - 1
    OBVIOUS
  <2>1. top_tcb # NULL BY DEF IInv, ModeInv
  <2>2. t \in QueuedThreads
    BY <2>1, ThreadsAssumption DEF QueuedThreads, Queued
  <2>3. t # best_tcb BY <2>1, <2>2 DEF IInv, StateInv
  <2> QED BY <2>2, <2>3, QueueFacts DEF WaitInv
<1> QED
  BY <1>1, WaitInvariance, PTL DEF Spec, NoTwoContiguousTurns

\* The steps that end the pick loop, and those while its result stands.
LEMMA NextLeast == IInv /\ LeastWins /\ [Next]_vars => LeastWins'
<1> SUFFICES ASSUME IInv, LeastWins, [Next]_vars, mode' = "switch",
                    NEW t \in Queued' \ {dummy_tcb, running_tcb'}
             PROVE  entry_priority'[best_tcb'] <= entry_priority'[t] + 1
  BY DEF LeastWins
<1> USE DEF list_vars, tcb_vars, pick_vars, boot_vars, cpu_vars, apic_vars,
            ctx_vars
<1>1. \A u \in Tcbs : entry_priority[u] \in Nat /\ entry_priority[u] <= UINT16_MAX
  BY PriorityAssumption DEF IInv, TypeOK, uint16
<1>2. CASE /\ mode = "switch"
           /\ UNCHANGED <<top_tcb, state, running_tcb, best_tcb, entry_priority>>
  <2>1. Queued' = Queued BY <1>2 DEF Queued
  <2> QED BY <1>2, <2>1 DEF LeastWins
<1>3. ASSUME Visited, top_tcb # NULL, Queued' = Queued, t # best_tcb',
             UNCHANGED <<running_tcb, entry_priority>>, best_tcb' \in Tcbs,
             max_priority # UINT16_MAX => best_tcb' = best_tcb
      PROVE  entry_priority'[best_tcb'] <= entry_priority'[t] + 1
  <2>1. mode = "pick" /\ t \in QueuedThreads /\ t # running_tcb
    BY <1>3 DEF Visited, QueuedThreads
  <2>2. t \in SeenReady /\ t \in Tcbs
    BY <1>3, <2>1, LoopEnded, ThreadsAssumption DEF Tcbs
  <2>3. CASE max_priority = UINT16_MAX
    <3>1. entry_priority[t] = UINT16_MAX BY <2>1, <2>2, <2>3 DEF IInv, PickInv
    <3> QED BY <1>1, <1>3, <2>2, <3>1, PriorityAssumption
  <2>4. CASE max_priority # UINT16_MAX
    <3>1. \/ entry_priority[best_tcb] < entry_priority[t]
          \/ saturating_dec16(entry_priority[best_tcb]) <= entry_priority[t]
      BY <1>3, <2>1, <2>2, <2>4 DEF IInv, PickInv
    <3> QED BY <1>1, <1>3, <2>2, <2>4, <3>1 DEF saturating_dec16
  <2> QED BY <2>3, <2>4
<1>4. CASE t = best_tcb'
  <2>1. t \in Tcbs BY DEF Queued, Tcbs
  <2>2. entry_priority' \in [Tcbs -> uint16] BY NextType DEF TypeOK
  <2> QED BY <1>4, <2>1, <2>2, PriorityAssumption DEF uint16
<1>5. CASE QuietStep /\ t # best_tcb'
  <2>1. CASE mode = "switch" /\ best_tcb' = best_tcb
    <3>1. UNCHANGED <<top_tcb, state, running_tcb>> BY <1>5, QuietFacts
    <3>2. ~rflags_IF BY <2>1 DEF IInv, MaskInv
    <3>3. UNCHANGED entry_priority
      BY <1>5, <3>2
      DEF QuietStep, create_process_fails, kmain_sti, kmain_start_timer,
          ThreadStep, TimerExpires, timer_interrupt_handler, pick_skip,
          pick_pass, pick_take, pick_none, switch_threads, vars
    <3> QED BY <1>2, <2>1, <3>1, <3>3
  <2>2. CASE pick_none /\ best_tcb' = last_tcb
    <3>1. Visited /\ max_priority = UINT16_MAX /\ last_tcb # NULL
      BY <2>2 DEF pick_none
    <3>2. top_tcb # NULL /\ last_tcb \in Tcbs
      BY <3>1 DEF IInv, ModeInv, TypeOK
    <3>3. UNCHANGED <<running_tcb, entry_priority>> /\ Queued' = Queued
      BY <2>2 DEF pick_none, Queued
    <3> QED BY <1>3, <1>5, <2>2, <3>1, <3>2, <3>3
  <2> QED BY <1>5, <2>1, <2>2, QuietModes
<1>6. CASE (pick_top \/ pick_last \/ pick_middle) /\ t # best_tcb'
  <2>1. pick_selected /\ Queued' = Queued BY <1>6, PickRelinks
  <2>2. Visited /\ UNCHANGED <<running_tcb, entry_priority, best_tcb>>
    BY <2>1 DEF pick_selected
  <2>3. best_tcb \in Tcbs /\ top_tcb # NULL
    BY <2>1, SelectedFacts DEF Tcbs
  <2> QED BY <1>3, <1>6, <2>1, <2>2, <2>3
<1>7. ~context_switch BY DEF context_switch
<1>8. ASSUME NEW u \in Threads, NEW p \in Priorities, create_initial_process(u, p)
      PROVE  FALSE
  BY <1>8 DEF create_initial_process
<1>9. ASSUME NEW u \in Threads, NEW p \in Priorities, create_process(u, p)
      PROVE  FALSE
  BY <1>9 DEF create_process, scheduler_add_thread
<1> QED BY <1>4, <1>5, <1>6, <1>7, <1>8, <1>9, NextCases

\* The thread a tick chooses had the least active priority of those who waited,
\* or one more than it: what is left of "first wins" in the loop of
\* scheduler_pick_next_thread.
THEOREM LeastIsChosen == Spec => []LeastWins
<1>1. Init => LeastWins BY DEF Init, LeastWins
<1> QED BY <1>1, NextLeast, Invariance, PTL DEF Spec
=============================================================================
