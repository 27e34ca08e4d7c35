---------------------------- MODULE SchedulerInv ----------------------------
(***************************************************************************)
(* The inductive invariant of Scheduler.  Each part is what one kind of    *)
(* step relies on; SchedulerProofs shows that all of it is preserved and   *)
(* that the properties of Scheduler follow.                                *)
(***************************************************************************)
EXTENDS Scheduler

QueuedThreads == Queued \ {dummy_tcb}

\* `behind' is a strict total order on the queue.
OrderInv ==
  /\ \A x \in Tcbs : behind[x] \subseteq Queued \ {x}
  /\ \A x \in Tcbs \ Queued : behind[x] = {}
  /\ \A x, y \in Queued : x # y => (y \in behind[x] <=> x \notin behind[y])
  /\ \A x, y \in Queued : y \in behind[x] => behind[y] \subseteq behind[x]

\* The linked list follows that order.
LinkInv ==
  top_tcb # NULL =>
    /\ top_tcb \in Queued /\ prev[top_tcb] = NULL
    /\ behind[top_tcb] = Queued \ {top_tcb}
    /\ last_tcb \in Queued /\ next[last_tcb] = NULL /\ behind[last_tcb] = {}
    /\ \A x \in Queued \ {last_tcb} :
         /\ next[x] \in Queued /\ prev[next[x]] = x
         /\ behind[x] = {next[x]} \cup behind[next[x]]
    /\ \A x \in Queued \ {top_tcb} : prev[x] \in Queued /\ next[prev[x]] = x

\* Which mode the kernel may be in, and who runs.
ModeInv ==
  /\ top_tcb = NULL => /\ last_tcb = NULL /\ running_tcb = NULL
                       /\ mode \notin {"switch", "restore"}
                       /\ mode # "fault" =>
                            \A t \in Tcbs : state[t] = "THREAD_NEW"
  /\ top_tcb # NULL => running_tcb \in Queued /\ mode # "fault"
  /\ calls = 0 => top_tcb = NULL
  /\ mode \in {"kmain", "sti"} => running_tcb \notin Threads
  /\ mode = "restore" => running_tcb \in Threads

\* The states of the tcbs.
StateInv ==
  top_tcb # NULL =>
    /\ state[dummy_tcb] = "THREAD_DENIED"
    /\ \A t \in QueuedThreads :
         IF t = running_tcb \/ (mode = "switch" /\ t = best_tcb)
           THEN state[t] = "THREAD_RUNNING" ELSE state[t] = "THREAD_READY"
    /\ mode # "switch" /\ running_tcb \in Threads => last_tcb = running_tcb
    /\ mode = "switch" => best_tcb \in QueuedThreads /\ last_tcb = best_tcb

\* Until the first switch the first thread is still the top, and no active
\* priority has been reset yet, so the first tick finds a thread to run.
FirstTickInv ==
  top_tcb # NULL /\ running_tcb = dummy_tcb /\ mode # "switch" =>
    /\ top_tcb \in Threads
    /\ \A t \in QueuedThreads :
         /\ mode # "pick" => active_priority[t] < UINT16_MAX
         /\ mode = "pick" => entry_priority[t] < UINT16_MAX

\* The part of the queue the loop has not reached yet.
ToVisit == IF active_tcb = NULL THEN {} ELSE {active_tcb} \cup behind[active_tcb]
SeenReady == {t \in Queued \ ToVisit : state[t] = "THREAD_READY"}

\* The loop invariant of scheduler_pick_next_thread.
PickInv ==
  mode = "pick" =>
    /\ active_tcb # NULL => active_tcb \in Queued
    /\ \A t \in Tcbs : active_priority[t] =
         IF t \in SeenReady THEN saturating_dec16(entry_priority[t])
         ELSE entry_priority[t]
    /\ max_priority = UINT16_MAX =>
         \A t \in SeenReady : entry_priority[t] = UINT16_MAX
    /\ max_priority # UINT16_MAX =>
         /\ best_tcb \in SeenReady
         /\ entry_priority[best_tcb] < UINT16_MAX
         /\ max_priority = saturating_dec16(entry_priority[best_tcb])
         /\ \A t \in SeenReady \ {best_tcb} :
              IF best_tcb \in behind[t]
                THEN entry_priority[best_tcb] < entry_priority[t]
                ELSE max_priority <= entry_priority[t]

\* Interrupts are only possible outside the handler, which is what keeps the
\* queue and the frame from being used by two ticks at once.
MaskInv ==
  /\ rflags_IF => mode \in {"sti", "run"}
  /\ timer_on => mode \notin {"kmain", "sti"}
  /\ irr => timer_on

\* Every saved context belongs to the thread it is saved for.
ContextInv ==
  /\ mode \in {"kmain", "sti", "run"} => cpu.psp = context[Current].psp
  /\ mode \in {"pick", "switch"} => frame.psp = context[Current].psp
  /\ cr3 = IF Current = dummy_tcb THEN Kernel_PML4_TABLE ELSE Current
  /\ \A t \in Threads : t # Current \/ mode = "restore" =>
       registers[t].psp = context[t].psp

IInv == /\ TypeOK /\ OrderInv /\ LinkInv /\ ModeInv /\ StateInv
        /\ FirstTickInv /\ PickInv /\ MaskInv /\ ContextInv

-----------------------------------------------------------------------------
(* The queue as the refinement mapping of Scheduler shows it.              *)

QBehind == [t \in Threads |-> behind[t] \ {dummy_tcb}]
QPriority == [t \in Threads |-> IF t \in Queued THEN priority[t] ELSE 0]
QActive == [t \in Threads |->
              IF t \notin Queued THEN 0
              ELSE IF mode = "pick" THEN entry_priority[t]
              ELSE active_priority[t]]
QRunning == IF mode = "switch" THEN best_tcb
            ELSE IF running_tcb \in Threads THEN running_tcb ELSE NULL

\* The ticks since t was chosen, and the threads ahead of it.
Passed(t) == IF mode # "switch" THEN waited[t]
             ELSE IF t = best_tcb THEN 0 ELSE waited[t] + 1
Ahead(t) == {u \in QueuedThreads : t \in QBehind[u]}

\* A waiting thread ran until the last tick: its active priority may be the
\* sentinel of the loop, and everybody but the running thread is ahead of it,
JustRan(t) ==
  /\ QRunning \in QueuedThreads /\ Passed(t) = 1
  /\ QActive[t] <= QPriority[t] + 1
  /\ Ahead(t) = QueuedThreads \ {t, QRunning}

\* or every tick lowers its active priority or lets one thread ahead of it
\* pass for good,
CountsDown(t) ==
  /\ QActive[t] < UINT16_MAX
  /\ Passed(t) + QActive[t] + Cardinality(Ahead(t))
       <= QPriority[t] + Cardinality(Threads) - 1

\* or it has the lowest priority and the fallback has passed it over once.
PassedOver(t) ==
  /\ QActive[t] < UINT16_MAX /\ QPriority[t] = UINT16_MAX - 1
  /\ Passed(t) = 2 /\ QueuedThreads = {t, QRunning} /\ t # QRunning

\* Why nobody waits longer than BoundedWaiting says, and when the fallback can
\* give a thread a second turn.
WaitInv ==
  /\ \A t \in Threads \ QueuedThreads : waited[t] = 0
  /\ \A t \in QueuedThreads :
       /\ waited[t] <= QPriority[t] + Cardinality(Threads) - 1
       /\ t = QRunning => /\ Passed(t) = 0 /\ QActive[t] <= QPriority[t] + 1
                          /\ Ahead(t) = QueuedThreads \ {t}
       /\ t # QRunning => JustRan(t) \/ CountsDown(t) \/ PassedOver(t)
  /\ mode = "switch" /\ best_tcb = running_tcb =>
       \A t \in QueuedThreads \ {best_tcb} : QPriority[t] = UINT16_MAX - 1
=============================================================================
