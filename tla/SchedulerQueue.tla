--------------------------- MODULE SchedulerQueue ---------------------------
(***************************************************************************)
(* What the scheduler promises, without lists, loops or interrupts: a      *)
(* queue of threads, each with an active priority that counts down while   *)
(* the thread waits, and one atomic step per timer tick.  Who is admitted  *)
(* with which active priority and who may be chosen are the rules of       *)
(* scheduler.c, which are not those of docs/Scheduling/Design.md.          *)
(***************************************************************************)
EXTENDS Integers

CONSTANTS Threads, UINT16_MAX, Priorities,
          None             \* nobody: kmain still has the processor

VARIABLES queued,          \* the threads that have been admitted
          behind,          \* behind[t]: the queued threads after t
          priority, active_priority,
          running          \* the thread the last tick chose

qvars == <<queued, behind, priority, active_priority, running>>

Init ==
  /\ queued = {}
  /\ behind = [t \in Threads |-> {}]
  /\ priority = [t \in Threads |-> 0]
  /\ active_priority = [t \in Threads |-> 0]
  /\ running = None

\* Everyone in the queue but the running thread waits for the processor.
Waiting == queued \ {running}

Aged(a) == IF a >= 1 THEN a - 1 ELSE 0

\* The order once c is at the end of the queue q.
AtEnd(c, q) ==
  [t \in Threads |-> IF t \in q \ {c} THEN behind[t] \cup {c} ELSE {}]

Admit(t, p) ==
  /\ t \notin queued
  /\ running = None
  /\ queued' = queued \cup {t}
  /\ behind' = AtEnd(t, queued)
  /\ priority' = [priority EXCEPT ![t] = p]
  /\ active_priority' = [active_priority EXCEPT ![t] = p]
  /\ UNCHANGED running

\* c may be chosen: it is strictly better than every waiting thread ahead of
\* it, and at most one worse than those behind it.
Eligible(c) ==
  /\ c \in Waiting
  /\ active_priority[c] < UINT16_MAX
  /\ \A u \in Waiting \ {c} :
       IF c \in behind[u]
         THEN active_priority[c] < active_priority[u]
         ELSE Aged(active_priority[c]) <= active_priority[u]

\* Everyone who waited ages; the thread that runs next starts over.
AgeAndRestart(c) ==
  active_priority' = [t \in Threads |->
                        IF t = c THEN priority[c] + 1
                        ELSE IF t \in Waiting THEN Aged(active_priority[t])
                        ELSE active_priority[t]]

\* A tick hands the processor to an eligible thread, which goes to the end.
Choose(c) ==
  /\ Eligible(c)
  /\ running' = c
  /\ behind' = AtEnd(c, queued)
  /\ AgeAndRestart(c)
  /\ UNCHANGED <<queued, priority>>

\* Nobody may be chosen: the running thread keeps the processor.
Keep ==
  /\ running # None
  /\ \A u \in Waiting : active_priority[u] = UINT16_MAX
  /\ AgeAndRestart(running)
  /\ UNCHANGED <<queued, behind, priority, running>>

Next ==
  \/ \E t \in Threads, p \in Priorities : Admit(t, p)
  \/ \E c \in Threads : Choose(c)
  \/ Keep

QueueSpec == Init /\ [][Next]_qvars
=============================================================================
