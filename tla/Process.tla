------------------------------- MODULE Process -------------------------------
(***************************************************************************)
(* The creation of processes: init_process (Process.c) with create_thread  *)
(* and thread_supply_new_mem (thread.c), on top of page_in (paging.c) and  *)
(* the frame allocator.                                                    *)
(*                                                                         *)
(* The frame allocator is a pool that hands out its lowest frames: MemMap  *)
(* has the details.  The heap is the module Heap: every Imalloc of a       *)
(* creation walks its blocks.                                              *)
(* Every page is a 4 KiB page: the page size that reaches ialloc_frames is *)
(* none of the values of PAGE_TYPE for larger ones.                        *)
(***************************************************************************)
EXTENDS Integers, Sequences, FiniteSets, Functions, Heap

CONSTANTS
  NumProcesses,        \* how many processes kmain creates
  PoolSizes,           \* how many frames may be free when it starts
  AllocationInfos,     \* pages asked for in each subspace
  DEFAULT_PAGE_SIZE,   \* 4096: what kmain passes as page sizes
  BootObjects          \* sizes of what handle_MADT and enable_io_apics take
                       \* from the heap before

ASSUME ProcessAssumption ==
  /\ NumProcesses \in Nat /\ PoolSizes \subseteq Nat
  /\ AllocationInfos \subseteq [{"code", "mapping", "stack"} -> 1..510]
  /\ DEFAULT_PAGE_SIZE \in Nat
  /\ BootObjects \in Seq(Nat \ {0}) /\ BootObjects # <<>>

VARIABLES
  free, lost,          \* frames in the pool; taken, and recorded nowhere
  \* per process: root table, other tables, frame lists of the subspaces (or
  \* FRAME_ALLOC_FAILED), and the pages mapped: <<subspace, page>> to
  \* [frame, perms]
  page_table, tables, supply_block, mapped,
  objects,             \* live heap objects: <<process, kind>> to address
  scheduled, failed,   \* processes dispatched, and those that became NULL
  pc, pid,             \* where init_process is, and for which process
  allocation_info, priority_ok

pool_vars == <<free, lost>>
space_vars == <<page_table, tables, supply_block, mapped>>
args == <<pid, allocation_info, priority_ok>>
vars == <<pool_vars, space_vars, objects, scheduled, failed, pc, args, heap_vars>>

-----------------------------------------------------------------------------
Processes == 1..NumProcesses
Spaces == {"code", "mapping", "stack"}
None == 0
FRAME_ALLOC_FAILED == <<-1>>

\* The pool's n lowest frames, in order.
Lowest(n) ==
  [i \in 1..n |-> CHOOSE f \in free : Cardinality({g \in free : g <= f}) = i]
FramesOf(list) == IF list = FRAME_ALLOC_FAILED THEN {} ELSE Range(list)

\* What page_in has to allocate before the first page of a subspace: the
\* subspaces are in root entries of their own, which kmain's table lacks.
TablesPerSpace == 3

\* thread_memory_supply_block_t, tcb_t, pcb_t and thread_descriptor_t, in units
\* of 16 bytes.
SizeOf == [supply_block |-> 2, tcb |-> 17, pcb |-> 2, descriptor |-> 1]

PERM_BIT(p, shift) == (p \div (2 ^ shift)) % 2 = 1
WRITEABLE == 2
CACHE_DISABLED == 2 ^ 15

\* The permissions init_process asks for.
permissions == [code |-> WRITEABLE, mapping |-> WRITEABLE + CACHE_DISABLED,
                stack |-> WRITEABLE]

\* APPLY_LEAF_PERMS for a user thread.
leaf_perms(p) == [user |-> TRUE, writeable |-> PERM_BIT(p, 1),
                  cache_disabled |-> PERM_BIT(p, 15)]

\* What thread_supply_new_mem passes as permissions: the number of code
\* pages, and the page size of the other subspaces.
supplied_perms(s) ==
  IF s = "code" THEN allocation_info.code ELSE DEFAULT_PAGE_SIZE

Init ==
  /\ \E n \in PoolSizes : free = 1..n
  /\ lost = {}
  /\ page_table = [p \in Processes |-> None]
  /\ tables = [p \in Processes |-> {}]
  /\ supply_block = [p \in Processes |-> [s \in Spaces |-> <<>>]]
  /\ mapped = [p \in Processes |-> <<>>]
  /\ objects = <<>> /\ scheduled = {} /\ failed = {}
  /\ pc = "boot" /\ pid = 0
  /\ allocation_info = [s \in Spaces |-> 0] /\ priority_ok = TRUE
  /\ HeapInit

-----------------------------------------------------------------------------
(* Imalloc: the caller waits at its own name while the heap is walked.     *)

Asks(kind) == pc' = kind /\ Imalloc(SizeOf[kind])

Gets(kind) ==
  /\ pc = kind /\ walk.step = "done"
  /\ objects' = Updated(objects, At(<<pid, kind>>, walk.ptr))
  /\ walk' = [walk EXCEPT !.step = "idle"]
  /\ UNCHANGED <<pages_end, meta, live>>

\* kmain before the processes: the records of the MADT and of the I/O APICs.
boot_object ==
  /\ pc = "boot"
  /\ \/ /\ walk.step = "done" /\ walk' = [walk EXCEPT !.step = "idle"]
        /\ pc' = IF Cardinality(live) = Len(BootObjects) THEN "kmain" ELSE "boot"
        /\ UNCHANGED <<pages_end, meta, live>>
     \/ Imalloc(BootObjects[Cardinality(live) + 1]) /\ UNCHANGED pc
  /\ UNCHANGED <<pool_vars, space_vars, objects, scheduled, failed, args>>

\* init_process asks for the supply block.
init_process(info, ok) ==
  /\ pc = "kmain" /\ pid < NumProcesses
  /\ pid' = pid + 1 /\ allocation_info' = info /\ priority_ok' = ok
  /\ Asks("supply_block")
  /\ UNCHANGED <<pool_vars, space_vars, objects, scheduled, failed>>

spawn_alloc_thread ==
  /\ Gets("supply_block") /\ pc' = "thread"
  /\ UNCHANGED <<pool_vars, space_vars, scheduled, failed, args>>

\* A priority of UINT16_MAX is refused; spawn_alloc_thread goes on with NULL.
create_thread_refuses ==
  /\ pc = "thread" /\ ~priority_ok
  /\ pc' = "code"
  /\ UNCHANGED <<pool_vars, space_vars, objects, scheduled, failed, args, heap_vars>>

create_thread ==
  /\ pc = "thread" /\ priority_ok
  /\ Asks("tcb")
  /\ UNCHANGED <<pool_vars, space_vars, objects, scheduled, failed, args>>

\* The tcb has a frame for its root table, which is written to unchecked.
create_thread_table ==
  /\ Gets("tcb")
  /\ IF free = {}
       THEN pc' = "fault" /\ UNCHANGED <<free, page_table>>
       ELSE /\ pc' = "code"
            /\ page_table' = [page_table EXCEPT ![pid] = Lowest(1)[1]]
            /\ free' = free \ {page_table'[pid]}
  /\ UNCHANGED <<lost, tables, supply_block, mapped, scheduled, failed, args>>

\* thread_supply_new_mem goes through the subspaces whatever happens to them.
AfterSpace(s) == CASE s = "code" -> "mapping" [] s = "mapping" -> "stack"
                   [] s = "stack" -> "objects"

Supplying(s) ==
  /\ pc = s
  /\ UNCHANGED <<page_table, objects, scheduled, failed, args, heap_vars>>

Fails(s) ==
  /\ supply_block' = [supply_block EXCEPT ![pid][s] = FRAME_ALLOC_FAILED]
  /\ pc' = AfterSpace(s)
  /\ UNCHANGED mapped

\* ialloc_frames without a first frame.
supply_first_fails(s) ==
  /\ Supplying(s) /\ free = {}
  /\ pc' = "fault"
  /\ UNCHANGED <<pool_vars, tables, supply_block, mapped>>

\* ialloc_frames runs out of frames later, and keeps what it has.
supply_later_fails(s) ==
  /\ Supplying(s) /\ Cardinality(free) \in 1..(allocation_info[s] - 1)
  /\ free' = {} /\ lost' = lost \cup free
  /\ Fails(s)
  /\ UNCHANGED tables

HasList(s) == Cardinality(free) >= allocation_info[s]
List(s) == Lowest(allocation_info[s])

\* thread_supply_mem_region reads the page table of NULL.
supply_null_thread(s) ==
  /\ Supplying(s) /\ HasList(s) /\ ~priority_ok
  /\ free' = free \ Range(List(s)) /\ lost' = lost \cup Range(List(s))
  /\ pc' = "fault"
  /\ UNCHANGED <<tables, supply_block, mapped>>

\* page_in runs out of frames for its tables; the list is forgotten.
supply_page_in_fails(s) ==
  /\ Supplying(s) /\ HasList(s) /\ priority_ok
  /\ Cardinality(free) < allocation_info[s] + TablesPerSpace
  /\ tables' = [tables EXCEPT ![pid] = @ \cup (free \ Range(List(s)))]
  /\ free' = {} /\ lost' = lost \cup Range(List(s))
  /\ Fails(s)

\* Every page of the list is mapped, from the start of the subspace upward.
supply_ok(s) ==
  /\ Supplying(s) /\ priority_ok
  /\ Cardinality(free) >= allocation_info[s] + TablesPerSpace
  /\ LET taken == Lowest(allocation_info[s] + TablesPerSpace)
         pages == {<<s, i>> : i \in 0..(allocation_info[s] - 1)}
     IN /\ free' = free \ Range(taken)
        /\ supply_block' = [supply_block EXCEPT ![pid][s] = List(s)]
        /\ tables' = [tables EXCEPT ![pid] =
                        @ \cup (Range(taken) \ Range(List(s)))]
        /\ mapped' = [mapped EXCEPT ![pid] =
             [v \in DOMAIN @ \cup pages |->
                IF v \in DOMAIN @ THEN @[v]
                ELSE [frame |-> List(s)[v[2] + 1],
                      perms |-> leaf_perms(supplied_perms(s))]]]
  /\ pc' = AfterSpace(s)
  /\ UNCHANGED lost

thread_supply_new_mem_region(s) ==
  \/ supply_first_fails(s) \/ supply_later_fails(s) \/ supply_null_thread(s)
  \/ supply_page_in_fails(s) \/ supply_ok(s)

\* The pcb and the thread descriptor.
init_process_pcb ==
  /\ pc = "objects" /\ Asks("pcb")
  /\ UNCHANGED <<pool_vars, space_vars, objects, scheduled, failed, args>>

init_process_descriptor ==
  /\ \/ Gets("pcb") /\ pc' = "objects2"
     \/ pc = "objects2" /\ Asks("descriptor") /\ UNCHANGED objects
     \/ Gets("descriptor") /\ pc' = "check"
  /\ UNCHANGED <<pool_vars, space_vars, scheduled, failed, args>>

\* Mutant: the stack's result is not looked at.
any_failed_but_stack ==
  \E s \in Spaces \ {"stack"} : supply_block[pid][s] = FRAME_ALLOC_FAILED

any_failed == \E s \in Spaces : supply_block[pid][s] = FRAME_ALLOC_FAILED

\* Mutant: only the code's frames are released.
released_code == FramesOf(supply_block[pid]["code"])

\* What idealloc_frames is called on: the lists that did not fail.
released == UNION {FramesOf(supply_block[pid][s]) : s \in Spaces}

\* Mutant: the process is dispatched all the same.
outcome_dispatched ==
  scheduled' = scheduled \cup {pid} /\ UNCHANGED failed

\* create_process returns NULL before the thread is handed to the scheduler.
outcome == failed' = failed \cup {pid} /\ UNCHANGED scheduled

Frees(kind) ==
  /\ free_block(objects[<<pid, kind>>])
  /\ objects' = [o \in DOMAIN objects \ {<<pid, kind>>} |-> objects[o]]

\* Mutant: the tcb is released instead of the supply block.
cleanup_tcb == Frees("tcb")

\* What is given back to the heap.
cleanup == Frees("supply_block")

\* The frame lists and the supply block are released, and NULL is returned.
init_process_fails ==
  /\ pc = "check" /\ any_failed
  /\ free' = free \cup released
  /\ supply_block' = [supply_block EXCEPT ![pid] = [s \in Spaces |-> <<>>]]
  /\ cleanup /\ outcome
  /\ pc' = "kmain"
  /\ UNCHANGED <<lost, page_table, tables, mapped, args>>

\* The code is copied and the caller hands the thread to the scheduler.
create_process ==
  /\ pc = "check" /\ ~any_failed
  /\ scheduled' = scheduled \cup {pid}
  /\ pc' = "kmain"
  /\ UNCHANGED <<pool_vars, space_vars, objects, failed, args, heap_vars>>

\* kmain goes on to the timer, or the fault handler has halted the machine.
Done ==
  /\ \/ pc = "fault" \/ walk.step = "fault"
     \/ pc = "kmain" /\ pid = NumProcesses
  /\ UNCHANGED vars

HeapStep ==
  /\ Imalloc_alocator
  /\ UNCHANGED <<pool_vars, space_vars, objects, scheduled, failed, pc, args>>

Next ==
  \/ boot_object \/ HeapStep
  \/ \E info \in AllocationInfos, ok \in BOOLEAN : init_process(info, ok)
  \/ spawn_alloc_thread
  \/ create_thread_refuses \/ create_thread \/ create_thread_table
  \/ \E s \in Spaces : thread_supply_new_mem_region(s)
  \/ init_process_pcb \/ init_process_descriptor
  \/ init_process_fails \/ create_process
  \/ Done

Spec == Init /\ [][Next]_vars

-----------------------------------------------------------------------------
(* Properties *)

\* The type of every variable.
TypeOK ==
  LET Frames == free \cup lost \cup UNION {tables[p] : p \in Processes}
  IN /\ Frames \subseteq Nat \ {0}
     /\ page_table \in [Processes -> Nat]
     /\ \A p \in Processes, s \in Spaces : supply_block[p][s] \in Seq(Int)
     /\ \A o \in DOMAIN objects :
          o \in Processes \X DOMAIN SizeOf /\ objects[o] \in Nat
     /\ scheduled \subseteq Processes /\ failed \subseteq Processes
     /\ pc \in {"boot", "kmain", "thread", "objects", "objects2", "check",
                "fault"} \cup DOMAIN SizeOf \cup Spaces
     /\ pid \in 0..NumProcesses /\ priority_ok \in BOOLEAN
     /\ HeapTypeOK

\* The frames process p has in its tables and behind its pages.
Reachable(p) == {page_table[p]} \cup tables[p]
                  \cup {mapped[p][v].frame : v \in DOMAIN mapped[p]}

\* A thread that can be dispatched reaches no frame that is free, and none
\* that another dispatched thread reaches: although a failed creation leaves
\* mapped what init_process gives back, nobody runs on those tables.
DispatchedFramesExclusive ==
  \A p \in scheduled :
    /\ Reachable(p) \cap free = {}
    /\ \A q \in scheduled \ {p} : Reachable(p) \cap Reachable(q) = {}

\* A thread that can be dispatched has every page it asked for, each on a
\* frame of its own.
DispatchedComplete ==
  \A p \in scheduled :
    \A s \in Spaces :
      LET pages == {v \in DOMAIN mapped[p] : v[1] = s}
      IN /\ pages # {}
         /\ {mapped[p][v].frame : v \in pages} = Range(supply_block[p][s])
         /\ Cardinality(pages) = Len(supply_block[p][s])
         /\ \A v, w \in pages : v # w => mapped[p][v].frame # mapped[p][w].frame

\* Where a frame can be, and what is there.
Holders == {<<0, "free">>, <<0, "lost">>}
             \cup Processes \X ({"page_table", "tables"} \cup Spaces)
Held(h) ==
  CASE h[2] = "free" -> free
    [] h[2] = "lost" -> lost
    [] h[2] = "page_table" -> {page_table[h[1]]} \ {None}
    [] h[2] = "tables" -> tables[h[1]]
    [] OTHER -> FramesOf(supply_block[h[1]][h[2]])

\* No step of a creation, failed or not, duplicates a frame or drops one
\* without account: every frame of the pool has exactly one holder.
FramesConserved ==
  /\ \A g, h \in Holders : g # h => Held(g) \cap Held(h) = {}
  /\ \E n \in PoolSizes : UNION {Held(h) : h \in Holders} = 1..n

\* The pages of each subspace have the permissions init_process asked for
\* ("@param perm_info permissions for each subspace", thread.c).
PermissionsApplied ==
  \A p \in scheduled : \A v \in DOMAIN mapped[p] :
    mapped[p][v].perms = leaf_perms(permissions[v[1]])
=============================================================================
