-------------------------------- MODULE Heap --------------------------------
(***************************************************************************)
(* The kernel heap (alloc.c): blocks, each with a header in front of it,   *)
(* that Imalloc_alocator walks, splits and marks, and that free merges.    *)
(*                                                                         *)
(* Addresses and lengths are in units of HEAP_ALIGNMENT, which is also the *)
(* size of a header and of the allocator record at address 0.  The pages   *)
(* of the heap are the units 0..(pages_end - 1).  Clients may overwrite    *)
(* all they were given, so the headers inside an allocation are gone.      *)
(***************************************************************************)
EXTENDS Integers

CONSTANTS HeapSizes    \* how large alloc_init may make the heap

ASSUME HeapAssumption == HeapSizes \subseteq Nat \ {0, 1}

VARIABLES
  pages_end,     \* where the pages of the heap end, and heapSize
  meta,          \* the headers: address to block_size, allocated and
                 \* prev_block_data, the distance back to the previous header
  live,          \* history: what clients hold, as [ptr, size]
  walk           \* the call of Imalloc: step, header, size (of the whole
                 \* block) and the pointer returned

heap_vars == <<pages_end, meta, live, walk>>

-----------------------------------------------------------------------------
heapStart == 1
META_DATA_SIZE == 1

Header(size, allocated, prev) ==
  [block_size |-> size, allocated |-> allocated, prev_block_data |-> prev]

\* f with the entries of g added or replaced.
Updated(f, g) ==
  [x \in DOMAIN f \cup DOMAIN g |-> IF x \in DOMAIN g THEN g[x] ELSE f[x]]
At(x, y) == [i \in {x} |-> y]

\* The end the walk compares with: heapSize counts the allocator record, so
\* it is one unit past the pages.
walk_end == heapStart + pages_end

\* init_custom_alloc: one free block over all of the pages.
HeapInit ==
  /\ pages_end \in HeapSizes
  /\ meta = At(heapStart, Header(pages_end - 1, FALSE, 0))
  /\ live = {}
  /\ walk = [step |-> "idle", header |-> 0, size |-> 0, ptr |-> 0]

-----------------------------------------------------------------------------
(* Imalloc_alocator, one step per header of the walk                       *)

Imalloc(size) ==
  /\ walk.step = "idle"
  /\ walk' = [step |-> "walk", header |-> heapStart,
              size |-> size + META_DATA_SIZE, ptr |-> 0]
  /\ UNCHANGED <<pages_end, meta, live>>

\* The header the walk is at, if it can be read and ends before walk_end.
Block == meta[walk.header]
Readable == walk.step = "walk" /\ walk.header \in DOMAIN meta
InHeap == Readable /\ walk.header + Block.block_size < walk_end

\* The payload is the caller's: any header left in it is overwritten.
Returns(blocks) ==
  LET ptr == walk.header + META_DATA_SIZE
      payload == ptr..(walk.header + walk.size - 1)
  IN /\ meta' = [x \in DOMAIN blocks \ payload |-> blocks[x]]
     /\ live' = live \cup {[ptr |-> ptr, size |-> walk.size - META_DATA_SIZE]}
     /\ walk' = [walk EXCEPT !.step = "done", !.ptr = ptr]
     /\ UNCHANGED pages_end

take_exact ==
  /\ InHeap /\ ~Block.allocated /\ Block.block_size = walk.size
  /\ Returns([meta EXCEPT ![walk.header].allocated = TRUE])

\* Mutant: the rest of a split block keeps the length of the whole.
split_rest_unshortened == Header(Block.block_size, FALSE, walk.size)

\* Mutant: the difference is taken the wrong way round and leaves its type.
split_rest_reversed == Header(walk.size - Block.block_size, FALSE, walk.size)

\* The rest of a split block.
split_rest == Header(Block.block_size - walk.size, FALSE, walk.size)

\* The header behind the rest still has the distance to the whole block.
take_split ==
  /\ InHeap /\ ~Block.allocated /\ Block.block_size > walk.size
  /\ Returns(Updated(meta,
       Updated(At(walk.header + walk.size, split_rest),
               At(walk.header, [Block EXCEPT !.allocated = TRUE,
                                             !.block_size = walk.size]))))

advance ==
  /\ InHeap /\ Block.allocated
  /\ walk' = [walk EXCEPT !.header = @ + Block.block_size]
  /\ UNCHANGED <<pages_end, meta, live>>

\* A free block that is too small ends the walk, as the end of the heap does.
\* The growth asks ialloc_frames for heapSize * 3 pages, more than it grants,
\* and its answer, FRAME_ALLOC_FAILED, is dereferenced.
grow ==
  /\ Readable
  /\ InHeap => ~Block.allocated /\ Block.block_size < walk.size
  /\ walk' = [walk EXCEPT !.step = "fault"]
  /\ UNCHANGED <<pages_end, meta, live>>

\* The last block is allocated and ends with the pages, which walk_end does
\* not notice: the header behind it is read from an unmapped page.
walk_off ==
  /\ walk.step = "walk" /\ walk.header \notin DOMAIN meta
  /\ walk' = [walk EXCEPT !.step = "fault"]
  /\ UNCHANGED <<pages_end, meta, live>>

Imalloc_alocator == take_exact \/ take_split \/ advance \/ grow \/ walk_off

-----------------------------------------------------------------------------
(* free, with the headers before and behind the block                      *)

PrevOf(h) == h - meta[h].prev_block_data
NextOf(h) == h + meta[h].block_size

\* Mutant: a neighbour is merged whether or not it is free.
IsFree_any(h) == h \in DOMAIN meta

IsFree(h) == h \in DOMAIN meta /\ ~meta[h].allocated

\* A merge adds the length of a header although block_size contains it.
merged_size(h) ==
  LET prev == IF IsFree(PrevOf(h))
                THEN meta[PrevOf(h)].block_size + META_DATA_SIZE ELSE 0
      next == IF IsFree(NextOf(h))
                THEN meta[NextOf(h)].block_size + META_DATA_SIZE ELSE 0
  IN prev + meta[h].block_size + next

\* What free writes: the header of the previous block if it merges with it,
\* its own otherwise.
freed(h) ==
  LET working == IF IsFree(PrevOf(h)) THEN PrevOf(h) ELSE h
  IN Updated(meta, At(working, [meta[working] EXCEPT
                                  !.allocated = FALSE,
                                  !.block_size = merged_size(h)]))

\* Both neighbours' headers are read; one that is not there is behind the
\* last page, or (after a wrong merge) data of a client, where the model stops.
free_block(ptr) ==
  LET h == ptr - META_DATA_SIZE
  IN /\ walk.step = "idle" /\ h \in DOMAIN meta
     /\ IF {PrevOf(h), NextOf(h)} \subseteq DOMAIN meta
          THEN meta' = freed(h) /\ UNCHANGED walk
          ELSE walk' = [walk EXCEPT !.step = "fault"] /\ UNCHANGED meta
     /\ live' = {a \in live : a.ptr # ptr}
     /\ UNCHANGED pages_end

-----------------------------------------------------------------------------
(* Properties *)

\* The types of the variables.
HeapTypeOK ==
  /\ pages_end \in HeapSizes
  /\ \A h \in DOMAIN meta :
       /\ h \in Nat
       /\ meta[h] \in [block_size : Nat, allocated : BOOLEAN,
                       prev_block_data : Nat]
  /\ live \subseteq [ptr : Nat, size : Nat]
  /\ walk \in [step : {"idle", "walk", "done", "fault"},
               header : Nat, size : Nat, ptr : Nat]

Units(a) == a.ptr..(a.ptr + a.size - 1)

\* No two objects that clients hold share memory, none lies on a header, and
\* all are inside the pages of the heap.
ObjectsDisjoint ==
  \A a \in live :
    /\ Units(a) \subseteq heapStart..(pages_end - 1)
    /\ Units(a) \cap DOMAIN meta = {}
    /\ \A b \in live \ {a} : Units(a) \cap Units(b) = {}

\* The headers that are not left over inside another block.
Blocks == {h \in DOMAIN meta :
             \A g \in DOMAIN meta : g < h => NextOf(g) <= h}

\* Every header has the length of its block and the distance to the header
\* before it ("takes role of header and footer by having the size of the
\* current block as well as the offset to the prev's blocks metadata",
\* alloc.c): the blocks tile the heap in both directions.
HeadersDescribeBlocks ==
  \A h \in Blocks :
    /\ NextOf(h) \in Blocks \cup {pages_end}
    /\ NextOf(h) \in Blocks => PrevOf(NextOf(h)) = h

\* Imalloc gives up only when no free block is large enough ("first fit
\* allocator", alloc.c), although its walk ends at the first free block: this
\* depends on the order in which the callers release blocks.
GivesUpOnlyWhenFull ==
  walk.step = "fault" =>
    \A h \in DOMAIN meta : ~meta[h].allocated => meta[h].block_size < walk.size
=============================================================================
