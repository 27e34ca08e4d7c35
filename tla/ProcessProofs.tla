---------------------------- MODULE ProcessProofs ----------------------------
(***************************************************************************)
(* Theorems about the creation of processes, for any number of processes,  *)
(* pool and requests: first what happens to frames (FrameInv), then to the *)
(* heap that Process allocates from (HeapInv).                             *)
(***************************************************************************)
EXTENDS Process, OrderLemmas

(***************************************************************************)
(* The inductive invariant                                                 *)
(***************************************************************************)

\* The stages of a creation before the frames of subspace s are asked for.
Before == [code |-> {"supply_block", "thread", "tcb", "code"},
           mapping |-> {"supply_block", "thread", "tcb", "code", "mapping"},
           stack |-> {"supply_block", "thread", "tcb", "code", "mapping", "stack"}]

\* The stages in which every subspace was gone through.
Supplied == {"objects", "pcb", "objects2", "descriptor", "check"}

Stages == {"thread", "fault"} \cup Spaces \cup Supplied \cup DOMAIN SizeOf

FrameTypes ==
  /\ page_table \in [Processes -> Nat]
  /\ tables \in [Processes -> SUBSET Nat]
  /\ supply_block \in [Processes -> [Spaces -> Seq(Int)]]
  /\ mapped = [p \in Processes |-> mapped[p]]
  /\ pid \in 0..NumProcesses /\ priority_ok \in BOOLEAN
  /\ pc \in {"boot", "kmain"} \cup Stages
  /\ pc \in Stages => pid \in Processes /\ allocation_info \in AllocationInfos

\* Nothing is recorded for a process, or for a subspace, whose turn is to come.
Fresh ==
  /\ \A p \in Processes :
       p > pid \/ (p = pid /\ pc \in {"supply_block", "thread", "tcb"})
         => page_table[p] = None
  /\ \A p \in Processes, s \in Spaces :
       p > pid \/ (p = pid /\ pc \in Before[s]) => supply_block[p][s] = <<>>

\* The pages mapped in subspace s of process p are those of its frame list.
PagesOf(p, s) == {v \in DOMAIN mapped[p] : v[1] = s}
Matches(p, s) ==
  IF supply_block[p][s] = FRAME_ALLOC_FAILED
    THEN PagesOf(p, s) = {}
    ELSE /\ PagesOf(p, s) = {<<s, i>> : i \in 0..(Len(supply_block[p][s]) - 1)}
         /\ \A i \in 0..(Len(supply_block[p][s]) - 1) :
              mapped[p][<<s, i>>].frame = supply_block[p][s][i + 1]

Matched ==
  /\ \A p \in Processes : \A v \in DOMAIN mapped[p] : v[1] \in Spaces
  /\ \A p \in Processes \ failed, s \in Spaces : Matches(p, s)

\* How far the process in creation, and the finished ones, have come.
Progress ==
  /\ scheduled \subseteq 1..pid /\ failed \subseteq 1..pid
  /\ scheduled \cap failed = {}
  /\ pc \in Stages => pid \notin scheduled \cup failed
  /\ pc \in Spaces \cup Supplied /\ priority_ok => page_table[pid] # None
  /\ pc = "mapping" /\ ~priority_ok => free = {}
  /\ pc \in {"stack"} \cup Supplied => priority_ok
  /\ \A s \in Spaces :
       pc \in (Spaces \cup Supplied) \ Before[s] => supply_block[pid][s] # <<>>
  /\ \A p \in scheduled :
       /\ page_table[p] # None
       /\ \A s \in Spaces : supply_block[p][s] \notin {<<>>, FRAME_ALLOC_FAILED}

\* No frame is twice in a list.
ListsDistinct ==
  \A p \in Processes, s \in Spaces :
    \A i, j \in 1..Len(supply_block[p][s]) :
      supply_block[p][s][i] = supply_block[p][s][j] => i = j

FrameInv == FrameTypes /\ FramesConserved /\ Fresh /\ Matched /\ Progress
              /\ ListsDistinct

-----------------------------------------------------------------------------
(* The frame allocator's lists *)

\* Lowest(n) is a list of n different free frames, and a longer list of the
\* same pool starts with it (ialloc_frames).
LEMMA LowestFacts ==
  ASSUME free \subseteq Nat, IsFiniteSet(free),
         NEW n \in Nat, n <= Cardinality(free)
  PROVE  /\ Lowest(n) \in [1..n -> free]
         /\ \A i, j \in 1..n : Lowest(n)[i] = Lowest(n)[j] => i = j
         /\ Range(Lowest(n)) \subseteq free
         /\ \A m \in 0..n : Range(Lowest(m)) \subseteq Range(Lowest(n))
<1>1. Cardinality(free) \in Nat
  BY FS_CardinalityType
<1>2. ASSUME NEW i \in 1..n
      PROVE  Lowest(n)[i] \in free /\ Cardinality(UpTo(free, Lowest(n)[i])) = i
  <2>1. i \in 1..Cardinality(free)
    BY <1>1
  <2> DEFINE rank(f) == Cardinality({g \in free : g <= f})
  <2>2. \E f \in free : Cardinality(UpTo(free, f)) = i
    BY <2>1, RankExists
  <2>3. \E f \in free : rank(f) = i
    BY <2>2 DEF UpTo
  <2>4. Lowest(n)[i] = CHOOSE f \in free : rank(f) = i
    BY Zenon DEF Lowest
  <2>5. Lowest(n)[i] \in free /\ rank(Lowest(n)[i]) = i
    <3> HIDE DEF rank
    <3> QED BY <2>3, <2>4
  <2> QED BY <2>5 DEF UpTo
<1>3. Lowest(n) \in [1..n -> free]
  BY <1>2 DEF Lowest
<1>4. \A i, j \in 1..n : Lowest(n)[i] = Lowest(n)[j] => i = j
  BY <1>2
<1>5. Range(Lowest(n)) \subseteq free
  BY <1>3 DEF Range
<1>6. ASSUME NEW m \in 0..n
      PROVE  Range(Lowest(m)) \subseteq Range(Lowest(n))
  <2>1. /\ DOMAIN Lowest(m) = 1..m /\ DOMAIN Lowest(n) = 1..n
        /\ \A i \in 1..m : i \in 1..n
    BY DEF Lowest
  <2>2. ASSUME NEW i \in 1..m, i \in 1..n
        PROVE  Lowest(m)[i] = Lowest(n)[i]
    <3> DEFINE ranked == CHOOSE f \in free : Cardinality({g \in free : g <= f}) = i
    <3>1. Lowest(m)[i] = ranked
      BY Zenon DEF Lowest
    <3>2. Lowest(n)[i] = ranked
      BY <2>2, Zenon DEF Lowest
    <3> QED BY <3>1, <3>2
  <2> QED BY <2>1, <2>2 DEF Range
<1> QED BY <1>3, <1>4, <1>5, <1>6

-----------------------------------------------------------------------------
(* Moving frames between holders *)

Disjoint(S, f) == \A g, h \in S : g # h => f[g] \cap f[h] = {}

\* g is f after from has handed X to a and Y to b.
HandsTo(S, f, g, from, a, b, X, Y) ==
  /\ from \in S /\ a \in S /\ b \in S /\ from # a /\ from # b /\ a # b
  /\ X \subseteq f[from] /\ Y \subseteq f[from] /\ X \cap Y = {}
  /\ g[from] = f[from] \ (X \cup Y)
  /\ g[a] = f[a] \cup X /\ g[b] = f[b] \cup Y
  /\ \A h \in S \ {from, a, b} : g[h] = f[h]

\* Frames handed from one holder to two others stay in one place each.
LEMMA Handed ==
  ASSUME NEW S, NEW f, NEW g, Disjoint(S, f),
         NEW from, NEW a, NEW b, NEW X, NEW Y, HandsTo(S, f, g, from, a, b, X, Y)
  PROVE  /\ Disjoint(S, g)
         /\ UNION {g[h] : h \in S} = UNION {f[h] : h \in S}
<1>1. \A h \in S : g[h] = CASE h = from -> f[from] \ (X \cup Y)
                            [] h = a -> f[a] \cup X
                            [] h = b -> f[b] \cup Y
                            [] OTHER -> f[h]
  BY DEF HandsTo
<1>2. \A x : \A h \in S : x \in g[h] <=>
         \/ h = from /\ x \in f[from] /\ x \notin X /\ x \notin Y
         \/ h = a /\ (x \in f[a] \/ x \in X)
         \/ h = b /\ (x \in f[b] \/ x \in Y)
         \/ h \notin {from, a, b} /\ x \in f[h]
  BY <1>1 DEF HandsTo
<1>3. ASSUME NEW k \in S, NEW h \in S, NEW x, x \in g[k], x \in g[h]
      PROVE  k = h
  <2>1. \A i, j \in S : x \in f[i] /\ x \in f[j] => i = j
    BY DEF Disjoint
  <2> QED BY <2>1, <1>2, <1>3 DEF HandsTo
<1>4. Disjoint(S, g)
  BY <1>3 DEF Disjoint
<1>5. \A x : (\E h \in S : x \in g[h]) <=> (\E h \in S : x \in f[h])
  <2> TAKE x
  <2>1. ASSUME NEW h \in S, x \in g[h] PROVE \E i \in S : x \in f[i]
    BY <2>1, <1>2 DEF HandsTo
  <2>2. ASSUME NEW h \in S, x \in f[h] PROVE \E i \in S : x \in g[i]
    <3>1. CASE x \in X
      BY <3>1, <1>2 DEF HandsTo
    <3>2. CASE x \in Y
      BY <3>2, <1>2 DEF HandsTo
    <3>3. CASE x \notin X /\ x \notin Y
      BY <3>3, <2>2, <1>2 DEF HandsTo
    <3> QED BY <3>1, <3>2, <3>3
  <2> QED BY <2>1, <2>2
<1> QED BY <1>4, <1>5

\* g is f after the holders F have given all they have to another one.
ReturnTo(S, f, g, to, F) ==
  /\ to \in S /\ F \subseteq S \ {to}
  /\ g[to] = f[to] \cup UNION {f[h] : h \in F}
  /\ \A h \in F : g[h] = {}
  /\ \A h \in S \ (F \cup {to}) : g[h] = f[h]

\* Frames that several holders give back to one stay in one place each.
LEMMA Returned ==
  ASSUME NEW S, NEW f, NEW g, Disjoint(S, f), NEW to, NEW F,
         ReturnTo(S, f, g, to, F)
  PROVE  /\ Disjoint(S, g)
         /\ UNION {g[h] : h \in S} = UNION {f[h] : h \in S}
<1>1. \A x : \A h \in S : x \in g[h] <=>
         \/ h = to /\ (x \in f[to] \/ \E k \in F : x \in f[k])
         \/ h \notin F /\ h # to /\ x \in f[h]
  <2> TAKE x
  <2> TAKE h \in S
  <2>1. CASE h = to
    BY <2>1 DEF ReturnTo
  <2>2. CASE h \in F
    BY <2>2 DEF ReturnTo
  <2>3. CASE h \notin F /\ h # to
    BY <2>3 DEF ReturnTo
  <2> QED BY <2>1, <2>2, <2>3
<1>2. ASSUME NEW k \in S, NEW h \in S, NEW x, x \in g[k], x \in g[h]
      PROVE  k = h
  <2>1. \A i, j \in S : x \in f[i] /\ x \in f[j] => i = j
    BY DEF Disjoint
  <2> QED BY <2>1, <1>1, <1>2 DEF ReturnTo
<1>3. Disjoint(S, g)
  BY <1>2 DEF Disjoint
<1>4. \A x : (\E h \in S : x \in g[h]) <=> (\E h \in S : x \in f[h])
  <2> TAKE x
  <2>1. ASSUME NEW h \in S, x \in g[h] PROVE \E i \in S : x \in f[i]
    BY <2>1, <1>1 DEF ReturnTo
  <2>2. ASSUME NEW h \in S, x \in f[h] PROVE \E i \in S : x \in g[i]
    BY <2>2, <1>1 DEF ReturnTo
  <2> QED BY <2>1, <2>2
<1> QED BY <1>3, <1>4

\* What each holder has, as a function.
holding == [h \in Holders |-> Held(h)]

Free == <<0, "free">>
Lost == <<0, "lost">>

\* The holders are the pool, the lost frames, and for each process its root
\* table, its other tables and the lists of its subspaces.
LEMMA HoldersAre ==
  /\ Free \in Holders /\ Lost \in Holders
  /\ \A p \in Processes : /\ <<p, "page_table">> \in Holders
                          /\ <<p, "tables">> \in Holders
                          /\ \A s \in Spaces : <<p, s>> \in Holders
  /\ \A h \in Holders :
       \/ h = Free \/ h = Lost
       \/ \E p \in Processes : \/ h = <<p, "page_table">> \/ h = <<p, "tables">>
                               \/ \E s \in Spaces : h = <<p, s>>
BY DEF Holders, Free, Lost, Spaces

\* What holding says of each of them.
HoldingFacts ==
  /\ holding[Free] = free /\ holding[Lost] = lost
  /\ \A p \in Processes :
       /\ holding[<<p, "page_table">>] = {page_table[p]} \ {None}
       /\ holding[<<p, "tables">>] = tables[p]
       /\ \A s \in Spaces : holding[<<p, s>>] = FramesOf(supply_block[p][s])

\* Held is what HoldingFacts says, in every state.
LEMMA HoldingIs == HoldingFacts
<1>1. \A h \in Holders : holding[h] = Held(h)
  BY DEF holding
<1>2. holding[Free] = free /\ holding[Lost] = lost
  BY <1>1, HoldersAre DEF Held, Free, Lost
<1>3. ASSUME NEW p \in Processes
      PROVE  /\ holding[<<p, "page_table">>] = {page_table[p]} \ {None}
             /\ holding[<<p, "tables">>] = tables[p]
  BY <1>1, HoldersAre DEF Held
<1>4. ASSUME NEW p \in Processes, NEW s \in Spaces
      PROVE  holding[<<p, s>>] = FramesOf(supply_block[p][s])
  BY <1>1, HoldersAre DEF Held, Spaces
<1> QED BY <1>2, <1>3, <1>4 DEF HoldingFacts

\* FramesConserved in terms of holding.
LEMMA ConservedAs ==
  FramesConserved <=>
    /\ Disjoint(Holders, holding)
    /\ \E n \in PoolSizes : UNION {holding[h] : h \in Holders} = 1..n
<1>1. \A h \in Holders : holding[h] = Held(h)
  BY DEF holding
<1>2. {holding[h] : h \in Holders} = {Held(h) : h \in Holders}
  BY <1>1
<1> QED BY <1>1, <1>2 DEF FramesConserved, Disjoint

\* A step that only moves frames conserves them.
LEMMA ConservedStep ==
  ASSUME FramesConserved, Disjoint(Holders, holding'),
         UNION {holding'[h] : h \in Holders} = UNION {holding[h] : h \in Holders}
  PROVE  FramesConserved'
<1>1. Holders' = Holders
  BY DEF Holders, Processes, Spaces
<1>2. /\ Disjoint(Holders, holding)
      /\ \E n \in PoolSizes : UNION {holding[h] : h \in Holders} = 1..n
  BY ConservedAs
<1>3. \A h \in Holders : holding'[h] = Held(h)'
  BY <1>1 DEF holding
<1>4. {holding'[h] : h \in Holders} = {Held(h)' : h \in Holders}
  BY <1>3
<1>5. \E n \in PoolSizes : UNION {Held(h)' : h \in Holders} = 1..n
  BY <1>2, <1>4
<1>6. \A g, h \in Holders : g # h => Held(g)' \cap Held(h)' = {}
  BY <1>3 DEF Disjoint
<1> QED BY <1>1, <1>5, <1>6 DEF FramesConserved

\* Every frame anywhere is one of the pool's, and the pool is finite.
LEMMA PoolFacts ==
  ASSUME FramesConserved
  PROVE  /\ free \subseteq Nat \ {0} /\ IsFiniteSet(free) /\ lost \subseteq Nat \ {0}
         /\ Cardinality(free) \in Nat
         /\ \A p \in Processes : tables[p] \subseteq Nat \ {0}
         /\ \A p \in Processes, s \in Spaces :
              FramesOf(supply_block[p][s]) \subseteq Nat \ {0}
<1>1. PICK n \in PoolSizes : UNION {holding[h] : h \in Holders} = 1..n
  BY ConservedAs
<1>2. n \in Nat
  BY ProcessAssumption
<1>3. \A h \in Holders : holding[h] \subseteq 1..n
  BY <1>1
<1>4. 1..n \subseteq Nat \ {0} /\ IsFiniteSet(1..n)
  BY <1>2, FS_Interval
<1>5. free \subseteq 1..n /\ lost \subseteq 1..n
  BY <1>3, HoldersAre, HoldingIs DEF HoldingFacts
<1>6. IsFiniteSet(free)
  BY <1>4, <1>5, FS_Subset
<1>9. Cardinality(free) \in Nat
  BY <1>6, FS_CardinalityType
<1>7. ASSUME NEW p \in Processes
      PROVE  tables[p] \subseteq 1..n
  BY <1>3, HoldersAre, HoldingIs DEF HoldingFacts
<1>8. ASSUME NEW p \in Processes, NEW s \in Spaces
      PROVE  FramesOf(supply_block[p][s]) \subseteq 1..n
  <2>1. <<p, s>> \in Holders
    BY HoldersAre
  <2>2. holding[<<p, s>>] = FramesOf(supply_block[p][s])
    BY HoldingIs DEF HoldingFacts
  <2> QED BY <1>3, <2>1, <2>2
<1> QED BY <1>4, <1>5, <1>6, <1>7, <1>8, <1>9

\* HoldingFacts of the next state.
LEMMA HoldingNext == HoldingFacts'
BY HoldingIs, PTL

\* Frames that leave the pool for one or two holders are conserved.
LEMMA HandOut ==
  ASSUME FramesConserved, NEW a, NEW b, NEW X, NEW Y,
         HandsTo(Holders, holding, holding', Free, a, b, X, Y)
  PROVE  FramesConserved'
<1>1. Disjoint(Holders, holding)
  BY ConservedAs
<1>2. /\ Disjoint(Holders, holding')
      /\ UNION {holding'[h] : h \in Holders} = UNION {holding[h] : h \in Holders}
  <2> DEFINE f == holding
             g == holding'
  <2>1. Disjoint(Holders, f) /\ HandsTo(Holders, f, g, Free, a, b, X, Y)
    BY <1>1
  <2>2. Disjoint(Holders, g) /\ UNION {g[h] : h \in Holders} = UNION {f[h] : h \in Holders}
    <3> HIDE DEF f, g
    <3> QED BY <2>1, Handed
  <2> QED BY <2>2
<1> QED BY <1>2, ConservedStep

\* The three lists of a process that are given back.
LEMMA GiveBack ==
  ASSUME FramesConserved, NEW q \in Processes,
         free' = free \cup UNION {FramesOf(supply_block[q][s]) : s \in Spaces},
         \A s \in Spaces : supply_block'[q][s] = <<>>,
         \A p \in Processes \ {q}, s \in Spaces :
            supply_block'[p][s] = supply_block[p][s],
         UNCHANGED <<lost, page_table, tables>>
  PROVE  FramesConserved'
<1> DEFINE F == {<<q, s>> : s \in Spaces}
<1>1. F \in SUBSET (Holders \ {Free}) /\ Free \in Holders
  <2>1. q # 0
    BY ProcessAssumption DEF Processes
  <2>2. Free \in Holders /\ \A s \in Spaces : <<q, s>> \in Holders
    BY HoldersAre
  <2>3. \A s \in Spaces : <<q, s>> # Free
    BY <2>1 DEF Free
  <2> QED BY <2>2, <2>3
<1>2. holding'[Free] = holding[Free] \cup UNION {holding[h] : h \in F}
  <2>1. holding'[Free] = free' /\ holding[Free] = free
    BY HoldingIs, HoldingNext DEF HoldingFacts, Free
  <2>2. \A s \in Spaces : holding[<<q, s>>] = FramesOf(supply_block[q][s])
    BY HoldingIs DEF HoldingFacts
  <2>3. \A x : (\E h \in F : x \in holding[h])
                 <=> \E s \in Spaces : x \in FramesOf(supply_block[q][s])
    BY <2>2
  <2>4. UNION {holding[h] : h \in F} = UNION {FramesOf(supply_block[q][s]) : s \in Spaces}
    BY <2>3
  <2> QED BY <2>1, <2>4
<1>3. ASSUME NEW h \in F PROVE holding'[h] = {}
  <2>1. PICK s \in Spaces : h = <<q, s>>
    OBVIOUS
  <2>2. holding'[h] = FramesOf(supply_block'[q][s])
    BY <2>1, HoldingNext DEF HoldingFacts, FramesOf
  <2> QED BY <2>2 DEF FramesOf, FRAME_ALLOC_FAILED, Range
<1>4. ASSUME NEW h \in Holders \ (F \cup {Free}) PROVE holding'[h] = holding[h]
  <2>1. CASE h = Lost
    BY <2>1, HoldingIs, HoldingNext DEF HoldingFacts, Lost
  <2>2. ASSUME NEW p \in Processes, h = <<p, "page_table">>
        PROVE  holding'[h] = holding[h]
    <3>1. holding[h] = {page_table[p]} \ {None}
      BY <2>2, HoldingIs DEF HoldingFacts
    <3>2. holding'[h] = {page_table'[p]} \ {None}
      BY <2>2, HoldingNext DEF HoldingFacts
    <3> QED BY <3>1, <3>2
  <2>3. ASSUME NEW p \in Processes, h = <<p, "tables">>
        PROVE  holding'[h] = holding[h]
    <3>1. holding[h] = tables[p]
      BY <2>3, HoldingIs DEF HoldingFacts
    <3>2. holding'[h] = tables'[p]
      BY <2>3, HoldingNext DEF HoldingFacts
    <3> QED BY <3>1, <3>2
  <2>4. ASSUME NEW p \in Processes, NEW s \in Spaces, h = <<p, s>>
        PROVE  holding'[h] = holding[h]
    <3>1. holding[h] = FramesOf(supply_block[p][s])
      BY <2>4, HoldingIs DEF HoldingFacts
    <3>2. holding'[h] = FramesOf(supply_block'[p][s])
      BY <2>4, HoldingNext DEF HoldingFacts, FramesOf
    <3>3. p # q
      BY <2>4
    <3> QED BY <3>1, <3>2, <3>3
  <2> QED BY <2>1, <2>2, <2>3, <2>4, HoldersAre
<1>5. Disjoint(Holders, holding)
  BY ConservedAs
<1>6. /\ Disjoint(Holders, holding')
      /\ UNION {holding'[h] : h \in Holders} = UNION {holding[h] : h \in Holders}
  <2> DEFINE f == holding
             g == holding'
  <2>1. Disjoint(Holders, f) /\ ReturnTo(Holders, f, g, Free, F)
    BY <1>1, <1>2, <1>3, <1>4, <1>5 DEF ReturnTo
  <2>2. Disjoint(Holders, g) /\ UNION {g[h] : h \in Holders} = UNION {f[h] : h \in Holders}
    <3> HIDE DEF f, g, F
    <3> QED BY <2>1, Returned
  <2> QED BY <2>2
<1> QED BY <1>6, ConservedStep

-----------------------------------------------------------------------------
(* Frames are conserved by every operation *)

\* An operation that leaves the frames alone.
LEMMA StillConserved ==
  ASSUME FramesConserved,
         UNCHANGED <<free, lost, page_table, tables, supply_block>>
  PROVE  FramesConserved'
<1>1. Holders' = Holders
  BY DEF Holders, Processes, Spaces
<1>2. holding' = holding
  BY <1>1 DEF holding, Held, FramesOf, Processes, Spaces
<1>3. Disjoint(Holders, holding)
  BY ConservedAs
<1> QED BY <1>2, <1>3, ConservedStep

\* The step changes only what q has in its tables, in its subspace s and
\* perhaps as its root table.
OnlySpace(q, s) ==
  /\ \A p \in Processes \ {q} : page_table'[p] = page_table[p] /\ tables'[p] = tables[p]
  /\ \A p \in Processes, r \in Spaces :
       <<p, r>> # <<q, s>> => supply_block'[p][r] = supply_block[p][r]

\* What the holders of one process and subspace, and the others, then have.
LEMMA SpaceHolders ==
  ASSUME NEW q \in Processes, NEW s \in Spaces, OnlySpace(q, s)
  PROVE  /\ holding[<<q, s>>] = FramesOf(supply_block[q][s])
         /\ holding'[<<q, s>>] = FramesOf(supply_block'[q][s])
         /\ holding[<<q, "tables">>] = tables[q]
         /\ holding'[<<q, "tables">>] = tables'[q]
         /\ holding[<<q, "page_table">>] = {page_table[q]} \ {None}
         /\ holding'[<<q, "page_table">>] = {page_table'[q]} \ {None}
         /\ holding[Lost] = lost /\ holding'[Lost] = lost'
         /\ \A h \in Holders \ {Free, Lost, <<q, s>>, <<q, "tables">>, <<q, "page_table">>} :
              holding'[h] = holding[h]
<1>1. /\ holding[<<q, s>>] = FramesOf(supply_block[q][s])
      /\ holding[<<q, "tables">>] = tables[q]
      /\ holding[<<q, "page_table">>] = {page_table[q]} \ {None}
      /\ holding[Lost] = lost
  BY HoldingIs DEF HoldingFacts
<1>2. \A p \in Processes, r \in Spaces :
        holding'[<<p, r>>] = FramesOf(supply_block'[p][r])
  BY HoldingNext DEF HoldingFacts, FramesOf
<1>3. /\ holding'[<<q, "tables">>] = tables'[q]
      /\ holding'[<<q, "page_table">>] = {page_table'[q]} \ {None}
      /\ holding'[Lost] = lost'
  BY HoldingNext DEF HoldingFacts, Lost
<1>4. ASSUME NEW h \in Holders \ {Free, Lost, <<q, s>>, <<q, "tables">>, <<q, "page_table">>}
      PROVE  holding'[h] = holding[h]
  <2>1. ASSUME NEW p \in Processes, h = <<p, "page_table">>
        PROVE  holding'[h] = holding[h]
    <3>1. p # q
      BY <2>1
    <3>2. holding[h] = {page_table[p]} \ {None}
      BY <2>1, HoldingIs DEF HoldingFacts
    <3>3. holding'[h] = {page_table'[p]} \ {None}
      BY <2>1, HoldingNext DEF HoldingFacts
    <3> QED BY <3>1, <3>2, <3>3 DEF OnlySpace
  <2>2. ASSUME NEW p \in Processes, h = <<p, "tables">>
        PROVE  holding'[h] = holding[h]
    <3>1. p # q
      BY <2>2
    <3>2. holding[h] = tables[p]
      BY <2>2, HoldingIs DEF HoldingFacts
    <3>3. holding'[h] = tables'[p]
      BY <2>2, HoldingNext DEF HoldingFacts
    <3> QED BY <3>1, <3>2, <3>3 DEF OnlySpace
  <2>3. ASSUME NEW p \in Processes, NEW r \in Spaces, h = <<p, r>>
        PROVE  holding'[h] = holding[h]
    <3>1. supply_block'[p][r] = supply_block[p][r]
      BY <2>3 DEF OnlySpace
    <3>2. holding[h] = FramesOf(supply_block[p][r])
      BY <2>3, HoldingIs DEF HoldingFacts
    <3> QED BY <3>1, <3>2, <2>3, <1>2
  <2> QED BY <2>1, <2>2, <2>3, HoldersAre
<1> QED BY <1>1, <1>2, <1>3, <1>4

\* The holders of a process and subspace are different ones, and not the pool.
LEMMA HoldersDiffer ==
  ASSUME NEW q \in Processes, NEW s \in Spaces
  PROVE  /\ <<q, s>> # Free /\ <<q, "tables">> # Free /\ <<q, "page_table">> # Free
         /\ <<q, s>> # Lost /\ <<q, "tables">> # Lost /\ <<q, "page_table">> # Lost
         /\ <<q, s>> # <<q, "tables">> /\ <<q, s>> # <<q, "page_table">>
         /\ <<q, "tables">> # <<q, "page_table">> /\ Free # Lost
         /\ <<q, s>> \in Holders /\ <<q, "tables">> \in Holders
         /\ <<q, "page_table">> \in Holders /\ Free \in Holders /\ Lost \in Holders
<1>1. q # 0
  BY ProcessAssumption DEF Processes
<1>2. /\ <<q, s>> # Free /\ <<q, "tables">> # Free /\ <<q, "page_table">> # Free
      /\ <<q, s>> # Lost /\ <<q, "tables">> # Lost /\ <<q, "page_table">> # Lost
      /\ <<q, "tables">> # <<q, "page_table">> /\ Free # Lost
  BY <1>1 DEF Free, Lost
<1>3. <<q, s>> # <<q, "tables">> /\ <<q, s>> # <<q, "page_table">>
  BY DEF Spaces
<1>4. /\ <<q, s>> \in Holders /\ <<q, "tables">> \in Holders
      /\ <<q, "page_table">> \in Holders /\ Free \in Holders /\ Lost \in Holders
  BY HoldersAre
<1> QED BY <1>2, <1>3, <1>4

\* create_thread takes a frame for the root table.
LEMMA TableConserved ==
  ASSUME FrameInv, create_thread_table
  PROVE  FramesConserved'
<1>1. pid \in Processes /\ page_table[pid] = None /\ pc = "tcb"
  BY DEF FrameInv, FrameTypes, Fresh, create_thread_table, Gets, Stages, SizeOf
<1>2. CASE free = {}
  BY <1>2, StillConserved DEF FrameInv, create_thread_table
<1>3. CASE free # {}
  <2> DEFINE f == Lowest(1)[1]
  <2>1. f \in free
    <3>1. free \subseteq Nat /\ IsFiniteSet(free) /\ Cardinality(free) \in Nat
      BY PoolFacts DEF FrameInv
    <3>2. 1 <= Cardinality(free)
      BY <3>1, <1>3, FS_EmptySet
    <3> QED BY <3>1, <3>2, LowestFacts
  <2>2. f \in Nat \ {0}
    BY <2>1, PoolFacts DEF FrameInv
  <2>3. /\ page_table' = [page_table EXCEPT ![pid] = f]
        /\ free' = free \ {page_table'[pid]}
        /\ UNCHANGED <<lost, tables, supply_block>>
    BY <1>3 DEF create_thread_table
  <2>4. page_table \in [Processes -> Nat]
    BY DEF FrameInv, FrameTypes
  <2> HIDE DEF f
  <2>5. page_table'[pid] = f /\ free' = free \ ({f} \cup {})
    BY <2>3, <2>4, <1>1
  <2>6. OnlySpace(pid, "code")
    BY <2>3, <2>4 DEF OnlySpace
  <2> DEFINE a == <<pid, "page_table">>
  <2>7. "code" \in Spaces
    BY DEF Spaces
  <2>8. /\ holding[a] = {page_table[pid]} \ {None}
        /\ holding'[a] = {page_table'[pid]} \ {None}
        /\ holding[Lost] = lost /\ holding'[Lost] = lost'
        /\ holding[<<pid, "tables">>] = tables[pid]
        /\ holding'[<<pid, "tables">>] = tables'[pid]
        /\ holding[<<pid, "code">>] = FramesOf(supply_block[pid]["code"])
        /\ holding'[<<pid, "code">>] = FramesOf(supply_block'[pid]["code"])
        /\ \A h \in Holders \ {Free, Lost, <<pid, "code">>, <<pid, "tables">>, a} :
              holding'[h] = holding[h]
    BY <2>6, <2>7, <1>1, SpaceHolders
  <2>9. /\ a \in Holders /\ Lost \in Holders /\ Free \in Holders
        /\ a # Free /\ Lost # Free /\ a # Lost
    BY <2>7, <1>1, HoldersDiffer
  <2>10. holding[Free] = free /\ holding'[Free] = free'
    BY HoldingIs, HoldingNext DEF HoldingFacts, Free
  <2>11. /\ holding'[a] = holding[a] \cup {f} /\ holding'[Lost] = holding[Lost] \cup {}
         /\ \A h \in Holders \ {Free, a, Lost} : holding'[h] = holding[h]
    <3> HIDE DEF a
    <3> QED BY <2>2, <2>3, <2>5, <2>8, <1>1 DEF None
  <2>12. HandsTo(Holders, holding, holding', Free, a, Lost, {f}, {})
    <3> HIDE DEF a
    <3> QED BY <2>1, <2>5, <2>9, <2>10, <2>11 DEF HandsTo
  <2> HIDE DEF a
  <2> QED BY <2>12, HandOut DEF FrameInv
<1> QED BY <1>2, <1>3

\* thread_supply_new_mem asks for the frames of a subspace whose list is empty.
LEMMA SupplyFacts ==
  ASSUME FrameInv, NEW s \in Spaces, pc = s
  PROVE  /\ pid \in Processes /\ allocation_info[s] \in 1..510
         /\ supply_block[pid][s] = <<>>
         /\ free \subseteq Nat \ {0} /\ IsFiniteSet(free) /\ Cardinality(free) \in Nat
<1>1. pid \in Processes /\ allocation_info \in AllocationInfos
  <2>1. pc \in Stages
    BY DEF Stages
  <2> QED BY <2>1 DEF FrameInv, FrameTypes
<1>2. allocation_info[s] \in 1..510
  <2>1. AllocationInfos \subseteq [Spaces -> 1..510]
    BY ProcessAssumption DEF Spaces
  <2> QED BY <1>1, <2>1
<1>3. s \in Before[s]
  BY DEF Before, Spaces
<1>4. supply_block[pid][s] = <<>>
  BY <1>1, <1>3 DEF FrameInv, Fresh
<1> QED BY <1>1, <1>2, <1>4, PoolFacts DEF FrameInv

\* A list of frames is not the mark of a failed allocation.
LEMMA FrameList ==
  ASSUME NEW n \in 1..510, NEW F \in SUBSET (Nat \ {0}), NEW L \in [1..n -> F]
  PROVE  /\ L # FRAME_ALLOC_FAILED /\ L # <<>>
         /\ L \in Seq(Int) /\ Len(L) = n
<1>1. 1 \in 1..n /\ n \in Nat
  OBVIOUS
<1>2. L[1] \in Nat /\ DOMAIN L = 1..n
  BY <1>1
<1>3. L # FRAME_ALLOC_FAILED /\ L # <<>>
  BY <1>1, <1>2 DEF FRAME_ALLOC_FAILED
<1>4. L \in [1..n -> Int]
  <2>1. \A f \in F : f \in Int
    OBVIOUS
  <2>2. \A i \in 1..n : L[i] \in F
    OBVIOUS
  <2> QED BY <2>1, <2>2
<1>5. L \in Seq(Int) /\ Len(L) = n
  BY <1>1, <1>4
<1> QED BY <1>3, <1>5

\* The list for a subspace, if there is one.
LEMMA ListFacts ==
  ASSUME FrameInv, NEW s \in Spaces, pc = s, HasList(s)
  PROVE  /\ List(s) \in [1..allocation_info[s] -> free]
         /\ \A i, j \in 1..allocation_info[s] : List(s)[i] = List(s)[j] => i = j
         /\ Range(List(s)) \subseteq free
         /\ FramesOf(List(s)) = Range(List(s))
         /\ List(s) # FRAME_ALLOC_FAILED /\ List(s) # <<>>
         /\ List(s) \in Seq(Int) /\ Len(List(s)) = allocation_info[s]
<1> DEFINE n == allocation_info[s]
<1>1. /\ n \in 1..510 /\ free \subseteq Nat \ {0} /\ IsFiniteSet(free)
      /\ Cardinality(free) \in Nat
  BY SupplyFacts
<1>2. n <= Cardinality(free)
  BY <1>1 DEF HasList
<1> HIDE DEF n
<1>3. /\ Lowest(n) \in [1..n -> free]
      /\ \A i, j \in 1..n : Lowest(n)[i] = Lowest(n)[j] => i = j
      /\ Range(Lowest(n)) \subseteq free
  BY <1>1, <1>2, LowestFacts
<1>4. /\ Lowest(n) # FRAME_ALLOC_FAILED /\ Lowest(n) # <<>>
      /\ Lowest(n) \in Seq(Int) /\ Len(Lowest(n)) = n
  BY <1>1, <1>3, FrameList
<1> QED BY <1>3, <1>4 DEF List, FramesOf, n

\* thread_supply_new_mem: what the lists, the tables and the lost frames get,
\* in every outcome.
LEMMA SupplyConserved ==
  ASSUME FrameInv, NEW s \in Spaces, thread_supply_new_mem_region(s)
  PROVE  FramesConserved'
<1> DEFINE a == <<pid, s>>
           b == <<pid, "tables">>
<1>1. pc = s /\ UNCHANGED page_table
  BY DEF thread_supply_new_mem_region, supply_first_fails, supply_later_fails,
         supply_null_thread, supply_page_in_fails, supply_ok, Supplying
<1>2. /\ pid \in Processes /\ allocation_info[s] \in 1..510
      /\ supply_block[pid][s] = <<>>
      /\ free \subseteq Nat \ {0} /\ IsFiniteSet(free) /\ Cardinality(free) \in Nat
  BY <1>1, SupplyFacts
<1>3. /\ tables \in [Processes -> SUBSET Nat]
      /\ supply_block \in [Processes -> [Spaces -> Seq(Int)]]
  BY DEF FrameInv, FrameTypes
<1>4. FramesOf(<<>>) = {} /\ FramesOf(FRAME_ALLOC_FAILED) = {}
  BY DEF FramesOf, Range, FRAME_ALLOC_FAILED
<1>5. holding[Free] = free /\ holding'[Free] = free'
  BY HoldingIs, HoldingNext DEF HoldingFacts, Free
<1>6. /\ a # Free /\ b # Free /\ a # Lost /\ b # Lost /\ a # b /\ Free # Lost
      /\ a \in Holders /\ b \in Holders /\ Free \in Holders /\ Lost \in Holders
  BY <1>2, HoldersDiffer
<1>7. ASSUME NEW L, supply_block'[pid][s] = L, OnlySpace(pid, s)
      PROVE  /\ holding[a] = {} /\ holding'[a] = FramesOf(L)
             /\ holding[b] = tables[pid] /\ holding'[b] = tables'[pid]
             /\ holding[Lost] = lost /\ holding'[Lost] = lost'
             /\ \A h \in Holders \ {Free, Lost, a, b} : holding'[h] = holding[h]
  <2> DEFINE c == <<pid, "page_table">>
  <2>1. /\ holding[a] = FramesOf(supply_block[pid][s])
        /\ holding'[a] = FramesOf(supply_block'[pid][s])
        /\ holding[b] = tables[pid] /\ holding'[b] = tables'[pid]
        /\ holding[c] = {page_table[pid]} \ {None}
        /\ holding'[c] = {page_table'[pid]} \ {None}
        /\ holding[Lost] = lost /\ holding'[Lost] = lost'
        /\ \A h \in Holders \ {Free, Lost, a, b, c} : holding'[h] = holding[h]
    BY <1>2, <1>7, SpaceHolders
  <2> HIDE DEF a, b, c
  <2> QED BY <2>1, <1>1, <1>2, <1>4, <1>7
<1>8. CASE supply_first_fails(s)
  BY <1>8, <1>1, StillConserved DEF FrameInv, supply_first_fails, pool_vars
<1>9. CASE supply_later_fails(s)
  <2>1. /\ free' = free \ (free \cup {}) /\ lost' = lost \cup free /\ tables' = tables
        /\ supply_block'[pid][s] = FRAME_ALLOC_FAILED
    BY <1>9, <1>2, <1>3 DEF supply_later_fails, Fails
  <2>2. OnlySpace(pid, s)
    BY <1>9, <1>1, <1>2, <1>3 DEF supply_later_fails, Fails, OnlySpace
  <2>3. HandsTo(Holders, holding, holding', Free, Lost, b, free, {})
    <3> HIDE DEF a, b
    <3> QED BY <2>1, <2>2, <1>4, <1>5, <1>6, <1>7 DEF HandsTo
  <2> QED BY <2>3, HandOut DEF FrameInv
<1>10. CASE supply_null_thread(s)
  <2> DEFINE X == Range(List(s))
  <2>1. X \subseteq free
    BY <1>10, <1>1, ListFacts DEF supply_null_thread
  <2>2. /\ free' = free \ (X \cup {}) /\ lost' = lost \cup X /\ tables' = tables
        /\ supply_block'[pid][s] = <<>>
    BY <1>10, <1>2 DEF supply_null_thread
  <2>3. OnlySpace(pid, s)
    BY <1>10, <1>1 DEF supply_null_thread, OnlySpace
  <2>4. HandsTo(Holders, holding, holding', Free, Lost, b, X, {})
    <3> HIDE DEF a, b, X
    <3> QED BY <2>1, <2>2, <2>3, <1>4, <1>5, <1>6, <1>7 DEF HandsTo
  <2> QED BY <2>4, HandOut DEF FrameInv
<1>11. CASE supply_page_in_fails(s)
  <2> DEFINE X == Range(List(s))
  <2>1. X \subseteq free
    BY <1>11, <1>1, ListFacts DEF supply_page_in_fails
  <2>2. /\ free' = {} /\ lost' = lost \cup X /\ tables'[pid] = tables[pid] \cup (free \ X)
        /\ supply_block'[pid][s] = FRAME_ALLOC_FAILED
    BY <1>11, <1>2, <1>3 DEF supply_page_in_fails, Fails
  <2>3. OnlySpace(pid, s)
    BY <1>11, <1>1, <1>2, <1>3 DEF supply_page_in_fails, Fails, OnlySpace
  <2>4. HandsTo(Holders, holding, holding', Free, Lost, b, X, free \ X)
    <3> HIDE DEF a, b, X
    <3> QED BY <2>1, <2>2, <2>3, <1>4, <1>5, <1>6, <1>7 DEF HandsTo
  <2> QED BY <2>4, HandOut DEF FrameInv
<1>12. CASE supply_ok(s)
  <2> DEFINE X == Range(List(s))
             n == allocation_info[s] + TablesPerSpace
             Y == Range(Lowest(n)) \ X
  <2>1. n \in Nat /\ n <= Cardinality(free) /\ HasList(s) /\ allocation_info[s] \in 0..n
    <3> DEFINE k == allocation_info[s]
               c == Cardinality(free)
    <3>1. c >= k + 3 /\ k \in 1..510 /\ c \in Nat
      BY <1>12, <1>2 DEF supply_ok, TablesPerSpace
    <3>2. k + 3 \in Nat /\ k + 3 <= c /\ c >= k /\ k \in 0..(k + 3)
      <4> HIDE DEF k, c
      <4> QED BY <3>1
    <3> QED BY <3>2 DEF HasList, TablesPerSpace
  <2>2. Range(Lowest(n)) \subseteq free /\ X \subseteq Range(Lowest(n))
    <3> HIDE DEF n
    <3>1. /\ Range(Lowest(n)) \subseteq free
          /\ \A m \in 0..n : Range(Lowest(m)) \subseteq Range(Lowest(n))
      BY <2>1, <1>2, LowestFacts
    <3> QED BY <3>1, <2>1 DEF List
  <2>3. FramesOf(List(s)) = X
    BY <2>1, <1>1, ListFacts
  <2>4. /\ free' = free \ Range(Lowest(n)) /\ lost' = lost
        /\ tables'[pid] = tables[pid] \cup Y
        /\ supply_block'[pid][s] = List(s)
    BY <1>12, <1>2, <1>3 DEF supply_ok
  <2>5. OnlySpace(pid, s)
    BY <1>12, <1>1, <1>2, <1>3 DEF supply_ok, OnlySpace
  <2>6. free' = free \ (X \cup Y) /\ Y \subseteq free /\ X \cap Y = {} /\ X \subseteq free
    <3> HIDE DEF X, n
    <3> QED BY <2>2, <2>4
  <2>7. HandsTo(Holders, holding, holding', Free, a, b, X, Y)
    <3> HIDE DEF a, b, X, Y, n
    <3> QED BY <2>3, <2>4, <2>5, <2>6, <1>4, <1>5, <1>6, <1>7 DEF HandsTo
  <2> QED BY <2>7, HandOut DEF FrameInv
<1> QED BY <1>8, <1>9, <1>10, <1>11, <1>12 DEF thread_supply_new_mem_region

\* init_process gives the lists of a failed creation back.
LEMMA FailsConserved ==
  ASSUME FrameInv, init_process_fails
  PROVE  FramesConserved'
<1>1. pid \in Processes
  <2>1. pc \in Stages
    BY DEF init_process_fails, Stages, Supplied
  <2> QED BY <2>1 DEF FrameInv, FrameTypes
<1>2. supply_block \in [Processes -> [Spaces -> Seq(Int)]]
  BY DEF FrameInv, FrameTypes
<1>3. /\ free' = free \cup UNION {FramesOf(supply_block[pid][s]) : s \in Spaces}
      /\ supply_block' = [supply_block EXCEPT ![pid] = [s \in Spaces |-> <<>>]]
      /\ UNCHANGED <<lost, page_table, tables>>
  BY DEF init_process_fails, released
<1>4. /\ \A s \in Spaces : supply_block'[pid][s] = <<>>
      /\ \A p \in Processes \ {pid}, s \in Spaces : supply_block'[p][s] = supply_block[p][s]
  BY <1>1, <1>2, <1>3
<1> QED BY <1>1, <1>3, <1>4, GiveBack DEF FrameInv

-----------------------------------------------------------------------------
(* The other parts of the invariant *)

\* The invariant holds initially.
LEMMA FrameInit == Init => FrameInv
<1> SUFFICES ASSUME Init PROVE FrameInv
  OBVIOUS
<1>1. PICK n \in PoolSizes : free = 1..n
  BY DEF Init
<1>2. /\ lost = {} /\ page_table = [p \in Processes |-> None]
      /\ tables = [p \in Processes |-> {}]
      /\ supply_block = [p \in Processes |-> [s \in Spaces |-> <<>>]]
      /\ mapped = [p \in Processes |-> <<>>]
      /\ scheduled = {} /\ failed = {} /\ pc = "boot" /\ pid = 0 /\ priority_ok = TRUE
  BY DEF Init
<1>3. FrameTypes
  <2>1. supply_block \in [Processes -> [Spaces -> Seq(Int)]]
    BY <1>2
  <2>2. "boot" \notin Stages
    BY DEF Stages, Spaces, Supplied, SizeOf
  <2> QED BY <2>1, <2>2, <1>2, ProcessAssumption DEF FrameTypes, None, Stages
<1>4. FramesConserved
  <2>1. holding[Free] = 1..n
    BY <1>1, HoldingIs DEF HoldingFacts
  <2>2. FramesOf(<<>>) = {}
    BY DEF FramesOf, FRAME_ALLOC_FAILED, Range
  <2>3. ASSUME NEW h \in Holders, h # Free PROVE holding[h] = {}
    <3>1. CASE h = Lost
      BY <3>1, <1>2, HoldingIs DEF HoldingFacts
    <3>2. ASSUME NEW p \in Processes, h = <<p, "page_table">>
          PROVE  holding[h] = {}
      <4>1. holding[h] = {page_table[p]} \ {None}
        BY <3>2, HoldingIs DEF HoldingFacts
      <4> QED BY <4>1, <1>2
    <3>3. ASSUME NEW p \in Processes, h = <<p, "tables">>
          PROVE  holding[h] = {}
      <4>1. holding[h] = tables[p]
        BY <3>3, HoldingIs DEF HoldingFacts
      <4> QED BY <4>1, <1>2
    <3>4. ASSUME NEW p \in Processes, NEW s \in Spaces, h = <<p, s>>
          PROVE  holding[h] = {}
      <4>1. holding[h] = FramesOf(supply_block[p][s])
        BY <3>4, HoldingIs DEF HoldingFacts
      <4> QED BY <4>1, <2>2, <1>2
    <3> QED BY <2>3, <3>1, <3>2, <3>3, <3>4, HoldersAre
  <2>4. Free \in Holders
    BY HoldersAre
  <2>5. Disjoint(Holders, holding)
    BY <2>3 DEF Disjoint
  <2>6. UNION {holding[h] : h \in Holders} = 1..n
    BY <2>1, <2>3, <2>4
  <2> QED BY <2>5, <2>6, ConservedAs
<1>5. Fresh
  BY <1>2 DEF Fresh
<1>6. Matched
  <2>1. \A p \in Processes : DOMAIN mapped[p] = {}
    BY <1>2
  <2>2. \A p \in Processes, s \in Spaces : supply_block[p][s] = <<>>
    BY <1>2
  <2>3. <<>> # FRAME_ALLOC_FAILED /\ Len(<<>>) = 0
    BY DEF FRAME_ALLOC_FAILED
  <2>4. ASSUME NEW p \in Processes, NEW s \in Spaces PROVE Matches(p, s)
    <3>1. PagesOf(p, s) = {}
      BY <2>1 DEF PagesOf
    <3>2. 0..(Len(supply_block[p][s]) - 1) = {}
      BY <2>2, <2>3
    <3> QED BY <3>1, <3>2, <2>2, <2>3 DEF Matches
  <2> QED BY <2>1, <2>4 DEF Matched
<1>7. Progress
  BY <1>2 DEF Progress, Stages, Spaces, Supplied, SizeOf
<1>8. ListsDistinct
  <2>1. \A p \in Processes, s \in Spaces : Len(supply_block[p][s]) = 0
    BY <1>2
  <2> QED BY <2>1 DEF ListsDistinct
<1> QED BY <1>3, <1>4, <1>5, <1>6, <1>7, <1>8 DEF FrameInv

\* A step that leaves the frames and the outcome of a creation alone keeps
\* what is said of them.
LEMMA QuietKeeps ==
  ASSUME FrameInv,
         UNCHANGED <<free, lost, page_table, tables, supply_block, mapped, failed>>
  PROVE  /\ FramesConserved' /\ Matched' /\ ListsDistinct'
         /\ page_table' \in [Processes -> Nat] /\ tables' \in [Processes -> SUBSET Nat]
         /\ supply_block' \in [Processes -> [Spaces -> Seq(Int)]]
         /\ mapped' = [p \in Processes |-> mapped'[p]]
<1>1. FramesConserved'
  BY StillConserved DEF FrameInv
<1>2. Matched'
  BY DEF FrameInv, Matched, Matches, PagesOf
<1>3. ListsDistinct'
  BY DEF FrameInv, ListsDistinct
<1> QED BY <1>1, <1>2, <1>3 DEF FrameInv, FrameTypes

\* The steps that leave frames and outcome alone.
QuietStep ==
  \/ boot_object \/ HeapStep
  \/ \E info \in AllocationInfos, ok \in BOOLEAN : init_process(info, ok)
  \/ spawn_alloc_thread \/ create_thread_refuses \/ create_thread
  \/ init_process_pcb \/ init_process_descriptor
  \/ Done \/ UNCHANGED vars

\* A quiet step stays where it is, or goes on by one stage with the same
\* process, or starts the next process.
LEMMA QuietStages ==
  ASSUME FrameInv, QuietStep
  PROVE  /\ UNCHANGED <<free, lost, page_table, tables, supply_block, mapped,
                        scheduled, failed>>
         /\ \/ UNCHANGED <<pc, pid, allocation_info, priority_ok>>
            \/ /\ pc = "boot" /\ pc' = "kmain"
               /\ UNCHANGED <<pid, allocation_info, priority_ok>>
            \/ /\ pc = "kmain" /\ pc' = "supply_block" /\ pid < NumProcesses
               /\ pid' = pid + 1
               /\ allocation_info' \in AllocationInfos /\ priority_ok' \in BOOLEAN
            \/ /\ UNCHANGED <<pid, allocation_info, priority_ok>>
               /\ \/ pc = "supply_block" /\ pc' = "thread"
                  \/ pc = "thread" /\ pc' = "code" /\ ~priority_ok
                  \/ pc = "thread" /\ pc' = "tcb"
                  \/ pc = "objects" /\ pc' = "pcb"
                  \/ pc = "pcb" /\ pc' = "objects2"
                  \/ pc = "objects2" /\ pc' = "descriptor"
                  \/ pc = "descriptor" /\ pc' = "check"
<1>1. CASE boot_object
  BY <1>1 DEF boot_object, pool_vars, space_vars, args
<1>2. CASE HeapStep
  BY <1>2 DEF HeapStep, pool_vars, space_vars, args
<1>3. CASE \E info \in AllocationInfos, ok \in BOOLEAN : init_process(info, ok)
  BY <1>3 DEF init_process, Asks, pool_vars, space_vars
<1>4. CASE spawn_alloc_thread
  BY <1>4 DEF spawn_alloc_thread, Gets, pool_vars, space_vars, args
<1>5. CASE create_thread_refuses
  BY <1>5 DEF create_thread_refuses, pool_vars, space_vars, args
<1>6. CASE create_thread
  BY <1>6 DEF create_thread, Asks, pool_vars, space_vars, args
<1>7. CASE init_process_pcb
  BY <1>7 DEF init_process_pcb, Asks, pool_vars, space_vars, args
<1>8. CASE init_process_descriptor
  BY <1>8 DEF init_process_descriptor, Asks, Gets, pool_vars, space_vars, args
<1>9. CASE Done \/ UNCHANGED vars
  BY <1>9 DEF Done, vars, pool_vars, space_vars, args
<1> QED BY <1>1, <1>2, <1>3, <1>4, <1>5, <1>6, <1>7, <1>8, <1>9 DEF QuietStep

\* The invariant is kept by the quiet steps.
LEMMA QuietInv ==
  ASSUME FrameInv, QuietStep
  PROVE  FrameInv'
<1>1. UNCHANGED <<free, lost, page_table, tables, supply_block, mapped, scheduled, failed>>
  BY QuietStages
<1>2. /\ FramesConserved' /\ Matched' /\ ListsDistinct'
      /\ page_table' \in [Processes -> Nat] /\ tables' \in [Processes -> SUBSET Nat]
      /\ supply_block' \in [Processes -> [Spaces -> Seq(Int)]]
      /\ mapped' = [p \in Processes |-> mapped'[p]]
  BY <1>1, QuietKeeps
<1>3. NumProcesses \in Nat
  BY ProcessAssumption
<1>4. CASE UNCHANGED <<pc, pid, allocation_info, priority_ok>>
  BY <1>1, <1>2, <1>4 DEF FrameInv, FrameTypes, Fresh, Progress
<1>5. CASE /\ pc = "boot" /\ pc' = "kmain"
           /\ UNCHANGED <<pid, allocation_info, priority_ok>>
  <2>1. FrameTypes'
    BY <1>2, <1>5 DEF FrameInv, FrameTypes, Stages, Spaces, Supplied, SizeOf
  <2>2. Fresh'
    BY <1>1, <1>5 DEF FrameInv, Fresh, Before, Spaces
  <2>3. Progress'
    BY <1>1, <1>5 DEF FrameInv, Progress, Stages, Spaces, Supplied, SizeOf
  <2> QED BY <1>2, <2>1, <2>2, <2>3 DEF FrameInv
<1>6. CASE /\ pc = "kmain" /\ pc' = "supply_block" /\ pid < NumProcesses
           /\ pid' = pid + 1
           /\ allocation_info' \in AllocationInfos /\ priority_ok' \in BOOLEAN
  <2>1. pid \in 0..NumProcesses /\ pid' \in Processes /\ pid' > pid
    BY <1>3, <1>6 DEF FrameInv, FrameTypes, Processes
  <2>2. FrameTypes'
    BY <1>2, <1>3, <1>6, <2>1 DEF FrameTypes, Processes, Stages, SizeOf
  <2>3. \A p \in Processes : (p > pid' \/ p = pid') => p > pid
    BY <1>3, <1>6, <2>1 DEF Processes
  <2>4. Fresh'
    BY <1>1, <2>3 DEF FrameInv, Fresh
  <2>5. Progress'
    <3>1. /\ scheduled \subseteq 1..pid /\ failed \subseteq 1..pid
          /\ \A p \in 1..pid : p \in 1..pid' /\ p # pid'
      BY <2>1, <1>6 DEF FrameInv, Progress
    <3> QED BY <1>1, <1>6, <3>1 DEF FrameInv, Progress, Stages, Spaces, Supplied, SizeOf
  <2> QED BY <1>2, <2>2, <2>4, <2>5 DEF FrameInv
<1>7. ASSUME UNCHANGED <<pid, allocation_info, priority_ok>>,
             \/ pc = "supply_block" /\ pc' = "thread"
             \/ pc = "thread" /\ pc' = "code" /\ ~priority_ok
             \/ pc = "thread" /\ pc' = "tcb"
             \/ pc = "objects" /\ pc' = "pcb"
             \/ pc = "pcb" /\ pc' = "objects2"
             \/ pc = "objects2" /\ pc' = "descriptor"
             \/ pc = "descriptor" /\ pc' = "check"
      PROVE  FrameInv'
  <2>1. FrameTypes'
    BY <1>2, <1>7 DEF FrameInv, FrameTypes, Stages, Spaces, Supplied, SizeOf
  <2>2. Fresh'
    BY <1>1, <1>7 DEF FrameInv, Fresh, Before, Spaces
  <2>3. Progress'
    BY <1>1, <1>7 DEF FrameInv, Progress, Stages, Spaces, Supplied, SizeOf, Before
  <2> QED BY <1>2, <2>1, <2>2, <2>3 DEF FrameInv
<1> QED BY <1>4, <1>5, <1>6, <1>7, QuietStages

\* The invariant is kept by create_thread when it takes the root table.
LEMMA TableInv ==
  ASSUME FrameInv, create_thread_table
  PROVE  FrameInv'
<1>1. FramesConserved'
  BY TableConserved
<1>2. /\ pc = "tcb" /\ UNCHANGED <<lost, tables, supply_block, mapped, scheduled, failed>>
      /\ UNCHANGED <<pid, allocation_info, priority_ok>>
  BY DEF create_thread_table, Gets, args
<1>3. pid \in Processes
  BY <1>2 DEF FrameInv, FrameTypes, Stages, SizeOf
<1>4. Matched' /\ ListsDistinct'
  BY <1>2 DEF FrameInv, Matched, Matches, PagesOf, ListsDistinct
<1>5. CASE free = {}
  <2>1. pc' = "fault" /\ UNCHANGED <<free, page_table>>
    BY <1>5 DEF create_thread_table
  <2>2. FrameTypes'
    BY <1>2, <2>1 DEF FrameInv, FrameTypes, Stages, Spaces, Supplied, SizeOf
  <2>3. Fresh'
    BY <1>2, <2>1 DEF FrameInv, Fresh, Before, Spaces
  <2>4. Progress'
    BY <1>2, <2>1 DEF FrameInv, Progress, Stages, Spaces, Supplied, SizeOf, Before
  <2> QED BY <1>1, <1>4, <2>2, <2>3, <2>4 DEF FrameInv
<1>6. CASE free # {}
  <2> DEFINE f == Lowest(1)[1]
  <2>1. f \in Nat \ {0}
    <3>1. free \subseteq Nat \ {0} /\ IsFiniteSet(free) /\ Cardinality(free) \in Nat
      BY PoolFacts DEF FrameInv
    <3>2. 1 <= Cardinality(free)
      BY <3>1, <1>6, FS_EmptySet
    <3>3. f \in free
      BY <3>1, <3>2, LowestFacts
    <3> QED BY <3>1, <3>3
  <2>2. pc' = "code" /\ page_table' = [page_table EXCEPT ![pid] = f]
    BY <1>6 DEF create_thread_table
  <2> HIDE DEF f
  <2>3. page_table \in [Processes -> Nat]
    BY DEF FrameInv, FrameTypes
  <2>4. FrameTypes'
    BY <1>2, <1>3, <2>1, <2>2, <2>3 DEF FrameInv, FrameTypes, Stages, Spaces, Supplied, SizeOf
  <2>5. Fresh'
    <3>1. \A p \in Processes : p > pid => p # pid
      BY <1>3, ProcessAssumption DEF Processes
    <3>2. \A p \in Processes : p > pid => page_table'[p] = None
      BY <3>1, <2>2, <2>3 DEF FrameInv, Fresh
    <3>3. \A s \in Spaces : "tcb" \in Before[s]
      BY DEF Before, Spaces
    <3> QED BY <1>2, <2>2, <3>2, <3>3 DEF FrameInv, Fresh
  <2>6. Progress'
    <3>1. page_table'[pid] # None /\ \A p \in Processes \ {pid} : page_table'[p] = page_table[p]
      BY <1>3, <2>1, <2>2, <2>3 DEF None
    <3>2. pid \notin scheduled /\ scheduled \subseteq Processes
      BY <1>2, <1>3, ProcessAssumption DEF FrameInv, Progress, Stages, SizeOf, Processes
    <3> QED BY <1>2, <2>2, <3>1, <3>2 DEF FrameInv, Progress, Stages, Spaces, Supplied, SizeOf, Before
  <2> QED BY <1>1, <1>4, <2>4, <2>5, <2>6 DEF FrameInv
<1> QED BY <1>5, <1>6

\* The invariant is kept when a process is handed to the scheduler.
LEMMA DispatchInv ==
  ASSUME FrameInv, create_process
  PROVE  FrameInv'
<1>1. /\ pc = "check" /\ pc' = "kmain" /\ scheduled' = scheduled \cup {pid}
      /\ UNCHANGED <<free, lost, page_table, tables, supply_block, mapped, failed>>
      /\ UNCHANGED <<pid, allocation_info, priority_ok>>
      /\ \A s \in Spaces : supply_block[pid][s] # FRAME_ALLOC_FAILED
  BY DEF create_process, any_failed, pool_vars, space_vars, args
<1>2. /\ FramesConserved' /\ Matched' /\ ListsDistinct'
      /\ page_table' \in [Processes -> Nat] /\ tables' \in [Processes -> SUBSET Nat]
      /\ supply_block' \in [Processes -> [Spaces -> Seq(Int)]]
      /\ mapped' = [p \in Processes |-> mapped'[p]]
  BY <1>1, QuietKeeps
<1>3. pid \in Processes /\ pid \in 1..pid
  BY <1>1, ProcessAssumption DEF FrameInv, FrameTypes, Stages, Supplied, Processes
<1>4. FrameTypes'
  BY <1>1, <1>2 DEF FrameInv, FrameTypes, Stages, Spaces, Supplied, SizeOf
<1>5. Fresh'
  BY <1>1 DEF FrameInv, Fresh, Before, Spaces
<1>6. Progress'
  <2>1. /\ page_table[pid] # None /\ pid \notin failed
        /\ \A s \in Spaces : supply_block[pid][s] # <<>>
    BY <1>1 DEF FrameInv, Progress, Stages, Spaces, Supplied, Before
  <2> QED BY <1>1, <1>3, <2>1 DEF FrameInv, Progress, Stages, Spaces, Supplied, SizeOf
<1> QED BY <1>2, <1>4, <1>5, <1>6 DEF FrameInv

\* The invariant is kept when init_process gives a failed creation up.
LEMMA GiveUpInv ==
  ASSUME FrameInv, init_process_fails
  PROVE  FrameInv'
<1>1. FramesConserved'
  BY FailsConserved
<1>2. /\ pc = "check" /\ pc' = "kmain" /\ failed' = failed \cup {pid}
      /\ supply_block' = [supply_block EXCEPT ![pid] = [s \in Spaces |-> <<>>]]
      /\ UNCHANGED <<lost, page_table, tables, mapped, scheduled>>
      /\ UNCHANGED <<pid, allocation_info, priority_ok>>
  BY DEF init_process_fails, outcome, args
<1>3. pid \in Processes /\ pid \in 1..pid
  BY <1>2, ProcessAssumption DEF FrameInv, FrameTypes, Stages, Supplied, Processes
<1>4. supply_block \in [Processes -> [Spaces -> Seq(Int)]]
  BY DEF FrameInv, FrameTypes
<1>5. /\ supply_block' \in [Processes -> [Spaces -> Seq(Int)]]
      /\ \A s \in Spaces : supply_block'[pid][s] = <<>>
      /\ \A p \in Processes \ {pid} : supply_block'[p] = supply_block[p]
  BY <1>2, <1>3, <1>4
<1>6. FrameTypes'
  BY <1>2, <1>5 DEF FrameInv, FrameTypes, Stages, Spaces, Supplied, SizeOf
<1>7. Fresh'
  <2>1. \A p \in Processes, s \in Spaces : p > pid => supply_block'[p][s] = <<>>
    BY <1>5 DEF FrameInv, Fresh
  <2> QED BY <1>2, <2>1 DEF FrameInv, Fresh, Before, Spaces
<1>8. Matched'
  <2>1. \A p \in Processes \ failed', s \in Spaces : Matches(p, s)'
    <3> TAKE p \in Processes \ failed', s \in Spaces
    <3>1. p \in Processes \ failed /\ p # pid
      BY <1>2
    <3>2. Matches(p, s) /\ supply_block'[p] = supply_block[p] /\ mapped' = mapped
      BY <3>1, <1>2, <1>5 DEF FrameInv, Matched
    <3> QED BY <3>2 DEF Matches, PagesOf
  <2> QED BY <1>2, <2>1 DEF FrameInv, Matched
<1>9. Progress'
  <2>1. pid \notin scheduled /\ scheduled \subseteq 1..pid /\ 1..pid \subseteq Processes
    BY <1>2, <1>3, ProcessAssumption DEF FrameInv, Progress, Stages, Supplied, Processes
  <2>2. \A p \in scheduled : supply_block'[p] = supply_block[p]
    BY <1>5, <2>1
  <2> QED BY <1>2, <1>3, <2>1, <2>2 DEF FrameInv, Progress, Stages, Spaces, Supplied, SizeOf
<1>10. ListsDistinct'
  <2>1. ASSUME NEW p \in Processes, NEW s \in Spaces,
               NEW i \in 1..Len(supply_block'[p][s]), NEW j \in 1..Len(supply_block'[p][s]),
               supply_block'[p][s][i] = supply_block'[p][s][j]
        PROVE  i = j
    <3>1. CASE p = pid
      BY <3>1, <2>1, <1>5
    <3>2. CASE p # pid
      BY <3>2, <2>1, <1>5 DEF FrameInv, ListsDistinct
    <3> QED BY <3>1, <3>2
  <2> QED BY <2>1 DEF ListsDistinct
<1> QED BY <1>1, <1>6, <1>7, <1>8, <1>9, <1>10 DEF FrameInv

\* The order of the subspaces and of the stages around them.
LEMMA SpaceOrder ==
  ASSUME NEW s \in Spaces
  PROVE  /\ AfterSpace(s) \in {"mapping", "stack", "objects"}
         /\ AfterSpace(s) \notin Before[s] /\ s \in Before[s]
         /\ \A r \in Spaces : AfterSpace(s) \in Before[r] => s \in Before[r]
         /\ \A r \in Spaces : AfterSpace(s) \notin Before[r] /\ r # s => s \notin Before[r]
         /\ s \in Stages /\ AfterSpace(s) \in Stages /\ s \in Spaces \cup Supplied
         /\ AfterSpace(s) \in Spaces \cup Supplied
         /\ (AfterSpace(s) = "mapping" <=> s = "code")
         /\ (AfterSpace(s) \in {"stack"} \cup Supplied <=> s \in {"mapping", "stack"})
BY DEF AfterSpace, Before, Spaces, Stages, Supplied

\* What an outcome of thread_supply_new_mem for subspace s that is not a
\* fault has to show for the invariant to be kept.
SupplyStep(s) ==
  /\ pc = s /\ pc' = AfterSpace(s)
  /\ UNCHANGED <<page_table, scheduled, failed, pid, allocation_info, priority_ok>>
  /\ tables' \in [Processes -> SUBSET Nat]
  /\ supply_block' \in [Processes -> [Spaces -> Seq(Int)]]
  /\ \A p \in Processes, r \in Spaces :
       <<p, r>> # <<pid, s>> => supply_block'[p][r] = supply_block[p][r]
  /\ supply_block'[pid][s] # <<>>
  /\ \A i, j \in 1..Len(supply_block'[pid][s]) :
       supply_block'[pid][s][i] = supply_block'[pid][s][j] => i = j
  /\ mapped' = [p \in Processes |-> mapped'[p]]
  /\ \A p \in Processes \ {pid} : mapped'[p] = mapped[p]
  /\ \A v \in DOMAIN mapped'[pid] : v[1] \in Spaces
  /\ \A r \in Spaces : Matches(pid, r)'
  /\ ~priority_ok => s = "code" /\ free' = {}

\* Such an outcome keeps the invariant.
LEMMA SupplyStepInv ==
  ASSUME FrameInv, NEW s \in Spaces, SupplyStep(s), FramesConserved'
  PROVE  FrameInv'
<1>1. pid \in Processes /\ pid \notin scheduled \cup failed
  BY SpaceOrder DEF FrameInv, FrameTypes, Progress, SupplyStep
<1>2. FrameTypes'
  BY SpaceOrder DEF FrameInv, FrameTypes, SupplyStep
<1>3. Fresh'
  <2>1. \A p \in Processes : p > pid => p # pid
    BY <1>1, ProcessAssumption DEF Processes
  <2>2. pc' \notin {"supply_block", "thread", "tcb"}
    BY SpaceOrder DEF SupplyStep
  <2>3. \A p \in Processes : p > pid' => page_table'[p] = None
    BY DEF FrameInv, Fresh, SupplyStep
  <2>4. ASSUME NEW p \in Processes, NEW r \in Spaces,
               p > pid' \/ (p = pid' /\ pc' \in Before[r])
        PROVE  supply_block'[p][r] = <<>>
    <3>1. <<p, r>> # <<pid, s>>
      BY <2>1, <2>4, SpaceOrder DEF SupplyStep
    <3>2. p > pid \/ (p = pid /\ pc \in Before[r])
      BY <2>4, SpaceOrder DEF SupplyStep
    <3>3. supply_block[p][r] = <<>>
      BY <3>2 DEF FrameInv, Fresh
    <3>4. supply_block'[p][r] = supply_block[p][r]
      BY <3>1 DEF SupplyStep
    <3> QED BY <3>3, <3>4
  <2> QED BY <2>2, <2>3, <2>4 DEF Fresh
<1>4. Matched'
  <2>1. ASSUME NEW p \in Processes, NEW v \in DOMAIN mapped'[p] PROVE v[1] \in Spaces
    BY DEF FrameInv, Matched, SupplyStep
  <2>2. ASSUME NEW p \in Processes \ failed', NEW r \in Spaces PROVE Matches(p, r)'
    <3>1. CASE p = pid
      BY <3>1 DEF SupplyStep
    <3>2. CASE p # pid
      <4>1. Matches(p, r) /\ supply_block'[p][r] = supply_block[p][r] /\ mapped'[p] = mapped[p]
        BY <3>2 DEF FrameInv, Matched, SupplyStep
      <4> QED BY <4>1 DEF Matches, PagesOf
    <3> QED BY <3>1, <3>2
  <2> QED BY <2>1, <2>2 DEF Matched, Spaces
<1>5. Progress'
  <2>1. scheduled \subseteq Processes
    BY <1>1, ProcessAssumption DEF FrameInv, Progress, Processes
  <2>2. \A p \in scheduled, r \in Spaces : supply_block'[p][r] = supply_block[p][r]
    BY <1>1, <2>1 DEF SupplyStep
  <2>3. ASSUME NEW r \in Spaces, pc' \in (Spaces \cup Supplied) \ Before[r]
        PROVE  supply_block'[pid][r] # <<>>
    <3>1. CASE r = s
      BY <3>1 DEF SupplyStep
    <3>2. CASE r # s
      <4>1. pc \in (Spaces \cup Supplied) \ Before[r]
        BY <2>3, <3>2, SpaceOrder DEF SupplyStep
      <4> QED BY <4>1, <3>2, <1>1 DEF FrameInv, Progress, SupplyStep
    <3> QED BY <3>1, <3>2
  <2>4. pc \in Stages /\ pc' \in Stages /\ pc \in Spaces \cup Supplied
    BY SpaceOrder DEF SupplyStep
  <2>5. priority_ok => page_table[pid] # None
    BY <2>4 DEF FrameInv, Progress
  <2>6. pc' \in {"stack"} \cup Supplied => priority_ok
    BY SpaceOrder DEF SupplyStep
  <2>7. pc' = "mapping" /\ ~priority_ok => free' = {}
    BY DEF SupplyStep
  <2>8. \A p \in scheduled :
          /\ page_table'[p] # None
          /\ \A r \in Spaces : supply_block'[p][r] \notin {<<>>, FRAME_ALLOC_FAILED}
    BY <2>2 DEF FrameInv, Progress, SupplyStep
  <2>9. /\ scheduled \subseteq 1..pid /\ failed \subseteq 1..pid
        /\ scheduled \cap failed = {}
    BY DEF FrameInv, Progress
  <2>10. UNCHANGED <<page_table, scheduled, failed, pid, priority_ok>>
    BY DEF SupplyStep
  <2> QED BY <1>1, <2>3, <2>5, <2>6, <2>7, <2>8, <2>9, <2>10 DEF Progress
<1>6. ListsDistinct'
  <2>1. ASSUME NEW p \in Processes, NEW r \in Spaces,
               NEW i \in 1..Len(supply_block'[p][r]), NEW j \in 1..Len(supply_block'[p][r]),
               supply_block'[p][r][i] = supply_block'[p][r][j]
        PROVE  i = j
    <3>1. CASE <<p, r>> = <<pid, s>>
      BY <3>1, <2>1 DEF SupplyStep
    <3>2. CASE <<p, r>> # <<pid, s>>
      <4>1. supply_block'[p][r] = supply_block[p][r]
        BY <3>2 DEF SupplyStep
      <4> QED BY <4>1, <2>1 DEF FrameInv, ListsDistinct
    <3> QED BY <3>1, <3>2
  <2> QED BY <2>1 DEF ListsDistinct
<1> QED BY <1>2, <1>3, <1>4, <1>5, <1>6 DEF FrameInv

\* A subspace that cannot be supplied: its list is the mark of a failure.
LEMMA FailsStep ==
  ASSUME FrameInv, NEW s \in Spaces, Supplying(s), Fails(s),
         tables' \in [Processes -> SUBSET Nat],
         ~priority_ok => s = "code" /\ free' = {}
  PROVE  SupplyStep(s)
<1>1. /\ pid \in Processes /\ supply_block[pid][s] = <<>>
  BY SupplyFacts DEF Supplying
<1>2. /\ supply_block \in [Processes -> [Spaces -> Seq(Int)]]
      /\ mapped = [p \in Processes |-> mapped[p]]
  BY DEF FrameInv, FrameTypes
<1>3. FRAME_ALLOC_FAILED \in Seq(Int) /\ FRAME_ALLOC_FAILED # <<>>
      /\ Len(FRAME_ALLOC_FAILED) = 1
  BY DEF FRAME_ALLOC_FAILED
<1>4. /\ supply_block' = [supply_block EXCEPT ![pid][s] = FRAME_ALLOC_FAILED]
      /\ pc = s /\ pc' = AfterSpace(s) /\ mapped' = mapped
      /\ UNCHANGED <<page_table, scheduled, failed, pid, allocation_info, priority_ok>>
  BY DEF Fails, Supplying, args
<1>5. /\ supply_block'[pid][s] = FRAME_ALLOC_FAILED
      /\ \A p \in Processes, r \in Spaces :
           <<p, r>> # <<pid, s>> => supply_block'[p][r] = supply_block[p][r]
      /\ supply_block' \in [Processes -> [Spaces -> Seq(Int)]]
  <2> DEFINE F == FRAME_ALLOC_FAILED
  <2> HIDE DEF F
  <2>1. supply_block' = [supply_block EXCEPT ![pid][s] = F] /\ F \in Seq(Int)
    BY <1>3, <1>4 DEF F
  <2>2. /\ supply_block'[pid][s] = F
        /\ \A p \in Processes, r \in Spaces :
             <<p, r>> # <<pid, s>> => supply_block'[p][r] = supply_block[p][r]
        /\ supply_block' \in [Processes -> [Spaces -> Seq(Int)]]
    BY <1>1, <1>2, <2>1
  <2> QED BY <2>2 DEF F
<1>6. pid \notin failed
  BY <1>4, SpaceOrder DEF FrameInv, Progress
<1>7. ASSUME NEW r \in Spaces PROVE Matches(pid, r)'
  <2>1. Matches(pid, r)
    BY <1>1, <1>6 DEF FrameInv, Matched
  <2>2. CASE r = s
    <3>1. PagesOf(pid, s) = {}
      <4>1. <<>> # FRAME_ALLOC_FAILED /\ 0..(Len(<<>>) - 1) = {}
        BY DEF FRAME_ALLOC_FAILED
      <4> QED BY <2>1, <2>2, <1>1, <4>1 DEF Matches
    <3>2. PagesOf(pid, s)' = {}
      BY <3>1, <1>4 DEF PagesOf
    <3> QED BY <3>2, <2>2, <1>4, <1>5 DEF Matches
  <2>3. CASE r # s
    <3>1. supply_block'[pid][r] = supply_block[pid][r] /\ pid' = pid /\ mapped' = mapped
      BY <2>3, <1>1, <1>4, <1>5
    <3> QED BY <2>1, <3>1 DEF Matches, PagesOf
  <2> QED BY <2>2, <2>3
<1>8. \A v \in DOMAIN mapped'[pid] : v[1] \in Spaces
  BY <1>1, <1>4 DEF FrameInv, Matched
<1>9. \A i, j \in 1..Len(supply_block'[pid][s]) :
        supply_block'[pid][s][i] = supply_block'[pid][s][j] => i = j
  <2>1. Len(supply_block'[pid][s]) = 1
    BY <1>3, <1>5
  <2>2. \A i, j \in 1..1 : i = j
    OBVIOUS
  <2> QED BY <2>1, <2>2
<1> QED BY <1>2, <1>3, <1>4, <1>5, <1>7, <1>8, <1>9 DEF SupplyStep

\* A subspace that is supplied: its pages are those of its list.
LEMMA SuppliedStep ==
  ASSUME FrameInv, NEW s \in Spaces, supply_ok(s)
  PROVE  SupplyStep(s)
<1> DEFINE n == allocation_info[s]
           m == allocation_info[s] + TablesPerSpace
           pages == {<<s, i>> : i \in 0..(n - 1)}
           L == List(s)
<1>1. pc = s /\ priority_ok
  BY DEF supply_ok, Supplying
<1>2. /\ pid \in Processes /\ n \in 1..510 /\ supply_block[pid][s] = <<>>
      /\ free \subseteq Nat \ {0} /\ IsFiniteSet(free) /\ Cardinality(free) \in Nat
  BY <1>1, SupplyFacts
<1>3. m \in Nat /\ m <= Cardinality(free) /\ HasList(s)
  <2> DEFINE c == Cardinality(free)
  <2>1. c >= n + 3 /\ n \in 1..510 /\ c \in Nat
    BY <1>2 DEF supply_ok, TablesPerSpace
  <2>2. n + 3 \in Nat /\ n + 3 <= c /\ c >= n
    <3> HIDE DEF n, c
    <3> QED BY <2>1
  <2> QED BY <2>2 DEF HasList, TablesPerSpace
<1>4. /\ L \in [1..n -> free]
      /\ \A i, j \in 1..n : L[i] = L[j] => i = j
      /\ L # FRAME_ALLOC_FAILED /\ L # <<>> /\ L \in Seq(Int) /\ Len(L) = n
  BY <1>1, <1>3, ListFacts
<1>5. /\ supply_block \in [Processes -> [Spaces -> Seq(Int)]]
      /\ mapped = [p \in Processes |-> mapped[p]]
      /\ tables \in [Processes -> SUBSET Nat]
  BY DEF FrameInv, FrameTypes
<1>6. tables' \in [Processes -> SUBSET Nat]
  <2>1. Range(Lowest(m)) \subseteq Nat
    <3> HIDE DEF m
    <3>1. Range(Lowest(m)) \subseteq free
      BY <1>2, <1>3, LowestFacts
    <3> QED BY <3>1, <1>2
  <2>2. tables' = [tables EXCEPT ![pid] = @ \cup (Range(Lowest(m)) \ Range(List(s)))]
    BY DEF supply_ok
  <2> HIDE DEF m
  <2> QED BY <2>1, <2>2, <1>5
<1>7. /\ supply_block' = [supply_block EXCEPT ![pid][s] = L]
      /\ pc' = AfterSpace(s)
      /\ UNCHANGED <<page_table, scheduled, failed, pid, allocation_info, priority_ok>>
  BY DEF supply_ok, Supplying, args
<1>8. /\ supply_block'[pid][s] = L
      /\ \A p \in Processes, r \in Spaces :
           <<p, r>> # <<pid, s>> => supply_block'[p][r] = supply_block[p][r]
      /\ supply_block' \in [Processes -> [Spaces -> Seq(Int)]]
  <2> HIDE DEF L
  <2> QED BY <1>2, <1>4, <1>5, <1>7
<1>9. mapped' = [mapped EXCEPT ![pid] =
                  [v \in DOMAIN mapped[pid] \cup pages |->
                     IF v \in DOMAIN mapped[pid] THEN mapped[pid][v]
                     ELSE [frame |-> L[v[2] + 1], perms |-> leaf_perms(supplied_perms(s))]]]
  BY DEF supply_ok
<1>10. /\ mapped' = [p \in Processes |-> mapped'[p]]
       /\ \A p \in Processes \ {pid} : mapped'[p] = mapped[p]
       /\ DOMAIN mapped'[pid] = DOMAIN mapped[pid] \cup pages
       /\ \A v \in DOMAIN mapped[pid] : mapped'[pid][v] = mapped[pid][v]
       /\ \A v \in pages \ DOMAIN mapped[pid] : mapped'[pid][v].frame = L[v[2] + 1]
  <2> HIDE DEF L, pages
  <2> QED BY <1>2, <1>5, <1>9
<1>11. pid \notin failed
  BY <1>1, SpaceOrder DEF FrameInv, Progress
<1>12. ASSUME NEW r \in Spaces PROVE Matches(pid, r)'
  <2>1. Matches(pid, r)
    BY <1>2, <1>11 DEF FrameInv, Matched
  <2>2. CASE r = s
    <3>1. PagesOf(pid, s) = {}
      <4>1. <<>> # FRAME_ALLOC_FAILED /\ 0..(Len(<<>>) - 1) = {}
        BY DEF FRAME_ALLOC_FAILED
      <4> QED BY <2>1, <2>2, <1>2, <4>1 DEF Matches
    <3>2. \A v \in DOMAIN mapped[pid] : v[1] # s
      BY <3>1 DEF PagesOf
    <3>3. \A v \in pages : v[1] = s
      OBVIOUS
    <3>4. PagesOf(pid, s)' = pages
      <4> HIDE DEF pages
      <4> QED BY <3>2, <3>3, <1>7, <1>10 DEF PagesOf
    <3>5. \A i \in 0..(n - 1) : mapped'[pid][<<s, i>>].frame = L[i + 1]
      <4> TAKE i \in 0..(n - 1)
      <4>1. <<s, i>> \in pages
        OBVIOUS
      <4>2. <<s, i>> \notin DOMAIN mapped[pid]
        BY <3>2
      <4> HIDE DEF pages, L
      <4> QED BY <4>1, <4>2, <1>10
    <3> HIDE DEF L, n
    <3> QED BY <3>4, <3>5, <2>2, <1>4, <1>7, <1>8 DEF Matches
  <2>3. CASE r # s
    <3>1. supply_block'[pid][r] = supply_block[pid][r] /\ pid' = pid
      BY <2>3, <1>2, <1>7, <1>8
    <3>2. \A v \in pages : v[1] = s
      OBVIOUS
    <3>3. PagesOf(pid, r)' = PagesOf(pid, r)
      <4> HIDE DEF pages
      <4> QED BY <3>1, <3>2, <2>3, <1>10 DEF PagesOf
    <3>4. \A v \in PagesOf(pid, r) : mapped'[pid][v] = mapped[pid][v]
      BY <1>10 DEF PagesOf
    <3> DEFINE k == Len(supply_block[pid][r])
    <3>5. CASE supply_block[pid][r] = FRAME_ALLOC_FAILED
      BY <3>5, <2>1, <3>1, <3>3 DEF Matches
    <3>6. CASE supply_block[pid][r] # FRAME_ALLOC_FAILED
      <4>1. /\ PagesOf(pid, r) = {<<r, i>> : i \in 0..(k - 1)}
            /\ \A i \in 0..(k - 1) : mapped[pid][<<r, i>>].frame = supply_block[pid][r][i + 1]
        BY <3>6, <2>1 DEF Matches
      <4>2. \A i \in 0..(k - 1) : mapped'[pid][<<r, i>>].frame = supply_block[pid][r][i + 1]
        <5> HIDE DEF k
        <5> QED BY <4>1, <3>4
      <4> QED BY <4>1, <4>2, <3>1, <3>3, <3>6 DEF Matches
    <3> QED BY <3>5, <3>6
  <2> QED BY <2>2, <2>3
<1>13. \A v \in DOMAIN mapped'[pid] : v[1] \in Spaces
  <2>1. \A v \in pages : v[1] = s
    OBVIOUS
  <2> HIDE DEF pages
  <2> QED BY <2>1, <1>2, <1>10 DEF FrameInv, Matched
<1>14. \A i, j \in 1..Len(supply_block'[pid][s]) :
         supply_block'[pid][s][i] = supply_block'[pid][s][j] => i = j
  <2> HIDE DEF L, n
  <2> QED BY <1>4, <1>8
<1> HIDE DEF L, n, m, pages
<1> QED BY <1>1, <1>4, <1>6, <1>7, <1>8, <1>10, <1>12, <1>13, <1>14 DEF SupplyStep

\* The invariant is kept by every outcome of thread_supply_new_mem.
LEMMA SupplyInv ==
  ASSUME FrameInv, NEW s \in Spaces, thread_supply_new_mem_region(s)
  PROVE  FrameInv'
<1>1. FramesConserved'
  BY SupplyConserved
<1>2. Supplying(s) /\ pc = s
  BY DEF thread_supply_new_mem_region, supply_first_fails, supply_later_fails,
         supply_null_thread, supply_page_in_fails, supply_ok, Supplying
<1>3. /\ pid \in Processes /\ allocation_info[s] \in 1..510
      /\ free \subseteq Nat \ {0} /\ IsFiniteSet(free) /\ Cardinality(free) \in Nat
  BY <1>2, SupplyFacts
<1>4. tables \in [Processes -> SUBSET Nat]
  BY DEF FrameInv, FrameTypes
<1>5. CASE supply_first_fails(s) \/ supply_null_thread(s)
  <2>1. /\ pc' = "fault" /\ UNCHANGED <<page_table, tables, supply_block, mapped>>
        /\ UNCHANGED <<scheduled, failed, pid, allocation_info, priority_ok>>
    BY <1>5 DEF supply_first_fails, supply_null_thread, Supplying, args
  <2>2. FrameTypes'
    BY <1>2, <2>1, SpaceOrder DEF FrameInv, FrameTypes, Stages
  <2>3. Fresh'
    BY <1>2, <2>1 DEF FrameInv, Fresh, Before, Spaces
  <2>4. Matched' /\ ListsDistinct'
    BY <2>1 DEF FrameInv, Matched, Matches, PagesOf, ListsDistinct
  <2>5. Progress'
    BY <1>2, <2>1, SpaceOrder DEF FrameInv, Progress, Spaces, Supplied
  <2> QED BY <1>1, <2>2, <2>3, <2>4, <2>5 DEF FrameInv
<1>6. CASE supply_later_fails(s)
  <2>1. Fails(s) /\ tables' = tables /\ free' = {} /\ Cardinality(free) # 0
    BY <1>6, <1>3 DEF supply_later_fails
  <2>2. free # {}
    BY <2>1, FS_EmptySet
  <2>3. ~priority_ok => s = "code"
    BY <1>2, <2>2 DEF FrameInv, Progress, Spaces
  <2>4. SupplyStep(s)
    BY <1>2, <1>4, <2>1, <2>3, FailsStep
  <2> QED BY <1>1, <2>4, SupplyStepInv
<1>7. CASE supply_page_in_fails(s)
  <2>1. Fails(s) /\ priority_ok
    BY <1>7 DEF supply_page_in_fails
  <2>2. tables' = [tables EXCEPT ![pid] = @ \cup (free \ Range(List(s)))]
    BY <1>7 DEF supply_page_in_fails
  <2>3. tables' \in [Processes -> SUBSET Nat]
    BY <1>3, <1>4, <2>2
  <2>4. SupplyStep(s)
    BY <1>2, <2>1, <2>3, FailsStep
  <2> QED BY <1>1, <2>4, SupplyStepInv
<1>8. CASE supply_ok(s)
  BY <1>1, <1>8, SuppliedStep, SupplyStepInv
<1> QED BY <1>5, <1>6, <1>7, <1>8 DEF thread_supply_new_mem_region

\* The invariant is inductive.
LEMMA FrameInvariance ==
  ASSUME FrameInv, [Next]_vars
  PROVE  FrameInv'
<1>1. CASE QuietStep
  BY <1>1, QuietInv
<1>2. CASE create_thread_table
  BY <1>2, TableInv
<1>3. CASE \E s \in Spaces : thread_supply_new_mem_region(s)
  BY <1>3, SupplyInv
<1>4. CASE init_process_fails
  BY <1>4, GiveUpInv
<1>5. CASE create_process
  BY <1>5, DispatchInv
<1> QED BY <1>1, <1>2, <1>3, <1>4, <1>5 DEF Next, QuietStep

-----------------------------------------------------------------------------
(* The theorems about frames *)

\* FrameInv holds throughout.
THEOREM FrameInvariant == Spec => []FrameInv
BY FrameInit, FrameInvariance, PTL DEF Spec

\* Every frame of the pool has exactly one holder whatever fails: no step of a
\* creation (init_process, thread_supply_new_mem, ialloc_frames) duplicates a
\* frame or drops one without account.
THEOREM FramesAreConserved == Spec => []FramesConserved
<1>1. FrameInv => FramesConserved
  BY DEF FrameInv
<1> QED BY <1>1, FrameInvariant, PTL

\* The frames a dispatched thread reaches are those of its holders.
LEMMA ReachableHeld ==
  ASSUME FrameInv, NEW p \in scheduled, NEW x \in Reachable(p)
  PROVE  /\ p \in Processes
         /\ \E h \in Holders : h[1] = p /\ x \in holding[h]
<1>1. p \in Processes /\ p \notin failed
  <2>1. pid \in 0..NumProcesses
    BY DEF FrameInv, FrameTypes
  <2>2. p \in 1..pid /\ p \notin failed
    BY DEF FrameInv, Progress
  <2> QED BY <2>1, <2>2, ProcessAssumption DEF Processes
<1>2. page_table[p] # None /\ \A s \in Spaces : supply_block[p][s] # FRAME_ALLOC_FAILED
  BY DEF FrameInv, Progress
<1>3. CASE x = page_table[p]
  <2>1. <<p, "page_table">> \in Holders /\ x \in holding[<<p, "page_table">>]
    BY <1>1, <1>2, <1>3, HoldersAre, HoldingIs DEF HoldingFacts
  <2> QED BY <1>1, <2>1
<1>4. CASE x \in tables[p]
  <2>1. <<p, "tables">> \in Holders /\ x \in holding[<<p, "tables">>]
    BY <1>1, <1>4, HoldersAre, HoldingIs DEF HoldingFacts
  <2> QED BY <1>1, <2>1
<1>5. ASSUME NEW v \in DOMAIN mapped[p], x = mapped[p][v].frame
      PROVE  \E h \in Holders : h[1] = p /\ x \in holding[h]
  <2> DEFINE s == v[1]
             L == supply_block[p][s]
  <2>1. s \in Spaces
    BY <1>1 DEF FrameInv, Matched
  <2>2. /\ PagesOf(p, s) = {<<s, i>> : i \in 0..(Len(L) - 1)}
        /\ \A i \in 0..(Len(L) - 1) : mapped[p][<<s, i>>].frame = L[i + 1]
    BY <1>1, <1>2, <2>1 DEF FrameInv, Matched, Matches
  <2>3. v \in PagesOf(p, s)
    BY DEF PagesOf
  <2>4. L \in Seq(Int)
    BY <1>1, <2>1 DEF FrameInv, FrameTypes
  <2>5. PICK i \in 0..(Len(L) - 1) : v = <<s, i>>
    BY <2>2, <2>3
  <2> HIDE DEF L, s
  <2>6. x = L[i + 1] /\ i + 1 \in DOMAIN L
    BY <1>5, <2>2, <2>4, <2>5
  <2>7. x \in Range(L)
    BY <2>6 DEF Range
  <2>8. x \in FramesOf(L) /\ L = supply_block[p][s]
    BY <1>2, <2>1, <2>7 DEF FramesOf, L
  <2>9. <<p, s>> \in Holders /\ holding[<<p, s>>] = FramesOf(supply_block[p][s])
    BY <1>1, <2>1, HoldersAre, HoldingIs DEF HoldingFacts
  <2> QED BY <2>8, <2>9
<1> QED BY <1>1, <1>3, <1>4, <1>5 DEF Reachable

\* A thread that can be dispatched reaches no free frame and no frame another
\* such thread reaches, although a failed creation leaves mapped what
\* init_process gives back.
THEOREM DispatchedAreExclusive == Spec => []DispatchedFramesExclusive
<1>1. ASSUME FrameInv PROVE DispatchedFramesExclusive
  <2>1. Disjoint(Holders, holding)
    BY <1>1, ConservedAs DEF FrameInv
  <2>2. ASSUME NEW p \in scheduled, NEW x \in Reachable(p) PROVE x \notin free
    <3>1. PICK h \in Holders : h[1] = p /\ x \in holding[h]
      BY <1>1, ReachableHeld
    <3>2. p \in Processes
      BY <1>1, ReachableHeld
    <3>3. h # Free
      BY <3>1, <3>2, ProcessAssumption DEF Free, Processes
    <3>4. holding[Free] = free /\ Free \in Holders
      BY HoldingIs, HoldersAre DEF HoldingFacts
    <3> QED BY <3>1, <3>3, <3>4, <2>1 DEF Disjoint
  <2>3. ASSUME NEW p \in scheduled, NEW q \in scheduled \ {p},
               NEW x \in Reachable(p), x \in Reachable(q)
        PROVE  FALSE
    <3>1. PICK h \in Holders : h[1] = p /\ x \in holding[h]
      BY <1>1, ReachableHeld
    <3>2. PICK g \in Holders : g[1] = q /\ x \in holding[g]
      BY <1>1, <2>3, ReachableHeld
    <3> QED BY <3>1, <3>2, <2>1 DEF Disjoint
  <2> QED BY <2>2, <2>3 DEF DispatchedFramesExclusive
<1> QED BY <1>1, FrameInvariant, PTL

\* A thread that can be dispatched has every page it asked for, each on a
\* frame of its own.
THEOREM DispatchedAreComplete == Spec => []DispatchedComplete
<1>1. ASSUME FrameInv PROVE DispatchedComplete
  <2> SUFFICES ASSUME NEW p \in scheduled, NEW s \in Spaces
               PROVE  LET pages == {v \in DOMAIN mapped[p] : v[1] = s}
                      IN /\ pages # {}
                         /\ {mapped[p][v].frame : v \in pages} = Range(supply_block[p][s])
                         /\ Cardinality(pages) = Len(supply_block[p][s])
                         /\ \A v, w \in pages :
                              v # w => mapped[p][v].frame # mapped[p][w].frame
    BY DEF DispatchedComplete
  <2> DEFINE pages == {v \in DOMAIN mapped[p] : v[1] = s}
             L == supply_block[p][s]
             n == Len(L)
  <2>1. p \in Processes /\ p \notin failed
    <3>1. pid \in 0..NumProcesses
      BY <1>1 DEF FrameInv, FrameTypes
    <3>2. p \in 1..pid /\ p \notin failed
      BY <1>1 DEF FrameInv, Progress
    <3> QED BY <3>1, <3>2, ProcessAssumption DEF Processes
  <2>2. L # <<>> /\ L # FRAME_ALLOC_FAILED
    BY <1>1 DEF FrameInv, Progress
  <2>3. /\ pages = {<<s, i>> : i \in 0..(n - 1)}
        /\ \A i \in 0..(n - 1) : mapped[p][<<s, i>>].frame = L[i + 1]
    BY <1>1, <2>1, <2>2 DEF FrameInv, Matched, Matches, PagesOf
  <2>4. L \in Seq(Int) /\ n \in Nat /\ n # 0 /\ DOMAIN L = 1..n
    <3>1. L \in Seq(Int)
      BY <1>1, <2>1 DEF FrameInv, FrameTypes
    <3> HIDE DEF L
    <3> QED BY <3>1, <2>2
  <2>5. \A i, j \in 1..n : L[i] = L[j] => i = j
    BY <1>1, <2>1 DEF FrameInv, ListsDistinct
  <2> HIDE DEF pages, L, n
  <2>6. pages # {}
    <3>1. 0 \in 0..(n - 1)
      BY <2>4
    <3>2. <<s, 0>> \in pages
      BY <3>1, <2>3
    <3> QED BY <3>2
  <2>7. {mapped[p][v].frame : v \in pages} = Range(L)
    <3>1. ASSUME NEW v \in pages PROVE mapped[p][v].frame \in Range(L)
      <4>1. PICK i \in 0..(n - 1) : v = <<s, i>>
        BY <2>3
      <4>2. i + 1 \in DOMAIN L /\ mapped[p][v].frame = L[i + 1]
        BY <2>3, <2>4, <4>1
      <4> QED BY <4>2 DEF Range
    <3>2. ASSUME NEW x \in Range(L) PROVE \E v \in pages : x = mapped[p][v].frame
      <4>1. PICK i \in DOMAIN L : x = L[i]
        BY DEF Range
      <4>2. i - 1 \in 0..(n - 1) /\ (i - 1) + 1 = i
        BY <2>4, <4>1
      <4>3. <<s, i - 1>> \in pages /\ mapped[p][<<s, i - 1>>].frame = L[(i - 1) + 1]
        BY <2>3, <4>2
      <4> QED BY <4>1, <4>2, <4>3
    <3> QED BY <3>1, <3>2
  <2>8. Cardinality(pages) = n
    <3> DEFINE f == [i \in 0..(n - 1) |-> <<s, i>>]
    <3>1. f \in Bijection(0..(n - 1), pages)
      BY <2>3 DEF Bijection, Injection, Surjection, IsInjective
    <3>2. IsFiniteSet(0..(n - 1)) /\ Cardinality(0..(n - 1)) = n
      BY <2>4, FS_Interval
    <3> HIDE DEF f
    <3>3. Cardinality(pages) = Cardinality(0..(n - 1))
      BY <3>1, <3>2, FS_Bijection DEF ExistsBijection
    <3> QED BY <3>2, <3>3
  <2>9. ASSUME NEW v \in pages, NEW w \in pages, mapped[p][v].frame = mapped[p][w].frame
        PROVE  v = w
    <3>1. PICK i \in 0..(n - 1) : v = <<s, i>>
      BY <2>3
    <3>2. PICK j \in 0..(n - 1) : w = <<s, j>>
      BY <2>3
    <3>3. L[i + 1] = L[j + 1] /\ i + 1 \in 1..n /\ j + 1 \in 1..n
      BY <2>3, <2>4, <2>9, <3>1, <3>2
    <3>4. i = j
      BY <3>3, <2>5, <2>4
    <3> QED BY <3>1, <3>2, <3>4
  <2> QED BY <2>6, <2>7, <2>8, <2>9 DEF pages, L, n
<1> QED BY <1>1, FrameInvariant, PTL

-----------------------------------------------------------------------------
(***************************************************************************)
(* Theorems about the heap as the creation of processes uses it: kmain's   *)
(* records first, then for each process a supply block, a tcb, a pcb and a *)
(* descriptor, of which only the supply block is ever freed.               *)
(*                                                                         *)
(* Why the headers stay right is more than one call of the allocator can   *)
(* tell.  Splitting a block does not correct the header behind the rest,   *)
(* and a merge adds the length of a header too much: both go unnoticed     *)
(* because only the last block is ever split and no free block ever has a  *)
(* free neighbour.  HeapInv says so: every block but the last is           *)
(* allocated, except for the supply block of the last failed creation,     *)
(* which has exactly the size the next creation asks for first.            *)
(***************************************************************************)

(***************************************************************************)
(* The inductive invariant                                                 *)
(***************************************************************************)

HeapTypes ==
  /\ HeapTypeOK /\ IsFiniteSet(live)
  /\ DOMAIN objects \subseteq Processes \X DOMAIN SizeOf
  /\ \A o \in DOMAIN objects : objects[o] \in Nat

\* The blocks tile the pages, and each header knows the one before.
Tiled ==
  /\ heapStart \in DOMAIN meta
  /\ \A h \in DOMAIN meta :
       /\ heapStart <= h /\ h < pages_end /\ 0 < meta[h].block_size
       /\ NextOf(h) \in DOMAIN meta \cup {pages_end}
       /\ NextOf(h) \in DOMAIN meta => PrevOf(NextOf(h)) = h
       /\ PrevOf(h) \in DOMAIN meta
       /\ PrevOf(h) = h \/ NextOf(PrevOf(h)) = h
       /\ \A g \in DOMAIN meta : g > h => g >= NextOf(h)

\* What clients hold are the payloads of the allocated blocks.
ObjectOf(h) == [ptr |-> h + META_DATA_SIZE, size |-> meta[h].block_size - META_DATA_SIZE]
LiveIs == live = {ObjectOf(h) : h \in {g \in DOMAIN meta : meta[g].allocated}}

\* The last block is free or not; another one that is free is the supply block
\* of a failed creation, and there is at most one, until it is given out again.
IsLast(h) == NextOf(h) = pages_end
IsHole(h) == h \in DOMAIN meta /\ ~meta[h].allocated /\ ~IsLast(h)
HoleSize == SizeOf.supply_block + META_DATA_SIZE
HoleStage == pc = "kmain" \/ (pc = "supply_block" /\ walk.step # "done")
Holes ==
  /\ \A h \in DOMAIN meta :
       IsHole(h) => HoleStage /\ meta[h].block_size = HoleSize
  /\ \A g, h \in DOMAIN meta : IsHole(g) /\ IsHole(h) => g = h

\* The walk has only passed allocated blocks.
Walking ==
  /\ walk.step \in {"walk", "done"} => pc \in {"boot"} \cup DOMAIN SizeOf
  /\ walk.step = "walk" =>
       /\ walk.header \in DOMAIN meta \cup {pages_end}
       /\ \A g \in DOMAIN meta : g < walk.header => meta[g].allocated
       /\ walk.size >= 2 /\ (pc = "supply_block" => walk.size = HoleSize)
  /\ walk.step = "done" => walk.ptr > 0

\* Where the supply block is, and that the tcb or another allocated block
\* follows it when the creation may still fail.
Holds(h) == h \in DOMAIN meta /\ meta[h].allocated /\ meta[h].block_size = HoleSize
Followed(h) == NextOf(h) \in DOMAIN meta /\ meta[NextOf(h)].allocated
SB == objects[<<pid, "supply_block">>] - META_DATA_SIZE
SupplyBlock ==
  /\ pc = "supply_block" /\ walk.step = "done" => Holds(walk.ptr - META_DATA_SIZE)
  /\ pc \in {"thread", "tcb"} \cup Spaces \cup Supplied =>
       <<pid, "supply_block">> \in DOMAIN objects /\ Holds(SB)
  /\ pc = "tcb" /\ walk.step = "done" => Followed(SB)
  /\ pc \in Spaces \cup Supplied /\ priority_ok => Followed(SB)

\* kmain's records are counted by what clients hold.
Booting ==
  pc = "boot" => /\ Cardinality(live) <= Len(BootObjects)
                 /\ walk.step # "done" => Cardinality(live) < Len(BootObjects)

HeapInv == /\ HeapTypes /\ Tiled /\ LiveIs /\ Holes /\ Walking /\ SupplyBlock
           /\ Booting /\ GivesUpOnlyWhenFull

-----------------------------------------------------------------------------
(* The operations on the headers *)

\* The types that the arithmetic on headers needs.
LEMMA HeapFacts ==
  ASSUME HeapInv
  PROVE  /\ pages_end \in Nat /\ pages_end > 1
         /\ \A h \in DOMAIN meta :
              /\ h \in Nat /\ meta[h].block_size \in Nat /\ meta[h].prev_block_data \in Nat
              /\ meta[h].allocated \in BOOLEAN
              /\ meta[h] = [block_size |-> meta[h].block_size,
                            allocated |-> meta[h].allocated,
                            prev_block_data |-> meta[h].prev_block_data]
         /\ walk.header \in Nat /\ walk.size \in Nat /\ walk.ptr \in Nat
         /\ walk = [step |-> walk.step, header |-> walk.header,
                    size |-> walk.size, ptr |-> walk.ptr]
         /\ walk.step \in {"idle", "walk", "done", "fault"}
<1>1. HeapTypeOK
  BY DEF HeapInv, HeapTypes
<1>2. pages_end \in Nat /\ pages_end > 1
  BY <1>1, HeapAssumption DEF HeapTypeOK
<1>3. ASSUME NEW h \in DOMAIN meta
      PROVE  /\ h \in Nat /\ meta[h].block_size \in Nat /\ meta[h].prev_block_data \in Nat
             /\ meta[h].allocated \in BOOLEAN
             /\ meta[h] = [block_size |-> meta[h].block_size,
                           allocated |-> meta[h].allocated,
                           prev_block_data |-> meta[h].prev_block_data]
  BY <1>1 DEF HeapTypeOK
<1>4. /\ walk.header \in Nat /\ walk.size \in Nat /\ walk.ptr \in Nat
      /\ walk = [step |-> walk.step, header |-> walk.header,
                 size |-> walk.size, ptr |-> walk.ptr]
      /\ walk.step \in {"idle", "walk", "done", "fault"}
  BY <1>1 DEF HeapTypeOK
<1> QED BY <1>2, <1>3, <1>4

\* An allocation of a whole block only marks its header.
LEMMA ExactStep ==
  ASSUME HeapInv, take_exact
  PROVE  /\ walk.step = "walk" /\ walk.header \in DOMAIN meta
         /\ ~meta[walk.header].allocated /\ meta[walk.header].block_size = walk.size
         /\ DOMAIN meta' = DOMAIN meta /\ pages_end' = pages_end
         /\ meta'[walk.header] = [meta[walk.header] EXCEPT !.allocated = TRUE]
         /\ \A g \in DOMAIN meta \ {walk.header} : meta'[g] = meta[g]
         /\ live' = live \cup {[ptr |-> walk.header + 1, size |-> walk.size - 1]}
         /\ walk' = [walk EXCEPT !.step = "done", !.ptr = walk.header + 1]
<1> DEFINE h == walk.header
           n == walk.size
           blocks == [meta EXCEPT ![h].allocated = TRUE]
           payload == (h + 1)..(h + n - 1)
<1>1. /\ walk.step = "walk" /\ h \in DOMAIN meta /\ ~meta[h].allocated
      /\ meta[h].block_size = n
  BY DEF take_exact, InHeap, Readable, Block
<1>2. /\ meta' = [x \in DOMAIN blocks \ payload |-> blocks[x]]
      /\ live' = live \cup {[ptr |-> h + 1, size |-> n - 1]}
      /\ walk' = [walk EXCEPT !.step = "done", !.ptr = h + 1]
      /\ pages_end' = pages_end
  BY DEF take_exact, Returns, META_DATA_SIZE
<1>3. DOMAIN blocks = DOMAIN meta
  OBVIOUS
<1>4. \A g \in DOMAIN meta : g \notin payload
  <2> TAKE g \in DOMAIN meta
  <2>1. g \in Nat /\ h \in Nat /\ n \in Nat
    BY <1>1, HeapFacts
  <2>2. g > h => g >= h + n
    BY <1>1 DEF HeapInv, Tiled, NextOf
  <2> HIDE DEF h, n
  <2> QED BY <2>1, <2>2
<1>5. DOMAIN meta' = DOMAIN meta /\ \A g \in DOMAIN meta : meta'[g] = blocks[g]
  <2> HIDE DEF blocks, payload
  <2> QED BY <1>2, <1>3, <1>4
<1>6. /\ blocks[h] = [meta[h] EXCEPT !.allocated = TRUE]
      /\ \A g \in DOMAIN meta \ {h} : blocks[g] = meta[g]
  BY <1>1
<1> HIDE DEF blocks, payload
<1> QED BY <1>1, <1>2, <1>5, <1>6

\* Only the last block is split: a hole has the size that is asked for.
LEMMA SplitStep ==
  ASSUME HeapInv, take_split
  PROVE  /\ walk.step = "walk" /\ walk.header \in DOMAIN meta
         /\ ~meta[walk.header].allocated /\ walk.size < meta[walk.header].block_size
         /\ IsLast(walk.header)
         /\ walk.header + walk.size \notin DOMAIN meta
         /\ DOMAIN meta' = DOMAIN meta \cup {walk.header + walk.size}
         /\ pages_end' = pages_end
         /\ meta'[walk.header] = [meta[walk.header] EXCEPT !.allocated = TRUE,
                                                           !.block_size = walk.size]
         /\ meta'[walk.header + walk.size] =
              [block_size |-> meta[walk.header].block_size - walk.size,
               allocated |-> FALSE, prev_block_data |-> walk.size]
         /\ \A g \in DOMAIN meta \ {walk.header} : meta'[g] = meta[g]
         /\ live' = live \cup {[ptr |-> walk.header + 1, size |-> walk.size - 1]}
         /\ walk' = [walk EXCEPT !.step = "done", !.ptr = walk.header + 1]
<1> DEFINE h == walk.header
           n == walk.size
           rest == [block_size |-> meta[h].block_size - n,
                    allocated |-> FALSE, prev_block_data |-> n]
           own == [meta[h] EXCEPT !.allocated = TRUE, !.block_size = n]
           blocks == Updated(meta, Updated(At(h + n, rest), At(h, own)))
           payload == (h + 1)..(h + n - 1)
<1>1. /\ walk.step = "walk" /\ h \in DOMAIN meta /\ ~meta[h].allocated
      /\ meta[h].block_size > n
  BY DEF take_split, InHeap, Readable, Block
<1>2. /\ meta' = [x \in DOMAIN blocks \ payload |-> blocks[x]]
      /\ live' = live \cup {[ptr |-> h + 1, size |-> n - 1]}
      /\ walk' = [walk EXCEPT !.step = "done", !.ptr = h + 1]
      /\ pages_end' = pages_end
  BY DEF take_split, Returns, META_DATA_SIZE, Block, split_rest, Header
<1>3. /\ h \in Nat /\ n \in Nat /\ n >= 2 /\ meta[h].block_size \in Nat
      /\ n < meta[h].block_size /\ h + n # h
  BY <1>1, HeapFacts DEF HeapInv, Walking
<1>4. IsLast(h)
  <2>1. IsHole(h) => pc = "supply_block" /\ meta[h].block_size = HoleSize
    BY <1>1 DEF HeapInv, Holes, HoleStage, Walking, SizeOf
  <2>2. pc = "supply_block" => n = HoleSize
    BY <1>1 DEF HeapInv, Walking
  <2>3. ~IsHole(h)
    BY <2>1, <2>2, <1>3 DEF HoleSize
  <2> QED BY <1>1, <2>3 DEF IsHole
<1>5. \A g \in DOMAIN meta : g > h => g >= h + meta[h].block_size
  BY <1>1 DEF HeapInv, Tiled, NextOf
<1>6. \A g \in DOMAIN meta : g \in Nat
  BY HeapFacts
<1>7. /\ h + n \notin DOMAIN meta /\ h + n \notin payload /\ h \notin payload
      /\ \A g \in DOMAIN meta : g \notin payload
  <2> DEFINE b == meta[h].block_size
  <2>1. /\ h \in Nat /\ n \in Nat /\ n >= 2 /\ b \in Nat /\ n < b
        /\ \A g \in DOMAIN meta : g \in Nat /\ (g > h => g >= h + b)
    BY <1>3, <1>5, <1>6
  <2> HIDE DEF h, n, b
  <2> QED BY <2>1
<1>8. /\ DOMAIN blocks = DOMAIN meta \cup {h + n}
      /\ blocks[h] = own /\ blocks[h + n] = rest
      /\ \A g \in DOMAIN meta \ {h} : blocks[g] = meta[g]
  <2>1. h \in DOMAIN meta /\ h + n \notin DOMAIN meta /\ h + n # h
    BY <1>1, <1>3, <1>7
  <2> HIDE DEF h, n, own, rest
  <2> QED BY <2>1 DEF Updated, At
<1>9. /\ DOMAIN meta' = DOMAIN meta \cup {h + n}
      /\ meta'[h] = own /\ meta'[h + n] = rest
      /\ \A g \in DOMAIN meta \ {h} : meta'[g] = meta[g]
  <2> HIDE DEF blocks, payload, own, rest, n
  <2> QED BY <1>1, <1>2, <1>7, <1>8
<1> HIDE DEF blocks, payload
<1> QED BY <1>1, <1>2, <1>3, <1>4, <1>7, <1>9

\* A free of the supply block of the process in creation: neither neighbour is
\* free, so nothing is merged and only its own header changes.
LEMMA FreeStep ==
  ASSUME FrameInv, HeapInv, pc = "check", free_block(objects[<<pid, "supply_block">>])
  PROVE  /\ SB \in DOMAIN meta /\ meta[SB].allocated /\ meta[SB].block_size = HoleSize
         /\ Followed(SB)
         /\ DOMAIN meta' = DOMAIN meta /\ pages_end' = pages_end /\ walk' = walk
         /\ meta'[SB] = [meta[SB] EXCEPT !.allocated = FALSE]
         /\ \A g \in DOMAIN meta \ {SB} : meta'[g] = meta[g]
         /\ live' = {a \in live : a.ptr # SB + 1}
         /\ walk.step = "idle"
<1> DEFINE h == SB
           ptr == objects[<<pid, "supply_block">>]
<1>1. /\ <<pid, "supply_block">> \in DOMAIN objects /\ Holds(h) /\ Followed(h)
  <2>1. pc \in Supplied /\ priority_ok
    BY DEF Supplied, FrameInv, Progress
  <2> QED BY <2>1 DEF HeapInv, SupplyBlock
<1>2. ptr \in Nat /\ h = ptr - 1 /\ h + 1 = ptr
  BY <1>1 DEF HeapInv, HeapTypes, SB, META_DATA_SIZE
<1>3. h \in DOMAIN meta /\ meta[h].allocated /\ meta[h].block_size = HoleSize
  BY <1>1 DEF Holds
<1>4. NextOf(h) \in DOMAIN meta /\ meta[NextOf(h)].allocated
  BY <1>1 DEF Followed
<1>5. PrevOf(h) \in DOMAIN meta /\ (PrevOf(h) = h \/ NextOf(PrevOf(h)) = h)
  BY <1>3 DEF HeapInv, Tiled
<1>6. h \in Nat /\ pages_end \in Nat /\ h < pages_end
  BY <1>3, HeapFacts DEF HeapInv, Tiled
<1>7. meta[PrevOf(h)].allocated
  <2>1. CASE PrevOf(h) = h
    BY <2>1, <1>3
  <2>2. CASE PrevOf(h) # h
    <3>1. ~IsLast(PrevOf(h))
      BY <2>2, <1>5, <1>6 DEF IsLast
    <3>2. ~HoleStage
      BY DEF HoleStage
    <3> QED BY <1>5, <3>1, <3>2 DEF HeapInv, Holes, IsHole
  <2> QED BY <2>1, <2>2
<1>8. ~IsFree(PrevOf(h)) /\ ~IsFree(NextOf(h))
  BY <1>4, <1>7 DEF IsFree
<1>9. merged_size(h) = meta[h].block_size
  <2>1. meta[h].block_size \in Nat
    BY <1>3, HeapFacts
  <2>2. merged_size(h) = 0 + meta[h].block_size + 0
    BY <1>8 DEF merged_size
  <2> QED BY <2>1, <2>2
<1>10. meta[h] = [block_size |-> meta[h].block_size, allocated |-> meta[h].allocated,
                  prev_block_data |-> meta[h].prev_block_data]
  BY <1>3, HeapFacts
<1>11. /\ walk.step = "idle" /\ meta' = freed(h) /\ walk' = walk
       /\ live' = {a \in live : a.ptr # ptr} /\ pages_end' = pages_end
  <2>1. ptr - META_DATA_SIZE = h
    BY DEF SB
  <2>2. {PrevOf(h), NextOf(h)} \subseteq DOMAIN meta
    BY <1>4, <1>5
  <2> HIDE DEF h
  <2> QED BY <2>1, <2>2 DEF free_block
<1>12. freed(h) = Updated(meta, At(h, [meta[h] EXCEPT !.allocated = FALSE,
                                                     !.block_size = merged_size(h)]))
  BY <1>8 DEF freed
<1> DEFINE own == [meta[h] EXCEPT !.allocated = FALSE]
<1>13. [meta[h] EXCEPT !.allocated = FALSE, !.block_size = merged_size(h)] = own
  BY <1>9, <1>10
<1>14. meta' = Updated(meta, At(h, own))
  BY <1>11, <1>12, <1>13
<1>15. DOMAIN meta' = DOMAIN meta /\ meta'[h] = own /\ \A g \in DOMAIN meta \ {h} : meta'[g] = meta[g]
  <2> HIDE DEF h, own
  <2> QED BY <1>14, <1>3 DEF Updated, At
<1> QED BY <1>1, <1>2, <1>3, <1>11, <1>15

-----------------------------------------------------------------------------
(* The tiling *)

\* Marking a block keeps the tiling.
LEMMA SameShape ==
  ASSUME Tiled, DOMAIN meta' = DOMAIN meta, pages_end' = pages_end,
         \A h \in DOMAIN meta : /\ meta'[h].block_size = meta[h].block_size
                                /\ meta'[h].prev_block_data = meta[h].prev_block_data
  PROVE  /\ Tiled'
         /\ \A h \in DOMAIN meta : /\ NextOf(h)' = NextOf(h) /\ PrevOf(h)' = PrevOf(h)
                                   /\ IsLast(h)' <=> IsLast(h)
<1>1. \A h \in DOMAIN meta : NextOf(h)' = NextOf(h) /\ PrevOf(h)' = PrevOf(h)
  BY DEF NextOf, PrevOf
<1>2. \A h \in DOMAIN meta : IsLast(h)' <=> IsLast(h)
  BY <1>1 DEF IsLast
<1>3. heapStart \in DOMAIN meta'
  BY DEF Tiled
<1>4. ASSUME NEW h \in DOMAIN meta
      PROVE  /\ heapStart <= h /\ h < pages_end' /\ 0 < meta'[h].block_size
             /\ NextOf(h)' \in DOMAIN meta' \cup {pages_end'}
             /\ NextOf(h)' \in DOMAIN meta' => PrevOf(NextOf(h))' = h
             /\ PrevOf(h)' \in DOMAIN meta'
             /\ PrevOf(h)' = h \/ NextOf(PrevOf(h))' = h
             /\ \A g \in DOMAIN meta' : g > h => g >= NextOf(h)'
  BY <1>1 DEF Tiled
<1>5. \A h \in DOMAIN meta' : heapStart' = heapStart
  BY DEF heapStart
<1> QED BY <1>1, <1>2, <1>3, <1>4, <1>5 DEF Tiled

\* Only one block is last, and none is behind it.
LEMMA LastIsUnique ==
  ASSUME HeapInv, NEW g \in DOMAIN meta, NEW h \in DOMAIN meta, IsLast(h)
  PROVE  g <= h /\ (IsLast(g) => g = h)
<1>1. /\ g \in Nat /\ h \in Nat /\ pages_end \in Nat
      /\ meta[g].block_size \in Nat /\ meta[h].block_size \in Nat
  BY HeapFacts
<1>2. /\ g > h => g >= NextOf(h)
      /\ h > g => h >= NextOf(g)
  BY DEF HeapInv, Tiled
<1>3. g < pages_end /\ h < pages_end /\ NextOf(h) = pages_end
  BY DEF HeapInv, Tiled, IsLast
<1>4. NextOf(g) \in Int
  BY <1>1 DEF NextOf
<1>5. g <= h
  BY <1>1, <1>2, <1>3
<1>6. IsLast(g) => g = h
  BY <1>1, <1>2, <1>3, <1>4, <1>5 DEF IsLast
<1> QED BY <1>5, <1>6

-----------------------------------------------------------------------------
(* Imalloc keeps the invariant *)

\* What a step that gives a block out has in common, whether or not it splits.
MetaTypes(m) ==
  \A h \in DOMAIN m : /\ h \in Nat
                      /\ m[h] \in [block_size : Nat, allocated : BOOLEAN, prev_block_data : Nat]

Took ==
  /\ walk.step = "walk" /\ walk.header \in DOMAIN meta /\ ~meta[walk.header].allocated
  /\ DOMAIN meta \subseteq DOMAIN meta' /\ pages_end' = pages_end
  /\ meta'[walk.header].allocated /\ meta'[walk.header].block_size = walk.size
  /\ \A g \in DOMAIN meta \ {walk.header} : meta'[g] = meta[g]
  /\ \A g \in DOMAIN meta' \ DOMAIN meta : ~meta'[g].allocated /\ IsLast(g)'
  /\ MetaTypes(meta')
  /\ live' = live \cup {[ptr |-> walk.header + 1, size |-> walk.size - 1]}
  /\ walk' = [walk EXCEPT !.step = "done", !.ptr = walk.header + 1]
  /\ UNCHANGED <<objects, pc, pid, priority_ok>>

\* The block that is given out is the hole, if there is one, and else the last.
LEMMA FirstFree ==
  ASSUME HeapInv, Took
  PROVE  /\ \A g \in DOMAIN meta : ~meta[g].allocated /\ g # walk.header
                                     => ~IsHole(g) /\ IsHole(walk.header)
         /\ IsHole(walk.header) => pc = "supply_block"
<1> DEFINE h == walk.header
<1>1. h \in DOMAIN meta /\ ~meta[h].allocated /\ walk.step = "walk"
  BY DEF Took
<1>2. ASSUME NEW g \in DOMAIN meta, ~meta[g].allocated, g # h
      PROVE  ~IsHole(g) /\ IsHole(h)
  <2>1. g \in Nat /\ h \in Nat
    BY <1>1, HeapFacts
  <2>2. ~(g < h)
    BY <1>1, <1>2 DEF HeapInv, Walking
  <2>3. ~(g <= h)
    BY <2>1, <2>2, <1>2
  <2>4. ~IsLast(h)
    BY <1>1, <2>3, LastIsUnique
  <2>5. IsHole(h)
    BY <1>1, <2>4 DEF IsHole
  <2> QED BY <2>5, <1>1, <1>2 DEF HeapInv, Holes
<1>3. IsHole(h) => pc = "supply_block"
  BY <1>1 DEF HeapInv, Holes, HoleStage, Walking, SizeOf
<1> QED BY <1>2, <1>3

\* A block that was allocated stays as it is.
LEMMA TookKeeps ==
  ASSUME HeapInv, Took, NEW g \in DOMAIN meta, meta[g].allocated
  PROVE  /\ g \in DOMAIN meta' /\ meta'[g] = meta[g] /\ g # walk.header
         /\ NextOf(g)' = NextOf(g) /\ (IsLast(g)' <=> IsLast(g))
BY DEF Took, NextOf, IsLast

\* A step that gives a block out keeps the invariant if it keeps the tiling.
LEMMA TookInv ==
  ASSUME FrameInv, HeapInv, Took, Tiled'
  PROVE  HeapInv'
<1> DEFINE h == walk.header
           n == walk.size
<1>1. /\ h \in DOMAIN meta /\ ~meta[h].allocated /\ h \in Nat /\ n \in Nat /\ n >= 2
      /\ walk.step = "walk" /\ pc \in {"boot"} \cup DOMAIN SizeOf
      /\ walk \in [step : {"idle", "walk", "done", "fault"},
                   header : Nat, size : Nat, ptr : Nat]
  BY HeapFacts DEF Took, HeapInv, Walking, HeapTypes, HeapTypeOK
<1>2. /\ walk'.step = "done" /\ walk'.ptr = h + 1 /\ walk'.size = n
      /\ walk' \in [step : {"idle", "walk", "done", "fault"},
                    header : Nat, size : Nat, ptr : Nat]
  <2>1. walk' = [walk EXCEPT !.step = "done", !.ptr = h + 1] /\ h + 1 \in Nat
    BY <1>1 DEF Took
  <2> QED BY <2>1, <1>1
<1>3. live' = live \cup {[ptr |-> h + 1, size |-> n - 1]} /\ IsFiniteSet(live)
  BY DEF Took, HeapInv, HeapTypes
<1>4. IsFiniteSet(live') /\ Cardinality(live') \in Nat /\ Cardinality(live) \in Nat
      /\ Cardinality(live') <= Cardinality(live) + 1
  BY <1>3, FS_AddElement, FS_CardinalityType
<1>5. HeapTypes'
  <2>1. h + 1 \in Nat /\ n - 1 \in Nat
    BY <1>1
  <2>2. live' \subseteq [ptr : Nat, size : Nat]
    BY <1>3, <2>1 DEF HeapInv, HeapTypes, HeapTypeOK
  <2>3. pages_end' \in HeapSizes
    BY DEF Took, HeapInv, HeapTypes, HeapTypeOK
  <2> QED BY <1>2, <1>4, <2>2, <2>3 DEF Took, MetaTypes, HeapInv, HeapTypes, HeapTypeOK
<1>6. LiveIs'
  <2> DEFINE Old == {g \in DOMAIN meta : meta[g].allocated}
             New == {g \in DOMAIN meta' : meta'[g].allocated}
  <2>1. New = Old \cup {h}
    BY <1>1, TookKeeps DEF Took
  <2>2. \A g \in Old : ObjectOf(g)' = ObjectOf(g)
    BY TookKeeps DEF ObjectOf
  <2>3. \A g \in New : g = h => ObjectOf(g)' = [ptr |-> h + 1, size |-> n - 1]
    BY DEF ObjectOf, META_DATA_SIZE, Took
  <2>4. live = {ObjectOf(g) : g \in Old}
    BY DEF HeapInv, LiveIs
  <2>5. live' = {ObjectOf(g)' : g \in New}
    <3> DEFINE new == [ptr |-> h + 1, size |-> n - 1]
    <3> HIDE DEF Old, New, new
    <3>1. live' = live \cup {new} /\ \A g \in New : g = h => ObjectOf(g)' = new
      BY <1>3, <2>3 DEF new
    <3>2. ASSUME NEW x \in live' PROVE \E g \in New : x = ObjectOf(g)'
      <4>1. CASE x = new
        BY <4>1, <3>1, <2>1
      <4>2. CASE x \in live
        <5>1. PICK g \in Old : x = ObjectOf(g)
          BY <4>2, <2>4
        <5>2. g \in New /\ x = ObjectOf(g)'
          BY <5>1, <2>1, <2>2
        <5> QED BY <5>2
      <4> QED BY <4>1, <4>2, <3>1
    <3>3. ASSUME NEW g \in New PROVE ObjectOf(g)' \in live'
      <4>1. CASE g = h
        BY <4>1, <3>1
      <4>2. CASE g \in Old
        <5>1. ObjectOf(g) \in live
          BY <4>2, <2>4
        <5> QED BY <5>1, <4>2, <3>1, <2>2
      <4> QED BY <4>1, <4>2, <2>1
    <3> QED BY <3>2, <3>3
  <2> QED BY <2>5 DEF LiveIs
<1>7. \A g \in DOMAIN meta' : ~IsHole(g)'
  <2> SUFFICES ASSUME NEW g \in DOMAIN meta', ~meta'[g].allocated, ~IsLast(g)' PROVE FALSE
    BY DEF IsHole
  <2>1. g \in DOMAIN meta /\ g # h
    BY DEF Took
  <2>2. meta'[g] = meta[g] /\ (IsLast(g)' <=> IsLast(g))
    BY <2>1 DEF Took, IsLast, NextOf
  <2>3. IsHole(g)
    BY <2>1, <2>2 DEF IsHole
  <2> QED BY <2>1, <2>2, <2>3, FirstFree
<1>8. Holes'
  BY <1>7 DEF Holes
<1>9. Walking'
  BY <1>1, <1>2 DEF Walking, Took
<1>10. SupplyBlock'
  <2>1. UNCHANGED <<objects, pc, pid, priority_ok>>
    BY DEF Took
  <2>2. pc = "supply_block" => Holds(walk.ptr - META_DATA_SIZE)'
    <3>1. walk'.ptr - META_DATA_SIZE = h
      BY <1>1, <1>2 DEF META_DATA_SIZE
    <3>2. pc = "supply_block" => n = HoleSize
      BY <1>1 DEF HeapInv, Walking
    <3>3. h \in DOMAIN meta' /\ meta'[h].allocated /\ meta'[h].block_size = n
      BY <1>1 DEF Took
    <3> QED BY <3>1, <3>2, <3>3 DEF Holds, HoleSize, META_DATA_SIZE, SizeOf
  <2>3. ASSUME pc \in {"thread", "tcb"} \cup Spaces \cup Supplied
        PROVE  /\ <<pid, "supply_block">> \in DOMAIN objects /\ Holds(SB)
               /\ SB' = SB /\ Holds(SB)'
    <3>1. <<pid, "supply_block">> \in DOMAIN objects /\ Holds(SB)
      BY <2>3 DEF HeapInv, SupplyBlock
    <3>2. SB' = SB
      BY <2>1 DEF SB, META_DATA_SIZE
    <3>3. SB \in DOMAIN meta /\ meta[SB].allocated
      BY <3>1 DEF Holds
    <3>4. SB \in DOMAIN meta' /\ meta'[SB] = meta[SB]
      BY <3>3, TookKeeps
    <3> QED BY <3>1, <3>2, <3>4 DEF Holds, HoleSize, META_DATA_SIZE, SizeOf
  <2>4. ASSUME pc \in {"thread", "tcb"} \cup Spaces \cup Supplied, Followed(SB)
        PROVE  Followed(SB)'
    <3>1. SB' = SB /\ NextOf(SB) \in DOMAIN meta /\ meta[NextOf(SB)].allocated
      BY <2>3, <2>4 DEF Followed
    <3>2. NextOf(SB)' = NextOf(SB)
      <4>1. SB \in DOMAIN meta /\ meta[SB].allocated
        BY <2>3, <2>4 DEF Holds
      <4>2. meta'[SB] = meta[SB]
        BY <4>1, TookKeeps
      <4> QED BY <3>1, <4>2 DEF NextOf
    <3>3. NextOf(SB) \in DOMAIN meta' /\ meta'[NextOf(SB)] = meta[NextOf(SB)]
      BY <3>1, TookKeeps
    <3> QED BY <3>1, <3>2, <3>3 DEF Followed
  <2>5. ASSUME pc = "tcb" PROVE Followed(SB)'
    <3>1. SB \in DOMAIN meta /\ meta[SB].allocated /\ SB' = SB
      BY <2>3, <2>5 DEF Holds
    <3>2. ~IsHole(h)
      BY <2>5, FirstFree
    <3>3. IsLast(h)
      BY <1>1, <3>2 DEF IsHole
    <3>4. SB # h
      BY <1>1, <3>1
    <3>5. NextOf(SB) \in DOMAIN meta
      <4>1. ~IsLast(SB)
        BY <1>1, <3>1, <3>3, <3>4, LastIsUnique
      <4> QED BY <3>1, <4>1 DEF HeapInv, Tiled, IsLast
    <3>6. NextOf(SB)' = NextOf(SB)
      <4>1. meta'[SB] = meta[SB]
        BY <3>1, TookKeeps
      <4> QED BY <3>1, <4>1 DEF NextOf
    <3>7. NextOf(SB) \in DOMAIN meta' /\ meta'[NextOf(SB)].allocated
      <4>1. CASE meta[NextOf(SB)].allocated
        BY <4>1, <3>5, TookKeeps
      <4>2. CASE ~meta[NextOf(SB)].allocated
        <5>1. NextOf(SB) = h
          BY <4>2, <3>2, <3>5, FirstFree
        <5> QED BY <5>1, <1>1 DEF Took
      <4> QED BY <4>1, <4>2
    <3> QED BY <3>6, <3>7 DEF Followed
  <2>6. ASSUME pc \in Spaces \cup Supplied /\ priority_ok PROVE Followed(SB)'
    BY <2>4, <2>6 DEF HeapInv, SupplyBlock
  <2> QED BY <2>1, <2>2, <2>3, <2>5, <2>6 DEF SupplyBlock
<1>11. Booting'
  <2>1. pc = "boot" => Cardinality(live) < Len(BootObjects)
    BY <1>1 DEF HeapInv, Booting
  <2>2. Len(BootObjects) \in Nat
    BY ProcessAssumption
  <2> QED BY <1>2, <1>4, <2>1, <2>2 DEF Booting, Took
<1>12. GivesUpOnlyWhenFull'
  BY <1>2 DEF GivesUpOnlyWhenFull
<1> QED BY <1>5, <1>6, <1>8, <1>9, <1>10, <1>11, <1>12 DEF HeapInv

\* Giving a whole block out.
LEMMA ExactInv ==
  ASSUME FrameInv, HeapInv, HeapStep, take_exact
  PROVE  HeapInv'
<1> DEFINE h == walk.header
<1>1. /\ walk.step = "walk" /\ h \in DOMAIN meta
      /\ ~meta[h].allocated /\ meta[h].block_size = walk.size
      /\ DOMAIN meta' = DOMAIN meta /\ pages_end' = pages_end
      /\ meta'[h] = [meta[h] EXCEPT !.allocated = TRUE]
      /\ \A g \in DOMAIN meta \ {h} : meta'[g] = meta[g]
      /\ live' = live \cup {[ptr |-> h + 1, size |-> walk.size - 1]}
      /\ walk' = [walk EXCEPT !.step = "done", !.ptr = h + 1]
  BY ExactStep
<1>2. \A g \in DOMAIN meta :
        /\ g \in Nat
        /\ meta[g] \in [block_size : Nat, allocated : BOOLEAN, prev_block_data : Nat]
  BY DEF HeapInv, HeapTypes, HeapTypeOK
<1>3. /\ meta'[h].allocated /\ meta'[h].block_size = meta[h].block_size
      /\ meta'[h].prev_block_data = meta[h].prev_block_data
      /\ meta'[h] \in [block_size : Nat, allocated : BOOLEAN, prev_block_data : Nat]
  BY <1>1, <1>2
<1>4. \A g \in DOMAIN meta : /\ meta'[g].block_size = meta[g].block_size
                             /\ meta'[g].prev_block_data = meta[g].prev_block_data
  BY <1>1, <1>3
<1>5. Tiled'
  BY <1>1, <1>4, SameShape DEF HeapInv
<1>6. MetaTypes(meta')
  BY <1>1, <1>2, <1>3 DEF MetaTypes
<1>7. UNCHANGED <<objects, pc, pid, priority_ok>>
  BY DEF HeapStep, args
<1>8. Took
  BY <1>1, <1>3, <1>6, <1>7 DEF Took
<1> QED BY <1>5, <1>8, TookInv

\* Splitting the last block.
LEMMA SplitInv ==
  ASSUME FrameInv, HeapInv, HeapStep, take_split
  PROVE  HeapInv'
<1>0. PICK h, n, r, b : /\ h = walk.header /\ n = walk.size /\ r = h + n
                        /\ b = meta[h].block_size
  OBVIOUS
<1>1. /\ walk.step = "walk" /\ h \in DOMAIN meta
      /\ ~meta[h].allocated /\ n < b /\ IsLast(h) /\ r \notin DOMAIN meta
      /\ DOMAIN meta' = DOMAIN meta \cup {r} /\ pages_end' = pages_end
      /\ meta'[h] = [meta[h] EXCEPT !.allocated = TRUE, !.block_size = n]
      /\ meta'[r] = [block_size |-> b - n, allocated |-> FALSE, prev_block_data |-> n]
      /\ \A g \in DOMAIN meta \ {h} : meta'[g] = meta[g]
      /\ live' = live \cup {[ptr |-> h + 1, size |-> n - 1]}
      /\ walk' = [walk EXCEPT !.step = "done", !.ptr = h + 1]
  BY <1>0, SplitStep
<1>2. \A g \in DOMAIN meta :
        /\ g \in Nat
        /\ meta[g] \in [block_size : Nat, allocated : BOOLEAN, prev_block_data : Nat]
  BY DEF HeapInv, HeapTypes, HeapTypeOK
<1>3. /\ h \in Nat /\ n \in Nat /\ n >= 2 /\ b \in Nat /\ pages_end \in Nat
      /\ h + b = pages_end /\ r \in Nat /\ b - n \in Nat /\ b - n > 0
      /\ r > h /\ r < pages_end /\ r + (b - n) = pages_end /\ r - n = h
  <2>1. h \in Nat /\ n \in Nat /\ n >= 2 /\ b \in Nat /\ pages_end \in Nat
    BY <1>0, <1>1, HeapFacts DEF HeapInv, Walking
  <2>2. h + b = pages_end
    BY <1>0, <1>1 DEF IsLast, NextOf
  <2> QED BY <1>0, <1>1, <2>1, <2>2
<1>4. /\ meta'[h].allocated /\ meta'[h].block_size = n
      /\ meta'[h].prev_block_data = meta[h].prev_block_data
      /\ meta'[h] \in [block_size : Nat, allocated : BOOLEAN, prev_block_data : Nat]
      /\ meta'[r].block_size = b - n /\ meta'[r].prev_block_data = n /\ ~meta'[r].allocated
      /\ meta'[r] \in [block_size : Nat, allocated : BOOLEAN, prev_block_data : Nat]
  <2>1. /\ meta[h] \in [block_size : Nat, allocated : BOOLEAN, prev_block_data : Nat]
        /\ meta'[h] = [meta[h] EXCEPT !.allocated = TRUE, !.block_size = n] /\ n \in Nat
    BY <1>1, <1>2, <1>3
  <2>2. /\ meta'[h].allocated /\ meta'[h].block_size = n
        /\ meta'[h].prev_block_data = meta[h].prev_block_data
        /\ meta'[h] \in [block_size : Nat, allocated : BOOLEAN, prev_block_data : Nat]
    BY <2>1
  <2>3. /\ meta'[r] = [block_size |-> b - n, allocated |-> FALSE, prev_block_data |-> n]
        /\ b - n \in Nat /\ n \in Nat
    BY <1>1, <1>3
  <2>4. /\ meta'[r].block_size = b - n /\ meta'[r].prev_block_data = n /\ ~meta'[r].allocated
        /\ meta'[r] \in [block_size : Nat, allocated : BOOLEAN, prev_block_data : Nat]
    BY <2>3
  <2> QED BY <2>2, <2>4
<1>5. /\ NextOf(h)' = r /\ PrevOf(h)' = PrevOf(h) /\ NextOf(r)' = pages_end /\ PrevOf(r)' = h
      /\ \A g \in DOMAIN meta \ {h} : NextOf(g)' = NextOf(g)
      /\ \A g \in DOMAIN meta : PrevOf(g)' = PrevOf(g)
  BY <1>0, <1>1, <1>3, <1>4 DEF NextOf, PrevOf
<1>6. \A g \in DOMAIN meta \ {h} : g < h /\ h >= NextOf(g) /\ NextOf(g) \in DOMAIN meta /\ NextOf(g) \in Nat
  <2> TAKE g \in DOMAIN meta \ {h}
  <2>1. g <= h /\ ~IsLast(g)
    BY <1>1, LastIsUnique
  <2>2. g \in Nat /\ g < h
    BY <1>2, <1>3, <2>1
  <2>3. h >= NextOf(g) /\ NextOf(g) \in DOMAIN meta
    BY <1>1, <2>1, <2>2 DEF HeapInv, Tiled, IsLast
  <2> QED BY <2>2, <2>3, <1>2
<1>7. Tiled'
  <2>1. heapStart \in DOMAIN meta'
    BY <1>1 DEF HeapInv, Tiled
  <2>2. ASSUME NEW g \in DOMAIN meta'
        PROVE  /\ heapStart <= g /\ g < pages_end /\ 0 < meta'[g].block_size
               /\ NextOf(g)' \in DOMAIN meta' \cup {pages_end}
               /\ NextOf(g)' \in DOMAIN meta' => PrevOf(NextOf(g))' = g
               /\ PrevOf(g)' \in DOMAIN meta'
               /\ PrevOf(g)' = g \/ NextOf(PrevOf(g))' = g
               /\ \A x \in DOMAIN meta' : x > g => x >= NextOf(g)'
    <3>1. CASE g = r
      <4>1. heapStart <= g /\ g < pages_end /\ 0 < meta'[g].block_size
        BY <3>1, <1>3, <1>4 DEF heapStart
      <4>2. NextOf(g)' = pages_end /\ pages_end \notin DOMAIN meta'
        <5>1. NextOf(g)' = pages_end
          BY <3>1, <1>0, <1>3, <1>4 DEF NextOf
        <5>2. pages_end \notin DOMAIN meta
          BY <1>2, <1>3 DEF HeapInv, Tiled
        <5> QED BY <5>1, <5>2, <1>1, <1>3
      <4>3. PrevOf(g)' = h /\ h \in DOMAIN meta'
        BY <3>1, <1>1, <1>3, <1>4 DEF PrevOf
      <4>4. NextOf(PrevOf(g))' = g
        <5>1. NextOf(PrevOf(g))' = PrevOf(g)' + meta'[PrevOf(g)'].block_size
          BY DEF NextOf
        <5> QED BY <5>1, <4>3, <3>1, <1>0, <1>4
      <4>5. \A x \in DOMAIN meta' : ~(x > g)
        BY <3>1, <1>1, <1>2, <1>3, <1>6
      <4> QED BY <4>1, <4>2, <4>3, <4>4, <4>5
    <3>2. CASE g = h
      <4>1. heapStart <= g /\ g < pages_end /\ 0 < meta'[g].block_size
        BY <3>2, <1>1, <1>3, <1>4 DEF HeapInv, Tiled
      <4>2. NextOf(g)' = r /\ r \in DOMAIN meta'
        BY <3>2, <1>0, <1>1, <1>4 DEF NextOf
      <4>3. PrevOf(NextOf(g))' = g
        <5>1. PrevOf(NextOf(g))' = NextOf(g)' - meta'[NextOf(g)'].prev_block_data
          BY DEF PrevOf
        <5> QED BY <5>1, <4>2, <3>2, <1>3, <1>4
      <4>4. PrevOf(g)' = PrevOf(g) /\ PrevOf(g) \in DOMAIN meta
        BY <3>2, <1>1, <1>5 DEF HeapInv, Tiled
      <4>5. PrevOf(g)' = g \/ NextOf(PrevOf(g))' = g
        <5>1. NextOf(PrevOf(g))' = PrevOf(g)' + meta'[PrevOf(g)'].block_size
          BY DEF NextOf
        <5>2. PrevOf(g) = g \/ NextOf(PrevOf(g)) = g
          BY <3>2, <1>1 DEF HeapInv, Tiled
        <5>3. CASE PrevOf(g) # g
          <6>1. meta'[PrevOf(g)] = meta[PrevOf(g)]
            BY <5>3, <4>4, <3>2, <1>1
          <6> QED BY <5>1, <5>2, <5>3, <6>1, <4>4 DEF NextOf
        <5> QED BY <5>3, <4>4
      <4>6. \A x \in DOMAIN meta' : x > g => x >= r
        <5> TAKE x \in DOMAIN meta'
        <5>1. x = r \/ x = h \/ x \in DOMAIN meta \ {h}
          BY <1>1
        <5>2. CASE x \in DOMAIN meta \ {h}
          <6>1. x < h /\ x \in Nat
            BY <5>2, <1>2, <1>6
          <6> QED BY <6>1, <3>2, <1>3
        <5> QED BY <5>1, <5>2, <3>2, <1>3
      <4> QED BY <4>1, <4>2, <4>3, <4>4, <4>5, <4>6, <1>1
    <3>3. CASE g \in DOMAIN meta \ {h}
      <4>1. heapStart <= g /\ g < pages_end /\ 0 < meta'[g].block_size
        BY <3>3, <1>1 DEF HeapInv, Tiled
      <4>2. NextOf(g)' = NextOf(g) /\ NextOf(g) \in DOMAIN meta
        BY <3>3, <1>5, <1>6
      <4>3. PrevOf(NextOf(g))' = g
        <5>1. PrevOf(NextOf(g))' = NextOf(g)' - meta'[NextOf(g)'].prev_block_data
          BY DEF PrevOf
        <5>2. meta'[NextOf(g)].prev_block_data = meta[NextOf(g)].prev_block_data
          BY <4>2, <1>1, <1>4
        <5>3. PrevOf(NextOf(g)) = g
          BY <3>3, <4>2 DEF HeapInv, Tiled
        <5> QED BY <5>1, <5>2, <5>3, <4>2 DEF PrevOf
      <4>4. PrevOf(g)' = PrevOf(g) /\ PrevOf(g) \in DOMAIN meta
        BY <3>3, <1>5 DEF HeapInv, Tiled
      <4>5. PrevOf(g)' = g \/ NextOf(PrevOf(g))' = g
        <5>1. NextOf(PrevOf(g))' = PrevOf(g)' + meta'[PrevOf(g)'].block_size
          BY DEF NextOf
        <5>2. PrevOf(g) = g \/ NextOf(PrevOf(g)) = g
          BY <3>3 DEF HeapInv, Tiled
        <5>3. CASE PrevOf(g) # g
          <6>1. PrevOf(g) # h
            <7>1. NextOf(h) # g
              BY <1>1, <3>3, <4>1, <1>2, <1>3 DEF IsLast
            <7> QED BY <7>1, <5>2, <5>3
          <6>2. meta'[PrevOf(g)] = meta[PrevOf(g)]
            BY <6>1, <4>4, <1>1
          <6> QED BY <5>1, <5>2, <5>3, <6>2, <4>4 DEF NextOf
        <5> QED BY <5>3, <4>4
      <4>6. \A x \in DOMAIN meta' : x > g => x >= NextOf(g)
        <5>1. \A x \in DOMAIN meta : x > g => x >= NextOf(g)
          BY <3>3 DEF HeapInv, Tiled
        <5>2. r >= NextOf(g)
          BY <3>3, <1>3, <1>6
        <5> QED BY <5>1, <5>2, <1>1
      <4> QED BY <4>1, <4>2, <4>3, <4>4, <4>5, <4>6, <1>1
    <3> QED BY <3>1, <3>2, <3>3, <1>1
  <2> QED BY <2>1, <2>2, <1>1 DEF Tiled, heapStart
<1>8. MetaTypes(meta')
  <2> SUFFICES ASSUME NEW g \in DOMAIN meta'
               PROVE  /\ g \in Nat
                      /\ meta'[g] \in [block_size : Nat, allocated : BOOLEAN,
                                       prev_block_data : Nat]
    BY DEF MetaTypes
  <2>1. CASE g = r
    BY <2>1, <1>3, <1>4
  <2>2. CASE g = h
    BY <2>2, <1>3, <1>4
  <2>3. CASE g \in DOMAIN meta \ {h}
    BY <2>3, <1>1, <1>2
  <2> QED BY <2>1, <2>2, <2>3, <1>1
<1>9. UNCHANGED <<objects, pc, pid, priority_ok>>
  BY DEF HeapStep, args
<1>10. \A g \in DOMAIN meta' \ DOMAIN meta : ~meta'[g].allocated /\ IsLast(g)'
  BY <1>1, <1>3, <1>4 DEF IsLast, NextOf
<1>11. Took
  BY <1>0, <1>1, <1>4, <1>8, <1>9, <1>10 DEF Took
<1> QED BY <1>7, <1>11, TookInv

\* A step that leaves the blocks alone leaves what is said of them.
LEMMA StillShape ==
  ASSUME HeapInv, UNCHANGED <<pages_end, meta, live>>
  PROVE  /\ Tiled' /\ LiveIs'
         /\ \A h : /\ IsHole(h)' <=> IsHole(h)
                   /\ Holds(h)' <=> Holds(h)
                   /\ Followed(h)' <=> Followed(h)
<1>1. Tiled'
  BY SameShape DEF HeapInv
<1>2. LiveIs'
  BY DEF HeapInv, LiveIs, ObjectOf
<1>3. \A h : /\ IsHole(h)' <=> IsHole(h)
             /\ Holds(h)' <=> Holds(h)
             /\ Followed(h)' <=> Followed(h)
  BY DEF IsHole, IsLast, NextOf, Holds, HoleSize, Followed
<1> QED BY <1>1, <1>2, <1>3

\* Passing an allocated block.
LEMMA AdvanceInv ==
  ASSUME FrameInv, HeapInv, HeapStep, advance
  PROVE  HeapInv'
<1>0. PICK h, next : h = walk.header /\ next = h + meta[h].block_size
  OBVIOUS
<1>1. /\ walk.step = "walk" /\ h \in DOMAIN meta /\ meta[h].allocated
      /\ walk' = [walk EXCEPT !.header = next]
      /\ UNCHANGED <<pages_end, meta, live>> /\ UNCHANGED <<objects, pc, pid, priority_ok>>
  BY <1>0 DEF advance, InHeap, Readable, Block, HeapStep, args
<1>2. next = NextOf(h) /\ next \in Nat /\ h \in Nat
  BY <1>0, <1>1, HeapFacts DEF NextOf
<1>3. /\ walk'.step = "walk" /\ walk'.header = next /\ walk'.size = walk.size
      /\ walk' \in [step : {"idle", "walk", "done", "fault"},
                    header : Nat, size : Nat, ptr : Nat]
  BY <1>1, <1>2 DEF HeapInv, HeapTypes, HeapTypeOK
<1>4. HeapTypes'
  BY <1>1, <1>3 DEF HeapInv, HeapTypes, HeapTypeOK
<1>5. Holes'
  BY <1>1, <1>3, StillShape DEF HeapInv, Holes, HoleStage, HoleSize
<1>6. Walking'
  <2>1. next \in DOMAIN meta \cup {pages_end}
    BY <1>1, <1>2 DEF HeapInv, Tiled
  <2>2. ASSUME NEW g \in DOMAIN meta, g < next PROVE meta[g].allocated
    <3>1. g \in Nat /\ (g > h => g >= next)
      BY <1>1, <1>2, HeapFacts DEF HeapInv, Tiled
    <3>2. g < h \/ g = h
      BY <3>1, <2>2, <1>2
    <3> QED BY <3>2, <1>0, <1>1 DEF HeapInv, Walking
  <2> QED BY <1>1, <1>3, <2>1, <2>2 DEF HeapInv, Walking, HoleSize
<1>7. SupplyBlock'
  <2>1. SB' = SB
    BY <1>1 DEF SB
  <2> QED BY <1>1, <1>3, <2>1, StillShape DEF HeapInv, SupplyBlock
<1>8. Booting' /\ GivesUpOnlyWhenFull'
  BY <1>1, <1>3 DEF HeapInv, Booting, GivesUpOnlyWhenFull
<1> QED BY <1>4, <1>5, <1>6, <1>7, <1>8, <1>1, StillShape DEF HeapInv

\* The walk gives up at a block that is too small only if it is the last, or
\* behind the last: in both cases every other block is allocated.
LEMMA NothingLeft ==
  ASSUME HeapInv, grow \/ walk_off, NEW g \in DOMAIN meta, ~meta[g].allocated
  PROVE  meta[g].block_size < walk.size
<1>0. PICK h : h = walk.header
  OBVIOUS
<1>1. walk.step = "walk" /\ h \in Nat /\ pages_end \in Nat /\ g \in Nat
  BY <1>0, HeapFacts DEF grow, Readable, walk_off
<1>2. h \in DOMAIN meta \cup {pages_end} /\ ~(g < h) /\ g < pages_end
  BY <1>0, <1>1 DEF HeapInv, Walking, Tiled
<1>3. CASE h \in DOMAIN meta
  <2>1. NextOf(h) <= pages_end
    <3>1. /\ NextOf(h) \in DOMAIN meta \cup {pages_end}
          /\ \A x \in DOMAIN meta : x < pages_end /\ x \in Nat
      BY <1>3, HeapFacts DEF HeapInv, Tiled
    <3> QED BY <3>1, <1>1
  <2>2. h + meta[h].block_size \in Nat
    BY <1>1, <1>3, HeapFacts
  <2>3. InHeap
    BY <1>0, <1>1, <1>3, <2>1, <2>2 DEF InHeap, Readable, Block, walk_end, heapStart, NextOf
  <2>4. ~meta[h].allocated /\ meta[h].block_size < walk.size
    BY <1>0, <1>3, <2>3 DEF grow, walk_off, Block
  <2>5. ~IsHole(h)
    <3>1. IsHole(h) => pc = "supply_block" /\ meta[h].block_size = HoleSize
      BY <1>1, <1>3 DEF HeapInv, Holes, HoleStage, Walking, SizeOf
    <3>2. pc = "supply_block" => walk.size = HoleSize
      BY <1>1 DEF HeapInv, Walking
    <3> QED BY <2>4, <3>1, <3>2 DEF HoleSize, SizeOf, META_DATA_SIZE
  <2>6. IsLast(h)
    BY <1>3, <2>4, <2>5 DEF IsHole
  <2>7. g <= h
    BY <1>3, <2>6, LastIsUnique
  <2>8. g = h
    BY <1>1, <1>2, <2>7
  <2> QED BY <2>4, <2>8
<1> QED BY <1>1, <1>2, <1>3

\* Giving up.
LEMMA FaultInv ==
  ASSUME FrameInv, HeapInv, HeapStep, grow \/ walk_off
  PROVE  HeapInv'
<1>1. /\ walk.step = "walk" /\ walk' = [walk EXCEPT !.step = "fault"]
      /\ UNCHANGED <<pages_end, meta, live>> /\ UNCHANGED <<objects, pc, pid, priority_ok>>
  BY DEF grow, walk_off, Readable, HeapStep, args
<1>2. /\ walk'.step = "fault" /\ walk'.size = walk.size
      /\ walk' \in [step : {"idle", "walk", "done", "fault"},
                    header : Nat, size : Nat, ptr : Nat]
  BY <1>1 DEF HeapInv, HeapTypes, HeapTypeOK
<1>3. HeapTypes'
  BY <1>1, <1>2 DEF HeapInv, HeapTypes, HeapTypeOK
<1>4. Holes'
  BY <1>1, <1>2, StillShape DEF HeapInv, Holes, HoleStage, HoleSize
<1>5. Walking'
  BY <1>2 DEF Walking
<1>6. SupplyBlock'
  <2>1. SB' = SB
    BY <1>1 DEF SB
  <2> QED BY <1>1, <1>2, <2>1, StillShape DEF HeapInv, SupplyBlock
<1>7. Booting'
  BY <1>1, <1>2 DEF HeapInv, Booting
<1>8. GivesUpOnlyWhenFull'
  BY <1>1, <1>2, NothingLeft DEF GivesUpOnlyWhenFull
<1> QED BY <1>3, <1>4, <1>5, <1>6, <1>7, <1>8, <1>1, StillShape DEF HeapInv

-----------------------------------------------------------------------------
(* The callers keep the invariant *)

\* The calls of Imalloc: by kmain, and the four of a creation.
AsksFor(size) ==
  /\ Imalloc(size) /\ UNCHANGED objects
  /\ \/ pc = "boot" /\ pc' = "boot"
     \/ pc = "kmain" /\ pc' = "supply_block" /\ size = SizeOf.supply_block
     \/ /\ UNCHANGED <<pid, priority_ok>>
        /\ \/ pc = "thread" /\ pc' = "tcb"
           \/ pc = "objects" /\ pc' = "pcb"
           \/ pc = "objects2" /\ pc' = "descriptor"

\* A call of Imalloc.
LEMMA AsksInv ==
  ASSUME FrameInv, HeapInv, NEW size \in Nat \ {0}, AsksFor(size)
  PROVE  HeapInv'
<1>1. /\ walk.step = "idle" /\ UNCHANGED <<pages_end, meta, live>> /\ objects' = objects
      /\ walk' = [step |-> "walk", header |-> 1, size |-> size + 1, ptr |-> 0]
  BY DEF AsksFor, Imalloc, heapStart, META_DATA_SIZE
<1>2. /\ walk'.step = "walk" /\ walk'.header = 1 /\ walk'.size = size + 1
      /\ walk' \in [step : {"idle", "walk", "done", "fault"},
                    header : Nat, size : Nat, ptr : Nat]
  BY <1>1
<1>3. HeapTypes'
  BY <1>1, <1>2 DEF HeapInv, HeapTypes, HeapTypeOK
<1>4. Holes'
  <2>1. pc = "kmain" => HoleStage'
    BY <1>2 DEF HoleStage, AsksFor
  <2>2. pc # "kmain" => \A h \in DOMAIN meta : ~IsHole(h)
    BY DEF HeapInv, Holes, HoleStage, AsksFor
  <2> QED BY <1>1, <2>1, <2>2, StillShape DEF HeapInv, Holes, HoleSize
<1>5. Walking'
  <2>1. 1 \in DOMAIN meta /\ \A g \in DOMAIN meta : ~(g < 1)
    <3>1. 1 \in DOMAIN meta /\ \A g \in DOMAIN meta : 1 <= g /\ g \in Nat
      BY HeapFacts DEF HeapInv, Tiled, heapStart
    <3> QED BY <3>1
  <2>2. pc' \in {"boot"} \cup DOMAIN SizeOf
    BY DEF AsksFor, SizeOf
  <2>3. pc' = "supply_block" => size + 1 = HoleSize
    BY DEF AsksFor, HoleSize, META_DATA_SIZE
  <2> QED BY <1>1, <1>2, <2>1, <2>2, <2>3 DEF Walking, HoleSize
<1>6. SupplyBlock'
  <2>1. ASSUME pc' \in {"thread", "tcb"} \cup Spaces \cup Supplied
        PROVE  /\ SB' = SB /\ <<pid, "supply_block">>' \in DOMAIN objects' /\ Holds(SB)
               /\ priority_ok' = priority_ok
    <3>1. pc \in {"thread", "tcb"} \cup Spaces \cup Supplied /\ UNCHANGED <<pid, priority_ok>>
      BY <2>1 DEF AsksFor, Spaces, Supplied
    <3> QED BY <1>1, <3>1 DEF HeapInv, SupplyBlock, SB
  <2>2. ASSUME pc' \in Spaces \cup Supplied, priority_ok'
        PROVE  Followed(SB)
    <3>1. pc \in Spaces \cup Supplied /\ UNCHANGED <<pid, priority_ok>>
      BY <2>2 DEF AsksFor, Spaces, Supplied
    <3> QED BY <2>2, <3>1 DEF HeapInv, SupplyBlock
  <2> QED BY <1>1, <1>2, <2>1, <2>2, StillShape DEF SupplyBlock
<1>7. Booting'
  BY <1>1, <1>2 DEF HeapInv, Booting, AsksFor
<1>8. GivesUpOnlyWhenFull'
  BY <1>2 DEF GivesUpOnlyWhenFull
<1> QED BY <1>3, <1>4, <1>5, <1>6, <1>7, <1>8, <1>1, StillShape DEF HeapInv

\* The steps that leave the blocks alone and wait for no walk: the caller has
\* received its pointer, or does something else.
SupplyAt == objects'[<<pid, "supply_block">>] - META_DATA_SIZE
Moves ==
  /\ UNCHANGED <<pages_end, meta, live, pid, priority_ok>>
  /\ ~HoleStage /\ walk'.step \notin {"walk", "done"}
  /\ walk' = walk \/ (walk.step = "done" /\ walk' = [walk EXCEPT !.step = "idle"])
  /\ DOMAIN objects' \subseteq Processes \X DOMAIN SizeOf
  /\ \A o \in DOMAIN objects' : objects'[o] \in Nat
  /\ pc' = "boot" => Cardinality(live) < Len(BootObjects)
  /\ pc' \in {"thread", "tcb"} \cup Spaces \cup Supplied =>
       <<pid, "supply_block">> \in DOMAIN objects' /\ Holds(SupplyAt)
  /\ pc' \in Spaces \cup Supplied /\ priority_ok => Followed(SupplyAt)

\* Such a step keeps the invariant.
LEMMA MovesInv ==
  ASSUME HeapInv, Moves
  PROVE  HeapInv'
<1>1. UNCHANGED <<pages_end, meta, live>> /\ UNCHANGED <<pid, priority_ok>>
  BY DEF Moves
<1>2. /\ walk'.step \notin {"walk", "done"}
      /\ walk'.step = "fault" => walk' = walk
      /\ walk' \in [step : {"idle", "walk", "done", "fault"},
                    header : Nat, size : Nat, ptr : Nat]
  <2>1. walk \in [step : {"idle", "walk", "done", "fault"},
                  header : Nat, size : Nat, ptr : Nat]
    BY DEF HeapInv, HeapTypes, HeapTypeOK
  <2> QED BY <2>1 DEF Moves
<1>3. HeapTypes'
  BY <1>1, <1>2 DEF Moves, HeapInv, HeapTypes, HeapTypeOK
<1>4. Holes'
  <2>1. \A h \in DOMAIN meta : ~IsHole(h)
    BY DEF Moves, HeapInv, Holes
  <2> QED BY <1>1, <2>1, StillShape DEF Holes
<1>5. Walking'
  BY <1>2 DEF Walking
<1>6. SupplyBlock'
  <2>1. SB' = SupplyAt
    BY <1>1 DEF SB, SupplyAt
  <2>2. pc' \in {"thread", "tcb"} \cup Spaces \cup Supplied =>
          <<pid, "supply_block">>' \in DOMAIN objects' /\ Holds(SB)'
    BY <1>1, <2>1, StillShape DEF Moves
  <2>3. pc' \in Spaces \cup Supplied /\ priority_ok' => Followed(SB)'
    BY <1>1, <2>1, StillShape DEF Moves
  <2> QED BY <1>2, <2>2, <2>3 DEF SupplyBlock
<1>7. Booting'
  <2>1. Cardinality(live) < Len(BootObjects) => Cardinality(live) <= Len(BootObjects)
    <3>1. Cardinality(live) \in Nat /\ Len(BootObjects) \in Nat
      BY FS_CardinalityType, ProcessAssumption DEF HeapInv, HeapTypes
    <3> QED BY <3>1
  <2> QED BY <1>1, <2>1 DEF Moves, Booting
<1>8. GivesUpOnlyWhenFull'
  BY <1>1, <1>2 DEF HeapInv, GivesUpOnlyWhenFull
<1> QED BY <1>3, <1>4, <1>5, <1>6, <1>7, <1>8, <1>1, StillShape DEF HeapInv

\* What a caller records when it has received its pointer.
LEMMA GetsStep ==
  ASSUME FrameInv, HeapInv, NEW kind \in DOMAIN SizeOf, Gets(kind)
  PROVE  /\ pc = kind /\ walk.step = "done" /\ walk'.step = "idle"
         /\ walk' = [walk EXCEPT !.step = "idle"]
         /\ UNCHANGED <<pages_end, meta, live>>
         /\ DOMAIN objects' = DOMAIN objects \cup {<<pid, kind>>}
         /\ objects'[<<pid, kind>>] = walk.ptr
         /\ \A o \in DOMAIN objects \ {<<pid, kind>>} : objects'[o] = objects[o]
         /\ DOMAIN objects' \subseteq Processes \X DOMAIN SizeOf
         /\ \A o \in DOMAIN objects' : objects'[o] \in Nat
<1>1. /\ pc = kind /\ walk.step = "done" /\ walk' = [walk EXCEPT !.step = "idle"]
      /\ UNCHANGED <<pages_end, meta, live>>
      /\ objects' = Updated(objects, At(<<pid, kind>>, walk.ptr))
  BY DEF Gets
<1>2. walk'.step = "idle"
  BY <1>1, HeapFacts DEF HeapInv, HeapTypes, HeapTypeOK
<1>3. /\ DOMAIN objects' = DOMAIN objects \cup {<<pid, kind>>}
      /\ objects'[<<pid, kind>>] = walk.ptr
      /\ \A o \in DOMAIN objects \ {<<pid, kind>>} : objects'[o] = objects[o]
  BY <1>1 DEF Updated, At
<1>4. pid \in Processes
  BY <1>1 DEF FrameInv, FrameTypes, Stages
<1>5. walk.ptr \in Nat
  BY HeapFacts
<1>6. DOMAIN objects' \subseteq Processes \X DOMAIN SizeOf
  BY <1>3, <1>4 DEF HeapInv, HeapTypes
<1>7. \A o \in DOMAIN objects' : objects'[o] \in Nat
  BY <1>3, <1>5 DEF HeapInv, HeapTypes
<1> QED BY <1>1, <1>2, <1>3, <1>6, <1>7

\* The supply block is received.
LEMMA SpawnInv ==
  ASSUME FrameInv, HeapInv, spawn_alloc_thread
  PROVE  HeapInv'
<1>1. Gets("supply_block") /\ pc' = "thread" /\ UNCHANGED <<pid, priority_ok>>
  BY DEF spawn_alloc_thread, args
<1>2. "supply_block" \in DOMAIN SizeOf
  BY DEF SizeOf
<1>3. Holds(walk.ptr - META_DATA_SIZE)
  BY <1>1, <1>2, GetsStep DEF HeapInv, SupplyBlock
<1>4. Holds(SupplyAt) /\ <<pid, "supply_block">> \in DOMAIN objects'
  BY <1>1, <1>2, <1>3, GetsStep DEF SupplyAt
<1>5. ~HoleStage
  BY <1>1, <1>2, GetsStep DEF HoleStage
<1>6. Moves
  BY <1>1, <1>2, <1>4, <1>5, GetsStep DEF Moves, Spaces, Supplied
<1> QED BY <1>6, MovesInv

\* The tcb, the pcb or the descriptor is received.
LEMMA ReceiveInv ==
  ASSUME FrameInv, HeapInv, NEW kind \in {"tcb", "pcb", "descriptor"}, Gets(kind),
         UNCHANGED <<pid, priority_ok>>,
         \/ kind = "tcb" /\ pc' \in {"code", "fault"}
         \/ kind = "pcb" /\ pc' = "objects2"
         \/ kind = "descriptor" /\ pc' = "check"
  PROVE  HeapInv'
<1>1. kind \in DOMAIN SizeOf /\ <<pid, "supply_block">> # <<pid, kind>>
  BY DEF SizeOf
<1>2. pc = kind /\ walk.step = "done"
  BY <1>1, GetsStep
<1>3. <<pid, "supply_block">> \in DOMAIN objects /\ Holds(SB)
  BY <1>2 DEF HeapInv, SupplyBlock, Supplied
<1>4. <<pid, "supply_block">> \in DOMAIN objects' /\ SupplyAt = SB
  BY <1>1, <1>3, GetsStep DEF SupplyAt, SB
<1>5. priority_ok => Followed(SB)
  BY <1>2 DEF HeapInv, SupplyBlock, Supplied
<1>6. ~HoleStage
  BY <1>2 DEF HoleStage
<1>7. pc' # "boot"
  OBVIOUS
<1>8. Moves
  BY <1>1, <1>3, <1>4, <1>5, <1>6, <1>7, GetsStep DEF Moves
<1> QED BY <1>8, MovesInv

\* A step of a creation that does not touch the heap.
LEMMA ElsewhereInv ==
  ASSUME FrameInv, HeapInv, UNCHANGED <<pages_end, meta, live, walk>>,
         UNCHANGED <<objects, pid, priority_ok>>,
         \/ pc = "thread" /\ pc' = "code" /\ ~priority_ok
         \/ pc \in Spaces /\ pc' \in {"mapping", "stack", "objects", "fault"}
         \/ pc = "check" /\ pc' = "kmain"
  PROVE  HeapInv'
<1>1. /\ pc \in {"thread"} \cup Spaces \cup Supplied
      /\ pc \notin {"boot"} \cup DOMAIN SizeOf
      /\ pc' # "boot" /\ ~HoleStage
  BY DEF Spaces, Supplied, SizeOf, HoleStage
<1>2. walk.step \notin {"walk", "done"}
  BY <1>1 DEF HeapInv, Walking
<1>3. <<pid, "supply_block">> \in DOMAIN objects /\ Holds(SB) /\ SupplyAt = SB
  BY <1>1 DEF HeapInv, SupplyBlock, SB, SupplyAt
<1>4. pc' \in Spaces \cup Supplied /\ priority_ok => Followed(SB)
  BY DEF HeapInv, SupplyBlock, Spaces, Supplied
<1>5. Moves
  BY <1>1, <1>2, <1>3, <1>4 DEF Moves, HeapInv, HeapTypes
<1> QED BY <1>5, MovesInv

\* kmain's records.
LEMMA BootInv ==
  ASSUME FrameInv, HeapInv, boot_object
  PROVE  HeapInv'
<1>1. pc = "boot" /\ UNCHANGED <<objects, pid, priority_ok>>
  BY DEF boot_object, args
<1>2. Cardinality(live) \in Nat /\ Len(BootObjects) \in Nat
  BY FS_CardinalityType, ProcessAssumption DEF HeapInv, HeapTypes
<1>3. Cardinality(live) <= Len(BootObjects)
  BY <1>1 DEF HeapInv, Booting
<1>4. CASE /\ walk.step = "done" /\ walk' = [walk EXCEPT !.step = "idle"]
           /\ pc' = IF Cardinality(live) = Len(BootObjects) THEN "kmain" ELSE "boot"
           /\ UNCHANGED <<pages_end, meta, live>>
  <2>1. walk'.step = "idle"
    BY <1>4 DEF HeapInv, HeapTypes, HeapTypeOK
  <2>2. pc' = "boot" => Cardinality(live) < Len(BootObjects)
    BY <1>2, <1>3, <1>4
  <2>3. pc' \notin {"thread", "tcb"} \cup Spaces \cup Supplied
    BY <1>4 DEF Spaces, Supplied
  <2>4. ~HoleStage
    BY <1>1 DEF HoleStage
  <2>5. Moves
    BY <1>1, <1>4, <2>1, <2>2, <2>3, <2>4 DEF Moves, HeapInv, HeapTypes
  <2> QED BY <2>5, MovesInv
<1>5. CASE Imalloc(BootObjects[Cardinality(live) + 1]) /\ pc' = pc
  <2>1. walk.step = "idle"
    BY <1>5 DEF Imalloc
  <2>2. Cardinality(live) < Len(BootObjects)
    BY <1>1, <2>1 DEF HeapInv, Booting
  <2>3. Cardinality(live) + 1 \in 1..Len(BootObjects)
    BY <1>2, <2>2
  <2>4. BootObjects[Cardinality(live) + 1] \in Nat \ {0}
    BY <2>3, ProcessAssumption
  <2>5. AsksFor(BootObjects[Cardinality(live) + 1])
    BY <1>1, <1>5 DEF AsksFor
  <2> QED BY <2>4, <2>5, AsksInv
<1> QED BY <1>4, <1>5 DEF boot_object

\* A failed creation leaves the hole that the next one fills.
LEMMA GivesBackInv ==
  ASSUME FrameInv, HeapInv, init_process_fails
  PROVE  HeapInv'
<1>0. PICK h : h = SB
  OBVIOUS
<1>1. /\ pc = "check" /\ pc' = "kmain" /\ free_block(objects[<<pid, "supply_block">>])
      /\ objects' = [o \in DOMAIN objects \ {<<pid, "supply_block">>} |-> objects[o]]
  BY DEF init_process_fails, cleanup, Frees
<1>2. /\ h \in DOMAIN meta /\ meta[h].allocated /\ meta[h].block_size = HoleSize
      /\ DOMAIN meta' = DOMAIN meta /\ pages_end' = pages_end /\ walk' = walk
      /\ meta'[h] = [meta[h] EXCEPT !.allocated = FALSE]
      /\ \A g \in DOMAIN meta \ {h} : meta'[g] = meta[g]
      /\ live' = {a \in live : a.ptr # h + 1}
      /\ walk.step = "idle"
  BY <1>0, <1>1, FreeStep
<1>3. \A g \in DOMAIN meta :
        /\ g \in Nat
        /\ meta[g] \in [block_size : Nat, allocated : BOOLEAN, prev_block_data : Nat]
  BY DEF HeapInv, HeapTypes, HeapTypeOK
<1>4. /\ ~meta'[h].allocated /\ meta'[h].block_size = meta[h].block_size
      /\ meta'[h].prev_block_data = meta[h].prev_block_data
      /\ meta'[h] \in [block_size : Nat, allocated : BOOLEAN, prev_block_data : Nat]
  <2>1. /\ meta[h] \in [block_size : Nat, allocated : BOOLEAN, prev_block_data : Nat]
        /\ meta'[h] = [meta[h] EXCEPT !.allocated = FALSE]
    BY <1>2, <1>3
  <2> QED BY <2>1
<1>5. \A g \in DOMAIN meta : /\ meta'[g].block_size = meta[g].block_size
                             /\ meta'[g].prev_block_data = meta[g].prev_block_data
  BY <1>2, <1>4
<1>6. /\ Tiled'
      /\ \A g \in DOMAIN meta : IsLast(g)' <=> IsLast(g)
  BY <1>2, <1>5, SameShape DEF HeapInv
<1>7. HeapTypes'
  <2>1. live' \subseteq live /\ IsFiniteSet(live')
    BY <1>2, FS_Subset DEF HeapInv, HeapTypes
  <2>2. \A g \in DOMAIN meta' :
          /\ g \in Nat
          /\ meta'[g] \in [block_size : Nat, allocated : BOOLEAN, prev_block_data : Nat]
    BY <1>2, <1>3, <1>4
  <2>3. DOMAIN objects' \subseteq DOMAIN objects /\ \A o \in DOMAIN objects' : objects'[o] = objects[o]
    BY <1>1
  <2> QED BY <1>2, <2>1, <2>2, <2>3 DEF HeapInv, HeapTypes, HeapTypeOK
<1>8. LiveIs'
  <2> DEFINE Old == {g \in DOMAIN meta : meta[g].allocated}
             New == {g \in DOMAIN meta' : meta'[g].allocated}
  <2>1. New = Old \ {h}
    BY <1>2, <1>4
  <2>2. \A g \in DOMAIN meta : ObjectOf(g)' = ObjectOf(g)
    BY <1>5 DEF ObjectOf
  <2>3. \A g \in DOMAIN meta : ObjectOf(g).ptr = h + 1 <=> g = h
    BY <1>2, <1>3 DEF ObjectOf, META_DATA_SIZE
  <2>4. live = {ObjectOf(g) : g \in Old}
    BY DEF HeapInv, LiveIs
  <2>5. live' = {ObjectOf(g)' : g \in New}
    <3>1. Old \subseteq DOMAIN meta
      OBVIOUS
    <3> HIDE DEF Old, New
    <3>2. ASSUME NEW x \in live' PROVE \E g \in New : x = ObjectOf(g)'
      <4>1. x \in live /\ x.ptr # h + 1
        BY <1>2
      <4>2. PICK g \in Old : x = ObjectOf(g)
        BY <4>1, <2>4
      <4>3. g \in New
        BY <4>1, <4>2, <2>1, <2>3, <3>1
      <4> QED BY <4>2, <4>3, <2>2, <3>1
    <3>3. ASSUME NEW g \in New PROVE ObjectOf(g)' \in live'
      <4>1. g \in Old /\ g # h
        BY <2>1
      <4>2. ObjectOf(g) \in live
        BY <4>1, <2>4
      <4>3. ObjectOf(g).ptr # h + 1
        BY <4>1, <2>3, <3>1
      <4>4. ObjectOf(g)' = ObjectOf(g)
        BY <4>1, <2>2, <3>1
      <4> QED BY <4>2, <4>3, <4>4, <1>2
    <3> QED BY <3>2, <3>3
  <2> QED BY <2>5 DEF LiveIs
<1>9. Holes'
  <2>1. \A g \in DOMAIN meta : ~IsHole(g)
    BY <1>1 DEF HeapInv, Holes, HoleStage
  <2>2. ASSUME NEW g \in DOMAIN meta, IsHole(g)' PROVE g = h
    BY <2>1, <2>2, <1>2, <1>6 DEF IsHole
  <2>3. HoleStage'
    BY <1>1 DEF HoleStage
  <2> QED BY <1>2, <1>4, <2>2, <2>3 DEF Holes, HoleSize
<1>10. Walking' /\ GivesUpOnlyWhenFull'
  BY <1>2 DEF Walking, GivesUpOnlyWhenFull
<1>11. SupplyBlock' /\ Booting'
  BY <1>1 DEF SupplyBlock, Booting, Spaces, Supplied
<1> QED BY <1>6, <1>7, <1>8, <1>9, <1>10, <1>11 DEF HeapInv

-----------------------------------------------------------------------------
(* The invariant is inductive *)

\* What kmain and create_process find before the first object.
LEMMA FirstHeap == Init => HeapInv
<1> SUFFICES ASSUME Init PROVE HeapInv
  OBVIOUS
<1>1. /\ pages_end \in HeapSizes /\ live = {} /\ objects = <<>> /\ pc = "boot"
      /\ meta = At(1, [block_size |-> pages_end - 1, allocated |-> FALSE, prev_block_data |-> 0])
      /\ walk = [step |-> "idle", header |-> 0, size |-> 0, ptr |-> 0]
  BY DEF Init, HeapInit, heapStart, Header
<1>2. pages_end \in Nat /\ pages_end > 1
  BY <1>1, HeapAssumption
<1>3. /\ DOMAIN meta = {1} /\ meta[1].block_size = pages_end - 1
      /\ ~meta[1].allocated /\ meta[1].prev_block_data = 0
      /\ meta[1] \in [block_size : Nat, allocated : BOOLEAN, prev_block_data : Nat]
  BY <1>1, <1>2 DEF At
<1>4. NextOf(1) = pages_end /\ PrevOf(1) = 1
  BY <1>2, <1>3 DEF NextOf, PrevOf
<1>5. IsFiniteSet(live) /\ Cardinality(live) = 0
  BY <1>1, FS_EmptySet
<1>6. HeapTypes
  <2>1. HeapTypeOK
    BY <1>1, <1>3 DEF HeapTypeOK
  <2>2. DOMAIN objects = {}
    BY <1>1
  <2> QED BY <1>5, <2>1, <2>2 DEF HeapTypes
<1>7. Tiled
  <2>1. pages_end \notin DOMAIN meta
    BY <1>2, <1>3
  <2> QED BY <1>2, <1>3, <1>4, <2>1 DEF Tiled, heapStart
<1>8. LiveIs
  BY <1>1, <1>3 DEF LiveIs
<1>9. Holes
  BY <1>3, <1>4 DEF Holes, IsHole, IsLast
<1>10. Walking /\ GivesUpOnlyWhenFull
  BY <1>1 DEF Walking, GivesUpOnlyWhenFull
<1>11. SupplyBlock
  BY <1>1 DEF SupplyBlock, Spaces, Supplied
<1>12. Booting
  <2>1. Len(BootObjects) \in Nat /\ Len(BootObjects) > 0
    BY ProcessAssumption
  <2> QED BY <1>5, <2>1 DEF Booting
<1> QED BY <1>6, <1>7, <1>8, <1>9, <1>10, <1>11, <1>12 DEF HeapInv

\* Every outcome of a subspace goes on to the next, or faults.
LEMMA SupplyMoves ==
  ASSUME NEW s \in Spaces, thread_supply_new_mem_region(s)
  PROVE  /\ pc \in Spaces /\ pc' \in {"mapping", "stack", "objects", "fault"}
         /\ UNCHANGED <<pages_end, meta, live, walk>> /\ UNCHANGED <<objects, pid, priority_ok>>
<1>1. Supplying(s) /\ (pc' = AfterSpace(s) \/ pc' = "fault")
  BY DEF thread_supply_new_mem_region, supply_first_fails, supply_later_fails,
         supply_null_thread, supply_page_in_fails, supply_ok, Fails
<1> QED BY <1>1, SpaceOrder DEF Supplying, args, heap_vars

\* HeapInv is kept by every step.
LEMMA HeapInvariance ==
  ASSUME FrameInv, HeapInv, [Next]_vars
  PROVE  HeapInv'
<1>1. CASE boot_object
  BY <1>1, BootInv
<1>2. CASE HeapStep
  BY <1>2, ExactInv, SplitInv, AdvanceInv, FaultInv DEF HeapStep, Imalloc_alocator
<1>3. ASSUME NEW info \in AllocationInfos, NEW ok \in BOOLEAN, init_process(info, ok)
      PROVE  HeapInv'
  <2>1. AsksFor(2)
    BY <1>3 DEF init_process, Asks, AsksFor, SizeOf
  <2> QED BY <2>1, AsksInv
<1>4. CASE spawn_alloc_thread
  BY <1>4, SpawnInv
<1>5. CASE create_thread_refuses
  <2>1. /\ UNCHANGED <<pages_end, meta, live, walk>> /\ UNCHANGED <<objects, pid, priority_ok>>
        /\ pc = "thread" /\ pc' = "code" /\ ~priority_ok
    BY <1>5 DEF create_thread_refuses, args, heap_vars
  <2> QED BY <2>1, ElsewhereInv
<1>6. CASE create_thread
  <2>1. AsksFor(17)
    BY <1>6 DEF create_thread, Asks, AsksFor, SizeOf, args
  <2> QED BY <2>1, AsksInv
<1>7. CASE create_thread_table
  <2>1. /\ Gets("tcb") /\ UNCHANGED <<pid, priority_ok>> /\ pc' \in {"code", "fault"}
    BY <1>7 DEF create_thread_table, args
  <2> QED BY <2>1, ReceiveInv
<1>8. ASSUME NEW s \in Spaces, thread_supply_new_mem_region(s)
      PROVE  HeapInv'
  BY <1>8, SupplyMoves, ElsewhereInv
<1>9. CASE init_process_pcb
  <2>1. AsksFor(2)
    BY <1>9 DEF init_process_pcb, Asks, AsksFor, SizeOf, args
  <2> QED BY <2>1, AsksInv
<1>10. CASE init_process_descriptor
  <2>1. UNCHANGED <<pid, priority_ok>>
    BY <1>10 DEF init_process_descriptor, args
  <2>2. CASE Gets("pcb") /\ pc' = "objects2"
    BY <2>1, <2>2, ReceiveInv
  <2>3. CASE pc = "objects2" /\ Asks("descriptor") /\ UNCHANGED objects
    <3>1. AsksFor(1)
      BY <2>1, <2>3 DEF Asks, AsksFor, SizeOf
    <3> QED BY <3>1, AsksInv
  <2>4. CASE Gets("descriptor") /\ pc' = "check"
    BY <2>1, <2>4, ReceiveInv
  <2> QED BY <1>10, <2>2, <2>3, <2>4 DEF init_process_descriptor
<1>11. CASE init_process_fails
  BY <1>11, GivesBackInv
<1>12. CASE create_process
  <2>1. /\ UNCHANGED <<pages_end, meta, live, walk>> /\ UNCHANGED <<objects, pid, priority_ok>>
        /\ pc = "check" /\ pc' = "kmain"
    BY <1>12 DEF create_process, args, heap_vars
  <2> QED BY <2>1, ElsewhereInv
<1>13. CASE Done \/ UNCHANGED vars
  <2>1. /\ UNCHANGED <<pages_end, meta, live>>
        /\ UNCHANGED <<walk, objects, pc, pid, priority_ok>>
    BY <1>13 DEF Done, vars, heap_vars, args
  <2>2. HeapTypes'
    BY <2>1 DEF HeapInv, HeapTypes, HeapTypeOK
  <2>3. Holes' /\ Walking'
    BY <2>1, StillShape DEF HeapInv, Holes, HoleStage, HoleSize, Walking
  <2>4. SupplyBlock'
    <3>1. SB' = SB
      BY <2>1 DEF SB
    <3> QED BY <2>1, <3>1, StillShape DEF HeapInv, SupplyBlock
  <2>5. Booting' /\ GivesUpOnlyWhenFull'
    BY <2>1 DEF HeapInv, Booting, GivesUpOnlyWhenFull
  <2> QED BY <2>1, <2>2, <2>3, <2>4, <2>5, StillShape DEF HeapInv
<1> QED BY <1>1, <1>2, <1>3, <1>4, <1>5, <1>6, <1>7, <1>8, <1>9, <1>10, <1>11,
           <1>12, <1>13 DEF Next

\* HeapInv, with FrameInv, holds throughout.
THEOREM HeapInvariant == Spec => [](FrameInv /\ HeapInv)
<1>1. Init => FrameInv /\ HeapInv
  BY FrameInit, FirstHeap
<1>2. FrameInv /\ HeapInv /\ [Next]_vars => (FrameInv /\ HeapInv)'
  BY FrameInvariance, HeapInvariance
<1> QED BY <1>1, <1>2, PTL DEF Spec

-----------------------------------------------------------------------------
(* The theorems about the heap *)

\* Under the tiling no header is inside another block.
LEMMA AllAreBlocks ==
  ASSUME HeapInv
  PROVE  Blocks = DOMAIN meta
BY HeapFacts DEF Blocks, HeapInv, Tiled

\* The blocks tile the heap in both directions, although split and merge do
\* not maintain that by themselves (Imalloc_alocator, free in alloc.c).
THEOREM HeadersAreRight == Spec => []HeadersDescribeBlocks
<1>1. HeapInv => HeadersDescribeBlocks
  BY AllAreBlocks DEF HeapInv, Tiled, HeadersDescribeBlocks
<1> QED BY <1>1, HeapInvariant, PTL

\* Imalloc never gives up although a free block is large enough: the walk
\* ends at the first free block, but only the last one can be too small.
THEOREM GivesUpWhenFull == Spec => []GivesUpOnlyWhenFull
<1>1. HeapInv => GivesUpOnlyWhenFull
  BY DEF HeapInv
<1> QED BY <1>1, HeapInvariant, PTL

\* Each object is the payload of a block.
LEMMA DisjointNow ==
  ASSUME HeapInv
  PROVE  ObjectsDisjoint
<1>1. ASSUME NEW a \in live
      PROVE  \E h \in DOMAIN meta :
               /\ meta[h].allocated /\ a = ObjectOf(h)
               /\ Units(a) = (h + 1)..(NextOf(h) - 1)
  <2>1. PICK h \in DOMAIN meta : meta[h].allocated /\ a = ObjectOf(h)
    BY DEF HeapInv, LiveIs
  <2>2. h \in Nat /\ meta[h].block_size \in Nat
    BY HeapFacts
  <2>3. a.ptr = h + 1 /\ a.size = meta[h].block_size - 1
    BY <2>1 DEF ObjectOf, META_DATA_SIZE
  <2>4. a.ptr + a.size - 1 = NextOf(h) - 1
    BY <2>2, <2>3 DEF NextOf
  <2>5. Units(a) = (h + 1)..(NextOf(h) - 1)
    BY <2>3, <2>4 DEF Units
  <2> QED BY <2>1, <2>5
<1>2. \A g, h \in DOMAIN meta :
        /\ g \in Nat /\ NextOf(g) \in Nat /\ g < NextOf(g) /\ NextOf(g) <= pages_end
        /\ heapStart <= g
        /\ g > h => g >= NextOf(h)
  <2> TAKE g, h \in DOMAIN meta
  <2>1. g \in Nat /\ meta[g].block_size \in Nat /\ pages_end \in Nat
    BY HeapFacts
  <2>2. heapStart <= g /\ 0 < meta[g].block_size /\ (g > h => g >= NextOf(h))
    BY DEF HeapInv, Tiled
  <2>3. NextOf(g) \in DOMAIN meta \cup {pages_end} /\ \A x \in DOMAIN meta : x < pages_end /\ x \in Nat
    BY HeapFacts DEF HeapInv, Tiled
  <2> QED BY <2>1, <2>2, <2>3 DEF NextOf
<1>3. ASSUME NEW a \in live
      PROVE  /\ Units(a) \subseteq heapStart..(pages_end - 1)
             /\ Units(a) \cap DOMAIN meta = {}
  <2>1. PICK h \in DOMAIN meta : Units(a) = (h + 1)..(NextOf(h) - 1)
    BY <1>1
  <2>2. pages_end \in Nat
    BY HeapFacts
  <2>3. /\ h \in Nat /\ NextOf(h) \in Nat /\ NextOf(h) <= pages_end /\ 1 <= h
        /\ \A g \in DOMAIN meta : g \in Nat /\ (g > h => g >= NextOf(h))
    BY <1>2 DEF heapStart
  <2> QED BY <2>1, <2>2, <2>3 DEF heapStart
<1>4. ASSUME NEW a \in live, NEW b \in live \ {a}
      PROVE  Units(a) \cap Units(b) = {}
  <2>1. PICK g \in DOMAIN meta : a = ObjectOf(g) /\ Units(a) = (g + 1)..(NextOf(g) - 1)
    BY <1>1
  <2>2. PICK h \in DOMAIN meta : b = ObjectOf(h) /\ Units(b) = (h + 1)..(NextOf(h) - 1)
    BY <1>1
  <2>3. g # h
    BY <2>1, <2>2, <1>4
  <2>4. /\ g \in Nat /\ h \in Nat /\ NextOf(g) \in Nat /\ NextOf(h) \in Nat
        /\ g > h => g >= NextOf(h)
        /\ h > g => h >= NextOf(g)
    BY <1>2
  <2> QED BY <2>1, <2>2, <2>3, <2>4
<1> QED BY <1>3, <1>4 DEF ObjectsDisjoint

\* Objects that clients of Imalloc hold share no memory with each other, with
\* a header or with what is outside the heap.
THEOREM ObjectsAreDisjoint == Spec => []ObjectsDisjoint
BY DisjointNow, HeapInvariant, PTL

\* The invariants contain the types.
LEMMA TypesNow ==
  ASSUME FrameInv, HeapInv
  PROVE  TypeOK
<1>1. /\ free \subseteq Nat \ {0} /\ lost \subseteq Nat \ {0}
      /\ \A p \in Processes : tables[p] \subseteq Nat \ {0}
  BY PoolFacts DEF FrameInv
<1>2. \A p \in Processes, s \in Spaces : supply_block[p][s] \in Seq(Int)
  BY DEF FrameInv, FrameTypes
<1>3. /\ page_table \in [Processes -> Nat] /\ pid \in 0..NumProcesses
      /\ priority_ok \in BOOLEAN
      /\ pc \in {"boot", "kmain", "thread", "objects", "objects2", "check",
                 "fault"} \cup DOMAIN SizeOf \cup Spaces
  BY DEF FrameInv, FrameTypes, Stages, Supplied, SizeOf, Spaces
<1>4. scheduled \subseteq Processes /\ failed \subseteq Processes
  <2>1. 1..pid \subseteq Processes
    BY <1>3, ProcessAssumption DEF Processes
  <2> QED BY <2>1 DEF FrameInv, Progress
<1>5. /\ \A o \in DOMAIN objects :
           o \in Processes \X DOMAIN SizeOf /\ objects[o] \in Nat
      /\ HeapTypeOK
  BY DEF HeapInv, HeapTypes
<1> QED BY <1>1, <1>2, <1>3, <1>4, <1>5 DEF TypeOK

\* The variables of the process model keep their types.
THEOREM ProcessTypes == Spec => []TypeOK
BY TypesNow, HeapInvariant, PTL
=============================================================================
