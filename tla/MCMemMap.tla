------------------------------ MODULE MCMemMap ------------------------------
EXTENDS MemMap, TLC

Symmetry == Permutations(Clients)

Entry(addr, len, available) ==
  [addr |-> addr, len |-> len, available |-> available]

\* Frames of 16 bytes, words of 4 bits.  Low memory below a hole and the
\* kernel's region from frame 4 on: with ends that are not frame aligned and
\* padding in both regions; without padding in the last region; and with a
\* larger region after a small one that holds the kernel.
Tags == { << Entry(0, 2 * 16 + 5, TRUE), Entry(2 * 16 + 5, 20, FALSE),
             Entry(4 * 16 - 3, 6 * 16 + 3, TRUE) >>,
          << Entry(0, 3 * 16, TRUE), Entry(4 * 16, 8 * 16, TRUE) >>,
          << Entry(4 * 16, 3 * 16, TRUE), Entry(10 * 16, 12, TRUE),
             Entry(11 * 16, 7 * 16, TRUE) >> }

ASSUME TagsAreOrderly == MmapTags = Tags => OrderlyMaps /\ RegionsIn32Bits

\* With a uint32_t of 8 frames, a region of 12: at the frame behind the first
\* 8, the products of the scan wrap.
LargeTags == { << Entry(4 * 16, 12 * 16, TRUE) >> }
=============================================================================
