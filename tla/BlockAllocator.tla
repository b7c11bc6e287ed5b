--------------------------- MODULE BlockAllocator ---------------------------
(***************************************************************************)
(* The extent allocator of a data device (kiseki-block, allocator.rs): a    *)
(* bitmap, which is the truth, and a free list derived from it, a map from  *)
(* the first block of a free run to its length.  Offsets and lengths are in *)
(* blocks; a request has already been rounded up to blocks.                 *)
(***************************************************************************)
EXTENDS Integers, FiniteSetsExt

CONSTANTS Total,      \* total_blocks
          MaxExtent   \* max_extent_blocks

ASSUME AllocatorAssumption == Total \in Nat \ {0} /\ MaxExtent \in 1..Total

Blocks == 0..(Total - 1)

Span(e) == e.offset .. (e.offset + e.length - 1)
Spans(E) == UNION {Span(e) : e \in E}

Extents == {e \in [offset : Blocks, length : 1..MaxExtent] :
              e.offset + e.length <= Total}

Without(f, o) == [p \in DOMAIN f \ {o} |-> f[p]]
Bind(f, o, v) == [p \in DOMAIN f \cup {o} |-> IF p = o THEN v ELSE f[p]]

\* Length of the run of clear bits that starts at block s.
RunLength(bits, s) == Max({n \in 1..(Total - s) : (s .. (s + n - 1)) \cap bits = {}})

\* rebuild_free_list: one entry per maximal run of clear bits.
rebuild_free_list(bits) ==
  [s \in {b \in Blocks \ bits : b = 0 \/ b - 1 \in bits} |-> RunLength(bits, s)]

from_bitmap(bits) == [bitmap |-> bits, free_list |-> rebuild_free_list(bits)]

\* Free runs that can serve a request of n blocks.  A zero-sized request and
\* one above the cap of an extent are refused before the list is searched.
Fits(a, n) == IF n \in 1..MaxExtent
              THEN {o \in DOMAIN a.free_list : a.free_list[o] >= n} ELSE {}

\* Best fit: the shortest run, the lowest of equals.
BestFit(a, n) ==
  CHOOSE o \in Fits(a, n) : \A p \in Fits(a, n) :
     \/ a.free_list[o] < a.free_list[p]
     \/ a.free_list[o] = a.free_list[p] /\ o <= p

\* alloc: the head of the run is taken, the remainder goes back to the list.
alloc(a, n) ==
  LET o == BestFit(a, n)
      rest == Without(a.free_list, o)
  IN [extent |-> [offset |-> o, length |-> n],
      after  |-> [bitmap |-> a.bitmap \cup (o .. (o + n - 1)),
                  free_list |-> IF a.free_list[o] > n
                                THEN Bind(rest, o + n, a.free_list[o] - n)
                                ELSE rest]]

\* coalesce_next: merge the run at o with the one that starts where it ends.
coalesce_next(f, o) ==
  LET next == o + f[o] IN
  IF o \in DOMAIN f /\ next \in DOMAIN f
  THEN Bind(Without(f, next), o, f[o] + f[next]) ELSE f

Mut_coalesce(f, o) == coalesce_next(f, o)

\* coalesce: first with the run that ends at o, then with the next one.
coalesce(f, o) ==
  LET before == {p \in DOMAIN f : p < o}
      prev   == Max(before)
  IN IF before # {} /\ prev + f[prev] = o
     THEN coalesce_next(Bind(Without(f, o), prev, f[prev] + f[o]), prev)
     ELSE coalesce_next(f, o)

\* free: clear the bits and return the run.  Nothing checks that they were set.
free(a, e) ==
  [bitmap    |-> a.bitmap \ Span(e),
   free_list |-> coalesce(Bind(a.free_list, e.offset, e.length), e.offset)]
=============================================================================
