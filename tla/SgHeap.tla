-------------------------------- MODULE SgHeap --------------------------------
(***************************************************************************)
(* The heap of ports without malloc (common/instamsg/driver/sg_mem.c): an  *)
(* array that is filled from its start.  A block has a header with its     *)
(* length in front; freeing one moves the end of the used part back by     *)
(* that length, wherever the block is.                                     *)
(*                                                                         *)
(* A heap is a record of the code's variables and of the live blocks, in   *)
(* the order in which they were allocated.                                 *)
(***************************************************************************)
EXTENDS Integers, Sequences, SequencesExt

CONSTANTS MAX_HEAP_SIZE, HEADER_SIZE

ASSUME HeapAssumption == MAX_HEAP_SIZE \in Nat /\ HEADER_SIZE \in Nat \ {0}

Block == [at : Nat, size : Nat]

EmptyHeap ==
    [currentBytesUsed |-> 0, live |-> <<>>, count |-> 0,
     maxAllocationsCount |-> 0,
     misused |-> 0]     \* history: 1 when a block was freed out of order

HasRoom(h, n) == h.currentBytesUsed + n + HEADER_SIZE <= MAX_HEAP_SIZE

NewBlock(h, n) == [at |-> h.currentBytesUsed + HEADER_SIZE, size |-> n]

(* DEFAULT_MALLOC announces a failure, and a new record of allocations.    *)
Announces(h, n) == ~HasRoom(h, n) \/ h.count + 1 > h.maxAllocationsCount

DEFAULT_MALLOC(h, n) ==
    IF ~HasRoom(h, n) THEN h
    ELSE [h EXCEPT
            !.currentBytesUsed = @ + HEADER_SIZE + n,
            !.live = Append(@, NewBlock(h, n)),
            !.count = @ + 1,
            !.maxAllocationsCount = IF h.count + 1 > @ THEN h.count + 1 ELSE @]

(* Only the block allocated last can be freed without moving the end of    *)
(* the used part into another one.                                         *)
IsLast(h, b) == h.live # <<>> /\ Last(h.live) = b

DEFAULT_FREE(h, b) ==
    [h EXCEPT
        !.currentBytesUsed = @ - b.size - HEADER_SIZE,
        !.live = IF IsLast(h, b) THEN Front(@) ELSE Remove(@, b),
        !.count = @ - 1,
        !.misused = IF IsLast(h, b) THEN @ ELSE 1]

End(b) == b.at + b.size

(* The live blocks lie one behind the other, each with its header, and the *)
(* used part ends where the last one does: no two of them overlap.         *)
Stacked(h) ==
    /\ h.currentBytesUsed =
         IF h.live = <<>> THEN 0 ELSE End(h.live[Len(h.live)])
    /\ h.currentBytesUsed <= MAX_HEAP_SIZE \/ h.live = <<>>
    /\ h.live # <<>> => h.live[1].at = HEADER_SIZE
    /\ \A k \in 1..(Len(h.live) - 1) :
         h.live[k + 1].at = End(h.live[k]) + HEADER_SIZE
    /\ \A j, k \in 1..Len(h.live) :
         j < k => End(h.live[j]) + HEADER_SIZE <= h.live[k].at

=============================================================================
