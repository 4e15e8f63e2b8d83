---------------------------- MODULE MCVLevelFIFO ----------------------------
(***************************************************************************)
(* Two ways to keep several FIFOs in one RAM, one of them to a behaviour,  *)
(* while the other stays as it was initialised.                            *)
(*                                                                         *)
(* "rings": two FIFOs of two slots, two data values.  Rings wrap, fill up  *)
(* and empty, and every combination of enq, deq and claim on the same and  *)
(* on different FIFOs coincides.                                           *)
(*                                                                         *)
(* "lists": two channels share three slots, one of which is kept for each, *)
(* and packets have one or two chunks.  Lists grow while their head is     *)
(* read, run empty and start again, and slots change channels; there are   *)
(* not enough for both channels to be long at once.                        *)
(***************************************************************************)
EXTENDS VLevelFIFO

CONSTANT Kinds  \* {"rings", "lists"}

VARIABLES
  kind,
  freeList, freeListInit, mem, pointers, headPointers, tailPointers,  \* PointerBuffer
  creditsUsed, creditsFree, reqIdx, memRsp, pointersRsp,
  requestChunksRemaining, requestActiveQueue, idxRR, sendSize, totalCreditsUsed

lists == <<freeList, freeListInit, mem, pointers, headPointers, tailPointers,
           creditsUsed, creditsFree, reqIdx, memRsp, pointersRsp,
           requestChunksRemaining, requestActiveQueue, idxRR, sendSize, totalCreditsUsed>>

Lists == INSTANCE PointerBuffer WITH FifoSize <- 3, MinBuffer <- 1, MaxChunks <- 1

ASSUME Lists!PointerBufferAssumption

KindInit ==
  /\ kind \in Kinds
  /\ Init /\ Lists!Init
  /\ kind # "rings" =>
       head = [f \in Fifos |-> 0] /\ tail = head /\ tokens = [f \in Fifos |-> 0]

KindNext ==
  \/ kind = "rings" /\ Next /\ UNCHANGED <<kind, lists>>
  \/ kind = "lists" /\ Lists!Next /\ UNCHANGED <<kind, vars>>

KindSpec == KindInit /\ [][KindNext]_<<kind, vars, lists>>

-----------------------------------------------------------------------------

\* The linked lists of the pointer switch deliver the chunks of each channel in
\* order and once, although a list's head is known a cycle late and its tail may
\* grow in that cycle; every slot is in one place of one list; and no credit is
\* lost, so that a sender who counts them always finds a slot.
ListsKeepOrder ==
  /\ Lists!ImplementsMultiQueue
  /\ [](kind = "lists" => Lists!ListsAreWhole /\ Lists!CreditsAreWhole)

=============================================================================
