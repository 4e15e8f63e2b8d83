------------------------------ MODULE RRRClient ------------------------------
(***************************************************************************)
(* A service that hardware offers to software: the client stub.  Threads   *)
(* call MakeRequest, which holds a mutex from the request to the last chunk*)
(* of the response, and MakeRequestNoResponse, which takes no mutex.  A    *)
(* response carries nothing that says whose it is: a caller puts together  *)
(* the next one that arrives.                                              *)
(*                                                                         *)
(* Outside: the LI channels, which pass on one message at a time in order, *)
(* and the hardware, which serves requests in order and answers those that *)
(* have a response, a chunk at a time.                                     *)
(***************************************************************************)
EXTENDS Naturals, Sequences, SequencesExt

CONSTANTS
  Caller,      \* threads that use the service
  MaxPending,  \* requests the channel holds: a bound of the model
  MaxChunks,   \* chunks of a response after its header
  None         \* nobody

RRRClientAssumption ==
  /\ {MaxPending, MaxChunks} \subseteq Nat
  /\ None \notin Caller
  /\ None \notin [to : Caller, toCome : Nat]

VARIABLES
  pc, remaining,     \* where a caller is; chunks of its response to come
  makeRequestMutex,  \* the caller that holds it
  outputChannel,     \* requests on their way: [from, response]
  answering,         \* the hardware: caller and chunks to come of its answer, or None
  inputChannel       \* chunks of responses on their way: [to, numChunks]

vars == <<pc, remaining, makeRequestMutex, outputChannel, answering, inputChannel>>

Init ==
  /\ pc = [c \in Caller |-> "idle"]
  /\ remaining = [c \in Caller |-> 0]
  /\ makeRequestMutex = None
  /\ outputChannel = <<>>
  /\ answering = None
  /\ inputChannel = <<>>

-----------------------------------------------------------------------------

Goto(c, label) == pc' = [pc EXCEPT ![c] = label]

\* MakeRequest: the call, and the mutex.
Call(c) ==
  /\ pc[c] = "idle"
  /\ Goto(c, "lock")
  /\ UNCHANGED <<remaining, makeRequestMutex, outputChannel, answering, inputChannel>>

\* Mutant of Lock: there is no mutex.
LockNot(c) ==
  /\ pc[c] = "lock"
  /\ Goto(c, "push")
  /\ UNCHANGED <<remaining, makeRequestMutex, outputChannel, answering, inputChannel>>

Lock(c) ==
  /\ pc[c] = "lock" /\ makeRequestMutex = None
  /\ makeRequestMutex' = c
  /\ Goto(c, "push")
  /\ UNCHANGED <<remaining, outputChannel, answering, inputChannel>>

\* The channel holds MaxPending requests; push waits for room.
PushRequest(c, response) ==
  /\ Len(outputChannel) < MaxPending
  /\ outputChannel' = Append(outputChannel, [from |-> c, response |-> response])

Push(c) ==
  /\ pc[c] = "push"
  /\ PushRequest(c, TRUE)
  /\ Goto(c, "header")
  /\ UNCHANGED <<remaining, makeRequestMutex, answering, inputChannel>>

\* translateUMFMessage: a header says how many chunks follow.
PopHeader(c) ==
  /\ pc[c] = "header" /\ inputChannel # <<>>
  /\ remaining' = [remaining EXCEPT ![c] = Head(inputChannel).numChunks]
  /\ inputChannel' = Tail(inputChannel)
  /\ Goto(c, IF remaining'[c] = 0 THEN "unlock" ELSE "body")
  /\ UNCHANGED <<makeRequestMutex, outputChannel, answering>>

PopChunk(c) ==
  /\ pc[c] = "body" /\ inputChannel # <<>>
  /\ remaining' = [remaining EXCEPT ![c] = @ - 1]
  /\ inputChannel' = Tail(inputChannel)
  /\ Goto(c, IF remaining'[c] = 0 THEN "unlock" ELSE "body")
  /\ UNCHANGED <<makeRequestMutex, outputChannel, answering>>

Unlock(c) ==
  /\ pc[c] = "unlock"
  /\ makeRequestMutex' = None
  /\ Goto(c, "idle")
  /\ UNCHANGED <<remaining, outputChannel, answering, inputChannel>>

MakeRequestNoResponse(c) ==
  /\ pc[c] = "idle"
  /\ PushRequest(c, FALSE)
  /\ UNCHANGED <<pc, remaining, makeRequestMutex, answering, inputChannel>>

-----------------------------------------------------------------------------
(* Outside: the hardware.                                                  *)

\* A header, and as many chunks as it says.
Serve ==
  /\ answering = None /\ outputChannel # <<>>
  /\ outputChannel' = Tail(outputChannel)
  /\ LET request == Head(outputChannel)
     IN  IF request.response
         THEN \E n \in 0..MaxChunks :
                /\ inputChannel' = Append(inputChannel, [to |-> request.from, numChunks |-> n])
                /\ answering' = IF n = 0 THEN None ELSE [to |-> request.from, toCome |-> n]
         ELSE UNCHANGED <<inputChannel, answering>>
  /\ UNCHANGED <<pc, remaining, makeRequestMutex>>

SendChunk ==
  /\ answering # None
  /\ inputChannel' = Append(inputChannel, [to |-> answering.to, numChunks |-> 0])
  /\ answering' = IF answering.toCome = 1 THEN None ELSE [answering EXCEPT !.toCome = @ - 1]
  /\ UNCHANGED <<pc, remaining, makeRequestMutex, outputChannel>>

-----------------------------------------------------------------------------

Continue(c) == Lock(c) \/ Push(c) \/ PopHeader(c) \/ PopChunk(c) \/ Unlock(c)

Next ==
  \/ \E c \in Caller : Call(c) \/ Continue(c) \/ MakeRequestNoResponse(c)
  \/ Serve \/ SendChunk

Spec == Init /\ [][Next]_vars

-----------------------------------------------------------------------------

\* What arrives is for the caller who waits for it, whole, however requests with and
\* without a response are mixed: between the caller, the channel and the hardware
\* there is exactly the rest of one response.
ResponsesFindTheirCaller ==
  /\ \A k \in DOMAIN inputChannel :
       /\ inputChannel[k].to = makeRequestMutex
       /\ k > 1 => inputChannel[k].numChunks = 0
  /\ \A c \in Caller : pc[c] = "body" =>
       remaining[c] = Len(inputChannel) + (IF answering = None THEN 0 ELSE answering.toCome)

\* Whoever holds the mutex gets its response and lets go: callers wait for each
\* other only.
HolderIsServed == makeRequestMutex # None ~> makeRequestMutex = None

=============================================================================
