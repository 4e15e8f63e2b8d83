------------------------------ MODULE RRRServer ------------------------------
(***************************************************************************)
(* Services that software offers to hardware.  Requests arrive chunk by    *)
(* chunk and are put together by push; a complete one goes to the service's*)
(* dataQ, and a call of its HandleMessage to a pool of worker threads that *)
(* all services share.  HandleMessage works on one request at a time, under*)
(* the mutex of its service.  Uninit stops the pool; threads finish what   *)
(* they are at, and calls still posted never run.                          *)
(*                                                                         *)
(* Outside: the hardware that sends requests, the LI channels, io_service, *)
(* and what a service does with a request.                                 *)
(***************************************************************************)
EXTENDS Naturals, Sequences, FiniteSets, SequencesExt

CONSTANTS
  Service,
  Worker,       \* WORKER_THREADS threads
  MaxRequests,  \* of a service: a bound of the model
  MaxChunks,    \* chunks of a request after its header
  None          \* NULL, nobody

RRRServerAssumption ==
  /\ MaxRequests \in Nat
  /\ MaxChunks \in Nat
  /\ IsFiniteSet(Worker) /\ Worker # {}
  /\ None \notin Worker /\ None \notin Nat

VARIABLES
  arrived,         \* requests of a service whose header has come
  currentRequest,  \* chunks to come, or None
  dataQ,           \* complete requests, by number
  posted,          \* services whose HandleMessage waits for a thread
  pc, at, request, \* what a thread is doing, of which service, on which request
  serverMutex,     \* the thread that holds it
  executed,        \* requests that Request was called with, in order
  outputQ,         \* results, by the number of their request
  stopped          \* Uninit has stopped the pool

assembly == <<arrived, currentRequest>>
vars == <<assembly, dataQ, posted, pc, at, request, serverMutex, executed, outputQ, stopped>>

Init ==
  /\ arrived = [s \in Service |-> 0]
  /\ currentRequest = [s \in Service |-> None]
  /\ dataQ = [s \in Service |-> <<>>]
  /\ posted = <<>>
  /\ pc = [w \in Worker |-> "idle"]
  /\ at = [w \in Worker |-> None]
  /\ request = [w \in Worker |-> None]
  /\ serverMutex = [s \in Service |-> None]
  /\ executed = [s \in Service |-> <<>>]
  /\ outputQ = [s \in Service |-> <<>>]
  /\ stopped = FALSE

-----------------------------------------------------------------------------
(* push, called by the one thread that reads the link                      *)

\* The request, if it is complete, is queued and its handling posted.
Complete(s, number, toCome) ==
  IF toCome = 0
  THEN /\ currentRequest' = [currentRequest EXCEPT ![s] = None]
       /\ dataQ' = [dataQ EXCEPT ![s] = Append(@, number)]
       /\ posted' = Append(posted, s)
  ELSE /\ currentRequest' = [currentRequest EXCEPT ![s] = toCome]
       /\ UNCHANGED <<dataQ, posted>>

PushHeader(s) ==
  /\ currentRequest[s] = None /\ arrived[s] < MaxRequests
  /\ arrived' = [arrived EXCEPT ![s] = @ + 1]
  /\ \E numChunks \in 0..MaxChunks : Complete(s, arrived[s] + 1, numChunks)
  /\ UNCHANGED <<pc, at, request, serverMutex, executed, outputQ, stopped>>

PushChunk(s) ==
  /\ currentRequest[s] # None
  /\ Complete(s, arrived[s], currentRequest[s] - 1)
  /\ UNCHANGED <<arrived, pc, at, request, serverMutex, executed, outputQ, stopped>>

-----------------------------------------------------------------------------
(* A thread of the pool: io_service::run                                   *)

Goto(w, label) == pc' = [pc EXCEPT ![w] = label]

Run(w) ==
  /\ pc[w] = "idle" /\ ~stopped /\ posted # <<>>
  /\ at' = [at EXCEPT ![w] = Head(posted)]
  /\ posted' = Tail(posted)
  /\ Goto(w, "lock")
  /\ UNCHANGED <<assembly, dataQ, request, serverMutex, executed, outputQ, stopped>>

\* Mutant of Lock: there is no mutex.
LockNot(w) ==
  /\ pc[w] = "lock"
  /\ Goto(w, "pop")
  /\ UNCHANGED <<assembly, dataQ, posted, at, request, serverMutex, executed, outputQ, stopped>>

\* HandleMessage
Lock(w) ==
  /\ pc[w] = "lock" /\ serverMutex[at[w]] = None
  /\ serverMutex' = [serverMutex EXCEPT ![at[w]] = w]
  /\ Goto(w, "pop")
  /\ UNCHANGED <<assembly, dataQ, posted, at, request, executed, outputQ, stopped>>

\* Waits if there is nothing, with the mutex held.
Pop(w) ==
  /\ pc[w] = "pop" /\ dataQ[at[w]] # <<>>
  /\ request' = [request EXCEPT ![w] = Head(dataQ[at[w]])]
  /\ dataQ' = [dataQ EXCEPT ![at[w]] = Tail(@)]
  /\ Goto(w, "request")
  /\ UNCHANGED <<assembly, posted, at, serverMutex, executed, outputQ, stopped>>

\* "Not all requests produce a response."
Request(w) ==
  /\ pc[w] = "request"
  /\ executed' = [executed EXCEPT ![at[w]] = Append(@, request[w])]
  /\ \E label \in {"respond", "unlock"} : Goto(w, label)
  /\ UNCHANGED <<assembly, dataQ, posted, at, request, serverMutex, outputQ, stopped>>

Respond(w) ==
  /\ pc[w] = "respond"
  /\ outputQ' = [outputQ EXCEPT ![at[w]] = Append(@, request[w])]
  /\ Goto(w, "unlock")
  /\ UNCHANGED <<assembly, dataQ, posted, at, request, serverMutex, executed, stopped>>

Unlock(w) ==
  /\ pc[w] = "unlock"
  /\ serverMutex' = [serverMutex EXCEPT ![at[w]] = None]
  /\ at' = [at EXCEPT ![w] = None]
  /\ request' = [request EXCEPT ![w] = None]
  /\ Goto(w, "idle")
  /\ UNCHANGED <<assembly, dataQ, posted, executed, outputQ, stopped>>

\* threads.join_all returns when every thread is idle.
Uninit ==
  /\ ~stopped
  /\ stopped' = TRUE
  /\ UNCHANGED <<assembly, dataQ, posted, pc, at, request, serverMutex, executed, outputQ>>

-----------------------------------------------------------------------------

Continue(w) == Lock(w) \/ Pop(w) \/ Request(w) \/ Respond(w) \/ Unlock(w)

Next ==
  \/ \E s \in Service : PushHeader(s) \/ PushChunk(s)
  \/ \E w \in Worker : Run(w) \/ Continue(w)
  \/ Uninit

Spec == Init /\ [][Next]_vars

-----------------------------------------------------------------------------

Waiting(s) == Cardinality({w \in Worker : at[w] = s /\ pc[w] \in {"lock", "pop"}})

\* Requests of a service are carried out in the order in which they came, one at
\* a time, and answered in that order, although several threads work for it and
\* its mutex is given to any of them: it is the queue, read under the mutex, that
\* keeps the order ("back-to-back/temporally near messages").
RequestsKeepOrder ==
  \A s \in Service :
    LET begun == {w \in Worker : at[w] = s /\ pc[w] = "request"}
    IN  /\ Cardinality(begun) <= 1
        /\ executed[s] = [k \in DOMAIN executed[s] |-> k]
        /\ \A k \in 1..(Len(outputQ[s]) - 1) : outputQ[s][k] < outputQ[s][k + 1]

\* A call of HandleMessage finds its request: none waits on an empty queue with
\* the mutex held, and no request is left without a call.
EveryCallHasItsRequest ==
  \A s \in Service :
    Len(dataQ[s]) = Waiting(s) + Cardinality({k \in DOMAIN posted : posted[k] = s})

\* Whatever was complete is carried out, unless the pool was stopped first.
RequestsAreServed == \A s \in Service : dataQ[s] # <<>> ~> dataQ[s] = <<>> \/ stopped

\* Threads that were at something when the pool was stopped finish it: join_all
\* returns.
JoinReturns == stopped ~> \A w \in Worker : pc[w] = "idle"

=============================================================================
