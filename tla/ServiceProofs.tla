---------------------------- MODULE ServiceProofs ----------------------------
(***************************************************************************)
(* Services, for any number of services, worker threads, requests, callers *)
(* and chunks; and the pipes between platforms, for any processes, links   *)
(* and words.                                                              *)
(*                                                                         *)
(* The server: a thread that is past the mutex of a service is the one that*)
(* holds it, so there is at most one, and what it has popped is the request*)
(* after those carried out.  Taken counts it among the latter; the queue   *)
(* then holds the numbers that follow, and the answers are below it.  Each *)
(* call that is posted, or that a thread has begun and not yet popped for, *)
(* stands for one entry of the queue.                                      *)
(*                                                                         *)
(* The client: at most one request that has a response is on its way, that *)
(* of the holder of the mutex, and only while nothing of a response is.  As*)
(* soon as the hardware has taken it, what is in the channel and what the  *)
(* hardware still has to send add up to what its header says.              *)
(*                                                                         *)
(* The pipes: the entries that the devices of a process have opened are    *)
(* those below their number, each numbered as itself, so no two share one; *)
(* and what a pipe holds follows from where the threads at its ends are.   *)
(* The words of a line are then in four places, in this order: with the    *)
(* sink, queued there, in the pipe, queued at the source.                  *)
(***************************************************************************)
EXTENDS RRRServer, CountingLemmas, TLAPS

CONSTANTS Caller, MaxPending

VARIABLES callerPc, remaining, makeRequestMutex, outputChannel, answering, inputChannel

Client == INSTANCE RRRClient WITH pc <- callerPc

CONSTANTS Line, MaxOpen, Retries, MaxWords

VARIABLES
  state, handle, tableIndex, freeList, entry, incomingQ, outgoingQ, reader, retries,
  writer, pipe, running, written, received

Pipes == INSTANCE UnixDevice

-----------------------------------------------------------------------------
(* The server.                                                             *)

Critical == {"pop", "request", "respond", "unlock"}

TypeOK ==
  /\ arrived \in [Service -> Nat]
  /\ currentRequest \in [Service -> (Nat \ {0}) \cup {None}]
  /\ dataQ \in [Service -> Seq(Nat)]
  /\ posted \in Seq(Service)
  /\ pc \in [Worker -> {"idle", "lock"} \cup Critical]
  /\ at \in [Worker -> Service \cup {None}]
  /\ request \in [Worker -> Nat \cup {None}]
  /\ serverMutex \in [Service -> Worker \cup {None}]
  /\ executed \in [Service -> Seq(Nat)]
  /\ outputQ \in [Service -> Seq(Nat)]

\* Who is past the mutex holds it, and the other way round.
Holding ==
  /\ \A w \in Worker :
       /\ pc[w] # "idle" => at[w] \in Service
       /\ pc[w] \in Critical => serverMutex[at[w]] = w
  /\ \A s \in Service : serverMutex[s] # None =>
       at[serverMutex[s]] = s /\ pc[serverMutex[s]] \in Critical

\* Requests popped: those carried out, and the one at hand.
Taken == [s \in Service |->
  IF serverMutex[s] # None /\ pc[serverMutex[s]] = "request"
  THEN Len(executed[s]) + 1 ELSE Len(executed[s])]

\* Numbers follow each other, from the first carried out to the last in the queue.
InOrder ==
  \A s \in Service :
    /\ \A k \in 1..Len(executed[s]) : executed[s][k] = k
    /\ \A k \in 1..Len(dataQ[s]) : dataQ[s][k] = Taken[s] + k
    /\ arrived[s] = Taken[s] + Len(dataQ[s]) + (IF currentRequest[s] = None THEN 0 ELSE 1)

\* What a thread has at hand.
AtHand ==
  \A w \in Worker :
    /\ pc[w] = "request" => request[w] = Len(executed[at[w]]) + 1
    /\ pc[w] = "respond" => request[w] = Len(executed[at[w]])

\* Answers ascend, and that to the request at hand is not among them yet.
Answered ==
  /\ \A s \in Service :
       /\ \A k \in 1..Len(outputQ[s]) : outputQ[s][k] <= Len(executed[s])
       /\ \A k \in 1..(Len(outputQ[s]) - 1) : outputQ[s][k] < outputQ[s][k + 1]
  /\ \A w \in Worker : pc[w] = "respond" =>
       \A k \in 1..Len(outputQ[at[w]]) : outputQ[at[w]][k] < request[w]

IInv == TypeOK /\ Holding /\ InOrder /\ AtHand /\ Answered

-----------------------------------------------------------------------------
(* The client.                                                             *)

Answer == [to : Caller, toCome : Nat]

ClientTypeOK ==
  /\ callerPc \in [Caller -> {"idle", "lock", "push", "header", "body", "unlock"}]
  /\ remaining \in [Caller -> Nat]
  /\ makeRequestMutex \in Caller \cup {None}
  /\ outputChannel \in Seq([from : Caller, response : BOOLEAN])
  /\ answering \in Answer \cup {None}
  /\ inputChannel \in Seq([to : Caller, numChunks : Nat])

\* Threads between Lock and Unlock.
ClientHolding ==
  \A c \in Caller :
    callerPc[c] \in {"push", "header", "body", "unlock"} <=> makeRequestMutex = c

\* A request on its way that has a response.
Asking == {k \in 1..Len(outputChannel) : outputChannel[k].response}

\* There is one at most, of the holder, who waits for a header.
OneAsks ==
  /\ \A j, k \in Asking : j = k
  /\ \A k \in Asking : outputChannel[k].from = makeRequestMutex
  /\ Asking # {} => \E c \in Caller : makeRequestMutex = c /\ callerPc[c] = "header"

\* Chunks that the hardware has still to send.
ToCome == IF answering = None THEN 0 ELSE answering.toCome

NothingComes == inputChannel = <<>> /\ answering = None

\* What comes is for the holder, and a header can only be the first of it.
ComesToHolder ==
  /\ answering # None => answering.to = makeRequestMutex /\ answering.toCome > 0
  /\ \A k \in 1..Len(inputChannel) :
       /\ inputChannel[k].to = makeRequestMutex
       /\ k > 1 => inputChannel[k].numChunks = 0

\* How much of a response is to come.
RestComes ==
  /\ makeRequestMutex = None \/ Asking # {} => NothingComes
  /\ \A c \in Caller :
       /\ callerPc[c] \in {"push", "unlock"} => NothingComes
       /\ callerPc[c] = "header" /\ Asking = {} =>
            /\ inputChannel # <<>>
            /\ inputChannel[1].numChunks + 1 = Len(inputChannel) + ToCome
       /\ callerPc[c] = "body" =>
            /\ remaining[c] = Len(inputChannel) + ToCome
            /\ remaining[c] > 0
            /\ inputChannel # <<>> => inputChannel[1].numChunks = 0

ClientIInv == ClientTypeOK /\ ClientHolding /\ OneAsks /\ ComesToHolder /\ RestComes

-----------------------------------------------------------------------------
(* The pipes.                                                              *)

\* Devices of a process that have opened a channel.
Opened(p) == {d \in Pipes!Devices(p) : state[d] = "ready"}

\* The state of a line's ends, of its pipe and its words.
LineTypes ==
  /\ reader \in [Line -> {"none", "open", "timed out", "sync", "read", "ended"}]
  /\ writer \in [Line -> {"none", "mkfifo", "open", "sync", "write"}]
  /\ pipe \in [Line -> Seq(Pipes!CommBlock) \cup {None}]
  /\ written \in [Line -> Nat]
  /\ received \in [Line -> Seq(Pipes!CommBlock)]

PipesTypeOK ==
  /\ state \in [Pipes!Device -> {"init0", "init1", "ready"}]
  /\ handle \in [Pipes!Device -> Nat]
  /\ tableIndex \in [Pipes!Process -> [Pipes!Entries -> Nat] \cup {None}]
  /\ freeList \in [Pipes!Process -> Seq(Nat)]
  /\ entry \in [Pipes!Device -> Pipes!Entries \cup {None}]
  /\ incomingQ \in [Pipes!Process -> [Pipes!Entries -> Seq(Pipes!CommBlock)]]
  /\ outgoingQ \in [Pipes!Process -> [Pipes!Entries -> Seq(Pipes!CommBlock)]]
  /\ LineTypes

\* Entries are given out one after the other.
Tabled ==
  \A p \in Pipes!Process :
    /\ tableIndex[p] = None => \A d \in Pipes!Devices(p) : state[d] = "init0"
    /\ tableIndex[p] # None =>
         /\ tableIndex[p] = Pipes!Numbered
         /\ Len(freeList[p]) + Cardinality(Opened(p)) = MaxOpen
         /\ \A k \in 1..Len(freeList[p]) : freeList[p][k] = Cardinality(Opened(p)) + k - 1

\* No two devices of a process have the same, and the handle leads to it.
Separate ==
  /\ \A d \in Pipes!Device :
       IF state[d] = "ready"
       THEN entry[d] \in Pipes!Entries /\ entry[d] < Cardinality(Opened(d[1]))
          /\ handle[d] = entry[d]
       ELSE entry[d] = None
  /\ \A d, e \in Pipes!Device :
       d[1] = e[1] /\ state[d] = "ready" /\ state[e] = "ready" /\ entry[d] = entry[e] => d = e

\* Nothing is in the queues of an entry that nobody has opened.
Unused ==
  \A p \in Pipes!Process, k \in Pipes!Entries : k >= Cardinality(Opened(p)) =>
    incomingQ[p][k] = <<>> /\ outgoingQ[p][k] = <<>>

\* Where the threads at both ends of a line are, and what is in the pipe then.
Paired(l) ==
  /\ writer[l] = "none" <=> state[Pipes!Source(l)] # "ready"
  /\ reader[l] = "none" <=> state[Pipes!Sink(l)] # "ready"
  /\ writer[l] \in {"none", "mkfifo"} => pipe[l] \in {None, <<>>}
  /\ writer[l] \in {"open", "sync"} => pipe[l] = <<>>
  /\ writer[l] \in {"none", "mkfifo", "open"} => reader[l] \in {"none", "open", "timed out"}
  /\ writer[l] = "sync" => reader[l] = "sync"
  /\ writer[l] = "write" =>
       /\ reader[l] \in {"sync", "read", "ended"}
       /\ pipe[l] # None
       /\ \A k \in 1..Len(pipe[l]) : pipe[l][k].sync <=> (k = 1 /\ reader[l] = "sync")
       /\ reader[l] = "sync" /\ pipe[l] = <<>> => l.from \notin running

\* The words of line l after the first n.
Follow(q, l, n) == \A k \in 1..Len(q) : q[k] = Pipes!Word(l, n + k)

\* The w words of line l, in four places that follow each other.
Consecutive(l, a, b, c, d, w) ==
  /\ Follow(a, l, 0)
  /\ Follow(b, l, Len(a))
  /\ Follow(c, l, Len(a) + Len(b))
  /\ Follow(d, l, Len(a) + Len(b) + Len(c))
  /\ w = Len(a) + Len(b) + Len(c) + Len(d)

\* A word is with the sink, queued there, in the pipe or queued at the source.
Ordered(l) ==
  Consecutive(l, received[l], Pipes!Queued(incomingQ, Pipes!Sink(l)), Pipes!Piped(l),
    Pipes!Queued(outgoingQ, Pipes!Source(l)), written[l])

PipesInv == PipesTypeOK /\ Tabled /\ Separate /\ Unused /\ \A l \in Line : Paired(l) /\ Ordered(l)

\* comm_init leaves the number of the last entry as it was, 0: no device gets it.
OneEntrySpare ==
  /\ Pipes!UnixDeviceAssumption
  /\ \A p \in Pipes!Process : Cardinality(Pipes!Devices(p)) < MaxOpen

-----------------------------------------------------------------------------
(* Queues.                                                                 *)

\* One entry more.
LEMMA Appended ==
  ASSUME NEW S, NEW q \in Seq(S), NEW x \in S
  PROVE  /\ Append(q, x) \in Seq(S)
         /\ Len(Append(q, x)) = Len(q) + 1
         /\ Len(q) \in Nat
         /\ \A k \in 1..(Len(q) + 1) :
              Append(q, x)[k] = IF k = Len(q) + 1 THEN x ELSE q[k]
<1>1. Len(q) \in Nat
  BY LenProperties
<1>2. QED
  BY <1>1, AppendProperties

\* The first entry less.
LEMMA Taking ==
  ASSUME NEW S, NEW q \in Seq(S), q # <<>>
  PROVE  /\ Head(q) = q[1] /\ Head(q) \in S
         /\ Tail(q) \in Seq(S)
         /\ Len(q) \in Nat \ {0}
         /\ Len(Tail(q)) = Len(q) - 1
         /\ \A k \in 1..(Len(q) - 1) : Tail(q)[k] = q[k + 1]
<1>1. Len(q) \in Nat \ {0}
  BY EmptySeq
<1>2. QED
  BY <1>1, HeadTailProperties

-----------------------------------------------------------------------------
(* The server, step by step.                                               *)

\* Initially nothing has arrived.
LEMMA InitServer ==
  ASSUME RRRServerAssumption, Init
  PROVE  IInv
<1>1. \A S : <<>> \in Seq(S) /\ Len(<<>>) = 0
  BY EmptySeq
<1>2. TypeOK
  BY <1>1 DEF Init, TypeOK
<1>3. Holding /\ AtHand /\ Answered
  BY <1>1 DEF Init, Holding, AtHand, Answered, Critical
<1>4. InOrder
  BY <1>1 DEF Init, InOrder, Taken
<1>5. QED
  BY <1>2, <1>3, <1>4 DEF IInv

\* A chunk completes its request, or does not.
LEMMA CompleteKeepsIInv ==
  ASSUME RRRServerAssumption, IInv,
         NEW s \in Service, NEW toCome \in Nat,
         Complete(s, arrived'[s], toCome),
         arrived' \in [Service -> Nat],
         \A r \in Service : r # s => arrived'[r] = arrived[r],
         arrived'[s] = Taken[s] + Len(dataQ[s]) + 1,
         UNCHANGED <<pc, at, request, serverMutex, executed, outputQ>>
  PROVE  IInv'
<1> USE DEF RRRServerAssumption
<1>1. TypeOK /\ Holding /\ InOrder /\ AtHand /\ Answered
  BY DEF IInv
<1>2. /\ Holding' /\ AtHand' /\ Answered'
      /\ \A r \in Service : Taken'[r] = Taken[r]
  BY <1>1 DEF Holding, AtHand, Answered, Taken
<1>3. \A r \in Service : Taken[r] \in Nat /\ Len(dataQ[r]) \in Nat
  BY <1>1, LenProperties DEF TypeOK, Taken
<1>4. CASE toCome = 0
  <2>1. /\ currentRequest' = [currentRequest EXCEPT ![s] = None]
        /\ dataQ' = [dataQ EXCEPT ![s] = Append(@, arrived'[s])]
        /\ posted' = Append(posted, s)
    BY <1>4 DEF Complete
  <2>2. /\ Len(dataQ'[s]) = Len(dataQ[s]) + 1
        /\ \A k \in 1..(Len(dataQ[s]) + 1) :
             dataQ'[s][k] = IF k = Len(dataQ[s]) + 1 THEN arrived'[s] ELSE dataQ[s][k]
    <3>1. dataQ[s] \in Seq(Nat) /\ dataQ'[s] = Append(dataQ[s], arrived'[s])
             /\ arrived'[s] \in Nat
      BY <1>1, <2>1 DEF TypeOK
    <3>2. QED
      BY <3>1, Appended
  <2>3. \A r \in Service : r # s => dataQ'[r] = dataQ[r] /\ currentRequest'[r] = currentRequest[r]
    BY <1>1, <2>1 DEF TypeOK
  <2>4. posted' \in Seq(Service)
    BY <1>1, <2>1, Appended DEF TypeOK
  <2>5. TypeOK'
    <3>1. dataQ'[s] \in Seq(Nat)
      BY <1>1, <2>1, Appended DEF TypeOK
    <3>2. QED
      BY <1>1, <2>1, <2>4, <3>1 DEF TypeOK
  <2>6. InOrder'
    <3>1. \A k \in 1..Len(dataQ'[s]) : dataQ'[s][k] = Taken[s] + k
      <4> DEFINE d == Len(dataQ[s])
                 d1 == Len(dataQ'[s])
                 t == Taken[s]
                 last == arrived'[s]
      <4>1. /\ t \in Nat /\ d \in Nat /\ d1 = d + 1
            /\ last = t + d + 1
            /\ \A k \in 1..(d + 1) : dataQ'[s][k] = IF k = d + 1 THEN last ELSE dataQ[s][k]
            /\ \A k \in 1..d : dataQ[s][k] = t + k
        BY <1>1, <1>3, <2>2 DEF InOrder
      <4> HIDE DEF d, d1, t, last
      <4>2. \A k \in 1..d1 : dataQ'[s][k] = t + k
        <5> TAKE k \in 1..d1
        <5>1. CASE k = d + 1
          BY <4>1, <5>1
        <5>2. CASE k \in 1..d
          BY <4>1, <5>2
        <5>3. QED
          BY <4>1, <5>1, <5>2
      <4>3. QED
        BY <4>2 DEF d1, t
    <3>2. currentRequest'[s] = None
      BY <1>1, <2>1 DEF TypeOK
    <3>3. arrived'[s] = Taken[s] + Len(dataQ'[s]) + 0
      BY <1>3, <2>2
    <3>4. \A r \in Service : r # s =>
            /\ \A k \in 1..Len(dataQ'[r]) : dataQ'[r][k] = Taken'[r] + k
            /\ arrived'[r] = Taken'[r] + Len(dataQ'[r]) + (IF currentRequest'[r] = None THEN 0 ELSE 1)
      BY <1>1, <1>2, <2>3 DEF InOrder
    <3>5. \A r \in Service : \A k \in 1..Len(executed'[r]) : executed'[r][k] = k
      BY <1>1 DEF InOrder
    <3>6. QED
      BY <1>2, <3>1, <3>2, <3>3, <3>4, <3>5 DEF InOrder
  <2>7. QED
    BY <1>2, <2>5, <2>6 DEF IInv
<1>5. CASE toCome # 0
  <2>1. /\ currentRequest' = [currentRequest EXCEPT ![s] = toCome]
        /\ UNCHANGED <<dataQ, posted>>
    BY <1>5 DEF Complete
  <2>2. TypeOK'
    BY <1>1, <1>5, <2>1 DEF TypeOK
  <2>3. InOrder'
    <3>1. currentRequest'[s] # None
      BY <1>1, <1>5, <2>1 DEF TypeOK
    <3>2. \A r \in Service : r # s => currentRequest'[r] = currentRequest[r]
      BY <1>1, <2>1 DEF TypeOK
    <3>3. QED
      BY <1>1, <1>2, <2>1, <3>1, <3>2 DEF InOrder
  <2>4. QED
    BY <1>2, <2>2, <2>3 DEF IInv
<1>6. QED
  BY <1>4, <1>5

\* The header of a request, the number after the last.
LEMMA PushHeaderKeepsIInv ==
  ASSUME RRRServerAssumption, IInv, NEW s \in Service, PushHeader(s)
  PROVE  IInv'
<1>1. TypeOK /\ InOrder
  BY DEF IInv
<1>2. PICK numChunks \in 0..MaxChunks : Complete(s, arrived[s] + 1, numChunks)
  BY DEF PushHeader
<1>3. /\ arrived' = [arrived EXCEPT ![s] = @ + 1]
      /\ arrived'[s] = arrived[s] + 1
      /\ currentRequest[s] = None
      /\ UNCHANGED <<pc, at, request, serverMutex, executed, outputQ>>
  BY <1>1 DEF PushHeader, TypeOK
<1>4. Taken[s] \in Nat /\ Len(dataQ[s]) \in Nat
  BY <1>1, LenProperties DEF TypeOK, Taken
<1>5. arrived'[s] = Taken[s] + Len(dataQ[s]) + 1
  BY <1>1, <1>3, <1>4 DEF InOrder
<1>6. /\ arrived' \in [Service -> Nat]
      /\ \A r \in Service : r # s => arrived'[r] = arrived[r]
  BY <1>1, <1>3 DEF TypeOK
<1>7. numChunks \in Nat
  BY DEF RRRServerAssumption
<1>8. QED
  BY <1>2, <1>3, <1>5, <1>6, <1>7, CompleteKeepsIInv

\* A chunk of its body.
LEMMA PushChunkKeepsIInv ==
  ASSUME RRRServerAssumption, IInv, NEW s \in Service, PushChunk(s)
  PROVE  IInv'
<1>1. TypeOK /\ InOrder
  BY DEF IInv
<1>2. /\ currentRequest[s] # None
      /\ Complete(s, arrived[s], currentRequest[s] - 1)
      /\ UNCHANGED <<arrived, pc, at, request, serverMutex, executed, outputQ>>
  BY DEF PushChunk
<1>3. currentRequest[s] - 1 \in Nat
  BY <1>1, <1>2 DEF TypeOK
<1>4. arrived[s] = Taken[s] + Len(dataQ[s]) + 1
  BY <1>1, <1>2 DEF InOrder
<1>5. arrived \in [Service -> Nat]
  BY <1>1 DEF TypeOK
<1>6. arrived' = arrived
  BY <1>2
<1>7. Complete(s, arrived'[s], currentRequest[s] - 1)
  BY <1>2, <1>6
<1>8. QED
  BY <1>2, <1>3, <1>4, <1>5, <1>6, <1>7, CompleteKeepsIInv

\* A thread is handed a call.
LEMMA RunKeepsIInv ==
  ASSUME RRRServerAssumption, IInv, NEW w \in Worker, Run(w)
  PROVE  IInv'
<1> USE DEF RRRServerAssumption
<1>1. TypeOK /\ Holding /\ InOrder /\ AtHand /\ Answered
  BY DEF IInv
<1>2. /\ pc[w] = "idle" /\ posted # <<>>
      /\ at' = [at EXCEPT ![w] = Head(posted)]
      /\ posted' = Tail(posted)
      /\ pc' = [pc EXCEPT ![w] = "lock"]
      /\ UNCHANGED <<arrived, currentRequest, dataQ, request, serverMutex, executed, outputQ>>
  BY DEF Run, Goto, assembly
<1>3. Head(posted) \in Service /\ Tail(posted) \in Seq(Service)
  BY <1>1, <1>2, Taking DEF TypeOK
<1>4. /\ at'[w] = Head(posted) /\ pc'[w] = "lock"
      /\ \A v \in Worker : v # w => at'[v] = at[v] /\ pc'[v] = pc[v]
  BY <1>1, <1>2 DEF TypeOK
<1>5. TypeOK'
  BY <1>1, <1>2, <1>3 DEF TypeOK
<1>6. \A s \in Service : serverMutex[s] # None => serverMutex[s] \in Worker /\ serverMutex[s] # w
  <2>1. pc[w] \notin Critical
    BY <1>2 DEF Critical
  <2>2. \A s \in Service : serverMutex[s] \in Worker \cup {None}
    BY <1>1 DEF TypeOK
  <2>3. QED
    BY <1>1, <2>1, <2>2 DEF Holding
<1>7. Holding'
  BY <1>1, <1>2, <1>3, <1>4, <1>6 DEF Holding, Critical
<1>8. \A s \in Service : Taken'[s] = Taken[s]
  BY <1>2, <1>4, <1>6 DEF Taken
<1>9. InOrder'
  BY <1>1, <1>2, <1>8 DEF InOrder
<1>10. AtHand' /\ Answered'
  BY <1>1, <1>2, <1>4 DEF AtHand, Answered
<1>11. QED
  BY <1>5, <1>7, <1>9, <1>10 DEF IInv

\* A thread gets the mutex of its service.
LEMMA LockKeepsIInv ==
  ASSUME RRRServerAssumption, IInv, NEW w \in Worker, Lock(w)
  PROVE  IInv'
<1> USE DEF RRRServerAssumption
<1>1. TypeOK /\ Holding /\ InOrder /\ AtHand /\ Answered
  BY DEF IInv
<1>2. /\ pc[w] = "lock" /\ serverMutex[at[w]] = None
      /\ serverMutex' = [serverMutex EXCEPT ![at[w]] = w]
      /\ pc' = [pc EXCEPT ![w] = "pop"]
      /\ UNCHANGED <<arrived, currentRequest, dataQ, posted, at, request, executed, outputQ>>
  BY DEF Lock, Goto, assembly
<1>3. at[w] \in Service
  BY <1>1, <1>2 DEF Holding
<1>4. /\ pc'[w] = "pop" /\ serverMutex'[at[w]] = w
      /\ \A v \in Worker : v # w => pc'[v] = pc[v]
      /\ \A s \in Service : s # at[w] => serverMutex'[s] = serverMutex[s]
  BY <1>1, <1>2, <1>3 DEF TypeOK
<1>5. TypeOK'
  BY <1>1, <1>2, <1>3 DEF TypeOK, Critical
<1>6. \A s \in Service : serverMutex[s] # None => serverMutex[s] \in Worker /\ serverMutex[s] # w
  <2>1. pc[w] \notin Critical
    BY <1>2 DEF Critical
  <2>2. \A s \in Service : serverMutex[s] \in Worker \cup {None}
    BY <1>1 DEF TypeOK
  <2>3. QED
    BY <1>1, <2>1, <2>2 DEF Holding
<1>7. Holding'
  <2>1. \A v \in Worker : v # w =>
          (pc[v] # "idle" => at[v] \in Service) /\ (pc[v] \in Critical => serverMutex'[at[v]] = v)
    BY <1>1, <1>2, <1>3, <1>4 DEF Holding, Critical
  <2>2. QED
    BY <1>1, <1>2, <1>3, <1>4, <1>6, <2>1 DEF Holding, Critical
<1>8. \A s \in Service : Taken'[s] = Taken[s]
  BY <1>2, <1>3, <1>4, <1>6 DEF Taken
<1>9. InOrder'
  BY <1>1, <1>2, <1>8 DEF InOrder
<1>10. AtHand' /\ Answered'
  BY <1>1, <1>2, <1>4 DEF AtHand, Answered
<1>11. QED
  BY <1>5, <1>7, <1>9, <1>10 DEF IInv

\* It takes the first request of the queue: the one after those taken before.
LEMMA PopKeepsIInv ==
  ASSUME RRRServerAssumption, IInv, NEW w \in Worker, Pop(w)
  PROVE  IInv'
<1> USE DEF RRRServerAssumption
<1> DEFINE s == at[w]
<1>1. TypeOK /\ Holding /\ InOrder /\ AtHand /\ Answered
  BY DEF IInv
<1>2. /\ pc[w] = "pop" /\ dataQ[s] # <<>>
      /\ request' = [request EXCEPT ![w] = Head(dataQ[s])]
      /\ dataQ' = [dataQ EXCEPT ![s] = Tail(@)]
      /\ pc' = [pc EXCEPT ![w] = "request"]
      /\ UNCHANGED <<arrived, currentRequest, posted, at, serverMutex, executed, outputQ>>
  BY DEF Pop, Goto, assembly
<1>3. s \in Service /\ serverMutex[s] = w
  BY <1>1, <1>2 DEF Holding, Critical
<1> HIDE DEF s
<1>4. dataQ[s] \in Seq(Nat) /\ Len(executed[s]) \in Nat
  BY <1>1, <1>3, LenProperties DEF TypeOK
<1>5. /\ Head(dataQ[s]) = dataQ[s][1] /\ Head(dataQ[s]) \in Nat
      /\ Tail(dataQ[s]) \in Seq(Nat)
      /\ Len(dataQ[s]) \in Nat \ {0}
      /\ Len(Tail(dataQ[s])) = Len(dataQ[s]) - 1
      /\ \A k \in 1..(Len(dataQ[s]) - 1) : Tail(dataQ[s])[k] = dataQ[s][k + 1]
  BY <1>2, <1>4, Taking
<1>6. /\ pc'[w] = "request" /\ request'[w] = dataQ[s][1] /\ dataQ'[s] = Tail(dataQ[s])
      /\ \A v \in Worker : v # w => pc'[v] = pc[v] /\ request'[v] = request[v]
      /\ \A r \in Service : r # s => dataQ'[r] = dataQ[r]
  BY <1>1, <1>2, <1>3, <1>5 DEF TypeOK
<1>7. TypeOK'
  BY <1>1, <1>2, <1>3, <1>5 DEF TypeOK, Critical
<1>8. Holding'
  BY <1>1, <1>2, <1>3, <1>6 DEF Holding, Critical
<1>9. Taken[s] = Len(executed[s]) /\ Taken'[s] = Len(executed[s]) + 1
  BY <1>2, <1>3, <1>6 DEF Taken
<1>10. \A r \in Service : r # s => Taken'[r] = Taken[r]
  <2>1. \A r \in Service : r # s /\ serverMutex[r] # None =>
          serverMutex[r] \in Worker /\ serverMutex[r] # w
    BY <1>1, <1>3 DEF Holding, TypeOK, s
  <2>2. QED
    BY <1>2, <1>6, <2>1 DEF Taken
<1>11. \A k \in 1..Len(dataQ[s]) : dataQ[s][k] = Len(executed[s]) + k
  BY <1>1, <1>3, <1>9 DEF InOrder
<1>12. InOrder'
  <2> DEFINE d == Len(dataQ[s])
             d1 == Len(dataQ'[s])
             e == Len(executed[s])
  <2>1. /\ d \in Nat \ {0} /\ e \in Nat /\ d1 = d - 1
        /\ \A k \in 1..(d - 1) : dataQ'[s][k] = dataQ[s][k + 1]
    BY <1>4, <1>5, <1>6
  <2>2. /\ Taken[s] = e /\ Taken'[s] = e + 1
        /\ \A k \in 1..d : dataQ[s][k] = e + k
    BY <1>9, <1>11
  <2> HIDE DEF d, d1, e
  <2>3. \A k \in 1..d1 : dataQ'[s][k] = Taken'[s] + k
    BY <2>1, <2>2
  <2>4. Taken'[s] + d1 = Taken[s] + d
    BY <2>1, <2>2
  <2>5. /\ executed' = executed /\ arrived' = arrived /\ currentRequest' = currentRequest
        /\ \A r \in Service : r # s => dataQ'[r] = dataQ[r] /\ Taken'[r] = Taken[r]
    BY <1>2, <1>6, <1>10
  <2>6. arrived[s] = Taken[s] + d + (IF currentRequest[s] = None THEN 0 ELSE 1)
    BY <1>1, <1>3 DEF InOrder, d
  <2>7. arrived[s] = Taken'[s] + d1 + (IF currentRequest[s] = None THEN 0 ELSE 1)
    BY <2>4, <2>6
  <2>8. QED
    BY <1>1, <2>3, <2>5, <2>7 DEF InOrder, d1
<1>13. AtHand'
  <2>1. request'[w] = Len(executed[s]) + 1
    <3> DEFINE d == Len(dataQ[s])
               e == Len(executed[s])
    <3>1. d \in Nat \ {0} /\ request'[w] = dataQ[s][1] /\ \A k \in 1..d : dataQ[s][k] = e + k
      BY <1>5, <1>6, <1>11
    <3> HIDE DEF d, e
    <3>2. 1 \in 1..d
      BY <3>1
    <3>3. request'[w] = e + 1
      BY <3>1, <3>2
    <3>4. QED
      BY <3>3 DEF e
  <2>2. QED
    BY <1>1, <1>2, <1>6, <2>1 DEF AtHand, s
<1>14. Answered'
  BY <1>1, <1>2, <1>6 DEF Answered
<1>15. QED
  BY <1>7, <1>8, <1>12, <1>13, <1>14 DEF IInv

\* It carries out what it has taken.
LEMMA RequestKeepsIInv ==
  ASSUME RRRServerAssumption, IInv, NEW w \in Worker, Request(w)
  PROVE  IInv'
<1> USE DEF RRRServerAssumption
<1> DEFINE s == at[w]
           e == Len(executed[s])
           e1 == Len(executed'[s])
<1>1. TypeOK /\ Holding /\ InOrder /\ AtHand /\ Answered
  BY DEF IInv
<1>2. PICK label \in {"respond", "unlock"} : pc' = [pc EXCEPT ![w] = label]
  BY DEF Request, Goto
<1>3. /\ pc[w] = "request"
      /\ executed' = [executed EXCEPT ![s] = Append(@, request[w])]
      /\ UNCHANGED <<arrived, currentRequest, dataQ, posted, at, request, serverMutex, outputQ>>
  BY DEF Request, assembly
<1>4. s \in Service /\ serverMutex[s] = w
  BY <1>1, <1>3 DEF Holding, Critical
<1>5. \A v \in Worker : v # w /\ pc[v] \in Critical => at[v] \in Service /\ at[v] # s
  BY <1>1, <1>4 DEF Holding, Critical
<1>6. executed[s] \in Seq(Nat) /\ request[w] = e + 1
  BY <1>1, <1>3, <1>4 DEF TypeOK, AtHand
<1>7. e \in Nat
  BY <1>6, LenProperties
<1>8. request[w] \in Nat
  BY <1>6, <1>7
<1>9. executed'[s] = Append(executed[s], request[w])
  BY <1>1, <1>3, <1>4 DEF TypeOK
<1>10. \A r \in Service : r # s => executed'[r] = executed[r]
  BY <1>1, <1>3, <1>4 DEF TypeOK
<1>11. /\ executed'[s] \in Seq(Nat)
       /\ e1 = e + 1
       /\ \A k \in 1..(e + 1) : executed'[s][k] = IF k = e + 1 THEN request[w] ELSE executed[s][k]
  BY <1>6, <1>8, <1>9, Appended
<1>12. pc'[w] = label /\ \A v \in Worker : v # w => pc'[v] = pc[v]
  BY <1>1, <1>2 DEF TypeOK
<1> HIDE DEF s
<1>13. TypeOK'
  <2>1. executed' \in [Service -> Seq(Nat)]
    BY <1>1, <1>3, <1>4, <1>9, <1>11 DEF TypeOK
  <2>2. pc' \in [Worker -> {"idle", "lock"} \cup Critical]
    BY <1>1, <1>2 DEF TypeOK, Critical
  <2>3. QED
    BY <1>1, <1>3, <2>1, <2>2 DEF TypeOK
<1>14. Holding'
  BY <1>1, <1>2, <1>3, <1>4, <1>12 DEF Holding, Critical
<1>15. Taken[s] = e + 1 /\ Taken'[s] = e1
  BY <1>3, <1>4, <1>12 DEF Taken
<1>16. \A r \in Service : r # s => Taken'[r] = Taken[r]
  <2>1. \A r \in Service : r # s /\ serverMutex[r] # None =>
          serverMutex[r] \in Worker /\ serverMutex[r] # w
    BY <1>1, <1>4 DEF Holding, TypeOK, s
  <2>2. QED
    BY <1>3, <1>10, <1>12, <2>1 DEF Taken
<1>17. \A k \in 1..e1 : executed'[s][k] = k
  <2>1. \A k \in 1..e : executed[s][k] = k
    BY <1>1, <1>4 DEF InOrder
  <2> HIDE DEF e, e1
  <2>2. TAKE k \in 1..e1
  <2>3. CASE k = e + 1
    BY <1>6, <1>7, <1>11, <2>3
  <2>4. CASE k \in 1..e
    BY <1>7, <1>11, <2>1, <2>4
  <2>5. QED
    BY <1>7, <1>11, <2>3, <2>4
<1>18. InOrder'
  <2>1. Taken' = Taken
    BY <1>11, <1>15, <1>16 DEF Taken
  <2>2. QED
    BY <1>1, <1>3, <1>10, <1>17, <2>1 DEF InOrder, e1
<1>19. AtHand'
  <2>1. request[w] = Len(executed'[s])
    BY <1>6, <1>11
  <2>2. QED
    <3>1. \A v \in Worker : v # w /\ pc[v] \in Critical => executed'[at[v]] = executed[at[v]]
      BY <1>5, <1>10
    <3>2. ASSUME NEW v \in Worker, v # w
          PROVE  /\ pc'[v] = "request" => request'[v] = Len(executed'[at'[v]]) + 1
                 /\ pc'[v] = "respond" => request'[v] = Len(executed'[at'[v]])
      BY <1>1, <1>3, <1>12, <3>1, <3>2 DEF AtHand, Critical
    <3>3. pc'[w] # "request" /\ request'[w] = Len(executed'[at'[w]])
      BY <1>2, <1>3, <1>12, <2>1 DEF s
    <3>4. QED
      BY <3>2, <3>3 DEF AtHand
<1>20. Answered'
  <2>1. \A k \in 1..Len(outputQ[s]) : outputQ[s][k] <= e /\ outputQ[s][k] \in Nat
    BY <1>1, <1>4, ElementOfSeq DEF Answered, TypeOK
  <2>2. \A k \in 1..Len(outputQ[s]) : outputQ[s][k] <= e1 /\ outputQ[s][k] < request[w]
    <3> HIDE DEF e, e1
    <3>1. QED
      BY <1>6, <1>7, <1>11, <2>1
  <2>3. QED
    BY <1>1, <1>3, <1>5, <1>10, <1>12, <2>2 DEF Answered, Critical, s
<1>21. QED
  BY <1>13, <1>14, <1>18, <1>19, <1>20 DEF IInv

\* It answers what it has just carried out.
LEMMA RespondKeepsIInv ==
  ASSUME RRRServerAssumption, IInv, NEW w \in Worker, Respond(w)
  PROVE  IInv'
<1> USE DEF RRRServerAssumption
<1> DEFINE s == at[w]
           o == Len(outputQ[s])
<1>1. TypeOK /\ Holding /\ InOrder /\ AtHand /\ Answered
  BY DEF IInv
<1>2. /\ pc[w] = "respond"
      /\ outputQ' = [outputQ EXCEPT ![s] = Append(@, request[w])]
      /\ pc' = [pc EXCEPT ![w] = "unlock"]
      /\ UNCHANGED <<arrived, currentRequest, dataQ, posted, at, request, serverMutex, executed>>
  BY DEF Respond, Goto, assembly
<1>3. s \in Service /\ serverMutex[s] = w
  BY <1>1, <1>2 DEF Holding, Critical
<1>4. \A v \in Worker : v # w /\ pc[v] \in Critical => at[v] \in Service /\ at[v] # s
  BY <1>1, <1>3 DEF Holding, Critical
<1>5. executed[s] \in Seq(Nat) /\ outputQ[s] \in Seq(Nat) /\ request[w] = Len(executed[s])
  BY <1>1, <1>2, <1>3 DEF TypeOK, AtHand
<1>6. o \in Nat /\ request[w] \in Nat
  BY <1>5, LenProperties
<1>7. outputQ'[s] = Append(outputQ[s], request[w])
  BY <1>1, <1>2, <1>3 DEF TypeOK
<1>8. \A r \in Service : r # s => outputQ'[r] = outputQ[r]
  BY <1>1, <1>2, <1>3 DEF TypeOK
<1>9. /\ outputQ'[s] \in Seq(Nat)
      /\ Len(outputQ'[s]) = o + 1
      /\ \A k \in 1..(o + 1) : outputQ'[s][k] = IF k = o + 1 THEN request[w] ELSE outputQ[s][k]
  BY <1>5, <1>6, <1>7, Appended
<1>10. pc'[w] = "unlock" /\ \A v \in Worker : v # w => pc'[v] = pc[v]
  BY <1>1, <1>2 DEF TypeOK
<1> HIDE DEF s
<1>11. TypeOK'
  <2>1. outputQ' \in [Service -> Seq(Nat)]
    BY <1>1, <1>2, <1>3, <1>7, <1>9 DEF TypeOK
  <2>2. pc' \in [Worker -> {"idle", "lock"} \cup Critical]
    BY <1>1, <1>2 DEF TypeOK, Critical
  <2>3. QED
    BY <1>1, <1>2, <2>1, <2>2 DEF TypeOK
<1>12. Holding'
  BY <1>1, <1>2, <1>3, <1>10 DEF Holding, Critical
<1>13. \A r \in Service : Taken'[r] = Taken[r]
  <2>1. \A r \in Service : serverMutex[r] # None => serverMutex[r] \in Worker
    BY <1>1 DEF TypeOK
  <2>2. QED
    BY <1>2, <1>10, <2>1 DEF Taken
<1>14. InOrder'
  BY <1>1, <1>2, <1>13 DEF InOrder
<1>15. AtHand'
  BY <1>1, <1>2, <1>10 DEF AtHand
<1>16. Answered'
  <2>1. /\ \A k \in 1..o : outputQ[s][k] < request[w]
        /\ \A k \in 1..(o - 1) : outputQ[s][k] < outputQ[s][k + 1]
    BY <1>1, <1>2, <1>3 DEF Answered, s
  <2>2. \A k \in 1..o : outputQ[s][k] \in Nat
    BY <1>5, ElementOfSeq
  <2>3. /\ \A k \in 1..(o + 1) : outputQ'[s][k] <= request[w]
        /\ \A k \in 1..o : outputQ'[s][k] < outputQ'[s][k + 1]
    <3> HIDE DEF o
    <3>1. \A k \in 1..(o + 1) : outputQ'[s][k] <= request[w]
      BY <1>6, <1>9, <2>1, <2>2
    <3>2. ASSUME NEW k \in 1..o
          PROVE  outputQ'[s][k] < outputQ'[s][k + 1]
      <4>1. k \in 1..(o + 1) /\ k # o + 1 /\ k + 1 \in 1..(o + 1)
        BY <1>6
      <4>2. outputQ'[s][k] = outputQ[s][k]
        BY <1>9, <4>1
      <4>3. CASE k = o
        BY <1>6, <1>9, <2>1, <4>1, <4>2, <4>3
      <4>4. CASE k # o
        <5>1. k \in 1..(o - 1) /\ k + 1 # o + 1
          BY <1>6, <4>4
        <5>2. QED
          BY <1>9, <2>1, <4>1, <4>2, <5>1
      <4>5. QED
        BY <4>3, <4>4
    <3>3. QED
      BY <3>1, <3>2
  <2>4. (o + 1) - 1 = o
    <3> HIDE DEF o
    <3>1. QED
      BY <1>6
  <2>5. /\ \A k \in 1..Len(outputQ'[s]) : outputQ'[s][k] <= Len(executed[s])
        /\ \A k \in 1..(Len(outputQ'[s]) - 1) : outputQ'[s][k] < outputQ'[s][k + 1]
    <3> HIDE DEF o
    <3>1. QED
      BY <1>5, <1>9, <2>3, <2>4
  <2>6. QED
    BY <1>1, <1>2, <1>4, <1>8, <1>10, <2>5 DEF Answered, Critical
<1>17. QED
  BY <1>11, <1>12, <1>14, <1>15, <1>16 DEF IInv

\* It lets go of the mutex.
LEMMA UnlockKeepsIInv ==
  ASSUME RRRServerAssumption, IInv, NEW w \in Worker, Unlock(w)
  PROVE  IInv'
<1> USE DEF RRRServerAssumption
<1> DEFINE s == at[w]
<1>1. TypeOK /\ Holding /\ InOrder /\ AtHand /\ Answered
  BY DEF IInv
<1>2. /\ pc[w] = "unlock"
      /\ serverMutex' = [serverMutex EXCEPT ![s] = None]
      /\ at' = [at EXCEPT ![w] = None]
      /\ request' = [request EXCEPT ![w] = None]
      /\ pc' = [pc EXCEPT ![w] = "idle"]
      /\ UNCHANGED <<arrived, currentRequest, dataQ, posted, executed, outputQ>>
  BY DEF Unlock, Goto, assembly
<1>3. s \in Service /\ serverMutex[s] = w
  BY <1>1, <1>2 DEF Holding, Critical
<1>4. \A v \in Worker : v # w /\ pc[v] \in Critical => at[v] \in Service /\ at[v] # s
  BY <1>1, <1>3 DEF Holding, Critical
<1> HIDE DEF s
<1>5. /\ pc'[w] = "idle" /\ serverMutex'[s] = None
      /\ \A v \in Worker : v # w => pc'[v] = pc[v] /\ at'[v] = at[v] /\ request'[v] = request[v]
      /\ \A r \in Service : r # s => serverMutex'[r] = serverMutex[r]
  BY <1>1, <1>2, <1>3 DEF TypeOK
<1>6. TypeOK'
  BY <1>1, <1>2, <1>3 DEF TypeOK, Critical
<1>7. \A r \in Service : r # s /\ serverMutex[r] # None =>
        serverMutex[r] \in Worker /\ serverMutex[r] # w
  BY <1>1, <1>3 DEF Holding, TypeOK, s
<1>8. Holding'
  BY <1>1, <1>4, <1>5, <1>7 DEF Holding, Critical
<1>9. \A r \in Service : Taken'[r] = Taken[r]
  BY <1>2, <1>3, <1>5, <1>7 DEF Taken
<1>10. InOrder'
  BY <1>1, <1>2, <1>9 DEF InOrder
<1>11. AtHand' /\ Answered'
  <2>1. \A v \in Worker : pc'[v] \in {"request", "respond"} =>
          pc'[v] = pc[v] /\ at'[v] = at[v] /\ request'[v] = request[v]
    BY <1>5
  <2>2. AtHand'
    BY <1>1, <1>2, <2>1 DEF AtHand
  <2>3. Answered'
    BY <1>1, <1>2, <2>1 DEF Answered
  <2>4. QED
    BY <2>2, <2>3
<1>12. QED
  BY <1>6, <1>8, <1>10, <1>11 DEF IInv

\* Every step keeps the invariant.
LEMMA ServerStep ==
  ASSUME RRRServerAssumption, IInv, [Next]_vars
  PROVE  IInv'
<1>1. CASE \E s \in Service : PushHeader(s) \/ PushChunk(s)
  BY <1>1, PushHeaderKeepsIInv, PushChunkKeepsIInv
<1>2. CASE \E w \in Worker : Run(w) \/ Continue(w)
  BY <1>2, RunKeepsIInv, LockKeepsIInv, PopKeepsIInv, RequestKeepsIInv, RespondKeepsIInv,
     UnlockKeepsIInv DEF Continue
<1>3. CASE Uninit \/ UNCHANGED vars
  <2>1. UNCHANGED <<arrived, currentRequest, dataQ, posted, pc, at, request, serverMutex,
                    executed, outputQ>>
    BY <1>3 DEF Uninit, vars, assembly
  <2>2. Taken' = Taken
    BY <2>1 DEF Taken
  <2>3. QED
    BY <2>1, <2>2 DEF IInv, TypeOK, Holding, InOrder, AtHand, Answered
<1>4. QED
  BY <1>1, <1>2, <1>3 DEF Next

\* For all parameters, IInv is an invariant.
LEMMA ServerInvariant == RRRServerAssumption => (Spec => []IInv)
<1> SUFFICES ASSUME RRRServerAssumption PROVE Spec => []IInv
  OBVIOUS
<1>1. Init => IInv
  BY InitServer
<1>2. IInv /\ [Next]_vars => IInv'
  BY ServerStep
<1>3. QED
  BY <1>1, <1>2, PTL DEF Spec

\* Two threads are not at requests of one service at once: RequestsKeepOrder.
LEMMA IInvGivesOrder ==
  ASSUME RRRServerAssumption, IInv
  PROVE  RequestsKeepOrder
<1>1. TypeOK /\ Holding /\ InOrder /\ Answered
  BY DEF IInv
<1>2. ASSUME NEW s \in Service
      PROVE  Cardinality({w \in Worker : at[w] = s /\ pc[w] = "request"}) <= 1
  <2> DEFINE begun == {w \in Worker : at[w] = s /\ pc[w] = "request"}
  <2>1. begun \subseteq {serverMutex[s]}
    BY <1>1 DEF Holding, Critical
  <2>2. IsFiniteSet({serverMutex[s]}) /\ Cardinality({serverMutex[s]}) = 1
    BY FS_Singleton
  <2>3. QED
    BY <2>1, <2>2, FS_Subset
<1>3. ASSUME NEW s \in Service
      PROVE  executed[s] = [k \in DOMAIN executed[s] |-> k]
  <2>1. executed[s] \in Seq(Nat)
    BY <1>1 DEF TypeOK
  <2>2. executed[s] \in [1..Len(executed[s]) -> Nat] /\ DOMAIN executed[s] = 1..Len(executed[s])
    BY <2>1, LenProperties
  <2>3. \A k \in DOMAIN executed[s] : executed[s][k] = k
    BY <1>1, <2>2 DEF InOrder
  <2>4. QED
    BY <2>2, <2>3
<1>4. \A s \in Service : \A k \in 1..(Len(outputQ[s]) - 1) : outputQ[s][k] < outputQ[s][k + 1]
  BY <1>1 DEF Answered
<1>5. QED
  BY <1>2, <1>3, <1>4 DEF RequestsKeepOrder

\* Requests of a service are carried out one at a time, in the order in which they
\* came, and answered in that order, by any number of threads (HandleMessage in
\* li-rrr-server.cpp).
THEOREM RequestsKeepOrderCorrect == RRRServerAssumption => (Spec => []RequestsKeepOrder)
<1> SUFFICES ASSUME RRRServerAssumption PROVE Spec => []RequestsKeepOrder
  OBVIOUS
<1>1. IInv => RequestsKeepOrder
  BY IInvGivesOrder
<1>2. QED
  BY <1>1, ServerInvariant, PTL

-----------------------------------------------------------------------------
(* Calls and requests.                                                     *)

\* Threads that have a call and not yet its request.
Due(s) == {w \in Worker : at[w] = s /\ pc[w] \in {"lock", "pop"}}

\* A call for each request.
Called ==
  \A s \in Service : Len(dataQ[s]) = Cardinality(Due(s)) + Cardinality(Places(posted, {s}))

\* What a step does to the queue and the calls of a service.
LEMMA CalledStep ==
  ASSUME RRRServerAssumption, IInv, Called, [Next]_vars
  PROVE  Called'
<1> USE DEF RRRServerAssumption
<1>1. IInv' /\ TypeOK /\ TypeOK' /\ Holding
  BY ServerStep DEF IInv
<1>2. \A s \in Service : Len(dataQ[s]) \in Nat
  BY <1>1, LenProperties DEF TypeOK
<1>3. \A s \in Service : Cardinality(Due(s)) \in Nat /\ IsFiniteSet(Due(s))
  <2> TAKE s \in Service
  <2>1. IsFiniteSet(Due(s))
    BY FS_Subset DEF Due
  <2>2. QED
    BY <2>1, FS_CardinalityType
<1>4. \A s \in Service : Cardinality(Places(posted, {s})) \in Nat
  <2> TAKE s \in Service
  <2>1. Cardinality(Places(posted, {s})) \in 0..Len(posted) /\ posted \in Seq(Service)
    BY <1>1, PlacesBounded DEF TypeOK
  <2>2. QED
    BY <2>1
<1>5. ASSUME NEW s \in Service, NEW number \in Nat, NEW toCome, Complete(s, number, toCome),
             UNCHANGED <<pc, at>>
      PROVE  Called'
  <2>1. \A r \in Service : Due(r)' = Due(r)
    BY <1>5 DEF Due
  <2>2. CASE toCome = 0
    <3>1. dataQ' = [dataQ EXCEPT ![s] = Append(@, number)] /\ posted' = Append(posted, s)
      BY <1>5, <2>2 DEF Complete
    <3>2. \A r \in Service : r # s => dataQ'[r] = dataQ[r]
      BY <1>1, <3>1 DEF TypeOK
    <3>3. Len(dataQ'[s]) = Len(dataQ[s]) + 1
      <4>1. dataQ[s] \in Seq(Nat) /\ dataQ'[s] = Append(dataQ[s], number)
        BY <1>1, <3>1 DEF TypeOK
      <4>2. QED
        BY <4>1, Appended
    <3>4. \A r \in Service :
            Cardinality(Places(posted', {r})) =
              Cardinality(Places(posted, {r})) + (IF s \in {r} THEN 1 ELSE 0)
      <4> TAKE r \in Service
      <4>1. posted \in Seq(Service)
        BY <1>1 DEF TypeOK
      <4>2. Cardinality(Places(Append(posted, s), {r})) =
              Cardinality(Places(posted, {r})) + (IF s \in {r} THEN 1 ELSE 0)
        BY <4>1, PlacesOfAppend
      <4>3. QED
        BY <3>1, <4>2
    <3>5. ASSUME NEW r \in Service
          PROVE  Len(dataQ'[r]) = Cardinality(Due(r)') + Cardinality(Places(posted', {r}))
      <4> DEFINE d == Len(dataQ[r])
                 c == Cardinality(Due(r))
                 p == Cardinality(Places(posted, {r}))
                 p1 == Cardinality(Places(posted', {r}))
      <4>1. d = c + p /\ d \in Nat /\ c \in Nat /\ p \in Nat
        BY <1>2, <1>3, <1>4 DEF Called
      <4>2. p1 = p + (IF s \in {r} THEN 1 ELSE 0)
        BY <3>4
      <4>3. Len(dataQ'[r]) = IF r = s THEN d + 1 ELSE d
        BY <3>2, <3>3
      <4>4. Cardinality(Due(r)') = c
        BY <2>1
      <4> HIDE DEF d, c, p, p1
      <4>5. Len(dataQ'[r]) = c + p1
        BY <4>1, <4>2, <4>3
      <4>6. QED
        BY <4>4, <4>5 DEF p1
    <3>6. QED
      BY <3>5 DEF Called
  <2>3. CASE toCome # 0
    <3>1. UNCHANGED <<dataQ, posted>>
      BY <1>5, <2>3 DEF Complete
    <3>2. QED
      BY <2>1, <3>1 DEF Called
  <2>4. QED
    BY <2>2, <2>3
<1>6. ASSUME NEW s \in Service, PushHeader(s) \/ PushChunk(s)
      PROVE  Called'
  <2>1. arrived[s] \in Nat /\ arrived[s] + 1 \in Nat
    BY <1>1 DEF TypeOK
  <2>2. UNCHANGED <<pc, at>>
    BY <1>6 DEF PushHeader, PushChunk
  <2>3. CASE PushHeader(s)
    <3>1. PICK numChunks \in 0..MaxChunks : Complete(s, arrived[s] + 1, numChunks)
      BY <2>3 DEF PushHeader
    <3>2. QED
      BY <1>5, <2>1, <2>2, <3>1
  <2>4. CASE PushChunk(s)
    <3>1. Complete(s, arrived[s], currentRequest[s] - 1)
      BY <2>4 DEF PushChunk
    <3>2. QED
      BY <1>5, <2>1, <2>2, <3>1
  <2>5. QED
    BY <1>6, <2>3, <2>4
<1>7. ASSUME NEW w \in Worker, Run(w)
      PROVE  Called'
  <2>0. Head(posted) \in Service
    BY <1>1, <1>7, Taking DEF TypeOK, Run
  <2> PICK s \in Service : s = Head(posted)
    BY <2>0
  <2>1. /\ pc[w] = "idle" /\ posted # <<>> /\ dataQ' = dataQ
        /\ s = Head(posted)
        /\ at' = [at EXCEPT ![w] = s]
        /\ posted' = Tail(posted)
        /\ pc' = [pc EXCEPT ![w] = "lock"]
    BY <1>7 DEF Run, Goto
  <2>2. posted \in Seq(Service)
    BY <1>1 DEF TypeOK
  <2>3. \A r \in Service :
          Cardinality(Places(posted, {r})) =
            Cardinality(Places(posted', {r})) + (IF s \in {r} THEN 1 ELSE 0)
    <3> TAKE r \in Service
    <3>1. Cardinality(Places(posted, {r})) =
            Cardinality(Places(Tail(posted), {r})) + (IF s \in {r} THEN 1 ELSE 0)
      BY <2>1, <2>2, PlacesOfTail
    <3>2. QED
      BY <2>1, <3>1
  <2>4. s \in Service
    OBVIOUS
  <2>5. Due(s)' = Due(s) \cup {w} /\ w \notin Due(s)
    <3>1. /\ at'[w] = s /\ pc'[w] = "lock" /\ pc[w] = "idle"
          /\ \A v \in Worker : v # w => at'[v] = at[v] /\ pc'[v] = pc[v]
      BY <1>1, <2>1 DEF TypeOK
    <3>2. QED
      BY <3>1 DEF Due
  <2>6. \A r \in Service : r # s => Due(r)' = Due(r)
    BY <1>1, <2>1, <2>4 DEF Due, TypeOK
  <2>7. \A r \in Service :
          Cardinality(Due(r)') = IF r = s THEN Cardinality(Due(r)) + 1 ELSE Cardinality(Due(r))
    <3>1. Cardinality(Due(s) \cup {w}) = Cardinality(Due(s)) + 1
      BY <1>3, <2>4, <2>5, FS_AddElement
    <3>2. QED
      BY <2>5, <2>6, <3>1
  <2>8. ASSUME NEW r \in Service
        PROVE  Len(dataQ'[r]) = Cardinality(Due(r)') + Cardinality(Places(posted', {r}))
    <3> DEFINE d == Len(dataQ[r])
               c == Cardinality(Due(r))
               c1 == Cardinality(Due(r)')
               p == Cardinality(Places(posted, {r}))
               p1 == Cardinality(Places(posted', {r}))
    <3>1. d = c + p /\ d \in Nat /\ c \in Nat /\ p \in Nat
      BY <1>2, <1>3, <1>4 DEF Called
    <3>2. p = p1 + (IF s \in {r} THEN 1 ELSE 0) /\ p1 \in Nat
      <4>1. posted' \in Seq(Service)
        BY <1>1 DEF TypeOK
      <4>2. p1 \in 0..Len(posted')
        BY <4>1, PlacesBounded
      <4>3. p1 \in Nat
        BY <4>2
      <4>4. QED
        BY <2>3, <4>3
    <3>3. c1 = IF r = s THEN c + 1 ELSE c
      BY <2>7
    <3>4. Len(dataQ'[r]) = d
      BY <2>1
    <3> HIDE DEF d, c, c1, p, p1
    <3>5. Len(dataQ'[r]) = c1 + p1
      BY <3>1, <3>2, <3>3, <3>4
    <3>6. QED
      BY <3>5 DEF c1, p1
  <2>9. QED
    BY <2>8 DEF Called
<1>8. ASSUME NEW w \in Worker, Pop(w)
      PROVE  Called'
  <2>0. at[w] \in Service
    BY <1>1, <1>8 DEF Holding, Pop
  <2> PICK s \in Service : s = at[w]
    BY <2>0
  <2>1. /\ pc[w] = "pop" /\ dataQ[s] # <<>> /\ s = at[w]
        /\ dataQ' = [dataQ EXCEPT ![s] = Tail(@)]
        /\ pc' = [pc EXCEPT ![w] = "request"]
        /\ UNCHANGED <<at, posted>>
    BY <1>8 DEF Pop, Goto
  <2>2. s \in Service
    OBVIOUS
  <2>3. Due(s)' = Due(s) \ {w} /\ w \in Due(s)
    BY <1>1, <2>1, <2>2 DEF Due, TypeOK
  <2>4. \A r \in Service : r # s => Due(r)' = Due(r) /\ dataQ'[r] = dataQ[r]
    BY <1>1, <2>1, <2>2 DEF Due, TypeOK
  <2>5. Len(dataQ'[s]) = Len(dataQ[s]) - 1
    <3>1. dataQ[s] \in Seq(Nat) /\ dataQ'[s] = Tail(dataQ[s])
      BY <1>1, <2>1, <2>2 DEF TypeOK
    <3>2. QED
      BY <2>1, <3>1, Taking
  <2>6. Cardinality(Due(s)') = Cardinality(Due(s)) - 1
    <3> DEFINE S == Due(s)
               T == Due(s)'
    <3>1. IsFiniteSet(S) /\ w \in S /\ T = S \ {w}
      BY <1>3, <2>2, <2>3
    <3> HIDE DEF S, T
    <3>2. Cardinality(T) = Cardinality(S) - 1
      BY <3>1, FS_RemoveElement
    <3>3. QED
      BY <3>2 DEF S, T
  <2>7. ASSUME NEW r \in Service
        PROVE  Len(dataQ'[r]) = Cardinality(Due(r)') + Cardinality(Places(posted', {r}))
    <3> DEFINE d == Len(dataQ[r])
               c == Cardinality(Due(r))
               p == Cardinality(Places(posted, {r}))
    <3>1. d = c + p /\ d \in Nat /\ c \in Nat /\ p \in Nat
      BY <1>2, <1>3, <1>4 DEF Called
    <3>2. Cardinality(Due(r)') = IF r = s THEN c - 1 ELSE c
      <4>1. CASE r = s
        BY <2>6, <4>1
      <4>2. CASE r # s
        BY <2>4, <4>2
      <4>3. QED
        BY <4>1, <4>2
    <3>3. Len(dataQ'[r]) = IF r = s THEN d - 1 ELSE d
      BY <2>4, <2>5
    <3>4. Cardinality(Places(posted', {r})) = p
      BY <2>1
    <3> HIDE DEF d, c, p
    <3>5. QED
      BY <3>1, <3>2, <3>3, <3>4
  <2>8. QED
    BY <2>7 DEF Called
<1>9. ASSUME UNCHANGED <<dataQ, posted>>, \A s \in Service : Due(s)' = Due(s)
      PROVE  Called'
  BY <1>9 DEF Called
<1>10. ASSUME NEW w \in Worker, Lock(w) \/ Request(w) \/ Respond(w)
       PROVE  Called'
  <2>1. /\ UNCHANGED <<dataQ, posted, at>>
        /\ \E label \in {"pop", "respond", "unlock"} :
             /\ pc' = [pc EXCEPT ![w] = label]
             /\ pc[w] = "lock" <=> label = "pop"
        /\ pc[w] \in {"lock", "request", "respond"}
    BY <1>10 DEF Lock, Request, Respond, Goto
  <2>2. \A s \in Service : Due(s)' = Due(s)
    BY <1>1, <2>1 DEF Due, TypeOK
  <2>3. QED
    BY <1>9, <2>1, <2>2
<1>11. ASSUME NEW w \in Worker, Unlock(w)
       PROVE  Called'
  <2>1. /\ UNCHANGED <<dataQ, posted>> /\ pc[w] = "unlock"
        /\ at' = [at EXCEPT ![w] = None] /\ pc' = [pc EXCEPT ![w] = "idle"]
    BY <1>11 DEF Unlock, Goto
  <2>2. \A s \in Service : Due(s)' = Due(s)
    BY <1>1, <2>1 DEF Due, TypeOK
  <2>3. QED
    BY <1>9, <2>1, <2>2
<1>12. CASE Uninit \/ UNCHANGED vars
  <2>1. UNCHANGED <<dataQ, posted, at, pc>>
    BY <1>12 DEF Uninit, vars
  <2>2. \A s \in Service : Due(s)' = Due(s)
    BY <2>1 DEF Due
  <2>3. QED
    BY <1>9, <2>1, <2>2
<1>13. QED
  BY <1>6, <1>7, <1>8, <1>10, <1>11, <1>12 DEF Next, Continue

\* Initially there are neither.
LEMMA InitCalled ==
  ASSUME Init
  PROVE  Called
<1> SUFFICES ASSUME NEW s \in Service
             PROVE  Len(dataQ[s]) = Cardinality(Due(s)) + Cardinality(Places(posted, {s}))
  BY DEF Called
<1>1. dataQ[s] = <<>> /\ posted = <<>> /\ Due(s) = {}
  BY DEF Init, Due
<1>2. Cardinality(Places(posted, {s})) = 0 /\ Cardinality(Due(s)) = 0 /\ Len(dataQ[s]) = 0
  BY <1>1, PlacesOfEmpty, FS_EmptySet, EmptySeq
<1>3. QED
  BY <1>2

\* The threads the property counts are those of the invariant.
LEMMA CalledGivesCalls ==
  ASSUME Called
  PROVE  EveryCallHasItsRequest
<1> SUFFICES ASSUME NEW s \in Service
             PROVE  Len(dataQ[s]) = Waiting(s) + Cardinality({k \in DOMAIN posted : posted[k] = s})
  BY DEF EveryCallHasItsRequest
<1>1. Places(posted, {s}) = {k \in DOMAIN posted : posted[k] = s}
  BY DEF Places
<1>2. QED
  BY <1>1 DEF Called, Due, Waiting

\* A call of HandleMessage finds its request: the entries of a service's queue are
\* as many as the calls that are posted or have not popped yet, so no thread waits
\* on an empty queue and no request is left lying (HandleMessage and push in
\* li-rrr-server.cpp).
THEOREM EveryCallHasItsRequestCorrect ==
  RRRServerAssumption => (Spec => []EveryCallHasItsRequest)
<1> SUFFICES ASSUME RRRServerAssumption PROVE Spec => []EveryCallHasItsRequest
  OBVIOUS
<1>1. Init => Called
  BY InitCalled
<1>2. IInv /\ Called /\ [Next]_vars => Called'
  BY CalledStep
<1>3. Called => EveryCallHasItsRequest
  BY CalledGivesCalls
<1>4. QED
  BY <1>1, <1>2, <1>3, ServerInvariant, PTL DEF Spec

-----------------------------------------------------------------------------
(* The client, step by step.                                               *)

\* Initially nobody has asked for anything.
LEMMA InitClient ==
  ASSUME Client!RRRClientAssumption, Client!Init
  PROVE  ClientIInv
<1>1. \A S : <<>> \in Seq(S) /\ Len(<<>>) = 0
  BY EmptySeq
<1>2. None \notin Caller
  BY DEF Client!RRRClientAssumption
<1>3. Asking = {}
  BY <1>1 DEF Client!Init, Asking
<1>4. ClientTypeOK
  BY <1>1 DEF Client!Init, ClientTypeOK
<1>5. ClientHolding /\ OneAsks
  BY <1>2, <1>3 DEF Client!Init, ClientHolding, OneAsks
<1>6. ComesToHolder /\ RestComes
  BY <1>1, <1>3 DEF Client!Init, ComesToHolder, RestComes, NothingComes
<1>7. QED
  BY <1>4, <1>5, <1>6 DEF ClientIInv

\* A caller that moves on and does not touch a channel.
LEMMA MovesOn ==
  ASSUME Client!RRRClientAssumption, ClientIInv, NEW c \in Caller,
         \/ Client!Call(c) \/ Client!Lock(c) \/ Client!Unlock(c)
  PROVE  ClientIInv'
<1>1. ClientTypeOK /\ ClientHolding /\ OneAsks /\ ComesToHolder /\ RestComes
  BY DEF ClientIInv
<1>2. None \notin Caller
  BY DEF Client!RRRClientAssumption
<1>3. /\ UNCHANGED <<remaining, outputChannel, answering, inputChannel>>
      /\ UNCHANGED <<Asking, ToCome, NothingComes>>
  BY DEF Client!Call, Client!Lock, Client!Unlock, Asking, ToCome, NothingComes
<1>4. CASE Client!Call(c)
  <2>1. /\ callerPc[c] = "idle" /\ callerPc'[c] = "lock"
        /\ callerPc' \in [Caller -> {"idle", "lock", "push", "header", "body", "unlock"}]
        /\ \A d \in Caller : d # c => callerPc'[d] = callerPc[d]
        /\ makeRequestMutex' = makeRequestMutex
    BY <1>1, <1>4 DEF Client!Call, Client!Goto, ClientTypeOK
  <2>2. ClientTypeOK' /\ ClientHolding'
    BY <1>1, <1>3, <2>1 DEF ClientTypeOK, ClientHolding
  <2>3. OneAsks' /\ ComesToHolder' /\ RestComes'
    BY <1>1, <1>3, <2>1 DEF OneAsks, ComesToHolder, RestComes
  <2>4. QED
    BY <2>2, <2>3 DEF ClientIInv
<1>5. CASE Client!Lock(c)
  <2>1. /\ callerPc[c] = "lock" /\ callerPc'[c] = "push"
        /\ callerPc' \in [Caller -> {"idle", "lock", "push", "header", "body", "unlock"}]
        /\ \A d \in Caller : d # c => callerPc'[d] = callerPc[d]
        /\ makeRequestMutex = None /\ makeRequestMutex' = c
    BY <1>1, <1>5 DEF Client!Lock, Client!Goto, ClientTypeOK
  <2>2. Asking = {} /\ NothingComes
    BY <1>1, <1>2, <2>1 DEF OneAsks, RestComes
  <2>3. inputChannel = <<>> /\ Len(inputChannel) = 0 /\ answering = None
    BY <2>2, EmptySeq DEF NothingComes
  <2>4. ClientTypeOK' /\ ClientHolding'
    BY <1>1, <1>2, <1>3, <2>1 DEF ClientTypeOK, ClientHolding
  <2>5. OneAsks'
    BY <1>3, <2>2 DEF OneAsks
  <2>6. ComesToHolder'
    BY <1>3, <2>3 DEF ComesToHolder
  <2>7. RestComes'
    BY <1>1, <1>2, <1>3, <2>1, <2>2 DEF RestComes, ClientHolding
  <2>8. QED
    BY <2>4, <2>5, <2>6, <2>7 DEF ClientIInv
<1>6. CASE Client!Unlock(c)
  <2>1. /\ callerPc[c] = "unlock" /\ callerPc'[c] = "idle"
        /\ callerPc' \in [Caller -> {"idle", "lock", "push", "header", "body", "unlock"}]
        /\ \A d \in Caller : d # c => callerPc'[d] = callerPc[d]
        /\ makeRequestMutex' = None
    BY <1>1, <1>6 DEF Client!Unlock, Client!Goto, ClientTypeOK
  <2>2. makeRequestMutex = c /\ NothingComes
    BY <1>1, <2>1 DEF ClientHolding, RestComes
  <2>3. inputChannel = <<>> /\ Len(inputChannel) = 0 /\ answering = None
    BY <2>2, EmptySeq DEF NothingComes
  <2>4. Asking = {}
    BY <1>1, <2>1, <2>2 DEF OneAsks
  <2>5. ClientTypeOK' /\ ClientHolding'
    BY <1>1, <1>2, <1>3, <2>1, <2>2 DEF ClientTypeOK, ClientHolding
  <2>6. OneAsks' /\ ComesToHolder'
    BY <1>3, <2>3, <2>4 DEF OneAsks, ComesToHolder
  <2>7. RestComes'
    BY <1>1, <1>2, <1>3, <2>1, <2>2 DEF RestComes, ClientHolding
  <2>8. QED
    BY <2>5, <2>6, <2>7 DEF ClientIInv
<1>7. QED
  BY <1>4, <1>5, <1>6

\* One request more is on its way.
LEMMA PushFacts ==
  ASSUME ClientTypeOK, NEW c \in Caller, NEW response \in BOOLEAN,
         Client!PushRequest(c, response)
  PROVE  /\ outputChannel' \in Seq([from : Caller, response : BOOLEAN])
         /\ Asking' = Asking \cup (IF response THEN {Len(outputChannel) + 1} ELSE {})
         /\ \A k \in Asking : outputChannel'[k].from = outputChannel[k].from
         /\ outputChannel'[Len(outputChannel) + 1].from = c
         /\ Len(outputChannel) + 1 \notin Asking
<1> DEFINE R == [from : Caller, response : BOOLEAN]
           x == [from |-> c, response |-> response]
           l == Len(outputChannel)
           l1 == Len(outputChannel')
<1>1. outputChannel \in Seq(R) /\ outputChannel' = Append(outputChannel, x) /\ x \in R
  BY DEF ClientTypeOK, Client!PushRequest
<1> HIDE DEF R
<1>2. /\ outputChannel' \in Seq(R) /\ l1 = l + 1 /\ l \in Nat
      /\ \A k \in 1..(l + 1) : outputChannel'[k] = IF k = l + 1 THEN x ELSE outputChannel[k]
  BY <1>1, Appended
<1>3. /\ Asking = {k \in 1..l : outputChannel[k].response}
      /\ Asking' = {k \in 1..l1 : outputChannel'[k].response}
  BY DEF Asking
<1> HIDE DEF l, l1
<1>4. outputChannel'[l + 1] = x /\ \A k \in 1..l : outputChannel'[k] = outputChannel[k]
  BY <1>2
<1>5. x.response = response /\ x.from = c
  OBVIOUS
<1>6. 1..(l + 1) = (1..l) \cup {l + 1} /\ l + 1 \notin 1..l
  BY <1>2
<1> HIDE DEF x
<1>7. Asking' = Asking \cup (IF response THEN {l + 1} ELSE {})
  BY <1>2, <1>3, <1>4, <1>5, <1>6
<1>8. QED
  BY <1>2, <1>3, <1>4, <1>5, <1>6, <1>7 DEF l, R

\* The holder asks.
LEMMA PushKeepsIInv ==
  ASSUME Client!RRRClientAssumption, ClientIInv, NEW c \in Caller, Client!Push(c)
  PROVE  ClientIInv'
<1>1. ClientTypeOK /\ ClientHolding /\ OneAsks /\ ComesToHolder /\ RestComes
  BY DEF ClientIInv
<1>2. /\ Client!PushRequest(c, TRUE)
      /\ UNCHANGED <<remaining, makeRequestMutex, answering, inputChannel>>
      /\ callerPc[c] = "push" /\ callerPc' = [callerPc EXCEPT ![c] = "header"]
  BY DEF Client!Push, Client!Goto
<1>3. /\ callerPc'[c] = "header"
      /\ callerPc' \in [Caller -> {"idle", "lock", "push", "header", "body", "unlock"}]
      /\ \A d \in Caller : d # c => callerPc'[d] = callerPc[d]
  BY <1>1, <1>2 DEF ClientTypeOK
<1>4. UNCHANGED <<ToCome, NothingComes>>
  BY <1>2 DEF ToCome, NothingComes
<1>5. makeRequestMutex = c /\ NothingComes
  BY <1>1, <1>2 DEF ClientHolding, RestComes
<1>6. Asking = {}
  BY <1>1, <1>2, <1>5 DEF OneAsks
<1>7. /\ outputChannel' \in Seq([from : Caller, response : BOOLEAN])
      /\ Asking' = {Len(outputChannel) + 1}
      /\ outputChannel'[Len(outputChannel) + 1].from = c
  BY <1>1, <1>2, <1>6, PushFacts
<1>8. ClientTypeOK' /\ ClientHolding'
  BY <1>1, <1>2, <1>3, <1>7 DEF ClientTypeOK, ClientHolding
<1>9. OneAsks'
  BY <1>2, <1>3, <1>5, <1>7 DEF OneAsks
<1>10. ComesToHolder'
  BY <1>1, <1>2 DEF ComesToHolder
<1>11. RestComes'
  BY <1>1, <1>3, <1>4, <1>5, <1>7 DEF RestComes, ClientHolding
<1>12. QED
  BY <1>8, <1>9, <1>10, <1>11 DEF ClientIInv

\* A request without a response.
LEMMA NoResponseKeepsIInv ==
  ASSUME Client!RRRClientAssumption, ClientIInv, NEW c \in Caller,
         Client!MakeRequestNoResponse(c)
  PROVE  ClientIInv'
<1>1. ClientTypeOK /\ ClientHolding /\ OneAsks /\ ComesToHolder /\ RestComes
  BY DEF ClientIInv
<1>2. /\ Client!PushRequest(c, FALSE)
      /\ UNCHANGED <<callerPc, remaining, makeRequestMutex, answering, inputChannel>>
  BY DEF Client!MakeRequestNoResponse
<1>3. UNCHANGED <<ToCome, NothingComes>>
  BY <1>2 DEF ToCome, NothingComes
<1>4. /\ outputChannel' \in Seq([from : Caller, response : BOOLEAN])
      /\ Asking' = Asking
      /\ \A k \in Asking : outputChannel'[k].from = outputChannel[k].from
  BY <1>1, <1>2, PushFacts
<1>5. ClientTypeOK' /\ ClientHolding'
  BY <1>1, <1>2, <1>4 DEF ClientTypeOK, ClientHolding
<1>6. OneAsks' /\ ComesToHolder' /\ RestComes'
  BY <1>1, <1>2, <1>3, <1>4 DEF OneAsks, ComesToHolder, RestComes
<1>7. QED
  BY <1>5, <1>6 DEF ClientIInv

\* What is left of the channel of responses when its first chunk is taken.
LEMMA PopFacts ==
  ASSUME ClientTypeOK, inputChannel # <<>>, inputChannel' = Tail(inputChannel)
  PROVE  /\ inputChannel' \in Seq([to : Caller, numChunks : Nat])
         /\ Head(inputChannel) = inputChannel[1]
         /\ inputChannel[1].numChunks \in Nat
         /\ Len(inputChannel) \in Nat \ {0}
         /\ Len(inputChannel') = Len(inputChannel) - 1
         /\ \A k \in 1..(Len(inputChannel) - 1) : inputChannel'[k] = inputChannel[k + 1]
<1> DEFINE R == [to : Caller, numChunks : Nat]
<1>1. inputChannel \in Seq(R)
  BY DEF ClientTypeOK
<1>2. \A x \in R : x.numChunks \in Nat
  OBVIOUS
<1> HIDE DEF R
<1>3. /\ Head(inputChannel) = inputChannel[1] /\ Head(inputChannel) \in R
      /\ Tail(inputChannel) \in Seq(R)
      /\ Len(inputChannel) \in Nat \ {0}
      /\ Len(Tail(inputChannel)) = Len(inputChannel) - 1
      /\ \A k \in 1..(Len(inputChannel) - 1) : Tail(inputChannel)[k] = inputChannel[k + 1]
  BY <1>1, Taking
<1>4. inputChannel[1].numChunks \in Nat
  BY <1>2, <1>3
<1>5. QED
  BY <1>3, <1>4 DEF R

\* The holder takes a chunk: as many as before remain, one less of them in the
\* channel.
LEMMA PopKeepsClientIInv ==
  ASSUME Client!RRRClientAssumption, ClientIInv, NEW c \in Caller, NEW n \in Nat,
         callerPc[c] \in {"header", "body"}, inputChannel # <<>>,
         inputChannel' = Tail(inputChannel),
         n + 1 = Len(inputChannel) + ToCome,
         remaining' = [remaining EXCEPT ![c] = n],
         callerPc' = [callerPc EXCEPT ![c] = IF n = 0 THEN "unlock" ELSE "body"],
         UNCHANGED <<makeRequestMutex, outputChannel, answering>>
  PROVE  ClientIInv'
<1> DEFINE l == Len(inputChannel)
           l1 == Len(inputChannel')
<1>1. ClientTypeOK /\ ClientHolding /\ OneAsks /\ ComesToHolder /\ RestComes
  BY DEF ClientIInv
<1>2. /\ callerPc'[c] = IF n = 0 THEN "unlock" ELSE "body"
      /\ callerPc' \in [Caller -> {"idle", "lock", "push", "header", "body", "unlock"}]
      /\ remaining'[c] = n /\ remaining' \in [Caller -> Nat]
      /\ \A d \in Caller : d # c => callerPc'[d] = callerPc[d]
  BY <1>1 DEF ClientTypeOK
<1>3. /\ inputChannel' \in Seq([to : Caller, numChunks : Nat])
      /\ l \in Nat \ {0} /\ l1 = l - 1
      /\ \A k \in 1..(l - 1) : inputChannel'[k] = inputChannel[k + 1]
  BY <1>1, PopFacts
<1>4. makeRequestMutex = c /\ \A d \in Caller : d # c =>
        callerPc[d] \notin {"push", "header", "body", "unlock"}
  BY <1>1 DEF ClientHolding
<1>5. Asking = {} /\ makeRequestMutex # None
  BY <1>1, <1>4 DEF RestComes, NothingComes, Client!RRRClientAssumption
<1>6. Asking' = {} /\ ToCome' = ToCome
  BY <1>5 DEF Asking, ToCome
<1>7. ToCome \in Nat /\ (ToCome = 0 => answering = None)
  BY <1>1 DEF ToCome, ComesToHolder, ClientTypeOK, Answer
<1>8. \A k \in 1..l1 : inputChannel'[k].to = makeRequestMutex /\ inputChannel'[k].numChunks = 0
  <2>1. \A k \in 1..l : inputChannel[k].to = makeRequestMutex
                        /\ (k > 1 => inputChannel[k].numChunks = 0)
    BY <1>1 DEF ComesToHolder
  <2>2. /\ l \in Nat \ {0} /\ l1 = l - 1
        /\ \A k \in 1..(l - 1) : inputChannel'[k] = inputChannel[k + 1]
    BY <1>3
  <2> HIDE DEF l, l1
  <2> TAKE k \in 1..l1
  <2>3. k + 1 \in 1..l /\ k + 1 > 1 /\ k \in 1..(l - 1)
    BY <2>2
  <2>4. inputChannel'[k] = inputChannel[k + 1]
    BY <2>2, <2>3
  <2>5. QED
    BY <2>1, <2>3, <2>4
<1>9. n = l1 + ToCome
  <2> HIDE DEF l, l1
  <2>1. n + 1 = l + ToCome
    BY DEF l
  <2>2. QED
    BY <1>3, <1>7, <2>1
<1>10. n = 0 => NothingComes'
  <2>1. l1 \in Nat
    <3> HIDE DEF l, l1
    <3>1. QED
      BY <1>3
  <2>2. n = 0 => l1 = 0 /\ ToCome = 0
    <3> HIDE DEF l1
    <3>1. QED
      BY <1>7, <1>9, <2>1
  <2>3. l1 = 0 => inputChannel' = <<>>
    BY <1>3, EmptySeq
  <2>4. QED
    BY <1>7, <2>2, <2>3 DEF NothingComes
<1>11. inputChannel' # <<>> => 1 \in 1..l1
  <2>1. inputChannel' # <<>> => l1 \in Nat \ {0}
    BY <1>3, EmptySeq
  <2> HIDE DEF l1
  <2>2. QED
    BY <2>1
<1>12. ClientTypeOK'
  BY <1>1, <1>2, <1>3 DEF ClientTypeOK
<1>13. ClientHolding' /\ OneAsks'
  BY <1>1, <1>2, <1>4, <1>6 DEF ClientHolding, OneAsks
<1>14. ComesToHolder'
  BY <1>1, <1>8 DEF ComesToHolder
<1>15. RestComes'
  <2>1. makeRequestMutex' # None /\ Asking' = {}
    BY <1>5, <1>6
  <2>2. /\ callerPc'[c] # "push" /\ callerPc'[c] # "header"
        /\ callerPc'[c] = "unlock" => NothingComes'
    BY <1>2, <1>10
  <2>3. callerPc'[c] = "body" =>
          /\ remaining'[c] = Len(inputChannel') + ToCome'
          /\ remaining'[c] > 0
          /\ inputChannel' # <<>> => inputChannel'[1].numChunks = 0
    <3>1. n \in Nat /\ (callerPc'[c] = "body" => n # 0)
      BY <1>2
    <3>2. callerPc'[c] = "body" => remaining'[c] > 0
      BY <1>2, <3>1
    <3>3. QED
      BY <1>2, <1>6, <1>8, <1>9, <1>11, <3>2
  <2>4. \A d \in Caller : d # c => callerPc'[d] \notin {"push", "header", "body", "unlock"}
    BY <1>2, <1>4
  <2>5. QED
    BY <2>1, <2>2, <2>3, <2>4 DEF RestComes
<1>16. QED
  BY <1>12, <1>13, <1>14, <1>15 DEF ClientIInv

\* A header says how many follow; a chunk of the body is one of these.
LEMMA ReceiveKeepsIInv ==
  ASSUME Client!RRRClientAssumption, ClientIInv, NEW c \in Caller,
         Client!PopHeader(c) \/ Client!PopChunk(c)
  PROVE  ClientIInv'
<1>1. ClientTypeOK /\ RestComes /\ OneAsks
  BY DEF ClientIInv
<1>2. CASE Client!PopHeader(c)
  <2> DEFINE n == Head(inputChannel).numChunks
  <2>1. /\ callerPc[c] = "header" /\ inputChannel # <<>>
        /\ inputChannel' = Tail(inputChannel)
        /\ remaining' = [remaining EXCEPT ![c] = n]
        /\ callerPc' = [callerPc EXCEPT ![c] = IF remaining'[c] = 0 THEN "unlock" ELSE "body"]
        /\ UNCHANGED <<makeRequestMutex, outputChannel, answering>>
    BY <1>2 DEF Client!PopHeader, Client!Goto
  <2>2. n \in Nat /\ n = inputChannel[1].numChunks
    BY <1>1, <2>1, PopFacts
  <2>3. Asking = {}
    BY <1>1, <2>1 DEF RestComes, NothingComes
  <2>4. n + 1 = Len(inputChannel) + ToCome
    BY <1>1, <2>1, <2>2, <2>3 DEF RestComes
  <2>5. remaining'[c] = n
    BY <1>1, <2>1 DEF ClientTypeOK
  <2> HIDE DEF n
  <2>6. PICK m \in Nat : m = n
    BY <2>2
  <2>7. QED
    BY <2>1, <2>4, <2>5, <2>6, PopKeepsClientIInv
<1>3. CASE Client!PopChunk(c)
  <2>1. /\ callerPc[c] = "body" /\ inputChannel # <<>>
        /\ inputChannel' = Tail(inputChannel)
        /\ remaining' = [remaining EXCEPT ![c] = remaining[c] - 1]
        /\ callerPc' = [callerPc EXCEPT ![c] = IF remaining'[c] = 0 THEN "unlock" ELSE "body"]
        /\ UNCHANGED <<makeRequestMutex, outputChannel, answering>>
    BY <1>3 DEF Client!PopChunk, Client!Goto
  <2>2. remaining[c] \in Nat /\ remaining[c] > 0 /\ remaining[c] = Len(inputChannel) + ToCome
    BY <1>1, <2>1 DEF RestComes, ClientTypeOK
  <2>3. remaining[c] - 1 \in Nat /\ (remaining[c] - 1) + 1 = remaining[c]
    BY <2>2
  <2>4. PICK m \in Nat : m = remaining[c] - 1
    BY <2>3
  <2>5. remaining'[c] = m /\ m + 1 = Len(inputChannel) + ToCome
    <3>1. remaining'[c] = m
      BY <1>1, <2>1, <2>4 DEF ClientTypeOK
    <3>2. m + 1 = remaining[c]
      BY <2>3, <2>4
    <3>3. QED
      BY <2>2, <3>1, <3>2
  <2>6. QED
    BY <2>1, <2>4, <2>5, PopKeepsClientIInv
<1>4. QED
  BY <1>2, <1>3

\* The hardware takes a request: it was the one with a response, or it has none.
LEMMA ServeKeepsIInv ==
  ASSUME Client!RRRClientAssumption, ClientIInv, Client!Serve
  PROVE  ClientIInv'
<1> DEFINE R == [from : Caller, response : BOOLEAN]
           l == Len(outputChannel)
           l1 == Len(outputChannel')
           first == Head(outputChannel)
<1>1. ClientTypeOK /\ ClientHolding /\ OneAsks /\ ComesToHolder /\ RestComes
  BY DEF ClientIInv
<1>2. /\ outputChannel # <<>> /\ answering = None
      /\ outputChannel' = Tail(outputChannel)
      /\ UNCHANGED <<callerPc, remaining, makeRequestMutex>>
  BY DEF Client!Serve
<1>3. outputChannel \in Seq(R)
  BY <1>1 DEF ClientTypeOK
<1>4. first \in R => first.from \in Caller /\ first.response \in BOOLEAN
  OBVIOUS
<1> HIDE DEF R
<1>5. /\ first = outputChannel[1] /\ first \in R
      /\ outputChannel' \in Seq(R)
      /\ l \in Nat \ {0} /\ l1 = l - 1
      /\ \A k \in 1..(l - 1) : outputChannel'[k] = outputChannel[k + 1]
  BY <1>2, <1>3, Taking
<1>6. outputChannel' \in Seq([from : Caller, response : BOOLEAN])
  BY <1>5 DEF R
<1>7. /\ Asking = {k \in 1..l : outputChannel[k].response}
      /\ Asking' = {k \in 1..l1 : outputChannel'[k].response}
  BY DEF Asking
<1>8. \A k \in Asking' : k + 1 \in Asking /\ outputChannel'[k] = outputChannel[k + 1] /\ k \in Nat
  <2>1. /\ l \in Nat \ {0} /\ l1 = l - 1
        /\ \A k \in 1..(l - 1) : outputChannel'[k] = outputChannel[k + 1]
    BY <1>5
  <2> HIDE DEF l, l1
  <2>2. QED
    BY <1>7, <2>1
<1>9. \A k \in Asking : k # 1 => k - 1 \in Asking'
  <2>1. /\ l \in Nat \ {0} /\ l1 = l - 1
        /\ \A k \in 1..(l - 1) : outputChannel'[k] = outputChannel[k + 1]
    BY <1>5
  <2> HIDE DEF l, l1
  <2> TAKE k \in Asking
  <2>2. k \in 1..l /\ outputChannel[k].response
    BY <1>7
  <2>3. k # 1 => k - 1 \in 1..(l - 1) /\ (k - 1) + 1 = k
    BY <2>1, <2>2
  <2>4. k # 1 => outputChannel'[k - 1] = outputChannel[k]
    BY <2>1, <2>3
  <2>5. QED
    BY <1>7, <2>1, <2>2, <2>3, <2>4
<1>10. 1 \in Asking <=> first.response
  <2>1. l \in Nat \ {0} /\ first = outputChannel[1]
    BY <1>5
  <2> HIDE DEF l, l1, first
  <2>2. QED
    BY <1>7, <2>1
<1>11. ClientHolding'
  BY <1>1, <1>2 DEF ClientHolding
<1>12. CASE first.response
  <2>1. PICK n \in 0..MaxChunks :
          /\ inputChannel' = Append(inputChannel, [to |-> first.from, numChunks |-> n])
          /\ answering' = IF n = 0 THEN None ELSE [to |-> first.from, toCome |-> n]
    BY <1>12 DEF Client!Serve
  <2>2. n \in Nat
    BY DEF Client!RRRClientAssumption
  <2> DEFINE x == [to |-> first.from, numChunks |-> n]
             a == [to |-> first.from, toCome |-> n]
  <2>3. first.from \in Caller /\ x \in [to : Caller, numChunks : Nat] /\ a \in Answer
    BY <1>4, <1>5, <2>2 DEF Answer
  <2>4. Asking = {1} /\ first.from = makeRequestMutex
    BY <1>1, <1>5, <1>10, <1>12 DEF OneAsks
  <2>5. PICK c \in Caller : makeRequestMutex = c /\ callerPc[c] = "header"
    BY <1>1, <2>4 DEF OneAsks
  <2>6. inputChannel = <<>>
    BY <1>1, <2>4 DEF RestComes, NothingComes
  <2>7. Asking' = {}
    <3>1. \A k \in Asking' : k + 1 = 1 /\ k \in Nat /\ k # 0
      <4>1. \A k \in Asking' : k # 0
        <5>1. Asking' \subseteq 1..l1
          BY <1>7
        <5> HIDE DEF l1
        <5>2. QED
          BY <5>1
      <4>2. QED
        BY <1>8, <2>4, <4>1
    <3>2. QED
      BY <3>1
  <2>8. inputChannel' = <<x>>
    BY <2>1, <2>6
  <2>9. /\ inputChannel' \in Seq([to : Caller, numChunks : Nat])
        /\ Len(inputChannel') = 1 /\ inputChannel'[1] = x /\ inputChannel' # <<>>
    BY <2>3, <2>8
  <2>10. answering' = IF n = 0 THEN None ELSE a
    BY <2>1
  <2>11. a \in Answer => a # None
    BY DEF Client!RRRClientAssumption, Answer
  <2>12. x.to = first.from /\ x.numChunks = n /\ a.to = first.from /\ a.toCome = n
    OBVIOUS
  <2> HIDE DEF x, a, first
  <2>13. ToCome' = n
    BY <2>3, <2>10, <2>11, <2>12 DEF ToCome
  <2>14. ClientTypeOK'
    BY <1>1, <1>2, <1>6, <2>3, <2>9, <2>10 DEF ClientTypeOK
  <2>15. OneAsks'
    BY <2>7 DEF OneAsks
  <2>16. ComesToHolder'
    <3>1. answering' # None => answering'.to = makeRequestMutex /\ answering'.toCome > 0
      BY <2>2, <2>4, <2>10, <2>12
    <3>2. \A k \in 1..Len(inputChannel') : k = 1
      BY <2>9
    <3>3. inputChannel'[1].to = makeRequestMutex
      BY <2>4, <2>9, <2>12
    <3>4. QED
      BY <1>2, <3>1, <3>2, <3>3 DEF ComesToHolder
  <2>17. RestComes'
    <3>1. \A d \in Caller : callerPc[d] \in {"push", "header", "body", "unlock"} => d = c
      BY <1>1, <2>5 DEF ClientHolding
    <3>2. inputChannel'[1].numChunks + 1 = Len(inputChannel') + ToCome'
      BY <2>2, <2>9, <2>12, <2>13
    <3>3. makeRequestMutex # None
      BY <2>5 DEF Client!RRRClientAssumption
    <3>4. QED
      BY <1>2, <2>5, <2>7, <2>9, <3>1, <3>2, <3>3 DEF RestComes
  <2>18. QED
    BY <1>11, <2>14, <2>15, <2>16, <2>17 DEF ClientIInv
<1>13. CASE ~first.response
  <2>1. UNCHANGED <<inputChannel, answering>>
    BY <1>13 DEF Client!Serve
  <2>2. ToCome' = ToCome /\ NothingComes' = NothingComes
    BY <2>1 DEF ToCome, NothingComes
  <2>3. Asking' = {} <=> Asking = {}
    BY <1>8, <1>9, <1>10, <1>13
  <2>4. ClientTypeOK'
    BY <1>1, <1>2, <1>6, <2>1 DEF ClientTypeOK
  <2>5. OneAsks'
    <3>1. \A j, k \in Asking' : j = k
      <4> TAKE j, k \in Asking'
      <4>1. j + 1 = k + 1 /\ j \in Nat /\ k \in Nat
        BY <1>1, <1>8 DEF OneAsks
      <4>2. QED
        BY <4>1
    <3>2. \A k \in Asking' : outputChannel'[k].from = makeRequestMutex
      BY <1>1, <1>8 DEF OneAsks
    <3>3. Asking' # {} => \E c \in Caller : makeRequestMutex = c /\ callerPc[c] = "header"
      BY <1>1, <2>3 DEF OneAsks
    <3>4. QED
      BY <1>2, <3>1, <3>2, <3>3 DEF OneAsks
  <2>6. ComesToHolder' /\ RestComes'
    BY <1>1, <1>2, <2>1, <2>2, <2>3 DEF ComesToHolder, RestComes
  <2>7. QED
    BY <1>11, <2>4, <2>5, <2>6 DEF ClientIInv
<1>14. QED
  BY <1>12, <1>13

\* The hardware sends a chunk that it owes.
LEMMA SendChunkKeepsIInv ==
  ASSUME Client!RRRClientAssumption, ClientIInv, Client!SendChunk
  PROVE  ClientIInv'
<1> DEFINE R == [to : Caller, numChunks : Nat]
           x == [to |-> answering.to, numChunks |-> 0]
           l == Len(inputChannel)
           l1 == Len(inputChannel')
<1>1. ClientTypeOK /\ ClientHolding /\ OneAsks /\ ComesToHolder /\ RestComes
  BY DEF ClientIInv
<1>2. /\ answering # None
      /\ inputChannel' = Append(inputChannel, x)
      /\ answering' = IF answering.toCome = 1 THEN None ELSE [answering EXCEPT !.toCome = @ - 1]
      /\ UNCHANGED <<callerPc, remaining, makeRequestMutex, outputChannel>>
  BY DEF Client!SendChunk
<1>3. /\ answering \in Answer /\ answering.toCome \in Nat \ {0}
      /\ answering.to = makeRequestMutex /\ answering.to \in Caller
  BY <1>1, <1>2 DEF ClientTypeOK, ComesToHolder, Answer
<1>4. inputChannel \in Seq(R) /\ x \in R
  BY <1>1, <1>3 DEF ClientTypeOK
<1>5. x.to = makeRequestMutex /\ x.numChunks = 0
  BY <1>3
<1> HIDE DEF R, x
<1>6. /\ inputChannel' \in Seq(R) /\ inputChannel' # <<>>
      /\ l1 = l + 1 /\ l \in Nat
      /\ \A k \in 1..(l + 1) : inputChannel'[k] = IF k = l + 1 THEN x ELSE inputChannel[k]
  BY <1>2, <1>4, Appended, AppendProperties
<1>7. /\ answering' # None => answering'.to = makeRequestMutex /\ answering'.toCome > 0
      /\ answering' \in Answer \cup {None}
      /\ ToCome = answering.toCome
      /\ ToCome' = answering.toCome - 1
  <2>1. CASE answering.toCome = 1
    BY <1>2, <1>3, <2>1 DEF ToCome
  <2>2. CASE answering.toCome # 1
    <3> DEFINE a == [answering EXCEPT !.toCome = @ - 1]
    <3>1. a \in Answer /\ a.to = answering.to /\ a.toCome = answering.toCome - 1
      BY <1>3, <2>2 DEF Answer
    <3>2. answering' = a
      BY <1>2, <2>2
    <3>3. a # None
      BY <3>1 DEF Client!RRRClientAssumption, Answer
    <3>4. answering.toCome - 1 > 0
      BY <1>3, <2>2
    <3> HIDE DEF a
    <3>5. QED
      BY <1>2, <1>3, <3>1, <3>2, <3>3, <3>4 DEF ToCome
  <2>3. QED
    BY <2>1, <2>2
<1>8. makeRequestMutex \in Caller /\ makeRequestMutex # None /\ Asking = {} /\ Asking' = {}
  <2>1. makeRequestMutex \in Caller /\ makeRequestMutex # None
    BY <1>3 DEF Client!RRRClientAssumption
  <2>2. Asking = {}
    BY <1>1, <1>2 DEF RestComes, NothingComes
  <2>3. Asking' = Asking
    BY <1>2 DEF Asking
  <2>4. QED
    BY <2>1, <2>2, <2>3
<1>9. \A c \in Caller : callerPc[c] \notin {"push", "unlock"}
  BY <1>1, <1>2 DEF RestComes, NothingComes
<1>10. Len(inputChannel') + ToCome' = Len(inputChannel) + ToCome
  <2>1. l1 = l + 1 /\ l \in Nat
    BY <1>6
  <2> DEFINE t == answering.toCome
             t0 == ToCome
             t1 == ToCome'
  <2>2. t \in Nat /\ t0 = t /\ t1 = t - 1
    BY <1>3, <1>7
  <2> HIDE DEF l, l1, t, t0, t1
  <2>3. l1 + t1 = l + t0
    BY <2>1, <2>2
  <2>4. QED
    BY <2>3 DEF l, l1, t0, t1
<1>11. ClientTypeOK' /\ ClientHolding' /\ OneAsks'
  BY <1>1, <1>2, <1>6, <1>7, <1>8 DEF ClientTypeOK, ClientHolding, OneAsks, R
<1>12. ComesToHolder'
  <2>1. /\ l1 = l + 1 /\ l \in Nat
        /\ \A k \in 1..(l + 1) : inputChannel'[k] = IF k = l + 1 THEN x ELSE inputChannel[k]
        /\ \A k \in 1..l : inputChannel[k].to = makeRequestMutex
                           /\ (k > 1 => inputChannel[k].numChunks = 0)
    BY <1>1, <1>6 DEF ComesToHolder
  <2> HIDE DEF l, l1
  <2>2. \A k \in 1..l1 : /\ inputChannel'[k].to = makeRequestMutex
                         /\ k > 1 => inputChannel'[k].numChunks = 0
    <3> TAKE k \in 1..l1
    <3>1. k \in 1..(l + 1) /\ (k # l + 1 => k \in 1..l)
      BY <2>1
    <3>2. QED
      BY <1>5, <2>1, <3>1
  <2>3. QED
    BY <1>2, <1>7, <2>2 DEF ComesToHolder, l1
<1>13. RestComes'
  <2>1. inputChannel # <<>> => inputChannel'[1] = inputChannel[1]
    <3>1. inputChannel # <<>> => l \in Nat \ {0}
      BY <1>4, EmptySeq
    <3>2. l \in Nat \ {0} => 1 \in 1..(l + 1) /\ 1 # l + 1
      <4> HIDE DEF l
      <4>1. QED
        OBVIOUS
    <3>3. QED
      BY <1>6, <3>1, <3>2
  <2>2. inputChannel = <<>> => inputChannel'[1] = x
    <3>1. inputChannel = <<>> => l = 0
      BY EmptySeq
    <3>2. QED
      BY <1>6, <3>1
  <2>3. \A c \in Caller : callerPc[c] = "body" =>
          inputChannel'[1].numChunks = 0
    BY <1>1, <1>5, <2>1, <2>2 DEF RestComes
  <2>4. ASSUME NEW c \in Caller, callerPc[c] = "header"
        PROVE  inputChannel'[1].numChunks + 1 = Len(inputChannel) + ToCome
    BY <1>1, <1>8, <2>1, <2>4 DEF RestComes
  <2>5. \A c \in Caller : callerPc[c] = "body" =>
          remaining[c] = Len(inputChannel) + ToCome /\ remaining[c] > 0
    BY <1>1 DEF RestComes
  <2>6. QED
    BY <1>2, <1>6, <1>8, <1>9, <1>10, <2>3, <2>4, <2>5 DEF RestComes
<1>14. QED
  BY <1>11, <1>12, <1>13 DEF ClientIInv

\* Every step keeps the invariant.
LEMMA ClientStep ==
  ASSUME Client!RRRClientAssumption, ClientIInv, [Client!Next]_(Client!vars)
  PROVE  ClientIInv'
<1>1. CASE \E c \in Caller :
             Client!Call(c) \/ Client!Continue(c) \/ Client!MakeRequestNoResponse(c)
  BY <1>1, MovesOn, PushKeepsIInv, ReceiveKeepsIInv, NoResponseKeepsIInv DEF Client!Continue
<1>2. CASE Client!Serve \/ Client!SendChunk
  BY <1>2, ServeKeepsIInv, SendChunkKeepsIInv
<1>3. CASE UNCHANGED Client!vars
  <2>1. /\ UNCHANGED <<callerPc, remaining, makeRequestMutex, outputChannel, answering,
                       inputChannel>>
        /\ UNCHANGED <<Asking, ToCome, NothingComes>>
    BY <1>3 DEF Client!vars, Asking, ToCome, NothingComes
  <2>2. QED
    BY <2>1 DEF ClientIInv, ClientTypeOK, ClientHolding, OneAsks, ComesToHolder, RestComes
<1>4. QED
  BY <1>1, <1>2, <1>3 DEF Client!Next

\* What comes is for the thread that waits, and is the whole of what it waits for.
LEMMA ClientIInvGivesResponses ==
  ASSUME ClientIInv
  PROVE  Client!ResponsesFindTheirCaller
<1>1. ComesToHolder /\ RestComes
  BY DEF ClientIInv
<1>2. DOMAIN inputChannel = 1..Len(inputChannel)
  BY LenProperties DEF ClientIInv, ClientTypeOK
<1>3. QED
  BY <1>1, <1>2 DEF Client!ResponsesFindTheirCaller, ComesToHolder, RestComes, ToCome

\* A thread that asks the hardware gets the whole of its own response, although a
\* response does not say whose it is and any number of threads ask, with the mutex
\* or, when there is no response, without (MakeRequest and MakeRequestNoResponse
\* in li-rrr-client.cpp).
THEOREM ResponsesFindTheirCallerCorrect ==
  Client!RRRClientAssumption => (Client!Spec => []Client!ResponsesFindTheirCaller)
<1> SUFFICES ASSUME Client!RRRClientAssumption
             PROVE  Client!Spec => []Client!ResponsesFindTheirCaller
  OBVIOUS
<1>1. Client!Init => ClientIInv
  BY InitClient
<1>2. ClientIInv /\ [Client!Next]_(Client!vars) => ClientIInv'
  BY ClientStep
<1>3. ClientIInv => Client!ResponsesFindTheirCaller
  BY ClientIInvGivesResponses
<1>4. QED
  BY <1>1, <1>2, <1>3, PTL DEF Client!Spec

-----------------------------------------------------------------------------
(* Words in the pipes.                                                     *)

\* Devices are finitely many, and the ends of a line are two of them.
LEMMA DevicesAre ==
  ASSUME Pipes!UnixDeviceAssumption
  PROVE  /\ IsFiniteSet(Pipes!Device) /\ \A p : IsFiniteSet(Pipes!Devices(p))
         /\ \A l \in Line : /\ Pipes!Source(l) \in Pipes!Device /\ Pipes!Source(l)[1] = l.from
                               /\ l.from \in Pipes!Process
                            /\ Pipes!Sink(l) \in Pipes!Device /\ Pipes!Sink(l)[1] = l.to
                               /\ l.to \in Pipes!Process
         /\ \A d \in Pipes!Device : d[1] \in Pipes!Process
         /\ \A l, m \in Line : Pipes!Source(l) = Pipes!Source(m)
            \/ Pipes!Sink(l) = Pipes!Sink(m) => l = m
         /\ None \notin Nat /\ None \notin Seq(Pipes!CommBlock) /\ None # <<>>
<1>1. IsFiniteSet(Line)
  BY DEF Pipes!UnixDeviceAssumption, Pipes!IsFiniteSet, IsFiniteSet
<1> DEFINE from == {<<l.from, l.link>> : l \in Line}
           to == {<<l.to, l.link>> : l \in Line}
           fromAt == [l \in Line |-> <<l.from, l.link>>]
           toAt == [l \in Line |-> <<l.to, l.link>>]
<1>2. fromAt \in Surjection(Line, from) /\ toAt \in Surjection(Line, to)
  BY DEF Surjection
<1>3. Pipes!Device = from \cup to
  BY DEF Pipes!Device
<1>4. IsFiniteSet(Pipes!Device)
  <2> HIDE DEF from, to, fromAt, toAt
  <2>1. QED
    BY <1>1, <1>2, <1>3, FS_Surjection, FS_Union
<1>5. \A p : IsFiniteSet(Pipes!Devices(p))
  BY <1>4, FS_Subset DEF Pipes!Devices
<1>6. None \notin Seq(Pipes!CommBlock) /\ None # <<>> /\ None \notin Nat
  <2>1. None \notin Seq(Pipes!CommBlock) /\ <<>> \in Seq(Pipes!CommBlock)
    BY EmptySeq DEF Pipes!UnixDeviceAssumption
  <2>2. QED
    BY <2>1 DEF Pipes!UnixDeviceAssumption
<1>7. \A l \in Line : /\ Pipes!Source(l) \in Pipes!Device /\ Pipes!Source(l)[1] = l.from
                         /\ l.from \in Pipes!Process
                      /\ Pipes!Sink(l) \in Pipes!Device /\ Pipes!Sink(l)[1] = l.to
                         /\ l.to \in Pipes!Process
  BY DEF Pipes!Device, Pipes!Process, Pipes!Source, Pipes!Sink
<1>8. \A d \in Pipes!Device : d[1] \in Pipes!Process
  BY DEF Pipes!Device, Pipes!Process
<1>9. QED
  BY <1>4, <1>5, <1>6, <1>7, <1>8 DEF Pipes!UnixDeviceAssumption

\* Words that follow n others, without the first of them and with one more.
LEMMA FollowTail ==
  ASSUME NEW l, NEW n \in Nat, NEW q \in Seq(Pipes!CommBlock), q # <<>>, Follow(q, l, n)
  PROVE  /\ Head(q) = Pipes!Word(l, n + 1) /\ Head(q) \in Pipes!CommBlock
         /\ Tail(q) \in Seq(Pipes!CommBlock) /\ Len(Tail(q)) = Len(q) - 1
         /\ Follow(Tail(q), l, n + 1)
         /\ Len(q) \in Nat \ {0}
<1>1. /\ Head(q) = q[1] /\ Head(q) \in Pipes!CommBlock
      /\ Tail(q) \in Seq(Pipes!CommBlock)
      /\ Len(q) \in Nat \ {0}
      /\ Len(Tail(q)) = Len(q) - 1
      /\ \A k \in 1..(Len(q) - 1) : Tail(q)[k] = q[k + 1]
  BY Taking
<1>2. \A k \in 1..Len(q) : q[k] = Pipes!Word(l, n + k)
  BY DEF Follow
<1>3. q[1] = Pipes!Word(l, n + 1)
  BY <1>1, <1>2
<1>4. ASSUME NEW k \in 1..Len(Tail(q))
      PROVE  Tail(q)[k] = Pipes!Word(l, (n + 1) + k)
  <2>1. k \in 1..(Len(q) - 1) /\ k + 1 \in 1..Len(q) /\ n + (k + 1) = (n + 1) + k
    BY <1>1
  <2>2. QED
    BY <1>1, <1>2, <2>1
<1>5. QED
  BY <1>1, <1>3, <1>4 DEF Follow

\* Words that follow n others, and the one after them.
LEMMA FollowAppend ==
  ASSUME NEW l, NEW n \in Nat, NEW q \in Seq(Pipes!CommBlock), Follow(q, l, n),
         Pipes!Word(l, n + Len(q) + 1) \in Pipes!CommBlock
  PROVE  LET r == Append(q, Pipes!Word(l, n + Len(q) + 1))
         IN  r \in Seq(Pipes!CommBlock) /\ Len(r) = Len(q) + 1 /\ Follow(r, l, n)
<1> DEFINE x == Pipes!Word(l, n + Len(q) + 1)
<1>1. /\ Append(q, x) \in Seq(Pipes!CommBlock) /\ Len(Append(q, x)) = Len(q) + 1 /\ Len(q) \in Nat
      /\ \A k \in 1..(Len(q) + 1) : Append(q, x)[k] = IF k = Len(q) + 1 THEN x ELSE q[k]
  BY Appended
<1>2. ASSUME NEW k \in 1..(Len(q) + 1)
      PROVE  Append(q, x)[k] = Pipes!Word(l, n + k)
  <2>1. CASE k = Len(q) + 1
    <3>1. n + k = n + Len(q) + 1
      BY <1>1, <2>1
    <3>2. QED
      BY <1>1, <2>1, <3>1
  <2>2. CASE k # Len(q) + 1
    BY <1>1, <2>2 DEF Follow
  <2>3. QED
    BY <2>1, <2>2
<1>3. QED
  BY <1>1, <1>2 DEF Follow

\* Words move on from one of four places to the next.
LEMMA MoveOn ==
  ASSUME NEW l, NEW a \in Seq(Pipes!CommBlock), NEW b \in Seq(Pipes!CommBlock),
         NEW c \in Seq(Pipes!CommBlock),
         NEW d \in Seq(Pipes!CommBlock), NEW w, Consecutive(l, a, b, c, d, w)
  PROVE  /\ b # <<>> => Consecutive(l, Append(a, Head(b)), Tail(b), c, d, w)
         /\ c # <<>> => Consecutive(l, a, Append(b, Head(c)), Tail(c), d, w)
         /\ d # <<>> => Consecutive(l, a, b, Append(c, Head(d)), Tail(d), w)
         /\ Pipes!Word(l, w + 1) \in Pipes!CommBlock
              => Consecutive(l, a, b, c, Append(d, Pipes!Word(l, w + 1)), w + 1)
<1>1. Len(a) \in Nat /\ Len(b) \in Nat /\ Len(c) \in Nat /\ Len(d) \in Nat
  BY LenProperties
<1>2. /\ Follow(a, l, 0) /\ Follow(b, l, Len(a)) /\ Follow(c, l, Len(a) + Len(b))
      /\ Follow(d, l, Len(a) + Len(b) + Len(c)) /\ w = Len(a) + Len(b) + Len(c) + Len(d)
  BY DEF Consecutive
<1>3. ASSUME b # <<>>
      PROVE  Consecutive(l, Append(a, Head(b)), Tail(b), c, d, w)
  <2>1. /\ Head(b) = Pipes!Word(l, Len(a) + 1) /\ Head(b) \in Pipes!CommBlock
        /\ Len(Tail(b)) = Len(b) - 1 /\ Follow(Tail(b), l, Len(a) + 1)
        /\ Len(b) \in Nat \ {0}
    BY <1>1, <1>2, <1>3, FollowTail
  <2>2. 0 + Len(a) + 1 = Len(a) + 1 /\ 0 \in Nat
    BY <1>1
  <2>6. Follow(a, l, 0) /\ Pipes!Word(l, 0 + Len(a) + 1) \in Pipes!CommBlock
    BY <1>2, <2>1, <2>2
  <2>7. LET r == Append(a, Pipes!Word(l, 0 + Len(a) + 1)) IN Len(r) = Len(a) + 1
           /\ Follow(r, l, 0)
    BY <2>2, <2>6, FollowAppend
  <2>3. Len(Append(a, Head(b))) = Len(a) + 1 /\ Follow(Append(a, Head(b)), l, 0)
    BY <2>1, <2>2, <2>7
  <2>4. /\ (Len(a) + 1) + (Len(b) - 1) = Len(a) + Len(b)
        /\ (Len(a) + 1) + (Len(b) - 1) + Len(c) = Len(a) + Len(b) + Len(c)
        /\ (Len(a) + 1) + (Len(b) - 1) + Len(c) + Len(d) = Len(a) + Len(b) + Len(c) + Len(d)
    BY <1>1
  <2>5. QED
    BY <1>2, <2>1, <2>3, <2>4 DEF Consecutive
<1>4. ASSUME c # <<>>
      PROVE  Consecutive(l, a, Append(b, Head(c)), Tail(c), d, w)
  <2>1. /\ Head(c) = Pipes!Word(l, Len(a) + Len(b) + 1) /\ Head(c) \in Pipes!CommBlock
        /\ Len(Tail(c)) = Len(c) - 1 /\ Follow(Tail(c), l, Len(a) + Len(b) + 1)
        /\ Len(c) \in Nat \ {0}
    <3>1. Len(a) + Len(b) \in Nat /\ Follow(c, l, Len(a) + Len(b))
      BY <1>1, <1>2
    <3>2. QED
      BY <1>4, <3>1, FollowTail
  <2>3. Len(Append(b, Head(c))) = Len(b) + 1 /\ Follow(Append(b, Head(c)), l, Len(a))
    BY <1>1, <1>2, <2>1, FollowAppend
  <2>4. /\ Len(a) + (Len(b) + 1) = Len(a) + Len(b) + 1
        /\ Len(a) + (Len(b) + 1) + (Len(c) - 1) = Len(a) + Len(b) + Len(c)
        /\ Len(a) + (Len(b) + 1) + (Len(c) - 1) + Len(d) = Len(a) + Len(b) + Len(c) + Len(d)
    BY <1>1
  <2>5. QED
    BY <1>2, <2>1, <2>3, <2>4 DEF Consecutive
<1>5. ASSUME d # <<>>
      PROVE  Consecutive(l, a, b, Append(c, Head(d)), Tail(d), w)
  <2>1. /\ Head(d) = Pipes!Word(l, Len(a) + Len(b) + Len(c) + 1) /\ Head(d) \in Pipes!CommBlock
        /\ Len(Tail(d)) = Len(d) - 1 /\ Follow(Tail(d), l, Len(a) + Len(b) + Len(c) + 1)
        /\ Len(d) \in Nat \ {0}
    <3>1. Len(a) + Len(b) + Len(c) \in Nat /\ Follow(d, l, Len(a) + Len(b) + Len(c))
      BY <1>1, <1>2
    <3>2. QED
      BY <1>5, <3>1, FollowTail
  <2>3. Len(Append(c, Head(d))) = Len(c) + 1 /\ Follow(Append(c, Head(d)), l, Len(a) + Len(b))
    <3>1. Len(a) + Len(b) \in Nat /\ Follow(c, l, Len(a) + Len(b))
      BY <1>1, <1>2
    <3>2. Pipes!Word(l, Len(a) + Len(b) + Len(c) + 1) \in Pipes!CommBlock
      BY <2>1
    <3>3. LET r == Append(c, Pipes!Word(l, Len(a) + Len(b) + Len(c) + 1))
          IN  Len(r) = Len(c) + 1 /\ Follow(r, l, Len(a) + Len(b))
      BY <3>1, <3>2, FollowAppend
    <3>4. QED
      BY <2>1, <3>3
  <2>4. /\ Len(a) + Len(b) + (Len(c) + 1) = Len(a) + Len(b) + Len(c) + 1
        /\ Len(a) + Len(b) + (Len(c) + 1) + (Len(d) - 1) = Len(a) + Len(b) + Len(c) + Len(d)
    BY <1>1
  <2>5. QED
    BY <1>2, <2>1, <2>3, <2>4 DEF Consecutive
<1>6. ASSUME Pipes!Word(l, w + 1) \in Pipes!CommBlock
      PROVE  Consecutive(l, a, b, c, Append(d, Pipes!Word(l, w + 1)), w + 1)
  <2>1. w + 1 = Len(a) + Len(b) + Len(c) + Len(d) + 1
    BY <1>2
  <2>2. LET r == Append(d, Pipes!Word(l, w + 1))
        IN  Len(r) = Len(d) + 1 /\ Follow(r, l, Len(a) + Len(b) + Len(c))
    <3>1. Len(a) + Len(b) + Len(c) \in Nat /\ Follow(d, l, Len(a) + Len(b) + Len(c))
      BY <1>1, <1>2
    <3>2. Pipes!Word(l, Len(a) + Len(b) + Len(c) + Len(d) + 1) \in Pipes!CommBlock
      BY <1>6, <2>1
    <3>3. LET r == Append(d, Pipes!Word(l, Len(a) + Len(b) + Len(c) + Len(d) + 1))
          IN  Len(r) = Len(d) + 1 /\ Follow(r, l, Len(a) + Len(b) + Len(c))
      BY <3>1, <3>2, FollowAppend
    <3>4. QED
      BY <2>1, <3>3
  <2>3. w + 1 = Len(a) + Len(b) + Len(c) + (Len(d) + 1)
    BY <1>1, <2>1
  <2>4. QED
    BY <1>2, <2>2, <2>3 DEF Consecutive
<1>7. QED
  BY <1>3, <1>4, <1>5, <1>6

\* The first w words of line l, and four places as one.
Words(l, w) == [k \in 1..w |-> Pipes!Word(l, k)]

Together(a, b, c, d) == a \o b \o c \o d

\* All four places together hold the words in order.
LEMMA ConsecutiveTogether ==
  ASSUME NEW l, NEW a \in Seq(Pipes!CommBlock), NEW b \in Seq(Pipes!CommBlock),
         NEW c \in Seq(Pipes!CommBlock),
         NEW d \in Seq(Pipes!CommBlock), NEW w, Consecutive(l, a, b, c, d, w)
  PROVE  Together(a, b, c, d) = Words(l, w)
<1>1. /\ Len(a) \in Nat /\ Len(b) \in Nat /\ Len(c) \in Nat /\ Len(d) \in Nat
      /\ w = Len(a) + Len(b) + Len(c) + Len(d)
  BY LenProperties DEF Consecutive
<1> DEFINE ab == a \o b
           abc == ab \o c
           all == abc \o d
<1>2. /\ ab \in Seq(Pipes!CommBlock) /\ Len(ab) = Len(a) + Len(b)
      /\ \A k \in 1..(Len(a) + Len(b)) : ab[k] = IF k <= Len(a) THEN a[k] ELSE b[k - Len(a)]
  BY ConcatProperties
<1>3. \A k \in 1..Len(ab) : ab[k] = Pipes!Word(l, k)
  <2>1. TAKE k \in 1..Len(ab)
  <2>2. CASE k <= Len(a)
    <3>1. a[k] = Pipes!Word(l, 0 + k)
      BY <1>1, <1>2, <2>2 DEF Consecutive, Follow
    <3>2. QED
      BY <1>1, <1>2, <2>2, <3>1
  <2>3. CASE k > Len(a)
    <3>1. b[k - Len(a)] = Pipes!Word(l, Len(a) + (k - Len(a))) /\ Len(a) + (k - Len(a)) = k
      BY <1>1, <1>2, <2>3 DEF Consecutive, Follow
    <3>2. QED
      BY <1>1, <1>2, <2>3, <3>1
  <2>4. QED
    BY <1>1, <1>2, <2>2, <2>3
<1> HIDE DEF ab
<1>4. /\ abc \in Seq(Pipes!CommBlock) /\ Len(abc) = Len(ab) + Len(c)
      /\ \A k \in 1..(Len(ab) + Len(c)) : abc[k] = IF k <= Len(ab) THEN ab[k] ELSE c[k - Len(ab)]
  <2>1. ab \in Seq(Pipes!CommBlock)
    BY <1>2
  <2>2. QED
    BY <2>1, ConcatProperties
<1>5. \A k \in 1..Len(abc) : abc[k] = Pipes!Word(l, k)
  <2>1. TAKE k \in 1..Len(abc)
  <2>2. CASE k <= Len(ab)
    BY <1>1, <1>2, <1>3, <1>4, <2>2
  <2>3. CASE k > Len(ab)
    <3>1. c[k - Len(ab)] = Pipes!Word(l, Len(ab) + (k - Len(ab))) /\ Len(ab) + (k - Len(ab)) = k
      BY <1>1, <1>2, <1>4, <2>3 DEF Consecutive, Follow
    <3>2. QED
      BY <1>1, <1>2, <1>4, <2>3, <3>1
  <2>4. QED
    BY <1>1, <1>2, <1>4, <2>2, <2>3
<1> HIDE DEF abc
<1>6. /\ all \in Seq(Pipes!CommBlock) /\ Len(all) = Len(abc) + Len(d)
      /\ \A k \in 1..(Len(abc) + Len(d)) : all[k] = IF k <= Len(abc) THEN abc[k] ELSE d[k - Len(abc)]
  <2>1. abc \in Seq(Pipes!CommBlock)
    BY <1>4
  <2>2. QED
    BY <2>1, ConcatProperties
<1>7. \A k \in 1..Len(all) : all[k] = Pipes!Word(l, k)
  <2>1. TAKE k \in 1..Len(all)
  <2>2. CASE k <= Len(abc)
    BY <1>1, <1>2, <1>4, <1>5, <1>6, <2>2
  <2>3. CASE k > Len(abc)
    <3>1. d[k - Len(abc)] = Pipes!Word(l, Len(abc) + (k - Len(abc)))
             /\ Len(abc) + (k - Len(abc)) = k
      BY <1>1, <1>2, <1>4, <1>6, <2>3 DEF Consecutive, Follow
    <3>2. QED
      BY <1>1, <1>2, <1>4, <1>6, <2>3, <3>1
  <2>4. QED
    BY <1>1, <1>2, <1>4, <1>6, <2>2, <2>3
<1>8. Len(all) = w
  BY <1>1, <1>2, <1>4, <1>6
<1>9. all = [k \in 1..w |-> Pipes!Word(l, k)]
  <2> HIDE DEF all
  <2>1. all = [k \in 1..Len(all) |-> all[k]]
    BY <1>6, LenProperties
  <2>2. QED
    BY <1>7, <1>8, <2>1
<1>10. QED
  BY <1>9 DEF ab, abc, all, Words, Together

-----------------------------------------------------------------------------

\* Steps that open no entry leave what the tables say.
LEMMA TablesKept ==
  ASSUME Pipes!UnixDeviceAssumption, PipesInv, UNCHANGED <<state, handle, Pipes!table>>
  PROVE  /\ Tabled' /\ Separate'
         /\ \A p : Opened(p)' = Opened(p)
<1>1. state' = state /\ handle' = handle /\ tableIndex' = tableIndex /\ freeList' = freeList
         /\ entry' = entry
  BY DEF Pipes!table
<1>2. \A p : Opened(p)' = Opened(p)
  BY <1>1 DEF Opened
<1>3. Tabled'
  BY <1>1, <1>2 DEF PipesInv, Tabled
<1>4. Separate'
  BY <1>1, <1>2 DEF PipesInv, Separate
<1>5. QED
  BY <1>2, <1>3, <1>4

\* Queues r are queues q except for those of device d.
OnlyOf(d, q, r) ==
  /\ r \in [Pipes!Process -> [Pipes!Entries -> Seq(Pipes!CommBlock)]]
  /\ \A e \in Pipes!Device \ {d} : Pipes!Queued(r, e) = Pipes!Queued(q, e)
  /\ \A p \in Pipes!Process, k \in Pipes!Entries : k >= Cardinality(Opened(p))
     => r[p][k] = q[p][k]

\* A queue of an open entry is changed: the queues of other devices are not.
LEMMA QueueChange ==
  ASSUME Pipes!UnixDeviceAssumption, PipesInv,
         NEW d \in Pipes!Device, state[d] = "ready",
         NEW q \in [Pipes!Process -> [Pipes!Entries -> Seq(Pipes!CommBlock)]],
         NEW x \in Seq(Pipes!CommBlock)
  PROVE  LET r == [q EXCEPT ![d[1]][entry[d]] = x]
         IN  OnlyOf(d, q, r) /\ Pipes!Queued(r, d) = x
<1> DEFINE r == [q EXCEPT ![d[1]][entry[d]] = x]
<1>1. /\ d[1] \in Pipes!Process /\ None \notin Nat /\ entry[d] \in Pipes!Entries
         /\ entry[d] # None
      /\ entry[d] < Cardinality(Opened(d[1]))
  BY DevicesAre DEF PipesInv, Separate, Pipes!Entries
<1>2. r \in [Pipes!Process -> [Pipes!Entries -> Seq(Pipes!CommBlock)]]
  BY <1>1
<1>3. r[d[1]][entry[d]] = x
  BY <1>1
<1>4. \A p \in Pipes!Process, k \in Pipes!Entries : p # d[1] \/ k # entry[d] => r[p][k] = q[p][k]
  BY <1>1
<1> HIDE DEF r
<1>5. Pipes!Queued(r, d) = x
  BY <1>1, <1>3 DEF Pipes!Queued
<1>6. ASSUME NEW e \in Pipes!Device \ {d}
      PROVE  Pipes!Queued(r, e) = Pipes!Queued(q, e)
  <2>1. CASE entry[e] = None
    BY <2>1 DEF Pipes!Queued
  <2>2. CASE entry[e] # None
    <3>1. state[e] = "ready" /\ entry[e] \in Pipes!Entries /\ e[1] \in Pipes!Process
      BY <2>2, DevicesAre DEF PipesInv, Separate
    <3>2. e[1] # d[1] \/ entry[e] # entry[d]
      BY <3>1 DEF PipesInv, Separate
    <3>3. QED
      BY <1>4, <2>2, <3>1, <3>2 DEF Pipes!Queued
  <2>3. QED
    BY <2>1, <2>2
<1>7. ASSUME NEW p \in Pipes!Process, NEW k \in Pipes!Entries, k >= Cardinality(Opened(p))
      PROVE  r[p][k] = q[p][k]
  <2>1. Cardinality(Opened(p)) \in Nat /\ entry[d] \in Nat /\ k \in Nat
    BY <1>1, DevicesAre, FS_Subset, FS_CardinalityType DEF Opened, Pipes!Entries
  <2>2. p # d[1] \/ k # entry[d]
    BY <1>1, <1>7, <2>1
  <2>3. QED
    BY <1>4, <2>2
<1>8. QED
  BY <1>2, <1>5, <1>6, <1>7 DEF r, OnlyOf

\* What an open device has queued, and that queues stay as they are if they do.
LEMMA QueueOf ==
  ASSUME Pipes!UnixDeviceAssumption, PipesInv, NEW d \in Pipes!Device,
         NEW q \in [Pipes!Process -> [Pipes!Entries -> Seq(Pipes!CommBlock)]]
  PROVE  /\ Pipes!Queued(q, d) \in Seq(Pipes!CommBlock)
         /\ state[d] = "ready" => /\ Pipes!Queued(q, d) = q[d[1]][entry[d]]
                                     /\ handle[d] = entry[d]
                                  /\ d[1] \in Pipes!Process /\ entry[d] \in Pipes!Entries
         /\ state[d] # "ready" => Pipes!Queued(q, d) = <<>>
         /\ OnlyOf(d, q, q)
<1>1. d[1] \in Pipes!Process /\ None \notin Nat
  BY DevicesAre
<1>2. IF state[d] = "ready" THEN entry[d] \in Pipes!Entries /\ entry[d] # None
         /\ handle[d] = entry[d]
                            ELSE entry[d] = None
  BY <1>1 DEF PipesInv, Separate, Pipes!Entries
<1>3. OnlyOf(d, q, q)
  BY DEF OnlyOf
<1>4. <<>> \in Seq(Pipes!CommBlock)
  BY EmptySeq
<1>5. QED
  BY <1>1, <1>2, <1>3, <1>4 DEF Pipes!Queued

\* What is queued is a sequence of blocks, and so is what is in the pipe.
LEMMA PlacesAre ==
  ASSUME Pipes!UnixDeviceAssumption, PipesInv, NEW l \in Line
  PROVE  /\ received[l] \in Seq(Pipes!CommBlock)
         /\ Pipes!Queued(incomingQ, Pipes!Sink(l)) \in Seq(Pipes!CommBlock)
         /\ Pipes!Piped(l) \in Seq(Pipes!CommBlock)
         /\ Pipes!Queued(outgoingQ, Pipes!Source(l)) \in Seq(Pipes!CommBlock)
         /\ written[l] \in Nat
<1>1. <<>> \in Seq(Pipes!CommBlock)
  BY EmptySeq
<1>2. /\ Pipes!Queued(incomingQ, Pipes!Sink(l)) \in Seq(Pipes!CommBlock)
      /\ Pipes!Queued(outgoingQ, Pipes!Source(l)) \in Seq(Pipes!CommBlock)
  BY DevicesAre, QueueOf DEF PipesInv, PipesTypeOK, LineTypes
<1>3. Pipes!Piped(l) \in Seq(Pipes!CommBlock)
  <2>1. pipe[l] \in Seq(Pipes!CommBlock) \cup {None}
    BY DEF PipesInv, PipesTypeOK, LineTypes
  <2>2. CASE pipe[l] \in {None, <<>>}
    BY <1>1, <2>2 DEF Pipes!Piped
  <2>3. CASE pipe[l] \notin {None, <<>>}
    <3>1. Tail(pipe[l]) \in Seq(Pipes!CommBlock)
      BY <2>1, <2>3, Taking
    <3>2. QED
      BY <2>1, <2>3, <3>1 DEF Pipes!Piped
  <2>4. QED
    BY <2>2, <2>3
<1>4. QED
  BY <1>2, <1>3, DevicesAre DEF PipesInv, PipesTypeOK, LineTypes

\* A line on which nothing happens, although a process may end.
LEMMA LineKept ==
  ASSUME Pipes!UnixDeviceAssumption, PipesInv, NEW m \in Line, state' = state,
         running' \subseteq running,
         reader'[m] = reader[m], writer'[m] = writer[m], pipe'[m] = pipe[m],
         written'[m] = written[m], received'[m] = received[m],
         Pipes!Queued(incomingQ, Pipes!Sink(m))' = Pipes!Queued(incomingQ, Pipes!Sink(m)),
         Pipes!Queued(outgoingQ, Pipes!Source(m))' = Pipes!Queued(outgoingQ, Pipes!Source(m))
  PROVE  Paired(m)' /\ Ordered(m)'
<1>1. Paired(m) /\ Ordered(m)
  BY DEF PipesInv
<1>2. Paired(m)'
  BY <1>1 DEF Paired
<1>3. Pipes!Piped(m)' = Pipes!Piped(m)
  BY DEF Pipes!Piped
<1>4. Ordered(m)'
  BY <1>1, <1>3 DEF Ordered
<1>5. QED
  BY <1>2, <1>4

\* What is in the pipe between a writer that writes and a reader.
LEMMA PipedIs ==
  ASSUME Pipes!UnixDeviceAssumption, PipesInv, NEW l \in Line, writer[l] = "write"
  PROVE  /\ pipe[l] \in Seq(Pipes!CommBlock)
         /\ reader[l] = "sync" /\ pipe[l] # <<>> => Head(pipe[l]).sync
            /\ Pipes!Piped(l) = Tail(pipe[l])
         /\ reader[l] # "sync" \/ pipe[l] = <<>> => Pipes!Piped(l) = pipe[l]
<1>1. Paired(l)
  BY DEF PipesInv
<1>2. pipe[l] \in Seq(Pipes!CommBlock)
  <2>1. pipe[l] \in Seq(Pipes!CommBlock) \cup {None}
    BY DEF PipesInv, PipesTypeOK, LineTypes
  <2>2. QED
    BY <1>1, <2>1 DEF Paired
<1>3. CASE pipe[l] = <<>>
  BY <1>2, <1>3 DEF Pipes!Piped
<1>4. CASE pipe[l] # <<>>
  <2>1. pipe[l] # None
    BY <1>1 DEF Paired
  <2>2. Head(pipe[l]) = pipe[l][1] /\ 1 \in 1..Len(pipe[l])
    BY <1>2, <1>4, Taking
  <2>3. Head(pipe[l]).sync <=> reader[l] = "sync"
    BY <1>1, <2>2 DEF Paired
  <2>4. QED
    BY <1>2, <1>4, <2>1, <2>3 DEF Pipes!Piped
<1>5. QED
  BY <1>3, <1>4

-----------------------------------------------------------------------------

\* A step at line l alone keeps the invariant if it keeps what is about that line.
LEMMA StepOfLine ==
  ASSUME Pipes!UnixDeviceAssumption, PipesInv, NEW l \in Line,
         UNCHANGED <<state, handle, Pipes!table>>, running' \subseteq running,
         OnlyOf(Pipes!Sink(l), incomingQ, incomingQ'), OnlyOf(Pipes!Source(l), outgoingQ,
           outgoingQ'),
         LineTypes',
         \A m \in Line \ {l} :
           /\ reader'[m] = reader[m] /\ writer'[m] = writer[m] /\ pipe'[m] = pipe[m]
           /\ written'[m] = written[m] /\ received'[m] = received[m],
         Paired(l)', Ordered(l)'
  PROVE  PipesInv'
<1>1. state' = state /\ handle' = handle /\ tableIndex' = tableIndex /\ freeList' = freeList
         /\ entry' = entry
  BY DEF Pipes!table
<1>2. Tabled' /\ Separate' /\ \A p : Opened(p)' = Opened(p)
  BY <1>1, TablesKept
<1>3. PipesTypeOK'
  <2>1. /\ incomingQ' \in [Pipes!Process -> [Pipes!Entries -> Seq(Pipes!CommBlock)]]
        /\ outgoingQ' \in [Pipes!Process -> [Pipes!Entries -> Seq(Pipes!CommBlock)]]
    BY DEF OnlyOf
  <2>2. PipesTypeOK
    BY DEF PipesInv
  <2>3. QED
    BY <1>1, <2>1, <2>2 DEF PipesTypeOK
<1>4. ASSUME NEW p \in Pipes!Process, NEW k \in Pipes!Entries, k >= Cardinality(Opened(p)')
      PROVE  incomingQ'[p][k] = <<>> /\ outgoingQ'[p][k] = <<>>
  <2>1. k >= Cardinality(Opened(p))
    BY <1>2, <1>4
  <2>2. incomingQ[p][k] = <<>> /\ outgoingQ[p][k] = <<>>
    BY <2>1 DEF PipesInv, Unused
  <2>3. incomingQ'[p][k] = incomingQ[p][k]
    BY <2>1 DEF OnlyOf
  <2>4. outgoingQ'[p][k] = outgoingQ[p][k]
    BY <2>1 DEF OnlyOf
  <2>5. QED
    BY <2>2, <2>3, <2>4
<1>5. ASSUME NEW m \in Line \ {l}
      PROVE  Paired(m)' /\ Ordered(m)'
  <2>1. Pipes!Source(m) \in Pipes!Device \ {Pipes!Source(l)}
           /\ Pipes!Sink(m) \in Pipes!Device \ {Pipes!Sink(l)}
    BY DevicesAre
  <2>2. /\ Pipes!Queued(incomingQ, Pipes!Sink(m))' = Pipes!Queued(incomingQ, Pipes!Sink(m))
        /\ Pipes!Queued(outgoingQ, Pipes!Source(m))' = Pipes!Queued(outgoingQ, Pipes!Source(m))
    <3>1. /\ Pipes!Queued(incomingQ', Pipes!Sink(m)) = Pipes!Queued(incomingQ, Pipes!Sink(m))
          /\ Pipes!Queued(outgoingQ', Pipes!Source(m)) = Pipes!Queued(outgoingQ, Pipes!Source(m))
      BY <2>1 DEF OnlyOf
    <3>2. QED
      BY <1>1, <3>1 DEF Pipes!Queued
  <2>3. QED
    BY <1>1, <2>2, LineKept
<1>6. Unused'
  BY <1>4 DEF Unused
<1>7. QED
  BY <1>2, <1>3, <1>5, <1>6 DEF PipesInv

-----------------------------------------------------------------------------
(* One lemma per operation of a line.                                      *)

\* A device puts a word in the queue of its entry.
LEMMA CommWriteKeeps ==
  ASSUME Pipes!UnixDeviceAssumption, PipesInv, NEW l \in Line, Pipes!CommWrite(l)
  PROVE  PipesInv'
<1> DEFINE q == Pipes!Queued(outgoingQ, Pipes!Source(l))
           word == Pipes!Word(l, written[l] + 1)
<1>1. /\ Pipes!Source(l) \in Pipes!Device /\ Pipes!Source(l)[1] = l.from
         /\ Pipes!Sink(l) \in Pipes!Device
      /\ outgoingQ \in [Pipes!Process -> [Pipes!Entries -> Seq(Pipes!CommBlock)]]
      /\ incomingQ \in [Pipes!Process -> [Pipes!Entries -> Seq(Pipes!CommBlock)]]
      /\ LineTypes /\ Paired(l) /\ Ordered(l)
  BY DevicesAre DEF PipesInv, PipesTypeOK
<1>2. /\ state[Pipes!Source(l)] = "ready"
      /\ written' = [written EXCEPT ![l] = @ + 1]
      /\ outgoingQ' = [outgoingQ EXCEPT ![l.from][handle[Pipes!Source(l)]] = Append(@,
        Pipes!Word(l, written'[l]))]
      /\ UNCHANGED <<state, handle, Pipes!table, incomingQ, reader, retries, writer,
                     pipe, running, received>>
  BY DEF Pipes!CommWrite, Pipes!Valid
<1>3. /\ q \in Seq(Pipes!CommBlock) /\ q = outgoingQ[l.from][entry[Pipes!Source(l)]]
      /\ handle[Pipes!Source(l)] = entry[Pipes!Source(l)]
      /\ l.from \in Pipes!Process /\ entry[Pipes!Source(l)] \in Pipes!Entries
  BY <1>1, <1>2, QueueOf
<1>4. /\ written'[l] = written[l] + 1 /\ written[l] \in Nat
      /\ \A m \in Line \ {l} : written'[m] = written[m]
      /\ written' \in [Line -> Nat]
  <2>1. written \in [Line -> Nat]
    BY <1>1 DEF LineTypes
  <2>2. QED
    BY <1>2, <2>1
<1>5. word \in Pipes!CommBlock /\ Append(q, word) \in Seq(Pipes!CommBlock)
  <2>1. word \in Pipes!CommBlock
    BY <1>4 DEF Pipes!Word, Pipes!CommBlock
  <2>2. QED
    BY <1>3, <2>1, Appended
<1> HIDE DEF q, word
<1>6. outgoingQ' = [outgoingQ EXCEPT ![Pipes!Source(l)[1]][entry[Pipes!Source(l)]] = Append(q,
        word)]
  <2>1. outgoingQ' = [outgoingQ EXCEPT ![l.from][entry[Pipes!Source(l)]] = Append(@, word)]
    BY <1>2, <1>3, <1>4 DEF word
  <2>2. QED
    BY <1>1, <1>3, <2>1
<1>7. OnlyOf(Pipes!Source(l), outgoingQ, outgoingQ')
         /\ Pipes!Queued(outgoingQ', Pipes!Source(l)) = Append(q, word)
  <2>1. LET r == [outgoingQ EXCEPT ![Pipes!Source(l)[1]][entry[Pipes!Source(l)]] = Append(q,
          word)]
        IN  OnlyOf(Pipes!Source(l), outgoingQ, r)
           /\ Pipes!Queued(r, Pipes!Source(l)) = Append(q, word)
    BY <1>1, <1>2, <1>5, QueueChange
  <2>2. QED
    BY <1>6, <2>1
<1>8. OnlyOf(Pipes!Sink(l), incomingQ, incomingQ')
  BY <1>1, <1>2, QueueOf
<1>9. Paired(l)'
  BY <1>1, <1>2 DEF Paired
<1>10. Ordered(l)'
  <2>1. /\ received'[l] = received[l] /\ Pipes!Piped(l)' = Pipes!Piped(l)
        /\ Pipes!Queued(incomingQ, Pipes!Sink(l))' = Pipes!Queued(incomingQ, Pipes!Sink(l))
        /\ Pipes!Queued(outgoingQ, Pipes!Source(l))' = Append(q, word)
    BY <1>2, <1>7 DEF Pipes!Piped, Pipes!Queued, Pipes!table
  <2>2. Consecutive(l, received[l], Pipes!Queued(incomingQ, Pipes!Sink(l)), Pipes!Piped(l), q,
          written[l])
    BY <1>1 DEF Ordered, q
  <2>3. Consecutive(l, received[l], Pipes!Queued(incomingQ, Pipes!Sink(l)), Pipes!Piped(l),
          Append(q, word), written[l] + 1)
    BY <1>3, <1>5, <2>2, PlacesAre, MoveOn DEF word
  <2>4. QED
    BY <1>4, <2>1, <2>3 DEF Ordered
<1>11. LineTypes'
  BY <1>1, <1>2, <1>4 DEF LineTypes
<1>12. QED
  BY <1>2, <1>4, <1>7, <1>8, <1>9, <1>10, <1>11, StepOfLine

\* A device takes a word from the queue of its entry.
LEMMA CommReadKeeps ==
  ASSUME Pipes!UnixDeviceAssumption, PipesInv, NEW l \in Line, Pipes!CommRead(l)
  PROVE  PipesInv'
<1> DEFINE q == Pipes!Queued(incomingQ, Pipes!Sink(l))
<1>1. /\ Pipes!Source(l) \in Pipes!Device /\ Pipes!Sink(l)[1] = l.to
         /\ Pipes!Sink(l) \in Pipes!Device
      /\ outgoingQ \in [Pipes!Process -> [Pipes!Entries -> Seq(Pipes!CommBlock)]]
      /\ incomingQ \in [Pipes!Process -> [Pipes!Entries -> Seq(Pipes!CommBlock)]]
      /\ LineTypes /\ Paired(l) /\ Ordered(l)
  BY DevicesAre DEF PipesInv, PipesTypeOK
<1>2. /\ state[Pipes!Sink(l)] = "ready"
      /\ incomingQ[l.to][handle[Pipes!Sink(l)]] # <<>>
      /\ incomingQ' = [incomingQ EXCEPT ![l.to][handle[Pipes!Sink(l)]] = Tail(@)]
      /\ received' = [received EXCEPT ![l] = Append(@,
        Head(incomingQ[l.to][handle[Pipes!Sink(l)]]))]
      /\ UNCHANGED <<state, handle, Pipes!table, outgoingQ, reader, retries, writer,
                     pipe, running, written>>
  BY DEF Pipes!CommRead, Pipes!Valid
<1>3. /\ q \in Seq(Pipes!CommBlock) /\ q = incomingQ[l.to][entry[Pipes!Sink(l)]]
      /\ handle[Pipes!Sink(l)] = entry[Pipes!Sink(l)]
      /\ l.to \in Pipes!Process /\ entry[Pipes!Sink(l)] \in Pipes!Entries
  BY <1>1, <1>2, QueueOf
<1>4. q # <<>> /\ Tail(q) \in Seq(Pipes!CommBlock) /\ Head(q) \in Pipes!CommBlock
  <2>1. q # <<>>
    BY <1>2, <1>3
  <2>2. QED
    BY <1>3, <2>1, Taking
<1>5. /\ received' \in [Line -> Seq(Pipes!CommBlock)]
      /\ received'[l] = Append(received[l], Head(q))
      /\ \A m \in Line \ {l} : received'[m] = received[m]
  <2>1. Append(received[l], Head(q)) \in Seq(Pipes!CommBlock)
           /\ received \in [Line -> Seq(Pipes!CommBlock)]
    BY <1>1, <1>4, Appended DEF LineTypes
  <2>2. received' = [received EXCEPT ![l] = Append(received[l], Head(q))]
    BY <1>2, <1>3
  <2>3. QED
    BY <2>1, <2>2
<1> HIDE DEF q
<1>6. incomingQ' = [incomingQ EXCEPT ![Pipes!Sink(l)[1]][entry[Pipes!Sink(l)]] = Tail(q)]
  BY <1>1, <1>2, <1>3
<1>7. OnlyOf(Pipes!Sink(l), incomingQ, incomingQ')
         /\ Pipes!Queued(incomingQ', Pipes!Sink(l)) = Tail(q)
  <2>1. LET r == [incomingQ EXCEPT ![Pipes!Sink(l)[1]][entry[Pipes!Sink(l)]] = Tail(q)]
        IN  OnlyOf(Pipes!Sink(l), incomingQ, r) /\ Pipes!Queued(r, Pipes!Sink(l)) = Tail(q)
    BY <1>1, <1>2, <1>4, QueueChange
  <2>2. QED
    BY <1>6, <2>1
<1>8. OnlyOf(Pipes!Source(l), outgoingQ, outgoingQ')
  BY <1>1, <1>2, QueueOf
<1>9. Paired(l)'
  BY <1>1, <1>2 DEF Paired
<1>10. Ordered(l)'
  <2>1. /\ written'[l] = written[l] /\ Pipes!Piped(l)' = Pipes!Piped(l)
        /\ Pipes!Queued(incomingQ, Pipes!Sink(l))' = Tail(q)
        /\ Pipes!Queued(outgoingQ, Pipes!Source(l))' = Pipes!Queued(outgoingQ, Pipes!Source(l))
    BY <1>2, <1>7 DEF Pipes!Piped, Pipes!Queued, Pipes!table
  <2>2. Consecutive(l, received[l], q, Pipes!Piped(l), Pipes!Queued(outgoingQ,
          Pipes!Source(l)), written[l])
    BY <1>1 DEF Ordered, q
  <2>3. Consecutive(l, Append(received[l], Head(q)), Tail(q), Pipes!Piped(l),
          Pipes!Queued(outgoingQ, Pipes!Source(l)), written[l])
    BY <1>3, <1>4, <2>2, PlacesAre, MoveOn
  <2>4. QED
    BY <1>5, <2>1, <2>3 DEF Ordered
<1>11. LineTypes'
  BY <1>1, <1>2, <1>5 DEF LineTypes
<1>12. QED
  BY <1>2, <1>5, <1>7, <1>8, <1>9, <1>10, <1>11, StepOfLine

\* Making and opening the pipe.
LEMMA OpeningKeeps ==
  ASSUME Pipes!UnixDeviceAssumption, PipesInv, NEW l \in Line,
         Pipes!Mkfifo(l) \/ Pipes!OpenFails(l) \/ Pipes!Open(l) \/ Pipes!ReadEnds(l)
  PROVE  PipesInv'
<1>1. /\ Pipes!Source(l) \in Pipes!Device /\ Pipes!Sink(l) \in Pipes!Device
      /\ outgoingQ \in [Pipes!Process -> [Pipes!Entries -> Seq(Pipes!CommBlock)]]
      /\ incomingQ \in [Pipes!Process -> [Pipes!Entries -> Seq(Pipes!CommBlock)]]
      /\ LineTypes /\ Paired(l) /\ Ordered(l) /\ None # <<>>
      /\ <<>> \in Seq(Pipes!CommBlock)
  BY DevicesAre, EmptySeq DEF PipesInv, PipesTypeOK
<1>2. UNCHANGED <<state, handle, Pipes!table, incomingQ, outgoingQ, running, written, received>>
  BY DEF Pipes!Mkfifo, Pipes!OpenFails, Pipes!Open, Pipes!ReadEnds
<1>3. OnlyOf(Pipes!Sink(l), incomingQ, incomingQ')
         /\ OnlyOf(Pipes!Source(l), outgoingQ, outgoingQ')
  BY <1>1, <1>2, QueueOf
<1>4. /\ \A m \in Line \ {l} : reader'[m] = reader[m] /\ writer'[m] = writer[m]
         /\ pipe'[m] = pipe[m]
      /\ LineTypes'
  BY <1>1, <1>2 DEF Pipes!Mkfifo, Pipes!OpenFails, Pipes!Open, Pipes!ReadEnds, LineTypes
<1>5. Paired(l)' /\ Pipes!Piped(l)' = Pipes!Piped(l)
  <2>1. CASE Pipes!Mkfifo(l)
    <3>1. writer[l] = "mkfifo" /\ writer'[l] = "open" /\ reader' = reader
             /\ pipe[l] \in {None, <<>>} /\ pipe'[l] = <<>>
      BY <1>1, <2>1 DEF Pipes!Mkfifo, LineTypes, Paired
    <3>2. QED
      BY <1>1, <1>2, <3>1 DEF Paired, Pipes!Piped
  <2>2. CASE Pipes!OpenFails(l)
    <3>1. reader[l] = "open" /\ reader'[l] \in {"open", "timed out"} /\ writer' = writer
             /\ pipe' = pipe
      BY <1>1, <2>2 DEF Pipes!OpenFails, LineTypes
    <3>2. QED
      BY <1>1, <1>2, <3>1 DEF Paired, Pipes!Piped
  <2>3. CASE Pipes!Open(l)
    <3>1. /\ reader[l] = "open" /\ reader'[l] = "sync" /\ writer[l] = "open"
             /\ writer'[l] = "sync" /\ pipe' = pipe
      BY <1>1, <2>3 DEF Pipes!Open, LineTypes
    <3>2. QED
      BY <1>1, <1>2, <3>1 DEF Paired, Pipes!Piped
  <2>4. CASE Pipes!ReadEnds(l)
    <3>1. reader[l] = "read" /\ reader'[l] = "ended" /\ writer' = writer /\ pipe' = pipe
      BY <1>1, <2>4 DEF Pipes!ReadEnds, LineTypes
    <3>2. QED
      BY <1>1, <1>2, <3>1 DEF Paired, Pipes!Piped
  <2>5. QED
    BY <2>1, <2>2, <2>3, <2>4
<1>6. Ordered(l)'
  <2>1. /\ Pipes!Queued(incomingQ, Pipes!Sink(l))' = Pipes!Queued(incomingQ, Pipes!Sink(l))
        /\ Pipes!Queued(outgoingQ, Pipes!Source(l))' = Pipes!Queued(outgoingQ, Pipes!Source(l))
    BY <1>2 DEF Pipes!Queued, Pipes!table
  <2>2. QED
    BY <1>1, <1>2, <1>5, <2>1 DEF Ordered
<1>7. QED
  BY <1>2, <1>3, <1>4, <1>5, <1>6, StepOfLine

\* The writer marks where words begin, or ends its process.
LEMMA SendSyncKeeps ==
  ASSUME Pipes!UnixDeviceAssumption, PipesInv, NEW l \in Line, Pipes!SendSync(l)
  PROVE  PipesInv'
<1>1. /\ Pipes!Source(l) \in Pipes!Device /\ Pipes!Sink(l) \in Pipes!Device
      /\ outgoingQ \in [Pipes!Process -> [Pipes!Entries -> Seq(Pipes!CommBlock)]]
      /\ incomingQ \in [Pipes!Process -> [Pipes!Entries -> Seq(Pipes!CommBlock)]]
      /\ LineTypes /\ Paired(l) /\ Ordered(l) /\ None \notin Seq(Pipes!CommBlock)
      /\ <<>> \in Seq(Pipes!CommBlock)
  BY DevicesAre, EmptySeq DEF PipesInv, PipesTypeOK
<1>2. /\ writer[l] = "sync" /\ Pipes!SendBlock(l, Pipes!Sync(l))
      /\ writer' = [writer EXCEPT ![l] = "write"]
      /\ UNCHANGED <<state, handle, Pipes!table, incomingQ, outgoingQ, reader, retries,
                     written, received>>
  BY DEF Pipes!SendSync
<1>3. OnlyOf(Pipes!Sink(l), incomingQ, incomingQ')
         /\ OnlyOf(Pipes!Source(l), outgoingQ, outgoingQ')
  BY <1>1, <1>2, QueueOf
<1>4. pipe[l] = <<>> /\ reader[l] = "sync" /\ reader' = reader /\ writer'[l] = "write"
      /\ Pipes!Piped(l) = <<>>
  BY <1>1, <1>2 DEF Paired, LineTypes, Pipes!Piped
<1>5. Pipes!Sync(l) \in Pipes!CommBlock /\ Pipes!Sync(l).sync
  BY DEF Pipes!Sync, Pipes!CommBlock
<1>6. /\ Append(<<>>, Pipes!Sync(l)) \in Seq(Pipes!CommBlock)
         /\ Append(<<>>, Pipes!Sync(l)) # <<>>
      /\ Len(Append(<<>>, Pipes!Sync(l))) = 1 /\ Append(<<>>, Pipes!Sync(l))[1] = Pipes!Sync(l)
      /\ Head(Append(<<>>, Pipes!Sync(l))) = Pipes!Sync(l)
         /\ Tail(Append(<<>>, Pipes!Sync(l))) = <<>>
  BY <1>5
<1> DEFINE one == Append(<<>>, Pipes!Sync(l))
<1> HIDE DEF one
<1>7. CASE Pipes!ReaderOpen(l)
  <2>1. pipe' = [pipe EXCEPT ![l] = one] /\ running' = running
    BY <1>2, <1>4, <1>7 DEF Pipes!SendBlock, one
  <2>2. pipe' \in [Line -> Seq(Pipes!CommBlock) \cup {None}] /\ pipe'[l] = one
        /\ \A m \in Line \ {l} : pipe'[m] = pipe[m]
    BY <1>1, <1>6, <2>1 DEF LineTypes, one
  <2>3. Pipes!Piped(l)' = <<>>
    BY <1>1, <1>5, <1>6, <2>2 DEF Pipes!Piped, one
  <2>4. Paired(l)'
    <3>1. \A k \in 1..Len(one) : one[k].sync <=> k = 1
      BY <1>5, <1>6 DEF one
    <3>2. one # None /\ one # <<>>
      BY <1>1, <1>6 DEF one
    <3>3. /\ writer'[l] = "write" /\ reader'[l] = "sync" /\ pipe'[l] = one /\ state' = state
          /\ state[Pipes!Source(l)] = "ready" /\ state[Pipes!Sink(l)] = "ready"
      BY <1>1, <1>2, <1>4, <2>2 DEF Paired
    <3>4. QED
      BY <3>1, <3>2, <3>3 DEF Paired
  <2>5. Ordered(l)'
    BY <1>1, <1>2, <1>4, <2>3 DEF Ordered, Pipes!Queued, Pipes!table
  <2>6. LineTypes'
    BY <1>1, <1>2, <2>2 DEF LineTypes
  <2>7. \A m \in Line \ {l} : writer'[m] = writer[m]
    BY <1>1, <1>2 DEF LineTypes
  <2>8. QED
    BY <1>2, <1>3, <2>1, <2>2, <2>4, <2>5, <2>6, <2>7, StepOfLine
<1>8. CASE ~Pipes!ReaderOpen(l)
  <2>1. pipe' = pipe /\ running' = running \ {l.from}
    BY <1>2, <1>8 DEF Pipes!SendBlock
  <2>2. Pipes!Piped(l)' = <<>>
    BY <1>4, <2>1 DEF Pipes!Piped
  <2>3. Paired(l)'
    <3>1. /\ writer'[l] = "write" /\ reader'[l] = "sync" /\ pipe'[l] = <<>> /\ state' = state
          /\ state[Pipes!Source(l)] = "ready" /\ state[Pipes!Sink(l)] = "ready"
             /\ l.from \notin running'
      BY <1>1, <1>2, <1>4, <2>1 DEF Paired
    <3>2. <<>> # None /\ \A k \in 1..Len(<<>>) : FALSE
      <4>1. <<>> # None
        BY <1>1
      <4>2. Len(<<>>) = 0
        BY EmptySeq
      <4>3. QED
        BY <4>1, <4>2
    <3>3. QED
      BY <3>1, <3>2 DEF Paired
  <2>5. Ordered(l)'
    BY <1>1, <1>2, <1>4, <2>2 DEF Ordered, Pipes!Queued, Pipes!table
  <2>6. LineTypes'
    BY <1>1, <1>2, <2>1 DEF LineTypes
  <2>7. \A m \in Line \ {l} : writer'[m] = writer[m]
    BY <1>1, <1>2 DEF LineTypes
  <2>8. QED
    BY <1>2, <1>3, <2>1, <2>3, <2>5, <2>6, <2>7, StepOfLine
<1>9. QED
  BY <1>7, <1>8

\* One more word behind what is in the pipe.
LEMMA PipeAppend ==
  ASSUME Pipes!UnixDeviceAssumption, PipesInv, NEW l \in Line, writer[l] = "write",
         l.from \in running,
         reader[l] \in {"sync", "read"}, NEW x \in Pipes!CommBlock, ~x.sync
  PROVE  LET r == Append(pipe[l], x)
         IN  /\ r \in Seq(Pipes!CommBlock) /\ r # <<>> /\ r # None
             /\ \A k \in 1..Len(r) : r[k].sync <=> (k = 1 /\ reader[l] = "sync")
             /\ IF Head(r).sync THEN Tail(r) = Append(Pipes!Piped(l),
               x) ELSE r = Append(Pipes!Piped(l), x)
<1> DEFINE p == pipe[l]
           r == Append(p, x)
<1>1. p \in Seq(Pipes!CommBlock) /\ Paired(l) /\ None \notin Seq(Pipes!CommBlock)
  BY PipedIs, DevicesAre DEF PipesInv
<1>2. /\ r \in Seq(Pipes!CommBlock) /\ Len(r) = Len(p) + 1 /\ Len(p) \in Nat
      /\ \A k \in 1..(Len(p) + 1) : r[k] = IF k = Len(p) + 1 THEN x ELSE p[k]
  BY <1>1, Appended
<1>3. /\ \A k \in 1..Len(p) : p[k].sync <=> (k = 1 /\ reader[l] = "sync")
      /\ reader[l] = "sync" => p # <<>>
  BY <1>1 DEF Paired
<1>4. reader[l] = "sync" => Len(p) > 0
  BY <1>1, <1>2, <1>3, EmptySeq
<1> HIDE DEF r
<1>5. r # <<>> /\ r # None /\ Head(r) = r[1]
  BY <1>1, <1>2
<1>6. ASSUME NEW k \in 1..Len(r)
      PROVE  r[k].sync <=> (k = 1 /\ reader[l] = "sync")
  <2>1. CASE k = Len(p) + 1
    <3>1. r[k] = x
      BY <1>2, <2>1
    <3>2. ~(k = 1 /\ reader[l] = "sync")
      BY <1>2, <1>4, <2>1
    <3>3. QED
      BY <3>1, <3>2
  <2>2. CASE k # Len(p) + 1
    <3>1. k \in 1..Len(p) /\ r[k] = p[k]
      BY <1>2, <2>2
    <3>2. QED
      BY <1>3, <3>1
  <2>3. QED
    BY <2>1, <2>2
<1>7. Head(r).sync <=> reader[l] = "sync"
  <2>1. 1 \in 1..Len(r)
    BY <1>2
  <2>2. QED
    BY <1>5, <1>6, <2>1
<1>8. IF Head(r).sync THEN Tail(r) = Append(Pipes!Piped(l), x) ELSE r = Append(Pipes!Piped(l), x)
  <2>1. CASE reader[l] = "sync"
    <3>1. Pipes!Piped(l) = Tail(p) /\ p # <<>>
      BY <1>3, <2>1, PipedIs
    <3>2. Tail(Append(p, x)) = Append(Tail(p), x)
      BY <1>1, <3>1
    <3>3. QED
      BY <1>7, <2>1, <3>1, <3>2 DEF r
  <2>2. CASE reader[l] = "read"
    <3>1. Pipes!Piped(l) = p
      BY <2>2, PipedIs
    <3>2. QED
      BY <1>7, <2>2, <3>1 DEF r
  <2>3. QED
    BY <2>1, <2>2
<1>9. QED
  BY <1>2, <1>5, <1>6, <1>8 DEF r

\* The writer puts a word into the pipe, or ends its process.
LEMMA WriteKeeps ==
  ASSUME Pipes!UnixDeviceAssumption, PipesInv, NEW l \in Line, Pipes!Write(l)
  PROVE  PipesInv'
<1> DEFINE q == Pipes!Queued(outgoingQ, Pipes!Source(l))
<1>1. /\ Pipes!Source(l) \in Pipes!Device /\ Pipes!Source(l)[1] = l.from
         /\ Pipes!Sink(l) \in Pipes!Device
      /\ outgoingQ \in [Pipes!Process -> [Pipes!Entries -> Seq(Pipes!CommBlock)]]
      /\ incomingQ \in [Pipes!Process -> [Pipes!Entries -> Seq(Pipes!CommBlock)]]
      /\ LineTypes /\ Paired(l) /\ Ordered(l)
  BY DevicesAre DEF PipesInv, PipesTypeOK
<1>2. /\ writer[l] = "write" /\ l.from \in running
      /\ outgoingQ[l.from][entry[Pipes!Source(l)]] # <<>>
      /\ Pipes!SendBlock(l, Head(outgoingQ[l.from][entry[Pipes!Source(l)]]))
      /\ outgoingQ' = IF Pipes!ReaderOpen(l)
                      THEN [outgoingQ EXCEPT ![l.from][entry[Pipes!Source(l)]] = Tail(@)]
                      ELSE outgoingQ
      /\ UNCHANGED <<state, handle, Pipes!table, incomingQ, reader, retries, writer, written,
                     received>>
  BY DEF Pipes!Write
<1>3. state[Pipes!Source(l)] = "ready"
  BY <1>1, <1>2 DEF Paired
<1>4. /\ q \in Seq(Pipes!CommBlock) /\ q = outgoingQ[l.from][entry[Pipes!Source(l)]]
      /\ l.from \in Pipes!Process /\ entry[Pipes!Source(l)] \in Pipes!Entries
  BY <1>1, <1>3, QueueOf
<1>5. q # <<>> /\ Tail(q) \in Seq(Pipes!CommBlock) /\ Head(q) \in Pipes!CommBlock
  <2>1. q # <<>>
    BY <1>2, <1>4
  <2>2. QED
    BY <1>4, <2>1, Taking
<1>6. OnlyOf(Pipes!Sink(l), incomingQ, incomingQ')
  BY <1>1, <1>2, QueueOf
<1>7. Consecutive(l, received[l], Pipes!Queued(incomingQ, Pipes!Sink(l)), Pipes!Piped(l), q,
        written[l])
  BY <1>1 DEF Ordered
<1>8. ~Head(q).sync
  <2>1. Follow(q, l, Len(received[l]) + Len(Pipes!Queued(incomingQ,
          Pipes!Sink(l))) + Len(Pipes!Piped(l)))
    BY <1>7 DEF Consecutive
  <2>2. Len(received[l]) + Len(Pipes!Queued(incomingQ,
          Pipes!Sink(l))) + Len(Pipes!Piped(l)) \in Nat
    BY PlacesAre, LenProperties
  <2>3. Head(q) = Pipes!Word(l, Len(received[l]) + Len(Pipes!Queued(incomingQ,
          Pipes!Sink(l))) + Len(Pipes!Piped(l)) + 1)
    BY <1>4, <1>5, <2>1, <2>2, FollowTail
  <2>4. QED
    BY <2>3 DEF Pipes!Word
<1> HIDE DEF q
<1>9. CASE Pipes!ReaderOpen(l)
  <2> DEFINE r == Append(pipe[l], Head(q))
  <2>1. /\ pipe' = [pipe EXCEPT ![l] = r] /\ running' = running
        /\ outgoingQ' = [outgoingQ EXCEPT ![Pipes!Source(l)[1]][entry[Pipes!Source(l)]] = Tail(q)]
    BY <1>1, <1>2, <1>4, <1>9 DEF Pipes!SendBlock
  <2>2. reader[l] \in {"sync", "read"}
    BY <1>9 DEF Pipes!ReaderOpen
  <2>3. /\ r \in Seq(Pipes!CommBlock) /\ r # <<>> /\ r # None
        /\ \A k \in 1..Len(r) : r[k].sync <=> (k = 1 /\ reader[l] = "sync")
        /\ IF Head(r).sync THEN Tail(r) = Append(Pipes!Piped(l),
          Head(q)) ELSE r = Append(Pipes!Piped(l), Head(q))
    BY <1>2, <1>5, <1>8, <2>2, PipeAppend
  <2> HIDE DEF r
  <2>4. pipe' \in [Line -> Seq(Pipes!CommBlock) \cup {None}] /\ pipe'[l] = r
        /\ \A m \in Line \ {l} : pipe'[m] = pipe[m]
    BY <1>1, <2>1, <2>3 DEF LineTypes
  <2>5. OnlyOf(Pipes!Source(l), outgoingQ, outgoingQ')
           /\ Pipes!Queued(outgoingQ', Pipes!Source(l)) = Tail(q)
    <3>1. LET s == [outgoingQ EXCEPT ![Pipes!Source(l)[1]][entry[Pipes!Source(l)]] = Tail(q)]
          IN  OnlyOf(Pipes!Source(l), outgoingQ, s) /\ Pipes!Queued(s, Pipes!Source(l)) = Tail(q)
      BY <1>1, <1>3, <1>5, QueueChange
    <3>2. QED
      BY <2>1, <3>1
  <2>6. Pipes!Piped(l)' = Append(Pipes!Piped(l), Head(q))
    BY <2>3, <2>4 DEF Pipes!Piped
  <2>7. Paired(l)'
    BY <1>1, <1>2, <2>1, <2>3, <2>4 DEF Paired
  <2>8. Ordered(l)'
    <3>1. /\ received'[l] = received[l] /\ written'[l] = written[l]
          /\ Pipes!Queued(incomingQ, Pipes!Sink(l))' = Pipes!Queued(incomingQ, Pipes!Sink(l))
          /\ Pipes!Queued(outgoingQ, Pipes!Source(l))' = Tail(q)
      BY <1>2, <2>5 DEF Pipes!Queued, Pipes!table
    <3>2. Consecutive(l, received[l], Pipes!Queued(incomingQ, Pipes!Sink(l)),
            Append(Pipes!Piped(l), Head(q)), Tail(q), written[l])
      BY <1>4, <1>5, <1>7, PlacesAre, MoveOn
    <3>3. QED
      BY <2>6, <3>1, <3>2 DEF Ordered
  <2>9. LineTypes'
    BY <1>1, <1>2, <2>4 DEF LineTypes
  <2>10. QED
    BY <1>2, <1>6, <2>1, <2>4, <2>5, <2>7, <2>8, <2>9, StepOfLine
<1>10. CASE ~Pipes!ReaderOpen(l)
  <2>1. pipe' = pipe /\ running' = running \ {l.from} /\ outgoingQ' = outgoingQ
    BY <1>2, <1>10 DEF Pipes!SendBlock
  <2>2. OnlyOf(Pipes!Source(l), outgoingQ, outgoingQ')
    BY <1>1, <2>1, QueueOf
  <2>3. Paired(l)'
    BY <1>1, <1>2, <2>1 DEF Paired
  <2>4. Ordered(l)'
    BY <1>1, <1>2, <2>1 DEF Ordered, Pipes!Queued, Pipes!table, Pipes!Piped
  <2>5. LineTypes'
    BY <1>1, <1>2, <2>1 DEF LineTypes
  <2>6. QED
    BY <1>2, <1>6, <2>1, <2>2, <2>3, <2>4, <2>5, StepOfLine
<1>11. QED
  BY <1>9, <1>10

\* The reader finds where words begin.
LEMMA ReadSyncKeeps ==
  ASSUME Pipes!UnixDeviceAssumption, PipesInv, NEW l \in Line, Pipes!ReadSync(l)
  PROVE  PipesInv'
<1> DEFINE p == pipe[l]
<1>1. /\ Pipes!Source(l) \in Pipes!Device /\ Pipes!Sink(l) \in Pipes!Device
      /\ outgoingQ \in [Pipes!Process -> [Pipes!Entries -> Seq(Pipes!CommBlock)]]
      /\ incomingQ \in [Pipes!Process -> [Pipes!Entries -> Seq(Pipes!CommBlock)]]
      /\ LineTypes /\ Paired(l) /\ Ordered(l) /\ None \notin Seq(Pipes!CommBlock)
  BY DevicesAre DEF PipesInv, PipesTypeOK
<1>2. /\ reader[l] = "sync" /\ p # <<>>
      /\ pipe' = [pipe EXCEPT ![l] = Tail(@)]
      /\ reader' = [reader EXCEPT ![l] = IF Head(p).sync THEN "read" ELSE "sync"]
      /\ UNCHANGED <<state, handle, Pipes!table, incomingQ, outgoingQ, retries, writer,
                     running, written, received>>
  BY DEF Pipes!ReadSync
<1>3. writer[l] = "write"
  BY <1>1, <1>2 DEF Paired, LineTypes
<1>4. p \in Seq(Pipes!CommBlock) /\ Head(p).sync /\ Pipes!Piped(l) = Tail(p)
  BY <1>2, <1>3, PipedIs
<1>5. /\ Tail(p) \in Seq(Pipes!CommBlock) /\ Len(p) \in Nat \ {0} /\ Len(Tail(p)) = Len(p) - 1
      /\ \A k \in 1..(Len(p) - 1) : Tail(p)[k] = p[k + 1]
  BY <1>2, <1>4, Taking
<1>6. \A k \in 1..Len(Tail(p)) : ~Tail(p)[k].sync
  <2>1. TAKE k \in 1..Len(Tail(p))
  <2>2. k + 1 \in 1..Len(p) /\ k + 1 # 1 /\ Tail(p)[k] = p[k + 1]
    BY <1>5
  <2>3. ~p[k + 1].sync
    BY <1>1, <1>3, <2>2 DEF Paired
  <2>4. QED
    BY <2>2, <2>3
<1>7. reader'[l] = "read" /\ pipe'[l] = Tail(p)
  BY <1>1, <1>2, <1>4 DEF LineTypes
<1>8. Paired(l)'
  BY <1>1, <1>2, <1>3, <1>5, <1>6, <1>7 DEF Paired
<1>9. Pipes!Piped(l)' = Tail(p)
  <2>1. CASE Tail(p) = <<>>
    BY <1>7, <2>1 DEF Pipes!Piped
  <2>2. CASE Tail(p) # <<>>
    <3>1. Head(Tail(p)) = Tail(p)[1] /\ 1 \in 1..Len(Tail(p))
      BY <1>5, <2>2, Taking
    <3>2. ~Head(Tail(p)).sync /\ Tail(p) # None
      BY <1>1, <1>5, <1>6, <3>1
    <3>3. QED
      BY <1>7, <2>2, <3>2 DEF Pipes!Piped
  <2>3. QED
    BY <2>1, <2>2
<1>10. Ordered(l)'
  BY <1>1, <1>2, <1>4, <1>9 DEF Ordered, Pipes!Queued, Pipes!table
<1>11. LineTypes' /\ \A m \in Line \ {l} : reader'[m] = reader[m] /\ pipe'[m] = pipe[m]
  BY <1>1, <1>2, <1>5 DEF LineTypes
<1>12. OnlyOf(Pipes!Sink(l), incomingQ, incomingQ')
          /\ OnlyOf(Pipes!Source(l), outgoingQ, outgoingQ')
  BY <1>1, <1>2, QueueOf
<1>13. QED
  BY <1>2, <1>8, <1>10, <1>11, <1>12, StepOfLine

\* The reader moves a word to the queue of its entry.
LEMMA ReadKeeps ==
  ASSUME Pipes!UnixDeviceAssumption, PipesInv, NEW l \in Line, Pipes!Read(l)
  PROVE  PipesInv'
<1> DEFINE p == pipe[l]
           q == Pipes!Queued(incomingQ, Pipes!Sink(l))
<1>1. /\ Pipes!Source(l) \in Pipes!Device /\ Pipes!Sink(l) \in Pipes!Device
         /\ Pipes!Sink(l)[1] = l.to
      /\ outgoingQ \in [Pipes!Process -> [Pipes!Entries -> Seq(Pipes!CommBlock)]]
      /\ incomingQ \in [Pipes!Process -> [Pipes!Entries -> Seq(Pipes!CommBlock)]]
      /\ LineTypes /\ Paired(l) /\ Ordered(l) /\ None \notin Seq(Pipes!CommBlock)
  BY DevicesAre DEF PipesInv, PipesTypeOK
<1>2. /\ reader[l] = "read" /\ p # <<>>
      /\ pipe' = [pipe EXCEPT ![l] = Tail(@)]
      /\ incomingQ' = [incomingQ EXCEPT ![l.to][entry[Pipes!Sink(l)]] = Append(@, Head(p))]
      /\ UNCHANGED <<state, handle, Pipes!table, outgoingQ, reader, retries, writer,
                     running, written, received>>
  BY DEF Pipes!Read
<1>3. writer[l] = "write" /\ state[Pipes!Sink(l)] = "ready"
  BY <1>1, <1>2 DEF Paired, LineTypes
<1>4. p \in Seq(Pipes!CommBlock) /\ Pipes!Piped(l) = p
  BY <1>2, <1>3, PipedIs
<1>5. /\ Head(p) \in Pipes!CommBlock /\ Tail(p) \in Seq(Pipes!CommBlock) /\ Len(p) \in Nat \ {0}
      /\ Len(Tail(p)) = Len(p) - 1
      /\ \A k \in 1..(Len(p) - 1) : Tail(p)[k] = p[k + 1]
  BY <1>2, <1>4, Taking
<1>6. \A k \in 1..Len(Tail(p)) : ~Tail(p)[k].sync
  <2>1. TAKE k \in 1..Len(Tail(p))
  <2>2. k + 1 \in 1..Len(p) /\ k + 1 # 1 /\ Tail(p)[k] = p[k + 1]
    BY <1>5
  <2>3. ~p[k + 1].sync
    BY <1>1, <1>3, <2>2 DEF Paired
  <2>4. QED
    BY <2>2, <2>3
<1>7. pipe'[l] = Tail(p)
  BY <1>1, <1>2 DEF LineTypes
<1>8. Paired(l)'
  BY <1>1, <1>2, <1>3, <1>5, <1>6, <1>7 DEF Paired
<1>9. Pipes!Piped(l)' = Tail(p)
  <2>1. CASE Tail(p) = <<>>
    BY <1>7, <2>1 DEF Pipes!Piped
  <2>2. CASE Tail(p) # <<>>
    <3>1. Head(Tail(p)) = Tail(p)[1] /\ 1 \in 1..Len(Tail(p))
      BY <1>5, <2>2, Taking
    <3>2. ~Head(Tail(p)).sync /\ Tail(p) # None
      BY <1>1, <1>5, <1>6, <3>1
    <3>3. QED
      BY <1>7, <2>2, <3>2 DEF Pipes!Piped
  <2>3. QED
    BY <2>1, <2>2
<1>10. /\ q \in Seq(Pipes!CommBlock) /\ q = incomingQ[l.to][entry[Pipes!Sink(l)]]
       /\ l.to \in Pipes!Process /\ entry[Pipes!Sink(l)] \in Pipes!Entries
  BY <1>1, <1>3, QueueOf
<1>11. Append(q, Head(p)) \in Seq(Pipes!CommBlock)
  BY <1>5, <1>10, Appended
<1> HIDE DEF q
<1>12. incomingQ' = [incomingQ EXCEPT ![Pipes!Sink(l)[1]][entry[Pipes!Sink(l)]] = Append(q,
         Head(p))]
  BY <1>1, <1>2, <1>10
<1>13. OnlyOf(Pipes!Sink(l), incomingQ, incomingQ')
          /\ Pipes!Queued(incomingQ', Pipes!Sink(l)) = Append(q, Head(p))
  <2>1. LET r == [incomingQ EXCEPT ![Pipes!Sink(l)[1]][entry[Pipes!Sink(l)]] = Append(q, Head(p))]
        IN  OnlyOf(Pipes!Sink(l), incomingQ, r)
           /\ Pipes!Queued(r, Pipes!Sink(l)) = Append(q, Head(p))
    BY <1>1, <1>3, <1>11, QueueChange
  <2>2. QED
    BY <1>12, <2>1
<1>14. OnlyOf(Pipes!Source(l), outgoingQ, outgoingQ')
  BY <1>1, <1>2, QueueOf
<1>15. Ordered(l)'
  <2>1. /\ received'[l] = received[l] /\ written'[l] = written[l]
        /\ Pipes!Queued(incomingQ, Pipes!Sink(l))' = Append(q, Head(p))
        /\ Pipes!Queued(outgoingQ, Pipes!Source(l))' = Pipes!Queued(outgoingQ, Pipes!Source(l))
    BY <1>2, <1>13 DEF Pipes!Queued, Pipes!table
  <2>2. Consecutive(l, received[l], q, p, Pipes!Queued(outgoingQ, Pipes!Source(l)), written[l])
    BY <1>1, <1>4 DEF Ordered, q
  <2>3. Consecutive(l, received[l], Append(q, Head(p)), Tail(p), Pipes!Queued(outgoingQ,
          Pipes!Source(l)), written[l])
    BY <1>2, <1>4, <1>10, <2>2, PlacesAre, MoveOn
  <2>4. QED
    BY <1>9, <2>1, <2>3 DEF Ordered
<1>16. LineTypes' /\ \A m \in Line \ {l} : pipe'[m] = pipe[m]
  BY <1>1, <1>2, <1>5 DEF LineTypes
<1>17. QED
  BY <1>2, <1>8, <1>13, <1>14, <1>15, <1>16, StepOfLine

-----------------------------------------------------------------------------
(* The table.                                                              *)

\* Queues and pipes do not depend on the table of a process.
LEMMA ExitKeeps ==
  ASSUME Pipes!UnixDeviceAssumption, PipesInv, NEW p, Pipes!Exit(p)
  PROVE  PipesInv'
<1>1. /\ running' \subseteq running
      /\ UNCHANGED <<state, handle, Pipes!table, incomingQ, outgoingQ, reader, retries,
                     writer, pipe, written, received>>
  BY DEF Pipes!Exit
<1>2. Tabled' /\ Separate' /\ \A q : Opened(q)' = Opened(q)
  BY <1>1, TablesKept
<1>3. PipesTypeOK' /\ Unused'
  BY <1>1, <1>2 DEF PipesInv, PipesTypeOK, LineTypes, Unused, Pipes!table
<1>4. ASSUME NEW m \in Line
      PROVE  Paired(m)' /\ Ordered(m)'
  <2>1. /\ Pipes!Queued(incomingQ, Pipes!Sink(m))' = Pipes!Queued(incomingQ, Pipes!Sink(m))
        /\ Pipes!Queued(outgoingQ, Pipes!Source(m))' = Pipes!Queued(outgoingQ, Pipes!Source(m))
    BY <1>1 DEF Pipes!Queued, Pipes!table
  <2>2. QED
    BY <1>1, <2>1, LineKept
<1>5. QED
  BY <1>2, <1>3, <1>4 DEF PipesInv

\* The first device of a process sets its table up.
LEMMA CommInitKeeps ==
  ASSUME Pipes!UnixDeviceAssumption, PipesInv, NEW d \in Pipes!Device, Pipes!CommInit(d)
  PROVE  PipesInv'
<1> DEFINE p == d[1]
<1>1. /\ state[d] = "init0" /\ state' = [state EXCEPT ![d] = "init1"]
      /\ IF tableIndex[p] = None
         THEN /\ tableIndex' = [tableIndex EXCEPT ![p] = Pipes!Numbered]
              /\ freeList' = [freeList EXCEPT ![p] = [k \in 1..MaxOpen |-> k - 1]]
         ELSE UNCHANGED <<tableIndex, freeList>>
      /\ UNCHANGED <<handle, entry, incomingQ, outgoingQ, reader, retries, writer,
                     pipe, running, written, received>>
  BY DEF Pipes!CommInit
<1>2. /\ p \in Pipes!Process /\ PipesTypeOK /\ Tabled /\ Separate /\ Unused
      /\ MaxOpen \in Nat /\ MaxOpen >= 2 /\ None \notin [Pipes!Entries -> Nat]
  BY DevicesAre DEF PipesInv, Pipes!UnixDeviceAssumption
<1>3. /\ state' \in [Pipes!Device -> {"init0", "init1", "ready"}] /\ state'[d] = "init1"
      /\ \A e \in Pipes!Device \ {d} : state'[e] = state[e]
  BY <1>1, <1>2 DEF PipesTypeOK
<1>4. \A q : Opened(q)' = Opened(q)
  BY <1>1, <1>3 DEF Opened, Pipes!Devices
<1>5. Pipes!Numbered \in [Pipes!Entries -> Nat]
  BY <1>2 DEF Pipes!Numbered, Pipes!Entries
<1>6. /\ [k \in 1..MaxOpen |-> k - 1] \in Seq(Nat)
      /\ Len([k \in 1..MaxOpen |-> k - 1]) = MaxOpen
  <2> DEFINE f == [k \in 1..MaxOpen |-> k - 1]
  <2>1. f \in [1..MaxOpen -> Nat]
    BY <1>2
  <2> HIDE DEF f
  <2>2. f \in Seq(Nat) /\ DOMAIN f = 1..MaxOpen
    BY <1>2, <2>1, IsASeq
  <2>3. Len(f) = MaxOpen
    BY <1>2, <2>2, LenProperties
  <2>4. QED
    BY <2>2, <2>3 DEF f
<1>7. tableIndex' \in [Pipes!Process -> [Pipes!Entries -> Nat] \cup {None}]
         /\ freeList' \in [Pipes!Process -> Seq(Nat)]
  <2> DEFINE T == [Pipes!Entries -> Nat]
             free == [k \in 1..MaxOpen |-> k - 1]
  <2>1. tableIndex \in [Pipes!Process -> T \cup {None}] /\ freeList \in [Pipes!Process -> Seq(Nat)]
    BY <1>2 DEF PipesTypeOK
  <2>2. Pipes!Numbered \in T /\ free \in Seq(Nat)
    BY <1>5, <1>6
  <2>3. \/ /\ tableIndex' = [tableIndex EXCEPT ![p] = Pipes!Numbered]
           /\ freeList' = [freeList EXCEPT ![p] = free]
        \/ tableIndex' = tableIndex /\ freeList' = freeList
    BY <1>1
  <2> HIDE DEF T, free
  <2>4. /\ tableIndex' \in [Pipes!Process -> T \cup {None}]
        /\ freeList' \in [Pipes!Process -> Seq(Nat)]
    BY <2>1, <2>2, <2>3
  <2>5. QED
    BY <2>4 DEF T
<1>8. PipesTypeOK'
  <2>1. LineTypes'
    BY <1>1, <1>2 DEF PipesTypeOK, LineTypes
  <2>2. /\ (handle \in [Pipes!Device -> Nat])'
        /\ (entry \in [Pipes!Device -> Pipes!Entries \cup {None}])'
        /\ (incomingQ \in [Pipes!Process -> [Pipes!Entries -> Seq(Pipes!CommBlock)]])'
        /\ (outgoingQ \in [Pipes!Process -> [Pipes!Entries -> Seq(Pipes!CommBlock)]])'
    BY <1>1, <1>2 DEF PipesTypeOK
  <2>3. QED
    BY <1>3, <1>7, <2>1, <2>2 DEF PipesTypeOK
<1>9. ASSUME NEW q \in Pipes!Process
      PROVE  /\ tableIndex'[q] = None => \A e \in Pipes!Devices(q) : state'[e] = "init0"
             /\ tableIndex'[q] # None =>
                  /\ tableIndex'[q] = Pipes!Numbered
                  /\ Len(freeList'[q]) + Cardinality(Opened(q)) = MaxOpen
                  /\ \A k \in 1..Len(freeList'[q]) : freeList'[q][k] = Cardinality(Opened(q)) + k - 1
  <2>1. CASE q = p /\ tableIndex[p] = None
    <3>1. tableIndex'[q] = Pipes!Numbered /\ freeList'[q] = [k \in 1..MaxOpen |-> k - 1]
      BY <1>1, <1>2, <2>1 DEF PipesTypeOK
    <3>2. Opened(q) = {}
      BY <1>2, <2>1 DEF Tabled, Opened
    <3>3. Cardinality(Opened(q)) = 0
      BY <3>2, FS_EmptySet
    <3>4. \A k \in 1..MaxOpen : freeList'[q][k] = 0 + k - 1
      BY <1>2, <3>1
    <3>5. QED
      BY <1>2, <1>5, <1>6, <3>1, <3>3, <3>4
  <2>2. CASE ~(q = p /\ tableIndex[p] = None)
    <3>1. tableIndex'[q] = tableIndex[q] /\ freeList'[q] = freeList[q]
      BY <1>1, <1>2, <2>2 DEF PipesTypeOK
    <3>2. tableIndex[q] = None => q # p /\ \A e \in Pipes!Devices(q) : state'[e] = "init0"
      BY <1>2, <1>3, <2>2 DEF Tabled, Pipes!Devices
    <3>3. QED
      BY <1>2, <3>1, <3>2 DEF Tabled
  <2>3. QED
    BY <2>1, <2>2
<1>10. Tabled'
  BY <1>4, <1>9 DEF Tabled, Pipes!Devices
<1>11. \A e \in Pipes!Device : state'[e] = "ready" <=> state[e] = "ready"
  BY <1>1, <1>3
<1>12. Separate'
  BY <1>1, <1>2, <1>4, <1>11 DEF Separate
<1>13. Unused'
  BY <1>1, <1>2, <1>4 DEF Unused
<1>14. ASSUME NEW m \in Line
       PROVE  Paired(m)' /\ Ordered(m)'
  <2>1. Paired(m) /\ Ordered(m) /\ Pipes!Source(m) \in Pipes!Device
           /\ Pipes!Sink(m) \in Pipes!Device
    BY DevicesAre DEF PipesInv
  <2>2. Paired(m)'
    BY <1>1, <1>11, <2>1 DEF Paired
  <2>3. Ordered(m)'
    BY <1>1, <2>1 DEF Ordered, Pipes!Queued, Pipes!Piped
  <2>4. QED
    BY <2>2, <2>3
<1>15. QED
  BY <1>8, <1>10, <1>12, <1>13, <1>14 DEF PipesInv

\* A device gets the entry at the head of the free list, number and all.  With
\* one entry to spare that is never the last, which has another one's number.
LEMMA CommOpenKeeps ==
  ASSUME OneEntrySpare, PipesInv, NEW d \in Pipes!Device, Pipes!CommOpen(d)
  PROVE  PipesInv'
<1> DEFINE p == d[1]
           n == Cardinality(Opened(p))
<1>1. /\ state[d] = "init1" /\ state' = [state EXCEPT ![d] = "ready"]
      /\ entry' = [entry EXCEPT ![d] = Head(freeList[p])]
      /\ freeList' = [freeList EXCEPT ![p] = Tail(@)]
      /\ handle' = [handle EXCEPT ![d] = tableIndex[p][Head(freeList[p])]]
      /\ reader' = [l \in Line |-> IF Pipes!Sink(l) = d THEN "open" ELSE reader[l]]
      /\ writer' = [l \in Line |-> IF Pipes!Source(l) = d THEN "mkfifo" ELSE writer[l]]
      /\ UNCHANGED <<tableIndex, incomingQ, outgoingQ, retries, pipe, running, written, received>>
  BY DEF Pipes!CommOpen
<1>2. /\ p \in Pipes!Process /\ PipesTypeOK /\ Tabled /\ Separate /\ Unused
      /\ MaxOpen \in Nat /\ MaxOpen >= 2 /\ None \notin Nat
      /\ Pipes!UnixDeviceAssumption /\ Cardinality(Pipes!Devices(p)) < MaxOpen
  BY DevicesAre DEF PipesInv, Pipes!UnixDeviceAssumption, OneEntrySpare
<1>3. /\ \A q : IsFiniteSet(Pipes!Devices(q)) /\ IsFiniteSet(Opened(q))
      /\ \A q : Cardinality(Opened(q)) \in Nat /\ Cardinality(Pipes!Devices(q)) \in Nat
  <2>1. \A q : Opened(q) \in SUBSET Pipes!Devices(q)
    BY DEF Opened
  <2>2. \A q : IsFiniteSet(Pipes!Devices(q)) /\ IsFiniteSet(Opened(q))
    BY <1>2, <2>1, DevicesAre, FS_Subset
  <2>3. QED
    BY <2>2, FS_CardinalityType
<1>4. /\ state' \in [Pipes!Device -> {"init0", "init1", "ready"}] /\ state'[d] = "ready"
      /\ \A e \in Pipes!Device \ {d} : state'[e] = state[e]
  BY <1>1, <1>2 DEF PipesTypeOK
<1>5. /\ Opened(p)' = Opened(p) \cup {d} /\ d \notin Opened(p)
      /\ \A q : q # p => Opened(q)' = Opened(q)
  BY <1>1, <1>4 DEF Opened, Pipes!Devices
<1>6. Cardinality(Opened(p)') = n + 1 /\ n \in Nat /\ n + 1 < MaxOpen
  <2>1. Cardinality(Opened(p)') = n + 1
    <3> DEFINE S == Opened(p)
    <3>1. IsFiniteSet(S) /\ d \notin S /\ Opened(p)' = S \cup {d}
      BY <1>3, <1>5
    <3> HIDE DEF S
    <3>2. Cardinality(S \cup {d}) = Cardinality(S) + 1
      BY <3>1, FS_AddElement
    <3>3. QED
      BY <3>1, <3>2 DEF S
  <2>2. Opened(p)' \in SUBSET Pipes!Devices(p)
    BY <1>5 DEF Opened, Pipes!Devices
  <2>3. Cardinality(Opened(p)') <= Cardinality(Pipes!Devices(p))
    BY <1>3, <2>2, FS_Subset
  <2>4. QED
    BY <1>2, <1>3, <2>1, <2>3
<1> DEFINE free == freeList[p]
<1> HIDE DEF n
<1>7. /\ tableIndex[p] = Pipes!Numbered /\ free \in Seq(Nat) /\ Len(free) + n = MaxOpen
      /\ \A k \in 1..Len(free) : free[k] = n + k - 1
  <2>1. tableIndex[p] # None
    BY <1>1, <1>2 DEF Tabled, Pipes!Devices
  <2>2. QED
    BY <1>2, <2>1 DEF Tabled, PipesTypeOK, n
<1> HIDE DEF free
<1>8. /\ Head(free) = n /\ Tail(free) \in Seq(Nat)
      /\ Len(Tail(free)) = Len(free) - 1 /\ Len(free) \in Nat \ {0}
      /\ \A k \in 1..(Len(free) - 1) : Tail(free)[k] = free[k + 1]
  <2>1. Len(free) \in Nat
    BY <1>7, LenProperties
  <2>2. free # <<>>
    BY <1>2, <1>6, <1>7, <2>1, EmptySeq
  <2>3. /\ Head(free) = free[1] /\ Tail(free) \in Seq(Nat) /\ Len(free) \in Nat \ {0}
        /\ Len(Tail(free)) = Len(free) - 1
        /\ \A k \in 1..(Len(free) - 1) : Tail(free)[k] = free[k + 1]
    BY <1>7, <2>2, Taking
  <2>4. free[1] = n
    BY <1>6, <1>7, <2>3
  <2>5. QED
    BY <2>3, <2>4
<1>9. Pipes!Numbered[n] = n /\ n \in Pipes!Entries
  BY <1>2, <1>6 DEF Pipes!Numbered, Pipes!Entries
<1>10. /\ entry' \in [Pipes!Device -> Pipes!Entries \cup {None}] /\ entry'[d] = n
       /\ \A e \in Pipes!Device \ {d} : entry'[e] = entry[e]
       /\ handle' \in [Pipes!Device -> Nat] /\ handle'[d] = n
       /\ \A e \in Pipes!Device \ {d} : handle'[e] = handle[e]
  <2>1. entry \in [Pipes!Device -> Pipes!Entries \cup {None}] /\ handle \in [Pipes!Device -> Nat]
    BY <1>2 DEF PipesTypeOK
  <2>2. entry' = [entry EXCEPT ![d] = n] /\ handle' = [handle EXCEPT ![d] = n]
    BY <1>1, <1>7, <1>8, <1>9 DEF free
  <2>3. QED
    BY <1>6, <1>9, <2>1, <2>2
<1>11. /\ freeList' \in [Pipes!Process -> Seq(Nat)] /\ freeList'[p] = Tail(free)
       /\ \A q \in Pipes!Process \ {p} : freeList'[q] = freeList[q]
  <2>1. freeList \in [Pipes!Process -> Seq(Nat)]
           /\ freeList' = [freeList EXCEPT ![p] = Tail(free)]
    BY <1>1, <1>2 DEF PipesTypeOK, free
  <2>2. QED
    BY <1>2, <1>8, <2>1
<1>12. PipesTypeOK'
  <2>1. /\ reader' \in [Line -> {"none", "open", "timed out", "sync", "read", "ended"}]
        /\ writer' \in [Line -> {"none", "mkfifo", "open", "sync", "write"}]
    BY <1>1, <1>2 DEF PipesTypeOK, LineTypes
  <2>2. QED
    BY <1>1, <1>2, <1>4, <1>10, <1>11, <2>1 DEF PipesTypeOK, LineTypes
<1>13. Tabled'
  <2>1. ASSUME NEW q \in Pipes!Process
        PROVE  /\ tableIndex'[q] = None => \A e \in Pipes!Devices(q) : state'[e] = "init0"
               /\ tableIndex'[q] # None =>
                    /\ tableIndex'[q] = Pipes!Numbered
                    /\ Len(freeList'[q]) + Cardinality(Opened(q)') = MaxOpen
                    /\ \A k \in 1..Len(freeList'[q]) :
                         freeList'[q][k] = Cardinality(Opened(q)') + k - 1
    <3>1. CASE q = p
      <4>1. tableIndex'[q] = Pipes!Numbered /\ tableIndex'[q] # None
        <5>1. tableIndex[p] # None
          BY <1>1, <1>2 DEF Tabled, Pipes!Devices
        <5>2. QED
          BY <1>1, <1>7, <3>1, <5>1
      <4>2. Len(Tail(free)) + (n + 1) = MaxOpen
        BY <1>2, <1>6, <1>7, <1>8
      <4>3. ASSUME NEW k \in 1..Len(Tail(free))
            PROVE  Tail(free)[k] = (n + 1) + k - 1
        <5>1. k \in 1..(Len(free) - 1) /\ k + 1 \in 1..Len(free)
          BY <1>8
        <5>2. free[k + 1] = n + (k + 1) - 1
          BY <1>7, <5>1
        <5>3. QED
          BY <1>6, <1>8, <5>1, <5>2
      <4>4. QED
        BY <1>6, <1>11, <3>1, <4>1, <4>2, <4>3
    <3>2. CASE q # p
      <4>1. tableIndex'[q] = tableIndex[q] /\ freeList'[q] = freeList[q] /\ Opened(q)' = Opened(q)
        BY <1>1, <1>5, <1>11, <3>2
      <4>2. \A e \in Pipes!Devices(q) : state'[e] = state[e]
        BY <1>4, <3>2 DEF Pipes!Devices
      <4>3. QED
        BY <1>2, <4>1, <4>2 DEF Tabled
    <3>3. QED
      BY <3>1, <3>2
  <2>2. QED
    BY <2>1 DEF Tabled, Pipes!Devices
<1>14. \A e \in Pipes!Device : state[e] = "ready" =>
         /\ e # d /\ entry[e] \in Pipes!Entries /\ handle[e] = entry[e]
         /\ entry[e] < Cardinality(Opened(e[1])) /\ (e[1] = p => entry[e] < n)
  BY <1>1, <1>2 DEF Separate, n
<1>15. Separate'
  <2>1. ASSUME NEW e \in Pipes!Device
        PROVE  IF state'[e] = "ready"
               THEN /\ entry'[e] \in Pipes!Entries /\ entry'[e] < Cardinality(Opened(e[1])')
                    /\ handle'[e] = entry'[e]
               ELSE entry'[e] = None
    <3>1. CASE e = d
      BY <1>4, <1>6, <1>9, <1>10, <3>1
    <3>2. CASE e # d /\ state[e] = "ready"
      <4>1. entry[e] < Cardinality(Opened(e[1])')
        <5>1. CASE e[1] = p
          <6>1. entry[e] \in Nat /\ entry[e] < n
            BY <1>14, <3>2, <5>1 DEF Pipes!Entries
          <6>2. QED
            BY <1>6, <5>1, <6>1
        <5>2. CASE e[1] # p
          BY <1>5, <1>14, <3>2, <5>2
        <5>3. QED
          BY <5>1, <5>2
      <4>2. QED
        BY <1>4, <1>10, <1>14, <3>2, <4>1
    <3>3. CASE e # d /\ state[e] # "ready"
      <4>1. entry[e] = None
        BY <1>2, <3>3 DEF Separate
      <4>2. QED
        BY <1>4, <1>10, <3>3, <4>1
    <3>4. QED
      BY <3>1, <3>2, <3>3
  <2>2. ASSUME NEW e \in Pipes!Device, NEW f \in Pipes!Device, e[1] = f[1], state'[e] = "ready",
               state'[f] = "ready", entry'[e] = entry'[f]
        PROVE  e = f
    <3>1. CASE e # d /\ f # d
      BY <1>2, <1>4, <1>10, <2>2, <3>1 DEF Separate
    <3>2. CASE e = d /\ f # d
      <4>1. state[f] = "ready" /\ entry[f] = n /\ f[1] = p
        BY <1>4, <1>10, <2>2, <3>2
      <4>2. QED
        BY <1>6, <1>14, <4>1
    <3>3. CASE f = d /\ e # d
      <4>1. state[e] = "ready" /\ entry[e] = n /\ e[1] = p
        BY <1>4, <1>10, <2>2, <3>3
      <4>2. QED
        BY <1>6, <1>14, <4>1
    <3>4. QED
      BY <3>1, <3>2, <3>3
  <2>3. QED
    BY <2>1, <2>2 DEF Separate
<1>16. Unused'
  <2>1. ASSUME NEW q \in Pipes!Process, NEW k \in Pipes!Entries, k >= Cardinality(Opened(q)')
        PROVE  k >= Cardinality(Opened(q))
    <3>1. CASE q = p
      <4>1. k >= n + 1 /\ k \in Nat
        BY <1>6, <2>1, <3>1 DEF Pipes!Entries
      <4>2. k >= n
        BY <1>6, <4>1
      <4>3. QED
        BY <3>1, <4>2 DEF n
    <3>2. CASE q # p
      BY <1>5, <2>1, <3>2
    <3>3. QED
      BY <3>1, <3>2
  <2>2. QED
    BY <1>1, <1>2, <2>1 DEF Unused
<1>17. /\ incomingQ[p][n] = <<>> /\ outgoingQ[p][n] = <<>>
  <2>1. n >= Cardinality(Opened(p))
    BY <1>6 DEF n
  <2>2. QED
    BY <1>2, <1>9, <2>1 DEF Unused
<1>18. \A e \in Pipes!Device : /\ Pipes!Queued(incomingQ, e)' = Pipes!Queued(incomingQ, e)
                         /\ Pipes!Queued(outgoingQ, e)' = Pipes!Queued(outgoingQ, e)
  <2>1. TAKE e \in Pipes!Device
  <2>2. CASE e = d
    <3>1. entry[d] = None /\ entry'[d] # None
      BY <1>1, <1>2, <1>6, <1>10 DEF Separate
    <3>2. QED
      BY <1>1, <1>10, <1>17, <2>2, <3>1 DEF Pipes!Queued
  <2>3. CASE e # d
    BY <1>1, <1>10, <2>3 DEF Pipes!Queued
  <2>4. QED
    BY <2>2, <2>3
<1>19. ASSUME NEW m \in Line
       PROVE  Paired(m)' /\ Ordered(m)'
  <2>1. Paired(m) /\ Ordered(m) /\ Pipes!Source(m) \in Pipes!Device
           /\ Pipes!Sink(m) \in Pipes!Device
    BY <1>2, DevicesAre DEF PipesInv
  <2>2. Paired(m)'
    <3>1. /\ state'[Pipes!Source(m)] = "ready" <=> state[Pipes!Source(m)] = "ready"
             \/ Pipes!Source(m) = d
          /\ state'[Pipes!Sink(m)] = "ready" <=> state[Pipes!Sink(m)] = "ready"
             \/ Pipes!Sink(m) = d
          /\ pipe' = pipe /\ running' = running
      BY <1>1, <1>4, <2>1
    <3>2. /\ writer'[m] = IF Pipes!Source(m) = d THEN "mkfifo" ELSE writer[m]
          /\ reader'[m] = IF Pipes!Sink(m) = d THEN "open" ELSE reader[m]
      BY <1>1
    <3>3. /\ Pipes!Source(m) = d => writer[m] = "none"
          /\ Pipes!Sink(m) = d => reader[m] = "none"
      BY <1>1, <2>1 DEF Paired
    <3>4. reader[m] = "none" => writer[m] \notin {"sync", "write"}
      BY <2>1 DEF Paired
    <3>5. writer[m] \in {"none", "mkfifo", "open", "sync", "write"}
      BY <1>2 DEF PipesTypeOK, LineTypes
    <3>6. QED
      BY <2>1, <3>1, <3>2, <3>3, <3>4, <3>5 DEF Paired
  <2>3. Ordered(m)'
    BY <1>1, <1>18, <2>1 DEF Ordered, Pipes!Piped
  <2>4. QED
    BY <2>2, <2>3
<1>20. QED
  BY <1>12, <1>13, <1>15, <1>16, <1>19 DEF PipesInv

-----------------------------------------------------------------------------

\* Nothing is open, and nothing is written.
LEMMA PipesInit ==
  ASSUME Pipes!UnixDeviceAssumption, Pipes!Init
  PROVE  PipesInv
<1>1. /\ \A d \in Pipes!Device : d[1] \in Pipes!Process
      /\ \A l \in Line : Pipes!Source(l) \in Pipes!Device /\ Pipes!Sink(l) \in Pipes!Device
      /\ None # <<>> /\ <<>> \in Seq(Pipes!CommBlock) /\ <<>> \in Seq(Nat) /\ Len(<<>>) = 0
  BY DevicesAre, EmptySeq
<1>2. PipesTypeOK
  BY <1>1 DEF Pipes!Init, PipesTypeOK, LineTypes
<1>3. Tabled
  BY DEF Pipes!Init, Tabled, Pipes!Devices
<1>4. Separate
  BY DEF Pipes!Init, Separate
<1>5. Unused
  BY DEF Pipes!Init, Unused
<1>6. ASSUME NEW l \in Line
      PROVE  Paired(l) /\ Ordered(l)
  <2>1. Paired(l)
    BY <1>1 DEF Pipes!Init, Paired
  <2>2. /\ Pipes!Queued(incomingQ, Pipes!Sink(l)) = <<>>
           /\ Pipes!Queued(outgoingQ, Pipes!Source(l)) = <<>>
        /\ received[l] = <<>> /\ written[l] = 0
    BY <1>1 DEF Pipes!Init, Pipes!Queued
  <2>3. Pipes!Piped(l) = <<>>
    BY DEF Pipes!Init, Pipes!Piped
  <2>4. Consecutive(l, <<>>, <<>>, <<>>, <<>>, 0)
    <3>1. \A n : Follow(<<>>, l, n)
      BY <1>1 DEF Follow
    <3>2. QED
      BY <1>1, <3>1 DEF Consecutive
  <2>5. QED
    BY <2>1, <2>2, <2>3, <2>4 DEF Ordered
<1>7. QED
  BY <1>2, <1>3, <1>4, <1>5, <1>6 DEF PipesInv

\* Every operation of a device and of its threads, and the end of a process.
LEMMA PipesStep ==
  ASSUME OneEntrySpare, PipesInv, [Pipes!Next]_(Pipes!vars)
  PROVE  PipesInv'
<1>1. Pipes!UnixDeviceAssumption
  BY DEF OneEntrySpare
<1>2. CASE \E d \in Pipes!Device : Pipes!CommInit(d) \/ Pipes!CommOpen(d)
  BY <1>1, <1>2, CommInitKeeps, CommOpenKeeps
<1>3. CASE \E l \in Line : Pipes!CommWrite(l) \/ Pipes!CommRead(l) \/ Pipes!Continue(l)
  <2>1. PICK l \in Line : Pipes!CommWrite(l) \/ Pipes!CommRead(l) \/ Pipes!Continue(l)
    BY <1>3
  <2>2. CASE Pipes!CommWrite(l) \/ Pipes!CommRead(l)
    BY <1>1, <2>2, CommWriteKeeps, CommReadKeeps
  <2>3. CASE Pipes!Mkfifo(l) \/ Pipes!OpenFails(l) \/ Pipes!Open(l) \/ Pipes!ReadEnds(l)
    BY <1>1, <2>3, OpeningKeeps
  <2>4. CASE Pipes!SendSync(l) \/ Pipes!Write(l) \/ Pipes!ReadSync(l) \/ Pipes!Read(l)
    BY <1>1, <2>4, SendSyncKeeps, WriteKeeps, ReadSyncKeeps, ReadKeeps
  <2>5. QED
    BY <2>1, <2>2, <2>3, <2>4 DEF Pipes!Continue
<1>4. CASE \E p \in Pipes!Process : Pipes!Exit(p)
  BY <1>1, <1>4, ExitKeeps
<1>5. CASE UNCHANGED Pipes!vars
  <2>1. PipesTypeOK' /\ Tabled' /\ Separate' /\ Unused'
    <3>1. Tabled' /\ Separate' /\ \A p : Opened(p)' = Opened(p)
      BY <1>1, <1>5, TablesKept DEF Pipes!vars
    <3>2. QED
      BY <1>5, <3>1 DEF Pipes!vars, Pipes!table, PipesInv, PipesTypeOK, LineTypes, Unused
  <2>2. \A m \in Line : Paired(m)' /\ Ordered(m)'
    <3> SUFFICES ASSUME NEW m \in Line
                 PROVE  Paired(m)' /\ Ordered(m)'
      OBVIOUS
    <3>1. UNCHANGED <<state, entry, incomingQ, outgoingQ, reader, writer, pipe, running,
                      written, received>>
      BY <1>5 DEF Pipes!vars, Pipes!table
    <3>2. Paired(m)' = Paired(m)
      BY <3>1 DEF Paired
    <3>3. Ordered(m)' = Ordered(m)
      BY <3>1 DEF Ordered, Pipes!Queued, Pipes!Piped
    <3>4. QED
      BY <1>1, <3>2, <3>3 DEF PipesInv
  <2>3. QED
    BY <2>1, <2>2 DEF PipesInv
<1>6. QED
  BY <1>2, <1>3, <1>4, <1>5 DEF Pipes!Next

\* What is proved of the places together is what the runs check.
LEMMA PipesInvGivesOrder ==
  ASSUME Pipes!UnixDeviceAssumption, PipesInv
  PROVE  Pipes!WordsKeepOrder
<1>1. ASSUME NEW l \in Line
      PROVE  received[l] \o Pipes!Queued(incomingQ,
               Pipes!Sink(l)) \o Pipes!Piped(l) \o Pipes!Queued(outgoingQ, Pipes!Source(l))
               = [k \in 1..written[l] |-> Pipes!Word(l, k)]
  <2> DEFINE a == received[l]
             b == Pipes!Queued(incomingQ, Pipes!Sink(l))
             c == Pipes!Piped(l)
             d == Pipes!Queued(outgoingQ, Pipes!Source(l))
             w == written[l]
  <2>1. a \in Seq(Pipes!CommBlock) /\ b \in Seq(Pipes!CommBlock) /\ c \in Seq(Pipes!CommBlock)
           /\ d \in Seq(Pipes!CommBlock)
    BY PlacesAre
  <2>2. Consecutive(l, a, b, c, d, w)
    BY DEF PipesInv, Ordered
  <2> HIDE DEF a, b, c, d, w
  <2>3. Together(a, b, c, d) = Words(l, w)
    BY <2>1, <2>2, ConsecutiveTogether
  <2>4. QED
    BY <2>3 DEF a, b, c, d, w, Words, Together
<1>2. QED
  BY <1>1 DEF Pipes!WordsKeepOrder

\* Words come out of a pipe in the order in which they were written and once each,
\* whatever devices a process has, as long as there is one entry more than devices.
THEOREM WordsKeepOrderCorrect ==
  ASSUME OneEntrySpare
  PROVE  Pipes!Spec => []Pipes!WordsKeepOrder
<1>1. Pipes!UnixDeviceAssumption
  BY DEF OneEntrySpare
<1>2. Pipes!Init => PipesInv
  BY <1>1, PipesInit
<1>3. PipesInv /\ [Pipes!Next]_(Pipes!vars) => PipesInv'
  BY PipesStep
<1>4. PipesInv => Pipes!WordsKeepOrder
  BY <1>1, PipesInvGivesOrder
<1>5. QED
  BY <1>2, <1>3, <1>4, PTL DEF Pipes!Spec

=============================================================================
