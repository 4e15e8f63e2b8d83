------------------------------ MODULE MCSoftware ------------------------------
(***************************************************************************)
(* The software and the simulated devices, one of them to a behaviour,     *)
(* while the others stay as they were initialised:                         *)
(*                                                                         *)
(*   "sender"            one thread that sends on a channel (or two, in the*)
(*                       run about threads that share one)                 *)
(*   "receiver"          one thread that receives on a channel             *)
(*   "receivers"         two that do                                       *)
(*   "pointer sender"    two senders and flow control, to a pointer switch *)
(*   "pointer receiver"  a channel and flow control, from a pointer switch *)
(*   "server"            two services, two workers, two requests of each   *)
(*   "client"            two callers of a service of the hardware          *)
(*   "pipes"             two processes, two links, one word on each        *)
(*                                                                         *)
(* A buffer of a channel has eight slots and messages have one to four     *)
(* chunks, the largest for which credits always come back.  Two failed     *)
(* attempts stand for the 2500 of the code, and a counter of six bits for  *)
(* the UINT32: it is wide enough to tell a count below zero from a count of*)
(* credits.  Eleven slots of which three are kept for each of three        *)
(* channels, and messages of two chunks, are the least with which a pointer*)
(* switch never leaves a sender waiting; a receiver with two channels and  *)
(* one slot kept for each needs nine.  A table of three entries has one    *)
(* that no device opens: the last one's handle is wrong.                   *)
(***************************************************************************)
EXTENDS SoftwareIngress

CONSTANTS
  t1, t2, NoThread,
  c1, c2, fc,  \* channels of a pointer switch
  Ends,        \* the behaviours to check, see above
  Senders      \* the threads that send

VARIABLES
  end,
  sendCredits, sendPc, need, retries, holder, pendingNotify,   \* SoftwareEgress
  sent, farStored, freed, returning,                           \* and its far side
  outTotal, outCredits, outPc, outNeed, outAborted,            \* PointerEgress
  outUnread, outFreed, outReturning,
  inCredits, inTotal, inPc, inChunks, inAborted,               \* PointerIngress
  bufferAvailable, totalCreditsUsed, unread, inReturning,
  arrived, currentRequest, dataQ, posted, workerPc, at, request,  \* RRRServer
  serverMutex, executed, outputQ, stopped,
  callerPc, remaining, makeRequestMutex,                       \* RRRClient
  outputChannel, answering, inputChannel,
  state, handle, tableIndex, freeList, entry,                  \* UnixDevice
  incomingQ, outgoingQ, reader, openRetries, writer,
  pipe, running, written, received

sender == <<sendCredits, sendPc, need, retries, holder, pendingNotify, sent, farStored, freed, returning>>
pointerSender == <<outTotal, outCredits, outPc, outNeed, outAborted, outUnread, outFreed, outReturning>>
pointerReceiver == <<inCredits, inTotal, inPc, inChunks, inAborted, bufferAvailable,
                     totalCreditsUsed, unread, inReturning>>
server == <<arrived, currentRequest, dataQ, posted, workerPc, at, request,
            serverMutex, executed, outputQ, stopped>>
client == <<callerPc, remaining, makeRequestMutex, outputChannel, answering, inputChannel>>
pipes == <<state, handle, tableIndex, freeList, entry, incomingQ, outgoingQ, reader,
           openRetries, writer, pipe, running, written, received>>
allVars == <<end, sender, vars, pointerSender, pointerReceiver, server, client, pipes>>

TwoThreads == {t1, t2}
OneThread == {t1}
Lines == [from : {1}, to : {2}, link : {1, 2}]

Egress == INSTANCE SoftwareEgress WITH
  Thread <- Senders, Retries <- 2, CounterMod <- 64,
  flowcontrolCredits <- sendCredits, pc <- sendPc, inFlight <- sent, stored <- farStored

PointerOut == INSTANCE PointerEgress WITH
  Channel <- {c1, c2, fc}, FC <- fc, FifoSize <- 11, MinBuffer <- 3,
  MaxMessage <- 2, MaxReturns <- 1,
  totalCredits <- outTotal, flowcontrolCredits <- outCredits, pc <- outPc,
  need <- outNeed, aborted <- outAborted, outstanding <- outUnread,
  freed <- outFreed, returning <- outReturning

PointerIn == INSTANCE PointerIngress WITH
  Channel <- {c1, fc}, FC <- fc, FifoSize <- 9, MinBuffer <- 1, MaxChunks <- 1,
  totalCredits <- inTotal, flowcontrolCredits <- inCredits, pc <- inPc,
  chunks <- inChunks, aborted <- inAborted, flowcontrolQ <- inReturning

Server == INSTANCE RRRServer WITH
  Service <- {1, 2}, Worker <- Thread, MaxRequests <- 2, MaxChunks <- 1,
  None <- NoThread, pc <- workerPc

Client == INSTANCE RRRClient WITH
  Caller <- Thread, MaxPending <- 2, MaxChunks <- 2, None <- NoThread, pc <- callerPc

Pipes == INSTANCE UnixDevice WITH
  Line <- Lines, MaxOpen <- 3, Retries <- 2,
  MaxWords <- 1, None <- NoThread, retries <- openRetries

ASSUME EndsAssumption ==
  /\ Egress!SoftwareEgressAssumption
  /\ PointerOut!PointerEgressAssumption /\ PointerIn!PointerIngressAssumption
  /\ Server!RRRServerAssumption /\ Client!RRRClientAssumption
  /\ Pipes!UnixDeviceAssumption

EndInit ==
  /\ end \in Ends
  /\ Egress!Init /\ Init
  /\ PointerOut!Init /\ PointerIn!Init
  /\ Server!Init /\ Client!Init /\ Pipes!Init
  /\ end # "pipes" => pipe = [l \in DOMAIN pipe |-> NoThread]

Sending(A) ==
  /\ end = "sender" /\ A
  /\ UNCHANGED <<end, vars, pointerSender, pointerReceiver, server, client, pipes>>

\* With a single receiver the second thread is never handed a message.
Receiving(A) ==
  /\ end \in {"receiver", "receivers"}
  /\ A
  /\ end = "receiver" => pc'[t2] = "idle"
  /\ UNCHANGED <<end, sender, pointerSender, pointerReceiver, server, client, pipes>>

PointerSending(A) ==
  /\ end = "pointer sender" /\ A
  /\ UNCHANGED <<end, sender, vars, pointerReceiver, server, client, pipes>>

PointerReceiving(A) ==
  /\ end = "pointer receiver" /\ A
  /\ UNCHANGED <<end, sender, vars, pointerSender, server, client, pipes>>

Serving(A) ==
  /\ end = "server" /\ A
  /\ UNCHANGED <<end, sender, vars, pointerSender, pointerReceiver, client, pipes>>

Calling(A) ==
  /\ end = "client" /\ A
  /\ UNCHANGED <<end, sender, vars, pointerSender, pointerReceiver, server, pipes>>

Piping(A) ==
  /\ end = "pipes" /\ A
  /\ UNCHANGED <<end, sender, vars, pointerSender, pointerReceiver, server, client>>

EndNext ==
  \/ Sending(Egress!Next) \/ Receiving(Next)
  \/ PointerSending(PointerOut!Next) \/ PointerReceiving(PointerIn!Next)
  \/ Serving(Server!Next) \/ Calling(Client!Next) \/ Piping(Pipes!Next)

EndSpec == EndInit /\ [][EndNext]_allVars

\* As in SoftwareEgress and SoftwareIngress: threads are scheduled, freeCredits
\* gets its mutex, a message that is there is handled, and the hardware runs.  So
\* do the threads of the pool, of callers and of the pipes, and the simulations
\* that poll them.  A request that waits for room in its channel gets it in the
\* end although others send, too.
FairEndSpec ==
  /\ EndSpec
  /\ \A t \in Senders : WF_sender(Sending(Egress!Continue(t)))
  /\ WF_sender(Sending(Egress!AddCredits)) /\ SF_sender(Sending(Egress!NotifyAll))
  /\ WF_sender(Sending(Egress!Deliver)) /\ WF_sender(Sending(Egress!Consume))
  /\ WF_sender(Sending(Egress!Return))
  /\ \A t \in Thread : WF_vars(Receiving(Continue(t)))
  /\ WF_vars(Receiving(\E t \in Thread : Handle(t)))
  /\ WF_vars(Receiving(Deliver)) /\ WF_vars(Receiving(Refill))
  /\ \A t \in Thread : WF_server(Serving(Server!Run(t) \/ Server!Continue(t)))
  /\ WF_client(Calling(Client!Serve \/ Client!SendChunk))
  /\ SF_client(Calling(\E t \in Thread : Client!Push(t)))
  /\ WF_client(Calling(\E t \in Thread :
       Client!PopHeader(t) \/ Client!PopChunk(t) \/ Client!Unlock(t)))
  /\ WF_pipes(Piping(\E d \in Pipes!Device : Pipes!CommInit(d) \/ Pipes!CommOpen(d)))
  /\ WF_pipes(Piping(\E l \in Lines : Pipes!Continue(l) \/ Pipes!CommRead(l)))

-----------------------------------------------------------------------------

\* Software that sends with one thread, or receives with one, does nothing that
\* the switch at the other end of the channel does not rely on: every step is one
\* of the credit protocol, or none (flowcontrol-egress.h, flowcontrol-ingress.h).
\* Senders to a pointer switch never send more than its buffer holds, although
\* each looks at its own part and the shared one only (pointer-egress.cpp).
SoftwareKeepsProtocol ==
  /\ Egress!Protocol!Init /\ Protocol!Init
  /\ [][end = "sender" => [Egress!Protocol!Next]_(Egress!Protocol!vars)]_sender
  /\ [][end = "receiver" => [Protocol!Next]_(Protocol!vars)]_vars
  /\ [](end = "pointer sender" => PointerOut!SharedBufferHolds)

\* No interleaving of attempts, failed or not, with freeCredits loses a credit of
\* a sender, none of two receiving threads loses one or returns one twice, and a
\* single one returns them in batches that do not stop the switch ($finish).  Nor
\* do a channel's count and the shared one of a pointer switch drift apart.
NoCreditIsLost ==
  /\ end = "sender" => Egress!TypeOK /\ Egress!CreditConservation
  /\ end \in {"receiver", "receivers"} => TypeOK /\ CreditConservation
  /\ end = "receiver" => NeverFinishes
  /\ end = "pointer sender" => PointerOut!CreditConservation
  /\ end = "pointer receiver" => PointerIn!CreditConservation

\* A thread that sleeps although its credits are there is about to be notified;
\* and with a pointer switch none sleeps, on either side, once all that was sent
\* is read and what is due has come back.
NoLostWakeup ==
  /\ end = "sender" => Egress!NoLostWakeup
  /\ end = "pointer sender" => PointerOut!NoLostWakeup /\ PointerOut!NeverWedged
  /\ end = "pointer receiver" => PointerIn!NeverWedged

\* Calls of acquireCredits return, and a switch that sends to one receiving thread
\* has credits for its largest packet again and again.  Requests that arrive are
\* carried out until the server is taken down, which ends; the holder of the
\* mutex of a client gets its response; words come out of a pipe unless a process
\* ends or its reader gave up.
NobodyWaitsForEver ==
  /\ Egress!CallsReturn
  /\ []<>(end # "receivers" => credits >= MaxPacket + 1)
  /\ Server!RequestsAreServed /\ Server!JoinReturns
  /\ Client!HolderIsServed
  /\ Pipes!WordsArrive

\* Requests of a service are carried out and answered in the order in which they
\* came, whichever threads of the pool run them, each call finding the request it
\* was posted for (li-rrr-server.cpp); and a thread that asks the hardware gets
\* the whole of its own response (li-rrr-client.cpp).
RequestsKeepOrder ==
  /\ end = "server" => Server!RequestsKeepOrder /\ Server!EveryCallHasItsRequest
  /\ end = "client" => Client!ResponsesFindTheirCaller

\* Words come out of a pipe in order and once, through a table that all devices of
\* a process share (unix-communication-device-bdpi.c).
WordsKeepOrder == end = "pipes" => Pipes!WordsKeepOrder

\* The class comment of the sending side: "If no or too little credit is available,
\* the channel will block."
BlocksWithoutCredit == Egress!BlocksWithoutCredit

=============================================================================
