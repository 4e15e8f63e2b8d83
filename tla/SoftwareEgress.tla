---------------------------- MODULE SoftwareEgress ---------------------------
(***************************************************************************)
(* Flow control of a channel that software sends on:                       *)
(* FLOWCONTROL_LI_CHANNEL_OUT_CLASS.  Sending threads call acquireCredits  *)
(* before they push a message; the thread that receives flow control       *)
(* messages (FLOWCONTROL_IN_CLASS::pushUMF) calls freeCredits.  The count  *)
(* is an atomic UINT32: a thread first spins, subtracting what it needs    *)
(* and adding it back if that was too much, then blocks on a condition     *)
(* variable.                                                               *)
(*                                                                         *)
(* Each atomic operation is a step.  A thread that calls acquireCredits    *)
(* pushes its message when the call returns.  The far side is an ingress   *)
(* switch, known here only by what it does to the count: it buffers chunks,*)
(* frees slots and returns them in batches (startSendEmpty).               *)
(***************************************************************************)
EXTENDS Integers, FiniteSets, Sums

CONSTANTS
  Thread,      \* the threads that send on this channel
  FifoSize,    \* MULTIFPGA_FIFO_SIZES
  MaxPacket,   \* largest message in chunks, header not counted
  Retries,     \* attempts before blocking: 2500 in the code
  CounterMod,  \* 2^32: the count is a UINT32
  NoThread     \* a mutex nobody holds

SoftwareEgressAssumption ==
  /\ IsFiniteSet(Thread)
  /\ FifoSize \in Nat \ {0}
  /\ MaxPacket \in Nat
  /\ Retries \in Nat \ {0}
  /\ CounterMod \in Nat
  /\ CounterMod > 2 * FifoSize
  /\ NoThread \notin Thread

VARIABLES
  flowcontrolCredits,
  pc,             \* pc[t]: where thread t is in acquireCredits
  need,           \* need[t]: the credits argument of its call
  retries,        \* retries[t]: attempts that failed
  holder,         \* thread that holds flowcontrolMutex, or NoThread
  pendingNotify,  \* freeCredits has added its credits and not notified yet
  inFlight, stored, freed, returning  \* the far side, as in CreditProtocol

farSide == <<inFlight, stored, freed, returning>>
vars == <<flowcontrolCredits, pc, need, retries, holder, pendingNotify, farSide>>

ReturnThreshold == FifoSize \div 2

Init ==
  /\ flowcontrolCredits = FifoSize
  /\ pc = [t \in Thread |-> "idle"]
  /\ need = [t \in Thread |-> 0]
  /\ retries = [t \in Thread |-> 0]
  /\ holder = NoThread
  /\ pendingNotify = FALSE
  /\ inFlight = 0 /\ stored = 0 /\ freed = 0 /\ returning = 0

-----------------------------------------------------------------------------
(* acquireCredits                                                          *)

\* flowcontrolCredits.fetch_and_add(amount); -1 * credits is an UINT32 too.
FetchAndAdd(amount) ==
  flowcontrolCredits' = (flowcontrolCredits + amount) % CounterMod

Goto(t, label) == pc' = [pc EXCEPT ![t] = label]

\* The call returns: the thread's message is on its way.
Acquired(t) ==
  /\ Goto(t, "idle")
  /\ inFlight' = inFlight + need[t]
  /\ UNCHANGED <<stored, freed, returning>>

Call(t, credits) ==
  /\ pc[t] = "idle"
  /\ Goto(t, "spin")
  /\ need' = [need EXCEPT ![t] = credits]
  /\ retries' = [retries EXCEPT ![t] = 0]
  /\ UNCHANGED <<flowcontrolCredits, holder, pendingNotify, farSide>>

\* Mutant of Grab: what was left of the credits is taken for enough.
GrabSome(t) ==
  /\ pc[t] = "spin"
  /\ FetchAndAdd(CounterMod - need[t])
  /\ IF flowcontrolCredits = 0
     THEN Goto(t, "restore") /\ UNCHANGED farSide
     ELSE Acquired(t)
  /\ UNCHANGED <<need, retries, holder, pendingNotify>>

\* An attempt: subtract first, look at what was there after.
Grab(t) ==
  /\ pc[t] = "spin"
  /\ FetchAndAdd(CounterMod - need[t])
  /\ IF flowcontrolCredits < need[t]
     THEN Goto(t, "restore") /\ UNCHANGED farSide
     ELSE Acquired(t)
  /\ UNCHANGED <<need, retries, holder, pendingNotify>>

\* Mutant of Restore: the credits of a failed attempt are not given back.
RestoreNothing(t) ==
  /\ pc[t] = "restore"
  /\ retries' = [retries EXCEPT ![t] = @ + 1]
  /\ Goto(t, IF retries'[t] < Retries THEN "spin" ELSE "lock")
  /\ UNCHANGED <<flowcontrolCredits, need, holder, pendingNotify, farSide>>

\* "Oops grabbed too much credit"
Restore(t) ==
  /\ pc[t] = "restore"
  /\ FetchAndAdd(need[t])
  /\ retries' = [retries EXCEPT ![t] = @ + 1]
  /\ Goto(t, IF retries'[t] < Retries THEN "spin" ELSE "lock")
  /\ UNCHANGED <<need, holder, pendingNotify, farSide>>

\* Entering the critical section, for the first time or after a wait.
Lock(t) ==
  /\ pc[t] = "lock"
  /\ holder = NoThread
  /\ holder' = t
  /\ Goto(t, "check")
  /\ UNCHANGED <<flowcontrolCredits, need, retries, pendingNotify, farSide>>

\* The while loop's test; waiting releases the mutex.
Check(t) ==
  /\ pc[t] = "check"
  /\ IF flowcontrolCredits < need[t]
     THEN Goto(t, "wait") /\ holder' = NoThread
     ELSE Goto(t, "take") /\ UNCHANGED holder
  /\ UNCHANGED <<flowcontrolCredits, need, retries, pendingNotify, farSide>>

Take(t) ==
  /\ pc[t] = "take"
  /\ FetchAndAdd(CounterMod - need[t])
  /\ Acquired(t)
  /\ holder' = NoThread
  /\ UNCHANGED <<need, retries, pendingNotify>>

\* A condition variable may wake a thread without being notified.
SpuriousWakeup(t) ==
  /\ pc[t] = "wait"
  /\ Goto(t, "lock")
  /\ UNCHANGED <<flowcontrolCredits, need, retries, holder, pendingNotify, farSide>>

-----------------------------------------------------------------------------
(* freeCredits, called for each flow control message                       *)

\* The credits are added before the mutex is taken.
AddCredits ==
  /\ returning > 0
  /\ ~pendingNotify
  /\ FetchAndAdd(returning)
  /\ returning' = 0
  /\ pendingNotify' = TRUE
  /\ UNCHANGED <<pc, need, retries, holder, inFlight, stored, freed>>

\* Mutant of NotifyAll: nobody is notified.
NotifyNobody ==
  /\ pendingNotify
  /\ holder = NoThread
  /\ pendingNotify' = FALSE
  /\ UNCHANGED <<flowcontrolCredits, pc, need, retries, holder, farSide>>

\* notify_all under the mutex.
NotifyAll ==
  /\ pendingNotify
  /\ holder = NoThread
  /\ pendingNotify' = FALSE
  /\ pc' = [t \in Thread |-> IF pc[t] = "wait" THEN "lock" ELSE pc[t]]
  /\ UNCHANGED <<flowcontrolCredits, need, retries, holder, farSide>>

-----------------------------------------------------------------------------
(* Outside: the ingress switch at the other end of the channel.            *)

software == <<flowcontrolCredits, pc, need, retries, holder, pendingNotify>>

Deliver ==
  /\ inFlight > 0
  /\ inFlight' = inFlight - 1
  /\ stored' = stored + 1
  /\ UNCHANGED <<software, freed, returning>>

Consume ==
  /\ stored > 0
  /\ stored' = stored - 1
  /\ freed' = freed + 1
  /\ UNCHANGED <<software, inFlight, returning>>

Return ==
  /\ freed > ReturnThreshold
  /\ returning' = returning + freed
  /\ freed' = 0
  /\ UNCHANGED <<software, inFlight, stored>>

-----------------------------------------------------------------------------

\* A step of acquireCredits of t, other than being called or woken.
Continue(t) == Grab(t) \/ Restore(t) \/ Lock(t) \/ Check(t) \/ Take(t)

Next ==
  \/ \E t \in Thread :
       \/ \E credits \in 1..(MaxPacket + 1) : Call(t, credits)
       \/ Continue(t)
       \/ SpuriousWakeup(t)
  \/ AddCredits \/ NotifyAll
  \/ Deliver \/ Consume \/ Return

Spec == Init /\ [][Next]_vars

\* Threads are scheduled, freeCredits gets the mutex it asks for however often
\* a sleeper wakes and tests again, and the hardware runs.  Nobody has to call,
\* and nobody wakes for no reason.
Fairness ==
  /\ \A t \in Thread : WF_vars(Continue(t))
  /\ WF_vars(AddCredits) /\ SF_vars(NotifyAll)
  /\ WF_vars(Deliver) /\ WF_vars(Consume) /\ WF_vars(Return)

FairSpec == Spec /\ Fairness

-----------------------------------------------------------------------------

TypeOK ==
  /\ flowcontrolCredits \in 0..(CounterMod - 1)
  /\ pc \in [Thread -> {"idle", "spin", "restore", "lock", "check", "take",
                        "wait"}]
  /\ need \in [Thread -> 0..(MaxPacket + 1)]
  /\ retries \in [Thread -> 0..Retries]
  /\ holder \in Thread \cup {NoThread}
  /\ pendingNotify \in BOOLEAN
  /\ {inFlight, stored, freed, returning} \subseteq Nat

\* Credits that failed attempts have subtracted and not added back.
Debt == SumOf([t \in Thread |-> IF pc[t] = "restore" THEN need[t] ELSE 0])

\* The count the protocol is about.
CreditsHeld == (flowcontrolCredits + Debt) % CounterMod

\* No attempt, failed or not, loses a credit or invents one: the count wraps
\* below zero in between, and is exact once every attempt is settled.
CreditConservation ==
  (CreditsHeld + inFlight + stored + freed + returning) % CounterMod = FifoSize

\* The class comment: "If no or too little credit is available, the channel
\* will block."  Messages in flight and stored never exceed the buffer.
BlocksWithoutCredit == inFlight + stored <= FifoSize

\* A call returns: no notification is lost between the test and the wait, and
\* credits enough for it come back.
CallsReturn == \A t \in Thread : pc[t] # "idle" ~> pc[t] = "idle"

\* A thread that sleeps although its credits are there is about to be notified.
NoLostWakeup ==
  \A t \in Thread : pc[t] = "wait" /\ CreditsHeld >= need[t] => pendingNotify

Protocol == INSTANCE CreditProtocol WITH
  Capacity <- FifoSize,
  Threshold <- ReturnThreshold,
  credits <- CreditsHeld

\* The software end keeps the protocol the ingress switch relies on.
ImplementsCreditProtocol == Protocol!Spec

=============================================================================
