------------------------------ MODULE UnixDevice ------------------------------
(***************************************************************************)
(* mkUNIXCommDeviceShift: the link between two simulated platforms, each a *)
(* process, over named pipes.  A device opens a channel of a table that all*)
(* devices of its process share and refers to it by a number.  Two threads *)
(* for each channel move words between its queues and the pipes, after a   *)
(* block that marks where data begins.  Rules of the device poll the       *)
(* queues.  A process may end at any time; the reader of its pipes then    *)
(* stops, and the writer to them ends its own process, too.                *)
(*                                                                         *)
(* Outside: the pipes of the operating system.  open of a pipe waits until *)
(* the other end is opened as well, and fails if nobody made the pipe.  A  *)
(* pipe that an earlier run made is still there.                           *)
(***************************************************************************)
EXTENDS Naturals, Sequences, FiniteSets

CONSTANTS
  Line,      \* [from, to, link]: the directions of links that carry words
  MaxOpen,   \* MAX_OPEN_CHANNELS
  Retries,   \* attempts to open a pipe, 120 in the code
  MaxWords,  \* written on a line: a bound of the model
  None

Process == {l.from : l \in Line} \cup {l.to : l \in Line}
Device == {<<l.from, l.link>> : l \in Line} \cup {<<l.to, l.link>> : l \in Line}
Entries == 0..(MaxOpen - 1)

Source(l) == <<l.from, l.link>>
Sink(l) == <<l.to, l.link>>

Devices(p) == {d \in Device : d[1] = p}

\* A CommBlock: of the data we keep on which line it was written, and its number.
CommBlock == [sync : BOOLEAN, line : Line, number : Nat]
Word(l, number) == [sync |-> FALSE, line |-> l, number |-> number]
Sync(l) == [sync |-> TRUE, line |-> l, number |-> 0]

\* comm_init asserts that there are entries; with more devices than entries,
\* comm_open ends the process.  A device has one peer.
UnixDeviceAssumption ==
  /\ IsFiniteSet(Line)
  /\ \A l, m \in Line : Source(l) = Source(m) \/ Sink(l) = Sink(m) => l = m
  /\ MaxOpen \in Nat /\ MaxOpen >= 2
  /\ \A p \in Process : Cardinality(Devices(p)) <= MaxOpen
  /\ Retries \in Nat \ {0}
  /\ MaxWords \in Nat
  /\ None \notin Nat /\ None \notin [Entries -> Nat] /\ None \notin Seq(CommBlock)

VARIABLES
  state, handle,         \* of each device
  tableIndex, freeList,  \* OCHT of a process, <<>> and None before comm_init
  entry,                 \* the entry that a device opened, or None
  incomingQ, outgoingQ,  \* of each entry of a process
  reader, retries,       \* where process_incoming of a line's sink is
  writer,                \* and process_outgoing of its source
  pipe,                  \* blocks in the pipe of a line, or None: there is none
  running,               \* the processes that have not ended
  written, received      \* words the source wrote; what the sink was given

table == <<tableIndex, freeList, entry>>
vars == <<state, handle, table, incomingQ, outgoingQ, reader, retries, writer,
          pipe, running, written, received>>

Init ==
  /\ state = [d \in Device |-> "init0"]
  /\ handle = [d \in Device |-> 0]
  /\ tableIndex = [p \in Process |-> None]
  /\ freeList = [p \in Process |-> <<>>]
  /\ entry = [d \in Device |-> None]
  /\ incomingQ = [p \in Process |-> [e \in Entries |-> <<>>]]
  /\ outgoingQ = [p \in Process |-> [e \in Entries |-> <<>>]]
  /\ reader = [l \in Line |-> "none"]
  /\ retries = [l \in Line |-> 0]
  /\ writer = [l \in Line |-> "none"]
  /\ pipe \in [Line -> {None, <<>>}]
  /\ running = Process
  /\ written = [l \in Line |-> 0]
  /\ received = [l \in Line |-> <<>>]

-----------------------------------------------------------------------------
(* The table of a process                                                  *)

\* Mutant of Numbered: the loop ends one entry earlier.
NumberedShort == [e \in Entries |-> IF e \in 1..(MaxOpen - 3) THEN e ELSE 0]

\* The loop of comm_init ends before the last entry, which keeps the 0 of bzero.
Numbered == [e \in Entries |-> IF e \in 1..(MaxOpen - 2) THEN e ELSE 0]

\* comm_init, by rule initialize.
CommInit(d) ==
  LET p == d[1]
  IN  /\ p \in running /\ state[d] = "init0"
      /\ state' = [state EXCEPT ![d] = "init1"]
      /\ IF tableIndex[p] = None
         THEN /\ tableIndex' = [tableIndex EXCEPT ![p] = Numbered]
              /\ freeList' = [freeList EXCEPT ![p] = [k \in 1..MaxOpen |-> k - 1]]
         ELSE UNCHANGED <<tableIndex, freeList>>
      /\ UNCHANGED <<handle, entry, incomingQ, outgoingQ, reader, retries, writer,
                     pipe, running, written, received>>

\* comm_open, by rule open_C_channel: the head of the free list, and two threads.
CommOpen(d) ==
  LET p == d[1]
      channel == Head(freeList[p])
  IN  /\ p \in running /\ state[d] = "init1"
      /\ state' = [state EXCEPT ![d] = "ready"]
      /\ entry' = [entry EXCEPT ![d] = channel]
      /\ freeList' = [freeList EXCEPT ![p] = Tail(@)]
      /\ handle' = [handle EXCEPT ![d] = tableIndex[p][channel]]
      /\ reader' = [l \in Line |-> IF Sink(l) = d THEN "open" ELSE reader[l]]
      /\ writer' = [l \in Line |-> IF Source(l) = d THEN "mkfifo" ELSE writer[l]]
      /\ UNCHANGED <<tableIndex, incomingQ, outgoingQ, retries, pipe, running,
                     written, received>>

\* validate_handle: comm_can_write and comm_can_read ask for an open entry.
Valid(d) ==
  /\ d[1] \in running /\ state[d] = "ready"
  /\ \E e \in Device : e[1] = d[1] /\ entry[e] = handle[d]

\* comm_write, by rule write_bdpi.
CommWrite(l) ==
  LET d == Source(l)
  IN  /\ Valid(d) /\ written[l] < MaxWords
      /\ written' = [written EXCEPT ![l] = @ + 1]
      /\ outgoingQ' = [outgoingQ EXCEPT ![l.from][handle[d]] = Append(@, Word(l, written'[l]))]
      /\ UNCHANGED <<state, handle, table, incomingQ, reader, retries, writer,
                     pipe, running, received>>

\* comm_can_read and comm_read, by rule read_bdpi.
CommRead(l) ==
  LET d == Sink(l)
      queue == incomingQ[l.to][handle[d]]
  IN  /\ Valid(d) /\ queue # <<>>
      /\ incomingQ' = [incomingQ EXCEPT ![l.to][handle[d]] = Tail(@)]
      /\ received' = [received EXCEPT ![l] = Append(@, Head(queue))]
      /\ UNCHANGED <<state, handle, table, outgoingQ, reader, retries, writer,
                     pipe, running, written>>

-----------------------------------------------------------------------------
(* process_outgoing and process_incoming                                   *)

\* An end of a pipe stays open as long as its process runs.
WriterOpen(l) == l.from \in running /\ writer[l] \in {"sync", "write"}
ReaderOpen(l) == l.to \in running /\ reader[l] \in {"sync", "read"}

Mkfifo(l) ==
  /\ l.from \in running /\ writer[l] = "mkfifo"
  /\ writer' = [writer EXCEPT ![l] = "open"]
  /\ pipe' = IF pipe[l] = None THEN [pipe EXCEPT ![l] = <<>>] ELSE pipe
  /\ UNCHANGED <<state, handle, table, incomingQ, outgoingQ, reader, retries,
                 running, written, received>>

\* The sender has not made the pipe yet.
OpenFails(l) ==
  /\ l.to \in running /\ reader[l] = "open" /\ pipe[l] = None
  /\ retries' = [retries EXCEPT ![l] = @ + 1]
  /\ reader' = [reader EXCEPT ![l] = IF retries'[l] < Retries THEN "open" ELSE "timed out"]
  /\ UNCHANGED <<state, handle, table, incomingQ, outgoingQ, writer, pipe,
                 running, written, received>>

\* Both ends of the pipe are there.
Open(l) ==
  /\ {l.from, l.to} \subseteq running
  /\ reader[l] = "open" /\ writer[l] = "open"
  /\ reader' = [reader EXCEPT ![l] = "sync"]
  /\ writer' = [writer EXCEPT ![l] = "sync"]
  /\ UNCHANGED <<state, handle, table, incomingQ, outgoingQ, retries, pipe,
                 running, written, received>>

\* send_block: nobody reads any more, so the process ends; or the block is in the
\* pipe.
SendBlock(l, block) ==
  IF ReaderOpen(l)
  THEN pipe' = [pipe EXCEPT ![l] = Append(@, block)] /\ UNCHANGED running
  ELSE running' = running \ {l.from} /\ UNCHANGED pipe

SendSync(l) ==
  /\ l.from \in running /\ writer[l] = "sync"
  /\ SendBlock(l, Sync(l))
  /\ writer' = [writer EXCEPT ![l] = "write"]
  /\ UNCHANGED <<state, handle, table, incomingQ, outgoingQ, reader, retries,
                 written, received>>

\* A word that finds the pipe closed is left where it was; nobody sees it again.
Write(l) ==
  LET queue == outgoingQ[l.from][entry[Source(l)]]
  IN  /\ l.from \in running /\ writer[l] = "write" /\ queue # <<>>
      /\ SendBlock(l, Head(queue))
      /\ outgoingQ' = IF ReaderOpen(l)
                      THEN [outgoingQ EXCEPT ![l.from][entry[Source(l)]] = Tail(@)]
                      ELSE outgoingQ
      /\ UNCHANGED <<state, handle, table, incomingQ, reader, retries, writer,
                     written, received>>

\* Mutant of ReadSync: the first block is data.
ReadSyncNot(l) ==
  /\ l.to \in running /\ reader[l] = "sync"
  /\ reader' = [reader EXCEPT ![l] = "read"]
  /\ UNCHANGED <<state, handle, table, incomingQ, outgoingQ, retries, writer,
                 pipe, running, written, received>>

\* Blocks are thrown away up to the one that says sync.
ReadSync(l) ==
  /\ l.to \in running /\ reader[l] = "sync" /\ pipe[l] # <<>>
  /\ pipe' = [pipe EXCEPT ![l] = Tail(@)]
  /\ reader' = [reader EXCEPT ![l] = IF Head(pipe[l]).sync THEN "read" ELSE "sync"]
  /\ UNCHANGED <<state, handle, table, incomingQ, outgoingQ, retries, writer,
                 running, written, received>>

Read(l) ==
  /\ l.to \in running /\ reader[l] = "read" /\ pipe[l] # <<>>
  /\ pipe' = [pipe EXCEPT ![l] = Tail(@)]
  /\ incomingQ' = [incomingQ EXCEPT ![l.to][entry[Sink(l)]] = Append(@, Head(pipe[l]))]
  /\ UNCHANGED <<state, handle, table, outgoingQ, reader, retries, writer,
                 running, written, received>>

\* "Looks like the other side died."  The pipe is not closed.
ReadEnds(l) ==
  /\ l.to \in running /\ reader[l] = "read" /\ pipe[l] = <<>> /\ ~WriterOpen(l)
  /\ reader' = [reader EXCEPT ![l] = "ended"]
  /\ UNCHANGED <<state, handle, table, incomingQ, outgoingQ, retries, writer,
                 pipe, running, written, received>>

\* The simulation of a platform ends or is killed.
Exit(p) ==
  /\ p \in running
  /\ running' = running \ {p}
  /\ UNCHANGED <<state, handle, table, incomingQ, outgoingQ, reader, retries,
                 writer, pipe, written, received>>

-----------------------------------------------------------------------------

Continue(l) ==
  \/ Mkfifo(l) \/ OpenFails(l) \/ Open(l)
  \/ SendSync(l) \/ Write(l) \/ ReadSync(l) \/ Read(l) \/ ReadEnds(l)

Next ==
  \/ \E d \in Device : CommInit(d) \/ CommOpen(d)
  \/ \E l \in Line : CommWrite(l) \/ CommRead(l) \/ Continue(l)
  \/ \E p \in Process : Exit(p)

Spec == Init /\ [][Next]_vars

-----------------------------------------------------------------------------

\* The words in a line's pipe: only the first block may be the one that says sync.
Piped(l) ==
  IF pipe[l] \in {None, <<>>} THEN <<>>
  ELSE IF Head(pipe[l]).sync THEN Tail(pipe[l]) ELSE pipe[l]

\* The words of a device in one of the queues of the entry it opened.
Queued(q, d) == IF entry[d] = None THEN <<>> ELSE q[d[1]][entry[d]]

\* The words written on a line are, in order and once each, those its sink was
\* given, those in the queues that its own threads work on and those in its pipe:
\* no handle leads to another channel, and no block from before the
\* synchronisation is taken for a word.  With as many devices in a process as the
\* table has entries this is not so: the last one's handle is 0.
WordsKeepOrder ==
  \A l \in Line :
    received[l] \o Queued(incomingQ, Sink(l)) \o Piped(l) \o Queued(outgoingQ, Source(l))
      = [k \in 1..written[l] |-> Word(l, k)]

\* A word arrives, unless a process ends or the reader gave up before there was a
\* pipe ("transfers on this line result in deadlocks").
WordsArrive ==
  \A l \in Line :
    written[l] > 0 ~>
      \/ Len(received[l]) = written[l]
      \/ ~({l.from, l.to} \subseteq running)
      \/ reader[l] = "timed out"

=============================================================================
