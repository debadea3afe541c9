------------------------------- MODULE LogQueue -------------------------------
(***************************************************************************)
(* The logger (src/base/ds_log.c) with its ticket factory                  *)
(* (src/base/ticket_factory.c), one action per access to shared memory.    *)
(*                                                                         *)
(* A thread that logs takes a ticket, formats its message into the slot of *)
(* the ticket and marks the slot completed.  A thread that finds no free   *)
(* ticket becomes, if no other thread is, the one that writes completed    *)
(* messages to the file and hands their tickets back.  LogShutdown closes  *)
(* the factory and writes out what is left.  It is called by the main      *)
(* thread when the others have ended, and by FatalCleanupAndExit, from any *)
(* thread while the others run on.                                         *)
(*                                                                         *)
(* Memory is sequentially consistent here.  A message is named by the      *)
(* thread that logs it and the number of messages that thread has left.    *)
(***************************************************************************)
EXTENDS Integers, Sequences, FiniteSets

CONSTANTS
  Loggers,     (* the threads that log                                     *)
  Main,        (* the thread that calls LogShutdown in an orderly exit     *)
  MaxMessages, (* LOG_MAX_MESSAGES, the number of slots and of tickets     *)
  CounterMod,  (* a_next and a_serve wrap at this value: 2^32 in the code  *)
  Budget       (* bound on the messages each thread logs by itself         *)

ASSUME LogSizeAssumption ==
  /\ MaxMessages \in Nat \ {0}
  /\ CounterMod \in Nat \ {0}
  /\ \E j \in 2 .. CounterMod : CounterMod = MaxMessages * j

ASSUME LogThreadAssumption ==
  /\ IsFiniteSet(Loggers) /\ Main \in Loggers
  /\ Budget \in [Loggers -> Nat]

Slots == 0 .. MaxMessages - 1
SlotOf(ticket) == ticket % MaxMessages
Messages == {m \in Loggers \X Nat : m[2] <= Budget[m[1]]}
NoMessage == <<>>

VARIABLES
  a_open, available, a_next, a_serve,   (* the ticket factory             *)
  factory,        (* whether its semaphore exists                          *)
  buf,            (* msg[i].buf, the formatted text                        *)
  completed,      (* msg[i].a_in_use_and_completed                         *)
  writing,        (* a_writing_to_disk                                     *)
  has_file, file, (* whether there is a file, and what is written to it    *)
  file_open,
  fatal,          (* a_fatal_cleanup_initiated                             *)
  (* each thread *)
  pc, todo, ticket,
  closing,        (* whether it is inside LogShutdown                      *)
  serving, count, (* the locals of LogTryWriteToDisk                       *)
  seen,           (* the operand of the shutdown test read first           *)
  (* history *)
  issued,         (* the message of every ticket, in the order of issue    *)
  number,         (* how many tickets were issued before each thread's     *)
  served          (* how many tickets have been served                     *)

tfVars   == <<a_open, available, a_next, a_serve, factory, issued, served>>
msgVars  == <<buf, completed>>
fileVars == <<has_file, file, file_open>>
locVars  == <<todo, ticket, closing, serving, count, seen, number>>
vars == <<tfVars, msgVars, writing, fileVars, fatal, pc, locVars>>

Init ==
  /\ a_open = 1 /\ available = MaxMessages /\ a_next = 0 /\ a_serve = 0
  /\ factory = TRUE /\ issued = <<>>
  /\ buf = [i \in Slots |-> NoMessage] /\ completed = [i \in Slots |-> 0]
  /\ writing = 0
  /\ has_file \in BOOLEAN /\ file = <<>> /\ file_open = has_file
  /\ fatal = FALSE
  /\ pc = [t \in Loggers |-> "idle"]
  /\ todo = Budget
  /\ ticket = [t \in Loggers |-> 0]
  /\ closing = [t \in Loggers |-> FALSE]
  /\ serving = [t \in Loggers |-> 0] /\ count = [t \in Loggers |-> 0]
  /\ seen = [t \in Loggers |-> <<"serve", 0>>]
  /\ number = [t \in Loggers |-> 0] /\ served = 0

Goto(t, label) == pc' = [pc EXCEPT ![t] = label]

(* The message thread t is logging; the one LogShutdown logs is the last.  *)
MessageOf(t) == <<t, IF closing[t] THEN 0 ELSE todo[t]>>

(***************************************************************************)
(* Conditions and updates, each after its faulty variants.                 *)
(***************************************************************************)
DiskFree_Unchecked == TRUE
DiskFree == writing = 0

SlotReady_Unchecked(i) == completed[i] = 1 \/ buf[i] # NoMessage
SlotReady(i) == completed[i] = 1

SlotTaken_Kept(i) == completed
SlotTaken(i) == [completed EXCEPT ![i] = 0]

NextCount_NoWrap(k) == k + 1
NextCount(k) == (k + 1) % CounterMod

Served_Partly(n) == (a_serve + (IF n > 1 THEN n - 1 ELSE n)) % CounterMod
Served(n) == (a_serve + n) % CounterMod

PostsLeft_OneMore(n) == n >= 0
PostsLeft(n) == n > 0

AllServed_Ignored(k, l) == TRUE
AllServed(k, l) == k = l

(* main.c shuts the platform down, which joins the workers, before the log. *)
OthersEnded_Unchecked == todo[Main] = 0
OthersEnded == \A t \in Loggers : pc[t] = "idle" /\ todo[t] = 0

(***************************************************************************)
(* LogWriteMessage                                                         *)
(***************************************************************************)
StartMessage(t) ==
  /\ pc[t] = "idle" /\ todo[t] > 0
  /\ Goto(t, "open")
  /\ UNCHANGED <<tfVars, msgVars, writing, fileVars, fatal, locVars>>

(* TicketFactoryTryGetTicket: the factory is open, or the message is       *)
(* dropped.                                                                *)
CheckOpen(t) ==
  /\ pc[t] = "open" /\ a_open = 1
  /\ Goto(t, "trywait")
  /\ UNCHANGED <<tfVars, msgVars, writing, fileVars, fatal, locVars>>

EndMessage(t) ==
  /\ Goto(t, IF closing[t] THEN "close" ELSE "idle")
  /\ todo' = [todo EXCEPT ![t] = IF closing[t] THEN @ ELSE @ - 1]
  /\ UNCHANGED <<ticket, closing, serving, count, seen, number>>

DropMessage(t) ==
  /\ pc[t] = "open" /\ a_open = 0
  /\ EndMessage(t)
  /\ UNCHANGED <<tfVars, msgVars, writing, fileVars, fatal>>

Reserve(t) ==
  /\ pc[t] = "trywait" /\ available > 0
  /\ available' = available - 1
  /\ Goto(t, "ticket")
  /\ UNCHANGED <<a_open, a_next, a_serve, factory, issued, served, msgVars,
                 writing, fileVars, fatal, locVars>>

(* No ticket is available: the thread tries to write to disk instead.      *)
ReserveFails(t) ==
  /\ pc[t] = "trywait" /\ available = 0
  /\ Goto(t, "trydisk")
  /\ UNCHANGED <<tfVars, msgVars, writing, fileVars, fatal, locVars>>

TakeTicket(t) ==
  /\ pc[t] = "ticket"
  /\ ticket' = [ticket EXCEPT ![t] = a_next]
  /\ a_next' = NextCount(a_next)
  /\ issued' = Append(issued, MessageOf(t))
  /\ number' = [number EXCEPT ![t] = Len(issued)]
  /\ Goto(t, "format")
  /\ UNCHANGED <<a_open, available, a_serve, factory, served, msgVars,
                 writing, fileVars, fatal, todo, closing, serving, count,
                 seen>>

Format(t) ==
  /\ pc[t] = "format"
  /\ buf' = [buf EXCEPT ![SlotOf(ticket[t])] = MessageOf(t)]
  /\ Goto(t, "complete")
  /\ UNCHANGED <<tfVars, completed, writing, fileVars, fatal, locVars>>

Complete(t) ==
  /\ pc[t] = "complete"
  /\ completed' = [completed EXCEPT ![SlotOf(ticket[t])] = 1]
  /\ EndMessage(t)
  /\ UNCHANGED <<tfVars, buf, writing, fileVars, fatal>>

(***************************************************************************)
(* LogTryWriteToDisk                                                       *)
(***************************************************************************)
(* What the caller does next: try for a ticket again, or test whether all  *)
(* tickets are served.                                                     *)
AfterDisk(t) == IF closing[t] /\ a_open = 0 THEN "check" ELSE "open"

DiskBusy(t) ==
  /\ pc[t] = "trydisk" /\ ~DiskFree
  /\ Goto(t, AfterDisk(t))
  /\ UNCHANGED <<tfVars, msgVars, writing, fileVars, fatal, locVars>>

OwnDisk(t) ==
  /\ pc[t] = "trydisk" /\ DiskFree
  /\ writing' = 1
  /\ Goto(t, "serve")
  /\ UNCHANGED <<tfVars, msgVars, fileVars, fatal, locVars>>

LoadServe(t) ==
  /\ pc[t] = "serve"
  /\ serving' = [serving EXCEPT ![t] = SlotOf(a_serve)]
  /\ count' = [count EXCEPT ![t] = 0]
  /\ Goto(t, "consume")
  /\ UNCHANGED <<tfVars, msgVars, writing, fileVars, fatal, todo, ticket,
                 closing, seen, number>>

Consume(t) ==
  /\ pc[t] = "consume" /\ SlotReady(serving[t])
  /\ completed' = SlotTaken(serving[t])
  /\ Goto(t, "fwrite")
  /\ UNCHANGED <<tfVars, buf, writing, fileVars, fatal, locVars>>

WriteFile(t) ==
  /\ pc[t] = "fwrite"
  /\ file' = IF has_file THEN Append(file, buf[serving[t]]) ELSE file
  /\ serving' = [serving EXCEPT ![t] = SlotOf(@ + 1)]
  /\ count' = [count EXCEPT ![t] = @ + 1]
  /\ Goto(t, "consume")
  /\ UNCHANGED <<tfVars, msgVars, writing, has_file, file_open, fatal, todo,
                 ticket, closing, seen, number>>

(* TicketFactoryReturnTickets: a_serve first, then one post per ticket.    *)
ReturnTickets(t) ==
  /\ pc[t] = "consume" /\ ~SlotReady(serving[t])
  /\ a_serve' = Served(count[t])
  /\ served' = served + count[t]
  /\ Goto(t, "post")
  /\ UNCHANGED <<a_open, available, a_next, factory, issued, msgVars,
                 writing, fileVars, fatal, locVars>>

PostTicket(t) ==
  /\ pc[t] = "post" /\ PostsLeft(count[t])
  /\ available' = available + 1
  /\ count' = [count EXCEPT ![t] = @ - 1]
  /\ UNCHANGED <<a_open, a_next, a_serve, factory, issued, served, msgVars,
                 writing, fileVars, fatal, pc, todo, ticket, closing,
                 serving, seen, number>>

ReleaseDisk(t) ==
  /\ pc[t] = "post" /\ ~PostsLeft(count[t])
  /\ writing' = 0
  /\ Goto(t, AfterDisk(t))
  /\ UNCHANGED <<tfVars, msgVars, fileVars, fatal, locVars>>

(***************************************************************************)
(* LogShutdown, which logs a message of its own first.                     *)
(***************************************************************************)
OrderlyShutdown ==
  /\ OthersEnded /\ pc[Main] = "idle" /\ ~closing[Main]
  /\ closing' = [closing EXCEPT ![Main] = TRUE]
  /\ Goto(Main, "open")
  /\ UNCHANGED <<tfVars, msgVars, writing, fileVars, fatal, todo, ticket,
                 serving, count, seen, number>>

(* FatalCleanupAndExit: the thread whose compare-exchange wins shuts down. *)
(* A thread that loses returns from it and runs on, which StartMessage     *)
(* allows anyway.                                                          *)
FatalShutdown(t) ==
  /\ ~fatal /\ pc[t] = "idle" /\ \A u \in Loggers : ~closing[u]
  /\ fatal' = TRUE
  /\ closing' = [closing EXCEPT ![t] = TRUE]
  /\ Goto(t, "open")
  /\ UNCHANGED <<tfVars, msgVars, writing, fileVars, todo, ticket, serving,
                 count, seen, number>>

CloseFactory(t) ==
  /\ pc[t] = "close"
  /\ a_open' = 0
  /\ Goto(t, IF has_file THEN "check" ELSE "destroy")
  /\ UNCHANGED <<available, a_next, a_serve, factory, issued, served,
                 msgVars, writing, fileVars, fatal, locVars>>

(* a_serve != a_next: C does not say which operand is loaded first.        *)
LoadFirst(t) ==
  /\ pc[t] = "check"
  /\ \/ seen' = [seen EXCEPT ![t] = <<"serve", a_serve>>]
     \/ seen' = [seen EXCEPT ![t] = <<"next", a_next>>]
  /\ Goto(t, "compare")
  /\ UNCHANGED <<tfVars, msgVars, writing, fileVars, fatal, todo, ticket,
                 closing, serving, count, number>>

Second(t) == IF seen[t][1] = "serve" THEN a_next ELSE a_serve

KeepWriting(t) ==
  /\ pc[t] = "compare" /\ ~AllServed(seen[t][2], Second(t))
  /\ Goto(t, "trydisk")
  /\ UNCHANGED <<tfVars, msgVars, writing, fileVars, fatal, locVars>>

CloseFile(t) ==
  /\ pc[t] = "compare" /\ AllServed(seen[t][2], Second(t))
  /\ file_open' = FALSE
  /\ Goto(t, "destroy")
  /\ UNCHANGED <<tfVars, msgVars, writing, has_file, file, fatal, locVars>>

DestroyFactory(t) ==
  /\ pc[t] = "destroy"
  /\ factory' = FALSE
  /\ Goto(t, "exit")
  /\ UNCHANGED <<a_open, available, a_next, a_serve, issued, served, msgVars,
                 writing, fileVars, fatal, locVars>>

-------------------------------------------------------------------------------
Step(t) ==
  \/ StartMessage(t) \/ CheckOpen(t) \/ DropMessage(t)
  \/ Reserve(t) \/ ReserveFails(t) \/ TakeTicket(t) \/ Format(t) \/ Complete(t)
  \/ DiskBusy(t) \/ OwnDisk(t) \/ LoadServe(t) \/ Consume(t) \/ WriteFile(t)
  \/ ReturnTickets(t) \/ PostTicket(t) \/ ReleaseDisk(t)
  \/ CloseFactory(t) \/ LoadFirst(t) \/ KeepWriting(t) \/ CloseFile(t)
  \/ DestroyFactory(t)

(* LogShutdown has returned and the process is about to end; the other     *)
(* threads of a fatal exit still run.                                      *)
Exited ==
  /\ \E t \in Loggers : pc[t] = "exit"
  /\ UNCHANGED vars

Next ==
  \/ \E t \in Loggers : Step(t) \/ FatalShutdown(t)
  \/ OrderlyShutdown
  \/ Exited

Spec == Init /\ [][Next]_vars

(* Every thread runs; nothing makes a fatal error happen.                  *)
FairSpec ==
  /\ Spec
  /\ \A t \in Loggers : WF_vars(Step(t))
  /\ WF_vars(OrderlyShutdown)

-------------------------------------------------------------------------------
(* Properties *)

(* Types without the bounds that follow from the accounting of tickets.    *)
LogTypes ==
  /\ a_open \in {0, 1} /\ available \in Nat
  /\ a_next \in 0 .. CounterMod - 1 /\ a_serve \in 0 .. CounterMod - 1
  /\ factory \in BOOLEAN /\ issued \in Seq(Messages)
  /\ buf \in [Slots -> Messages \cup {NoMessage}]
  /\ completed \in [Slots -> {0, 1}] /\ writing \in {0, 1}
  /\ has_file \in BOOLEAN /\ file \in Seq(Messages) /\ file_open \in BOOLEAN
  /\ fatal \in BOOLEAN
  /\ pc \in [Loggers -> {"idle", "open", "trywait", "ticket", "format", "complete",
                         "trydisk", "serve", "consume", "fwrite", "post", "close",
                         "check", "compare", "destroy", "exit"}]
  /\ todo \in [Loggers -> Nat] /\ \A t \in Loggers : todo[t] <= Budget[t]
  /\ ticket \in [Loggers -> 0 .. CounterMod - 1]
  /\ closing \in [Loggers -> BOOLEAN]
  /\ serving \in [Loggers -> Slots] /\ count \in [Loggers -> Nat]
  /\ seen \in [Loggers -> {"serve", "next"} \X (0 .. CounterMod - 1)]
  /\ number \in [Loggers -> Nat] /\ served \in Nat

TypeOK ==
  /\ LogTypes
  /\ available <= MaxMessages /\ \A t \in Loggers : count[t] <= MaxMessages

Formatting == {t \in Loggers : pc[t] \in {"format", "complete"}}
DiskWriters == {t \in Loggers : pc[t] \in {"serve", "consume", "fwrite", "post"}}

(* No two threads format into one slot, one thread at most writes to disk, *)
(* and it does not read a slot that a thread is formatting.                *)
SlotOwnership ==
  /\ \A t, u \in Formatting : SlotOf(ticket[t]) = SlotOf(ticket[u]) => t = u
  /\ \A t, u \in DiskWriters : t = u
  /\ \A t \in Formatting, u \in DiskWriters :
       pc[u] = "fwrite" => SlotOf(ticket[t]) # serving[u]

(* The file holds every message at most once and in the order in which     *)
(* their tickets were issued, with no gap.                                 *)
FileInTicketOrder ==
  /\ Len(file) <= Len(issued)
  /\ \A k \in 1 .. Len(file) : file[k] = issued[k]

Outstanding == (a_next - a_serve) % CounterMod

(* The assertions of TicketFactoryReturnTickets: no more tickets are out   *)
(* than there are slots, and no more are returned than are out.            *)
TicketsBounded ==
  /\ Outstanding <= MaxMessages
  /\ \A t \in DiskWriters : pc[t] \in {"consume", "fwrite"} => count[t] <= Outstanding

(* "Spin until all tickets have finished and the messages have been        *)
(* written to disk": when the file is closed it holds the message of every *)
(* ticket ever issued.                                                     *)
AllWrittenAtClose == has_file /\ ~file_open => file = issued

(* An orderly exit, which the other threads do not outlive, writes every   *)
(* message; nobody writes to the closed file or uses the destroyed         *)
(* semaphore.                                                              *)
OrderlyExitWritesAll ==
  ~fatal =>
    /\ AllWrittenAtClose
    /\ has_file /\ ~file_open => \A t \in Loggers : pc[t] # "fwrite"
    /\ ~factory => \A t \in Loggers : pc[t] \notin {"trywait", "post"}

(* LogShutdown returns: it does not wait for ever for a ticket, for the    *)
(* disk, or for a message to be completed.                                 *)
ShutdownReturns == <>(\E t \in Loggers : pc[t] = "exit")

(***************************************************************************)
(* The inductive invariant.  Tickets are numbered from 0 in the order of   *)
(* issue; the k-th stands for the slot SlotOf(k), and those that are out   *)
(* are the numbers served .. Len(issued) - 1.                              *)
(***************************************************************************)
Reserving == {t \in Loggers : pc[t] = "ticket"}
Posting == {t \in Loggers : pc[t] = "post"}

(* The two counters follow the numbering in spite of their wrapping.       *)
CountersFollow ==
  /\ a_next = Len(issued) % CounterMod /\ a_serve = served % CounterMod
  /\ served <= Len(issued)

(* Every ticket is available, reserved, out, or about to be handed back.   *)
Accounted(posts) ==
  available + Cardinality(Reserving) + (Len(issued) - served) + posts = MaxMessages

TicketsAccounted ==
  /\ Posting = {} => Accounted(0)
  /\ \A t \in Posting : Accounted(count[t])

(* The exchange of a_writing_to_disk lets one thread in.                   *)
OneDiskWriter ==
  \A t \in DiskWriters : writing = 1 /\ \A u \in DiskWriters : t = u

(* Thread t has taken the message of ticket k from its slot, and has not   *)
(* handed the ticket back.                                                 *)
Consumed(t, k) ==
  \/ pc[t] = "consume" /\ k < served + count[t]
  \/ pc[t] = "fwrite" /\ k <= served + count[t]

(* Thread t has a ticket that is out, and whose slot is not marked         *)
(* completed.                                                              *)
HoldsTicket(t) ==
  /\ number[t] \in served .. Len(issued) - 1
  /\ ticket[t] = number[t] % CounterMod
  /\ issued[number[t] + 1] = MessageOf(t)
  /\ completed[SlotOf(number[t])] = 0
  /\ pc[t] = "complete" => buf[SlotOf(number[t])] = MessageOf(t)
  /\ \A u \in Loggers : ~Consumed(u, number[t])

(* A thread that formats has a ticket of its own.                          *)
FormattersOwnTickets ==
  /\ \A t \in Formatting : HoldsTicket(t)
  /\ \A t, u \in Formatting : number[t] = number[u] => t = u

(* A completed slot holds the message of a ticket that is out and has not  *)
(* been written yet.                                                       *)
CompletedHoldMessages ==
  \A i \in Slots : completed[i] = 1 =>
    \E k \in served .. Len(issued) - 1 :
      /\ SlotOf(k) = i /\ buf[i] = issued[k + 1]
      /\ \A u \in Loggers : ~Consumed(u, k)

(* The thread that writes to disk follows the numbering too.               *)
WriterInStep ==
  \A t \in Loggers :
    /\ pc[t] \in {"consume", "fwrite"} =>
         serving[t] = SlotOf(served + count[t]) /\ served + count[t] <= Len(issued)
    /\ pc[t] = "fwrite" =>
         /\ served + count[t] < Len(issued)
         /\ buf[serving[t]] = issued[served + count[t] + 1]
         /\ completed[serving[t]] = 0
    /\ pc[t] \notin {"consume", "fwrite", "post"} => count[t] = 0

(* What has been written are the messages of the first tickets: all that   *)
(* are served, and those the writer has gone through since.                *)
FileFollows ==
  /\ ~has_file => file = <<>>
  /\ has_file =>
       /\ \A k \in 1 .. Len(file) : k <= Len(issued) /\ file[k] = issued[k]
       /\ \A t \in Loggers :
            pc[t] \in {"consume", "fwrite"} => Len(file) = served + count[t]
       /\ (\A t \in Loggers : pc[t] \notin {"consume", "fwrite"}) => Len(file) = served

(* In an orderly exit the other threads have ended, so that nothing moves  *)
(* between the two loads of the shutdown test.                             *)
OrderlyExit ==
  /\ \A t \in Loggers :
       pc[t] \in {"close", "check", "compare", "destroy", "exit"} => closing[t]
  /\ ~fatal =>
       /\ \A t \in Loggers \ {Main} : ~closing[t]
       /\ closing[Main] => \A t \in Loggers \ {Main} : pc[t] = "idle" /\ todo[t] = 0
       /\ ~closing[Main] => file_open = has_file /\ factory
       /\ pc[Main] = "compare" => seen[Main] \in {<<"serve", a_serve>>, <<"next", a_next>>}
       /\ has_file /\ ~file_open =>
            pc[Main] \in {"destroy", "exit"} /\ served = Len(issued)
       /\ ~factory => pc[Main] = "exit"

(* A thread that is busy has a message of its own to log, or shuts down.   *)
BusyHasWork == \A t \in Loggers : pc[t] # "idle" => closing[t] \/ todo[t] > 0

(* All of it but the types, the work left and the course of an exit.       *)
Bookkeeping ==
  /\ CountersFollow
  /\ TicketsAccounted
  /\ OneDiskWriter
  /\ FormattersOwnTickets
  /\ CompletedHoldMessages
  /\ WriterInStep
  /\ FileFollows

IInv == LogTypes /\ BusyHasWork /\ Bookkeeping /\ OrderlyExit
===============================================================================
