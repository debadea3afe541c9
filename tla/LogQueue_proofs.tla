---------------------------- MODULE LogQueue_proofs ----------------------------
(***************************************************************************)
(* Proofs about LogQueue for any number of threads, any number of slots    *)
(* that divides the range of the ticket counters, and any number of        *)
(* messages.                                                               *)
(***************************************************************************)
EXTENDS LogQueue, CommonLemmas, FiniteSetTheorems, TLAPS

-------------------------------------------------------------------------------
(* Slots and counters *)

(* The sizes: the counters wrap at a proper multiple of the slots.         *)
LEMMA Sizes ==
  /\ MaxMessages \in Nat \ {0} /\ CounterMod \in Nat \ {0}
  /\ MaxMessages < CounterMod
<1>1. MaxMessages \in Nat \ {0} /\ CounterMod \in Nat \ {0}
  BY LogSizeAssumption
<1>2. PICK j \in 2 .. CounterMod : CounterMod = MaxMessages * j
  BY LogSizeAssumption
<1>3. MaxMessages < CounterMod
  BY <1>1, <1>2, Z3
<1> QED
  BY <1>1, <1>3

(* A number always names a slot of the array.                              *)
LEMMA SlotType ==
  ASSUME NEW k \in Nat
  PROVE  SlotOf(k) \in Slots
  BY Sizes, DivMod DEF SlotOf, Slots

(* The wrapped ticket names the same slot as its number.                   *)
LEMMA SlotOfTicket ==
  ASSUME NEW k \in Nat
  PROVE  SlotOf(k % CounterMod) = SlotOf(k)
<1>1. PICK j \in 2 .. CounterMod : CounterMod = MaxMessages * j
  BY LogSizeAssumption
<1>2. MaxMessages \in Nat \ {0} /\ j \in Nat \ {0}
  BY Sizes
<1>3. (k % (MaxMessages * j)) % MaxMessages = k % MaxMessages
  BY <1>2, ModOfMultiple, Zenon
<1> QED
  BY <1>1, <1>3, Zenon DEF SlotOf

(* The writer goes from slot to slot as the numbers go up.                 *)
LEMMA SlotStep ==
  ASSUME NEW k \in Nat
  PROVE  SlotOf(SlotOf(k) + 1) = SlotOf(k + 1)
  BY Sizes, ModSucc DEF SlotOf

(* Numbers less than MaxMessages apart have slots of their own.            *)
LEMMA SlotsDistinct ==
  ASSUME NEW k \in Nat, NEW l \in Nat,
         k - l < MaxMessages, l - k < MaxMessages, SlotOf(k) = SlotOf(l)
  PROVE  k = l
  BY Sizes, ModInjective DEF SlotOf

(* A counter that wraps stays in its range and follows the numbering.      *)
LEMMA CounterStep ==
  ASSUME NEW k \in Nat, NEW c \in Nat
  PROVE  /\ k % CounterMod \in 0 .. CounterMod - 1
         /\ NextCount(k % CounterMod) = (k + 1) % CounterMod
         /\ ((k % CounterMod) + c) % CounterMod = (k + c) % CounterMod
<1>1. k % CounterMod \in 0 .. CounterMod - 1
  BY Sizes, DivMod
<1>2. NextCount(k % CounterMod) = (k + 1) % CounterMod
  BY Sizes, ModSucc DEF NextCount
<1>3. ((k % CounterMod) + c) % CounterMod = (k + c) % CounterMod
  <2>1. c \in Int
    OBVIOUS
  <2> QED
    BY <2>1, Sizes, ModAdd, Zenon
<1> QED
  BY <1>1, <1>2, <1>3

(* The sets of threads that the accounting counts are finite.              *)
LEMMA ReservingFinite ==
  IsFiniteSet(Reserving) /\ Cardinality(Reserving) \in Nat
<1>1. IsFiniteSet(Reserving)
  BY LogThreadAssumption, FS_Subset DEF Reserving
<1> QED
  BY <1>1, FS_CardinalityType

-------------------------------------------------------------------------------
(* What the invariant says of the tickets that are out *)

(* No more tickets are out than there are slots, counting those reserved   *)
(* and those about to be handed back.                                      *)
LEMMA Window ==
  ASSUME IInv
  PROVE  /\ served \in Nat /\ Len(issued) \in Nat /\ served <= Len(issued)
         /\ available \in Nat /\ available <= MaxMessages
         /\ Len(issued) - served <= MaxMessages
         /\ Reserving # {} => Len(issued) - served < MaxMessages
         /\ \A t \in Posting : (Len(issued) - served) + count[t] <= MaxMessages
<1>1. /\ served \in Nat /\ Len(issued) \in Nat /\ served <= Len(issued)
      /\ available \in Nat /\ count \in [Loggers -> Nat]
  BY DEF IInv, LogTypes, Bookkeeping, CountersFollow
<1>2. Cardinality(Reserving) \in Nat /\ (Reserving # {} => Cardinality(Reserving) > 0)
  BY ReservingFinite, FS_EmptySet
<1>3. \E posts \in Nat : Accounted(posts)
  BY <1>1 DEF IInv, Bookkeeping, TicketsAccounted, Posting
<1>4. \A t \in Posting : Accounted(count[t]) /\ count[t] \in Nat
  BY <1>1 DEF IInv, Bookkeeping, TicketsAccounted, Posting
<1>5. MaxMessages \in Nat
  BY Sizes
<1> QED
  BY <1>1, <1>2, <1>3, <1>4, <1>5 DEF Accounted

(* Tickets that are out have slots of their own.                           *)
LEMMA OutDistinct ==
  ASSUME IInv, NEW k \in served .. Len(issued) - 1, NEW l \in served .. Len(issued) - 1,
         SlotOf(k) = SlotOf(l)
  PROVE  k = l
<1>1. k \in Nat /\ l \in Nat /\ k - l < MaxMessages /\ l - k < MaxMessages
  BY Window, Sizes
<1> QED
  BY <1>1, SlotsDistinct

(* A number that is out names a slot and a message.                        *)
LEMMA OutTypes ==
  ASSUME IInv, NEW k \in served .. Len(issued) - 1
  PROVE  k \in Nat /\ SlotOf(k) \in Slots /\ issued[k + 1] \in Messages
<1>1. k \in Nat /\ k + 1 \in 1 .. Len(issued)
  BY Window
<1>2. issued \in Seq(Messages)
  BY DEF IInv, LogTypes
<1> QED
  BY <1>1, <1>2, SlotType

(* The message a thread is logging is one of its own.                      *)
LEMMA MessageType ==
  ASSUME LogTypes, NEW t \in Loggers
  PROVE  MessageOf(t) \in Messages
<1>1. todo[t] \in Nat /\ todo[t] <= Budget[t] /\ Budget[t] \in Nat /\ closing[t] \in BOOLEAN
  BY LogThreadAssumption DEF LogTypes
<1>2. (IF closing[t] THEN 0 ELSE todo[t]) \in {k \in Nat : k <= Budget[t]}
  BY <1>1
<1> QED
  BY <1>2 DEF MessageOf, Messages

-------------------------------------------------------------------------------
(* Type correctness *)

(* LogInit leaves a logger of the declared types.                          *)
LEMMA InitTypes == Init => LogTypes
<1> SUFFICES ASSUME Init
             PROVE  LogTypes
  OBVIOUS
<1>1. 0 \in Slots /\ 0 \in 0 .. CounterMod - 1
  BY Sizes DEF Slots
<1>2. MaxMessages \in Nat /\ Budget \in [Loggers -> Nat]
  BY Sizes, LogThreadAssumption
<1>3. <<"serve", 0>> \in {"serve", "next"} \X (0 .. CounterMod - 1)
  BY <1>1
<1>4. /\ todo \in [Loggers -> Nat] /\ (\A t \in Loggers : todo[t] <= Budget[t])
      /\ seen \in [Loggers -> {"serve", "next"} \X (0 .. CounterMod - 1)]
  BY <1>2, <1>3 DEF Init
<1>5. issued \in Seq(Messages) /\ file \in Seq(Messages)
  BY DEF Init
<1> QED
  BY <1>1, <1>2, <1>4, <1>5 DEF Init, LogTypes

(* A thread that is done with a message had one left.                      *)
LEMMA EndTypes ==
  ASSUME IInv, NEW t \in Loggers, pc[t] # "idle", EndMessage(t)
  PROVE  /\ pc' \in [Loggers -> {"idle", "open", "trywait", "ticket", "format", "complete",
                         "trydisk", "serve", "consume", "fwrite", "post", "close",
                         "check", "compare", "destroy", "exit"}]
         /\ todo' \in [Loggers -> Nat] /\ \A u \in Loggers : todo'[u] <= Budget[u]
         /\ UNCHANGED <<ticket, closing, serving, count, seen, number>>
<1>1. LogTypes /\ BusyHasWork
  BY DEF IInv
<1>2. \A u \in Loggers : Budget[u] \in Nat
  BY LogThreadAssumption
<1>3. closing[t] \/ todo[t] - 1 \in Nat
  BY <1>1 DEF LogTypes, BusyHasWork
<1>4. todo' \in [Loggers -> Nat] /\ \A u \in Loggers : todo'[u] <= Budget[u]
  BY <1>1, <1>2, <1>3 DEF LogTypes, EndMessage
<1> QED
  BY <1>1, <1>4 DEF LogTypes, EndMessage, Goto

(* The steps that change nothing but the program counter and the flags.    *)
LEMMA ControlTypes ==
  ASSUME IInv, NEW t \in Loggers,
         \/ StartMessage(t) \/ CheckOpen(t) \/ DropMessage(t) \/ Reserve(t)
         \/ ReserveFails(t) \/ DiskBusy(t) \/ OwnDisk(t) \/ ReleaseDisk(t)
         \/ CloseFactory(t) \/ KeepWriting(t) \/ CloseFile(t) \/ DestroyFactory(t)
         \/ FatalShutdown(t)
  PROVE  LogTypes'
<1> USE DEF LogTypes, Goto
<1>0. LogTypes
  BY DEF IInv
<1>1. CASE StartMessage(t)
  BY <1>0, <1>1 DEF StartMessage, tfVars, msgVars, fileVars, locVars
<1>2. CASE CheckOpen(t)
  BY <1>0, <1>2 DEF CheckOpen, tfVars, msgVars, fileVars, locVars
<1>3. CASE DropMessage(t)
  BY <1>0, <1>3, EndTypes DEF DropMessage, tfVars, msgVars, fileVars
<1>4. CASE Reserve(t)
  <2>1. available' \in Nat
    BY <1>0, <1>4 DEF Reserve
  <2> QED
    BY <1>0, <1>4, <2>1 DEF Reserve, msgVars, fileVars, locVars
<1>5. CASE ReserveFails(t)
  BY <1>0, <1>5 DEF ReserveFails, tfVars, msgVars, fileVars, locVars
<1>6. CASE DiskBusy(t)
  BY <1>0, <1>6 DEF DiskBusy, AfterDisk, tfVars, msgVars, fileVars, locVars
<1>7. CASE OwnDisk(t)
  BY <1>0, <1>7 DEF OwnDisk, tfVars, msgVars, fileVars, locVars
<1>8. CASE ReleaseDisk(t)
  BY <1>0, <1>8 DEF ReleaseDisk, AfterDisk, tfVars, msgVars, fileVars, locVars
<1>9. CASE CloseFactory(t)
  BY <1>0, <1>9 DEF CloseFactory, msgVars, fileVars, locVars
<1>10. CASE KeepWriting(t)
  BY <1>0, <1>10 DEF KeepWriting, tfVars, msgVars, fileVars, locVars
<1>11. CASE CloseFile(t)
  BY <1>0, <1>11 DEF CloseFile, tfVars, msgVars, fileVars, locVars
<1>12. CASE DestroyFactory(t)
  BY <1>0, <1>12 DEF DestroyFactory, msgVars, fileVars, locVars
<1>13. CASE FatalShutdown(t)
  BY <1>0, <1>13 DEF FatalShutdown, tfVars, msgVars, fileVars
<1> QED
  BY <1>1, <1>2, <1>3, <1>4, <1>5, <1>6, <1>7, <1>8, <1>9, <1>10, <1>11, <1>12, <1>13

(* The steps that move a ticket, a message or a counter.                   *)
LEMMA DataTypes ==
  ASSUME IInv, NEW t \in Loggers,
         \/ TakeTicket(t) \/ Format(t) \/ Complete(t) \/ LoadServe(t) \/ Consume(t)
         \/ WriteFile(t) \/ ReturnTickets(t) \/ PostTicket(t) \/ LoadFirst(t)
  PROVE  LogTypes'
<1> USE DEF LogTypes, Goto
<1>1. LogTypes
  BY DEF IInv
<1>2. a_next = Len(issued) % CounterMod /\ a_serve = served % CounterMod
  BY DEF IInv, Bookkeeping, CountersFollow
<1>3. served \in Nat /\ Len(issued) \in Nat /\ count[t] \in Nat
  BY <1>1
<1>4. CASE TakeTicket(t)
  <2>1. NextCount(a_next) \in 0 .. CounterMod - 1
    <3>1. a_next \in Nat
      BY <1>1, Sizes
    <3> QED
      BY <3>1, Sizes, DivMod DEF NextCount
  <2>2. MessageOf(t) \in Messages
    BY <1>1, MessageType
  <2> QED
    BY <1>1, <1>3, <1>4, <2>1, <2>2 DEF TakeTicket, msgVars, fileVars
<1>5. CASE Format(t)
  <2>1. MessageOf(t) \in Messages
    BY <1>1, MessageType
  <2> QED
    BY <1>1, <1>5, <2>1 DEF Format, tfVars, fileVars, locVars
<1>6. CASE Complete(t)
  <2>1. completed' \in [Slots -> {0, 1}]
    BY <1>1, <1>6 DEF Complete
  <2> QED
    BY <1>1, <1>6, <2>1, EndTypes DEF Complete, tfVars, fileVars
<1>7. CASE LoadServe(t)
  <2>1. SlotOf(a_serve) \in Slots
    BY <1>1, Sizes, SlotType
  <2> QED
    BY <1>1, <1>7, <2>1 DEF LoadServe, tfVars, msgVars, fileVars
<1>8. CASE Consume(t)
  BY <1>1, <1>8 DEF Consume, SlotTaken, tfVars, fileVars, locVars
<1>9. CASE WriteFile(t)
  <2>1. serving[t] \in Slots /\ serving[t] + 1 \in Nat
    BY <1>1 DEF Slots
  <2>2. SlotOf(serving[t] + 1) \in Slots
    BY <2>1, SlotType
  <2>3. buf[serving[t]] \in Messages
    <3>1. served + count[t] \in served .. Len(issued) - 1
      BY <1>3, <1>9 DEF WriteFile, IInv, Bookkeeping, WriterInStep
    <3>2. buf[serving[t]] = issued[served + count[t] + 1]
      BY <1>9 DEF WriteFile, IInv, Bookkeeping, WriterInStep
    <3> QED
      BY <3>1, <3>2, OutTypes
  <2>4. file' \in Seq(Messages)
    BY <1>1, <1>9, <2>3 DEF WriteFile
  <2>5. /\ serving' = [serving EXCEPT ![t] = SlotOf(serving[t] + 1)]
        /\ count' = [count EXCEPT ![t] = count[t] + 1]
        /\ pc' = [pc EXCEPT ![t] = "consume"]
        /\ UNCHANGED <<tfVars, msgVars, writing, has_file, file_open, fatal, todo,
                       ticket, closing, seen, number>>
    BY <1>9 DEF WriteFile
  <2>6. serving' \in [Loggers -> Slots] /\ count' \in [Loggers -> Nat]
    BY <1>1, <2>2, <2>5
  <2> QED
    BY <1>1, <2>4, <2>5, <2>6 DEF tfVars, msgVars
<1>10. CASE ReturnTickets(t)
  <2>1. served + count[t] \in Nat
    BY <1>3
  <2>2. /\ (served + count[t]) % CounterMod \in 0 .. CounterMod - 1
        /\ ((served % CounterMod) + count[t]) % CounterMod
             = (served + count[t]) % CounterMod
    BY <1>3, <2>1, CounterStep, Zenon
  <2>3. a_serve' \in 0 .. CounterMod - 1 /\ served' \in Nat
    BY <1>2, <1>10, <2>1, <2>2 DEF ReturnTickets, Served
  <2> QED
    BY <1>1, <1>10, <2>3 DEF ReturnTickets, msgVars, fileVars, locVars
<1>11. CASE PostTicket(t)
  <2>1. available' \in Nat /\ count' \in [Loggers -> Nat]
    BY <1>1, <1>3, <1>11 DEF PostTicket, PostsLeft
  <2> QED
    BY <1>1, <1>11, <2>1 DEF PostTicket, msgVars, fileVars
<1>12. CASE LoadFirst(t)
  <2>1. PICK v \in {"serve", "next"} \X (0 .. CounterMod - 1) :
          seen' = [seen EXCEPT ![t] = v]
    BY <1>1, <1>12 DEF LoadFirst
  <2> QED
    BY <1>1, <1>12, <2>1 DEF LoadFirst, tfVars, msgVars, fileVars
<1> QED
  BY <1>4, <1>5, <1>6, <1>7, <1>8, <1>9, <1>10, <1>11, <1>12

-------------------------------------------------------------------------------
(* Steps of a thread that holds neither a ticket nor the disk *)

Outside == {"idle", "open", "trywait", "trydisk", "close", "check", "compare",
            "destroy", "exit"}

(* Such a step, whatever it does with the flags of the shutdown, leaves    *)
(* the books as they are.                                                  *)
LEMMA OutsideStep ==
  ASSUME IInv, NEW t \in Loggers, NEW l \in Outside,
         pc[t] \in Outside, pc' = [pc EXCEPT ![t] = l],
         \A u \in Loggers \ {t} : todo'[u] = todo[u] /\ closing'[u] = closing[u],
         UNCHANGED <<available, a_next, a_serve, issued, served, msgVars, writing,
                     has_file, file, ticket, serving, count, number>>
  PROVE  Bookkeeping'
<1>1. LogTypes /\ Bookkeeping
  BY DEF IInv
<1>2. pc'[t] = l /\ \A u \in Loggers \ {t} : pc'[u] = pc[u]
  BY <1>1 DEF LogTypes
<1>3. /\ Reserving' = Reserving /\ Posting' = Posting
      /\ Formatting' = Formatting /\ DiskWriters' = DiskWriters
  BY <1>2 DEF Outside, Reserving, Posting, Formatting, DiskWriters
<1>4. \A u \in Formatting \cup DiskWriters : u # t /\ MessageOf(u)' = MessageOf(u)
  BY DEF Formatting, DiskWriters, Outside, MessageOf
<1>5. \A u \in Loggers, k \in Nat : Consumed(u, k)' <=> Consumed(u, k)
  BY <1>2 DEF Consumed, Outside
<1>6. CountersFollow' /\ TicketsAccounted' /\ OneDiskWriter'
  BY <1>1, <1>3 DEF Bookkeeping, CountersFollow, TicketsAccounted, Accounted, OneDiskWriter
<1>7. FormattersOwnTickets'
  <2>1. ASSUME NEW u \in Formatting
        PROVE  HoldsTicket(u)'
    <3>1. u \in Loggers /\ HoldsTicket(u) /\ number[u] \in Nat
      BY <1>1 DEF Bookkeeping, FormattersOwnTickets, Formatting, LogTypes
    <3>2. \A v \in Loggers : ~Consumed(v, number[u])'
      BY <1>2, <1>5, <3>1 DEF HoldsTicket, Consumed
    <3> QED
      BY <1>2, <1>4, <3>1, <3>2 DEF HoldsTicket, msgVars, SlotOf, Consumed
  <2> QED
    BY <1>1, <1>3, <2>1 DEF Bookkeeping, FormattersOwnTickets
<1>8. CompletedHoldMessages'
  <2>1. served .. Len(issued) - 1 \subseteq Nat
    BY Window
  <2> QED
    BY <1>1, <1>5, <2>1 DEF Bookkeeping, CompletedHoldMessages, msgVars, SlotOf
<1>9. WriterInStep'
  BY <1>1, <1>2 DEF Bookkeeping, WriterInStep, Outside, msgVars, SlotOf
<1>10. FileFollows'
  BY <1>1, <1>2 DEF Bookkeeping, FileFollows, Outside
<1> QED
  BY <1>6, <1>7, <1>8, <1>9, <1>10 DEF Bookkeeping

-------------------------------------------------------------------------------
(* Steps of a thread that logs *)

(* sem_trywait: one ticket is no longer available, but reserved.           *)
LEMMA ReserveBooks ==
  ASSUME IInv, NEW t \in Loggers, Reserve(t)
  PROVE  Bookkeeping'
<1>1. LogTypes /\ Bookkeeping
  BY DEF IInv
<1>2. /\ pc[t] = "trywait" /\ available > 0 /\ available' = available - 1
      /\ pc' = [pc EXCEPT ![t] = "ticket"]
      /\ UNCHANGED <<a_next, a_serve, issued, served, msgVars, writing, has_file, file,
                     todo, closing, ticket, serving, count, number>>
  BY DEF Reserve, Goto, locVars, fileVars
<1>3. pc'[t] = "ticket" /\ \A u \in Loggers \ {t} : pc'[u] = pc[u]
  BY <1>1, <1>2 DEF LogTypes
<1>4. /\ Reserving' = Reserving \cup {t} /\ t \notin Reserving /\ Posting' = Posting
      /\ Formatting' = Formatting /\ DiskWriters' = DiskWriters
  BY <1>2, <1>3 DEF Reserving, Posting, Formatting, DiskWriters
<1>5. \A u \in Loggers, k \in Nat : Consumed(u, k)' <=> Consumed(u, k)
  BY <1>2, <1>3 DEF Consumed
<1>6. CountersFollow' /\ OneDiskWriter'
  BY <1>1, <1>2, <1>4 DEF Bookkeeping, CountersFollow, OneDiskWriter
<1>7. TicketsAccounted'
  <2>1. Cardinality(Reserving') = Cardinality(Reserving) + 1
    BY <1>4, ReservingFinite, FS_AddElement
  <2>2. available \in Nat /\ Cardinality(Reserving) \in Nat
    BY <1>1, ReservingFinite DEF LogTypes
  <2>3. available' + Cardinality(Reserving') = available + Cardinality(Reserving)
    BY <1>2, <2>1, <2>2
  <2> QED
    BY <1>1, <1>2, <1>4, <2>3 DEF Bookkeeping, TicketsAccounted, Accounted
<1>8. FormattersOwnTickets'
  <2>1. ASSUME NEW u \in Formatting
        PROVE  HoldsTicket(u)'
    <3>1. u \in Loggers /\ HoldsTicket(u) /\ number[u] \in Nat /\ pc'[u] = pc[u]
      BY <1>1, <1>2, <1>3 DEF Bookkeeping, FormattersOwnTickets, Formatting, LogTypes
    <3>2. \A v \in Loggers : ~Consumed(v, number[u])'
      BY <1>2, <1>5, <3>1 DEF HoldsTicket, Consumed
    <3> QED
      BY <1>2, <3>1, <3>2 DEF HoldsTicket, msgVars, SlotOf, Consumed, MessageOf
  <2> QED
    BY <1>1, <1>2, <1>4, <2>1 DEF Bookkeeping, FormattersOwnTickets
<1>9. CompletedHoldMessages'
  <2>1. served .. Len(issued) - 1 \subseteq Nat
    BY Window
  <2> QED
    BY <1>1, <1>2, <1>5, <2>1 DEF Bookkeeping, CompletedHoldMessages, msgVars, SlotOf
<1>10. WriterInStep' /\ FileFollows'
  BY <1>1, <1>2, <1>3 DEF Bookkeeping, WriterInStep, FileFollows, msgVars, SlotOf
<1> QED
  BY <1>6, <1>7, <1>8, <1>9, <1>10 DEF Bookkeeping

(* a_next: the reserved ticket gets the next number, whose slot is free.   *)
LEMMA TakeTicketBooks ==
  ASSUME IInv, NEW t \in Loggers, TakeTicket(t)
  PROVE  Bookkeeping'
<1>1. LogTypes /\ Bookkeeping
  BY DEF IInv
<1>2. /\ pc[t] = "ticket" /\ pc' = [pc EXCEPT ![t] = "format"]
      /\ a_next' = NextCount(a_next) /\ issued' = Append(issued, MessageOf(t))
      /\ ticket' = [ticket EXCEPT ![t] = a_next]
      /\ number' = [number EXCEPT ![t] = Len(issued)]
      /\ UNCHANGED <<available, a_serve, served, buf, completed, writing, has_file, file,
                     todo, closing, serving, count>>
  BY DEF TakeTicket, Goto, msgVars, fileVars
<1>3. pc'[t] = "format" /\ \A u \in Loggers \ {t} : pc'[u] = pc[u]
  BY <1>1, <1>2 DEF LogTypes
<1>4. /\ Reserving' = Reserving \ {t} /\ t \in Reserving /\ Posting' = Posting
      /\ Formatting' = Formatting \cup {t} /\ t \notin Formatting
      /\ DiskWriters' = DiskWriters
  BY <1>2, <1>3 DEF Reserving, Posting, Formatting, DiskWriters
<1>5. /\ served \in Nat /\ Len(issued) \in Nat /\ served <= Len(issued)
      /\ Len(issued) - served < MaxMessages /\ issued \in Seq(Messages)
      /\ count \in [Loggers -> Nat] /\ MaxMessages \in Nat
  BY <1>1, <1>4, Window, Sizes DEF LogTypes
<1>6. /\ Len(issued') = Len(issued) + 1
      /\ issued'[Len(issued) + 1] = MessageOf(t)
      /\ \A k \in 1 .. Len(issued) : issued'[k] = issued[k]
  BY <1>1, <1>2, <1>5, MessageType
<1>7. \A u \in Loggers, k \in Nat : Consumed(u, k)' <=> Consumed(u, k)
  BY <1>2, <1>3 DEF Consumed
<1>8. CountersFollow' /\ OneDiskWriter'
  <2>1. NextCount(Len(issued) % CounterMod) = (Len(issued) + 1) % CounterMod
    BY <1>5, CounterStep
  <2>2. served <= Len(issued) + 1
    BY <1>5
  <2>3. CountersFollow'
    BY <1>1, <1>2, <1>6, <2>1, <2>2 DEF Bookkeeping, CountersFollow
  <2> QED
    BY <1>1, <1>2, <1>4, <2>3 DEF Bookkeeping, OneDiskWriter
<1>9. TicketsAccounted'
  <2>1. Cardinality(Reserving') = Cardinality(Reserving) - 1
    BY <1>4, ReservingFinite, FS_RemoveElement
  <2>2. Cardinality(Reserving) \in Nat
    BY ReservingFinite
  <2>3. Cardinality(Reserving') + (Len(issued') - served')
          = Cardinality(Reserving) + (Len(issued) - served)
    BY <1>2, <1>5, <1>6, <2>1, <2>2
  <2>4. Cardinality(Reserving') \in Int /\ available \in Nat
    BY <1>1, <2>1, <2>2 DEF LogTypes
  <2>5. ASSUME NEW p \in Nat, Accounted(p)
        PROVE  Accounted(p)'
    <3>1. /\ Len(issued') \in Int /\ served' \in Int /\ available' = available
          /\ Len(issued) \in Int /\ served \in Int
      BY <1>2, <1>5, <1>6
    <3>2. available + Cardinality(Reserving) + Len(issued) - served + p = MaxMessages
      BY <2>5 DEF Accounted
    <3>3. available' + Cardinality(Reserving') + Len(issued') - served' + p = MaxMessages
      BY <2>2, <2>3, <2>4, <3>1, <3>2
    <3> QED
      BY <3>3 DEF Accounted
  <2>6. Accounted(0) => Accounted(0)'
    BY <2>5
  <2>7. \A u \in Posting : Accounted(count[u]) => Accounted(count[u])'
    BY <1>2, <1>5, <2>5 DEF Posting, Accounted
  <2> QED
    BY <1>1, <1>4, <2>6, <2>7 DEF Bookkeeping, TicketsAccounted
<1>10. completed[SlotOf(Len(issued))] = 0
  <2>1. \A k \in served .. Len(issued) - 1 : SlotOf(k) # SlotOf(Len(issued))
    BY <1>5, SlotsDistinct
  <2>2. SlotOf(Len(issued)) \in Slots
    BY <1>5, SlotType
  <2> QED
    BY <1>1, <2>1, <2>2 DEF Bookkeeping, CompletedHoldMessages, LogTypes
<1>11. \A u \in Loggers : ~Consumed(u, Len(issued))
  BY <1>1, <1>5 DEF Bookkeeping, WriterInStep, Consumed
<1>12. FormattersOwnTickets'
  <2>1. /\ number'[t] = Len(issued) /\ ticket'[t] = a_next
        /\ \A u \in Loggers \ {t} : number'[u] = number[u] /\ ticket'[u] = ticket[u]
    BY <1>1, <1>2 DEF LogTypes
  <2>2. \A u \in Formatting : number[u] \in served .. Len(issued) - 1
    BY <1>1 DEF Bookkeeping, FormattersOwnTickets, HoldsTicket
  <2>3. ASSUME NEW u \in Formatting
        PROVE  HoldsTicket(u)'
    <3>1. u # t /\ u \in Loggers /\ HoldsTicket(u)
      BY <1>1, <1>4 DEF Formatting, Bookkeeping, FormattersOwnTickets
    <3>2. number[u] \in Nat /\ number[u] + 1 \in 1 .. Len(issued)
          /\ number[u] \in served' .. Len(issued') - 1
      BY <1>2, <1>5, <1>6, <2>2
    <3>3. /\ number'[u] = number[u] /\ ticket'[u] = ticket[u] /\ pc'[u] = pc[u]
          /\ MessageOf(u)' = MessageOf(u)
      BY <1>2, <1>3, <2>1, <3>1 DEF MessageOf
    <3>4. issued'[number[u] + 1] = MessageOf(u)
      BY <1>6, <3>1, <3>2 DEF HoldsTicket
    <3>5. \A v \in Loggers : ~Consumed(v, number[u])'
      BY <1>7, <3>1, <3>2, <3>3 DEF HoldsTicket, Consumed
    <3> QED
      BY <1>2, <3>1, <3>2, <3>3, <3>4, <3>5 DEF HoldsTicket, Consumed, SlotOf
  <2>4. HoldsTicket(t)'
    <3>1. number'[t] \in served' .. Len(issued') - 1
      BY <1>2, <1>5, <1>6, <2>1
    <3>2. ticket'[t] = number'[t] % CounterMod
      BY <1>1, <2>1 DEF Bookkeeping, CountersFollow
    <3>3. issued'[number'[t] + 1] = MessageOf(t)'
      BY <1>2, <1>6, <2>1 DEF MessageOf
    <3>4. completed'[SlotOf(number'[t])] = 0
      BY <1>2, <1>10, <2>1
    <3>5. \A v \in Loggers : ~Consumed(v, number[t])'
      BY <1>5, <1>7, <1>11, <2>1 DEF Consumed
    <3> QED
      BY <1>3, <3>1, <3>2, <3>3, <3>4, <3>5 DEF HoldsTicket, SlotOf, Consumed
  <2>5. \A u, v \in Formatting' : number'[u] = number'[v] => u = v
    <3>1. \A u \in Formatting : u \in Loggers \ {t} /\ number[u] < Len(issued)
      BY <1>4, <1>5, <2>2 DEF Formatting
    <3>2. \A u, v \in Formatting : number[u] = number[v] => u = v
      BY <1>1 DEF Bookkeeping, FormattersOwnTickets
    <3> QED
      BY <1>4, <1>5, <2>1, <3>1, <3>2
  <2> QED
    BY <1>4, <2>3, <2>4, <2>5 DEF FormattersOwnTickets
<1>13. CompletedHoldMessages'
  <2>1. \A k \in served .. Len(issued) - 1 :
          /\ k \in Nat /\ k \in served' .. Len(issued') - 1
          /\ issued'[k + 1] = issued[k + 1]
    BY <1>2, <1>5, <1>6
  <2> QED
    BY <1>1, <1>2, <1>7, <2>1 DEF Bookkeeping, CompletedHoldMessages, SlotOf
<1>14. WriterInStep'
  BY <1>1, <1>2, <1>3, <1>5, <1>6 DEF Bookkeeping, WriterInStep, SlotOf
<1>15. FileFollows'
  <2>1. file \in Seq(Messages)
    BY <1>1 DEF LogTypes
  <2> QED
    BY <1>1, <1>2, <1>3, <1>5, <1>6, <2>1 DEF Bookkeeping, FileFollows
<1> QED
  BY <1>8, <1>9, <1>12, <1>13, <1>14, <1>15 DEF Bookkeeping

(* Two threads that format have slots of their own, and the writer does    *)
(* not read the slot of either.                                            *)
LEMMA FormatterSlot ==
  ASSUME IInv, NEW t \in Formatting
  PROVE  /\ HoldsTicket(t) /\ number[t] \in Nat /\ number[t] \in served .. Len(issued) - 1
         /\ SlotOf(number[t]) \in Slots /\ SlotOf(ticket[t]) = SlotOf(number[t])
         /\ \A u \in Formatting : u # t => SlotOf(number[u]) # SlotOf(number[t])
         /\ \A u \in Loggers : pc[u] = "fwrite" => serving[u] # SlotOf(number[t])
<1>1. LogTypes /\ Bookkeeping /\ t \in Loggers
  BY DEF IInv, Formatting
<1>2. HoldsTicket(t) /\ number[t] \in Nat /\ number[t] \in served .. Len(issued) - 1
  BY <1>1 DEF Bookkeeping, FormattersOwnTickets, HoldsTicket, LogTypes
<1>3. SlotOf(number[t]) \in Slots /\ SlotOf(ticket[t]) = SlotOf(number[t])
  BY <1>2, SlotType, SlotOfTicket DEF HoldsTicket
<1>4. ASSUME NEW u \in Formatting, u # t
      PROVE  SlotOf(number[u]) # SlotOf(number[t])
  <2>1. number[u] # number[t] /\ number[u] \in served .. Len(issued) - 1
    BY <1>1, <1>4 DEF Bookkeeping, FormattersOwnTickets, HoldsTicket
  <2> QED
    BY <1>2, <2>1, OutDistinct
<1>5. ASSUME NEW u \in Loggers, pc[u] = "fwrite"
      PROVE  serving[u] # SlotOf(number[t])
  <2>1. /\ served + count[u] \in served .. Len(issued) - 1
        /\ serving[u] = SlotOf(served + count[u])
    <3>1. served \in Nat /\ count[u] \in Nat /\ Len(issued) \in Nat
      BY <1>1 DEF LogTypes
    <3> QED
      BY <1>1, <1>5, <3>1 DEF Bookkeeping, WriterInStep
  <2>2. number[t] # served + count[u]
    BY <1>2, <1>5 DEF HoldsTicket, Consumed
  <2> QED
    BY <1>2, <2>1, <2>2, OutDistinct
<1> QED
  BY <1>2, <1>3, <1>4, <1>5

(* vsnprintf: the text goes to the slot of the ticket, which nobody else   *)
(* formats and the writer does not read.                                   *)
LEMMA FormatBooks ==
  ASSUME IInv, NEW t \in Loggers, Format(t)
  PROVE  Bookkeeping'
<1>1. LogTypes /\ Bookkeeping
  BY DEF IInv
<1>2. /\ pc[t] = "format" /\ pc' = [pc EXCEPT ![t] = "complete"]
      /\ buf' = [buf EXCEPT ![SlotOf(ticket[t])] = MessageOf(t)]
      /\ UNCHANGED <<available, a_next, a_serve, issued, served, completed, writing,
                     has_file, file, todo, closing, ticket, serving, count, number>>
  BY DEF Format, Goto, tfVars, fileVars, locVars
<1>3. pc'[t] = "complete" /\ \A u \in Loggers \ {t} : pc'[u] = pc[u]
  BY <1>1, <1>2 DEF LogTypes
<1>4. /\ Reserving' = Reserving /\ Posting' = Posting /\ t \in Formatting
      /\ Formatting' = Formatting /\ DiskWriters' = DiskWriters
  BY <1>2, <1>3 DEF Reserving, Posting, Formatting, DiskWriters
<1> DEFINE s == SlotOf(number[t])
<1>5. s \in Slots /\ completed[s] = 0 /\ SlotOf(ticket[t]) = s
  BY <1>4, FormatterSlot DEF HoldsTicket
<1>6. buf'[s] = MessageOf(t) /\ \A i \in Slots \ {s} : buf'[i] = buf[i]
  BY <1>1, <1>2, <1>5 DEF LogTypes
<1>7. /\ \A u \in Formatting : u # t => SlotOf(number[u]) \in Slots \ {s}
      /\ \A u \in Loggers : pc[u] = "fwrite" => serving[u] \in Slots \ {s}
  BY <1>1, <1>4, FormatterSlot DEF LogTypes
<1> HIDE DEF s
<1>8. \A u \in Loggers, k \in Nat : Consumed(u, k)' <=> Consumed(u, k)
  BY <1>2, <1>3 DEF Consumed
<1>9. CountersFollow' /\ TicketsAccounted' /\ OneDiskWriter'
  BY <1>1, <1>2, <1>4
  DEF Bookkeeping, CountersFollow, TicketsAccounted, Accounted, OneDiskWriter
<1>10. FormattersOwnTickets'
  <2>1. ASSUME NEW u \in Formatting
        PROVE  HoldsTicket(u)'
    <3>1. HoldsTicket(u) /\ number[u] \in Nat /\ u \in Loggers
      BY FormatterSlot DEF Formatting
    <3>2. \A v \in Loggers : ~Consumed(v, number[u])'
      BY <1>2, <1>8, <3>1 DEF HoldsTicket, Consumed
    <3>3. pc'[u] = "complete" => buf'[SlotOf(number[u])] = MessageOf(u)
      BY <1>3, <1>6, <1>7, <3>1 DEF HoldsTicket, s
    <3> QED
      BY <1>2, <3>1, <3>2, <3>3 DEF HoldsTicket, SlotOf, Consumed, MessageOf
  <2> QED
    BY <1>1, <1>2, <1>4, <2>1 DEF Bookkeeping, FormattersOwnTickets
<1>11. CompletedHoldMessages'
  <2>1. served .. Len(issued) - 1 \subseteq Nat
    BY Window
  <2> QED
    BY <1>1, <1>2, <1>5, <1>6, <1>8, <2>1 DEF Bookkeeping, CompletedHoldMessages, SlotOf
<1>12. WriterInStep'
  BY <1>1, <1>2, <1>3, <1>6, <1>7 DEF Bookkeeping, WriterInStep, SlotOf
<1>13. FileFollows'
  BY <1>1, <1>2, <1>3 DEF Bookkeeping, FileFollows
<1> QED
  BY <1>9, <1>10, <1>11, <1>12, <1>13 DEF Bookkeeping

(* The slot is marked completed with the message of its ticket in it.      *)
LEMMA CompleteBooks ==
  ASSUME IInv, NEW t \in Loggers, Complete(t)
  PROVE  Bookkeeping'
<1>1. LogTypes /\ Bookkeeping
  BY DEF IInv
<1>2. /\ pc[t] = "complete"
      /\ pc' = [pc EXCEPT ![t] = IF closing[t] THEN "close" ELSE "idle"]
      /\ completed' = [completed EXCEPT ![SlotOf(ticket[t])] = 1]
      /\ \A u \in Loggers \ {t} : todo'[u] = todo[u]
      /\ UNCHANGED <<available, a_next, a_serve, issued, served, buf, writing,
                     has_file, file, closing, ticket, serving, count, number>>
  BY <1>1 DEF Complete, EndMessage, Goto, tfVars, fileVars, LogTypes
<1>3. pc'[t] \in {"close", "idle"} /\ \A u \in Loggers \ {t} : pc'[u] = pc[u]
  BY <1>1, <1>2 DEF LogTypes
<1>4. /\ Reserving' = Reserving /\ Posting' = Posting /\ t \in Formatting
      /\ Formatting' = Formatting \ {t} /\ DiskWriters' = DiskWriters
  BY <1>2, <1>3 DEF Reserving, Posting, Formatting, DiskWriters
<1> DEFINE s == SlotOf(number[t])
<1>5. s \in Slots /\ SlotOf(ticket[t]) = s
  BY <1>4, FormatterSlot
<1>6. completed'[s] = 1 /\ \A i \in Slots \ {s} : completed'[i] = completed[i]
  BY <1>1, <1>2, <1>5 DEF LogTypes
<1>7. /\ \A u \in Formatting : u # t => SlotOf(number[u]) \in Slots \ {s}
      /\ \A u \in Loggers : pc[u] = "fwrite" => serving[u] \in Slots \ {s}
  BY <1>1, <1>4, FormatterSlot DEF LogTypes
<1>8. \A u \in Loggers, k \in Nat : Consumed(u, k)' <=> Consumed(u, k)
  BY <1>2, <1>3 DEF Consumed
<1>9. CountersFollow' /\ TicketsAccounted' /\ OneDiskWriter'
  BY <1>1, <1>2, <1>4
  DEF Bookkeeping, CountersFollow, TicketsAccounted, Accounted, OneDiskWriter
<1>10. FormattersOwnTickets'
  <2>1. ASSUME NEW u \in Formatting, u # t
        PROVE  HoldsTicket(u)'
    <3>1. HoldsTicket(u) /\ number[u] \in Nat /\ u \in Loggers
      BY FormatterSlot DEF Formatting
    <3>2. \A v \in Loggers : ~Consumed(v, number[u])'
      BY <1>2, <1>8, <3>1 DEF HoldsTicket, Consumed
    <3>3. completed'[SlotOf(number[u])] = 0 /\ pc'[u] = pc[u] /\ todo'[u] = todo[u]
      BY <1>2, <1>3, <1>6, <1>7, <2>1, <3>1 DEF HoldsTicket
    <3> QED
      BY <1>2, <3>1, <3>2, <3>3 DEF HoldsTicket, SlotOf, Consumed, MessageOf
  <2> QED
    BY <1>1, <1>2, <1>4, <2>1 DEF Bookkeeping, FormattersOwnTickets
<1>11. CompletedHoldMessages'
  <2>1. served .. Len(issued) - 1 \subseteq Nat
    BY Window
  <2>2. /\ number[t] \in served .. Len(issued) - 1 /\ buf[s] = issued[number[t] + 1]
        /\ \A u \in Loggers : ~Consumed(u, number[t])
    BY <1>2, <1>4, FormatterSlot DEF HoldsTicket
  <2> HIDE DEF s
  <2>3. ASSUME NEW i \in Slots \ {s}, completed'[i] = 1
        PROVE  \E k \in served .. Len(issued) - 1 :
                 /\ SlotOf(k) = i /\ buf[i] = issued[k + 1]
                 /\ \A u \in Loggers : ~Consumed(u, k)
    BY <1>1, <1>6, <2>3 DEF Bookkeeping, CompletedHoldMessages
  <2>4. ASSUME NEW i \in Slots, completed'[i] = 1
        PROVE  \E k \in served .. Len(issued) - 1 :
                 /\ SlotOf(k) = i /\ buf[i] = issued[k + 1]
                 /\ \A u \in Loggers : ~Consumed(u, k)
    BY <2>2, <2>3, <2>4 DEF s
  <2> QED
    BY <1>2, <1>8, <2>1, <2>4 DEF CompletedHoldMessages, SlotOf
<1>12. WriterInStep'
  <2> HIDE DEF s
  <2> QED
    BY <1>1, <1>2, <1>3, <1>6, <1>7 DEF Bookkeeping, WriterInStep, SlotOf
<1>13. FileFollows'
  BY <1>1, <1>2, <1>3 DEF Bookkeeping, FileFollows
<1> QED
  BY <1>9, <1>10, <1>11, <1>12, <1>13 DEF Bookkeeping

-------------------------------------------------------------------------------
(* Steps of the thread that writes to disk *)

(* What a step of the writer needs to leave alone for the threads that     *)
(* format: their slots, and the numbers it has gone through.               *)
LEMMA FormattersFrame ==
  ASSUME IInv, Formatting' = Formatting,
         \A u \in Formatting :
           /\ pc'[u] = pc[u] /\ completed'[SlotOf(number[u])] = 0
           /\ number[u] \in served' .. Len(issued) - 1
           /\ \A v \in Loggers : ~Consumed(v, number[u])',
         UNCHANGED <<issued, buf, ticket, number, todo, closing>>
  PROVE  FormattersOwnTickets'
<1>1. \A u \in Formatting : HoldsTicket(u) /\ u \in Loggers
  BY FormatterSlot DEF Formatting
<1>2. ASSUME NEW u \in Formatting
      PROVE  HoldsTicket(u)'
  BY <1>1 DEF HoldsTicket, SlotOf, Consumed, MessageOf
<1> QED
  BY <1>2 DEF IInv, Bookkeeping, FormattersOwnTickets

(* The exchange of a_writing_to_disk: nobody else writes.                  *)
LEMMA OwnDiskBooks ==
  ASSUME IInv, NEW t \in Loggers, OwnDisk(t)
  PROVE  Bookkeeping'
<1>1. LogTypes /\ Bookkeeping
  BY DEF IInv
<1>2. /\ pc[t] = "trydisk" /\ pc' = [pc EXCEPT ![t] = "serve"]
      /\ writing = 0 /\ writing' = 1
      /\ UNCHANGED <<available, a_next, a_serve, issued, served, buf, completed,
                     has_file, file, todo, closing, ticket, serving, count, number>>
  BY DEF OwnDisk, DiskFree, Goto, tfVars, msgVars, fileVars, locVars
<1>3. pc'[t] = "serve" /\ \A u \in Loggers \ {t} : pc'[u] = pc[u]
  BY <1>1, <1>2 DEF LogTypes
<1>4. /\ Reserving' = Reserving /\ Posting' = Posting
      /\ Formatting' = Formatting /\ DiskWriters' = DiskWriters \cup {t}
  BY <1>2, <1>3 DEF Reserving, Posting, Formatting, DiskWriters
<1>5. DiskWriters = {}
  BY <1>1, <1>2 DEF Bookkeeping, OneDiskWriter
<1>6. \A u \in Loggers, k \in Nat : Consumed(u, k)' <=> Consumed(u, k)
  BY <1>2, <1>3 DEF Consumed
<1>7. CountersFollow' /\ TicketsAccounted' /\ OneDiskWriter'
  BY <1>1, <1>2, <1>4, <1>5
  DEF Bookkeeping, CountersFollow, TicketsAccounted, Accounted, OneDiskWriter
<1>8. FormattersOwnTickets'
  <2>1. \A u \in Formatting : pc'[u] = pc[u]
    BY <1>2, <1>3 DEF Formatting
  <2>2. ASSUME NEW u \in Formatting
        PROVE  \A v \in Loggers : ~Consumed(v, number[u])'
    BY <1>2, <1>6, FormatterSlot DEF HoldsTicket, Consumed
  <2> QED
    BY <1>2, <1>4, <2>1, <2>2, FormatterSlot, FormattersFrame DEF HoldsTicket
<1>9. CompletedHoldMessages'
  <2>1. served .. Len(issued) - 1 \subseteq Nat
    BY Window
  <2> QED
    BY <1>1, <1>2, <1>6, <2>1 DEF Bookkeeping, CompletedHoldMessages, SlotOf
<1>10. WriterInStep' /\ FileFollows'
  BY <1>1, <1>2, <1>3 DEF Bookkeeping, WriterInStep, FileFollows, SlotOf
<1> QED
  BY <1>7, <1>8, <1>9, <1>10 DEF Bookkeeping

(* The writer starts at the first ticket that has not been served.         *)
LEMMA LoadServeBooks ==
  ASSUME IInv, NEW t \in Loggers, LoadServe(t)
  PROVE  Bookkeeping'
<1>1. LogTypes /\ Bookkeeping
  BY DEF IInv
<1>2. /\ pc[t] = "serve" /\ pc' = [pc EXCEPT ![t] = "consume"]
      /\ serving' = [serving EXCEPT ![t] = SlotOf(a_serve)]
      /\ count' = [count EXCEPT ![t] = 0]
      /\ UNCHANGED <<available, a_next, a_serve, issued, served, buf, completed, writing,
                     has_file, file, todo, closing, ticket, number>>
  BY DEF LoadServe, Goto, tfVars, msgVars, fileVars
<1>3. /\ pc'[t] = "consume" /\ count'[t] = 0 /\ serving'[t] = SlotOf(served)
      /\ \A u \in Loggers \ {t} : pc'[u] = pc[u] /\ count'[u] = count[u]
                                   /\ serving'[u] = serving[u]
  BY <1>1, <1>2, SlotOfTicket DEF LogTypes, Bookkeeping, CountersFollow
<1>4. /\ Reserving' = Reserving /\ Posting' = Posting /\ t \in DiskWriters
      /\ Formatting' = Formatting /\ DiskWriters' = DiskWriters
  BY <1>2, <1>3 DEF Reserving, Posting, Formatting, DiskWriters
<1>5. \A u \in Loggers : pc[u] \notin {"consume", "fwrite", "post"}
  BY <1>1, <1>2, <1>4 DEF Bookkeeping, OneDiskWriter, DiskWriters
<1>6. served \in Nat /\ Len(issued) \in Nat /\ served <= Len(issued) /\ Posting = {}
  BY <1>5, Window DEF Posting
<1>7. \A u \in Loggers, k \in served .. Len(issued) - 1 : ~Consumed(u, k)'
  BY <1>2, <1>3, <1>5, <1>6 DEF Consumed
<1>8. CountersFollow' /\ TicketsAccounted' /\ OneDiskWriter'
  BY <1>1, <1>2, <1>4, <1>6
  DEF Bookkeeping, CountersFollow, TicketsAccounted, Accounted, OneDiskWriter
<1>9. FormattersOwnTickets'
  <2>1. \A u \in Formatting : pc'[u] = pc[u]
    BY <1>2, <1>3 DEF Formatting
  <2>2. ASSUME NEW u \in Formatting
        PROVE  \A v \in Loggers : ~Consumed(v, number[u])'
    BY <1>2, <1>7, FormatterSlot DEF Consumed
  <2> QED
    BY <1>2, <1>4, <2>1, <2>2, FormatterSlot, FormattersFrame DEF HoldsTicket
<1>10. CompletedHoldMessages'
  BY <1>1, <1>2, <1>7 DEF Bookkeeping, CompletedHoldMessages, SlotOf
<1>11. WriterInStep'
  BY <1>1, <1>2, <1>3, <1>5, <1>6 DEF Bookkeeping, WriterInStep, SlotOf
<1>12. FileFollows'
  BY <1>1, <1>2, <1>3, <1>5, <1>6 DEF Bookkeeping, FileFollows
<1> QED
  BY <1>8, <1>9, <1>10, <1>11, <1>12 DEF Bookkeeping

(* A completed slot is taken: it is that of the next ticket to be written, *)
(* which is out.                                                           *)
LEMMA ConsumeBooks ==
  ASSUME IInv, NEW t \in Loggers, Consume(t)
  PROVE  Bookkeeping'
<1>1. LogTypes /\ Bookkeeping
  BY DEF IInv
<1> DEFINE s == serving[t]
           n == served + count[t]
<1>2. /\ pc[t] = "consume" /\ pc' = [pc EXCEPT ![t] = "fwrite"]
      /\ completed[s] = 1 /\ completed' = [completed EXCEPT ![s] = 0]
      /\ UNCHANGED <<available, a_next, a_serve, issued, served, buf, writing,
                     has_file, file, todo, closing, ticket, serving, count, number>>
  BY DEF Consume, SlotReady, SlotTaken, Goto, tfVars, fileVars, locVars
<1>3. pc'[t] = "fwrite" /\ \A u \in Loggers \ {t} : pc'[u] = pc[u]
  BY <1>1, <1>2 DEF LogTypes
<1>4. /\ Reserving' = Reserving /\ Posting' = Posting /\ t \in DiskWriters
      /\ Formatting' = Formatting /\ DiskWriters' = DiskWriters
  BY <1>2, <1>3 DEF Reserving, Posting, Formatting, DiskWriters
<1>5. /\ s \in Slots /\ n \in Nat /\ n >= served /\ s = SlotOf(n) /\ n <= Len(issued)
  BY <1>1, <1>2 DEF LogTypes, Bookkeeping, WriterInStep
<1>6. n \in served .. Len(issued) - 1 /\ buf[s] = issued[n + 1]
  <2>1. PICK k \in served .. Len(issued) - 1 :
          SlotOf(k) = s /\ buf[s] = issued[k + 1] /\ ~Consumed(t, k)
    BY <1>1, <1>2, <1>5 DEF Bookkeeping, CompletedHoldMessages
  <2>2. k >= n
    BY <1>2, <1>5, <2>1, Window DEF Consumed
  <2>3. k \in Nat /\ k - n < MaxMessages /\ n - k < MaxMessages
    BY <1>5, <2>2, Window, Sizes
  <2>4. k = n
    <3> HIDE DEF n, s
    <3> QED
      BY <1>5, <2>1, <2>3, SlotsDistinct
  <2> QED
    BY <2>1, <2>4
<1>7. completed'[s] = 0 /\ \A i \in Slots \ {s} : completed'[i] = completed[i]
  BY <1>1, <1>2, <1>5 DEF LogTypes
<1>8. \A u \in Loggers, k \in Nat : k # n => (Consumed(u, k)' <=> Consumed(u, k))
  <2>1. \A k \in Nat : k # n => (k < n <=> k <= n)
    BY <1>5
  <2> QED
    BY <1>2, <1>3, <2>1 DEF Consumed
<1>9. \A u \in DiskWriters : u = t
  BY <1>1, <1>4 DEF Bookkeeping, OneDiskWriter
<1>10. CountersFollow' /\ TicketsAccounted' /\ OneDiskWriter'
  BY <1>1, <1>2, <1>4
  DEF Bookkeeping, CountersFollow, TicketsAccounted, Accounted, OneDiskWriter
<1> HIDE DEF s, n
<1>11. FormattersOwnTickets'
  <2>1. \A u \in Formatting : pc'[u] = pc[u]
    BY <1>2, <1>3 DEF Formatting
  <2>2. ASSUME NEW u \in Formatting
        PROVE  completed'[SlotOf(number[u])] = 0 /\ number[u] # n
    BY <1>2, <1>5, <1>7, FormatterSlot DEF HoldsTicket
  <2>3. ASSUME NEW u \in Formatting
        PROVE  \A v \in Loggers : ~Consumed(v, number[u])'
    BY <1>2, <1>8, <2>2, FormatterSlot DEF HoldsTicket, Consumed
  <2> QED
    BY <1>2, <1>4, <2>1, <2>2, <2>3, FormatterSlot, FormattersFrame DEF HoldsTicket
<1>12. CompletedHoldMessages'
  <2>1. served .. Len(issued) - 1 \subseteq Nat
    BY Window
  <2>2. \A i \in Slots : completed'[i] = 1 => i # s /\ completed[i] = 1
    BY <1>7
  <2>3. \A k \in served .. Len(issued) - 1 : SlotOf(k) # s => k # n
    BY <1>5
  <2> QED
    BY <1>1, <1>2, <1>8, <2>1, <2>2, <2>3 DEF Bookkeeping, CompletedHoldMessages, SlotOf
<1>13. WriterInStep'
  <2>1. \A u \in Loggers \ {t} : pc[u] \notin {"consume", "fwrite", "post"}
    BY <1>9 DEF DiskWriters
  <2>2. \A u \in Loggers \ {t} : count[u] = 0
    BY <1>1, <2>1 DEF Bookkeeping, WriterInStep
  <2>3. n < Len(issued)
    BY <1>5, <1>6, Window
  <2> QED
    BY <1>2, <1>3, <1>5, <1>6, <1>7, <2>1, <2>2, <2>3 DEF WriterInStep, SlotOf, n, s
<1>14. FileFollows'
  BY <1>1, <1>2, <1>3 DEF Bookkeeping, FileFollows
<1> QED
  BY <1>10, <1>11, <1>12, <1>13, <1>14 DEF Bookkeeping

(* fwrite: the message of the next ticket is appended to the file.         *)
LEMMA WriteFileBooks ==
  ASSUME IInv, NEW t \in Loggers, WriteFile(t)
  PROVE  Bookkeeping'
<1>1. LogTypes /\ Bookkeeping
  BY DEF IInv
<1> DEFINE n == served + count[t]
<1>2. /\ pc[t] = "fwrite" /\ pc' = [pc EXCEPT ![t] = "consume"]
      /\ file' = IF has_file THEN Append(file, buf[serving[t]]) ELSE file
      /\ serving' = [serving EXCEPT ![t] = SlotOf(serving[t] + 1)]
      /\ count' = [count EXCEPT ![t] = count[t] + 1]
      /\ UNCHANGED <<available, a_next, a_serve, issued, served, buf, completed, writing,
                     has_file, todo, closing, ticket, number>>
  BY DEF WriteFile, Goto, tfVars, msgVars
<1>3. /\ pc'[t] = "consume" /\ count'[t] = count[t] + 1
      /\ serving'[t] = SlotOf(serving[t] + 1)
      /\ \A u \in Loggers \ {t} : pc'[u] = pc[u] /\ count'[u] = count[u]
                                   /\ serving'[u] = serving[u]
  BY <1>1, <1>2 DEF LogTypes
<1>4. /\ Reserving' = Reserving /\ Posting' = Posting /\ t \in DiskWriters
      /\ Formatting' = Formatting /\ DiskWriters' = DiskWriters
  BY <1>2, <1>3 DEF Reserving, Posting, Formatting, DiskWriters
<1>5. /\ served \in Nat /\ count[t] \in Nat /\ n \in Nat /\ Len(issued) \in Nat
      /\ n < Len(issued) /\ serving[t] = SlotOf(n) /\ buf[serving[t]] = issued[n + 1]
  BY <1>1, <1>2 DEF LogTypes, Bookkeeping, WriterInStep
<1>6. served + count'[t] = n + 1 /\ serving'[t] = SlotOf(n + 1)
  <2>1. served + count'[t] = n + 1
    BY <1>3, <1>5
  <2>2. serving'[t] = SlotOf(SlotOf(n) + 1)
    BY <1>3, <1>5
  <2> HIDE DEF n
  <2> QED
    BY <1>5, <2>1, <2>2, SlotStep
<1>7. \A u \in DiskWriters : u = t
  BY <1>1, <1>4 DEF Bookkeeping, OneDiskWriter
<1>8. \A u \in Loggers \ {t} : pc[u] \notin {"consume", "fwrite", "post"} /\ count[u] = 0
  BY <1>1, <1>7 DEF DiskWriters, Bookkeeping, WriterInStep
<1>9. \A u \in Loggers, k \in Nat : Consumed(u, k)' <=> Consumed(u, k)
  <2>1. \A k \in Nat : k < n + 1 <=> k <= n
    BY <1>5
  <2> QED
    BY <1>2, <1>3, <1>6, <1>8, <2>1 DEF Consumed
<1>10. CountersFollow' /\ TicketsAccounted' /\ OneDiskWriter'
  <2>1. Posting = {}
    BY <1>2, <1>8 DEF Posting
  <2> QED
    BY <1>1, <1>2, <1>4, <2>1
    DEF Bookkeeping, CountersFollow, TicketsAccounted, Accounted, OneDiskWriter
<1>11. FormattersOwnTickets'
  <2>1. \A u \in Formatting : pc'[u] = pc[u]
    BY <1>2, <1>3 DEF Formatting
  <2>2. ASSUME NEW u \in Formatting
        PROVE  \A v \in Loggers : ~Consumed(v, number[u])'
    BY <1>2, <1>9, FormatterSlot DEF HoldsTicket, Consumed
  <2> QED
    BY <1>2, <1>4, <2>1, <2>2, FormatterSlot, FormattersFrame DEF HoldsTicket
<1>12. CompletedHoldMessages'
  <2>1. served .. Len(issued) - 1 \subseteq Nat
    BY Window
  <2> QED
    BY <1>1, <1>2, <1>9, <2>1 DEF Bookkeeping, CompletedHoldMessages, SlotOf
<1>13. WriterInStep'
  <2>1. n + 1 <= Len(issued)
    BY <1>5
  <2> HIDE DEF n
  <2> QED
    BY <1>2, <1>3, <1>6, <1>8, <2>1 DEF WriterInStep, SlotOf
<1>14. FileFollows'
  <2> SUFFICES ASSUME has_file
               PROVE  FileFollows'
    BY <1>1, <1>2 DEF FileFollows, Bookkeeping
  <2>1. /\ file \in Seq(Messages) /\ Len(file) = n
        /\ \A k \in 1 .. Len(file) : k <= Len(issued) /\ file[k] = issued[k]
    BY <1>1, <1>2 DEF LogTypes, Bookkeeping, FileFollows
  <2>2. /\ Len(file') = n + 1 /\ file'[n + 1] = issued[n + 1]
        /\ \A k \in 1 .. n : file'[k] = file[k]
    <3>1. file' = Append(file, issued[n + 1]) /\ issued[n + 1] \in Messages
      BY <1>1, <1>2, <1>5 DEF LogTypes
    <3> HIDE DEF n
    <3> QED
      BY <2>1, <3>1
  <2>3. \A k \in 1 .. Len(file') : k <= Len(issued) /\ file'[k] = issued[k]
    <3>1. \A k \in 1 .. n + 1 : k \in 1 .. n \/ k = n + 1
      BY <1>5
    <3>2. n + 1 <= Len(issued)
      BY <1>5
    <3> HIDE DEF n
    <3> QED
      BY <2>1, <2>2, <3>1, <3>2
  <2>4. \A u \in Loggers : pc'[u] \in {"consume", "fwrite"} =>
          Len(file') = served + count'[u]
    BY <1>3, <1>6, <1>8, <2>2
  <2> QED
    BY <1>2, <1>3, <2>3, <2>4 DEF FileFollows
<1> QED
  BY <1>10, <1>11, <1>12, <1>13, <1>14 DEF Bookkeeping

(* a_serve: the tickets gone through are served, but not yet available.    *)
LEMMA ReturnTicketsBooks ==
  ASSUME IInv, NEW t \in Loggers, ReturnTickets(t)
  PROVE  Bookkeeping'
<1>1. LogTypes /\ Bookkeeping
  BY DEF IInv
<1> DEFINE n == served + count[t]
<1>2. /\ pc[t] = "consume" /\ pc' = [pc EXCEPT ![t] = "post"]
      /\ a_serve' = (a_serve + count[t]) % CounterMod /\ served' = n
      /\ UNCHANGED <<available, a_next, issued, buf, completed, writing, has_file, file,
                     todo, closing, ticket, serving, count, number>>
  BY DEF ReturnTickets, Served, Goto, msgVars, fileVars, locVars
<1>3. pc'[t] = "post" /\ \A u \in Loggers \ {t} : pc'[u] = pc[u]
  BY <1>1, <1>2 DEF LogTypes
<1>4. /\ Reserving' = Reserving /\ t \in DiskWriters
      /\ Formatting' = Formatting /\ DiskWriters' = DiskWriters
  BY <1>2, <1>3 DEF Reserving, Formatting, DiskWriters
<1>5. /\ served \in Nat /\ count[t] \in Nat /\ n \in Nat /\ Len(issued) \in Nat
      /\ n <= Len(issued) /\ n >= served
  BY <1>1, <1>2 DEF LogTypes, Bookkeeping, WriterInStep
<1>6. \A u \in Loggers \ {t} : pc[u] \notin {"consume", "fwrite", "post"} /\ count[u] = 0
  BY <1>1, <1>4 DEF Bookkeeping, OneDiskWriter, DiskWriters, WriterInStep
<1>7. Posting = {} /\ Posting' = {t}
  BY <1>2, <1>3, <1>6 DEF Posting
<1>8. /\ \A k \in Nat : ~Consumed(t, k) => k >= n
      /\ \A u \in Loggers, k \in Nat : ~Consumed(u, k)'
  BY <1>2, <1>3, <1>5, <1>6 DEF Consumed
<1>9. CountersFollow' /\ OneDiskWriter'
  <2>1. ((served % CounterMod) + count[t]) % CounterMod = n % CounterMod
    BY <1>5, CounterStep
  <2>2. a_serve' = n % CounterMod
    BY <1>1, <1>2, <2>1 DEF Bookkeeping, CountersFollow
  <2> HIDE DEF n
  <2> QED
    BY <1>1, <1>2, <1>4, <1>5, <2>2 DEF Bookkeeping, CountersFollow, OneDiskWriter
<1>10. TicketsAccounted'
  <2>1. Accounted(0)
    BY <1>1, <1>7 DEF Bookkeeping, TicketsAccounted
  <2>2. available \in Nat /\ Cardinality(Reserving) \in Nat
    BY <1>1, ReservingFinite DEF LogTypes
  <2>3. served' = served + count[t] /\ MaxMessages \in Nat
    BY <1>2, Sizes
  <2>4. available + Cardinality(Reserving) + (Len(issued) - served') + count[t]
          = MaxMessages
    <3> DEFINE c == Cardinality(Reserving)
               l == Len(issued)
               k == count[t]
    <3>1. available + c + (l - served) + 0 = MaxMessages
      BY <2>1 DEF Accounted
    <3>2. c \in Nat /\ l \in Nat /\ k \in Nat /\ served \in Nat /\ served' = served + k
      BY <1>5, <2>2, <2>3
    <3> HIDE DEF c, l, k
    <3>3. available + c + (l - served') + k = MaxMessages
      BY <2>2, <3>1, <3>2
    <3> QED
      BY <3>3 DEF c, l, k
  <2> QED
    BY <1>2, <1>4, <1>7, <2>4 DEF TicketsAccounted, Accounted
<1>11. FormattersOwnTickets'
  <2>1. \A u \in Formatting : pc'[u] = pc[u]
    BY <1>2, <1>3 DEF Formatting
  <2>2. ASSUME NEW u \in Formatting
        PROVE  \A v \in Loggers : ~Consumed(v, number[u])'
    BY <1>2, <1>8, FormatterSlot DEF Consumed
  <2>3. ASSUME NEW u \in Formatting
        PROVE  number[u] \in served' .. Len(issued) - 1
    <3>1. HoldsTicket(u) /\ number[u] \in Nat /\ number[u] \in served .. Len(issued) - 1
      BY FormatterSlot
    <3>2. number[u] >= n
      BY <1>8, <3>1 DEF HoldsTicket
    <3> QED
      BY <1>2, <1>5, <3>1, <3>2
  <2> QED
    BY <1>2, <1>4, <2>1, <2>2, <2>3, FormatterSlot, FormattersFrame DEF HoldsTicket
<1>12. CompletedHoldMessages'
  <2>1. ASSUME NEW i \in Slots, completed[i] = 1
        PROVE  \E k \in served' .. Len(issued) - 1 :
                 /\ SlotOf(k) = i /\ buf[i] = issued[k + 1]
                 /\ \A u \in Loggers : ~Consumed(u, k)'
    <3>1. PICK k \in served .. Len(issued) - 1 :
            SlotOf(k) = i /\ buf[i] = issued[k + 1] /\ ~Consumed(t, k)
      BY <1>1, <2>1 DEF Bookkeeping, CompletedHoldMessages
    <3>2. k \in Nat /\ k >= n /\ k \in served' .. Len(issued) - 1
      <4>1. k \in Nat /\ k <= Len(issued) - 1
        BY <1>5
      <4>2. k >= n
        BY <1>8, <3>1, <4>1
      <4> QED
        BY <1>2, <1>5, <4>1, <4>2
    <3> QED
      BY <1>8, <3>1, <3>2
  <2> QED
    BY <1>2, <2>1 DEF CompletedHoldMessages, SlotOf
<1>13. WriterInStep'
  BY <1>1, <1>2, <1>3, <1>6 DEF Bookkeeping, WriterInStep, SlotOf
<1>14. FileFollows'
  BY <1>1, <1>2, <1>3, <1>6 DEF Bookkeeping, FileFollows
<1> QED
  BY <1>9, <1>10, <1>11, <1>12, <1>13, <1>14 DEF Bookkeeping

(* One sem_post: a served ticket is available again.                       *)
LEMMA PostTicketBooks ==
  ASSUME IInv, NEW t \in Loggers, PostTicket(t)
  PROVE  Bookkeeping'
<1>1. LogTypes /\ Bookkeeping
  BY DEF IInv
<1>2. /\ pc[t] = "post" /\ count[t] > 0 /\ available' = available + 1
      /\ count' = [count EXCEPT ![t] = count[t] - 1]
      /\ UNCHANGED <<a_next, a_serve, issued, served, buf, completed, writing, has_file,
                     file, pc, todo, closing, ticket, serving, number>>
  BY DEF PostTicket, PostsLeft, msgVars, fileVars
<1>3. count'[t] = count[t] - 1 /\ \A u \in Loggers \ {t} : count'[u] = count[u]
  BY <1>1, <1>2 DEF LogTypes
<1>4. /\ Reserving' = Reserving /\ Posting' = Posting /\ t \in DiskWriters
      /\ Formatting' = Formatting /\ DiskWriters' = DiskWriters
  BY <1>2 DEF Reserving, Posting, Formatting, DiskWriters
<1>5. Posting = {t} /\ \A u \in Loggers : pc[u] \notin {"consume", "fwrite"}
  BY <1>1, <1>2, <1>4 DEF Bookkeeping, OneDiskWriter, DiskWriters, Posting
<1>6. \A u \in Loggers, k \in Nat : ~Consumed(u, k)'
  BY <1>2, <1>5 DEF Consumed
<1>7. CountersFollow' /\ OneDiskWriter'
  BY <1>1, <1>2, <1>4 DEF Bookkeeping, CountersFollow, OneDiskWriter
<1>8. TicketsAccounted'
  <2>1. Accounted(count[t])
    BY <1>1, <1>5 DEF Bookkeeping, TicketsAccounted
  <2>2. available \in Nat /\ Cardinality(Reserving) \in Nat /\ served \in Nat
        /\ Len(issued) \in Nat /\ count[t] \in Nat
    BY <1>1, ReservingFinite DEF LogTypes
  <2>3. available' + Cardinality(Reserving) + (Len(issued) - served) + count'[t]
          = MaxMessages
    BY <1>2, <1>3, <2>1, <2>2 DEF Accounted
  <2> QED
    BY <1>2, <1>4, <1>5, <2>3 DEF TicketsAccounted, Accounted
<1>9. FormattersOwnTickets'
  <2>1. ASSUME NEW u \in Formatting
        PROVE  \A v \in Loggers : ~Consumed(v, number[u])'
    BY <1>2, <1>6, FormatterSlot DEF Consumed
  <2> QED
    BY <1>2, <1>4, <2>1, FormatterSlot, FormattersFrame DEF HoldsTicket
<1>10. CompletedHoldMessages'
  <2>1. served .. Len(issued) - 1 \subseteq Nat
    BY Window
  <2> QED
    BY <1>1, <1>2, <1>6, <2>1 DEF Bookkeeping, CompletedHoldMessages, SlotOf
<1>11. WriterInStep' /\ FileFollows'
  BY <1>1, <1>2, <1>3, <1>5 DEF Bookkeeping, WriterInStep, FileFollows, SlotOf
<1> QED
  BY <1>7, <1>8, <1>9, <1>10, <1>11 DEF Bookkeeping

(* The disk is released when every ticket has been posted.                 *)
LEMMA ReleaseDiskBooks ==
  ASSUME IInv, NEW t \in Loggers, ReleaseDisk(t)
  PROVE  Bookkeeping'
<1>1. LogTypes /\ Bookkeeping
  BY DEF IInv
<1>2. /\ pc[t] = "post" /\ ~(count[t] > 0) /\ writing' = 0
      /\ pc' = [pc EXCEPT ![t] = AfterDisk(t)]
      /\ UNCHANGED <<available, a_next, a_serve, issued, served, buf, completed, has_file,
                     file, todo, closing, ticket, serving, count, number>>
  BY DEF ReleaseDisk, PostsLeft, Goto, tfVars, msgVars, fileVars, locVars
<1>3. /\ pc'[t] \in {"check", "open"} /\ count[t] = 0
      /\ \A u \in Loggers \ {t} : pc'[u] = pc[u]
  BY <1>1, <1>2 DEF LogTypes, AfterDisk
<1>4. \A u \in Loggers : pc'[u] \notin {"serve", "consume", "fwrite", "post"}
  BY <1>1, <1>2, <1>3 DEF Bookkeeping, OneDiskWriter, DiskWriters
<1>5. \A u \in Loggers : pc[u] \notin {"consume", "fwrite"}
  BY <1>2, <1>3, <1>4
<1>6. /\ Reserving' = Reserving /\ Formatting' = Formatting
      /\ Posting = {t} /\ Posting' = {} /\ DiskWriters' = {}
  BY <1>2, <1>3, <1>4 DEF Reserving, Posting, Formatting, DiskWriters
<1>7. \A u \in Loggers, k \in Nat : ~Consumed(u, k)'
  BY <1>4 DEF Consumed
<1>8. CountersFollow' /\ TicketsAccounted' /\ OneDiskWriter'
  BY <1>1, <1>2, <1>3, <1>6
  DEF Bookkeeping, CountersFollow, TicketsAccounted, Accounted, OneDiskWriter
<1>9. FormattersOwnTickets'
  <2>1. \A u \in Formatting : pc'[u] = pc[u]
    BY <1>2, <1>3 DEF Formatting
  <2>2. ASSUME NEW u \in Formatting
        PROVE  \A v \in Loggers : ~Consumed(v, number[u])'
    BY <1>2, <1>7, FormatterSlot DEF Consumed
  <2> QED
    BY <1>2, <1>6, <2>1, <2>2, FormatterSlot, FormattersFrame DEF HoldsTicket
<1>10. CompletedHoldMessages'
  <2>1. served .. Len(issued) - 1 \subseteq Nat
    BY Window
  <2> QED
    BY <1>1, <1>2, <1>7, <2>1 DEF Bookkeeping, CompletedHoldMessages, SlotOf
<1>11. WriterInStep' /\ FileFollows'
  BY <1>1, <1>2, <1>3, <1>4, <1>5 DEF Bookkeeping, WriterInStep, FileFollows, SlotOf
<1> QED
  BY <1>8, <1>9, <1>10, <1>11 DEF Bookkeeping

-------------------------------------------------------------------------------
(* The shutdown *)

Exiting == {"close", "check", "compare", "destroy", "exit"}

(* What every step of a thread does with the flags of the shutdown: only   *)
(* the thread that shuts down gets to the places of LogShutdown, only      *)
(* CloseFile closes the file and only DestroyFactory the semaphore.        *)
Shape(t) ==
  /\ UNCHANGED <<closing, fatal, has_file>>
  /\ \A u \in Loggers \ {t} : pc'[u] = pc[u] /\ todo'[u] = todo[u]
  /\ pc'[t] \in Exiting => closing[t]
  /\ pc[t] = "idle" => todo[t] > 0
  /\ pc'[t] # "idle" => closing[t] \/ todo'[t] > 0
  /\ pc[t] # "exit" /\ (pc[t] = "destroy" => DestroyFactory(t))
  /\ pc'[t] = "compare" => LoadFirst(t)
  /\ UNCHANGED file_open \/ CloseFile(t)
  /\ UNCHANGED factory \/ DestroyFactory(t)

LEMMA StepShape ==
  ASSUME IInv, NEW t \in Loggers, Step(t)
  PROVE  Shape(t)
<1>1. LogTypes /\ BusyHasWork /\ (pc[t] \in Exiting => closing[t])
  BY DEF IInv, OrderlyExit, Exiting
<1> USE DEF LogTypes, BusyHasWork, Goto, Shape, Exiting, tfVars, msgVars, fileVars, locVars
<1>2. CASE StartMessage(t)
  BY <1>1, <1>2 DEF StartMessage
<1>3. CASE CheckOpen(t)
  BY <1>1, <1>3 DEF CheckOpen
<1>4. CASE DropMessage(t)
  BY <1>1, <1>4 DEF DropMessage, EndMessage
<1>5. CASE Reserve(t)
  BY <1>1, <1>5 DEF Reserve
<1>6. CASE ReserveFails(t)
  BY <1>1, <1>6 DEF ReserveFails
<1>7. CASE TakeTicket(t)
  BY <1>1, <1>7 DEF TakeTicket
<1>8. CASE Format(t)
  BY <1>1, <1>8 DEF Format
<1>9. CASE Complete(t)
  BY <1>1, <1>9 DEF Complete, EndMessage
<1>10. CASE DiskBusy(t)
  BY <1>1, <1>10 DEF DiskBusy, AfterDisk
<1>11. CASE OwnDisk(t)
  BY <1>1, <1>11 DEF OwnDisk
<1>12. CASE LoadServe(t)
  BY <1>1, <1>12 DEF LoadServe
<1>13. CASE Consume(t)
  BY <1>1, <1>13 DEF Consume
<1>14. CASE WriteFile(t)
  BY <1>1, <1>14 DEF WriteFile
<1>15. CASE ReturnTickets(t)
  BY <1>1, <1>15 DEF ReturnTickets
<1>16. CASE PostTicket(t)
  BY <1>1, <1>16 DEF PostTicket
<1>17. CASE ReleaseDisk(t)
  BY <1>1, <1>17 DEF ReleaseDisk, AfterDisk
<1>18. CASE CloseFactory(t)
  BY <1>1, <1>18 DEF CloseFactory
<1>19. CASE LoadFirst(t)
  BY <1>1, <1>19 DEF LoadFirst
<1>20. CASE KeepWriting(t)
  BY <1>1, <1>20 DEF KeepWriting
<1>21. CASE CloseFile(t)
  BY <1>1, <1>21 DEF CloseFile
<1>22. CASE DestroyFactory(t)
  BY <1>1, <1>22 DEF DestroyFactory
<1> QED
  BY <1>2, <1>3, <1>4, <1>5, <1>6, <1>7, <1>8, <1>9, <1>10, <1>11,
     <1>12, <1>13, <1>14, <1>15, <1>16, <1>17, <1>18, <1>19, <1>20,
     <1>21, <1>22 DEF Step

(* Every step of a thread keeps it busy only while it has work.            *)
LEMMA StepBusy ==
  ASSUME IInv, NEW t \in Loggers, Step(t)
  PROVE  BusyHasWork'
  BY StepShape DEF Shape, IInv, BusyHasWork

(* The shutdown test passes only when every ticket has been served.        *)
LEMMA AllServedExactly ==
  ASSUME IInv, a_serve = a_next
  PROVE  served = Len(issued)
<1>1. served % CounterMod = Len(issued) % CounterMod
  BY DEF IInv, Bookkeeping, CountersFollow
<1>2. served - Len(issued) < CounterMod /\ Len(issued) - served < CounterMod
  BY Window, Sizes
<1>3. served \in Nat /\ Len(issued) \in Nat /\ CounterMod \in Nat \ {0}
  BY Window, Sizes
<1> DEFINE l == Len(issued)
<1> HIDE DEF l
<1> QED
  BY <1>1, <1>2, <1>3, ModInjective

(* Every step of a thread follows the course of an orderly exit.           *)
LEMMA StepExit ==
  ASSUME IInv, NEW t \in Loggers, Step(t)
  PROVE  OrderlyExit'
<1>1. LogTypes /\ OrderlyExit /\ Shape(t) /\ Main \in Loggers
  BY StepShape, LogThreadAssumption DEF IInv
<1>2. \A u \in Loggers : pc'[u] \in Exiting => closing'[u]
  BY <1>1 DEF OrderlyExit, Shape, Exiting
<1>3. ASSUME ~fatal, ~closing[Main]
      PROVE  OrderlyExit'
  <2>1. \A u \in Loggers : ~closing[u]
    BY <1>1, <1>3 DEF OrderlyExit
  <2>2. pc[t] \notin Exiting
    BY <1>1, <2>1 DEF OrderlyExit, Exiting
  <2>3. UNCHANGED <<file_open, factory>>
    BY <1>1, <2>2 DEF Shape, CloseFile, DestroyFactory, Exiting
  <2>4. pc'[Main] # "compare" /\ file_open' = has_file' /\ factory'
    BY <1>1, <1>2, <1>3, <2>3 DEF OrderlyExit, Shape, Exiting
  <2> QED
    BY <1>1, <1>2, <1>3, <2>1, <2>4 DEF OrderlyExit, Shape, Exiting, LogTypes
<1>4. ASSUME ~fatal, closing[Main]
      PROVE  OrderlyExit'
  <2>1. t = Main
    BY <1>1, <1>4 DEF OrderlyExit, Shape
  <2>2. \A u \in Loggers \ {Main} : ~closing'[u] /\ pc'[u] = "idle" /\ todo'[u] = 0
    BY <1>1, <1>4, <2>1 DEF OrderlyExit, Shape
  <2>3. pc'[Main] = "compare" =>
          seen'[Main] \in {<<"serve", a_serve'>>, <<"next", a_next'>>}
    <3> SUFFICES ASSUME LoadFirst(Main)
                 PROVE  seen'[Main] \in {<<"serve", a_serve'>>, <<"next", a_next'>>}
      BY <1>1, <2>1 DEF Shape
    <3> QED
      BY <1>1 DEF LoadFirst, tfVars, LogTypes
  <2>4. has_file' /\ ~file_open' =>
          pc'[Main] \in {"destroy", "exit"} /\ served' = Len(issued')
    <3>1. CASE CloseFile(Main)
      <4>1. a_serve = a_next
        BY <1>1, <1>4, <3>1 DEF CloseFile, AllServed, Second, OrderlyExit
      <4>2. served = Len(issued)
        BY <4>1, AllServedExactly
      <4> QED
        BY <1>1, <3>1, <4>2 DEF CloseFile, Goto, tfVars, LogTypes
    <3>2. CASE has_file /\ ~file_open
      <4>1. pc[Main] = "destroy" /\ served = Len(issued)
        BY <1>1, <1>4, <2>1, <3>2 DEF OrderlyExit, Shape
      <4>2. DestroyFactory(Main)
        BY <1>1, <2>1, <4>1 DEF Shape
      <4> QED
        BY <1>1, <4>1, <4>2 DEF DestroyFactory, Goto, LogTypes
    <3> QED
      BY <1>1, <2>1, <3>1, <3>2 DEF Shape
  <2>5. ~factory' => pc'[Main] = "exit"
    <3>1. factory
      BY <1>1, <1>4, <2>1 DEF OrderlyExit, Shape
    <3> QED
      BY <1>1, <2>1, <3>1 DEF Shape, DestroyFactory, Goto, LogTypes
  <2> QED
    BY <1>1, <1>2, <1>4, <2>2, <2>3, <2>4, <2>5 DEF OrderlyExit, Shape, Exiting
<1>5. ASSUME fatal
      PROVE  OrderlyExit'
  BY <1>1, <1>2, <1>5 DEF OrderlyExit, Shape, Exiting
<1> QED
  BY <1>1, <1>3, <1>4, <1>5 DEF LogTypes

-------------------------------------------------------------------------------
(* The inductive invariant *)

(* LogInit starts with every ticket available and nobody in the books.     *)
LEMMA InitIInv == Init => IInv
<1> SUFFICES ASSUME Init
             PROVE  IInv
  OBVIOUS
<1>1. LogTypes
  BY InitTypes
<1>2. /\ Reserving = {} /\ Posting = {} /\ Formatting = {} /\ DiskWriters = {}
      /\ \A t \in Loggers : pc[t] = "idle" /\ count[t] = 0
      /\ issued = <<>> /\ file = <<>> /\ served = 0 /\ a_next = 0 /\ a_serve = 0
  BY DEF Init, Reserving, Posting, Formatting, DiskWriters
<1>3. CountersFollow
  <2>1. ((CounterMod * 0) + 0) % CounterMod = 0 /\ (CounterMod * 0) + 0 = 0
    BY Sizes, ModUnique
  <2> QED
    BY <1>2, <2>1 DEF CountersFollow
<1>4. TicketsAccounted
  BY <1>2, FS_EmptySet, Sizes DEF Init, TicketsAccounted, Accounted
<1>5. OneDiskWriter /\ FormattersOwnTickets /\ WriterInStep /\ FileFollows
  BY <1>2 DEF OneDiskWriter, FormattersOwnTickets, WriterInStep, FileFollows
<1>6. CompletedHoldMessages
  BY DEF Init, CompletedHoldMessages
<1>7. BusyHasWork /\ OrderlyExit
  BY LogThreadAssumption DEF Init, BusyHasWork, OrderlyExit
<1> QED
  BY <1>1, <1>3, <1>4, <1>5, <1>6, <1>7 DEF IInv, Bookkeeping

(* Every step of a thread keeps the books.                                 *)
LEMMA StepBooks ==
  ASSUME IInv, NEW t \in Loggers, Step(t)
  PROVE  Bookkeeping'
<1>1. LogTypes
  BY DEF IInv
<1>2. \A u \in Loggers \ {t} : todo'[u] = todo[u] /\ closing'[u] = closing[u]
  BY StepShape DEF Shape
<1>3. CASE StartMessage(t)
  <2>1. PICK l \in Outside : pc' = [pc EXCEPT ![t] = l]
    BY <1>1, <1>3 DEF StartMessage, Goto, Outside
  <2> QED
    BY <1>1, <1>2, <1>3, <2>1, OutsideStep
    DEF StartMessage, Outside, tfVars, msgVars, fileVars, locVars
<1>4. CASE CheckOpen(t)
  <2>1. PICK l \in Outside : pc' = [pc EXCEPT ![t] = l]
    BY <1>1, <1>4 DEF CheckOpen, Goto, Outside
  <2> QED
    BY <1>1, <1>2, <1>4, <2>1, OutsideStep
    DEF CheckOpen, Outside, tfVars, msgVars, fileVars, locVars
<1>5. CASE DropMessage(t)
  <2>1. PICK l \in Outside : pc' = [pc EXCEPT ![t] = l]
    BY <1>1, <1>5 DEF DropMessage, EndMessage, Goto, Outside
  <2> QED
    BY <1>1, <1>2, <1>5, <2>1, OutsideStep
    DEF DropMessage, EndMessage, Outside, tfVars, msgVars, fileVars, locVars
<1>6. CASE ReserveFails(t)
  <2>1. PICK l \in Outside : pc' = [pc EXCEPT ![t] = l]
    BY <1>1, <1>6 DEF ReserveFails, Goto, Outside
  <2> QED
    BY <1>1, <1>2, <1>6, <2>1, OutsideStep
    DEF ReserveFails, Outside, tfVars, msgVars, fileVars, locVars
<1>7. CASE DiskBusy(t)
  <2>1. PICK l \in Outside : pc' = [pc EXCEPT ![t] = l]
    BY <1>1, <1>7 DEF DiskBusy, AfterDisk, Goto, Outside
  <2> QED
    BY <1>1, <1>2, <1>7, <2>1, OutsideStep
    DEF DiskBusy, AfterDisk, Outside, tfVars, msgVars, fileVars, locVars
<1>8. CASE CloseFactory(t)
  <2>1. PICK l \in Outside : pc' = [pc EXCEPT ![t] = l]
    BY <1>1, <1>8 DEF CloseFactory, Goto, Outside
  <2> QED
    BY <1>1, <1>2, <1>8, <2>1, OutsideStep
    DEF CloseFactory, Outside, tfVars, msgVars, fileVars, locVars
<1>9. CASE LoadFirst(t)
  <2>1. PICK l \in Outside : pc' = [pc EXCEPT ![t] = l]
    BY <1>1, <1>9 DEF LoadFirst, Goto, Outside
  <2> QED
    BY <1>1, <1>2, <1>9, <2>1, OutsideStep
    DEF LoadFirst, Outside, tfVars, msgVars, fileVars, locVars
<1>10. CASE KeepWriting(t)
  <2>1. PICK l \in Outside : pc' = [pc EXCEPT ![t] = l]
    BY <1>1, <1>10 DEF KeepWriting, Goto, Outside
  <2> QED
    BY <1>1, <1>2, <1>10, <2>1, OutsideStep
    DEF KeepWriting, Outside, tfVars, msgVars, fileVars, locVars
<1>11. CASE CloseFile(t)
  <2>1. PICK l \in Outside : pc' = [pc EXCEPT ![t] = l]
    BY <1>1, <1>11 DEF CloseFile, Goto, Outside
  <2> QED
    BY <1>1, <1>2, <1>11, <2>1, OutsideStep
    DEF CloseFile, Outside, tfVars, msgVars, fileVars, locVars
<1>12. CASE DestroyFactory(t)
  <2>1. PICK l \in Outside : pc' = [pc EXCEPT ![t] = l]
    BY <1>1, <1>12 DEF DestroyFactory, Goto, Outside
  <2> QED
    BY <1>1, <1>2, <1>12, <2>1, OutsideStep
    DEF DestroyFactory, Outside, tfVars, msgVars, fileVars, locVars
<1>13. CASE \/ Reserve(t) \/ TakeTicket(t) \/ Format(t) \/ Complete(t)
  BY <1>13, ReserveBooks, TakeTicketBooks, FormatBooks, CompleteBooks
<1>14. CASE OwnDisk(t) \/ LoadServe(t) \/ Consume(t) \/ WriteFile(t)
  BY <1>14, OwnDiskBooks, LoadServeBooks, ConsumeBooks, WriteFileBooks
<1>15. CASE ReturnTickets(t) \/ PostTicket(t) \/ ReleaseDisk(t)
  BY <1>15, ReturnTicketsBooks, PostTicketBooks, ReleaseDiskBooks
<1> QED
  BY <1>3, <1>4, <1>5, <1>6, <1>7, <1>8, <1>9, <1>10, <1>11, <1>12, <1>13, <1>14, <1>15
  DEF Step

(* LogShutdown at the end of main: the other threads have ended.           *)
LEMMA OrderlyShutdownIInv ==
  ASSUME IInv, OrderlyShutdown
  PROVE  IInv'
<1>1. LogTypes /\ BusyHasWork /\ OrderlyExit /\ Main \in Loggers
  BY LogThreadAssumption DEF IInv
<1>2. /\ \A t \in Loggers : pc[t] = "idle" /\ todo[t] = 0
      /\ ~closing[Main] /\ closing' = [closing EXCEPT ![Main] = TRUE]
      /\ pc' = [pc EXCEPT ![Main] = "open"]
      /\ UNCHANGED <<tfVars, msgVars, writing, fileVars, fatal, todo, ticket,
                     serving, count, seen, number>>
  BY DEF OrderlyShutdown, OthersEnded, Goto
<1>3. /\ pc'[Main] = "open" /\ closing'[Main]
      /\ \A u \in Loggers \ {Main} : pc'[u] = pc[u] /\ closing'[u] = closing[u]
  BY <1>1, <1>2 DEF LogTypes
<1>4. LogTypes'
  BY <1>1, <1>2 DEF LogTypes, tfVars, msgVars, fileVars
<1>5. Bookkeeping'
  <2>1. "open" \in Outside /\ pc[Main] \in Outside
    BY <1>1, <1>2 DEF Outside
  <2> QED
    BY <1>1, <1>2, <1>3, <2>1, OutsideStep DEF tfVars, msgVars, fileVars
<1>6. BusyHasWork'
  BY <1>1, <1>2, <1>3 DEF BusyHasWork
<1>7. OrderlyExit'
  BY <1>1, <1>2, <1>3 DEF OrderlyExit, tfVars, fileVars
<1> QED
  BY <1>4, <1>5, <1>6, <1>7 DEF IInv

(* LogShutdown from FatalCleanupAndExit: the others may be anywhere.       *)
LEMMA FatalShutdownIInv ==
  ASSUME IInv, NEW t \in Loggers, FatalShutdown(t)
  PROVE  IInv'
<1>1. LogTypes /\ BusyHasWork /\ OrderlyExit
  BY DEF IInv
<1>2. /\ pc[t] = "idle" /\ closing' = [closing EXCEPT ![t] = TRUE] /\ fatal' = TRUE
      /\ pc' = [pc EXCEPT ![t] = "open"]
      /\ UNCHANGED <<tfVars, msgVars, writing, fileVars, todo, ticket,
                     serving, count, seen, number>>
  BY DEF FatalShutdown, Goto
<1>3. /\ pc'[t] = "open" /\ closing'[t]
      /\ \A u \in Loggers \ {t} : pc'[u] = pc[u] /\ closing'[u] = closing[u]
  BY <1>1, <1>2 DEF LogTypes
<1>4. LogTypes'
  BY ControlTypes
<1>5. Bookkeeping'
  <2>1. "open" \in Outside /\ pc[t] \in Outside
    BY <1>1, <1>2 DEF Outside
  <2> QED
    BY <1>1, <1>2, <1>3, <2>1, OutsideStep DEF tfVars, msgVars, fileVars
<1>6. BusyHasWork'
  BY <1>1, <1>2, <1>3 DEF BusyHasWork
<1>7. OrderlyExit'
  BY <1>1, <1>2, <1>3 DEF OrderlyExit
<1> QED
  BY <1>4, <1>5, <1>6, <1>7 DEF IInv

(* The invariant is inductive.                                             *)
LEMMA NextIInv == IInv /\ [Next]_vars => IInv'
<1> SUFFICES ASSUME IInv, [Next]_vars
             PROVE  IInv'
  OBVIOUS
<1>1. CASE UNCHANGED vars
  <2> USE DEF IInv, Bookkeeping
  <2>1. /\ UNCHANGED <<a_open, available, a_next, a_serve, factory, issued, served>>
        /\ UNCHANGED <<buf, completed, writing, has_file, file, file_open, fatal, pc>>
        /\ UNCHANGED <<todo, ticket, closing, serving, count, seen, number>>
    BY <1>1 DEF vars, tfVars, msgVars, fileVars, locVars
  <2>2. LogTypes' /\ BusyHasWork' /\ OrderlyExit'
    BY <2>1 DEF LogTypes, BusyHasWork, OrderlyExit
  <2>3. CountersFollow' /\ TicketsAccounted' /\ OneDiskWriter'
    BY <2>1 DEF CountersFollow, TicketsAccounted, Accounted, Reserving, Posting,
       OneDiskWriter, DiskWriters
  <2>4. FormattersOwnTickets' /\ CompletedHoldMessages'
    BY <2>1 DEF FormattersOwnTickets, HoldsTicket, Formatting, MessageOf, Consumed,
       CompletedHoldMessages, SlotOf
  <2>5. WriterInStep' /\ FileFollows'
    BY <2>1 DEF WriterInStep, FileFollows, SlotOf
  <2> QED
    BY <2>2, <2>3, <2>4, <2>5
<1>2. ASSUME NEW t \in Loggers, Step(t)
      PROVE  IInv'
  <2>1. LogTypes'
    BY <1>2, ControlTypes, DataTypes DEF Step
  <2> QED
    BY <1>2, <2>1, StepBusy, StepBooks, StepExit DEF IInv
<1> QED
  <2>1. CASE Exited
    BY <1>1, <2>1 DEF Exited
  <2>2. CASE \E t \in Loggers : Step(t) \/ FatalShutdown(t)
    BY <1>2, <2>2, FatalShutdownIInv
  <2>3. CASE OrderlyShutdown
    BY <2>3, OrderlyShutdownIInv
  <2> QED
    BY <1>1, <2>1, <2>2, <2>3 DEF Next

(* The inductive invariant holds in every reachable state: the counters    *)
(* follow the numbering of the tickets, every ticket is accounted for, a   *)
(* thread that formats has one of its own, and the one writer goes through *)
(* them in their order.                                                    *)
THEOREM Invariance == Spec => []IInv
<1> QED
  BY InitIInv, NextIInv, PTL DEF Spec

-------------------------------------------------------------------------------
(* The properties of the logger *)

(* Type correctness; no more tickets are available, and none more is       *)
(* handed back, than there are slots.                                      *)
THEOREM TypeCorrect == Spec => []TypeOK
<1>1. IInv => TypeOK
  <2> SUFFICES ASSUME IInv
               PROVE  TypeOK
    OBVIOUS
  <2>1. LogTypes /\ available <= MaxMessages
    BY Window DEF IInv
  <2>2. ASSUME NEW t \in Loggers
        PROVE  count[t] <= MaxMessages
    <3>1. count[t] \in Nat /\ MaxMessages \in Nat
      BY <2>1, Sizes DEF LogTypes
    <3>2. CASE pc[t] = "post"
      BY <3>1, <3>2, Window DEF Posting
    <3>3. CASE pc[t] \in {"consume", "fwrite"}
      <4>1. served + count[t] <= Len(issued)
        BY <3>3 DEF IInv, Bookkeeping, WriterInStep
      <4> QED
        BY <3>1, <4>1, Window
    <3>4. CASE pc[t] \notin {"consume", "fwrite", "post"}
      BY <3>1, <3>4 DEF IInv, Bookkeeping, WriterInStep
    <3> QED
      BY <3>2, <3>3, <3>4
  <2> QED
    BY <2>1, <2>2 DEF TypeOK
<1> QED
  BY <1>1, Invariance, PTL

(* No two threads format into one slot, one thread at most writes to disk, *)
(* and it does not read a slot that a thread is formatting: the plain      *)
(* accesses to msg[i].buf never meet.                                      *)
THEOREM SlotsOwned == Spec => []SlotOwnership
<1>1. IInv => SlotOwnership
  <2> SUFFICES ASSUME IInv
               PROVE  SlotOwnership
    OBVIOUS
  <2>1. \A t, u \in DiskWriters : t = u
    BY DEF IInv, Bookkeeping, OneDiskWriter
  <2> QED
    BY <2>1, FormatterSlot DEF SlotOwnership, DiskWriters
<1> QED
  BY <1>1, Invariance, PTL

(* The file holds the messages in the order of their tickets, each once    *)
(* and with no gap, whatever the threads do and however they exit.         *)
THEOREM FileOrdered == Spec => []FileInTicketOrder
<1>1. IInv => FileInTicketOrder
  <2> SUFFICES ASSUME IInv
               PROVE  FileInTicketOrder
    OBVIOUS
  <2>1. Len(file) \in Nat /\ Len(issued) \in Nat
    BY DEF IInv, LogTypes
  <2>2. CASE has_file
    <3>1. \A k \in 1 .. Len(file) : k <= Len(issued) /\ file[k] = issued[k]
      BY <2>2 DEF IInv, Bookkeeping, FileFollows
    <3>2. Len(file) = 0 \/ Len(file) \in 1 .. Len(file)
      BY <2>1
    <3>3. Len(file) <= Len(issued)
      BY <2>1, <3>1, <3>2
    <3> QED
      BY <3>1, <3>3 DEF FileInTicketOrder
  <2>3. CASE ~has_file
    BY <2>1, <2>3 DEF IInv, Bookkeeping, FileFollows, FileInTicketOrder
  <2> QED
    BY <2>2, <2>3
<1> QED
  BY <1>1, Invariance, PTL

(* The assertions of TicketFactoryReturnTickets never fail, also when one  *)
(* counter has wrapped and the other has not.                              *)
THEOREM ReturnAssertions == Spec => []TicketsBounded
<1>1. IInv => TicketsBounded
  <2> SUFFICES ASSUME IInv
               PROVE  TicketsBounded
    OBVIOUS
  <2>1. /\ served \in Nat /\ Len(issued) \in Nat /\ served <= Len(issued)
        /\ Len(issued) - served < CounterMod /\ Len(issued) - served <= MaxMessages
    BY Window, Sizes
  <2>2. Outstanding = Len(issued) - served
    <3> DEFINE l == Len(issued)
    <3>1. a_next = l % CounterMod /\ a_serve = served % CounterMod
      BY DEF IInv, Bookkeeping, CountersFollow
    <3>2. CounterMod \in Nat \ {0} /\ l \in Nat /\ served <= l /\ l - served < CounterMod
      BY <2>1, Sizes
    <3> HIDE DEF l
    <3>3. ((l % CounterMod) - (served % CounterMod)) % CounterMod = l - served
      BY <2>1, <3>2, ModDistance
    <3> QED
      BY <3>1, <3>3 DEF Outstanding, l
  <2>3. ASSUME NEW t \in DiskWriters, pc[t] \in {"consume", "fwrite"}
        PROVE  count[t] <= Len(issued) - served
    <3>1. served + count[t] <= Len(issued) /\ count[t] \in Nat
      BY <2>3 DEF DiskWriters, IInv, Bookkeeping, WriterInStep, LogTypes
    <3> QED
      BY <2>1, <3>1
  <2> QED
    BY <2>1, <2>2, <2>3 DEF TicketsBounded
<1> QED
  BY <1>1, Invariance, PTL

(* An orderly exit writes every message that got a ticket before the file  *)
(* is closed, and nobody is left that uses the file or the semaphore.      *)
THEOREM OrderlyExitComplete == Spec => []OrderlyExitWritesAll
<1>1. IInv => OrderlyExitWritesAll
  <2> SUFFICES ASSUME IInv, ~fatal
               PROVE  /\ AllWrittenAtClose
                      /\ has_file /\ ~file_open => \A t \in Loggers : pc[t] # "fwrite"
                      /\ ~factory => \A t \in Loggers : pc[t] \notin {"trywait", "post"}
    BY DEF OrderlyExitWritesAll
  <2>1. LogTypes /\ OrderlyExit /\ FileFollows /\ Main \in Loggers
    BY LogThreadAssumption DEF IInv, Bookkeeping
  <2>2. ASSUME (has_file /\ ~file_open) \/ ~factory
        PROVE  \A t \in Loggers : pc[t] \in {"idle", "destroy", "exit"}
    <3>1. closing[Main] /\ pc[Main] \in {"destroy", "exit"}
      BY <2>1, <2>2 DEF OrderlyExit
    <3> QED
      BY <2>1, <3>1 DEF OrderlyExit
  <2>3. ASSUME has_file, ~file_open
        PROVE  file = issued
    <3>1. \A t \in Loggers : pc[t] \notin {"consume", "fwrite"}
      BY <2>2, <2>3
    <3>2. Len(file) = Len(issued)
      BY <2>1, <2>3, <3>1 DEF FileFollows, OrderlyExit
    <3>3. \A k \in 1 .. Len(file) : file[k] = issued[k]
      BY <2>1, <2>3 DEF FileFollows
    <3>4. file \in Seq(Messages) /\ issued \in Seq(Messages)
      BY <2>1 DEF LogTypes
    <3> QED
      BY <3>2, <3>3, <3>4
  <2> QED
    BY <2>2, <2>3 DEF AllWrittenAtClose
<1> QED
  BY <1>1, Invariance, PTL
===============================================================================
