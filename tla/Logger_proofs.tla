---------------------------- MODULE Logger_proofs ----------------------------
(***************************************************************************)
(* The ring of LogQueue keeps its type and its shape, and implements       *)
(* BoundedFifo.  Type correctness of Logger; and the ledger of the         *)
(* messages that were logged, from which it follows that they are printed  *)
(* in order, that none is lost or doubled, and that the log file is used   *)
(* safely.  All of it for every Capacity, every set of threads and of      *)
(* messages, and whenever a signal comes.                                  *)
(***************************************************************************)
EXTENDS Logger, SequenceTheorems, FiniteSetTheorems, TLAPS

(* Positions in the ring are sums of two numbers, the first of them below  *)
(* Capacity and the second at most Capacity, so one subtraction is all     *)
(* that the remainder ever does.                                           *)
LEMMA Wrap ==
    ASSUME NEW i \in Nat, i < 2 * Capacity
    PROVE  i % Capacity = IF i < Capacity THEN i ELSE i - Capacity
  <1> USE CapacityAssumption
  <1>1. CASE i < Capacity
    <2>1. i % Capacity = i
      BY <1>1
    <2> QED BY <2>1, <1>1
  <1>2. CASE i >= Capacity
    <2>1. i = Capacity * 1 + (i - Capacity)
      OBVIOUS
    <2>2. i - Capacity \in 0 .. Capacity - 1
      BY <1>2
    <2>3. i % Capacity = i - Capacity
      BY <2>1, <2>2, <1>2
    <2> QED BY <2>3, <1>2
  <1> QED BY <1>1, <1>2

(* The slot of the i-th message that waits. *)
Slot(i) == (head + i - 1) % Capacity

LEMMA SlotRange ==
    ASSUME RingOK, NEW i \in 1 .. Capacity + 1
    PROVE  /\ Slot(i) \in Index
           /\ Slot(i) = IF head + i - 1 < Capacity THEN head + i - 1
                        ELSE head + i - 1 - Capacity
  <1>1. PICK x \in Nat : x = head + i - 1 /\ x < 2 * Capacity
    BY CapacityAssumption DEF RingOK, Index
  <1>2. x % Capacity = IF x < Capacity THEN x ELSE x - Capacity
    BY <1>1, Wrap
  <1>3. Slot(i) = x % Capacity
    BY <1>1 DEF Slot
  <1> QED BY <1>1, <1>2, <1>3, CapacityAssumption DEF Index, RingOK

LEMMA AfterRange ==
    ASSUME NEW i \in Index
    PROVE  After(i) \in Index /\ After(i) = IF i = Capacity - 1 THEN 0 ELSE i + 1
  <1>1. PICK x \in Nat : x = i + 1 /\ x < 2 * Capacity
    BY CapacityAssumption DEF Index
  <1>2. x % Capacity = IF x < Capacity THEN x ELSE x - Capacity
    BY <1>1, Wrap
  <1>3. After(i) = x % Capacity
    BY <1>1 DEF After
  <1> QED BY <1>1, <1>2, <1>3, CapacityAssumption DEF Index

(* The tail is the slot after the last message that waits. *)
LEMMA TailIsNext ==
    ASSUME RingOK
    PROVE  /\ tail = Slot(size + 1)
           /\ tail = IF head + size < Capacity THEN head + size
                     ELSE head + size - Capacity
  <1>1. size + 1 \in 1 .. Capacity + 1
    BY CapacityAssumption DEF RingOK
  <1>2. tail = Slot(size + 1)
    BY <1>1, CapacityAssumption DEF RingOK, Slot, Index
  <1>3. PICK i \in 1 .. Capacity + 1 : i = size + 1 /\ Slot(i) = tail
    BY <1>1, <1>2
  <1>4. Slot(i) = IF head + i - 1 < Capacity THEN head + i - 1
                  ELSE head + i - 1 - Capacity
    BY SlotRange
  <1>5. head \in Nat /\ size \in Nat /\ Capacity \in Nat
    BY CapacityAssumption DEF RingOK, Index
  <1>6. CASE head + size < Capacity
    BY <1>2, <1>3, <1>4, <1>5, <1>6
  <1>7. CASE ~(head + size < Capacity)
    BY <1>2, <1>3, <1>4, <1>5, <1>7
  <1> QED BY <1>6, <1>7

(* An enqueue keeps the type of the ring and appends its message to what   *)
(* waits.                                                                  *)
LEMMA PutAppends ==
    ASSUME QueueTypeOK, NEW m \in Message, Put(m)
    PROVE  QueueTypeOK' /\ Contents' = Append(Contents, m)
  <1> USE CapacityAssumption
  <1>0. RingOK
    BY DEF QueueTypeOK
  <1>1. /\ head' = head /\ handed' = handed
        /\ size' = size + 1 /\ size < Capacity
        /\ tail' = After(tail)
        /\ slots' = [slots EXCEPT ![tail] = m]
    BY <1>0 DEF Put, Full, RingOK
  <1>2. tail' \in Index /\ tail' = (head' + size') % Capacity
    <2>1. tail' = IF tail = Capacity - 1 THEN 0 ELSE tail + 1
      BY <1>0, <1>1, AfterRange DEF RingOK
    <2>2. PICK x \in Nat : x = head' + size' /\ x < 2 * Capacity
      BY <1>0, <1>1 DEF RingOK, Index
    <2>3. x % Capacity = IF x < Capacity THEN x ELSE x - Capacity
      BY <2>2, Wrap
    <2> QED BY <1>0, <2>1, <2>2, <2>3, <1>1, TailIsNext DEF RingOK, Index
  <1>3. /\ \A i \in 1 .. size : Slot(i) \in Index /\ Slot(i) # tail
        /\ Slot(size + 1) = tail
    <2>1. Slot(size + 1) = tail
      BY <1>0, TailIsNext
    <2>2. ASSUME NEW i \in 1 .. size
          PROVE  Slot(i) \in Index /\ Slot(i) # tail
      <3>1. i \in 1 .. Capacity + 1
        BY <1>0, <1>1 DEF RingOK
      <3>2. /\ Slot(i) \in Index
            /\ Slot(i) = IF head + i - 1 < Capacity THEN head + i - 1
                         ELSE head + i - 1 - Capacity
        BY <1>0, <3>1, SlotRange
      <3> QED BY <1>0, <3>2, <1>1, TailIsNext DEF RingOK, Index
    <2> QED BY <2>1, <2>2
  <1>4. Len(Contents) = size
    BY <1>0 DEF Contents, RingOK
  <1>5. Contents' = [i \in 1 .. size + 1 |-> slots'[Slot(i)]]
    BY <1>1 DEF Contents, Slot
  <1>6. \A i \in 1 .. size : slots'[Slot(i)] = Contents[i]
    BY <1>0, <1>1, <1>3 DEF RingOK, Contents, Slot
  <1>7. slots'[Slot(size + 1)] = m
    BY <1>0, <1>1, <1>3 DEF RingOK
  <1>8. /\ Append(Contents, m) \in Seq(Message)
        /\ Append(Contents, m) \in [1 .. size + 1 -> Message]
        /\ \A i \in 1 .. size : Append(Contents, m)[i] = Contents[i]
        /\ Append(Contents, m)[size + 1] = m
    <2>1. /\ Append(Contents, m) \in Seq(Message)
          /\ Len(Append(Contents, m)) = size + 1
          /\ \A i \in 1 .. size : Append(Contents, m)[i] = Contents[i]
          /\ Append(Contents, m)[size + 1] = m
      BY <1>0, <1>4, AppendProperties DEF QueueTypeOK, RingOK
    <2> QED BY <2>1, LenProperties
  <1>9. Contents' = Append(Contents, m)
    <2>1. \A i \in 1 .. size + 1 : slots'[Slot(i)] = Append(Contents, m)[i]
      BY <1>0, <1>6, <1>7, <1>8 DEF RingOK
    <2>2. Append(Contents, m) = [i \in 1 .. size + 1 |-> Append(Contents, m)[i]]
      BY <1>8
    <2> QED BY <1>5, <2>1, <2>2
  <1>10. RingOK'
    BY <1>0, <1>1, <1>2 DEF RingOK, Index
  <1>11. QueueTypeOK'
    BY <1>8, <1>9, <1>10 DEF QueueTypeOK
  <1> QED BY <1>9, <1>11

(* A dequeue keeps the type of the ring, hands out the oldest message and  *)
(* leaves the others in order.                                             *)
LEMMA TakeRemoves ==
    ASSUME QueueTypeOK, Take
    PROVE  /\ QueueTypeOK'
           /\ Contents # <<>>
           /\ handed' \in Message
           /\ handed' = Head(Contents)
           /\ Contents' = Tail(Contents)
  <1> USE CapacityAssumption
  <1>0. RingOK
    BY DEF QueueTypeOK
  <1>1. /\ head' = After(head) /\ handed' = slots[head]
        /\ size' = size - 1 /\ size > 0
        /\ tail' = tail /\ slots' = slots
    BY <1>0 DEF Take, RingOK
  <1>2. head' \in Index /\ head' = IF head = Capacity - 1 THEN 0 ELSE head + 1
    BY <1>0, <1>1, AfterRange DEF RingOK
  <1>3. tail' = (head' + size') % Capacity
    <2>1. PICK x \in Nat : x = head' + size' /\ x < 2 * Capacity
      BY <1>0, <1>1, <1>2 DEF RingOK, Index
    <2>2. x % Capacity = IF x < Capacity THEN x ELSE x - Capacity
      BY <2>1, Wrap
    <2> QED BY <1>0, <2>1, <2>2, <1>1, <1>2, TailIsNext DEF RingOK, Index
  <1>4. Len(Contents) = size
    BY <1>0 DEF Contents, RingOK
  <1>5. /\ Contents # <<>>
        /\ handed' \in Message
        /\ handed' = Head(Contents)
    <2>1. Slot(1) = head
      BY <1>0, <1>1, SlotRange DEF RingOK, Index
    <2>2. Contents[1] = slots[head]
      BY <1>0, <1>1, <2>1 DEF Contents, Slot, RingOK
    <2> QED BY <1>0, <1>1, <1>4, <2>2 DEF QueueTypeOK, RingOK
  <1>6. \A i \in 1 .. size - 1 : Slot(i)' = Slot(i + 1)
    <2> SUFFICES ASSUME NEW i \in 1 .. size - 1
                 PROVE  Slot(i)' = Slot(i + 1)
      OBVIOUS
    <2>1. i \in 1 .. Capacity + 1 /\ i + 1 \in 1 .. Capacity + 1
      BY <1>0 DEF RingOK
    <2>2. PICK x \in Nat : x = head' + i - 1 /\ x < 2 * Capacity
      BY <1>0, <1>2, <2>1 DEF RingOK, Index
    <2>3. x % Capacity = IF x < Capacity THEN x ELSE x - Capacity
      BY <2>2, Wrap
    <2>4. Slot(i)' = x % Capacity
      BY <2>2 DEF Slot
    <2>5. Slot(i + 1) = IF head + i < Capacity THEN head + i
                        ELSE head + i - Capacity
      <3>1. PICK j \in 1 .. Capacity + 1 : j = i + 1
        BY <2>1
      <3>2. Slot(j) = IF head + j - 1 < Capacity THEN head + j - 1
                      ELSE head + j - 1 - Capacity
        BY <1>0, SlotRange
      <3> QED BY <1>0, <3>1, <3>2 DEF RingOK, Index
    <2> QED BY <1>0, <2>1, <2>2, <2>3, <2>4, <2>5, <1>2 DEF RingOK, Index
  <1>7. Contents' = [i \in 1 .. size - 1 |-> slots[Slot(i)']]
    BY <1>1 DEF Contents, Slot
  <1>8. /\ Tail(Contents) \in Seq(Message)
        /\ Tail(Contents) = [i \in 1 .. size - 1 |-> Contents[i + 1]]
    <2>1. /\ Tail(Contents) \in Seq(Message)
          /\ Tail(Contents) \in [1 .. size - 1 -> Message]
          /\ \A i \in 1 .. size - 1 : Tail(Contents)[i] = Contents[i + 1]
      BY <1>0, <1>4, <1>5, HeadTailProperties, LenProperties
         DEF QueueTypeOK, RingOK
    <2>2. Tail(Contents) = [i \in 1 .. size - 1 |-> Tail(Contents)[i]]
      BY <2>1
    <2> QED BY <2>1, <2>2
  <1>9. \A i \in 1 .. size - 1 : Contents[i + 1] = slots[Slot(i + 1)]
    BY <1>0 DEF Contents, Slot, RingOK
  <1>10. Contents' = Tail(Contents)
    BY <1>6, <1>7, <1>8, <1>9
  <1>11. RingOK'
    BY <1>0, <1>1, <1>2, <1>3 DEF RingOK, Index
  <1>12. QueueTypeOK'
    BY <1>8, <1>10, <1>11 DEF QueueTypeOK
  <1> QED BY <1>5, <1>10, <1>12

-----------------------------------------------------------------------------
LEMMA QueueInitType == QueueInit => QueueTypeOK
  <1> SUFFICES ASSUME QueueInit PROVE QueueTypeOK
    OBVIOUS
  <1>1. 0 \in Nat /\ 0 < 2 * Capacity
    BY CapacityAssumption
  <1>2. 0 % Capacity = 0
    BY <1>1, Wrap, CapacityAssumption
  <1>3. Contents = <<>>
    BY DEF QueueInit, Contents
  <1> QED BY <1>2, <1>3, CapacityAssumption DEF QueueInit, QueueTypeOK, RingOK, Index

(* Every variable of the ring keeps its range, and the tail is always the  *)
(* slot after the last message that waits (logger.c, lines 77-112).        *)
THEOREM QueueTypeInvariant == QueueSpec => []QueueTypeOK
  <1>1. QueueTypeOK /\ [QueueNext]_queueVars => QueueTypeOK'
    <2> SUFFICES ASSUME QueueTypeOK, [QueueNext]_queueVars
                 PROVE  QueueTypeOK'
      OBVIOUS
    <2>1. CASE Take
      BY <2>1, TakeRemoves
    <2>2. ASSUME NEW m \in Message, Put(m) PROVE QueueTypeOK'
      BY <2>2, PutAppends
    <2>3. CASE UNCHANGED queueVars
      BY <2>3 DEF QueueTypeOK, RingOK, queueVars, Index, Contents
    <2> QED BY <2>1, <2>2, <2>3 DEF QueueNext
  <1> QED BY <1>1, QueueInitType, PTL DEF QueueSpec

(* The ring implements the bounded first-in first-out queue: every         *)
(* enqueue_message that returns 1 is a Send, every dequeue_message that    *)
(* returns 1 a Receive.                                                    *)
THEOREM QueueRefinesFifo == QueueSpec => ImplementsFifo
  <1>1. QueueInit => Fifo!FifoInit
    <2> SUFFICES ASSUME QueueInit PROVE Contents = <<>>
      BY DEF QueueInit, Fifo!FifoInit
    <2> QED BY DEF Contents, QueueInit
  <1>2. QueueTypeOK /\ [QueueNext]_queueVars => [Fifo!FifoNext]_(Fifo!fvars)
    <2> SUFFICES ASSUME QueueTypeOK, [QueueNext]_queueVars
                 PROVE  [Fifo!FifoNext]_(Fifo!fvars)
      OBVIOUS
    <2>1. CASE Take
      BY <2>1, TakeRemoves DEF Fifo!FifoNext, Fifo!Receive
    <2>2. ASSUME NEW m \in Message, Put(m)
          PROVE  Fifo!Send(m)
      <3>1. Len(Contents) = size
        BY DEF Contents, QueueTypeOK, RingOK
      <3>2. size < Capacity
        BY <2>2, CapacityAssumption DEF Put, Full, QueueTypeOK, RingOK
      <3> QED BY <2>2, <3>1, <3>2, PutAppends DEF Fifo!Send, Put
    <2>3. CASE UNCHANGED queueVars
      BY <2>3 DEF queueVars, Fifo!fvars, Contents
    <2> QED BY <2>1, <2>2, <2>3 DEF QueueNext, Fifo!FifoNext
  <1> QED BY <1>1, <1>2, QueueTypeInvariant, PTL
          DEF QueueSpec, ImplementsFifo, Fifo!FifoSpec

-----------------------------------------------------------------------------
(* The logger around the ring.                                             *)

(* Where a thread is inside logger_cleanup, and where it is there after    *)
(* the point at which it has waited for the worker.                        *)
AfterJoin == {"close?", "fclose", "clear", "uninit", "lower"}
InCleanup == {"cleanup", "raise", "stop?", "stop", "join"} \cup AfterJoin

(* Only main is ever in logger_cleanup, the other threads are gone by      *)
(* then, and the worker is gone once main is past the join; hence whoever  *)
(* tested g_log_file finds it still open when it uses it.                  *)
CleanupAlone ==
    /\ \A t \in Threads : pc[t] \in InCleanup => t = Main
    /\ pc[Main] \in InCleanup => \A p \in Producers : Quiet(p)
    /\ pc[Main] \in AfterJoin \cup {"start"} => Quiet(Worker)

WorkerFlags ==
    /\ ~async => Quiet(Worker)
    /\ initialized /\ async /\ ~running
         => pc[Main] \in {"join"} \cup AfterJoin
    /\ pc[Main] \in {"stop", "join"} => async
    /\ pc[Main] \in {"raise", "stop?", "stop", "join", "close?", "fclose",
                    "clear", "uninit"} => initialized
    /\ pc[Main] = "lower" => ~initialized

FileState ==
    /\ logFile = "closed" => pc[Main] = "clear"
    /\ pc[Main] = "fclose" => logFile = "open"
    /\ \A t \in Threads : pc[t] = "fprintf" => logFile = "open"
    /\ pc[Main] = "start" => \A t \in Threads \ {Main} : Quiet(t)

Unfaulted == fault = "none"
FileInv == Unfaulted /\ CleanupAlone /\ WorkerFlags /\ FileState

-----------------------------------------------------------------------------
LEMMA QueueUnchanged ==
    ASSUME QueueTypeOK, UNCHANGED queueVars
    PROVE  QueueTypeOK'
  BY DEF QueueTypeOK, RingOK, Contents, Index, queueVars

Holding == {"offer", "admit", "console", "file", "fprintf"}

(* A thread that only moves keeps every type, if it does not come to hold  *)
(* a message that way.                                                     *)
LEMMA JumpType ==
    ASSUME TypeOK, NEW t \in Threads, NEW from, NEW to \in Locations,
           Jump(t, from, to), to \in Holding => from \in Holding
    PROVE  TypeOK'
  <1>1. QueueTypeOK'
    BY QueueUnchanged DEF Jump, TypeOK
  <1>2. pc' = [pc EXCEPT ![t] = to] /\ pc[t] = from
    BY DEF Jump, Move
  <1> QED BY ZenonT(40), <1>1, <1>2 DEF TypeOK, Jump, Holding, shared, output, process, history

LEMMA InitType == Init => TypeOK
  <1> SUFFICES ASSUME Init PROVE TypeOK
    OBVIOUS
  <1>1. QueueTypeOK
    BY QueueInitType DEF Init
  <1>2. pc \in [Threads -> Locations]
    BY DEF Init, Locations
  <1>3. \A t \in Threads : pc[t] \notin Holding
    BY DEF Init, Holding
  <1>4. <<>> \in Seq(Message)
    OBVIOUS
  <1> QED BY <1>1, <1>2, <1>3, <1>4 DEF Init, TypeOK, Holding

LEMMA MainType ==
    ASSUME TypeOK, MainStep \/ Signal
    PROVE  TypeOK'
  <1> USE ThreadAssumption, ConfigAssumption DEF Threads, Callers
  <1>q. UNCHANGED queueVars => QueueTypeOK'
    BY QueueUnchanged DEF TypeOK
  <1>1. CASE LoggerInit
    BY <1>1, <1>q DEF LoggerInit, TypeOK, Locations, output, process, history
  <1>2. CASE InstallHandler
    BY <1>2, <1>q DEF InstallHandler, TypeOK, shared, output, history
  <1>3. CASE MainCleanup
    BY <1>3, JumpType DEF MainCleanup, Locations, Holding
  <1>4. CASE MainReturn
    BY <1>4, <1>q DEF MainReturn, Move, TypeOK, Locations, shared, output, history
  <1>5. CASE Signal
    BY <1>5, <1>q DEF Signal, TypeOK, output, process, history
  <1> QED BY <1>1, <1>2, <1>3, <1>4, <1>5 DEF MainStep

LEMMA AppendType ==
    ASSUME NEW s \in Seq(Message), NEW m \in Message
    PROVE  Append(s, m) \in Seq(Message)
  OBVIOUS

LEMMA CallType ==
    ASSUME TypeOK, NEW t \in Callers,
           \/ Offer(t) \/ Admit(t) \/ Overflow(t)
           \/ \E m \in Fresh : LogCall(t, m)
    PROVE  TypeOK'
  <1> USE ThreadAssumption DEF Threads, Callers
  <1>q. UNCHANGED queueVars => QueueTypeOK'
    BY QueueUnchanged DEF TypeOK
  <1>1. CASE Offer(t)
    <2>1. msg[t] \in Message /\ pc[t] = "offer"
      BY <1>1 DEF Offer, Move, TypeOK
    <2>2. pc' = [pc EXCEPT ![t] = IF graceful THEN "console" ELSE "admit"]
      BY <1>1 DEF Offer, Move
    <2>3. refused' \in Seq(Message)
      <3>1. refused \in Seq(Message)
        BY DEF TypeOK
      <3>2. Append(refused, msg[t]) \in Seq(Message)
        BY <2>1, <3>1, AppendType
      <3> QED BY <1>1, <3>1, <3>2 DEF Offer
    <2> QED BY ZenonT(40), <1>1, <1>q, <2>1, <2>2, <2>3
            DEF Offer, TypeOK, Locations, shared, output, process
  <1>2. CASE Admit(t)
    <2>1. msg[t] \in Message /\ pc[t] = "admit"
      BY <1>2 DEF Admit, Move, TypeOK
    <2>2. QueueTypeOK'
      BY <1>2, <2>1, PutAppends DEF Admit, TypeOK
    <2>3. accepted' \in Seq(Message)
      BY <1>2, <2>1, AppendType DEF Admit, TypeOK
    <2> QED BY ZenonT(40), <1>2, <2>1, <2>2, <2>3
            DEF Admit, Move, TypeOK, Locations, shared, output, process
  <1>3. CASE Overflow(t)
    <2>1. msg[t] \in Message /\ pc[t] = "admit"
      BY <1>3 DEF Overflow, Move, TypeOK
    <2>2. refused' \in Seq(Message)
      BY <1>3, <2>1, AppendType DEF Overflow, TypeOK
    <2> QED BY ZenonT(40), <1>3, <1>q, <2>1, <2>2
            DEF Overflow, Move, TypeOK, Locations, shared, output, process
  <1>4. ASSUME NEW m \in Fresh, LogCall(t, m) PROVE TypeOK'
    <2>1. m \in Message
      BY DEF Fresh
    <2>2. CASE initialized /\ m \notin Silent
      <3>1. /\ pc' = [pc EXCEPT ![t] = IF async THEN "offer" ELSE "console"]
            /\ msg' = [msg EXCEPT ![t] = m]
            /\ called' = [called EXCEPT ![t] = Append(@, m)]
        BY <1>4, <2>2 DEF LogCall
      <3>2. called' \in [Threads -> Seq(Message)]
        <4>1. called[t] \in Seq(Message)
          BY DEF TypeOK
        <4>2. Append(called[t], m) \in Seq(Message)
          BY <2>1, <4>1, AppendType
        <4> QED BY <3>1, <4>2 DEF TypeOK
      <3> QED BY ZenonT(40), <1>4, <1>q, <2>1, <3>1, <3>2
              DEF LogCall, TypeOK, Locations, shared, output, process
    <2>3. CASE ~(initialized /\ m \notin Silent)
      <3>1. pc' = [pc EXCEPT ![t] = "idle"] /\ UNCHANGED <<msg, called>>
        BY <1>4, <2>3 DEF LogCall
      <3> QED BY ZenonT(40), <1>4, <1>q, <3>1
              DEF LogCall, TypeOK, Locations, shared, output, process
    <2> QED BY <2>2, <2>3
  <1> QED BY <1>1, <1>2, <1>3, <1>4

LEMMA ProcessType ==
    ASSUME TypeOK, NEW t \in Threads, Process(t)
    PROVE  TypeOK'
  <1>q. UNCHANGED queueVars => QueueTypeOK'
    BY QueueUnchanged DEF TypeOK
  <1>w. ASSUME Written(t)
        PROVE  /\ pc' \in [Threads -> Locations]
               /\ msg' \in [Threads -> Message \cup {NoMessage}]
               /\ \A u \in Threads : pc'[u] \in Holding => msg'[u] \in Message
    <2>1. CASE msg[t] \in Fatal
      BY <1>w, <2>1 DEF Written, TypeOK, Locations, Holding
    <2>2. CASE msg[t] \notin Fatal
      <3>1. /\ pc' = [pc EXCEPT ![t] = IF t = Worker THEN "loop" ELSE "idle"]
            /\ msg' = [msg EXCEPT ![t] = NoMessage]
        BY <1>w, <2>2 DEF Written
      <3> QED BY <3>1 DEF TypeOK, Locations, Holding
    <2> QED BY <2>1, <2>2
  <1>1. CASE WriteConsole(t)
    <2>1. msg[t] \in Message
      BY <1>1 DEF WriteConsole, Move, TypeOK
    <2>2. console' \in Seq(Message)
      <3>1. console \in Seq(Message) /\ Append(console, msg[t]) \in Seq(Message)
        BY <2>1, AppendType DEF TypeOK
      <3> QED BY <1>1, <3>1 DEF WriteConsole
    <2> QED BY ZenonT(40), <1>1, <1>q, <2>1, <2>2
            DEF WriteConsole, Move, TypeOK, Locations, shared, process, history
  <1>2. CASE TestFile(t)
    <2>1. CASE logFile = "none"
      BY <1>2, <2>1, <1>q, <1>w
         DEF TestFile, TypeOK, shared, output, process, history, Holding
    <2>2. CASE logFile # "none"
      BY ZenonT(40), <1>2, <2>2, <1>q DEF TestFile, Move, TypeOK, Locations, shared,
                              output, process, history
    <2> QED BY <2>1, <2>2
  <1>3. CASE WriteFile(t)
    <2>1. msg[t] \in Message
      BY <1>3 DEF WriteFile, TypeOK
    <2>2. CASE logFile = "open"
      <3>1. fileLog' \in Seq(Message)
        BY <1>3, <2>1, <2>2, AppendType DEF WriteFile, TypeOK
      <3> QED BY <1>3, <2>2, <3>1, <1>q, <1>w
         DEF WriteFile, TypeOK, shared, history, Holding
    <2>3. CASE logFile # "open"
      BY <1>3, <2>3, <1>q DEF WriteFile, TypeOK, shared, history
    <2> QED BY <2>2, <2>3
  <1> QED BY <1>1, <1>2, <1>3 DEF Process

LEMMA WorkerType ==
    ASSUME TypeOK, WorkerLoop \/ WorkerTake \/ WorkerEmpty \/ WorkerIdle
    PROVE  TypeOK'
  <1> USE ThreadAssumption DEF Threads, Callers
  <1>1. CASE WorkerLoop
    BY <1>1, JumpType DEF WorkerLoop, Locations, Holding
  <1>2. CASE WorkerTake
    <2>1. QueueTypeOK' /\ handed' \in Message
      BY <1>2, TakeRemoves DEF WorkerTake, TypeOK
    <2> QED BY ZenonT(40), <1>2, <2>1 DEF WorkerTake, Move, TypeOK, Locations, shared,
                              output, process, history
  <1>3. CASE WorkerEmpty
    BY <1>3, JumpType DEF WorkerEmpty, Locations, Holding
  <1>4. CASE WorkerIdle
    BY <1>4, JumpType DEF WorkerIdle, Locations, Holding
  <1> QED BY <1>1, <1>2, <1>3, <1>4

LEMMA CleanupType ==
    ASSUME TypeOK, NEW t \in Threads, Cleanup(t)
    PROVE  TypeOK'
  <1>q. UNCHANGED queueVars => QueueTypeOK'
    BY QueueUnchanged DEF TypeOK
  <1>r. ASSUME CleanupReturn(t)
        PROVE  /\ pc' \in [Threads -> Locations]
               /\ status' \in {"running", "success", "failure"}
               /\ \A u \in Threads : pc'[u] \in Holding => pc[u] \in Holding
    BY <1>r DEF CleanupReturn, TypeOK, Locations, Holding
  <1>1. CASE CleanupEnter(t)
    <2>1. CASE initialized
      BY ZenonT(40), <1>1, <2>1, <1>q DEF CleanupEnter, Move, TypeOK, Locations, shared,
                              output, history
    <2>2. CASE ~initialized
      BY <1>1, <2>2, <1>q, <1>r DEF CleanupEnter, TypeOK, Holding, shared,
                                    output, history
    <2> QED BY <2>1, <2>2
  <1>2. CASE CleanupRaise(t)
    BY ZenonT(40), <1>2, <1>q DEF CleanupRaise, Move, TypeOK, Locations, output, process, history
  <1>3. CASE CleanupTest(t)
    BY <1>3, JumpType DEF CleanupTest, Locations, Holding
  <1>4. CASE CleanupStop(t)
    BY <1>4, <1>q DEF CleanupStop, Move, TypeOK, Locations, output, process, history
  <1>5. CASE CleanupJoin(t)
    BY <1>5, JumpType DEF CleanupJoin, Locations, Holding
  <1>6. CASE CleanupTestFile(t)
    BY <1>6, JumpType DEF CleanupTestFile, Locations, Holding
  <1>7. CASE CleanupClose(t)
    BY ZenonT(60), <1>7, <1>q DEF CleanupClose, Move, TypeOK, Locations, output, history
  <1>8. CASE CleanupClear(t)
    BY <1>8, <1>q DEF CleanupClear, Move, TypeOK, Locations, output, process, history
  <1>9. CASE CleanupUninit(t)
    BY ZenonT(40), <1>9, <1>q DEF CleanupUninit, Move, TypeOK, Locations, output, process, history
  <1>10. CASE CleanupLower(t)
    BY <1>10, <1>q, <1>r DEF CleanupLower, TypeOK, Holding, output, history
  <1> QED BY <1>1, <1>2, <1>3, <1>4, <1>5, <1>6, <1>7, <1>8, <1>9, <1>10
          DEF Cleanup

(* Every variable of the logger keeps its range, the ring its shape, and a *)
(* thread that hands over or writes a message really holds one, for every  *)
(* capacity, every set of threads and every set of messages.               *)
THEOREM LoggerTypeInvariant == Spec => []TypeOK
  <1>1. TypeOK /\ [Next]_vars => TypeOK'
    <2> SUFFICES ASSUME TypeOK, [Next]_vars PROVE TypeOK'
      OBVIOUS
    <2>1. CASE MainStep \/ Signal
      BY <2>1, MainType
    <2>2. CASE WorkerStep
      <3>1. Worker \in Threads
        BY DEF Threads
      <3> QED BY <2>2, <3>1, WorkerType, ProcessType, CleanupType DEF WorkerStep
    <2>3. ASSUME NEW p \in Producers, StartThread(p) \/ StopThread(p)
          PROVE  TypeOK'
      BY <2>3, JumpType DEF StartThread, StopThread, Threads, Callers, Locations, Holding
    <2>4. ASSUME NEW t \in Callers, Inside(t) \/ \E m \in Fresh : LogCall(t, m)
          PROVE  TypeOK'
      <3>1. t \in Threads
        BY DEF Threads
      <3> QED BY <2>4, <3>1, CallType, ProcessType, CleanupType DEF Inside
    <2>5. CASE UNCHANGED vars
      BY ZenonT(40), <2>5, QueueUnchanged DEF vars, TypeOK, shared, output, process, history
    <2> QED BY <2>1, <2>2, <2>3, <2>4, <2>5 DEF Next, Ended
  <1> QED BY <1>1, InitType, PTL DEF Spec

-----------------------------------------------------------------------------
(* The log file.  Cleanup is reached through main alone, since no message  *)
(* is FATAL.                                                               *)
LEMMA FileMain ==
    ASSUME TypeOK, FileInv, MainStep \/ Signal
    PROVE  FileInv'
  <1> USE ThreadAssumption DEF Threads, Callers, FileInv, Unfaulted, CleanupAlone,
          WorkerFlags, FileState, InCleanup, AfterJoin, Quiet, process, shared,
          output
  <1>t. pc \in [Threads -> Locations] /\ logFile \in {"none", "open", "closed"}
    BY DEF TypeOK
  <1>1. CASE LoggerInit
    BY <1>t, <1>1, ConfigAssumption DEF LoggerInit
  <1>2. CASE InstallHandler
    BY <1>t, <1>2 DEF InstallHandler
  <1>3. CASE MainCleanup
    BY <1>t, <1>3 DEF MainCleanup, Jump, Move
  <1>4. CASE MainReturn
    BY <1>t, <1>4 DEF MainReturn, Move
  <1>5. CASE Signal
    BY <1>t, <1>5 DEF Signal
  <1> QED BY <1>1, <1>2, <1>3, <1>4, <1>5 DEF MainStep

LEMMA FileThreads ==
    ASSUME TypeOK, FileInv, NEW p \in Producers, StartThread(p) \/ StopThread(p)
    PROVE  FileInv'
  BY ThreadAssumption
     DEF StartThread, StopThread, Jump, Move, Threads, Callers, FileInv, Unfaulted,
         CleanupAlone, WorkerFlags, FileState, InCleanup, AfterJoin, Quiet,
         process, shared, TypeOK

LEMMA FileCall ==
    ASSUME TypeOK, FileInv, NEW t \in Callers,
           \/ Offer(t) \/ Admit(t) \/ Overflow(t)
           \/ \E m \in Fresh : LogCall(t, m)
    PROVE  FileInv'
  <1> USE ThreadAssumption DEF Threads, Callers, FileInv, Unfaulted, CleanupAlone,
          WorkerFlags, FileState, InCleanup, AfterJoin, Quiet, process, shared
  <1>t. pc \in [Threads -> Locations] /\ logFile \in {"none", "open", "closed"}
    BY DEF TypeOK
  <1>1. CASE Offer(t)
    BY <1>t, <1>1 DEF Offer, Move
  <1>2. CASE Admit(t)
    BY <1>t, <1>2 DEF Admit, Move
  <1>3. CASE Overflow(t)
    BY <1>t, <1>3 DEF Overflow, Move
  <1>4. ASSUME NEW m \in Fresh, LogCall(t, m) PROVE FileInv'
    <2>1. /\ pc[t] \in {"idle", "announce"}
          /\ \E l \in {"idle", "offer", "console"} : pc' = [pc EXCEPT ![t] = l]
          /\ UNCHANGED <<fault, logFile, initialized, running, async>>
      BY <1>4 DEF LogCall
    <2> QED BY <1>t, <2>1
  <1> QED BY <1>1, <1>2, <1>3, <1>4

LEMMA FileWorker ==
    ASSUME TypeOK, FileInv, WorkerLoop \/ WorkerTake \/ WorkerEmpty \/ WorkerIdle
    PROVE  FileInv'
  <1> USE ThreadAssumption DEF Threads, Callers, FileInv, Unfaulted, CleanupAlone,
          WorkerFlags, FileState, InCleanup, AfterJoin, Quiet, process, shared
  <1>t. pc \in [Threads -> Locations] /\ logFile \in {"none", "open", "closed"}
    BY DEF TypeOK
  <1>1. CASE WorkerLoop
    BY <1>t, <1>1 DEF WorkerLoop, Jump, Move
  <1>2. CASE WorkerTake
    BY <1>t, <1>2 DEF WorkerTake, Move
  <1>3. CASE WorkerEmpty
    BY <1>t, <1>3 DEF WorkerEmpty, Jump, Move
  <1>4. CASE WorkerIdle
    BY <1>t, <1>4 DEF WorkerIdle, Jump, Move
  <1> QED BY <1>1, <1>2, <1>3, <1>4

LEMMA FileProcess ==
    ASSUME TypeOK, FileInv, NEW t \in Threads, Process(t),
           msg[t] \in Fatal => t = Main /\ \A p \in Producers : Quiet(p)
    PROVE  FileInv'
  <1> USE ThreadAssumption DEF Threads, Callers, FileInv, Unfaulted, CleanupAlone,
          WorkerFlags, FileState, InCleanup, AfterJoin, Quiet, process, shared
  <1>t. pc \in [Threads -> Locations] /\ logFile \in {"none", "open", "closed"}
    BY DEF TypeOK
  <1>1. CASE WriteConsole(t)
    BY <1>t, <1>1 DEF WriteConsole, Move
  <1>2. CASE TestFile(t)
    <2>1. logFile = "closed" => pc[Main] = "clear"
      OBVIOUS
    <2>2. CASE logFile = "none"
      BY <1>t, <1>2, <2>2 DEF TestFile, Written
    <2>3. CASE logFile = "open"
      <3>1. /\ pc[t] = "file" /\ pc' = [pc EXCEPT ![t] = "fprintf"]
            /\ UNCHANGED <<fault, logFile, initialized, running, async>>
        BY <1>2, <2>3 DEF TestFile, Move
      <3> QED BY <1>t, <2>3, <3>1
    <2>4. logFile # "closed"
      BY <1>t, <1>2, <2>1 DEF TestFile
    <2> QED BY <1>t, <2>2, <2>3, <2>4
  <1>3. CASE WriteFile(t)
    <2>1. /\ pc[t] = "fprintf" /\ logFile = "open"
          /\ \/ pc' = [pc EXCEPT ![t] = "cleanup"] /\ msg[t] \in Fatal
             \/ \E l \in {"loop", "idle"} : pc' = [pc EXCEPT ![t] = l]
          /\ UNCHANGED <<fault, logFile, initialized, running, async>>
      BY <1>3 DEF WriteFile, Written
    <2> QED BY <1>t, <2>1
  <1> QED BY <1>1, <1>2, <1>3 DEF Process

LEMMA FileCleanup ==
    ASSUME TypeOK, FileInv, NEW t \in Threads, Cleanup(t)
    PROVE  FileInv'
  <1> USE ThreadAssumption DEF Threads, Callers, FileInv, Unfaulted, CleanupAlone,
          WorkerFlags, FileState, InCleanup, AfterJoin, Quiet, process, shared
  <1>t. pc \in [Threads -> Locations] /\ logFile \in {"none", "open", "closed"}
    BY DEF TypeOK
  <1>1. CASE CleanupEnter(t)
    BY <1>t, <1>1 DEF CleanupEnter, CleanupReturn, Move
  <1>2. CASE CleanupRaise(t)
    BY <1>t, <1>2 DEF CleanupRaise, Move
  <1>3. CASE CleanupTest(t)
    BY <1>t, <1>3 DEF CleanupTest, Jump, Move
  <1>4. CASE CleanupStop(t)
    BY <1>t, <1>4 DEF CleanupStop, Move
  <1>5. CASE CleanupJoin(t)
    BY <1>t, <1>5 DEF CleanupJoin, Jump, Move
  <1>6. CASE CleanupTestFile(t)
    BY <1>t, <1>6 DEF CleanupTestFile, Jump, Move
  <1>7. CASE CleanupClose(t)
    <2>1. /\ t = Main /\ pc[Main] = "fclose" /\ logFile = "open"
          /\ pc' = [pc EXCEPT ![Main] = "clear"] /\ logFile' = "closed"
          /\ UNCHANGED <<fault, initialized, running, async>>
      BY <1>7 DEF CleanupClose, Move
    <2>2. \A u \in Threads \ {Main} : Quiet(u)
      BY <2>1
    <2> QED BY <1>t, <2>1, <2>2
  <1>8. CASE CleanupClear(t)
    BY <1>t, <1>8 DEF CleanupClear, Move
  <1>9. CASE CleanupUninit(t)
    BY <1>t, <1>9 DEF CleanupUninit, Move
  <1>10. CASE CleanupLower(t)
    <2>1. /\ pc[t] = "lower"
          /\ \E l \in {"idle", "exited"} : pc' = [pc EXCEPT ![t] = l]
          /\ UNCHANGED <<fault, logFile, initialized, running, async>>
      BY <1>10 DEF CleanupLower, CleanupReturn
    <2> QED BY <1>t, <2>1
  <1> QED BY <1>1, <1>2, <1>3, <1>4, <1>5, <1>6, <1>7, <1>8, <1>9, <1>10
          DEF Cleanup

-----------------------------------------------------------------------------
(* Every step of the logger is one of the two critical sections of the ring *)
(* or leaves the ring alone.                                               *)
LEMMA QueueSteps ==
    ASSUME TypeOK, [Next]_vars
    PROVE  [QueueNext]_queueVars
  <1>1. CASE MainStep \/ Signal
    BY <1>1 DEF MainStep, Signal, LoggerInit, InstallHandler, MainCleanup,
                MainReturn, Jump
  <1>2. ASSUME NEW t \in Threads, Process(t) PROVE UNCHANGED queueVars
    BY <1>2 DEF Process, WriteConsole, TestFile, WriteFile
  <1>3. ASSUME NEW t \in Threads, Cleanup(t) PROVE UNCHANGED queueVars
    BY <1>3 DEF Cleanup, CleanupEnter, CleanupRaise, CleanupTest, CleanupStop,
                CleanupJoin, CleanupTestFile, CleanupClose, CleanupClear,
                CleanupUninit, CleanupLower, Jump
  <1>4. CASE WorkerStep
    <2>1. Worker \in Threads
      BY DEF Threads
    <2>2. CASE WorkerTake
      BY <2>2 DEF WorkerTake, QueueNext
    <2>3. CASE WorkerLoop \/ WorkerEmpty \/ WorkerIdle
      BY <2>3 DEF WorkerLoop, WorkerEmpty, WorkerIdle, Jump
    <2> QED BY <1>2, <1>3, <1>4, <2>1, <2>2, <2>3 DEF WorkerStep
  <1>5. ASSUME NEW p \in Producers, StartThread(p) \/ StopThread(p)
        PROVE  UNCHANGED queueVars
    BY <1>5 DEF StartThread, StopThread, Jump
  <1>6. ASSUME NEW t \in Callers, Inside(t) \/ \E m \in Fresh : LogCall(t, m)
        PROVE  [QueueNext]_queueVars
    <2>1. t \in Threads
      BY DEF Threads
    <2>2. CASE Admit(t)
      <3>1. pc[t] = "admit" /\ Put(msg[t])
        BY <2>2 DEF Admit, Move
      <3>2. msg[t] \in Message
        BY <2>1, <3>1 DEF TypeOK
      <3> QED BY <3>1, <3>2 DEF QueueNext
    <2>3. CASE Offer(t) \/ Overflow(t) \/ \E m \in Fresh : LogCall(t, m)
      BY <2>3 DEF Offer, Overflow, LogCall
    <2> QED BY <1>2, <1>3, <1>6, <2>1, <2>2, <2>3 DEF Inside
  <1>7. CASE UNCHANGED vars
    BY <1>7 DEF vars
  <1> QED BY <1>1, <1>4, <1>5, <1>6, <1>7 DEF Next, Ended

(* The threads that log and the worker, as composed in the logger, use the *)
(* ring as a bounded first-in first-out queue, whatever they do around it. *)
THEOREM LoggerRefinesFifo == Spec => ImplementsFifo
  <1>1. Init => QueueInit
    BY DEF Init
  <1>2. Spec => QueueSpec
    BY <1>1, QueueSteps, LoggerTypeInvariant, PTL DEF Spec, QueueSpec
  <1> QED BY <1>2, QueueRefinesFifo, PTL

-----------------------------------------------------------------------------
(* The ledger: where each message that was logged is.                      *)

Undecided == {"offer", "admit"}
Unprinted == Undecided \cup {"console"}
Free == {"unborn", "start", "announce", "idle", "loop", "take", "empty"}

(* How many of the accepted messages the worker has taken; the others wait *)
(* in the ring, in their order.                                            *)
Taken == Len(accepted) - size
InRing(m) == \E p \in 1 .. size : accepted[Taken + p] = m
HeldAt(m, places) == \E t \in Threads : pc[t] \in places /\ msg[t] = m
Latest(t) == called[t][Len(called[t])]

(* No message is logged twice; what a thread holds is what it logged last. *)
Calls ==
    /\ pc[Main] = "start" => /\ \A t \in Threads : called[t] = <<>>
                            /\ \A t \in Threads \ {Main} : pc[t] = "unborn"
    /\ called[Worker] = <<>>
    /\ \A t, u \in Threads : \A i \in DOMAIN called[t], j \in DOMAIN called[u] :
         called[t][i] = called[u][j] => t = u /\ i = j
    /\ \A t \in Callers : msg[t] # NoMessage => called[t] # <<>> /\ msg[t] = Latest(t)
    /\ \A t \in Threads : pc[t] \in Free => msg[t] = NoMessage
    /\ pc[Worker] \notin Undecided

(* The ring holds the end of what was accepted, the worker the last one    *)
(* before.                                                                 *)
Waiting ==
    /\ size \in 0 .. Len(accepted)
    /\ \A p \in 1 .. size : Contents[p] = accepted[Taken + p]
    /\ msg[Worker] # NoMessage => Taken \in DOMAIN accepted /\ msg[Worker] = accepted[Taken]

(* A message is accepted or refused, once, and in the order of its thread. *)
Decided ==
    /\ IsInjective(accepted)
    /\ ElementsOf(accepted) \cap ElementsOf(refused) = {}
    /\ ElementsOf(accepted) \cup ElementsOf(refused) \subseteq Logged
    /\ \A t \in Callers : msg[t] # NoMessage => msg[t] \notin ElementsOf(accepted)
    /\ \A t \in Threads : pc[t] \in Undecided => async /\ msg[t] \notin ElementsOf(refused)
    /\ \A t \in Callers : async /\ pc[t] = "console" => msg[t] \in ElementsOf(refused)
    /\ ~async => accepted = <<>>
    /\ \A t \in Callers : \A i, j \in DOMAIN called[t], a, b \in DOMAIN accepted :
         called[t][i] = accepted[a] /\ called[t][j] = accepted[b] /\ i < j => a < b

Pending(m) == InRing(m) \/ HeldAt(m, Unprinted)
Unfiled(m) == InRing(m) \/ HeldAt(m, Holding)

Printed ==
    LogToConsole =>
      /\ IsInjective(console)
      /\ ElementsOf(console) \subseteq Logged
      /\ \A m \in Logged : m \in ElementsOf(console) <=> ~Pending(m)

Filed ==
    logFile # "none" \/ fileLog # <<>> =>
      /\ IsInjective(fileLog)
      /\ ElementsOf(fileLog) \subseteq Logged
      /\ \A m \in Logged : m \in ElementsOf(fileLog) <=> ~Unfiled(m)

(* Who holds a message finds the logger initialized, and so does the       *)
(* worker; a log file that is there has been there always.                 *)
FileKept ==
    /\ \A t \in Threads : pc[t] \in Holding => initialized
    /\ ~Quiet(Worker) => initialized
    /\ logFile = "none" /\ initialized /\ pc[Main] # "uninit" => fileLog = <<>>

(* Without a worker FATAL is the end of main, which is alone.              *)
Dooming ==
    /\ ~async => \A t \in Threads :
         /\ msg[t] \in Fatal => t = Main /\ \A p \in Producers : pc[p] = "unborn"
         /\ \A i \in DOMAIN called[t] :
              called[t][i] \in Fatal => i = Len(called[t]) /\ msg[t] = called[t][i]
    /\ \A t \in Threads : pc[t] \in InCleanup /\ msg[t] # NoMessage => msg[t] \in Fatal

Ending ==
    /\ status = "success" => ~initialized /\ \A t \in Callers : Quiet(t)
    /\ ~async /\ status = "failure" => \A t \in Threads : pc[t] \notin Unprinted

Book == Calls /\ Waiting /\ Decided
Order == Printed /\ QueuedInOrder /\ BoundedOvertaking
FileSafe == FatalQueued \/ (FileInv /\ FileKept /\ Filed)
Ledger == TypeOK /\ Book /\ Order /\ Dooming /\ Ending /\ FileSafe

-----------------------------------------------------------------------------

(* A sequence with one more element.                                       *)
LEMMA Appended ==
    \A s \in Seq(Message), e \in Message :
      /\ Append(s, e) \in Seq(Message)
      /\ Len(s) \in Nat /\ Len(Append(s, e)) = Len(s) + 1
      /\ DOMAIN s = 1 .. Len(s) /\ DOMAIN Append(s, e) = 1 .. Len(s) + 1
      /\ \A i \in 1 .. Len(s) : Append(s, e)[i] = s[i]
      /\ Append(s, e)[Len(s) + 1] = e
  OBVIOUS

(* Its elements, and whether one of them comes twice.                      *)
LEMMA AppendedElements ==
    \A s \in Seq(Message), e \in Message : ElementsOf(Append(s, e)) = ElementsOf(s) \cup {e}
  <1> SUFFICES ASSUME NEW s \in Seq(Message), NEW e \in Message
               PROVE  ElementsOf(Append(s, e)) = ElementsOf(s) \cup {e}
    OBVIOUS
  <1>1. PICK a \in Seq(Message) : a = Append(s, e)
    BY Appended
  <1>2. /\ Len(s) \in Nat /\ DOMAIN s = 1 .. Len(s) /\ DOMAIN a = 1 .. Len(s) + 1
        /\ \A i \in 1 .. Len(s) : a[i] = s[i]
        /\ a[Len(s) + 1] = e
    BY <1>1, Appended
  <1>3. \A i \in 1 .. Len(s) + 1 : i \in 1 .. Len(s) \/ i = Len(s) + 1
    BY <1>2
  <1>4. Len(s) + 1 \in 1 .. Len(s) + 1 /\ \A i \in 1 .. Len(s) : i \in 1 .. Len(s) + 1
    BY <1>2
  <1> QED BY <1>1, <1>2, <1>3, <1>4 DEF ElementsOf

LEMMA AppendedInjective ==
    \A s \in Seq(Message), e \in Message :
      IsInjective(s) /\ e \notin ElementsOf(s) => IsInjective(Append(s, e))
  <1> SUFFICES ASSUME NEW s \in Seq(Message), NEW e \in Message,
                      IsInjective(s), e \notin ElementsOf(s)
               PROVE  IsInjective(Append(s, e))
    OBVIOUS
  <1>1. PICK a \in Seq(Message) : a = Append(s, e)
    BY Appended
  <1>2. /\ Len(s) \in Nat /\ DOMAIN s = 1 .. Len(s) /\ DOMAIN a = 1 .. Len(s) + 1
        /\ \A i \in 1 .. Len(s) : a[i] = s[i]
        /\ a[Len(s) + 1] = e
    BY <1>1, Appended
  <1>3. \A i \in 1 .. Len(s) : s[i] # e
    BY <1>2 DEF ElementsOf
  <1>4. \A i \in 1 .. Len(s) + 1 : i \in 1 .. Len(s) \/ i = Len(s) + 1
    BY <1>2
  <1> QED BY <1>1, <1>2, <1>3, <1>4 DEF IsInjective

(* The ring and the accepted messages after an enqueue and a dequeue.      *)
LEMMA PutView ==
    ASSUME QueueTypeOK, NEW m \in Message, Put(m)
    PROVE  /\ size \in Nat /\ size < Capacity /\ size' = size + 1
           /\ \A p \in 1 .. size : Contents'[p] = Contents[p]
           /\ Contents'[size + 1] = m
  <1>1. size \in Nat /\ size < Capacity /\ size' = size + 1
    BY CapacityAssumption DEF QueueTypeOK, RingOK, Put, Full
  <1>2. Contents \in Seq(Message) /\ Len(Contents) = size
    BY <1>1 DEF QueueTypeOK, Contents
  <1>3. Contents' = Append(Contents, m)
    BY PutAppends
  <1>4. /\ \A p \in 1 .. Len(Contents) : Append(Contents, m)[p] = Contents[p]
        /\ Append(Contents, m)[Len(Contents) + 1] = m
    BY <1>2, Appended
  <1> QED BY <1>1, <1>2, <1>3, <1>4

LEMMA TakeView ==
    ASSUME QueueTypeOK, Take
    PROVE  /\ size \in Nat /\ size > 0 /\ size' = size - 1
           /\ handed' = Contents[1] /\ handed' \in Message
           /\ \A p \in 1 .. size - 1 : Contents'[p] = Contents[p + 1]
  <1>1. size \in Nat /\ size > 0 /\ size' = size - 1
    BY DEF QueueTypeOK, RingOK, Take
  <1>2. Contents \in Seq(Message) /\ Len(Contents) = size
    BY <1>1 DEF QueueTypeOK, Contents
  <1>3. handed' \in Message /\ handed' = Head(Contents) /\ Contents' = Tail(Contents)
    BY TakeRemoves
  <1>4. PICK s \in Seq(Message) : s = Contents
    BY <1>2
  <1>5. Head(s) = s[1] /\ \A p \in 1 .. Len(s) - 1 : Tail(s)[p] = s[p + 1]
    BY <1>1, <1>2, <1>4
  <1> QED BY <1>1, <1>2, <1>3, <1>4, <1>5

(* A call of logger_log that takes a message.                              *)
LEMMA CallView ==
    ASSUME TypeOK, NEW t \in Callers, NEW m \in Fresh, LogCall(t, m),
           initialized, m \notin Silent
    PROVE  /\ m \in Message /\ pc[t] \in {"idle", "announce"}
           /\ pc' = [pc EXCEPT ![t] = IF async THEN "offer" ELSE "console"]
           /\ msg' = [msg EXCEPT ![t] = m]
           /\ Len(called[t]) \in Nat
           /\ DOMAIN called[t] = 1 .. Len(called[t])
           /\ DOMAIN called'[t] = 1 .. Len(called[t]) + 1
           /\ \A i \in 1 .. Len(called[t]) : called'[t][i] = called[t][i]
           /\ called'[t][Len(called[t]) + 1] = m
           /\ called'[t] # <<>> /\ Latest(t)' = m
           /\ \A u \in Threads \ {t} : called'[u] = called[u]
           /\ \A u \in Threads : \A i \in DOMAIN called[u] : called[u][i] # m
           /\ Logged' = Logged \cup {m} /\ m \notin Logged
  <1>0. t \in Threads /\ m \in Message /\ m \notin Logged
    BY DEF Threads, Fresh, Logged
  <1>1. /\ pc[t] \in {"idle", "announce"}
        /\ pc' = [pc EXCEPT ![t] = IF async THEN "offer" ELSE "console"]
        /\ msg' = [msg EXCEPT ![t] = m]
        /\ called' = [called EXCEPT ![t] = Append(@, m)]
    BY DEF LogCall
  <1>2. called \in [Threads -> Seq(Message)]
    BY DEF TypeOK
  <1>3. PICK s \in Seq(Message) : s = called[t]
    BY <1>0, <1>2
  <1>4. PICK a \in Seq(Message) : a = Append(s, m)
    BY <1>0, Appended
  <1>5. /\ called'[t] = a
        /\ \A u \in Threads \ {t} : called'[u] = called[u]
    BY <1>0, <1>1, <1>2, <1>3, <1>4
  <1>6. /\ Len(s) \in Nat /\ Len(a) = Len(s) + 1
        /\ DOMAIN s = 1 .. Len(s) /\ DOMAIN a = 1 .. Len(s) + 1
        /\ \A i \in 1 .. Len(s) : a[i] = s[i]
        /\ a[Len(s) + 1] = m
    BY <1>0, <1>4, Appended
  <1>7. a # <<>>
    BY <1>6
  <1>8. Latest(t)' = m
    BY <1>5, <1>6 DEF Latest
  <1>9. \A u \in Threads : \A i \in DOMAIN called[u] : called[u][i] # m
    BY <1>0 DEF Logged, ElementsOf
  <1>10. ElementsOf(a) = ElementsOf(s) \cup {m}
    BY <1>0, <1>4, AppendedElements
  <1>11. Logged' = Logged \cup {m}
    <2>1. Logged' = UNION {ElementsOf(called'[u]) : u \in Threads}
      BY DEF Logged, ElementsOf
    <2>2. \A u \in Threads : \/ ElementsOf(called'[u]) = ElementsOf(called[u])
                             \/ u = t /\ ElementsOf(called'[u]) = ElementsOf(called[u]) \cup {m}
      BY <1>3, <1>5, <1>10
    <2>3. ElementsOf(called'[t]) = ElementsOf(called[t]) \cup {m}
      BY <1>3, <1>5, <1>10
    <2>4. PICK old, new : /\ old = [u \in Threads |-> ElementsOf(called[u])]
                          /\ new = [u \in Threads |-> ElementsOf(called'[u])]
      OBVIOUS
    <2>5. Logged = UNION {old[u] : u \in Threads} /\ Logged' = UNION {new[u] : u \in Threads}
      BY <2>1, <2>4 DEF Logged
    <2>6. \A u \in Threads : \/ new[u] = old[u]
                             \/ u = t /\ new[u] = old[u] \cup {m}
      BY <2>2, <2>4
    <2>7. new[t] = old[t] \cup {m}
      BY <1>0, <2>3, <2>4
    <2> QED BY <1>0, <2>5, <2>6, <2>7
  <1> QED BY <1>0, <1>1, <1>3, <1>5, <1>6, <1>7, <1>8, <1>9, <1>11

(* The first call finds its thread past logger_init.                       *)
LEMMA CallsCall ==
    ASSUME TypeOK, Calls, NEW t \in Callers, NEW m \in Fresh, LogCall(t, m)
    PROVE  Calls'
  <1> USE ThreadAssumption
  <1>0. t \in Threads /\ t # Worker /\ Worker \in Threads /\ Main \in Threads
        /\ \A u \in Callers : u \in Threads /\ u # Worker
    BY DEF Threads, Callers
  <1>1. pc \in [Threads -> Locations] /\ msg \in [Threads -> Message \cup {NoMessage}]
    BY DEF TypeOK
  <1>2. CASE initialized /\ m \notin Silent
    <2>1. /\ m \in Message /\ pc[t] \in {"idle", "announce"}
          /\ pc' = [pc EXCEPT ![t] = IF async THEN "offer" ELSE "console"]
          /\ msg' = [msg EXCEPT ![t] = m]
          /\ Len(called[t]) \in Nat
          /\ DOMAIN called[t] = 1 .. Len(called[t])
          /\ DOMAIN called'[t] = 1 .. Len(called[t]) + 1
          /\ \A i \in 1 .. Len(called[t]) : called'[t][i] = called[t][i]
          /\ called'[t][Len(called[t]) + 1] = m
          /\ called'[t] # <<>> /\ Latest(t)' = m
          /\ \A u \in Threads \ {t} : called'[u] = called[u]
          /\ \A u \in Threads : \A i \in DOMAIN called[u] : called[u][i] # m
      BY <1>2, CallView
    <2>2. /\ pc'[Main] # "start" /\ pc[Main] # "start"
          /\ pc'[Worker] \notin Undecided
          /\ \A u \in Threads : pc'[u] \in Free => msg'[u] = NoMessage
      BY <1>0, <1>1, <2>1 DEF Calls, Free, Undecided
    <2>3. called'[Worker] = <<>>
      BY <1>0, <2>1 DEF Calls
    <2>4. \A u \in Callers : msg'[u] # NoMessage => called'[u] # <<>> /\ msg'[u] = Latest(u)'
      BY <1>0, <1>1, <2>1 DEF Calls, Latest
    <2>5. ASSUME NEW u \in Threads, NEW v \in Threads,
                 NEW i \in DOMAIN called'[u], NEW j \in DOMAIN called'[v],
                 called'[u][i] = called'[v][j]
          PROVE  u = v /\ i = j
      <3>1. \A x \in Threads : \A k \in DOMAIN called'[x] :
               \/ k \in DOMAIN called[x] /\ called'[x][k] = called[x][k]
               \/ x = t /\ k = Len(called[t]) + 1 /\ called'[x][k] = m
        BY <2>1
      <3> QED BY <2>1, <2>5, <3>1 DEF Calls
    <2> QED BY <2>2, <2>3, <2>4, <2>5 DEF Calls
  <1>3. CASE ~(initialized /\ m \notin Silent)
    <2>1. pc[t] \in {"idle", "announce"} /\ pc' = [pc EXCEPT ![t] = "idle"]
          /\ msg' = msg /\ called' = called
      BY <1>3 DEF LogCall
    <2> QED BY <1>0, <1>1, <2>1 DEF Calls, Free, Undecided, Latest
  <1> QED BY <1>2, <1>3

-----------------------------------------------------------------------------
(* Steps that leave the ledger alone.                                      *)

(* A step that leaves the ledger alone: a thread moves, and neither takes  *)
(* a message nor gives one away.                                           *)
Passes(t, to) ==
    /\ pc' = [pc EXCEPT ![t] = to]
    /\ \/ to = pc[t]
       \/ pc[t] = "file" /\ to = "fprintf"
       \/ pc[t] = "offer" /\ to = "admit"
       \/ /\ pc[t] \notin Holding \cup {"exited"} /\ to \notin Holding \cup {"start"}
          /\ to \in Free => msg[t] = NoMessage
          /\ pc[t] = "unborn" => t \in Producers /\ pc[Main] = "idle"
    /\ UNCHANGED <<queueVars, msg, output, async, called, accepted, refused>>

Passing == \E t \in Threads, to \in Locations : Passes(t, to)

(* Each step but those of Entry below passes the ledger by.                *)
LEMMA JumpPasses ==
    ASSUME TypeOK, NEW t \in Threads, NEW from, NEW to \in Locations,
           Jump(t, from, to), from \notin Holding \cup {"exited"}, to \notin Holding \cup {"start"},
           to \in Free => msg[t] = NoMessage,
           from = "unborn" => t \in Producers /\ pc[Main] = "idle"
    PROVE  Passing
  BY DEF Jump, Move, Passing, Passes, shared, output, history

LEMMA MainPasses ==
    ASSUME TypeOK, Calls, InstallHandler \/ MainCleanup \/ MainReturn \/ Signal
    PROVE  Passing
  <1> USE DEF shared, output, process, history
  <1>0. Main \in Threads /\ pc \in [Threads -> Locations]
    BY DEF Threads, Callers, TypeOK
  <1>1. CASE pc' = pc /\ UNCHANGED <<queueVars, msg, output, async, called, accepted, refused>>
    <2>1. pc' = [pc EXCEPT ![Main] = pc[Main]] /\ pc[Main] \in Locations
      BY <1>0, <1>1
    <2> QED BY <1>0, <1>1, <2>1 DEF Passing, Passes
  <1>2. CASE MainCleanup
    BY <1>0, <1>2, JumpPasses DEF MainCleanup, Holding, Free, Locations
  <1>3. CASE MainReturn
    <2>1. "exited" \in Locations /\ "exited" \notin Holding \cup {"start"} \cup Free
          /\ "idle" \notin Holding \cup {"unborn", "exited"}
      BY DEF Locations, Holding, Free
    <2>2. Passes(Main, "exited")
      BY <1>0, <1>3, <2>1 DEF MainReturn, Move, Passes
    <2> QED BY <1>0, <2>1, <2>2 DEF Passing
  <1>4. InstallHandler \/ Signal => pc' = pc /\ UNCHANGED <<queueVars, msg, output, async, called, accepted, refused>>
    BY DEF InstallHandler, Signal
  <1> QED BY <1>1, <1>2, <1>3, <1>4

LEMMA ThreadsPass ==
    ASSUME TypeOK, Calls, NEW p \in Producers, StartThread(p) \/ StopThread(p)
    PROVE  Passing
  <1>1. p \in Threads
    BY DEF Threads, Callers
  <1>2. pc[p] \in {"unborn", "idle"} => msg[p] = NoMessage
    BY <1>1 DEF Calls, Free
  <1>3. CASE StartThread(p)
    BY <1>1, <1>2, <1>3, JumpPasses DEF StartThread, Jump, Move, Locations, Holding, Free
  <1>4. CASE StopThread(p)
    BY <1>1, <1>4, JumpPasses DEF StopThread, Locations, Holding, Free
  <1> QED BY <1>3, <1>4

LEMMA WorkerPasses ==
    ASSUME TypeOK, Calls, WorkerLoop \/ WorkerEmpty \/ WorkerIdle
    PROVE  Passing
  <1>1. Worker \in Threads
    BY DEF Threads
  <1>2. pc[Worker] \in {"loop", "take", "empty"} => msg[Worker] = NoMessage
    BY <1>1 DEF Calls, Free
  <1>3. CASE WorkerLoop
    BY <1>1, <1>2, <1>3, JumpPasses DEF WorkerLoop, Jump, Move, Locations, Holding, Free
  <1>4. CASE WorkerEmpty
    BY <1>1, <1>2, <1>4, JumpPasses DEF WorkerEmpty, Jump, Move, Locations, Holding, Free
  <1>5. CASE WorkerIdle
    BY <1>1, <1>2, <1>5, JumpPasses DEF WorkerIdle, Jump, Move, Locations, Holding, Free
  <1> QED BY <1>3, <1>4, <1>5

LEMMA CleanupPasses ==
    ASSUME TypeOK, NEW t \in Threads, Cleanup(t)
    PROVE  Passing
  <1> USE DEF Locations, Holding, Free
  <1>1. CASE CleanupTest(t) \/ CleanupJoin(t) \/ CleanupTestFile(t)
    <2>1. CASE CleanupTest(t)
      BY <2>1, JumpPasses DEF CleanupTest
    <2>2. CASE CleanupJoin(t)
      BY <2>2, JumpPasses DEF CleanupJoin
    <2>3. CASE CleanupTestFile(t)
      BY <2>3, JumpPasses DEF CleanupTestFile
    <2> QED BY <1>1, <2>1, <2>2, <2>3
  <1>2. ASSUME CleanupReturn(t), pc[t] \in {"cleanup", "lower"},
               UNCHANGED <<queueVars, msg, output, async, called, accepted, refused>>
        PROVE  Passing
    <2>1. CASE msg[t] = NoMessage
      <3>1. Passes(t, "idle")
        BY <1>2, <2>1 DEF CleanupReturn, Passes
      <3> QED BY <3>1 DEF Passing
    <2>2. CASE msg[t] # NoMessage
      <3>1. Passes(t, "exited")
        BY <1>2, <2>2 DEF CleanupReturn, Passes
      <3> QED BY <3>1 DEF Passing
    <2> QED BY <2>1, <2>2
  <1>3. ASSUME NEW from \in InCleanup, NEW to \in InCleanup, Move(t, from, to),
               UNCHANGED <<queueVars, msg, output, async, called, accepted, refused>>
        PROVE  Passing
    <2>1. Passes(t, to) /\ to \in Locations
      BY <1>3 DEF Move, Passes, InCleanup, AfterJoin
    <2> QED BY <2>1 DEF Passing
  <1> USE DEF shared, output, process, history, InCleanup, AfterJoin
  <1>4. CASE CleanupEnter(t)
    BY <1>2, <1>3, <1>4 DEF CleanupEnter
  <1>5. CASE CleanupRaise(t)
    BY <1>3, <1>5 DEF CleanupRaise
  <1>6. CASE CleanupStop(t)
    BY <1>3, <1>6 DEF CleanupStop
  <1>7. CASE CleanupClose(t)
    <2>1. CASE logFile = "open"
      BY <1>3, <1>7, <2>1 DEF CleanupClose
    <2>2. CASE logFile # "open"
      <3>1. pc \in [Threads -> Locations]
        BY DEF TypeOK
      <3>2. pc' = [pc EXCEPT ![t] = pc[t]] /\ pc[t] \in Locations
        BY <1>7, <2>2, <3>1 DEF CleanupClose
      <3>3. Passes(t, pc[t])
        BY <1>7, <2>2, <3>2 DEF CleanupClose, Passes
      <3> QED BY <3>2, <3>3 DEF Passing
    <2> QED BY <2>1, <2>2
  <1>8. CASE CleanupClear(t)
    BY <1>3, <1>8 DEF CleanupClear
  <1>9. CASE CleanupUninit(t)
    BY <1>3, <1>9 DEF CleanupUninit
  <1>10. CASE CleanupLower(t)
    BY <1>2, <1>10 DEF CleanupLower
  <1> QED BY <1>1, <1>4, <1>5, <1>6, <1>7, <1>8, <1>9, <1>10 DEF Cleanup

(* A passing step keeps what the ledger says.                              *)
LEMMA PassCalls ==
    ASSUME TypeOK, Calls, Passing
    PROVE  Calls'
  <1>1. PICK t \in Threads, to \in Locations : Passes(t, to)
    BY DEF Passing
  <1>2. /\ pc \in [Threads -> Locations] /\ Main \in Threads /\ Worker \in Threads
        /\ Main # Worker
    BY ThreadAssumption DEF TypeOK, Threads, Callers
  <1>3. /\ pc' = [pc EXCEPT ![t] = to] /\ msg' = msg /\ called' = called
        /\ \/ to = pc[t]
           \/ pc[t] = "file" /\ to = "fprintf"
           \/ pc[t] = "offer" /\ to = "admit"
           \/ /\ pc[t] \notin Holding \cup {"exited"} /\ to \notin Holding \cup {"start"}
              /\ to \in Free => msg[t] = NoMessage
              /\ pc[t] = "unborn" => t \in Producers /\ pc[Main] = "idle"
    BY <1>1 DEF Passes
  <1>4. \A u \in Threads : pc'[u] = IF u = t THEN to ELSE pc[u]
    BY <1>2, <1>3
  <1>5. pc'[Main] = "start" =>
          /\ pc[Main] = "start"
          /\ \A u \in Threads \ {Main} : pc'[u] = "unborn"
    BY <1>2, <1>3, <1>4 DEF Calls, Holding
  <1>6. \A u \in Threads : pc'[u] \in Free => msg[u] = NoMessage
    BY <1>2, <1>3, <1>4 DEF Calls, Free
  <1>7. pc'[Worker] \notin Undecided
    BY <1>2, <1>3, <1>4 DEF Calls, Undecided, Holding
  <1> QED BY <1>3, <1>5, <1>6, <1>7 DEF Calls, Latest

LEMMA PassPlaces ==
    ASSUME TypeOK, Passing
    PROVE  \A u \in Threads : /\ pc'[u] \in Unprinted <=> pc[u] \in Unprinted
                              /\ pc'[u] \in Undecided <=> pc[u] \in Undecided
                              /\ pc'[u] = "console" <=> pc[u] = "console"
                              /\ pc'[u] \in Holding <=> pc[u] \in Holding
  <1>1. PICK t \in Threads, to \in Locations : Passes(t, to)
    BY DEF Passing
  <1>2. pc \in [Threads -> Locations]
    BY DEF TypeOK
  <1>3. /\ pc' = [pc EXCEPT ![t] = to]
        /\ \/ to = pc[t]
           \/ pc[t] = "file" /\ to = "fprintf"
           \/ pc[t] = "offer" /\ to = "admit"
           \/ pc[t] \notin Holding \cup {"exited"} /\ to \notin Holding
    BY <1>1 DEF Passes
  <1>4. \A u \in Threads : pc'[u] = IF u = t THEN to ELSE pc[u]
    BY <1>2, <1>3
  <1> QED BY <1>3, <1>4 DEF Undecided, Unprinted, Holding

LEMMA PassWaits ==
    ASSUME TypeOK, Waiting, Decided, Passing
    PROVE  Waiting' /\ Decided'
  <1>1. /\ UNCHANGED <<queueVars, msg, output, async, called, accepted, refused>>
    BY DEF Passing, Passes
  <1>2. Contents' = Contents /\ size' = size /\ Taken' = Taken /\ Logged' = Logged
    BY <1>1 DEF queueVars, Contents, Taken, Logged, ElementsOf
  <1>3. Waiting'
    BY <1>1, <1>2 DEF Waiting
  <1>4. Decided'
    <2>1. /\ ElementsOf(accepted)' = ElementsOf(accepted)
          /\ ElementsOf(refused)' = ElementsOf(refused)
          /\ IsInjective(accepted)' = IsInjective(accepted)
      BY <1>1 DEF ElementsOf, IsInjective
    <2>2. \A t \in Callers : t \in Threads
      BY DEF Threads
    <2>3. \A t \in Threads : pc'[t] \in Undecided => async' /\ msg'[t] \notin ElementsOf(refused)'
      BY <1>1, <2>1, PassPlaces DEF Decided
    <2>4. \A t \in Callers : async' /\ pc'[t] = "console" => msg'[t] \in ElementsOf(refused)'
      BY <1>1, <2>1, <2>2, PassPlaces DEF Decided
    <2> QED BY <1>1, <1>2, <2>1, <2>3, <2>4 DEF Decided
  <1> QED BY <1>3, <1>4

LEMMA PassPrinted ==
    ASSUME TypeOK, Passing
    PROVE  /\ Printed => Printed'
           /\ QueuedInOrder => QueuedInOrder'
           /\ BoundedOvertaking => BoundedOvertaking'
  <1>1. UNCHANGED <<queueVars, msg, output, async, called, accepted, refused>>
    BY DEF Passing, Passes
  <1>2. /\ size' = size /\ Taken' = Taken /\ Logged' = Logged
        /\ console' = console /\ accepted' = accepted /\ msg' = msg
        /\ called' = called /\ refused' = refused
    BY <1>1 DEF queueVars, Taken, Logged, ElementsOf, output
  <1>3. \A m \in Logged : Pending(m)' <=> Pending(m)
    BY <1>2, PassPlaces DEF Pending, InRing, HeldAt
  <1>4. Printed => Printed'
    BY <1>2, <1>3 DEF Printed, IsInjective, ElementsOf
  <1>5. QueuedInOrder => QueuedInOrder'
    BY <1>2 DEF QueuedInOrder, IsInjective
  <1>6. BoundedOvertaking => BoundedOvertaking'
    <2>1. \A t, j, k : Overtaken(t, j, k)' = Overtaken(t, j, k)
      BY <1>2 DEF Overtaken
    <2>2. ElementsOf(refused)' = ElementsOf(refused)
      BY <1>2 DEF ElementsOf
    <2> QED BY <1>2, <2>1, <2>2 DEF BoundedOvertaking
  <1> QED BY <1>4, <1>5, <1>6

LEMMA PassFiled ==
    ASSUME TypeOK, Passing
    PROVE  /\ fileLog' = fileLog /\ Logged' = Logged
           /\ \A m \in Logged : Unfiled(m)' <=> Unfiled(m)
  <1>1. UNCHANGED <<queueVars, msg, output, async, called, accepted, refused>>
    BY DEF Passing, Passes
  <1>2. /\ size' = size /\ Taken' = Taken /\ Logged' = Logged
        /\ fileLog' = fileLog /\ accepted' = accepted /\ msg' = msg
    BY <1>1 DEF queueVars, Taken, Logged, ElementsOf, output
  <1> QED BY <1>2, PassPlaces DEF Unfiled, InRing, HeldAt

-----------------------------------------------------------------------------
(* The calls: each step keeps them.                                        *)

(* A thread that hands its message over, or lays it down.                  *)
LEMMA CallsHand ==
    ASSUME TypeOK, Calls, NEW t \in Threads, NEW to \in Locations \ {"start"},
           pc[t] \in Holding \cup {"take"}, to \in Undecided => t \in Callers,
           pc' = [pc EXCEPT ![t] = to], called' = called,
           \/ msg' = msg /\ to \notin Free
           \/ msg' = [msg EXCEPT ![t] = NoMessage]
           \/ t = Worker /\ msg' = [msg EXCEPT ![t] = handed'] /\ to \notin Free
    PROVE  Calls'
  <1>1. /\ pc \in [Threads -> Locations] /\ msg \in [Threads -> Message \cup {NoMessage}]
        /\ Main \in Threads /\ Worker \in Threads /\ Worker \notin Callers
        /\ \A u \in Callers : u \in Threads
        /\ Main # Worker
    BY ThreadAssumption DEF TypeOK, Threads, Callers
  <1>2. /\ \A u \in Threads : pc'[u] = IF u = t THEN to ELSE pc[u]
        /\ \A u \in Threads : u # t => msg'[u] = msg[u]
    BY <1>1
  <1>3. pc'[Main] # "start"
    <2>1. pc[Main] # "start"
      BY <1>1 DEF Calls, Holding
    <2> QED BY <1>1, <1>2, <2>1
  <1>4. \A u \in Threads : pc'[u] \in Free => msg'[u] = NoMessage
    BY <1>1, <1>2 DEF Calls
  <1>5. pc'[Worker] \notin Undecided
    BY <1>1, <1>2 DEF Calls
  <1>6. \A u \in Callers : msg'[u] # NoMessage => msg'[u] = msg[u]
    BY <1>1, <1>2
  <1> QED BY <1>3, <1>4, <1>5, <1>6 DEF Calls, Latest

LEMMA CallsStart ==
    ASSUME TypeOK, Calls, LoggerInit
    PROVE  Calls'
  <1>1. /\ pc \in [Threads -> Locations] /\ Main \in Threads /\ Worker \in Threads
        /\ Main # Worker
    BY ThreadAssumption DEF TypeOK, Threads, Callers
  <1>2. /\ pc[Main] = "start" /\ msg' = msg /\ called' = called
        /\ pc' = [pc EXCEPT ![Main] = "announce",
                            ![Worker] = IF async' THEN "loop" ELSE @]
    BY DEF LoggerInit, history
  <1>3. pc[Worker] = "unborn" /\ msg[Worker] = NoMessage /\ msg[Main] = NoMessage
    BY <1>1, <1>2 DEF Calls, Free
  <1>4. /\ pc'[Main] = "announce"
        /\ pc'[Worker] \in {"loop", "unborn"}
        /\ \A u \in Threads \ {Main, Worker} : pc'[u] = pc[u]
    BY <1>1, <1>2, <1>3
  <1> QED BY <1>1, <1>2, <1>3, <1>4 DEF Calls, Latest, Free, Undecided

LEMMA CallsOffer ==
    ASSUME TypeOK, Calls, NEW t \in Callers, Offer(t) \/ Admit(t) \/ Overflow(t)
    PROVE  Calls'
  <1> USE DEF Locations, Holding, Free
  <1>1. t \in Threads
    BY DEF Threads
  <1>2. CASE Offer(t)
    <2>1. /\ pc[t] = "offer" /\ msg' = msg /\ called' = called
          /\ pc' = [pc EXCEPT ![t] = IF graceful THEN "console" ELSE "admit"]
      BY <1>2 DEF Offer, Move
    <2>2. CASE graceful
      BY <1>1, <2>1, <2>2, CallsHand
    <2>3. CASE ~graceful
      BY <1>1, <2>1, <2>3, CallsHand
    <2> QED BY <2>2, <2>3
  <1>3. CASE Admit(t)
    <2>1. /\ pc[t] = "admit" /\ pc' = [pc EXCEPT ![t] = "idle"]
          /\ msg' = [msg EXCEPT ![t] = NoMessage] /\ called' = called
      BY <1>3 DEF Admit, Move
    <2> QED BY <1>1, <2>1, CallsHand
  <1>4. CASE Overflow(t)
    <2>1. /\ pc[t] = "admit" /\ pc' = [pc EXCEPT ![t] = "console"]
          /\ msg' = msg /\ called' = called
      BY <1>4 DEF Overflow, Move
    <2> QED BY <1>1, <2>1, CallsHand
  <1> QED BY <1>2, <1>3, <1>4

(* Where a thread is after process_message wrote its message, and what it  *)
(* holds then.                                                             *)
LEMMA WrittenView ==
    ASSUME TypeOK, NEW t \in Threads, Written(t)
    PROVE  \/ /\ msg[t] \in Fatal /\ msg' = msg /\ pc' = [pc EXCEPT ![t] = "cleanup"]
           \/ /\ msg[t] \notin Fatal /\ msg' = [msg EXCEPT ![t] = NoMessage]
              /\ t = Worker /\ pc' = [pc EXCEPT ![t] = "loop"]
           \/ /\ msg[t] \notin Fatal /\ msg' = [msg EXCEPT ![t] = NoMessage]
              /\ t # Worker /\ pc' = [pc EXCEPT ![t] = "idle"]
  BY DEF Written

LEMMA CallsWritten ==
    ASSUME TypeOK, Calls, NEW t \in Threads, pc[t] \in Holding, called' = called, Written(t)
    PROVE  Calls'
  <1>1. {"cleanup", "loop", "idle"} \subseteq Locations \ ({"start"} \cup Undecided)
    BY DEF Locations, Undecided
  <1>2. "cleanup" \notin Free
    BY DEF Free
  <1> QED BY <1>1, <1>2, WrittenView, CallsHand

LEMMA CallsProcess ==
    ASSUME TypeOK, Calls, NEW t \in Threads, Process(t)
    PROVE  Calls'
  <1> USE DEF Holding
  <1>1. CASE WriteConsole(t)
    <2>1. /\ pc[t] = "console" /\ pc' = [pc EXCEPT ![t] = "file"]
          /\ msg' = msg /\ called' = called
      BY <1>1 DEF WriteConsole, Move, history
    <2> QED BY <2>1, CallsHand DEF Locations, Undecided, Free
  <1>2. CASE TestFile(t)
    <2>1. pc[t] = "file" /\ called' = called
      BY <1>2 DEF TestFile, history
    <2>2. CASE logFile = "none"
      BY <1>2, <2>1, <2>2, CallsWritten DEF TestFile
    <2>3. CASE logFile # "none"
      <3>1. pc' = [pc EXCEPT ![t] = "fprintf"] /\ msg' = msg
        BY <1>2, <2>3 DEF TestFile, Move
      <3> QED BY <2>1, <3>1, CallsHand DEF Locations, Undecided, Free
    <2> QED BY <2>2, <2>3
  <1>3. CASE WriteFile(t)
    <2>1. pc[t] = "fprintf" /\ called' = called
      BY <1>3 DEF WriteFile, history
    <2>2. CASE logFile = "open"
      BY <1>3, <2>1, <2>2, CallsWritten DEF WriteFile
    <2>3. CASE logFile # "open"
      <3>1. pc' = pc /\ msg' = msg
        BY <1>3, <2>3 DEF WriteFile
      <3> QED BY <2>1, <3>1 DEF Calls, Latest
    <2> QED BY <2>2, <2>3
  <1> QED BY <1>1, <1>2, <1>3 DEF Process

LEMMA CallsTake ==
    ASSUME TypeOK, Calls, WorkerTake
    PROVE  Calls'
  <1>1. /\ pc[Worker] = "take" /\ pc' = [pc EXCEPT ![Worker] = "console"]
        /\ msg' = [msg EXCEPT ![Worker] = handed'] /\ called' = called
    BY DEF WorkerTake, Move, history
  <1>2. Worker \in Threads
    BY DEF Threads
  <1> QED BY <1>1, <1>2, CallsHand DEF Locations, Undecided, Free

-----------------------------------------------------------------------------
(* The ring and what was accepted.                                         *)

(* The three steps on the ring: none, an enqueue, a dequeue.               *)
LEMMA WaitsKept ==
    ASSUME Waiting, UNCHANGED <<queueVars, accepted>>, msg'[Worker] \in {msg[Worker], NoMessage}
    PROVE  Waiting'
  <1>1. Contents' = Contents /\ size' = size /\ Taken' = Taken /\ accepted' = accepted
    BY DEF queueVars, Contents, Taken
  <1> QED BY <1>1 DEF Waiting

LEMMA WaitsAdmit ==
    ASSUME TypeOK, Waiting, NEW t \in Callers, Admit(t)
    PROVE  Waiting' /\ Taken' = Taken
  <1>1. msg[t] \in Message /\ Put(msg[t]) /\ accepted' = Append(accepted, msg[t])
        /\ msg' = [msg EXCEPT ![t] = NoMessage] /\ t # Worker
        /\ QueueTypeOK /\ accepted \in Seq(Message)
    BY ThreadAssumption DEF Admit, Move, TypeOK, Callers, Threads
  <1>2. PICK m \in Message : m = msg[t]
    BY <1>1
  <1>3. /\ size \in Nat /\ size < Capacity /\ size' = size + 1
        /\ \A p \in 1 .. size : Contents'[p] = Contents[p]
        /\ Contents'[size + 1] = m
    BY <1>1, <1>2, PutView
  <1>4. /\ Len(accepted) \in Nat /\ Len(accepted') = Len(accepted) + 1
        /\ DOMAIN accepted = 1 .. Len(accepted) /\ DOMAIN accepted' = 1 .. Len(accepted) + 1
        /\ \A i \in 1 .. Len(accepted) : accepted'[i] = accepted[i]
        /\ accepted'[Len(accepted) + 1] = m
    BY <1>1, <1>2, Appended
  <1>5. size <= Len(accepted)
    BY <1>3, <1>4 DEF Waiting
  <1>6. Taken \in Nat /\ Taken' = Taken /\ Taken + size = Len(accepted)
    BY <1>3, <1>4, <1>5 DEF Taken
  <1>7. \A p \in 1 .. size' : Contents'[p] = accepted'[Taken' + p]
    <2> SUFFICES ASSUME NEW p \in 1 .. size + 1
                 PROVE  Contents'[p] = accepted'[Taken + p]
      BY <1>3, <1>6
    <2>1. CASE p = size + 1
      <3>1. Taken + p = Len(accepted) + 1
        BY <2>1, <1>3, <1>4, <1>6
      <3> QED BY <2>1, <3>1, <1>3, <1>4
    <2>2. CASE p # size + 1
      <3>1. p \in 1 .. size /\ Taken + p \in 1 .. Len(accepted)
        BY <2>2, <1>3, <1>4, <1>6
      <3> QED BY <3>1, <1>3, <1>4 DEF Waiting
    <2> QED BY <2>1, <2>2
  <1>8. msg'[Worker] = msg[Worker]
    BY <1>1 DEF TypeOK, Threads
  <1>9. msg'[Worker] # NoMessage => Taken' \in DOMAIN accepted' /\ msg'[Worker] = accepted'[Taken']
    BY <1>4, <1>6, <1>8 DEF Waiting
  <1>10. size' \in 0 .. Len(accepted')
    BY <1>3, <1>4, <1>5
  <1> QED BY <1>6, <1>7, <1>9, <1>10 DEF Waiting

LEMMA WaitsTake ==
    ASSUME TypeOK, Waiting, WorkerTake
    PROVE  /\ Waiting' /\ Taken' = Taken + 1 /\ Taken \in Nat
           /\ size \in Nat /\ size' = size - 1 /\ size > 0
           /\ msg'[Worker] = accepted[Taken + 1] /\ Taken + 1 \in DOMAIN accepted
  <1>1. /\ Take /\ QueueTypeOK /\ accepted \in Seq(Message) /\ accepted' = accepted
        /\ msg' = [msg EXCEPT ![Worker] = handed'] /\ msg'[Worker] = handed'
    <2>1. Take /\ QueueTypeOK /\ accepted \in Seq(Message) /\ accepted' = accepted
          /\ msg' = [msg EXCEPT ![Worker] = handed']
      BY DEF WorkerTake, TypeOK, history
    <2> QED BY <2>1 DEF TypeOK, Threads
  <1>2. /\ size \in Nat /\ size > 0 /\ size' = size - 1
        /\ handed' = Contents[1] /\ handed' \in Message
        /\ \A p \in 1 .. size - 1 : Contents'[p] = Contents[p + 1]
    BY <1>1, TakeView
  <1>3. Len(accepted) \in Nat /\ DOMAIN accepted = 1 .. Len(accepted) /\ size <= Len(accepted)
    <2>1. Len(accepted) \in Nat /\ DOMAIN accepted = 1 .. Len(accepted)
      BY <1>1
    <2> QED BY <2>1, <1>2 DEF Waiting
  <1>4. Taken \in Nat /\ Taken' = Taken + 1 /\ Taken + size = Len(accepted)
    BY <1>1, <1>2, <1>3 DEF Taken
  <1>5. msg'[Worker] = accepted[Taken + 1] /\ Taken + 1 \in DOMAIN accepted
    <2>1. 1 \in 1 .. size /\ Taken + 1 \in DOMAIN accepted
      BY <1>2, <1>3, <1>4
    <2> QED BY <2>1, <1>1, <1>2 DEF Waiting
  <1>6. ASSUME NEW p \in 1 .. size' PROVE Contents'[p] = accepted'[Taken' + p]
    <2>1. p \in 1 .. size - 1 /\ p + 1 \in 1 .. size /\ Taken' + p = Taken + (p + 1)
      BY <1>2, <1>4, <1>6
    <2>2. Contents[p + 1] = accepted[Taken + (p + 1)]
      BY <2>1 DEF Waiting
    <2> QED BY <2>1, <2>2, <1>1, <1>2
  <1>7. size' \in 0 .. Len(accepted')
    BY <1>1, <1>2, <1>3
  <1> QED BY <1>1, <1>2, <1>4, <1>5, <1>6, <1>7 DEF Waiting

(* Two threads hold different messages, and what a thread holds was logged.*)
LEMMA Hands ==
    ASSUME TypeOK, Calls, NEW t \in Callers, msg[t] # NoMessage
    PROVE  /\ Len(called[t]) \in DOMAIN called[t] /\ msg[t] = called[t][Len(called[t])]
           /\ msg[t] \in Logged
           /\ \A u \in Callers : u # t => msg[u] # msg[t]
  <1>1. t \in Threads /\ called \in [Threads -> Seq(Message)] /\ \A u \in Callers : u \in Threads
    BY DEF Threads, TypeOK
  <1>2. \A u \in Callers : msg[u] # NoMessage =>
          Len(called[u]) \in DOMAIN called[u] /\ msg[u] = called[u][Len(called[u])]
    <2> SUFFICES ASSUME NEW u \in Callers, msg[u] # NoMessage
                 PROVE  Len(called[u]) \in DOMAIN called[u] /\ msg[u] = called[u][Len(called[u])]
      OBVIOUS
    <2>1. called[u] # <<>> /\ msg[u] = Latest(u)
      BY DEF Calls
    <2>2. called[u] \in Seq(Message)
      BY <1>1
    <2> QED BY <2>1, <2>2 DEF Latest
  <1>3. \A u \in Callers : u # t => msg[u] # msg[t]
    BY <1>1, <1>2 DEF Calls
  <1>4. msg[t] \in Logged
    BY <1>1, <1>2 DEF Logged, ElementsOf
  <1> QED BY <1>2, <1>3, <1>4

-----------------------------------------------------------------------------
(* What was decided.                                                       *)

(* Nothing new is logged, accepted or refused.                             *)
LEMMA DecidedKept ==
    ASSUME Decided, UNCHANGED <<accepted, refused, called, async>>,
           \A u \in Callers : msg'[u] \in {msg[u], NoMessage},
           \A u \in Threads : \A l \in Undecided \cup {"console"} :
              u \in Callers \/ l \in Undecided =>
                (pc'[u] = l => pc[u] = l /\ msg'[u] = msg[u])
    PROVE  Decided'
  <1>1. /\ Logged' = Logged /\ ElementsOf(accepted)' = ElementsOf(accepted)
        /\ ElementsOf(refused)' = ElementsOf(refused)
        /\ IsInjective(accepted)' = IsInjective(accepted)
    BY DEF Logged, ElementsOf, IsInjective
  <1>2. \A t \in Callers : t \in Threads
    BY DEF Threads
  <1>3. \A u \in Callers : msg'[u] # NoMessage => msg'[u] \notin ElementsOf(accepted)'
    BY <1>1 DEF Decided
  <1>4. \A u \in Threads : pc'[u] \in Undecided => async' /\ msg'[u] \notin ElementsOf(refused)'
    BY <1>1 DEF Decided
  <1>5. \A u \in Callers : async' /\ pc'[u] = "console" => msg'[u] \in ElementsOf(refused)'
    BY <1>1, <1>2 DEF Decided
  <1> QED BY <1>1, <1>3, <1>4, <1>5 DEF Decided

LEMMA DecidedProcess ==
    ASSUME TypeOK, Calls, Decided, NEW t \in Threads, Process(t)
    PROVE  Decided'
  <1>1. pc \in [Threads -> Locations] /\ msg \in [Threads -> Message \cup {NoMessage}]
        /\ \A u \in Callers : u \in Threads
    BY DEF TypeOK, Threads
  <1>2. UNCHANGED <<accepted, refused, called, async>>
    BY DEF Process, WriteConsole, TestFile, WriteFile, history, shared
  <1>3. /\ \/ msg' = msg \/ msg' = [msg EXCEPT ![t] = NoMessage]
        /\ \/ pc' = pc
           \/ \E l \in {"file", "fprintf", "cleanup", "loop", "idle"} : pc' = [pc EXCEPT ![t] = l]
    <2>1. Written(t) =>
            /\ \/ msg' = msg \/ msg' = [msg EXCEPT ![t] = NoMessage]
            /\ \E l \in {"cleanup", "loop", "idle"} : pc' = [pc EXCEPT ![t] = l]
      BY WrittenView
    <2> QED BY <2>1 DEF Process, WriteConsole, TestFile, WriteFile, Move
  <1>4. pc[t] \in {"console", "file", "fprintf"}
    BY DEF Process, WriteConsole, TestFile, WriteFile, Move
  <1>5. \A u \in Threads : msg'[u] \in {msg[u], NoMessage}
    BY <1>1, <1>3
  <1>6. \A u \in Threads : \/ pc'[u] = pc[u] /\ msg'[u] = msg[u]
                           \/ pc'[u] \notin Undecided \cup {"console"}
                           \/ pc' = pc
    BY <1>1, <1>3 DEF Undecided
  <1>7. pc' = pc => pc[t] = "fprintf" /\ msg' = msg
    BY <1>1, <1>4 DEF Process, WriteConsole, TestFile, WriteFile, Move, Written, Locations
  <1>8. \A u \in Threads : \A l \in Undecided \cup {"console"} :
          pc'[u] = l => pc[u] = l /\ msg'[u] = msg[u]
    BY <1>6, <1>7
  <1> QED BY <1>1, <1>2, <1>5, <1>8, DecidedKept

LEMMA DecidedTake ==
    ASSUME TypeOK, Calls, Decided, WorkerTake
    PROVE  Decided'
  <1>1. /\ pc \in [Threads -> Locations] /\ msg \in [Threads -> Message \cup {NoMessage}]
        /\ Worker \in Threads /\ Worker \notin Callers /\ \A u \in Callers : u \in Threads
    BY ThreadAssumption DEF TypeOK, Threads, Callers
  <1>2. /\ pc' = [pc EXCEPT ![Worker] = "console"] /\ msg' = [msg EXCEPT ![Worker] = handed']
        /\ UNCHANGED <<accepted, refused, called, async>>
    BY DEF WorkerTake, Move, history, shared
  <1>3. \A u \in Callers : msg'[u] = msg[u] /\ pc'[u] = pc[u]
    BY <1>1, <1>2
  <1>4. \A u \in Threads : \A l \in Undecided \cup {"console"} :
          u \in Callers \/ l \in Undecided => (pc'[u] = l => pc[u] = l /\ msg'[u] = msg[u])
    BY <1>1, <1>2, <1>3 DEF Undecided
  <1> QED BY <1>2, <1>3, <1>4, DecidedKept

(* Nothing is logged before logger_init has run.                           *)
LEMMA DecidedStart ==
    ASSUME TypeOK, Calls, Decided, LoggerInit
    PROVE  Decided' /\ Logged = {} /\ Logged' = {} /\ \A t \in Threads : pc'[t] \notin Holding
  <1>0. pc \in [Threads -> Locations] /\ Main \in Threads /\ Worker \in Threads
        /\ \A u \in Callers : u \in Threads
    BY DEF TypeOK, Threads, Callers
  <1>1. /\ pc[Main] = "start" /\ msg' = msg
        /\ UNCHANGED <<called, accepted, refused>>
        /\ pc' = [pc EXCEPT ![Main] = "announce",
                            ![Worker] = IF async' THEN "loop" ELSE @]
    BY DEF LoggerInit, history
  <1>2. Logged = {} /\ Logged' = {}
    BY <1>1 DEF Calls, Logged, ElementsOf
  <1>3. ElementsOf(accepted) = {} /\ ElementsOf(refused) = {}
    BY <1>2 DEF Decided
  <1>4. accepted = <<>>
    <2>1. accepted \in Seq(Message)
      BY DEF TypeOK
    <2>2. DOMAIN accepted = {}
      BY <1>3 DEF ElementsOf
    <2>3. Len(accepted) = 0
      BY <2>1, <2>2
    <2> QED BY <2>1, <2>3
  <1>5. \A t \in Threads : pc[t] \notin Holding
    BY <1>0, <1>1 DEF Calls, Holding
  <1>6. \A t \in Threads : pc'[t] \notin Holding
    BY <1>0, <1>1, <1>5 DEF Holding
  <1>7. \A t \in Threads : pc'[t] \notin Undecided /\ pc'[t] # "console"
    BY <1>6 DEF Holding, Undecided
  <1>8. /\ Logged' = Logged /\ ElementsOf(accepted)' = ElementsOf(accepted)
        /\ ElementsOf(refused)' = ElementsOf(refused)
        /\ IsInjective(accepted)' = IsInjective(accepted)
    BY <1>1, <1>2 DEF ElementsOf, IsInjective
  <1>9. Decided'
    BY <1>0, <1>1, <1>4, <1>7, <1>8 DEF Decided
  <1> QED BY <1>2, <1>6, <1>9

LEMMA DecidedCall ==
    ASSUME TypeOK, Calls, Decided, NEW t \in Callers, NEW m \in Fresh, LogCall(t, m)
    PROVE  Decided'
  <1>0. pc \in [Threads -> Locations] /\ msg \in [Threads -> Message \cup {NoMessage}]
        /\ t \in Threads /\ (\A u \in Callers : u \in Threads) /\ Worker \in Threads
        /\ t # Worker
    BY ThreadAssumption DEF TypeOK, Threads, Callers
  <1>1. UNCHANGED <<accepted, refused, async>>
    BY DEF LogCall, shared
  <1>2. CASE initialized /\ m \notin Silent
    <2>1. /\ pc' = [pc EXCEPT ![t] = IF async THEN "offer" ELSE "console"]
          /\ msg' = [msg EXCEPT ![t] = m]
          /\ Len(called[t]) \in Nat
          /\ DOMAIN called[t] = 1 .. Len(called[t])
          /\ DOMAIN called'[t] = 1 .. Len(called[t]) + 1
          /\ \A i \in 1 .. Len(called[t]) : called'[t][i] = called[t][i]
          /\ called'[t][Len(called[t]) + 1] = m
          /\ \A u \in Threads \ {t} : called'[u] = called[u]
          /\ Logged' = Logged \cup {m} /\ m \notin Logged
      BY <1>2, CallView
    <2>2. /\ ElementsOf(accepted)' = ElementsOf(accepted)
          /\ ElementsOf(refused)' = ElementsOf(refused)
          /\ IsInjective(accepted)' = IsInjective(accepted)
          /\ m \notin ElementsOf(accepted) /\ m \notin ElementsOf(refused)
      BY <1>1, <2>1 DEF ElementsOf, IsInjective, Decided
    <2>3. \A u \in Callers : msg'[u] # NoMessage => msg'[u] \notin ElementsOf(accepted)'
      BY <1>0, <2>1, <2>2 DEF Decided
    <2>4. \A u \in Threads : pc'[u] \in Undecided => async' /\ msg'[u] \notin ElementsOf(refused)'
      BY <1>0, <1>1, <2>1, <2>2 DEF Decided, Undecided
    <2>5. \A u \in Callers : async' /\ pc'[u] = "console" => msg'[u] \in ElementsOf(refused)'
      BY <1>0, <1>1, <2>1, <2>2 DEF Decided
    <2>6. ASSUME NEW u \in Callers, NEW i \in DOMAIN called'[u], NEW j \in DOMAIN called'[u],
                 NEW a \in DOMAIN accepted, NEW b \in DOMAIN accepted,
                 called'[u][i] = accepted[a], called'[u][j] = accepted[b], i < j
          PROVE  a < b
      <3>1. \A x \in Threads : \A k \in DOMAIN called'[x] :
               \/ k \in DOMAIN called[x] /\ called'[x][k] = called[x][k]
               \/ called'[x][k] = m
        BY <2>1
      <3>2. accepted[a] # m /\ accepted[b] # m
        BY <2>2 DEF ElementsOf
      <3>3. /\ i \in DOMAIN called[u] /\ called'[u][i] = called[u][i]
            /\ j \in DOMAIN called[u] /\ called'[u][j] = called[u][j]
        BY <3>1, <3>2, <2>6, <1>0
      <3> QED BY <3>3, <2>6 DEF Decided
    <2> QED BY <1>1, <2>1, <2>2, <2>3, <2>4, <2>5, <2>6 DEF Decided
  <1>3. CASE ~(initialized /\ m \notin Silent)
    <2>1. pc' = [pc EXCEPT ![t] = "idle"] /\ UNCHANGED <<msg, called>>
      BY <1>3 DEF LogCall
    <2>2. \A u \in Threads : \A l \in Undecided \cup {"console"} :
            pc'[u] = l => pc[u] = l /\ msg'[u] = msg[u]
      BY <1>0, <2>1 DEF Undecided
    <2> QED BY <1>1, <2>1, <2>2, DecidedKept
  <1> QED BY <1>2, <1>3

(* A message is refused: during a shutdown, or by a full ring.             *)
Refuses(t) ==
    /\ pc[t] \in Undecided /\ pc' = [pc EXCEPT ![t] = "console"]
    /\ refused' = Append(refused, msg[t])
    /\ UNCHANGED <<queueVars, msg, output, async, called, accepted>>

LEMMA DecidedRefuses ==
    ASSUME TypeOK, Calls, Decided, NEW t \in Callers, Refuses(t)
    PROVE  Decided' /\ ElementsOf(refused)' = ElementsOf(refused) \cup {msg[t]}
  <1>0. pc \in [Threads -> Locations] /\ t \in Threads /\ \A u \in Callers : u \in Threads
    BY DEF TypeOK, Threads
  <1>1. PICK m \in Message : m = msg[t]
    BY <1>0 DEF Refuses, TypeOK, Undecided
  <1>2. /\ pc[t] \in Undecided /\ pc' = [pc EXCEPT ![t] = "console"]
        /\ refused' = Append(refused, m)
        /\ UNCHANGED <<msg, async, called, accepted>>
    BY <1>1 DEF Refuses
  <1>3. m # NoMessage
    BY NoMessageAssumption
  <1>4. m \in Logged /\ \A u \in Callers : u # t => msg[u] # m
    BY <1>1, <1>3, Hands
  <1>5. ElementsOf(refused') = ElementsOf(refused) \cup {m}
    BY <1>2, AppendedElements DEF TypeOK
  <1>6. ElementsOf(refused)' = ElementsOf(refused) \cup {m}
    BY <1>5 DEF ElementsOf
  <1>7. /\ Logged' = Logged /\ ElementsOf(accepted)' = ElementsOf(accepted)
        /\ IsInjective(accepted)' = IsInjective(accepted)
    BY <1>2 DEF Logged, ElementsOf, IsInjective
  <1>8. m \notin ElementsOf(accepted)
    BY <1>1, <1>3 DEF Decided
  <1>9. \A u \in Threads : pc'[u] \in Undecided => async' /\ msg'[u] \notin ElementsOf(refused)'
    <2> SUFFICES ASSUME NEW u \in Threads, pc'[u] \in Undecided
                 PROVE  async' /\ msg'[u] \notin ElementsOf(refused)'
      OBVIOUS
    <2>1. u # t /\ pc[u] \in Undecided
      BY <1>0, <1>2 DEF Undecided
    <2>2. u \in Callers
      BY <2>1 DEF Calls, Threads
    <2> QED BY <1>2, <1>4, <1>6, <2>1, <2>2 DEF Decided
  <1>10. \A u \in Callers : async' /\ pc'[u] = "console" => msg'[u] \in ElementsOf(refused)'
    BY <1>0, <1>1, <1>2, <1>6 DEF Decided
  <1> QED BY <1>1, <1>2, <1>4, <1>6, <1>7, <1>8, <1>9, <1>10 DEF Decided

LEMMA DecidedAdmit ==
    ASSUME TypeOK, Calls, Decided, NEW t \in Callers, Admit(t)
    PROVE  Decided' /\ ElementsOf(accepted)' = ElementsOf(accepted) \cup {msg[t]}
  <1>0. pc \in [Threads -> Locations] /\ msg \in [Threads -> Message \cup {NoMessage}]
        /\ t \in Threads /\ \A u \in Callers : u \in Threads
    BY DEF TypeOK, Threads
  <1>1. PICK m \in Message : m = msg[t]
    BY <1>0 DEF Admit, Move, TypeOK
  <1>2. /\ pc[t] = "admit" /\ pc' = [pc EXCEPT ![t] = "idle"]
        /\ msg' = [msg EXCEPT ![t] = NoMessage]
        /\ accepted' = Append(accepted, m)
        /\ UNCHANGED <<async, called, refused>>
    BY <1>1 DEF Admit, Move, shared
  <1>3. m # NoMessage
    BY NoMessageAssumption
  <1>4. /\ m \in Logged /\ \A u \in Callers : u # t => msg[u] # m
        /\ Len(called[t]) \in DOMAIN called[t] /\ m = called[t][Len(called[t])]
    BY <1>1, <1>3, Hands
  <1>a. accepted \in Seq(Message)
    BY DEF TypeOK
  <1>5. ElementsOf(accepted)' = ElementsOf(accepted) \cup {m}
    <2>1. ElementsOf(accepted') = ElementsOf(accepted) \cup {m}
      BY <1>2, <1>a, AppendedElements
    <2> QED BY <2>1 DEF ElementsOf
  <1>6. m \notin ElementsOf(accepted) /\ m \notin ElementsOf(refused) /\ async
    BY <1>0, <1>1, <1>2, <1>3 DEF Decided, Undecided
  <1>7. Logged' = Logged /\ ElementsOf(refused)' = ElementsOf(refused)
    BY <1>2 DEF Logged, ElementsOf
  <1>8. IsInjective(accepted)'
    <2>1. IsInjective(accepted')
      BY <1>2, <1>6, <1>a, AppendedInjective DEF Decided
    <2> QED BY <2>1 DEF IsInjective
  <1>9. \A u \in Threads : pc'[u] \in Undecided => async' /\ msg'[u] \notin ElementsOf(refused)'
    BY <1>0, <1>2, <1>7 DEF Decided, Undecided
  <1>10. \A u \in Callers : async' /\ pc'[u] = "console" => msg'[u] \in ElementsOf(refused)'
    BY <1>0, <1>2, <1>7 DEF Decided
  <1>11. \A u \in Callers : msg'[u] # NoMessage => msg'[u] \notin ElementsOf(accepted)'
    BY <1>0, <1>2, <1>4, <1>5 DEF Decided
  <1>12. /\ Len(accepted) \in Nat /\ DOMAIN accepted = 1 .. Len(accepted)
         /\ DOMAIN accepted' = 1 .. Len(accepted) + 1
         /\ \A i \in 1 .. Len(accepted) : accepted'[i] = accepted[i]
         /\ accepted'[Len(accepted) + 1] = m
    BY <1>2, <1>a, Appended
  <1>13. ASSUME NEW u \in Callers, NEW i \in DOMAIN called[u], NEW j \in DOMAIN called[u],
                NEW a \in DOMAIN accepted', NEW b \in DOMAIN accepted',
                called[u][i] = accepted'[a], called[u][j] = accepted'[b], i < j
         PROVE  a < b
    <2>1. \A k \in DOMAIN called[u] : called[u][k] = m => u = t /\ k = Len(called[t])
      BY <1>0, <1>4 DEF Calls
    <2>2. called[u] \in Seq(Message)
      BY <1>0 DEF TypeOK
    <2>3. a # Len(accepted) + 1
      <3> SUFFICES ASSUME a = Len(accepted) + 1 PROVE FALSE
        OBVIOUS
      <3>1. u = t /\ i = Len(called[t])
        BY <1>12, <1>13, <2>1
      <3> QED BY <3>1, <1>13, <2>2
    <2>4. a \in 1 .. Len(accepted)
      BY <2>3, <1>12
    <2>5. CASE b = Len(accepted) + 1
      BY <2>4, <2>5, <1>12
    <2>6. CASE b # Len(accepted) + 1
      <3>1. b \in 1 .. Len(accepted)
        BY <2>6, <1>12
      <3> QED BY <3>1, <2>4, <1>12, <1>13 DEF Decided
    <2> QED BY <2>5, <2>6
  <1> QED BY <1>1, <1>2, <1>4, <1>5, <1>6, <1>7, <1>8, <1>9, <1>10, <1>11, <1>13 DEF Decided

-----------------------------------------------------------------------------
(* Every step is an entry in the ledger, or passes it by.                  *)

(* process_message is done with the message: it was written to the file,   *)
(* or there is none.                                                       *)
Finishes(t) ==
    /\ \/ pc[t] = "file" /\ logFile = "none" /\ UNCHANGED fileLog
       \/ pc[t] = "fprintf" /\ logFile = "open" /\ fileLog' = Append(fileLog, msg[t])
    /\ Written(t)
    /\ UNCHANGED <<queueVars, console, shared, process, history>>

LEMMA ProcessSteps ==
    ASSUME TypeOK, NEW t \in Threads, Process(t)
    PROVE  WriteConsole(t) \/ Finishes(t) \/ Passing
  <1> USE DEF shared, output, process, history
  <1>1. CASE TestFile(t)
    <2>1. CASE logFile = "none"
      BY <1>1, <2>1 DEF TestFile, Finishes
    <2>2. CASE logFile # "none"
      <3>1. Passes(t, "fprintf") /\ "fprintf" \in Locations
        BY <1>1, <2>2 DEF TestFile, Move, Passes, Locations
      <3> QED BY <3>1 DEF Passing
    <2> QED BY <2>1, <2>2
  <1>2. CASE WriteFile(t)
    <2>1. CASE logFile = "open"
      BY <1>2, <2>1 DEF WriteFile, Finishes
    <2>2. CASE logFile # "open"
      <3>1. pc \in [Threads -> Locations]
        BY DEF TypeOK
      <3>2. pc' = [pc EXCEPT ![t] = pc[t]] /\ pc[t] \in Locations
        BY <1>2, <2>2, <3>1 DEF WriteFile
      <3>3. Passes(t, pc[t])
        BY <1>2, <2>2, <3>2 DEF WriteFile, Passes
      <3> QED BY <3>2, <3>3 DEF Passing
    <2> QED BY <2>1, <2>2
  <1> QED BY <1>1, <1>2 DEF Process

LEMMA OfferSteps ==
    ASSUME TypeOK, NEW t \in Callers, Offer(t) \/ Overflow(t)
    PROVE  Refuses(t) \/ Passing
  <1> USE DEF shared, output, process
  <1>1. t \in Threads
    BY DEF Threads
  <1>2. CASE Overflow(t)
    BY <1>2 DEF Overflow, Move, Refuses, Undecided
  <1>3. CASE Offer(t) /\ graceful
    BY <1>3 DEF Offer, Move, Refuses, Undecided
  <1>4. CASE Offer(t) /\ ~graceful
    <2>1. Passes(t, "admit") /\ "admit" \in Locations
      BY <1>4 DEF Offer, Move, Passes, Locations
    <2> QED BY <1>1, <2>1 DEF Passing
  <1> QED BY <1>2, <1>3, <1>4

(* What a step does to the ledger.                                         *)
Entry ==
    \/ Passing \/ LoggerInit \/ WorkerTake
    \/ \E t \in Callers : Refuses(t) \/ Admit(t) \/ \E m \in Fresh : LogCall(t, m)
    \/ \E t \in Threads : WriteConsole(t) \/ Finishes(t)

LEMMA Entries ==
    ASSUME TypeOK, Calls, [Next]_vars
    PROVE  Entry
  <1>1. CASE MainStep \/ Signal
    BY <1>1, MainPasses DEF MainStep, Entry
  <1>2. ASSUME NEW t \in Threads, Process(t) PROVE Entry
    BY <1>2, ProcessSteps DEF Entry
  <1>3. ASSUME NEW t \in Threads, Cleanup(t) PROVE Entry
    BY <1>3, CleanupPasses DEF Entry
  <1>4. CASE WorkerStep
    <2>1. Worker \in Threads
      BY DEF Threads
    <2>2. WorkerLoop \/ WorkerEmpty \/ WorkerIdle => Passing
      BY WorkerPasses
    <2> QED BY <1>2, <1>3, <1>4, <2>1, <2>2 DEF WorkerStep, Entry
  <1>5. ASSUME NEW p \in Producers, StartThread(p) \/ StopThread(p)
        PROVE  Entry
    BY <1>5, ThreadsPass DEF Entry
  <1>6. ASSUME NEW t \in Callers, Inside(t) \/ \E m \in Fresh : LogCall(t, m)
        PROVE  Entry
    <2>1. t \in Threads
      BY DEF Threads
    <2>2. Offer(t) \/ Overflow(t) => Refuses(t) \/ Passing
      BY OfferSteps
    <2> QED BY <1>2, <1>3, <1>6, <2>1, <2>2 DEF Inside, Entry
  <1>7. CASE UNCHANGED vars
    <2>1. pc \in [Threads -> Locations] /\ Main \in Threads
      BY DEF TypeOK, Threads, Callers
    <2>2. pc' = [pc EXCEPT ![Main] = pc[Main]] /\ pc[Main] \in Locations
      BY <1>7, <2>1 DEF vars
    <2>3. Passes(Main, pc[Main])
      BY <1>7, <2>2 DEF vars, Passes, shared, output, process, history
    <2> QED BY <2>1, <2>2, <2>3 DEF Passing, Entry
  <1> QED BY <1>1, <1>4, <1>5, <1>6, <1>7 DEF Next, Ended

(* The book is kept by every entry.                                        *)
LEMMA FinishProcesses ==
    ASSUME NEW t \in Threads, Finishes(t)
    PROVE  Process(t)
  BY DEF Finishes, Process, TestFile, WriteFile, shared, output, process, history

LEMMA BookCalls ==
    ASSUME TypeOK, Calls, Entry
    PROVE  Calls'
  <1>1. ASSUME NEW t \in Callers, Refuses(t) PROVE Calls'
    <2>1. /\ t \in Threads /\ "console" \in Locations \ {"start"} /\ "console" \notin Free
          /\ "console" \notin Undecided /\ Undecided \subseteq Holding
      BY DEF Threads, Locations, Free, Undecided, Holding
    <2> QED BY <1>1, <2>1, CallsHand DEF Refuses
  <1>2. ASSUME NEW t \in Threads, WriteConsole(t) \/ Finishes(t) PROVE Calls'
    BY <1>2, CallsProcess, FinishProcesses DEF Process
  <1> QED BY <1>1, <1>2, PassCalls, CallsStart, CallsTake, CallsOffer, CallsCall DEF Entry

LEMMA BookWaiting ==
    ASSUME TypeOK, Calls, Waiting, Entry
    PROVE  Waiting'
  <1> USE ThreadAssumption
  <1>t. /\ Worker \in Threads /\ Worker \notin Callers
        /\ msg \in [Threads -> Message \cup {NoMessage}]
    BY DEF Threads, Callers, TypeOK
  <1>1. CASE Passing \/ LoggerInit
    <2>1. UNCHANGED <<queueVars, accepted, msg>>
      BY <1>1 DEF Passing, Passes, LoggerInit, history
    <2> QED BY <2>1, WaitsKept
  <1>2. ASSUME NEW t \in Callers, Refuses(t) \/ \E m \in Fresh : LogCall(t, m) PROVE Waiting'
    <2>1. UNCHANGED <<queueVars, accepted>>
      BY <1>2 DEF Refuses, LogCall
    <2>2. msg' = msg \/ \E m : msg' = [msg EXCEPT ![t] = m]
      BY <1>2 DEF Refuses, LogCall
    <2>3. msg'[Worker] = msg[Worker]
      BY <1>t, <2>2
    <2> QED BY <2>1, <2>3, WaitsKept
  <1>3. ASSUME NEW t \in Threads, WriteConsole(t) \/ Finishes(t) PROVE Waiting'
    <2>1. UNCHANGED <<queueVars, accepted>>
      BY <1>3 DEF WriteConsole, Finishes, history
    <2>2. msg' = msg \/ msg' = [msg EXCEPT ![t] = NoMessage]
      BY <1>3, WrittenView DEF WriteConsole, Finishes
    <2>3. msg'[Worker] \in {msg[Worker], NoMessage}
      BY <1>t, <2>2
    <2> QED BY <2>1, <2>3, WaitsKept
  <1> QED BY <1>1, <1>2, <1>3, WaitsAdmit, WaitsTake DEF Entry

LEMMA BookDecided ==
    ASSUME TypeOK, Calls, Waiting, Decided, Entry
    PROVE  Decided'
  <1>1. ASSUME NEW t \in Threads, WriteConsole(t) \/ Finishes(t) PROVE Decided'
    BY <1>1, DecidedProcess, FinishProcesses DEF Process
  <1> QED BY <1>1, PassWaits, DecidedStart, DecidedTake, DecidedRefuses, DecidedAdmit,
             DecidedCall DEF Entry

LEMMA BookKept ==
    ASSUME TypeOK, Book, Entry
    PROVE  Book'
  BY BookCalls, BookWaiting, BookDecided DEF Book

-----------------------------------------------------------------------------
(* The console.                                                            *)

(* What is pending stays pending, unless a message is printed or logged.   *)
PendingKept == \A m \in Logged : Pending(m)' <=> Pending(m)
UnfiledKept == \A m \in Logged : Unfiled(m)' <=> Unfiled(m)

LEMMA StayPending ==
    ASSUME UNCHANGED <<size, accepted>>,
           \A u \in Threads : /\ pc'[u] \in Unprinted <=> pc[u] \in Unprinted
                              /\ pc[u] \in Unprinted => msg'[u] = msg[u]
    PROVE  PendingKept
  <1>1. Taken' = Taken /\ size' = size /\ accepted' = accepted
    BY DEF Taken
  <1> QED BY <1>1 DEF PendingKept, Pending, InRing, HeldAt

LEMMA StayUnfiled ==
    ASSUME UNCHANGED <<size, accepted>>,
           \A u \in Threads : /\ pc'[u] \in Holding <=> pc[u] \in Holding
                              /\ pc[u] \in Holding => msg'[u] = msg[u]
    PROVE  UnfiledKept
  <1>1. Taken' = Taken /\ size' = size /\ accepted' = accepted
    BY DEF Taken
  <1> QED BY <1>1 DEF UnfiledKept, Unfiled, InRing, HeldAt

(* Accepted messages enter the ring at its end, and leave it for the       *)
(* worker's hand at its front.                                             *)
LEMMA AdmitRing ==
    ASSUME TypeOK, Book, NEW t \in Callers, Admit(t)
    PROVE  \A x : InRing(x)' <=> InRing(x) \/ x = msg[t]
  <1>0. /\ t \in Threads /\ pc \in [Threads -> Locations]
        /\ msg \in [Threads -> Message \cup {NoMessage}]
        /\ accepted \in Seq(Message)
    BY DEF Threads, TypeOK
  <1>1. PICK m \in Message : m = msg[t]
    BY <1>0 DEF Admit, Move, TypeOK
  <1>2. Put(msg[t]) /\ accepted' = Append(accepted, m)
    BY <1>1 DEF Admit
  <1>3. Taken' = Taken
    BY WaitsAdmit DEF Book
  <1>4. size \in Nat /\ size' = size + 1
    BY <1>1, <1>2, PutView DEF TypeOK
  <1>5. /\ Len(accepted) \in Nat
        /\ \A i \in 1 .. Len(accepted) : accepted'[i] = accepted[i]
        /\ accepted'[Len(accepted) + 1] = m
    BY <1>0, <1>2, Appended
  <1>6. size <= Len(accepted) /\ Taken \in Nat /\ Taken + size = Len(accepted)
    <2>1. size <= Len(accepted)
      BY <1>4 DEF Book, Waiting
    <2> QED BY <2>1, <1>4, <1>5 DEF Taken
  <1>7. \A p \in 1 .. size : Taken + p \in 1 .. Len(accepted)
    BY <1>4, <1>5, <1>6
  <1>8. \A p \in 1 .. size : accepted'[Taken + p] = accepted[Taken + p]
    BY <1>5, <1>7
  <1>9. accepted'[Taken + (size + 1)] = m
    BY <1>4, <1>5, <1>6
  <1>10. \A p \in 1 .. size + 1 : p \in 1 .. size \/ p = size + 1
    BY <1>4
  <1>11. size + 1 \in 1 .. size + 1 /\ \A p \in 1 .. size : p \in 1 .. size + 1
    BY <1>4
  <1>12. \A x : InRing(x)' <=> \E p \in 1 .. size + 1 : accepted'[Taken + p] = x
    BY <1>3, <1>4 DEF InRing
  <1> QED BY <1>1, <1>8, <1>9, <1>10, <1>11, <1>12 DEF InRing

LEMMA TakeRing ==
    ASSUME TypeOK, Book, WorkerTake
    PROVE  \A x : InRing(x) <=> InRing(x)' \/ x = msg'[Worker]
  <1>1. accepted' = accepted
    BY DEF WorkerTake, history
  <1>2. /\ Taken' = Taken + 1 /\ Taken \in Nat
        /\ size \in Nat /\ size' = size - 1 /\ size > 0
        /\ msg'[Worker] = accepted[Taken + 1]
    BY WaitsTake DEF Book
  <1>3. \A p \in 1 .. size - 1 : p + 1 \in 1 .. size /\ Taken' + p = Taken + (p + 1)
    BY <1>2
  <1>4. \A p \in 1 .. size : p = 1 \/ (p - 1 \in 1 .. size - 1 /\ Taken + p = Taken' + (p - 1))
    BY <1>2
  <1>5. 1 \in 1 .. size
    BY <1>2
  <1>6. \A x : InRing(x)' <=> \E p \in 1 .. size - 1 : accepted[Taken' + p] = x
    BY <1>1, <1>2 DEF InRing
  <1>7. ASSUME NEW x, InRing(x) PROVE InRing(x)' \/ x = accepted[Taken + 1]
    <2>1. PICK p \in 1 .. size : accepted[Taken + p] = x
      BY <1>7 DEF InRing
    <2> QED BY <1>4, <1>6, <2>1
  <1>8. ASSUME NEW x, InRing(x)' PROVE InRing(x)
    <2>1. PICK p \in 1 .. size - 1 : accepted[Taken' + p] = x
      BY <1>6, <1>8
    <2> QED BY <1>3, <2>1 DEF InRing
  <1>9. InRing(accepted[Taken + 1])
    BY <1>5 DEF InRing
  <1> QED BY <1>2, <1>7, <1>8, <1>9

(* Neither an admission nor a dequeue changes what is pending.             *)
LEMMA AdmitPending ==
    ASSUME TypeOK, Book, NEW t \in Callers, Admit(t)
    PROVE  PendingKept /\ UnfiledKept
  <1>0. /\ t \in Threads /\ pc \in [Threads -> Locations]
        /\ msg \in [Threads -> Message \cup {NoMessage}]
    BY DEF Threads, TypeOK
  <1>1. /\ pc[t] = "admit" /\ pc' = [pc EXCEPT ![t] = "idle"]
        /\ msg' = [msg EXCEPT ![t] = NoMessage]
    BY DEF Admit, Move
  <1>2. \A x : InRing(x)' <=> InRing(x) \/ x = msg[t]
    BY AdmitRing
  <1>3. ASSUME NEW places, "admit" \in places, "idle" \notin places
        PROVE  /\ \A x : HeldAt(x, places)' => HeldAt(x, places)
               /\ \A x : HeldAt(x, places) => HeldAt(x, places)' \/ x = msg[t]
               /\ HeldAt(msg[t], places)
    BY <1>0, <1>1, <1>3 DEF HeldAt
  <1>4. PendingKept
    <2>1. "admit" \in Unprinted /\ "idle" \notin Unprinted
      BY DEF Unprinted, Undecided
    <2> QED BY <1>2, <1>3, <2>1 DEF PendingKept, Pending
  <1>5. UnfiledKept
    <2>1. "admit" \in Holding /\ "idle" \notin Holding
      BY DEF Holding
    <2> QED BY <1>2, <1>3, <2>1 DEF UnfiledKept, Unfiled
  <1> QED BY <1>4, <1>5

LEMMA TakePending ==
    ASSUME TypeOK, Book, WorkerTake
    PROVE  PendingKept /\ UnfiledKept
  <1>0. /\ Worker \in Threads /\ pc \in [Threads -> Locations]
        /\ msg \in [Threads -> Message \cup {NoMessage}]
    BY DEF Threads, TypeOK
  <1>1. /\ pc[Worker] = "take" /\ pc' = [pc EXCEPT ![Worker] = "console"]
        /\ msg' = [msg EXCEPT ![Worker] = handed']
    BY DEF WorkerTake, Move
  <1>2. \A x : InRing(x) <=> InRing(x)' \/ x = msg'[Worker]
    BY TakeRing
  <1>3. ASSUME NEW places, "console" \in places, "take" \notin places
        PROVE  \A x : HeldAt(x, places)' <=> HeldAt(x, places) \/ x = msg'[Worker]
    BY <1>0, <1>1, <1>3 DEF HeldAt
  <1>4. PendingKept
    <2>1. "console" \in Unprinted /\ "take" \notin Unprinted
      BY DEF Unprinted, Undecided
    <2> QED BY <1>2, <1>3, <2>1 DEF PendingKept, Pending
  <1>5. UnfiledKept
    <2>1. "console" \in Holding /\ "take" \notin Holding
      BY DEF Holding
    <2> QED BY <1>2, <1>3, <2>1 DEF UnfiledKept, Unfiled
  <1> QED BY <1>4, <1>5

LEMMA PrintedKept ==
    ASSUME Printed, UNCHANGED <<console, called>>, PendingKept
    PROVE  Printed'
  <1>1. Logged' = Logged /\ ElementsOf(console)' = ElementsOf(console)
        /\ IsInjective(console)' = IsInjective(console)
    BY DEF Logged, ElementsOf, IsInjective
  <1> QED BY <1>1 DEF Printed, PendingKept

LEMMA OrderKept ==
    ASSUME QueuedInOrder, BoundedOvertaking,
           UNCHANGED <<console, called, accepted>>,
           ElementsOf(refused) \subseteq ElementsOf(refused)'
    PROVE  QueuedInOrder' /\ BoundedOvertaking'
  <1>1. QueuedInOrder'
    BY DEF QueuedInOrder, IsInjective
  <1>2. \A t, j, k : Overtaken(t, j, k)' = Overtaken(t, j, k)
    BY DEF Overtaken
  <1>3. BoundedOvertaking'
    BY <1>2 DEF BoundedOvertaking
  <1> QED BY <1>1, <1>3

(* A new call: its message is pending and on no log.                       *)
LEMMA OrderCall ==
    ASSUME TypeOK, Book, Order, NEW t \in Callers, NEW m \in Fresh, LogCall(t, m)
    PROVE  Order'
  <1>0. /\ t \in Threads /\ pc \in [Threads -> Locations] /\ \A u \in Callers : u \in Threads
        /\ msg \in [Threads -> Message \cup {NoMessage}]
    BY DEF Threads, TypeOK
  <1>1. UNCHANGED <<size, accepted, console, refused, async>>
    BY DEF LogCall, queueVars, output, shared
  <1>2. CASE initialized /\ m \notin Silent
    <2>1. /\ pc[t] \in {"idle", "announce"}
          /\ pc' = [pc EXCEPT ![t] = IF async THEN "offer" ELSE "console"]
          /\ msg' = [msg EXCEPT ![t] = m]
          /\ Len(called[t]) \in Nat
          /\ DOMAIN called[t] = 1 .. Len(called[t])
          /\ DOMAIN called'[t] = 1 .. Len(called[t]) + 1
          /\ \A i \in 1 .. Len(called[t]) : called'[t][i] = called[t][i]
          /\ called'[t][Len(called[t]) + 1] = m
          /\ \A u \in Threads \ {t} : called'[u] = called[u]
          /\ Logged' = Logged \cup {m} /\ m \notin Logged
      BY <1>2, CallView
    <2>2. /\ ElementsOf(console)' = ElementsOf(console)
          /\ ElementsOf(refused)' = ElementsOf(refused)
          /\ IsInjective(console)' = IsInjective(console)
      BY <1>1 DEF ElementsOf, IsInjective
    <2>3. \A x : InRing(x)' <=> InRing(x)
      BY <1>1 DEF InRing, Taken
    <2>4. \A x : x # m => (HeldAt(x, Unprinted)' <=> HeldAt(x, Unprinted))
      BY <1>0, <2>1 DEF HeldAt, Unprinted, Undecided
    <2>5. HeldAt(m, Unprinted)'
      BY <1>0, <2>1 DEF HeldAt, Unprinted, Undecided
    <2>6. Printed'
      <3> SUFFICES ASSUME LogToConsole
                   PROVE  /\ IsInjective(console)'
                          /\ ElementsOf(console)' \subseteq Logged'
                          /\ \A x \in Logged' : x \in ElementsOf(console)' <=> ~Pending(x)'
        BY DEF Printed
      <3>1. /\ IsInjective(console) /\ ElementsOf(console) \subseteq Logged
            /\ \A x \in Logged : x \in ElementsOf(console) <=> ~Pending(x)
        BY DEF Order, Printed
      <3>2. \A x \in Logged : Pending(x)' <=> Pending(x)
        BY <2>1, <2>3, <2>4 DEF Pending
      <3>3. Pending(m)' /\ m \notin ElementsOf(console)
        BY <2>1, <2>5, <3>1 DEF Pending
      <3> QED BY <2>1, <2>2, <3>1, <3>2, <3>3
    <2>7. QueuedInOrder'
      BY <1>1 DEF Order, QueuedInOrder, IsInjective
    <2>8. BoundedOvertaking'
      <3> SUFFICES ASSUME LogToConsole, NEW u \in Callers,
                          NEW j \in DOMAIN called'[u], NEW k \in DOMAIN console,
                          called'[u][j] = console[k]
                   PROVE  /\ Overtaken(u, j, k)' # {} => called'[u][j] \in ElementsOf(refused)'
                          /\ Cardinality(Overtaken(u, j, k)') <= Capacity + 1
        BY <1>1 DEF BoundedOvertaking
      <3>1. console[k] # m
        BY <2>1 DEF Order, Printed, ElementsOf
      <3>2. j \in DOMAIN called[u] /\ called'[u][j] = called[u][j]
        BY <1>0, <2>1, <3>1
      <3>3. called[u] \in Seq(Message)
        BY <1>0 DEF TypeOK
      <3>4. \A i \in 1 .. j - 1 : called'[u][i] = called[u][i]
        BY <1>0, <2>1, <3>2, <3>3
      <3>5. Overtaken(u, j, k)' = {i \in 1 .. j - 1 : \A h \in 1 .. k : console[h] # called'[u][i]}
        BY <1>1 DEF Overtaken
      <3>6. Overtaken(u, j, k)' = Overtaken(u, j, k)
        BY <3>4, <3>5 DEF Overtaken
      <3> QED BY <2>2, <3>2, <3>6 DEF Order, BoundedOvertaking
    <2> QED BY <2>6, <2>7, <2>8 DEF Order
  <1>3. CASE ~(initialized /\ m \notin Silent)
    <2>1. /\ pc[t] \in {"idle", "announce"} /\ pc' = [pc EXCEPT ![t] = "idle"]
          /\ UNCHANGED <<msg, called>>
      BY <1>3 DEF LogCall
    <2>2. \A u \in Threads : /\ pc'[u] \in Unprinted <=> pc[u] \in Unprinted
                             /\ pc[u] \in Unprinted => msg'[u] = msg[u]
      BY <1>0, <2>1 DEF Unprinted, Undecided
    <2>3. ElementsOf(refused) \subseteq ElementsOf(refused)'
      BY <1>1 DEF ElementsOf
    <2> QED BY <1>1, <2>1, <2>2, <2>3, StayPending, PrintedKept, OrderKept DEF Order
  <1> QED BY <1>2, <1>3

(* What is accepted now has not been printed.                              *)
LEMMA OrderAdmit ==
    ASSUME TypeOK, Book, Order, NEW t \in Callers, Admit(t)
    PROVE  Order'
  <1>1. PICK m \in Message : m = msg[t]
    BY DEF Admit, Move, TypeOK, Threads
  <1>2. /\ pc[t] = "admit" /\ accepted' = Append(accepted, m) /\ t \in Threads
        /\ UNCHANGED <<console, called, refused>>
    BY <1>1 DEF Admit, Move, output, Threads
  <1>3. Printed'
    BY <1>2, AdmitPending, PrintedKept DEF Order
  <1>4. BoundedOvertaking'
    <2>1. \A u, j, k : Overtaken(u, j, k)' = Overtaken(u, j, k)
      BY <1>2 DEF Overtaken
    <2>2. ElementsOf(refused)' = ElementsOf(refused)
      BY <1>2 DEF ElementsOf
    <2> QED BY <1>2, <2>1, <2>2 DEF Order, BoundedOvertaking
  <1>5. QueuedInOrder'
    <2> SUFFICES ASSUME LogToConsole, NEW k \in DOMAIN console, NEW j \in DOMAIN accepted',
                        console[k] = accepted'[j]
                 PROVE  \A i \in 1 .. j - 1 : \E h \in 1 .. k - 1 : console[h] = accepted'[i]
      <3>1. LogToConsole => IsInjective(console)'
        BY <1>2 DEF Order, QueuedInOrder, IsInjective
      <3> QED BY <1>2, <3>1 DEF QueuedInOrder
    <2>1. /\ Len(accepted) \in Nat
          /\ DOMAIN accepted = 1 .. Len(accepted) /\ DOMAIN accepted' = 1 .. Len(accepted) + 1
          /\ \A i \in 1 .. Len(accepted) : accepted'[i] = accepted[i]
          /\ accepted'[Len(accepted) + 1] = m
      BY ZenonT(40), <1>2, Appended DEF TypeOK
    <2>2. m \in Logged
      BY <1>1, NoMessageAssumption, Hands DEF Book
    <2>3. Pending(m)
      BY <1>1, <1>2 DEF Pending, HeldAt, Unprinted, Undecided
    <2>4. console[k] # m
      BY <2>2, <2>3 DEF Order, Printed, ElementsOf
    <2>5. j \in 1 .. Len(accepted) /\ console[k] = accepted[j]
      BY <2>1, <2>4
    <2>6. \A i \in 1 .. j - 1 : i \in 1 .. Len(accepted)
      BY <2>1, <2>5
    <2>7. \A i \in 1 .. j - 1 : \E h \in 1 .. k - 1 : console[h] = accepted[i]
      BY <2>1, <2>5 DEF Order, QueuedInOrder
    <2> QED BY <2>1, <2>6, <2>7
  <1> QED BY <1>3, <1>4, <1>5 DEF Order

(* Which of the accepted messages a pending one can be.                    *)
LEMMA RingSpan ==
    ASSUME TypeOK, Book
    PROVE  /\ Taken \in Nat /\ size \in Nat /\ size <= Capacity /\ Taken + size = Len(accepted)
           /\ DOMAIN accepted = 1 .. Len(accepted) /\ Len(accepted) \in Nat
           /\ \A x : InRing(x) => \E q \in DOMAIN accepted : q > Taken /\ q <= Taken + size
                                                             /\ x = accepted[q]
  <1>1. /\ Len(accepted) \in Nat /\ DOMAIN accepted = 1 .. Len(accepted)
        /\ size \in Nat /\ size <= Capacity
    <2>1. accepted \in Seq(Message)
      BY DEF TypeOK
    <2>2. Len(accepted) \in Nat /\ DOMAIN accepted = 1 .. Len(accepted)
      BY <2>1
    <2>3. size \in Nat /\ size <= Capacity
      <3>1. size \in 0 .. Capacity
        BY DEF TypeOK, QueueTypeOK, RingOK
      <3> QED BY <3>1, CapacityAssumption
    <2> QED BY <2>2, <2>3
  <1>2. size <= Len(accepted)
    BY <1>1 DEF Book, Waiting
  <1>3. Taken \in Nat /\ Taken + size = Len(accepted)
    BY <1>1, <1>2 DEF Taken
  <1>4. ASSUME NEW x, InRing(x)
        PROVE  \E q \in DOMAIN accepted : q > Taken /\ q <= Taken + size /\ x = accepted[q]
    <2>1. PICK p \in 1 .. size : x = accepted[Taken + p]
      BY <1>4 DEF InRing
    <2>2. Taken + p \in DOMAIN accepted /\ Taken + p > Taken /\ Taken + p <= Taken + size
      BY <1>1, <1>3
    <2> QED BY <2>1, <2>2
  <1> QED BY <1>1, <1>3, <1>4

(* What the worker and another thread hold, and what waits, are different. *)
LEMMA Apart ==
    ASSUME TypeOK, Book, NEW t \in Threads, msg[t] # NoMessage
    PROVE  /\ msg[t] \in Logged
           /\ \A u \in Threads : msg[u] = msg[t] => u = t
           /\ ~InRing(msg[t])
           /\ t \in Callers => msg[t] \notin ElementsOf(accepted)
           /\ t = Worker => Taken \in DOMAIN accepted /\ msg[t] = accepted[Taken]
  <1>0. Calls /\ Waiting /\ Decided /\ Threads = Callers \cup {Worker} /\ accepted \in Seq(Message)
    BY DEF Book, Threads, TypeOK
  <1>1. msg[Worker] # NoMessage =>
          Taken \in DOMAIN accepted /\ msg[Worker] = accepted[Taken]
          /\ msg[Worker] \in ElementsOf(accepted)
    BY <1>0 DEF Waiting, ElementsOf
  <1>2. \A u \in Callers : msg[u] # NoMessage => msg[u] \notin ElementsOf(accepted)
    BY <1>0 DEF Decided
  <1>3. \A x : InRing(x) => \E q \in DOMAIN accepted : q # Taken /\ x = accepted[q]
    <2>1. \A x : InRing(x) => \E q \in DOMAIN accepted : q > Taken /\ q <= Taken + size
                                                          /\ x = accepted[q]
      BY RingSpan
    <2>2. Taken \in Nat
      BY RingSpan
    <2> QED BY <2>1, <2>2
  <1>4. \A x : InRing(x) => x \in ElementsOf(accepted)
    BY <1>3 DEF ElementsOf
  <1>5. CASE t \in Callers
    <2>1. msg[t] \in Logged /\ \A u \in Callers : u # t => msg[u] # msg[t]
      BY <1>0, <1>5, Hands
    <2>2. msg[t] \notin ElementsOf(accepted) /\ t # Worker
      BY <1>2, <1>5, ThreadAssumption DEF Callers
    <2> QED BY <1>0, <1>1, <1>4, <1>5, <2>1, <2>2
  <1>6. CASE t = Worker
    <2>1. Worker \notin Callers
      BY ThreadAssumption DEF Callers
    <2>2. \A u \in Threads : msg[u] = msg[t] => u = t
      BY <1>0, <1>1, <1>2, <1>6
    <2>3. ~InRing(msg[t])
      BY <1>0, <1>1, <1>3, <1>6 DEF Decided, IsInjective
    <2>4. msg[t] \in Logged
      BY <1>0, <1>1, <1>6 DEF Decided
    <2> QED BY <1>1, <1>6, <2>1, <2>2, <2>3, <2>4
  <1> QED BY <1>0, <1>5, <1>6

(* One message is printed.                                                 *)
LEMMA PrintView ==
    ASSUME TypeOK, Book, Order, NEW t \in Threads, WriteConsole(t), LogToConsole
    PROVE  /\ pc[t] = "console" /\ msg[t] \in Message /\ msg[t] \in Logged
           /\ console \in Seq(Message) /\ msg[t] \notin ElementsOf(console)
           /\ Len(console) \in Nat
           /\ DOMAIN console = 1 .. Len(console) /\ DOMAIN console' = 1 .. Len(console) + 1
           /\ \A i \in 1 .. Len(console) : console'[i] = console[i]
           /\ console'[Len(console) + 1] = msg[t]
           /\ ElementsOf(console)' = ElementsOf(console) \cup {msg[t]}
           /\ IsInjective(console)'
           /\ UNCHANGED <<size, called, accepted, refused, msg>>
  <1>1. PICK m \in Message : m = msg[t]
    BY DEF WriteConsole, Move, TypeOK
  <1>2. /\ pc[t] = "console" /\ console' = Append(console, m)
        /\ UNCHANGED <<size, called, accepted, refused, msg>>
    BY <1>1 DEF WriteConsole, Move, history, queueVars
  <1>3. console \in Seq(Message)
    BY DEF TypeOK
  <1>4. m \in Logged
    BY <1>1, NoMessageAssumption, Apart
  <1>5. Pending(m)
    BY <1>1, <1>2 DEF Pending, HeldAt, Unprinted
  <1>6. m \notin ElementsOf(console) /\ IsInjective(console)
    BY <1>4, <1>5 DEF Order, Printed
  <1>7. IsInjective(console') /\ ElementsOf(console') = ElementsOf(console) \cup {m}
    BY <1>2, <1>3, <1>6, AppendedInjective, AppendedElements
  <1>8. IsInjective(console)' /\ ElementsOf(console)' = ElementsOf(console) \cup {m}
    BY <1>7 DEF IsInjective, ElementsOf
  <1>9. /\ Len(console) \in Nat
        /\ DOMAIN console = 1 .. Len(console) /\ DOMAIN console' = 1 .. Len(console) + 1
        /\ \A i \in 1 .. Len(console) : console'[i] = console[i]
        /\ console'[Len(console) + 1] = m
    BY <1>2, <1>3, Appended
  <1> QED BY <1>1, <1>2, <1>3, <1>4, <1>6, <1>8, <1>9

(* A message is on the console when it is pending no more.                 *)
LEMMA PrintedPrint ==
    ASSUME TypeOK, Book, Order, NEW t \in Threads, WriteConsole(t)
    PROVE  Printed'
  <1> SUFFICES ASSUME LogToConsole PROVE Printed'
    BY DEF Printed
  <1>0. pc \in [Threads -> Locations] /\ pc' = [pc EXCEPT ![t] = "file"] /\ msg' = msg
    BY DEF TypeOK, WriteConsole, Move
  <1>1. /\ pc[t] = "console" /\ msg[t] \in Message /\ msg[t] \in Logged
        /\ ElementsOf(console)' = ElementsOf(console) \cup {msg[t]}
        /\ IsInjective(console)'
        /\ UNCHANGED <<size, called, accepted, refused, msg>>
    BY PrintView
  <1>2. msg[t] # NoMessage
    BY <1>1, NoMessageAssumption
  <1>3. Logged' = Logged
    BY <1>1 DEF Logged, ElementsOf
  <1>4. \A x : InRing(x)' <=> InRing(x)
    BY <1>1 DEF InRing, Taken
  <1>5. \A x : HeldAt(x, Unprinted)' <=> HeldAt(x, Unprinted) /\ x # msg[t]
    <2>1. \A u \in Threads : msg[u] = msg[t] => u = t
      BY <1>2, Apart
    <2>2. \A u \in Threads : pc'[u] \in Unprinted <=> pc[u] \in Unprinted /\ u # t
      BY <1>0, <1>1 DEF Unprinted, Undecided
    <2> QED BY <1>0, <2>1, <2>2 DEF HeldAt
  <1>6. ~InRing(msg[t])
    BY <1>2, Apart
  <1>7. \A x \in Logged : Pending(x)' <=> Pending(x) /\ x # msg[t]
    BY <1>4, <1>5, <1>6 DEF Pending
  <1>8. /\ ElementsOf(console) \subseteq Logged
        /\ \A x \in Logged : x \in ElementsOf(console) <=> ~Pending(x)
    BY DEF Order, Printed
  <1> QED BY <1>1, <1>3, <1>7, <1>8 DEF Printed

(* Where a message that is pending can be: with the thread that logged it  *)
(* last, or among those accepted and not printed.                          *)
LEMMA PendingWhere ==
    ASSUME TypeOK, Book, NEW x, Pending(x)
    PROVE  \/ \E t \in Callers : x # NoMessage /\ x = msg[t]
           \/ \E q \in DOMAIN accepted : /\ q >= Taken /\ q <= Taken + size
                                         /\ q = Taken => x = msg[Worker]
                                         /\ x = accepted[q]
  <1>1. CASE InRing(x)
    <2>1. PICK q \in DOMAIN accepted : q > Taken /\ q <= Taken + size /\ x = accepted[q]
      BY <1>1, RingSpan
    <2>2. Taken \in Nat /\ q \in Nat
      BY RingSpan
    <2> QED BY <2>1, <2>2
  <1>2. CASE HeldAt(x, Unprinted)
    <2>1. PICK t \in Threads : pc[t] \in Unprinted /\ x = msg[t]
      BY <1>2 DEF HeldAt
    <2>2. x # NoMessage
      BY <2>1, NoMessageAssumption DEF TypeOK, Unprinted, Undecided
    <2>3. CASE t = Worker
      <3>1. Taken \in DOMAIN accepted /\ x = accepted[Taken]
        BY <2>1, <2>2, <2>3, Apart
      <3>2. Taken \in Nat /\ size \in Nat
        BY RingSpan
      <3> QED BY <2>1, <2>3, <3>1, <3>2
    <2>4. CASE t \in Callers
      BY <2>1, <2>2, <2>4
    <2> QED BY <2>1, <2>3, <2>4 DEF Threads
  <1> QED BY <1>1, <1>2 DEF Pending

(* The worker prints what is oldest of all that is accepted.               *)
LEMMA QueuedPrint ==
    ASSUME TypeOK, Book, Order, NEW t \in Threads, WriteConsole(t)
    PROVE  QueuedInOrder'
  <1> SUFFICES ASSUME LogToConsole,
                      NEW k \in DOMAIN console', NEW j \in DOMAIN accepted,
                      console'[k] = accepted[j]
               PROVE  \A i \in 1 .. j - 1 : \E h \in 1 .. k - 1 : console'[h] = accepted[i]
    <2>1. LogToConsole => IsInjective(console)' /\ accepted' = accepted
      BY PrintView
    <2> QED BY <2>1 DEF QueuedInOrder
  <1>1. /\ pc[t] = "console" /\ msg[t] \in Message
        /\ Len(console) \in Nat
        /\ DOMAIN console = 1 .. Len(console) /\ DOMAIN console' = 1 .. Len(console) + 1
        /\ \A i \in 1 .. Len(console) : console'[i] = console[i]
        /\ console'[Len(console) + 1] = msg[t]
    BY PrintView
  <1>2. msg[t] # NoMessage
    BY <1>1, NoMessageAssumption
  <1>3. CASE k \in 1 .. Len(console)
    <2>1. console[k] = accepted[j]
      BY <1>1, <1>3
    <2>2. \A i \in 1 .. j - 1 : \E h \in 1 .. k - 1 : console[h] = accepted[i]
      BY <1>1, <1>3, <2>1 DEF Order, QueuedInOrder
    <2>3. \A h \in 1 .. k - 1 : console'[h] = console[h]
      BY <1>1, <1>3
    <2> QED BY <2>2, <2>3
  <1>4. CASE k = Len(console) + 1
    <2>1. accepted[j] = msg[t] /\ msg[t] \in ElementsOf(accepted)
      BY <1>1, <1>4 DEF ElementsOf
    <2>2. t = Worker
      BY <1>2, <2>1, Apart DEF Threads
    <2>3. Taken \in DOMAIN accepted /\ accepted[Taken] = accepted[j]
      BY <1>2, <2>1, <2>2, Apart
    <2>4. j = Taken
      BY <2>3 DEF Book, Decided, IsInjective
    <2> SUFFICES ASSUME NEW i \in 1 .. j - 1
                 PROVE  \E h \in 1 .. k - 1 : console'[h] = accepted[i]
      OBVIOUS
    <2>5. /\ DOMAIN accepted = 1 .. Len(accepted) /\ Len(accepted) \in Nat
          /\ Taken \in Nat
      BY RingSpan
    <2>6. i \in DOMAIN accepted /\ i < Taken
      BY <2>3, <2>4, <2>5
    <2>7. accepted[i] \in Logged
      BY <2>6 DEF Book, Decided, ElementsOf
    <2>8. ~Pending(accepted[i])
      <3> SUFFICES ASSUME Pending(accepted[i]) PROVE FALSE
        OBVIOUS
      <3>1. \A u \in Callers : msg[u] # NoMessage => msg[u] # accepted[i]
        BY <2>6 DEF Book, Decided, ElementsOf
      <3>2. PICK q \in DOMAIN accepted : q >= Taken /\ accepted[i] = accepted[q]
        BY <3>1, PendingWhere
      <3>3. q = i
        BY <2>6, <3>2 DEF Book, Decided, IsInjective
      <3> QED BY <2>5, <2>6, <3>2, <3>3
    <2>9. accepted[i] \in ElementsOf(console)
      BY <2>7, <2>8 DEF Order, Printed
    <2>10. PICK h \in 1 .. Len(console) : console[h] = accepted[i]
      BY <1>1, <2>9 DEF ElementsOf
    <2>11. k - 1 = Len(console)
      BY <1>1, <1>4
    <2> QED BY <1>1, <2>10, <2>11
  <1> QED BY <1>1, <1>3, <1>4

(* Earlier messages of a thread that are pending when a later one of it is *)
(* printed are accepted ones that the worker has in hand or that wait.     *)
LEMMA Passed ==
    ASSUME TypeOK, Book, NEW t \in Callers, NEW i \in DOMAIN called[t],
           i < Len(called[t]), Pending(called[t][i])
    PROVE  \E q \in DOMAIN accepted : /\ q >= Taken /\ q <= Taken + size
                                      /\ q = Taken => called[t][i] = msg[Worker]
                                      /\ called[t][i] = accepted[q]
  <1>1. t \in Threads
    BY DEF Threads
  <1>2. \A u \in Callers : msg[u] # NoMessage => msg[u] # called[t][i]
    <2> SUFFICES ASSUME NEW u \in Callers, msg[u] # NoMessage, msg[u] = called[t][i]
                 PROVE  FALSE
      OBVIOUS
    <2>1. Len(called[u]) \in DOMAIN called[u] /\ msg[u] = called[u][Len(called[u])] /\ u \in Threads
      BY Hands DEF Book, Threads
    <2>2. t = u /\ i = Len(called[u])
      <3>1. \A a, b \in Threads : \A m \in DOMAIN called[a], n \in DOMAIN called[b] :
              called[a][m] = called[b][n] => a = b /\ m = n
        BY DEF Book, Calls
      <3> QED BY ZenonT(40), <1>1, <2>1, <3>1
    <2>3. called[t] \in Seq(Message)
      BY <1>1 DEF TypeOK
    <2> QED BY <2>2, <2>3
  <1> QED BY <1>2, PendingWhere

(* There are at most Capacity + 1 of them.                                 *)
LEMMA FewPassed ==
    ASSUME TypeOK, Book, NEW t \in Callers, NEW n \in Nat, n <= Len(called[t]),
           NEW S, S \subseteq 1 .. n - 1,
           \A i \in S : Pending(called[t][i])
    PROVE  IsFiniteSet(S) /\ Cardinality(S) <= Capacity + 1
  <1>1. t \in Threads /\ called[t] \in Seq(Message) /\ accepted \in Seq(Message)
    BY DEF Threads, TypeOK
  <1>2. \A i \in S : i \in DOMAIN called[t] /\ i < Len(called[t])
    BY <1>1
  <1>3. \A i \in S : \E q \in DOMAIN accepted : /\ q >= Taken /\ q <= Taken + size
                                                /\ called[t][i] = accepted[q]
    BY <1>2, Passed
  <1>4. /\ Taken \in Nat /\ size \in Nat /\ size <= Capacity
        /\ DOMAIN accepted = 1 .. Len(accepted) /\ Len(accepted) \in Nat
    BY RingSpan
  <1>5. PICK p \in [S -> Taken .. Taken + size] :
           \A i \in S : called[t][i] = accepted[p[i]]
    <2>1. \A i \in S : \E q \in Taken .. Taken + size : called[t][i] = accepted[q]
      BY <1>3, <1>4
    <2> DEFINE w == [i \in S |-> CHOOSE q \in Taken .. Taken + size : called[t][i] = accepted[q]]
    <2>2. w \in [S -> Taken .. Taken + size] /\ \A i \in S : called[t][i] = accepted[w[i]]
      BY <2>1
    <2> HIDE DEF w
    <2> QED BY <2>2
  <1>6. \A i, j \in S : p[i] = p[j] => i = j
    BY <1>1, <1>2, <1>5 DEF Book, Calls
  <1>7. PICK T : T = Taken .. Taken + size
    OBVIOUS
  <1>8. IsFiniteSet(T) /\ Cardinality(T) = size + 1
    <2>1. PICK a, b \in Int : a = Taken /\ b = Taken + size /\ a <= b /\ b - a + 1 = size + 1
      BY <1>4
    <2>2. IsFiniteSet(a .. b) /\ Cardinality(a .. b) = b - a + 1
      BY <2>1, FS_Interval
    <2> QED BY <1>7, <2>1, <2>2
  <1>9. p \in Injection(S, T)
    BY <1>5, <1>6, <1>7 DEF Injection, IsInjective
  <1>10. PICK f \in Injection(S, T) : f = p
    BY <1>9
  <1>11. IsFiniteSet(S) /\ Cardinality(S) <= Cardinality(T)
    BY <1>8, <1>10, FS_Injection
  <1>12. PICK c \in Nat : c = Cardinality(S)
    BY <1>11, FS_CardinalityType
  <1>13. c <= size + 1
    BY <1>8, <1>11, <1>12
  <1>14. c <= Capacity + 1
    BY <1>4, <1>13, CapacityAssumption
  <1> QED BY <1>11, <1>12, <1>14

(* The worker overtakes nobody; a thread that prints what the queue        *)
(* refused, or that has no queue, overtakes what it sent there before.     *)
LEMMA OvertakingPrint ==
    ASSUME TypeOK, Book, Order, NEW t \in Threads, WriteConsole(t)
    PROVE  BoundedOvertaking'
  <1>1. LogToConsole =>
        /\ pc[t] = "console" /\ msg[t] \in Message /\ msg[t] \in Logged
        /\ Len(console) \in Nat
        /\ DOMAIN console = 1 .. Len(console) /\ DOMAIN console' = 1 .. Len(console) + 1
        /\ \A i \in 1 .. Len(console) : console'[i] = console[i]
        /\ console'[Len(console) + 1] = msg[t]
        /\ UNCHANGED <<size, called, accepted, refused, msg>>
    BY PrintView
  <1>r. LogToConsole => ElementsOf(refused)' = ElementsOf(refused)
    BY <1>1 DEF ElementsOf
  <1> SUFFICES ASSUME LogToConsole, NEW u \in Callers,
                      NEW j \in DOMAIN called[u], NEW k \in DOMAIN console',
                      called[u][j] = console'[k]
               PROVE  /\ Overtaken(u, j, k)' # {} => called[u][j] \in ElementsOf(refused)
                      /\ Cardinality(Overtaken(u, j, k)') <= Capacity + 1
    BY <1>1, <1>r DEF BoundedOvertaking
  <1>2. Overtaken(u, j, k)' = {i \in 1 .. j - 1 : \A h \in 1 .. k : console'[h] # called[u][i]}
    BY <1>1 DEF Overtaken
  <1>3. CASE k \in 1 .. Len(console)
    <2>1. /\ called[u][j] = console[k] /\ k \in DOMAIN console
          /\ \A h \in 1 .. k : console'[h] = console[h]
      BY <1>1, <1>3
    <2>2. Overtaken(u, j, k)' = Overtaken(u, j, k)
      BY <1>2, <2>1 DEF Overtaken
    <2> QED BY <2>1, <2>2 DEF Order, BoundedOvertaking
  <1>4. CASE k = Len(console) + 1
    <2>1. called[u][j] = msg[t] /\ msg[t] # NoMessage
      BY <1>1, <1>4, NoMessageAssumption
    <2>2. u \in Threads /\ called[u] \in Seq(Message)
      BY DEF Threads, TypeOK
    <2>3. j \in 1 .. Len(called[u]) /\ Len(called[u]) \in Nat
      BY <2>2
    <2>c. \A a, b \in Threads : \A m \in DOMAIN called[a], n \in DOMAIN called[b] :
             called[a][m] = called[b][n] => a = b /\ m = n
      BY DEF Book, Calls
    <2>4. \A i \in Overtaken(u, j, k)' :
             i \in DOMAIN called[u] /\ i < j /\ i < Len(called[u]) /\ Pending(called[u][i])
      <3> SUFFICES ASSUME NEW i \in 1 .. j - 1,
                          \A h \in 1 .. Len(console) + 1 : console'[h] # called[u][i]
                   PROVE  i \in DOMAIN called[u] /\ i < j /\ i < Len(called[u])
                          /\ Pending(called[u][i])
        BY <1>2, <1>4
      <3>1. i \in DOMAIN called[u] /\ i < j /\ i < Len(called[u])
        BY <2>2, <2>3
      <3>2. called[u][i] \in Logged
        BY <2>2, <3>1 DEF Logged, ElementsOf
      <3>3. called[u][i] \notin ElementsOf(console)
        BY <1>1 DEF ElementsOf
      <3> QED BY <3>1, <3>2, <3>3 DEF Order, Printed
    <2>5. Cardinality(Overtaken(u, j, k)') <= Capacity + 1
      <3>1. PICK S : S = Overtaken(u, j, k)'
        OBVIOUS
      <3>2. S \subseteq 1 .. j - 1 /\ \A i \in S : Pending(called[u][i])
        BY <1>2, <2>4, <3>1
      <3>3. j \in Nat /\ j <= Len(called[u])
        BY <2>3
      <3> QED BY <3>1, <3>2, <3>3, FewPassed
    <2>6. CASE called[u][j] \in ElementsOf(refused)
      BY <2>5, <2>6
    <2>7. CASE called[u][j] \notin ElementsOf(refused)
      <3> SUFFICES ASSUME NEW i \in Overtaken(u, j, k)' PROVE FALSE
        BY <2>5
      <3>1. i \in DOMAIN called[u] /\ i < j /\ i < Len(called[u])
        BY <2>4
      <3>2. PICK q \in DOMAIN accepted : /\ q >= Taken /\ q <= Taken + size
                                         /\ q = Taken => called[u][i] = msg[Worker]
                                         /\ called[u][i] = accepted[q]
        BY <2>4, <3>1, Passed
      <3>3. t = Worker
        <4>1. t \in Callers => async
          BY <3>2 DEF Book, Decided
        <4>2. t \in Callers => msg[t] \in ElementsOf(refused)
          BY <1>1, <4>1 DEF Book, Decided
        <4> QED BY <2>1, <2>7, <4>2 DEF Threads
      <3>4. Taken \in DOMAIN accepted /\ called[u][j] = accepted[Taken]
        BY <2>1, <3>3, Apart
      <3>5. q # Taken
        <4>1. q = Taken => called[u][i] = called[u][j]
          BY <3>2, <3>4
        <4> QED BY <2>2, <2>c, <3>1, <4>1
      <3>6. q < Taken
        BY <3>1, <3>2, <3>4 DEF Book, Decided
      <3> QED BY <3>2, <3>5, <3>6, RingSpan
    <2> QED BY <2>6, <2>7
  <1> QED BY <1>1, <1>3, <1>4

(* The order on the console is kept by every entry.                        *)
LEMMA OrderEntry ==
    ASSUME TypeOK, Book, Order, Entry
    PROVE  Order'
  <1>t. pc \in [Threads -> Locations] /\ msg \in [Threads -> Message \cup {NoMessage}]
    BY DEF TypeOK
  <1>1. CASE Passing
    BY <1>1, PassPrinted DEF Order
  <1>2. CASE LoggerInit
    <2>1. UNCHANGED <<size, accepted, console, called, refused>>
      BY <1>2 DEF LoggerInit, queueVars, output, history
    <2>2. \A u \in Threads : pc[u] \notin Unprinted
      BY <1>2 DEF LoggerInit, Book, Calls, Unprinted, Undecided
    <2>3. \A u \in Threads : pc'[u] \notin Unprinted
      BY <1>2, DecidedStart DEF Book, Unprinted, Undecided, Holding
    <2>4. ElementsOf(refused)' = ElementsOf(refused)
      BY <2>1 DEF ElementsOf
    <2> QED BY <2>1, <2>2, <2>3, <2>4, StayPending, PrintedKept, OrderKept DEF Order
  <1>3. CASE WorkerTake
    <2>1. UNCHANGED <<accepted, console, called, refused>>
      BY <1>3 DEF WorkerTake, output, history
    <2>2. ElementsOf(refused)' = ElementsOf(refused)
      BY <2>1 DEF ElementsOf
    <2> QED BY <1>3, <2>1, <2>2, TakePending, PrintedKept, OrderKept DEF Order
  <1>4. ASSUME NEW t \in Callers, Refuses(t) PROVE Order'
    <2>1. UNCHANGED <<size, accepted, console, called, msg>>
      BY <1>4 DEF Refuses, queueVars, output
    <2>2. \A u \in Threads : pc'[u] \in Unprinted <=> pc[u] \in Unprinted
      BY <1>t, <1>4 DEF Refuses, Unprinted, Undecided
    <2>3. ElementsOf(refused) \subseteq ElementsOf(refused)'
      BY <1>4, DecidedRefuses DEF Book
    <2> QED BY <2>1, <2>2, <2>3, StayPending, PrintedKept, OrderKept DEF Order
  <1>5. ASSUME NEW t \in Threads, WriteConsole(t) PROVE Order'
    BY <1>5, PrintedPrint, QueuedPrint, OvertakingPrint DEF Order
  <1>6. ASSUME NEW t \in Threads, Finishes(t) PROVE Order'
    <2>1. UNCHANGED <<size, accepted, console, called, refused>>
      BY <1>6 DEF Finishes, queueVars, history
    <2>2. pc[t] \in {"file", "fprintf"} /\ Written(t)
      BY <1>6 DEF Finishes
    <2>3. /\ msg' = msg \/ msg' = [msg EXCEPT ![t] = NoMessage]
          /\ \E l \in {"cleanup", "loop", "idle"} : pc' = [pc EXCEPT ![t] = l]
      BY <2>2, WrittenView
    <2>4. \A u \in Threads : /\ pc'[u] \in Unprinted <=> pc[u] \in Unprinted
                             /\ pc[u] \in Unprinted => msg'[u] = msg[u]
      BY <1>t, <2>2, <2>3 DEF Unprinted, Undecided
    <2>5. ElementsOf(refused)' = ElementsOf(refused)
      BY <2>1 DEF ElementsOf
    <2> QED BY <2>1, <2>4, <2>5, StayPending, PrintedKept, OrderKept DEF Order
  <1> QED BY <1>1, <1>2, <1>3, <1>4, <1>5, <1>6, OrderCall, OrderAdmit DEF Entry

-----------------------------------------------------------------------------
(* FATAL without a worker.                                                 *)

(* A thread that moves does not come to hold a FATAL message.              *)
LEMMA DoomPasses ==
    ASSUME TypeOK, Book, Dooming, Passing
    PROVE  Dooming'
  <1>1. PICK t \in Threads, to \in Locations : Passes(t, to)
    BY DEF Passing
  <1>2. /\ pc \in [Threads -> Locations] /\ Main \in Threads /\ Main \notin Producers
        /\ \A p \in Producers : p \in Threads
    BY ThreadAssumption DEF TypeOK, Threads, Callers
  <1>3. /\ pc' = [pc EXCEPT ![t] = to] /\ msg' = msg /\ called' = called /\ async' = async
        /\ \/ to = pc[t]
           \/ to \in Holding
           \/ /\ pc[t] \notin Holding \cup {"exited"}
              /\ pc[t] = "unborn" => pc[Main] = "idle"
    BY <1>1 DEF Passes, Holding
  <1>4. \A u \in Threads : pc'[u] = IF u = t THEN to ELSE pc[u]
    BY <1>2, <1>3
  <1>5. \A u \in Threads : pc[u] \in Free => msg[u] = NoMessage
    BY DEF Book, Calls
  <1>6. NoMessage \notin Fatal
    BY NoMessageAssumption, LevelAssumption
  <1>7. \A u \in Threads : pc'[u] \in InCleanup /\ msg[u] # NoMessage => msg[u] \in Fatal
    <2>1. Locations \subseteq Holding \cup Free \cup InCleanup \cup {"exited"}
          /\ Holding \cap InCleanup = {} /\ Free \cap InCleanup = {} /\ "exited" \notin InCleanup
      BY DEF Locations, Holding, Free, InCleanup, AfterJoin
    <2> QED BY <1>2, <1>3, <1>4, <1>5, <2>1 DEF Dooming
  <1>8. ASSUME ~async, NEW u \in Threads, msg[u] \in Fatal
        PROVE  u = Main /\ \A p \in Producers : pc'[p] = "unborn"
    <2>1. u = Main /\ \A p \in Producers : pc[p] = "unborn"
      BY <1>8 DEF Dooming
    <2>2. pc[Main] # "idle"
      BY <1>2, <1>5, <1>6, <1>8, <2>1 DEF Free
    <2>3. ASSUME NEW p \in Producers, p = t PROVE to = "unborn"
      <3>1. pc[t] = "unborn"
        BY <2>1, <2>3
      <3>2. to \notin Holding \/ to = pc[t]
        BY <1>1, <3>1 DEF Passes, Holding
      <3> QED BY <1>3, <2>2, <3>1, <3>2
    <2> QED BY <1>2, <1>4, <2>1, <2>3
  <1> QED BY <1>3, <1>7, <1>8 DEF Dooming

(* FATAL is logged by main while it is alone.                              *)
LEMMA DoomCall ==
    ASSUME TypeOK, Book, Dooming, NEW t \in Callers, NEW m \in Fresh, LogCall(t, m)
    PROVE  Dooming'
  <1>0. /\ pc \in [Threads -> Locations] /\ msg \in [Threads -> Message \cup {NoMessage}]
        /\ t \in Threads /\ Main \notin Producers /\ \A p \in Producers : p \in Threads
    BY ThreadAssumption DEF TypeOK, Threads, Callers
  <1>1. /\ async' = async /\ pc[t] \in {"idle", "announce"}
        /\ m \in Fatal => t = Main /\ \A p \in Producers : pc[p] = "unborn"
    BY DEF LogCall, shared
  <1>2. NoMessage \notin Fatal
    BY NoMessageAssumption, LevelAssumption
  <1>3. msg[t] = NoMessage
    BY <1>0, <1>1 DEF Book, Calls, Free
  <1>4. \E l \in {"idle", "offer", "console"} : pc' = [pc EXCEPT ![t] = l]
    BY DEF LogCall
  <1>5. \A u \in Threads : u # t => pc'[u] = pc[u]
    BY <1>0, <1>4
  <1>6. pc'[t] \notin InCleanup
    BY <1>0, <1>4 DEF InCleanup, AfterJoin
  <1>7. CASE initialized /\ m \notin Silent
    <2>1. /\ msg' = [msg EXCEPT ![t] = m]
          /\ DOMAIN called[t] = 1 .. Len(called[t])
          /\ DOMAIN called'[t] = 1 .. Len(called[t]) + 1
          /\ Len(called[t]) \in Nat
          /\ \A i \in 1 .. Len(called[t]) : called'[t][i] = called[t][i]
          /\ called'[t][Len(called[t]) + 1] = m
          /\ \A u \in Threads \ {t} : called'[u] = called[u]
      BY <1>7, CallView
    <2>2. \A u \in Threads : msg'[u] = IF u = t THEN m ELSE msg[u]
      BY <1>0, <2>1
    <2>3. \A u \in Threads : pc'[u] \in InCleanup /\ msg'[u] # NoMessage => msg'[u] \in Fatal
      BY <1>5, <1>6, <2>2 DEF Dooming
    <2>4. ASSUME ~async, NEW u \in Threads, msg'[u] \in Fatal
          PROVE  u = Main /\ \A p \in Producers : pc'[p] = "unborn"
      <3>1. u = Main /\ \A p \in Producers : pc[p] = "unborn"
        BY <1>1, <2>2, <2>4 DEF Dooming
      <3>2. t \notin Producers
        BY <1>1, <3>1
      <3> QED BY <1>0, <1>5, <3>1, <3>2
    <2>5. ASSUME ~async, NEW u \in Threads, NEW i \in DOMAIN called'[u], called'[u][i] \in Fatal
          PROVE  i = Len(called'[u]) /\ msg'[u] = called'[u][i]
      <3>1. CASE u # t
        BY <2>1, <2>2, <2>5, <3>1 DEF Dooming
      <3>2. CASE u = t
        <4>1. \A j \in DOMAIN called[t] : called[t][j] \notin Fatal
          BY <1>0, <1>2, <1>3, <2>5 DEF Dooming
        <4>2. i = Len(called[t]) + 1
          BY <2>1, <2>5, <3>2, <4>1
        <4>3. called' \in [Threads -> Seq(Message)]
          <5>1. TypeOK'
            BY CallType
          <5> QED BY <5>1 DEF TypeOK
        <4>4. Len(called'[t]) = Len(called[t]) + 1
          BY <1>0, <2>1, <4>3
        <4> QED BY <2>1, <2>2, <3>2, <4>2, <4>4
      <3> QED BY <3>1, <3>2
    <2> QED BY <1>1, <2>3, <2>4, <2>5 DEF Dooming
  <1>8. CASE ~(initialized /\ m \notin Silent)
    <2>1. UNCHANGED <<msg, called>> /\ pc' = [pc EXCEPT ![t] = "idle"]
      BY <1>8 DEF LogCall
    <2>2. \A u \in Threads : pc'[u] \in InCleanup /\ msg'[u] # NoMessage => msg'[u] \in Fatal
      BY <1>5, <1>6, <2>1 DEF Dooming
    <2>3. ASSUME ~async, NEW u \in Threads, msg[u] \in Fatal
          PROVE  u = Main /\ \A p \in Producers : pc'[p] = "unborn"
      <3>1. u = Main /\ \A p \in Producers : pc[p] = "unborn"
        BY <2>3 DEF Dooming
      <3>2. t \notin Producers
        BY <1>1, <3>1
      <3> QED BY <1>0, <1>5, <3>1, <3>2
    <2> QED BY <1>1, <2>1, <2>2, <2>3 DEF Dooming
  <1> QED BY <1>7, <1>8

(* Nor does one that lays its message down keep it.                        *)
LEMMA DoomMoves ==
    ASSUME TypeOK, Dooming, NEW t \in Threads, NEW to,
           pc' = [pc EXCEPT ![t] = to], UNCHANGED <<async, called>>,
           \A u \in Threads \ {t} : msg'[u] = msg[u],
           to \notin InCleanup \/ (msg[t] \in Fatal /\ msg'[t] = msg[t]),
           \/ async
           \/ pc[t] # "unborn" /\ msg'[t] = msg[t]
           \/ pc[t] # "unborn" /\ msg'[t] = NoMessage /\ msg[t] \notin Fatal
    PROVE  Dooming'
  <1>1. pc \in [Threads -> Locations] /\ \A p \in Producers : p \in Threads
    BY DEF TypeOK, Threads, Callers
  <1>2. \A u \in Threads : u # t => pc'[u] = pc[u]
    BY <1>1
  <1>3. pc'[t] = to
    BY <1>1
  <1>4. NoMessage \notin Fatal
    BY NoMessageAssumption, LevelAssumption
  <1>5. \A u \in Threads : pc'[u] \in InCleanup /\ msg'[u] # NoMessage => msg'[u] \in Fatal
    BY <1>2, <1>3 DEF Dooming
  <1>6. ASSUME ~async, NEW u \in Threads, msg'[u] \in Fatal
        PROVE  u = Main /\ \A p \in Producers : pc'[p] = "unborn"
    <2>1. msg'[u] = msg[u]
      BY <1>4, <1>6
    <2>2. u = Main /\ \A p \in Producers : pc[p] = "unborn"
      BY <1>6, <2>1 DEF Dooming
    <2>3. t \notin Producers
      BY <1>6, <2>2
    <2> QED BY <1>1, <1>2, <2>2, <2>3
  <1>7. ASSUME ~async, NEW u \in Threads, NEW i \in DOMAIN called[u], called[u][i] \in Fatal
        PROVE  i = Len(called[u]) /\ msg'[u] = called[u][i]
    <2>1. i = Len(called[u]) /\ msg[u] = called[u][i]
      BY <1>7 DEF Dooming
    <2> QED BY <1>7, <2>1
  <1> QED BY <1>5, <1>6, <1>7 DEF Dooming

LEMMA DoomEntry ==
    ASSUME TypeOK, Book, Dooming, Entry
    PROVE  Dooming'
  <1>0. /\ pc \in [Threads -> Locations] /\ msg \in [Threads -> Message \cup {NoMessage}]
        /\ Worker \in Threads /\ Main \in Threads /\ \A u \in Callers : u \in Threads
    BY DEF TypeOK, Threads, Callers
  <1>1. CASE LoggerInit
    <2>1. UNCHANGED <<msg, called>> /\ pc[Main] = "start"
          /\ pc' = [pc EXCEPT ![Main] = "announce",
                              ![Worker] = IF async' THEN "loop" ELSE @]
      BY <1>1 DEF LoggerInit, history
    <2>2. /\ \A u \in Threads : called[u] = <<>>
          /\ \A u \in Threads : pc[u] \in Free
      BY <2>1 DEF Book, Calls, Free
    <2>3. \A u \in Threads : msg[u] = NoMessage
      BY <2>2 DEF Book, Calls
    <2>4. NoMessage \notin Fatal
      BY NoMessageAssumption, LevelAssumption
    <2> QED BY <2>1, <2>2, <2>3, <2>4 DEF Dooming
  <1>2. CASE WorkerTake
    <2>1. /\ pc' = [pc EXCEPT ![Worker] = "console"] /\ msg' = [msg EXCEPT ![Worker] = handed']
          /\ UNCHANGED <<async, called>>
      BY <1>2 DEF WorkerTake, Move, shared, history
    <2>2. async
      <3>1. Taken + 1 \in DOMAIN accepted
        BY <1>2, WaitsTake DEF Book
      <3> QED BY <3>1 DEF Book, Decided
    <2>3. "console" \notin InCleanup
      BY DEF InCleanup, AfterJoin
    <2> QED BY <1>0, <2>1, <2>2, <2>3, DoomMoves
  <1>3. ASSUME NEW t \in Callers, Refuses(t) \/ Admit(t) PROVE Dooming'
    <2>1. /\ pc[t] \in Undecided /\ UNCHANGED <<async, called>>
          /\ \E l \in {"console", "idle"} : pc' = [pc EXCEPT ![t] = l]
          /\ msg' = msg \/ msg' = [msg EXCEPT ![t] = NoMessage]
      BY <1>3 DEF Refuses, Admit, Move, shared, Undecided
    <2>2. async
      BY <1>0, <2>1 DEF Book, Decided
    <2>3. {"console", "idle"} \cap InCleanup = {}
      BY DEF InCleanup, AfterJoin
    <2>4. \A u \in Threads \ {t} : msg'[u] = msg[u]
      BY <1>0, <2>1
    <2> QED BY <1>0, <2>1, <2>2, <2>3, <2>4, DoomMoves
  <1>4. ASSUME NEW t \in Threads, WriteConsole(t) PROVE Dooming'
    <2>1. /\ pc[t] = "console" /\ pc' = [pc EXCEPT ![t] = "file"]
          /\ UNCHANGED <<msg, async, called>>
      BY <1>4 DEF WriteConsole, Move, shared, history
    <2>2. "file" \notin InCleanup
      BY DEF InCleanup, AfterJoin
    <2> QED BY <2>1, <2>2, DoomMoves
  <1>5. ASSUME NEW t \in Threads, Finishes(t) PROVE Dooming'
    <2>1. pc[t] # "unborn" /\ UNCHANGED <<async, called>> /\ Written(t)
      BY <1>5 DEF Finishes, shared, history
    <2>2. CASE msg[t] \in Fatal
      <3>1. msg' = msg /\ pc' = [pc EXCEPT ![t] = "cleanup"]
        BY <2>1, <2>2 DEF Written
      <3> QED BY <2>1, <2>2, <3>1, DoomMoves
    <2>3. CASE msg[t] \notin Fatal
      <3>1. msg' = [msg EXCEPT ![t] = NoMessage]
            /\ \E l \in {"loop", "idle"} : pc' = [pc EXCEPT ![t] = l]
        BY <2>1, <2>3 DEF Written
      <3>2. {"loop", "idle"} \cap InCleanup = {}
        BY DEF InCleanup, AfterJoin
      <3>3. msg'[t] = NoMessage /\ \A u \in Threads \ {t} : msg'[u] = msg[u]
        BY <1>0, <3>1
      <3> QED BY <2>1, <2>3, <3>1, <3>2, <3>3, DoomMoves
    <2> QED BY <2>2, <2>3
  <1> QED BY <1>1, <1>2, <1>3, <1>4, <1>5, DoomPasses, DoomCall DEF Entry

-----------------------------------------------------------------------------
(* How the process ends.                                                   *)
LEMMA StatusSteps ==
    ASSUME TypeOK, [Next]_vars
    PROVE  \/ UNCHANGED status /\ Alive
           \/ UNCHANGED vars
           \/ MainReturn
           \/ \E t \in Threads : /\ CleanupReturn(t) /\ pc[t] \in {"cleanup", "lower"}
                                 /\ UNCHANGED <<msg, async>> /\ Alive
  <1> USE DEF shared, output, process, history
  <1>0. CASE ~Alive
    BY <1>0 DEF Next, Ended, vars
  <1> SUFFICES ASSUME Alive,
                      ~ \E t \in Threads : /\ CleanupReturn(t) /\ pc[t] \in {"cleanup", "lower"}
                                           /\ UNCHANGED <<msg, async>>
               PROVE  UNCHANGED status \/ UNCHANGED vars \/ MainReturn
    BY <1>0 DEF Alive
  <1>1. CASE MainStep \/ Signal
    BY <1>1 DEF MainStep, Signal, LoggerInit, InstallHandler, MainCleanup, Jump
  <1>2. ASSUME NEW t \in Threads, Process(t) PROVE UNCHANGED status
    BY <1>2 DEF Process, WriteConsole, TestFile, WriteFile
  <1>3. ASSUME NEW t \in Threads, Cleanup(t) PROVE UNCHANGED status
    BY <1>3 DEF Cleanup, CleanupEnter, CleanupRaise, CleanupTest, CleanupStop,
                CleanupJoin, CleanupTestFile, CleanupClose, CleanupClear,
                CleanupUninit, CleanupLower, Jump
  <1>4. CASE WorkerStep
    <2>1. Worker \in Threads
      BY DEF Threads
    <2>2. WorkerLoop \/ WorkerTake \/ WorkerEmpty \/ WorkerIdle => UNCHANGED status
      BY DEF WorkerLoop, WorkerTake, WorkerEmpty, WorkerIdle, Jump
    <2> QED BY <1>2, <1>3, <1>4, <2>1, <2>2 DEF WorkerStep
  <1>5. ASSUME NEW p \in Producers, StartThread(p) \/ StopThread(p)
        PROVE  UNCHANGED status
    BY <1>5 DEF StartThread, StopThread, Jump
  <1>6. ASSUME NEW t \in Callers, Inside(t) \/ \E m \in Fresh : LogCall(t, m)
        PROVE  UNCHANGED status
    <2>1. t \in Threads
      BY DEF Threads
    <2>2. Offer(t) \/ Admit(t) \/ Overflow(t) \/ (\E m \in Fresh : LogCall(t, m)) => UNCHANGED status
      BY DEF Offer, Admit, Overflow, LogCall
    <2> QED BY <1>2, <1>3, <1>6, <2>1, <2>2 DEF Inside
  <1> QED BY <1>1, <1>4, <1>5, <1>6 DEF Next, Ended

LEMMA EndEntry ==
    ASSUME TypeOK, Book, Dooming, Ending, [Next]_vars
    PROVE  Ending'
  <1>0. /\ pc \in [Threads -> Locations] /\ Threads = Producers \cup {Main, Worker}
        /\ Callers = Producers \cup {Main}
    BY DEF TypeOK, Threads, Callers
  <1>1. CASE UNCHANGED status /\ Alive
    BY <1>1 DEF Ending, Alive
  <1>2. CASE UNCHANGED vars
    BY <1>2 DEF Ending, vars, shared, output, process, history, Quiet
  <1>3. CASE MainReturn
    <2>1. /\ status' = "success" /\ initialized' = initialized /\ ~initialized
          /\ pc' = [pc EXCEPT ![Main] = "exited"] /\ \A p \in Producers : Quiet(p)
      BY <1>3 DEF MainReturn, Move, shared
    <2> QED BY <1>0, <2>1 DEF Ending, Quiet
  <1>4. ASSUME NEW t \in Threads, CleanupReturn(t), pc[t] \in {"cleanup", "lower"},
               UNCHANGED <<msg, async>>, Alive
        PROVE  Ending'
    <2>1. CASE msg[t] = NoMessage
      BY <1>4, <2>1 DEF CleanupReturn, Ending, Alive
    <2>2. CASE msg[t] # NoMessage
      <3>1. status' = "failure" /\ pc' = [pc EXCEPT ![t] = "exited"]
        BY <1>4, <2>2 DEF CleanupReturn
      <3> SUFFICES ASSUME ~async, NEW u \in Threads PROVE pc'[u] \notin Unprinted
        BY <1>4, <3>1 DEF Ending
      <3>2. msg[t] \in Fatal
        BY <1>4, <2>2 DEF Dooming, InCleanup, AfterJoin
      <3>3. t = Main /\ \A p \in Producers : pc[p] = "unborn"
        BY <3>2 DEF Dooming
      <3>4. msg[Worker] = NoMessage
        <4>1. accepted = <<>>
          BY DEF Book, Decided
        <4> QED BY <4>1 DEF Book, Waiting
      <3>5. pc[Worker] \notin Unprinted
        BY <1>0, <3>4, NoMessageAssumption DEF TypeOK, Unprinted, Undecided
      <3> QED BY <1>0, <3>1, <3>3, <3>5 DEF Unprinted, Undecided
    <2> QED BY <2>1, <2>2
  <1> QED BY <1>1, <1>2, <1>3, <1>4, StatusSteps

-----------------------------------------------------------------------------
(* The log file.                                                           *)

(* A FATAL message that the worker is to print stays one.                  *)
LEMMA FatalStays ==
    ASSUME TypeOK, Book, Entry, FatalQueued
    PROVE  FatalQueued'
  <1>1. CASE LoggerInit
    BY <1>1, DecidedStart DEF Book, FatalQueued
  <1>2. ASSUME NEW t \in Callers, NEW m \in Fresh, LogCall(t, m) PROVE FatalQueued'
    <2>1. async' = async
      BY <1>2 DEF LogCall, shared
    <2>2. CASE initialized /\ m \notin Silent
      <3>1. Logged' = Logged \cup {m}
        BY <1>2, <2>2, CallView
      <3> QED BY <2>1, <3>1 DEF FatalQueued
    <2>3. CASE ~(initialized /\ m \notin Silent)
      <3>1. called' = called
        BY <1>2, <2>3 DEF LogCall
      <3>2. Logged' = Logged
        BY <3>1 DEF Logged, ElementsOf
      <3> QED BY <2>1, <3>2 DEF FatalQueued
    <2> QED BY <2>2, <2>3
  <1>3. CASE UNCHANGED <<called, async>>
    <2>1. Logged' = Logged
      BY <1>3 DEF Logged, ElementsOf
    <2> QED BY <1>3, <2>1 DEF FatalQueued
  <1>4. Passing \/ WorkerTake => UNCHANGED <<called, async>>
    BY DEF Passing, Passes, WorkerTake, shared, history
  <1>5. ASSUME NEW t \in Callers, Refuses(t) \/ Admit(t) PROVE UNCHANGED <<called, async>>
    BY <1>5 DEF Refuses, Admit, shared
  <1>6. ASSUME NEW t \in Threads, WriteConsole(t) \/ Finishes(t)
        PROVE  UNCHANGED <<called, async>>
    BY <1>6 DEF WriteConsole, Finishes, shared, history
  <1> QED BY <1>1, <1>2, <1>3, <1>4, <1>5, <1>6 DEF Entry

(* A thread that prints FATAL is main, alone, unless the worker got it.    *)
LEMMA FatalAlone ==
    ASSUME TypeOK, Book, Dooming, ~FatalQueued, NEW t \in Threads, msg[t] \in Fatal
    PROVE  t = Main /\ \A p \in Producers : Quiet(p)
  <1>1. msg[t] # NoMessage
    BY NoMessageAssumption, LevelAssumption
  <1>2. msg[t] \in Logged
    BY <1>1, Apart
  <1>3. ~async
    BY <1>2 DEF FatalQueued
  <1> QED BY <1>3 DEF Dooming, Quiet

(* The file is used safely unless FATAL goes to the worker.                *)
LEMMA FileInvKept ==
    ASSUME TypeOK, Book, Dooming, ~FatalQueued, FileInv, [Next]_vars
    PROVE  FileInv'
  <1>0. ASSUME NEW t \in Threads, Process(t) PROVE FileInv'
    BY <1>0, FatalAlone, FileProcess
  <1>1. CASE MainStep \/ Signal
    BY <1>1, FileMain
  <1>2. CASE WorkerStep
    <2>1. Worker \in Threads
      BY DEF Threads
    <2> QED BY <1>0, <1>2, <2>1, FileWorker, FileCleanup DEF WorkerStep
  <1>3. ASSUME NEW p \in Producers, StartThread(p) \/ StopThread(p)
        PROVE  FileInv'
    BY <1>3, FileThreads
  <1>4. ASSUME NEW t \in Callers, Inside(t) \/ \E m \in Fresh : LogCall(t, m)
        PROVE  FileInv'
    <2>1. t \in Threads
      BY DEF Threads
    <2> QED BY <1>0, <1>4, <2>1, FileCall, FileCleanup DEF Inside
  <1>5. CASE UNCHANGED vars
    BY <1>5 DEF vars, FileInv, Unfaulted, CleanupAlone, WorkerFlags, FileState,
                InCleanup, AfterJoin, Quiet, shared, output, process, history
  <1> QED BY <1>1, <1>2, <1>3, <1>4, <1>5 DEF Next, Ended

(* The steps that touch g_log_file or the flag that the logger is there,   *)
(* or take main past the clearing of the one to that of the other.         *)
LEMMA FileSteps ==
    ASSUME TypeOK, [Next]_vars
    PROVE  \/ LoggerInit
           \/ \E t \in Threads : CleanupClose(t) \/ CleanupClear(t) \/ CleanupUninit(t)
           \/ /\ UNCHANGED <<logFile, initialized>>
              /\ pc[Main] = "uninit" => pc'[Main] = "uninit"
  <1> USE DEF shared, output, process, history
  <1>0. pc \in [Threads -> Locations] /\ Main \in Threads /\ Worker \in Threads /\ Worker # Main
    BY ThreadAssumption DEF TypeOK, Threads, Callers
  <1> DEFINE Same == UNCHANGED <<logFile, initialized>>
             Stays == pc[Main] = "uninit" => pc'[Main] = "uninit"
             Other == \E t \in Threads : CleanupClose(t) \/ CleanupClear(t) \/ CleanupUninit(t)
  <1>m. ASSUME NEW t \in Threads, NEW to, pc[t] # "uninit", pc' = [pc EXCEPT ![t] = to]
        PROVE  Stays
    BY <1>0, <1>m
  <1>s. ASSUME pc' = pc PROVE Stays
    BY <1>s
  <1> DEFINE Goal == LoggerInit \/ Other \/ (Same /\ Stays)
  <1> HIDE DEF Same, Stays, Other, Goal
  <1>1. ASSUME MainStep \/ Signal PROVE Goal
    <2>1. Same \/ LoggerInit
      BY <1>1 DEF MainStep, Signal, InstallHandler, MainCleanup, MainReturn, Jump, Same
    <2>2. pc[Main] # "uninit" \/ pc' = pc
      BY <1>1 DEF MainStep, Signal, LoggerInit, InstallHandler, MainCleanup, MainReturn, Jump, Move
    <2>3. Stays
      BY <1>s, <2>2 DEF Stays
    <2> QED BY <2>1, <2>3 DEF Goal
  <1>2. ASSUME NEW t \in Threads, Process(t) PROVE Same /\ Stays
    <2>1. Same /\ pc[t] \in {"console", "file", "fprintf"}
      BY <1>2 DEF Process, WriteConsole, TestFile, WriteFile, Move, Same
    <2>2. pc' = pc \/ \E to : pc' = [pc EXCEPT ![t] = to]
      BY <1>2, WrittenView DEF Process, WriteConsole, TestFile, WriteFile, Move
    <2> QED BY <1>m, <1>s, <2>1, <2>2
  <1>3. ASSUME NEW t \in Threads, Cleanup(t) PROVE Goal
    <2> SUFFICES ASSUME ~Other PROVE Same /\ Stays
      BY DEF Goal
    <2>1. Same /\ pc[t] # "uninit"
      BY <1>3 DEF Cleanup, CleanupEnter, CleanupRaise, CleanupTest, CleanupStop,
                  CleanupJoin, CleanupTestFile, CleanupReturn, CleanupLower, Jump, Move,
                  Same, Other
    <2>2. \E to : pc' = [pc EXCEPT ![t] = to]
      BY <1>3 DEF Cleanup, CleanupEnter, CleanupRaise, CleanupTest, CleanupStop,
                  CleanupJoin, CleanupTestFile, CleanupReturn, CleanupLower, Jump, Move,
                  Same, Other
    <2> QED BY <1>m, <2>1, <2>2
  <1>4. ASSUME WorkerStep PROVE Goal
    <2>1. CASE WorkerLoop \/ WorkerTake \/ WorkerEmpty \/ WorkerIdle
      <3>1. Same /\ pc[Worker] # "uninit" /\ \E to : pc' = [pc EXCEPT ![Worker] = to]
        BY <2>1 DEF WorkerLoop, WorkerTake, WorkerEmpty, WorkerIdle, Jump, Move, Same
      <3> QED BY <1>0, <1>m, <3>1 DEF Goal
    <2>2. CASE Process(Worker)
      BY <1>0, <1>2, <2>2 DEF Goal
    <2>3. CASE Cleanup(Worker)
      BY <1>0, <1>3, <2>3
    <2> QED BY <1>4, <2>1, <2>2, <2>3 DEF WorkerStep
  <1>5. ASSUME NEW p \in Producers, StartThread(p) \/ StopThread(p)
        PROVE  Goal
    <2>1. p \in Threads
      BY DEF Threads, Callers
    <2>2. Same /\ pc[p] # "uninit" /\ \E to : pc' = [pc EXCEPT ![p] = to]
      BY <1>5 DEF StartThread, StopThread, Jump, Move, Same
    <2> QED BY <1>m, <2>1, <2>2 DEF Goal
  <1>6. ASSUME NEW t \in Callers, Inside(t) \/ \E m \in Fresh : LogCall(t, m)
        PROVE  Goal
    <2>1. t \in Threads
      BY DEF Threads
    <2>2. CASE Offer(t) \/ Admit(t) \/ Overflow(t) \/ \E m \in Fresh : LogCall(t, m)
      <3>1. Same /\ pc[t] # "uninit" /\ \E to : pc' = [pc EXCEPT ![t] = to]
        BY <2>2 DEF Offer, Admit, Overflow, LogCall, Move, Same
      <3> QED BY <1>m, <2>1, <3>1 DEF Goal
    <2>3. Process(t) => Goal
      BY <1>2, <2>1 DEF Goal
    <2>4. Cleanup(t) => Goal
      BY <1>3, <2>1
    <2> QED BY <1>6, <2>2, <2>3, <2>4 DEF Inside
  <1>7. ASSUME UNCHANGED vars PROVE Goal
    BY <1>7, <1>s DEF vars, Goal, Same
  <1>8. Goal
    BY <1>1, <1>4, <1>5, <1>6, <1>7 DEF Next, Ended
  <1> QED BY <1>8 DEF Goal, Same, Other, Stays

LEMMA FileLogEntry ==
    ASSUME TypeOK, Entry
    PROVE  \/ fileLog' = fileLog
           \/ \E t \in Threads : Finishes(t) /\ logFile = "open" /\ logFile' = "open"
  <1>1. Passing \/ LoggerInit \/ WorkerTake => fileLog' = fileLog
    BY DEF Passing, Passes, LoggerInit, WorkerTake, output
  <1>2. ASSUME NEW t \in Callers, Refuses(t) \/ Admit(t) \/ \E m \in Fresh : LogCall(t, m)
        PROVE  fileLog' = fileLog
    BY <1>2 DEF Refuses, Admit, LogCall, output
  <1>3. ASSUME NEW t \in Threads, WriteConsole(t)
        PROVE  fileLog' = fileLog
    BY <1>3 DEF WriteConsole
  <1>4. ASSUME NEW t \in Threads, Finishes(t)
        PROVE  fileLog' = fileLog \/ (logFile = "open" /\ logFile' = "open")
    BY <1>4 DEF Finishes, shared
  <1> QED BY <1>1, <1>2, <1>3, <1>4 DEF Entry

(* Who comes to hold a message, and when the worker starts.                *)
LEMMA HoldersEntry ==
    ASSUME TypeOK, Book, Entry
    PROVE  /\ \A u \in Threads : pc'[u] \in Holding =>
                pc[u] \in Holding \/ initialized \/ (u = Worker /\ ~Quiet(Worker))
           /\ ~Quiet(Worker)' => ~Quiet(Worker) \/ LoggerInit
  <1>0. /\ pc \in [Threads -> Locations] /\ Worker \in Threads /\ Worker \notin Callers
        /\ \A u \in Callers : u \in Threads
    BY ThreadAssumption DEF TypeOK, Threads, Callers
  <1>1. CASE Passing
    <2>1. \A u \in Threads : pc'[u] \in Holding <=> pc[u] \in Holding
      BY <1>1, PassPlaces
    <2>2. PICK t \in Threads, to \in Locations : Passes(t, to)
      BY <1>1 DEF Passing
    <2>3. ~Quiet(Worker)' => ~Quiet(Worker)
      BY <1>0, <2>2 DEF Passes, Quiet, Callers
    <2> QED BY <2>1, <2>3
  <1>2. CASE LoggerInit
    BY <1>2, DecidedStart DEF Book
  <1>3. CASE WorkerTake
    BY <1>0, <1>3 DEF WorkerTake, Move, Quiet, Holding
  <1>4. ASSUME NEW t \in Callers,
               \/ Refuses(t) \/ Admit(t) \/ \E m \in Fresh : LogCall(t, m)
        PROVE  /\ pc'[Worker] = pc[Worker]
               /\ \A u \in Threads : pc'[u] \in Holding => pc[u] \in Holding \/ initialized
    <2>1. \E l : pc' = [pc EXCEPT ![t] = l] /\ (l \in Holding => pc[t] \in Holding \/ initialized)
      <3>1. CASE Refuses(t)
        BY <3>1 DEF Refuses, Undecided, Holding
      <3>2. CASE Admit(t)
        BY <3>2 DEF Admit, Move, Holding
      <3>3. CASE \E m \in Fresh : LogCall(t, m)
        BY <3>3 DEF LogCall, Holding
      <3> QED BY <1>4, <3>1, <3>2, <3>3
    <2> QED BY <1>0, <2>1
  <1>5. ASSUME NEW t \in Threads, WriteConsole(t) \/ Finishes(t)
        PROVE  /\ \A u \in Threads : pc'[u] \in Holding => pc[u] \in Holding
               /\ ~Quiet(Worker)' => ~Quiet(Worker)
    <2>1. pc[t] \in {"console", "file", "fprintf"} /\ \E l : pc' = [pc EXCEPT ![t] = l]
      BY <1>5, WrittenView DEF WriteConsole, Finishes, Move
    <2> QED BY <1>0, <2>1 DEF Holding, Quiet
  <1>6. (\E t \in Callers : Refuses(t) \/ Admit(t) \/ \E m \in Fresh : LogCall(t, m))
          => /\ pc'[Worker] = pc[Worker]
             /\ \A u \in Threads : pc'[u] \in Holding => pc[u] \in Holding \/ initialized
    BY <1>4
  <1>7. (\E t \in Threads : WriteConsole(t) \/ Finishes(t))
          => /\ \A u \in Threads : pc'[u] \in Holding => pc[u] \in Holding
             /\ ~Quiet(Worker)' => ~Quiet(Worker)
    BY <1>5
  <1>8. pc'[Worker] = pc[Worker] => (~Quiet(Worker)' => ~Quiet(Worker))
    BY DEF Quiet
  <1>9. \/ Passing \/ LoggerInit \/ WorkerTake
        \/ \E t \in Callers : Refuses(t) \/ Admit(t) \/ \E m \in Fresh : LogCall(t, m)
        \/ \E t \in Threads : WriteConsole(t) \/ Finishes(t)
    BY DEF Entry
  <1> QED BY <1>1, <1>2, <1>3, <1>6, <1>7, <1>8, <1>9

(* Before anything is logged the file is empty.                            *)
LEMMA NothingFiled ==
    ASSUME TypeOK, Filed, Logged = {}
    PROVE  fileLog = <<>>
  <1> SUFFICES ASSUME fileLog # <<>> PROVE FALSE
    OBVIOUS
  <1>1. ElementsOf(fileLog) = {}
    BY DEF Filed
  <1>2. DOMAIN fileLog = {} /\ fileLog \in Seq(Message)
    BY <1>1 DEF ElementsOf, TypeOK
  <1> QED BY <1>2

(* The log file that is there was there always.                            *)
LEMMA FileKeptKept ==
    ASSUME TypeOK, Book, FileInv, FileKept, Filed, [Next]_vars
    PROVE  FileKept'
  <1>0. /\ pc \in [Threads -> Locations] /\ Worker \in Threads /\ Main \in Threads
        /\ Threads = Producers \cup {Main, Worker} /\ fileLog \in Seq(Message)
    BY DEF TypeOK, Threads, Callers
  <1>1. Entry
    BY Entries DEF Book
  <1>2. FileKept /\ (\A t \in Threads : pc[t] \in Holding => initialized)
        /\ (~Quiet(Worker) => initialized)
        /\ (logFile = "none" /\ initialized /\ pc[Main] # "uninit" => fileLog = <<>>)
    BY DEF FileKept
  <1>3. CASE LoggerInit
    <2>1. initialized' = TRUE /\ fileLog' = fileLog /\ Logged = {}
      BY <1>3, DecidedStart DEF LoggerInit, output, Book
    <2>2. fileLog = <<>>
      BY <2>1, NothingFiled
    <2> QED BY <2>1, <2>2 DEF FileKept
  <1>4. ASSUME NEW t \in Threads, CleanupUninit(t) PROVE FileKept'
    <2>1. /\ pc[t] = "uninit" /\ pc' = [pc EXCEPT ![t] = "lower"] /\ initialized' = FALSE
      BY <1>4 DEF CleanupUninit, Move
    <2>2. t = Main /\ (\A p \in Producers : Quiet(p)) /\ Quiet(Worker)
      BY <2>1 DEF FileInv, CleanupAlone, InCleanup, AfterJoin
    <2>3. \A u \in Threads : pc'[u] \in {"unborn", "exited", "lower"}
      BY <1>0, <2>1, <2>2 DEF Quiet
    <2>4. Quiet(Worker)' /\ \A u \in Threads : pc'[u] \notin Holding
      <3>1. Worker # Main
        BY ThreadAssumption
      <3> QED BY <1>0, <2>1, <2>2, <2>3, <3>1 DEF Holding, Quiet
    <2> QED BY <2>1, <2>4 DEF FileKept
  <1>5. ASSUME UNCHANGED initialized, ~LoggerInit
        PROVE  /\ \A u \in Threads : pc'[u] \in Holding => initialized'
               /\ ~Quiet(Worker)' => initialized'
    BY <1>1, <1>2, <1>5, HoldersEntry
  <1>6. ASSUME NEW t \in Threads, CleanupClose(t) \/ CleanupClear(t), ~LoggerInit
        PROVE  FileKept'
    <2>1. UNCHANGED <<initialized, fileLog>>
      BY <1>6 DEF CleanupClose, CleanupClear, output
    <2>2. pc[t] \in InCleanup
      BY <1>6 DEF CleanupClose, CleanupClear, Move, InCleanup, AfterJoin
    <2>3. t = Main
      BY <2>2 DEF FileInv, CleanupAlone
    <2>4. logFile' # "none" \/ pc'[Main] = "uninit"
      BY <1>0, <1>6, <2>3 DEF CleanupClose, CleanupClear, Move, FileInv, FileState
    <2> QED BY <1>5, <1>6, <2>1, <2>4 DEF FileKept
  <1>7. ASSUME UNCHANGED <<logFile, initialized>>, ~LoggerInit,
               pc[Main] = "uninit" => pc'[Main] = "uninit"
        PROVE  FileKept'
    <2>1. logFile = "none" => fileLog' = fileLog
      BY <1>1, FileLogEntry
    <2> QED BY <1>2, <1>5, <1>7, <2>1 DEF FileKept
  <1> QED BY <1>3, <1>4, <1>6, <1>7, FileSteps

(* What a step leaves unwritten in the file, and of what it logs.          *)
LEMMA UnfiledEntry ==
    ASSUME TypeOK, Book, Entry, ~LoggerInit
    PROVE  /\ Logged \subseteq Logged'
           /\ \A m \in Logged' \ Logged : Unfiled(m)'
           /\ UnfiledKept \/ \E t \in Threads : Finishes(t)
  <1>0. /\ pc \in [Threads -> Locations] /\ msg \in [Threads -> Message \cup {NoMessage}]
        /\ \A u \in Callers : u \in Threads
    BY DEF TypeOK, Threads
  <1>s. UNCHANGED called => Logged' = Logged
    BY DEF Logged, ElementsOf
  <1>1. CASE Passing
    BY <1>1, PassFiled DEF UnfiledKept
  <1>2. CASE WorkerTake
    BY <1>2, <1>s, TakePending DEF WorkerTake, history
  <1>3. ASSUME NEW t \in Callers, Admit(t) PROVE Logged' = Logged /\ UnfiledKept
    BY <1>3, <1>s, AdmitPending DEF Admit
  <1>4. ASSUME NEW t \in Callers, Refuses(t) PROVE Logged' = Logged /\ UnfiledKept
    <2>1. UNCHANGED <<size, accepted, called, msg>>
      BY <1>4 DEF Refuses, queueVars
    <2>2. \A u \in Threads : pc'[u] \in Holding <=> pc[u] \in Holding
      BY <1>0, <1>4 DEF Refuses, Holding, Undecided
    <2> QED BY <2>1, <2>2, <1>s, StayUnfiled
  <1>5. ASSUME NEW t \in Threads, WriteConsole(t) PROVE Logged' = Logged /\ UnfiledKept
    <2>1. UNCHANGED <<size, accepted, called, msg>>
      BY <1>5 DEF WriteConsole, queueVars, history
    <2>2. \A u \in Threads : pc'[u] \in Holding <=> pc[u] \in Holding
      BY <1>0, <1>5 DEF WriteConsole, Move, Holding
    <2> QED BY <2>1, <2>2, <1>s, StayUnfiled
  <1>6. ASSUME NEW t \in Threads, Finishes(t) PROVE Logged' = Logged
    BY <1>6, <1>s DEF Finishes, history
  <1>7. ASSUME NEW t \in Callers, NEW m \in Fresh, LogCall(t, m)
        PROVE  /\ Logged \subseteq Logged'
               /\ \A x \in Logged' \ Logged : Unfiled(x)'
               /\ UnfiledKept
    <2>1. UNCHANGED <<size, accepted>> /\ t \in Threads
      BY <1>0, <1>7 DEF LogCall, queueVars
    <2>2. CASE initialized /\ m \notin Silent
      <3>1. /\ pc[t] \in {"idle", "announce"} /\ Logged' = Logged \cup {m} /\ m \notin Logged
            /\ pc' = [pc EXCEPT ![t] = IF async THEN "offer" ELSE "console"]
            /\ msg' = [msg EXCEPT ![t] = m]
        BY <1>7, <2>2, CallView
      <3>2. \A x : InRing(x)' <=> InRing(x)
        BY <2>1 DEF InRing, Taken
      <3>3. \A x : x # m => (HeldAt(x, Holding)' <=> HeldAt(x, Holding))
        BY <1>0, <2>1, <3>1 DEF HeldAt, Holding
      <3>4. HeldAt(m, Holding)'
        BY <1>0, <2>1, <3>1 DEF HeldAt, Holding
      <3> QED BY <3>1, <3>2, <3>3, <3>4 DEF UnfiledKept, Unfiled
    <2>3. CASE ~(initialized /\ m \notin Silent)
      <3>1. /\ pc[t] \in {"idle", "announce"} /\ pc' = [pc EXCEPT ![t] = "idle"]
            /\ UNCHANGED <<msg, called>>
        BY <1>7, <2>3 DEF LogCall
      <3>2. \A u \in Threads : pc'[u] \in Holding <=> pc[u] \in Holding
        BY <1>0, <3>1 DEF Holding
      <3> QED BY <1>s, <2>1, <3>1, <3>2, StayUnfiled
    <2> QED BY <2>2, <2>3
  <1> QED BY <1>1, <1>2, <1>3, <1>4, <1>5, <1>6, <1>7 DEF Entry

(* A message is written to the file when its thread is done with it.       *)
LEMMA FiledWrite ==
    ASSUME TypeOK, Book, Filed, NEW t \in Threads, Finishes(t), logFile = "open"
    PROVE  Filed'
  <1>0. /\ pc \in [Threads -> Locations] /\ msg \in [Threads -> Message \cup {NoMessage}]
        /\ fileLog \in Seq(Message)
    BY DEF TypeOK
  <1>1. /\ pc[t] = "fprintf" /\ fileLog' = Append(fileLog, msg[t]) /\ Written(t)
        /\ UNCHANGED <<size, accepted, called>>
    BY DEF Finishes, history, queueVars
  <1>2. PICK m \in Message : m = msg[t]
    BY <1>0, <1>1 DEF TypeOK
  <1>3. m \in Logged /\ (\A u \in Threads : msg[u] = m => u = t) /\ ~InRing(m)
    BY <1>2, NoMessageAssumption, Apart
  <1>4. /\ IsInjective(fileLog) /\ ElementsOf(fileLog) \subseteq Logged
        /\ \A x \in Logged : x \in ElementsOf(fileLog) <=> ~Unfiled(x)
    BY DEF Filed
  <1>5. Unfiled(m)
    BY <1>1, <1>2 DEF Unfiled, HeldAt, Holding
  <1>6. IsInjective(fileLog)' /\ ElementsOf(fileLog)' = ElementsOf(fileLog) \cup {m}
    <2>1. IsInjective(fileLog') /\ ElementsOf(fileLog') = ElementsOf(fileLog) \cup {m}
      BY <1>0, <1>1, <1>2, <1>3, <1>4, <1>5, AppendedInjective, AppendedElements
    <2> QED BY <2>1 DEF IsInjective, ElementsOf
  <1>7. Logged' = Logged
    BY <1>1 DEF Logged, ElementsOf
  <1>8. \A x : InRing(x)' <=> InRing(x)
    BY <1>1 DEF InRing, Taken
  <1>9. \A x : HeldAt(x, Holding)' <=> HeldAt(x, Holding) /\ x # m
    <2>1. /\ pc'[t] \notin Holding
          /\ \A u \in Threads : u # t => pc'[u] = pc[u] /\ msg'[u] = msg[u]
      BY <1>0, <1>1, WrittenView DEF Holding
    <2>2. pc[t] \in Holding
      BY <1>1 DEF Holding
    <2> QED BY <1>2, <1>3, <2>1, <2>2 DEF HeldAt
  <1>10. \A x \in Logged : Unfiled(x)' <=> Unfiled(x) /\ x # m
    BY <1>3, <1>8, <1>9 DEF Unfiled
  <1> QED BY <1>3, <1>4, <1>6, <1>7, <1>10 DEF Filed

(* The file has what was logged and is out of every hand.                  *)
LEMMA FiledKept ==
    ASSUME TypeOK, Book, FileInv, FileKept, Filed, [Next]_vars
    PROVE  Filed'
  <1>0. /\ fileLog \in Seq(Message) /\ Threads = Producers \cup {Main, Worker}
    BY DEF TypeOK, Threads, Callers
  <1>1. Entry
    BY Entries DEF Book
  <1>2. CASE LoggerInit
    <2>1. fileLog' = fileLog /\ Logged = {} /\ Logged' = {}
      BY <1>2, DecidedStart DEF LoggerInit, output, Book
    <2>2. fileLog = <<>>
      BY <2>1, NothingFiled
    <2>3. IsInjective(fileLog)' /\ ElementsOf(fileLog)' = {}
      <3>1. DOMAIN fileLog' = {}
        BY <2>1, <2>2
      <3> QED BY <3>1 DEF IsInjective, ElementsOf
    <2> QED BY <2>1, <2>3 DEF Filed
  <1>3. CASE ~LoggerInit
    <2>1. logFile = "none" => logFile' = "none"
      BY <1>3, FileSteps DEF CleanupClose, CleanupClear, CleanupUninit
    <2>2. /\ Logged \subseteq Logged'
          /\ \A m \in Logged' \ Logged : Unfiled(m)'
          /\ UnfiledKept \/ \E t \in Threads : Finishes(t)
      BY <1>1, <1>3, UnfiledEntry
    <2>3. ASSUME fileLog' = fileLog, UnfiledKept PROVE Filed'
      <3> SUFFICES ASSUME (logFile # "none" \/ fileLog # <<>>)'
                   PROVE  /\ IsInjective(fileLog)'
                          /\ ElementsOf(fileLog)' \subseteq Logged'
                          /\ \A m \in Logged' : m \in ElementsOf(fileLog)' <=> ~Unfiled(m)'
        BY DEF Filed
      <3>1. /\ IsInjective(fileLog) /\ ElementsOf(fileLog) \subseteq Logged
            /\ \A m \in Logged : m \in ElementsOf(fileLog) <=> ~Unfiled(m)
        BY <2>1, <2>3 DEF Filed
      <3>2. IsInjective(fileLog)' /\ ElementsOf(fileLog)' = ElementsOf(fileLog)
        BY <2>3, <3>1 DEF IsInjective, ElementsOf
      <3> QED BY <2>2, <2>3, <3>1, <3>2 DEF UnfiledKept
    <2>4. ASSUME NEW t \in Threads, Finishes(t) PROVE Filed'
      <3>1. CASE logFile = "open"
        BY <2>4, <3>1, FiledWrite
      <3>2. CASE logFile # "open"
        <4>1. pc[t] = "file" /\ logFile = "none" /\ logFile' = "none" /\ fileLog' = fileLog
          BY <2>4, <3>2 DEF Finishes, shared
        <4>2. initialized
          BY <4>1 DEF FileKept, Holding
        <4>3. pc[Main] # "uninit"
          <5> SUFFICES ASSUME pc[Main] = "uninit" PROVE FALSE
            OBVIOUS
          <5>1. (\A p \in Producers : Quiet(p)) /\ Quiet(Worker)
            BY DEF FileInv, CleanupAlone, InCleanup, AfterJoin
          <5> QED BY <1>0, <4>1, <5>1 DEF Quiet
        <4>4. fileLog' = <<>>
          BY <4>1, <4>2, <4>3 DEF FileKept
        <4> QED BY <4>1, <4>4 DEF Filed
      <3> QED BY <3>1, <3>2
    <2>5. (\A t \in Threads : ~Finishes(t)) => fileLog' = fileLog
      BY <1>1, FileLogEntry
    <2> QED BY <2>2, <2>3, <2>4, <2>5
  <1> QED BY <1>2, <1>3

LEMMA FileSafeKept ==
    ASSUME TypeOK, Book, Dooming, FileSafe, [Next]_vars
    PROVE  FileSafe'
  <1>1. Entry
    BY Entries DEF Book
  <1>2. CASE FatalQueued
    BY <1>1, <1>2, FatalStays DEF FileSafe
  <1>3. CASE ~FatalQueued
    BY <1>3, FileInvKept, FileKeptKept, FiledKept DEF FileSafe
  <1> QED BY <1>2, <1>3

-----------------------------------------------------------------------------
(* The invariant, and what it says of the logs.                            *)

(* The ledger begins empty, and every step keeps it.                       *)
LEMMA LedgerInit == Init => Ledger
  <1> SUFFICES ASSUME Init PROVE Ledger
    OBVIOUS
  <1>1. TypeOK
    BY InitType
  <1>2. /\ \A t \in Threads : called[t] = <<>> /\ msg[t] = NoMessage
        /\ console = <<>> /\ fileLog = <<>> /\ accepted = <<>> /\ refused = <<>>
        /\ size = 0 /\ ~async /\ status = "running" /\ fault = "none" /\ logFile = "none"
        /\ ~initialized
        /\ \A t \in Threads : pc[t] = IF t = Main THEN "start" ELSE "unborn"
    BY DEF Init, QueueInit
  <1>3. Main \in Threads /\ Worker \in Threads /\ Worker # Main /\ \A t \in Callers : t \in Threads
    BY ThreadAssumption DEF Threads, Callers
  <1>4. Logged = {}
    BY <1>2 DEF Logged, ElementsOf
  <1>5. \A t \in Threads : pc[t] \notin Holding \cup Unprinted \cup InCleanup
    BY <1>2 DEF Holding, Unprinted, Undecided, InCleanup, AfterJoin
  <1>6. Calls
    BY <1>2, <1>3 DEF Calls, Undecided
  <1>7. Waiting
    <2>1. Len(accepted) = 0 /\ size \in 0 .. Len(accepted) /\ 1 .. size = {}
      BY <1>2
    <2> QED BY <1>2, <1>3, <2>1 DEF Waiting
  <1>8. Decided
    <2>1. DOMAIN accepted = {} /\ ElementsOf(accepted) = {} /\ ElementsOf(refused) = {}
      BY <1>2 DEF ElementsOf
    <2> QED BY <1>2, <1>3, <1>5, <2>1 DEF Decided, IsInjective, Unprinted
  <1>9. Order
    <2>1. DOMAIN console = {} /\ ElementsOf(console) = {}
      BY <1>2 DEF ElementsOf
    <2> QED BY <1>4, <2>1 DEF Order, Printed, QueuedInOrder, BoundedOvertaking, IsInjective
  <1>10. Dooming /\ Ending
    <2>1. NoMessage \notin Fatal
      BY NoMessageAssumption, LevelAssumption
    <2> QED BY <1>2, <2>1 DEF Dooming, Ending
  <1>11. FileInv
    BY <1>2, <1>3, ThreadAssumption
       DEF FileInv, Unfaulted, CleanupAlone, WorkerFlags, FileState, InCleanup,
           AfterJoin, Quiet, Threads, Callers
  <1>12. FileKept
    BY <1>2, <1>3, <1>5 DEF FileKept, Quiet
  <1>13. Filed
    BY <1>2 DEF Filed
  <1> QED BY <1>1, <1>6, <1>7, <1>8, <1>9, <1>10, <1>11, <1>12, <1>13
          DEF Ledger, Book, FileSafe

LEMMA LedgerStep ==
    ASSUME Ledger, TypeOK', [Next]_vars
    PROVE  Ledger'
  <1>1. TypeOK /\ Book /\ Order /\ Dooming /\ Ending /\ FileSafe
    BY DEF Ledger
  <1>2. Entry
    BY <1>1, Entries DEF Book
  <1>3. Book' /\ Order'
    BY <1>1, <1>2, BookKept, OrderEntry
  <1>4. Dooming' /\ Ending' /\ FileSafe'
    BY <1>1, <1>2, DoomEntry, EndEntry, FileSafeKept
  <1> QED BY <1>3, <1>4 DEF Ledger

(* At every moment each message that was logged is in exactly one place:   *)
(* with the thread that logged it, in the ring, in the worker's hand, or   *)
(* on the logs (logger_log, enqueue_message, worker_thread and             *)
(* process_message, logger.c:77-185 and 248-280).                          *)
THEOREM LedgerInvariant == Spec => []Ledger
  <1> QED BY LedgerInit, LedgerStep, LoggerTypeInvariant, PTL DEF Spec

(* Two logs that share no message make one.                                *)
LEMMA Joined ==
    \A r, s \in Seq(Message) :
      IsInjective(r) /\ IsInjective(s) /\ ElementsOf(r) \cap ElementsOf(s) = {}
        => /\ r \o s \in Seq(Message)
           /\ IsInjective(r \o s)
           /\ ElementsOf(r \o s) = ElementsOf(r) \cup ElementsOf(s)
  <1> SUFFICES ASSUME NEW r \in Seq(Message), NEW s \in Seq(Message),
                      IsInjective(r), IsInjective(s), ElementsOf(r) \cap ElementsOf(s) = {}
               PROVE  /\ r \o s \in Seq(Message)
                      /\ IsInjective(r \o s)
                      /\ ElementsOf(r \o s) = ElementsOf(r) \cup ElementsOf(s)
    OBVIOUS
  <1>1. PICK c \in Seq(Message) : c = r \o s
    BY ConcatProperties
  <1>2. /\ Len(r) \in Nat /\ Len(s) \in Nat /\ Len(c) = Len(r) + Len(s)
        /\ DOMAIN r = 1 .. Len(r) /\ DOMAIN s = 1 .. Len(s) /\ DOMAIN c = 1 .. Len(c)
        /\ \A i \in 1 .. Len(c) : c[i] = IF i <= Len(r) THEN r[i] ELSE s[i - Len(r)]
    BY <1>1
  <1>3. \A i \in DOMAIN c : \/ i \in DOMAIN r /\ c[i] = r[i]
                            \/ i - Len(r) \in DOMAIN s /\ c[i] = s[i - Len(r)]
    BY <1>2
  <1>4. /\ \A i \in DOMAIN r : i \in DOMAIN c /\ c[i] = r[i]
        /\ \A i \in DOMAIN s : i + Len(r) \in DOMAIN c /\ c[i + Len(r)] = s[i]
    BY <1>2
  <1>5. ElementsOf(c) = ElementsOf(r) \cup ElementsOf(s)
    <2>1. ElementsOf(c) \subseteq ElementsOf(r) \cup ElementsOf(s)
      BY <1>3 DEF ElementsOf
    <2>2. ElementsOf(r) \cup ElementsOf(s) \subseteq ElementsOf(c)
      BY <1>4 DEF ElementsOf
    <2> QED BY <2>1, <2>2
  <1>6. \A i \in DOMAIN r, j \in DOMAIN s : r[i] # s[j]
    BY DEF ElementsOf
  <1>7. ASSUME NEW i \in DOMAIN c, NEW j \in DOMAIN c, c[i] = c[j]
        PROVE  i = j
    <2>1. CASE i \in DOMAIN r /\ c[i] = r[i] /\ j \in DOMAIN r /\ c[j] = r[j]
      BY <1>7, <2>1 DEF IsInjective
    <2>2. CASE /\ i - Len(r) \in DOMAIN s /\ c[i] = s[i - Len(r)]
               /\ j - Len(r) \in DOMAIN s /\ c[j] = s[j - Len(r)]
      <3>1. i - Len(r) = j - Len(r)
        BY <1>7, <2>2 DEF IsInjective
      <3> QED BY <1>2, <3>1
    <2> QED BY <1>3, <1>6, <1>7, <2>1, <2>2
  <1> QED BY <1>1, <1>5, <1>7 DEF IsInjective

(* What waits in the ring, as a log of its own.                            *)
LEMMA RingComplete ==
    ASSUME TypeOK, Book
    PROVE  /\ Contents \in Seq(Message) /\ IsInjective(Contents)
           /\ \A x : x \in ElementsOf(Contents) <=> InRing(x)
           /\ ElementsOf(Contents) \subseteq Logged
  <1>1. /\ Taken \in Nat /\ size \in Nat /\ Taken + size = Len(accepted)
        /\ DOMAIN accepted = 1 .. Len(accepted)
    BY RingSpan
  <1>2. Contents \in Seq(Message) /\ DOMAIN Contents = 1 .. size
    BY <1>1 DEF TypeOK, QueueTypeOK, Contents
  <1>3. \A p \in 1 .. size : Contents[p] = accepted[Taken + p] /\ Taken + p \in DOMAIN accepted
    BY <1>1 DEF Book, Waiting
  <1>4. IsInjective(Contents)
    <2> SUFFICES ASSUME NEW p \in 1 .. size, NEW q \in 1 .. size, Contents[p] = Contents[q]
                 PROVE  p = q
      BY <1>2 DEF IsInjective
    <2>1. Taken + p = Taken + q
      BY <1>3 DEF Book, Decided, IsInjective
    <2> QED BY <1>1, <2>1
  <1>5. \A x : x \in ElementsOf(Contents) <=> InRing(x)
    BY <1>2, <1>3 DEF ElementsOf, InRing
  <1>6. \A x : InRing(x) => x \in Logged
    BY <1>3 DEF InRing, Book, Decided, ElementsOf
  <1> QED BY <1>2, <1>4, <1>5, <1>6

(* A log that has no repetition and everything that was logged and neither *)
(* waits nor is in hand, is complete with those.                           *)
LEMMA CompleteWith ==
    ASSUME TypeOK, Book, NEW log \in Seq(Message), NEW hand \in Seq(Message),
           IsInjective(log), IsInjective(hand),
           ElementsOf(log) \subseteq Logged, ElementsOf(hand) \subseteq Logged,
           \A x \in ElementsOf(hand) : ~InRing(x),
           \A x \in Logged : x \in ElementsOf(log) <=> ~(InRing(x) \/ x \in ElementsOf(hand))
    PROVE  Complete(log \o hand \o Contents)
  <1>1. PICK ring \in Seq(Message) : ring = Contents
    BY RingComplete
  <1>2. /\ IsInjective(ring) /\ ElementsOf(ring) \subseteq Logged
        /\ \A x : x \in ElementsOf(ring) <=> InRing(x)
    BY <1>1, RingComplete
  <1>3. PICK both \in Seq(Message) : both = log \o hand
    BY ConcatProperties
  <1>4. IsInjective(both) /\ ElementsOf(both) = ElementsOf(log) \cup ElementsOf(hand)
    BY <1>3, Joined
  <1>5. PICK all \in Seq(Message) : all = both \o ring
    BY ConcatProperties
  <1>6. IsInjective(all) /\ ElementsOf(all) = ElementsOf(both) \cup ElementsOf(ring)
    <2>1. ElementsOf(both) \cap ElementsOf(ring) = {}
      BY <1>2, <1>4
    <2> QED BY <1>2, <1>4, <1>5, <2>1, Joined
  <1>7. ElementsOf(all) = Logged
    BY <1>2, <1>4, <1>6
  <1> QED BY <1>1, <1>3, <1>5, <1>6, <1>7 DEF Complete

(* At the end nothing is pending but in the ring or the worker's hand.     *)
LEMMA AccountedFollows ==
    ASSUME Ledger, status = "success"
    PROVE  /\ LogToConsole => Complete(console \o InHand("console") \o Contents)
           /\ fileLog # <<>> /\ ~FatalQueued => Complete(fileLog \o Contents)
  <1>0. TypeOK /\ Book /\ Order /\ Ending /\ FileSafe
    BY DEF Ledger
  <1>1. ~initialized /\ \A t \in Callers : Quiet(t)
    BY <1>0 DEF Ending
  <1>2. /\ console \in Seq(Message) /\ fileLog \in Seq(Message)
        /\ Worker \in Threads /\ Threads = Callers \cup {Worker}
    BY <1>0 DEF TypeOK, Threads
  <1>3. ASSUME LogToConsole
        PROVE  Complete(console \o InHand("console") \o Contents)
    <2>1. /\ IsInjective(console) /\ ElementsOf(console) \subseteq Logged
          /\ \A x \in Logged : x \in ElementsOf(console) <=> ~Pending(x)
      BY <1>0, <1>3 DEF Order, Printed
    <2>2. \A x : HeldAt(x, Unprinted) <=> pc[Worker] = "console" /\ x = msg[Worker]
      <3>1. \A t \in Callers : pc[t] \notin Unprinted
        BY <1>1 DEF Quiet, Unprinted, Undecided
      <3>2. pc[Worker] \notin Undecided
        BY <1>0 DEF Book, Calls
      <3> QED BY <1>2, <3>1, <3>2 DEF HeldAt, Unprinted
    <2>3. PICK hand : hand = InHand("console")
      OBVIOUS
    <2>4. /\ hand \in Seq(Message) /\ IsInjective(hand)
          /\ \A x : x \in ElementsOf(hand) <=> HeldAt(x, Unprinted)
          /\ \A x \in ElementsOf(hand) : x \in Logged /\ ~InRing(x)
      <3>1. CASE pc[Worker] = "console"
        <4>1. PICK m \in Message : m = msg[Worker]
          BY <1>0, <1>2, <3>1 DEF TypeOK
        <4>2. m \in Logged /\ ~InRing(m)
          BY <1>0, <1>2, <4>1, NoMessageAssumption, Apart
        <4>3. hand = <<m>>
          BY <2>3, <3>1, <4>1 DEF InHand
        <4>4. hand \in Seq(Message) /\ DOMAIN hand = {1} /\ hand[1] = m
          BY <4>3
        <4> QED BY <2>2, <3>1, <4>1, <4>2, <4>4 DEF IsInjective, ElementsOf
      <3>2. CASE pc[Worker] # "console"
        <4>1. hand = <<>>
          BY <2>3, <3>2 DEF InHand
        <4>2. hand \in Seq(Message) /\ DOMAIN hand = {}
          BY <4>1
        <4> QED BY <2>2, <3>2, <4>2 DEF IsInjective, ElementsOf
      <3> QED BY <3>1, <3>2
    <2>5. PICK log \in Seq(Message) : log = console
      BY <1>2
    <2>6. \A x \in Logged : x \in ElementsOf(log) <=> ~(InRing(x) \/ x \in ElementsOf(hand))
      BY <2>1, <2>4, <2>5 DEF Pending
    <2>7. Complete(log \o hand \o Contents)
      BY <1>0, <2>1, <2>4, <2>5, <2>6, CompleteWith
    <2>8. log \o hand \o Contents = console \o InHand("console") \o Contents
      BY <2>3, <2>5, Zenon
    <2> QED BY <2>7, <2>8, Zenon
  <1>4. ASSUME fileLog # <<>>, ~FatalQueued
        PROVE  Complete(fileLog \o Contents)
    <2>1. /\ IsInjective(fileLog) /\ ElementsOf(fileLog) \subseteq Logged
          /\ \A x \in Logged : x \in ElementsOf(fileLog) <=> ~Unfiled(x)
      BY <1>0, <1>4 DEF FileSafe, Filed
    <2>2. \A x : ~HeldAt(x, Holding)
      BY <1>0, <1>1, <1>4 DEF FileSafe, FileKept, HeldAt
    <2>3. PICK log \in Seq(Message) : log = fileLog
      BY <1>2
    <2>e. <<>> \in Seq(Message)
      OBVIOUS
    <2>4. PICK hand \in Seq(Message) : hand = <<>>
      BY <2>e, Zenon
    <2>5. ElementsOf(hand) = {} /\ IsInjective(hand)
      <3>1. DOMAIN hand = {}
        BY <2>4
      <3> QED BY <3>1 DEF ElementsOf, IsInjective
    <2>6. \A x \in Logged : x \in ElementsOf(log) <=> ~(InRing(x) \/ x \in ElementsOf(hand))
      BY <2>1, <2>2, <2>3, <2>5 DEF Unfiled
    <2>7. Complete(log \o hand \o Contents)
      BY <1>0, <2>1, <2>3, <2>5, <2>6, CompleteWith
    <2>8. log \o hand = log
      BY <2>4
    <2> QED BY <2>3, <2>7, <2>8
  <1> QED BY <1>3, <1>4

LEMMA FatalFollows ==
    ASSUME Ledger
    PROVE  FatalIsLast
  <1>0. TypeOK /\ Book /\ Order /\ Dooming /\ Ending
    BY DEF Ledger
  <1> SUFFICES ASSUME ~async PROVE FatalIsLast
    BY DEF FatalIsLast
  <1>1. ASSUME NEW t \in Callers, NEW i \in 1 .. Len(called[t]) - 1
        PROVE  called[t][i] \notin Fatal
    <2>1. t \in Threads /\ called[t] \in Seq(Message)
      BY <1>0 DEF Threads, TypeOK
    <2>2. i \in DOMAIN called[t] /\ i # Len(called[t])
      BY <2>1
    <2> QED BY <1>0, <2>1, <2>2 DEF Dooming
  <1>2. ASSUME status = "failure", LogToConsole
        PROVE  ElementsOf(console) = Logged
    <2>1. \A x : ~HeldAt(x, Unprinted)
      BY <1>0, <1>2 DEF Ending, HeldAt
    <2>2. \A x : ~InRing(x)
      <3>1. accepted = <<>>
        BY <1>0 DEF Book, Decided
      <3> QED BY <1>0, <3>1, RingSpan
    <2> QED BY <1>0, <1>2, <2>1, <2>2 DEF Order, Printed, Pending
  <1> QED BY <1>1, <1>2 DEF FatalIsLast

(* Whatever the threads do, the console shows the messages that went       *)
(* through the ring in the order of their acceptance, and a message passes *)
(* earlier ones of its thread only if the ring refused it (logger.c,       *)
(* 270-273), and then at most Capacity + 1 of them.                        *)
THEOREM LogPrintedInOrder == Spec => []PrintedInOrder
  <1>1. Ledger => PrintedInOrder
    BY DEF Ledger, Order, PrintedInOrder
  <1> QED BY <1>1, LedgerInvariant, PTL

(* No message is lost or printed twice between the ring, the worker and    *)
(* the threads that write for themselves, up to what still waits when main *)
(* returns (logger_cleanup, logger.c:223-246, drains nothing after the     *)
(* join); and without a worker a FATAL message is the last (main.c:61).    *)
THEOREM LogAllPrinted == Spec => []AllPrinted
  <1>1. Ledger => AllPrinted
    BY AccountedFollows, FatalFollows DEF AllPrinted, Accounted
  <1> QED BY <1>1, LedgerInvariant, PTL

(* The log file is never written after fclose nor closed twice, whenever a *)
(* signal comes and however the threads interleave, although               *)
(* logger.c:116-121 and 238-240 use g_log_file without a lock; a FATAL     *)
(* message that the worker gets is the one exception.                      *)
THEOREM LogFileSafe == Spec => []NoFault
  <1>1. Ledger => NoFault
    BY DEF Ledger, FileSafe, FileInv, Unfaulted, NoFault
  <1> QED BY <1>1, LedgerInvariant, PTL
=============================================================================
