------------------------------ MODULE LogQueue ------------------------------
(***************************************************************************)
(* g_message_queue of src/src/logger.c: a ring of Capacity slots with a    *)
(* head, a tail and a size, all guarded by g_log_mutex.  Each of the two   *)
(* critical sections (enqueue_message from its lock on, dequeue_message)   *)
(* holds the mutex from its first read to its last write and releases it   *)
(* on every path, so each is one action here.                              *)
(***************************************************************************)
EXTENDS Naturals, Sequences

CONSTANTS Capacity,     \* 1000 in the source
          Message,      \* log_message_t values, told apart but not looked into
          NoMessage     \* content of a slot that was never written

ASSUME CapacityAssumption == Capacity \in Nat \ {0}
ASSUME NoMessageAssumption == NoMessage \notin Message

VARIABLES slots,        \* g_message_queue
          head,         \* g_queue_head: the next slot to read
          tail,         \* g_queue_tail: the next slot to write
          size,         \* g_queue_size
          handed        \* *message of the last dequeue_message that returned 1

queueVars == <<slots, head, tail, size, handed>>

Index == 0 .. Capacity - 1
After(i) == (i + 1) % Capacity

QueueInit == /\ slots = [i \in Index |-> NoMessage]
             /\ head = 0
             /\ tail = 0
             /\ size = 0
             /\ handed = NoMessage

FullLate == size > Capacity        \* mutant: the bound is off by one
Full == size >= Capacity

(* The rest of enqueue_message when there is room (it returns 1). *)
Put(m) == /\ ~Full
          /\ slots' = [slots EXCEPT ![tail] = m]
          /\ tail' = After(tail)
          /\ size' = size + 1
          /\ UNCHANGED <<head, handed>>

(* Mutant: the newest message leaves first. *)
TakeNewest == /\ size # 0
              /\ tail' = (tail + Capacity - 1) % Capacity
              /\ handed' = slots[tail']
              /\ size' = size - 1
              /\ UNCHANGED <<slots, head>>

(* dequeue_message when it returns 1. *)
Take == /\ size # 0
        /\ handed' = slots[head]
        /\ head' = After(head)
        /\ size' = size - 1
        /\ UNCHANGED <<slots, tail>>

QueueNext == Take \/ \E m \in Message : Put(m)

QueueSpec == QueueInit /\ [][QueueNext]_queueVars

-----------------------------------------------------------------------------
(* The messages that wait, oldest first. *)
Contents == [i \in 1 .. size |-> slots[(head + i - 1) % Capacity]]

Fifo == INSTANCE BoundedFifo WITH fifo <- Contents, received <- handed

(* The ring is a bounded first-in first-out queue: no wrap-around of head  *)
(* or tail, empty or full, loses, repeats or reorders a message or lets an *)
(* admitted one overwrite one that still waits (logger.c, enqueue_message  *)
(* and dequeue_message).                                                   *)
ImplementsFifo == Fifo!FifoSpec

(* Every variable of the ring keeps its range, and the tail is where head  *)
(* and size say it is.                                                     *)
RingOK == /\ slots \in [Index -> Message \cup {NoMessage}]
          /\ head \in Index
          /\ tail \in Index
          /\ size \in 0 .. Capacity
          /\ handed \in Message \cup {NoMessage}
          /\ tail = (head + size) % Capacity

(* Every variable of the ring keeps its range, the tail is where head and  *)
(* size say it is, so an enqueue never lands on a waiting message, and     *)
(* what waits is messages, never a slot that nobody has written.           *)
QueueTypeOK == RingOK /\ Contents \in Seq(Message)
=============================================================================
