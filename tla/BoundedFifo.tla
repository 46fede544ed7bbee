---------------------------- MODULE BoundedFifo ----------------------------
(***************************************************************************)
(* What a queue between threads promises, whatever holds its elements: at  *)
(* most Capacity messages wait, and they leave in the order they came.     *)
(* LogQueue, the ring behind the logger of src/src/logger.c, implements it.*)
(***************************************************************************)
EXTENDS Naturals, Sequences

CONSTANTS Capacity,     \* how many messages may wait
          Message,      \* the messages
          NoMessage     \* what a receiver holds before its first message

VARIABLES fifo,         \* the messages that wait, oldest first
          received      \* the message the last Receive handed out

fvars == <<fifo, received>>

FifoInit == /\ fifo = <<>>
            /\ received = NoMessage

Send(m) == /\ Len(fifo) < Capacity
           /\ fifo' = Append(fifo, m)
           /\ UNCHANGED received

Receive == /\ fifo # <<>>
           /\ received' = Head(fifo)
           /\ fifo' = Tail(fifo)

FifoNext == Receive \/ \E m \in Message : Send(m)

FifoSpec == FifoInit /\ [][FifoNext]_fvars
=============================================================================
