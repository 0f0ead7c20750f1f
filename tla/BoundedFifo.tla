---------------------------- MODULE BoundedFifo ----------------------------
(***************************************************************************)
(* What the bounded queues of the library promise, with no slots, tickets  *)
(* or sequence numbers in it: a FIFO of at most Capacity values.  A value  *)
(* leaves the queue the moment a consumer is committed to it (it is then   *)
(* "held" by that consumer) and is handed to the caller later.             *)
(***************************************************************************)
EXTENDS Naturals, Sequences

CONSTANTS
  Consumers,   \* the threads that take values
  Values,      \* the values that can be queued
  Capacity,    \* the most values the queue may hold
  NoValue      \* not a value: nothing held, nothing handed out yet

VARIABLES
  queue,       \* the queued values, oldest first
  held,        \* held[c]: the value c is committed to and has not received
  out          \* out[c]: the last value handed to c

vars == <<queue, held, out>>

Init ==
  /\ queue = << >>
  /\ held = [c \in Consumers |-> NoValue]
  /\ out = [c \in Consumers |-> NoValue]

Put(v) ==
  /\ Len(queue) < Capacity
  /\ queue' = Append(queue, v)
  /\ UNCHANGED <<held, out>>

Take(c) ==
  /\ queue # << >>
  /\ held[c] = NoValue
  /\ held' = [held EXCEPT ![c] = Head(queue)]
  /\ queue' = Tail(queue)
  /\ UNCHANGED out

HandOver(c) ==
  /\ held[c] # NoValue
  /\ out' = [out EXCEPT ![c] = held[c]]
  /\ held' = [held EXCEPT ![c] = NoValue]
  /\ UNCHANGED queue

Next ==
  \/ \E v \in Values : Put(v)
  \/ \E c \in Consumers : Take(c) \/ HandOver(c)

Spec == Init /\ [][Next]_vars
=============================================================================
