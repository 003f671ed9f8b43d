-------------------------------- MODULE Fifo --------------------------------
(* What SafeQueue<T> promises its users: a queue whose operations are        *)
(* indivisible.  Every item pushed is handed to exactly one consumer, in the *)
(* order of the pushes; a try_pop reports "nothing" only of an empty queue.  *)
EXTENDS Sequences

CONSTANTS Consumers, Items, NoItem

VARIABLES queue,   \* the items pushed and not yet taken
          value    \* per consumer: what its last pop returned

fvars == <<queue, value>>

FifoInit == queue = <<>> /\ value = [c \in Consumers |-> NoItem]

FifoPush(x) == queue' = Append(queue, x) /\ UNCHANGED value

FifoPop(c) ==
  /\ queue # <<>>
  /\ value' = [value EXCEPT ![c] = Head(queue)]
  /\ queue' = Tail(queue)

FifoMiss(c) ==
  /\ queue = <<>>
  /\ value' = [value EXCEPT ![c] = NoItem]
  /\ UNCHANGED queue

FifoNext ==
  \/ \E x \in Items : FifoPush(x)
  \/ \E c \in Consumers : FifoPop(c) \/ FifoMiss(c)

FifoSpec == FifoInit /\ [][FifoNext]_fvars
=============================================================================
