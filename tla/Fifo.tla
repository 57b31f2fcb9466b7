-------------------------------- MODULE Fifo --------------------------------
(***************************************************************************)
(* The FIFO of src/fifo.c under one caller.                                *)
(***************************************************************************)
EXTENDS FifoBuffer

CONSTANTS
  Elements,    \* values that are pushed
  MaxKept      \* a bound on the elements delivered and inside, for the model only

VARIABLES
  fifo,        \* the bor_fifo_t
  delivered    \* history: what borFifoFront returned before each borFifoPop

vars == <<fifo, delivered>>

\* borFifoInitSize.
Init == fifo = EmptyFifo /\ delivered = <<>>

PushCall(x) ==
  /\ Len(Contents(fifo)) + Len(delivered) < MaxKept
  /\ fifo' = Push(fifo, x)
  /\ UNCHANGED delivered

\* The caller reads the front and pops it.
PopCall ==
  /\ fifo' = Pop(fifo)
  /\ delivered' = IF IsEmpty(fifo) THEN delivered ELSE Append(delivered, Front(fifo))

\* borFifoClear, borFifoFree: every segment is released.
Clear == fifo' = EmptyFifo /\ UNCHANGED delivered

Next == (\E x \in Elements : PushCall(x)) \/ PopCall \/ Clear

Spec == Init /\ [][Next]_vars
============================================================================
