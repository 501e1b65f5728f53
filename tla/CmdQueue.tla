------------------------------ MODULE CmdQueue ------------------------------
(***************************************************************************)
(* What the command ring promises: a bounded FIFO from the callback to the *)
(* child.  A command is refused only when the queue is full; one that is   *)
(* accepted is applied in the order of acceptance, as it was sent, and at  *)
(* most once; room is made only when a whole drain is released; a respawn  *)
(* throws away what the dead child left.                                   *)
(***************************************************************************)
EXTENDS Naturals, Sequences

CONSTANTS
    kCmdSlots,   \* room in the queue
    MaxPush      \* bound on the commands offered

VARIABLES
    queue,       \* accepted and not yet released
    taken,       \* how many of its head the child has applied
    applied,     \* the command applied last
    refused      \* commands refused

vars == <<queue, taken, applied, refused>>
Nothing == 0

Init == queue = <<>> /\ taken = 0 /\ applied = Nothing /\ refused = 0

Accept(c) ==
    /\ Len(queue) < kCmdSlots
    /\ queue' = Append(queue, c)
    /\ UNCHANGED <<taken, applied, refused>>

Refuse ==
    /\ Len(queue) = kCmdSlots /\ refused < MaxPush
    /\ refused' = refused + 1
    /\ UNCHANGED <<queue, taken, applied>>

Apply ==
    /\ taken < Len(queue)
    /\ taken' = taken + 1
    /\ applied' = queue[taken + 1]
    /\ UNCHANGED <<queue, refused>>

Release ==
    /\ taken > 0
    /\ queue' = SubSeq(queue, taken + 1, Len(queue))
    /\ taken' = 0
    /\ UNCHANGED <<applied, refused>>

\* The child dies within a drain.
Abort ==
    /\ taken' = 0
    /\ UNCHANGED <<queue, applied, refused>>

\* A respawn drops a prefix: all that was there when it looked.
Clear ==
    /\ taken = 0
    /\ \E n \in 1 .. Len(queue) : queue' = SubSeq(queue, n + 1, Len(queue))
    /\ UNCHANGED <<taken, applied, refused>>

Next == (\E c \in 1 .. MaxPush : Accept(c)) \/ Refuse \/ Apply \/ Release \/ Abort \/ Clear

Spec == Init /\ [][Next]_vars
=============================================================================
