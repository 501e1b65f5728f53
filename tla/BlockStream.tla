---------------------------- MODULE BlockStream ----------------------------
(***************************************************************************)
(* What the block clock promises a sound generator's host, with no slots,  *)
(* counters of the child or phases: a stream of blocks consumed one per    *)
(* call, a few of them in hand, and each call sounding either exactly the  *)
(* block whose turn it is or nothing.                                      *)
(***************************************************************************)
EXTENDS Integers

CONSTANTS
    kMaxDepth,   \* most blocks in hand
    MaxBlock     \* bound on consumed

VARIABLES
    consumed,    \* blocks consumed so far: the next one to play
    ahead,       \* rendered blocks in hand, from consumed on
    sounding     \* the block this call has taken, or Quiet

vars == <<consumed, ahead, sounding>>
Quiet == -1

Init == consumed = 0 /\ ahead = 0 /\ sounding = Quiet

\* One more block is rendered.
Render ==
    /\ ahead < kMaxDepth
    /\ ahead' = ahead + 1
    /\ UNCHANGED <<consumed, sounding>>

\* The call takes the block whose turn it is, if it is in hand.
Take ==
    /\ ahead > 0 /\ sounding = Quiet
    /\ sounding' = consumed
    /\ UNCHANGED <<consumed, ahead>>

\* The call ends: the clock moves on, whether the block was taken or not.
Turn ==
    /\ consumed < MaxBlock
    /\ consumed' = consumed + 1
    /\ ahead' = IF ahead > 0 THEN ahead - 1 ELSE 0
    /\ sounding' = Quiet

\* The renderer is replaced, at any moment: what was in hand is gone.  A block that the call has taken
\* sounds to its end.
Lose ==
    /\ ahead' = 0
    /\ UNCHANGED <<consumed, sounding>>

Next == Render \/ Take \/ Turn \/ Lose

Spec == Init /\ [][Next]_vars
=============================================================================
