----------------------------- MODULE BlockClock -----------------------------
(***************************************************************************)
(* The block clock between the audio callback and the engine process       *)
(* (src/common/mnm_shm.h).  The callback owns hostBlock and plays one      *)
(* block per call; the child renders block b into slot b % kSlots and      *)
(* publishes it by storing produced = b + 1.  Nothing locks the slots: an  *)
(* access to one is a pair of steps, begin and end, and a copy that        *)
(* overlaps a write of the same slot is Torn.                              *)
(*                                                                         *)
(* Fx selects the build: FALSE renders ahead of the callback (sound        *)
(* generator), TRUE renders behind it, from the input the callback wrote.  *)
(* Audio is abstracted to what identifies it: the block it was rendered    *)
(* for, the block whose input it was rendered from, the child that did it. *)
(* Commands are modelled in CmdRing, the supervisor in Supervisor.         *)
(***************************************************************************)
EXTENDS Integers

CONSTANTS
    kSlots,      \* audio slots in the segment (8)
    kMaxDepth,   \* largest depth (4)
    Fx,          \* hasInput
    Respawns,    \* the child may die and be respawned
    LiveDepth,   \* the depth may be changed while the engine runs
    MaxBlock,    \* bound on hostBlock
    MaxChild     \* bound on the number of children spawned

\* mnm_shm.h: kSlots "power of two, > max depth"; only the order is needed here.
ASSUME SizesAssumption ==
    /\ kMaxDepth \in Nat \ {0}
    /\ kSlots \in Nat /\ kSlots > kMaxDepth
    /\ Fx \in BOOLEAN /\ Respawns \in BOOLEAN /\ LiveDepth \in BOOLEAN
    /\ MaxBlock \in Nat /\ MaxChild \in Nat

VARIABLES
    hostBlock,   \* Segment::host_block, stored by the callback only
    produced,    \* Segment::produced, stored by the child (and by a reset)
    depth,       \* Segment::depth
    phase,       \* Segment::phase, reduced to "Ready" or not
    inSlot,      \* Segment::in: the block whose input each slot holds
    outSlot,     \* Segment::out: the audio each slot holds
    cb,          \* where the callback is
    playing,     \* the block the callback plays in this call
    heard,       \* the audio it puts out
    served,      \* history: the child whose Ready the call found
    child,       \* where the child is
    next,        \* the child's local: the block it renders next
    hbC, depthC, \* the child's copies of hostBlock and depth
    input,       \* the block whose input the child has read
    gen          \* number of children spawned so far

cbVars == <<cb, playing, heard, served>>
childVars == <<child, next, hbC, depthC, input>>
slots == <<inSlot, outSlot>>
vars == <<hostBlock, produced, depth, phase, slots, cbVars, childVars, gen>>

Slot(b) == b % kSlots
SlotIds == 0 .. kSlots - 1
Depths == 1 .. kMaxDepth
NoBlock == -1
Audio == [block: Int, input: Int, by: Nat]
Torn == [block |-> NoBlock, input |-> NoBlock, by |-> 0]     \* half of one block, half of another
Silence == [block |-> -2, input |-> NoBlock, by |-> 0]       \* zeros: an underrun, or memory never written

-----------------------------------------------------------------------------
(* The callback: renderBlock (synth), processBlock (fx).                   *)

CopyingSlot(s) == cb = "copy" /\ Slot(playing) = s
ReadingSlot(s) == child = "read" /\ Slot(next) = s

\* tick() finds the phase Ready.  A call that finds anything else returns at once and changes
\* none of this state.  The fx call starts overwriting the input slot of block hostBlock, which
\* tears the input of a child still reading that slot.
Tick ==
    /\ cb = "idle" /\ phase = "Ready" /\ hostBlock < MaxBlock
    /\ served' = gen
    /\ IF Fx
       THEN /\ inSlot' = [inSlot EXCEPT ![Slot(hostBlock)] = NoBlock]
            /\ input' = IF ReadingSlot(Slot(hostBlock)) THEN NoBlock ELSE input
            /\ cb' = "input" /\ UNCHANGED playing
       ELSE /\ cb' = "play" /\ playing' = hostBlock
            /\ UNCHANGED <<inSlot, input>>
    /\ UNCHANGED <<hostBlock, produced, depth, phase, outSlot, heard, child, next, hbC, depthC, gen>>

\* fx: the input of block hostBlock is written; the call plays block hostBlock - depth, or silence
\* while the stream is younger than the latency.
InputWritten ==
    /\ cb = "input"
    /\ inSlot' = [inSlot EXCEPT ![Slot(hostBlock)] = hostBlock]
    /\ IF hostBlock >= depth
       THEN cb' = "play" /\ playing' = hostBlock - depth
       ELSE cb' = "advance" /\ UNCHANGED playing
    /\ UNCHANGED <<hostBlock, produced, depth, phase, outSlot, heard, served, childVars, gen>>

\* Mutant of PlayBlock: "produced < b" for "produced <= b".
PlayBlockOffByOne ==
    /\ cb = "play"
    /\ IF produced - playing < 0 \/ produced - playing > kSlots
       THEN cb' = "advance" /\ UNCHANGED heard
       ELSE cb' = "copy" /\ heard' = outSlot[Slot(playing)]
    /\ UNCHANGED <<hostBlock, produced, depth, phase, slots, playing, served, childVars, gen>>

\* playBlock: the guard on produced, then the copy out of the slot begins, or the block is an underrun.
PlayBlock ==
    /\ cb = "play"
    /\ IF produced - playing <= 0 \/ produced - playing > kSlots
       THEN cb' = "advance" /\ UNCHANGED heard
       ELSE cb' = "copy" /\ heard' = outSlot[Slot(playing)]
    /\ UNCHANGED <<hostBlock, produced, depth, phase, slots, playing, served, childVars, gen>>

CopyDone ==
    /\ cb = "copy"
    /\ cb' = "advance"
    /\ UNCHANGED <<hostBlock, produced, depth, phase, slots, playing, heard, served, childVars, gen>>

\* advance(): the store of host_block, then the futex wake.
Advance ==
    /\ cb = "advance"
    /\ hostBlock' = hostBlock + 1
    /\ cb' = "wake" /\ playing' = NoBlock /\ heard' = Silence /\ served' = 0
    /\ UNCHANGED <<produced, depth, phase, slots, childVars, gen>>

Wake ==
    /\ cb = "wake"
    /\ cb' = "idle"
    /\ child' = IF child = "asleep" THEN "loop" ELSE child
    /\ UNCHANGED <<hostBlock, produced, depth, phase, slots, playing, heard, served, next, hbC, depthC, input, gen>>

\* set_param "depth" and a restored state store the segment's depth, on the callback's thread.
\* Nothing wakes the child.
SetDepth(d) ==
    /\ LiveDepth /\ cb = "idle" /\ d # depth
    /\ depth' = d
    /\ UNCHANGED <<hostBlock, produced, phase, slots, cbVars, childVars, gen>>

-----------------------------------------------------------------------------
(* The child: the main loop of mnm-engine.                                 *)

\* The one assumption on time: a call of the callback (3 ms) does not last through the boot of a child (0.4 s).
CallsAreShorterThanBoots == cb \in {"idle", "wake"}

\* Booted: next and produced start at host_block and the phase becomes Ready.  The callback does
\* not move the clock before that, so the three steps are one.
ChildReady ==
    /\ child = "boot" /\ CallsAreShorterThanBoots
    /\ next' = hostBlock /\ produced' = hostBlock /\ phase' = "Ready"
    /\ child' = "loop"
    /\ UNCHANGED <<hostBlock, depth, slots, cbVars, hbC, depthC, input, gen>>

LoadClock ==
    /\ child = "loop"
    /\ hbC' = hostBlock /\ child' = "depth"
    /\ UNCHANGED <<hostBlock, produced, depth, phase, slots, cbVars, next, depthC, input, gen>>

LoadDepth ==
    /\ child = "depth"
    /\ depthC' = depth /\ child' = "decide"
    /\ UNCHANGED <<hostBlock, produced, depth, phase, slots, cbVars, next, hbC, input, gen>>

\* Mutants of Limit and Oldest: one block too many, the synth's window for the fx.
LimitPlusOne == IF Fx THEN hbC + 1 ELSE hbC + depthC + 1
OldestOfSynth == hbC

Limit == IF Fx THEN hbC ELSE hbC + depthC
Oldest == IF ~Fx THEN hbC ELSE IF hbC > depthC THEN hbC - depthC ELSE 0
CanRender == child = "decide" /\ Oldest <= next /\ next < Limit

\* Fell behind: skip to the next block the callback plays.
Skip ==
    /\ child = "decide" /\ next < Oldest
    /\ next' = Oldest /\ produced' = Oldest
    /\ UNCHANGED <<hostBlock, depth, phase, slots, cbVars, child, hbC, depthC, input, gen>>

\* Mutant of Wait: the wait compares with the current value instead of the one that was used.
WaitOnFreshValue ==
    /\ child = "decide" /\ Oldest <= next /\ Limit <= next
    /\ child' = "asleep"
    /\ UNCHANGED <<hostBlock, produced, depth, phase, slots, cbVars, next, hbC, depthC, input, gen>>

\* futexWait(&host_block, hb): the kernel sleeps only if the word still holds hb.
Wait ==
    /\ child = "decide" /\ Oldest <= next /\ Limit <= next
    /\ child' = IF hostBlock = hbC THEN "asleep" ELSE "loop"
    /\ UNCHANGED <<hostBlock, produced, depth, phase, slots, cbVars, next, hbC, depthC, input, gen>>

\* The wait is bounded by 50 ms.
WaitTimeout ==
    /\ child = "asleep"
    /\ child' = "loop"
    /\ UNCHANGED <<hostBlock, produced, depth, phase, slots, cbVars, next, hbC, depthC, input, gen>>

\* fx: reads the input slot of the block it renders.
ReadInput ==
    /\ Fx /\ CanRender
    /\ input' = inSlot[Slot(next)] /\ child' = "read"
    /\ UNCHANGED <<hostBlock, produced, depth, phase, slots, cbVars, next, hbC, depthC, gen>>

\* The output slot is being overwritten: a copy the callback is making of it is torn.
BeginWrite ==
    /\ IF Fx THEN child = "read" ELSE CanRender
    /\ outSlot' = [outSlot EXCEPT ![Slot(next)] = Torn]
    /\ heard' = IF CopyingSlot(Slot(next)) THEN Torn ELSE heard
    /\ child' = "write"
    /\ UNCHANGED <<hostBlock, produced, depth, phase, inSlot, cb, playing, served, next, hbC, depthC, input, gen>>

EndWrite ==
    /\ child = "write"
    /\ outSlot' = [outSlot EXCEPT ![Slot(next)] = [block |-> next, input |-> input, by |-> gen]]
    /\ child' = "publish"
    /\ UNCHANGED <<hostBlock, produced, depth, phase, inSlot, cbVars, next, hbC, depthC, input, gen>>

Publish ==
    /\ child = "publish"
    /\ next' = next + 1 /\ produced' = next + 1
    /\ child' = "loop"
    /\ UNCHANGED <<hostBlock, depth, phase, slots, cbVars, hbC, depthC, input, gen>>

-----------------------------------------------------------------------------
(* The supervisor, as far as it touches the clock.                         *)

\* A crash, an engine fault or a kill.  The phase keeps its value until the supervisor notices.
ChildDies ==
    /\ Respawns /\ gen < MaxChild
    /\ child # "off"
    /\ child' = "off"
    /\ UNCHANGED <<hostBlock, produced, depth, phase, slots, cbVars, next, hbC, depthC, input, gen>>

Reap ==
    /\ child = "off" /\ phase = "Ready"
    /\ phase' = "Spawning"
    /\ UNCHANGED <<hostBlock, produced, depth, slots, cbVars, childVars, gen>>

\* resetSegment and the spawn.  The depth it stores is the one set_param wrote in the instance, read
\* earlier: any depth.  The first restart follows the reap at once, so a call that found Ready before it
\* may be anywhere when the segment is reset and the child spawned.
Respawn ==
    /\ child = "off" /\ phase = "Spawning"
    /\ produced' = hostBlock
    /\ depth' \in Depths
    /\ child' = "boot" /\ gen' = gen + 1
    /\ UNCHANGED <<hostBlock, phase, slots, cbVars, next, hbC, depthC, input>>

-----------------------------------------------------------------------------
Init ==
    /\ hostBlock = 0 /\ produced = 0 /\ depth \in Depths /\ phase = "Spawning"
    /\ inSlot = [s \in SlotIds |-> NoBlock]
    /\ outSlot = [s \in SlotIds |-> Silence]      \* a fresh memfd is zeros
    /\ cb = "idle" /\ playing = NoBlock /\ heard = Silence /\ served = 0
    /\ child = "boot" /\ next = 0 /\ hbC = 0 /\ depthC = 1 /\ input = NoBlock
    /\ gen = 1

Callback == Tick \/ InputWritten \/ PlayBlock \/ CopyDone \/ Advance \/ Wake
Child == ChildReady \/ LoadClock \/ LoadDepth \/ Skip \/ Wait \/ ReadInput \/ BeginWrite \/ EndWrite \/ Publish
Supervisor == ChildDies \/ Reap \/ Respawn

Next == Callback \/ (\E d \in Depths : SetDepth(d)) \/ Child \/ WaitTimeout \/ Supervisor

Spec == Init /\ [][Next]_vars

\* The host calls the callback once per block; the child is a SCHED_FIFO process whose steps never
\* block except in the futex wait; the supervisor polls.  Nothing forces the 50 ms timeout to be
\* the one that ends a wait, so WaitTimeout gets no fairness here: the wake alone must suffice.
FairSpec == Spec /\ WF_vars(Callback) /\ WF_vars(Child) /\ WF_vars(Reap) /\ WF_vars(Respawn)

-----------------------------------------------------------------------------
TypeOK ==
    /\ hostBlock \in Nat /\ produced \in Nat /\ depth \in Depths
    /\ phase \in {"Spawning", "Ready"}
    /\ inSlot \in [SlotIds -> Int]
    /\ outSlot \in [SlotIds -> Audio]
    /\ cb \in {"idle", "input", "play", "copy", "advance", "wake"}
    /\ playing \in Int /\ heard \in Audio /\ served \in Nat
    /\ child \in {"off", "boot", "loop", "depth", "decide", "asleep", "read", "write", "publish"}
    /\ next \in Nat /\ hbC \in Nat /\ depthC \in Depths /\ input \in Int
    /\ gen \in Nat

\* The call is about to return the audio of a slot.
Sounding == cb = "advance" /\ heard # Silence

\* playBlock's comment: a call plays block b "if the child has produced it, else silence".  What is
\* heard is block `playing`, whole, rendered by the child the call found Ready: never the block that had
\* the slot before, never one being overwritten, by a child spawned during the call or otherwise, never
\* one of a child before.
PlaysOnlyProduced == Sounding => heard.block = playing /\ heard.by = served

\* An fx block that is heard was rendered from its own input, although the callback overwrites the
\* input slot of a child that is late: such a block is never played.
PlaysOwnInput == Sounding /\ Fx => heard.input = playing

\* The child is never further ahead than the latency allows: the synth renders at most kMaxDepth
\* blocks the callback has not played, the fx none whose input has not come.  A note waits no
\* longer than that.
NeverTooFarAhead == produced - hostBlock <= IF Fx THEN 0 ELSE kMaxDepth

\* No wakeup is lost: a child asleep with the callback between calls has seen the current block.  It
\* rests on the store preceding the wake and on the kernel comparing the word with the hb that was
\* used to decide.
NoLostWakeup == child = "asleep" /\ cb # "wake" => hbC = hostBlock

\* The first block the callback may still ask for.
PlayHead == IF Fx THEN hostBlock - depth ELSE hostBlock

\* A skip gives up only blocks whose moment has passed: none the callback would still play.
SkipsOnlyThePast == [][Skip => produced' <= PlayHead]_vars

\* Unless the child dies, it always comes to have rendered everything the clock allows it by the depth
\* it last read: a sleeping child is woken, one that is behind catches up.  (The bound on hostBlock ends
\* the run.)
CaughtUp == produced >= IF Fx THEN hostBlock ELSE hostBlock + depthC
EventuallyCaughtUp == <>[](hostBlock = MaxBlock /\ CaughtUp)

\* The synth's clock implements the stream: each call sounds the block whose turn it is, taken from
\* at most kMaxDepth in hand, or nothing.
Ahead == IF produced > hostBlock THEN produced - hostBlock ELSE 0
HeardBlock == IF heard = Silence THEN NoBlock ELSE heard.block
Stream == INSTANCE BlockStream WITH consumed <- hostBlock, ahead <- Ahead, sounding <- HeardBlock
ImplementsStream == Stream!Spec
=============================================================================
