-------------------------- MODULE BlockClockProofs --------------------------
(***************************************************************************)
(* The safety of the block clock for every number of slots and depth, and  *)
(* every length of run.  The sound generator's clock is safe whatever the  *)
(* supervisor and the user do; the effect's is safe as long as its child   *)
(* is not respawned and its depth is only lowered (Calm): the run          *)
(* clock_fx_respawn shows what a respawn does to it.                       *)
(***************************************************************************)
EXTENDS BlockClock, TLAPS

\* A step of the synth, or one of the effect that neither respawns its child nor raises its depth.
\* (The child may die and be reaped.)
Calm == Fx => gen' = gen /\ depth' <= depth
CalmSpec == Spec /\ [][Calm]_vars

\* Audio a is block b, rendered by the current child and, in the fx, from its own input.
IsBlock(a, b) == a.block = b /\ a.by = gen /\ (Fx => a.input = b)

\* The same of what a call has taken, by the child it found Ready.
Plays(a, b) == a.block = b /\ a.by = served /\ (Fx => a.input = b)

Playing == cb \notin {"idle", "wake"}
InLoop == child \notin {"off", "boot"}
Decided == child \in {"decide", "asleep", "read", "write", "publish"}
Rendering == child \in {"read", "write", "publish"}

\* The child's locals against the shared clock.
ChildInv ==
    /\ InLoop => next = produced
    /\ child = "depth" \/ Decided => hbC <= hostBlock
    /\ Fx /\ Decided => depthC >= depth
    /\ Rendering => Oldest <= next /\ next < Limit
    /\ child = "read" => Fx
    /\ child = "boot" => phase = "Spawning" /\ produced <= hostBlock
    /\ child = "boot" /\ Fx => cb = "idle" /\ hostBlock = 0 /\ produced = 0

\* Every block from the play head up to produced lies in its slot.
SlotsInv ==
    /\ \A b \in Nat : PlayHead <= b /\ b < produced => IsBlock(outSlot[Slot(b)], b)
    /\ child = "publish" => /\ outSlot[Slot(next)].block = next
                            /\ outSlot[Slot(next)].by = gen
                            /\ outSlot[Slot(next)].input = input

\* The input slots hold the last kSlots - 1 blocks; a child that read one too late is too late to be heard.
InputInv == Fx =>
    /\ \A j \in Nat : hostBlock - kSlots < j /\ j < hostBlock => inSlot[Slot(j)] = j
    /\ cb \in {"play", "copy", "advance"} => inSlot[Slot(hostBlock)] = hostBlock
    /\ Rendering => input = next \/ next + kSlots <= hostBlock

\* The call plays the block at the play head, and what it has taken is that block.  A call overtaken
\* by a respawn finds nothing more to take, and the new child has yet to boot.
PlayInv ==
    /\ cb = "input" => Fx
    /\ served <= gen
    /\ Playing => hostBlock < MaxBlock
    /\ Playing /\ served # gen => ~Fx /\ child \in {"boot", "off"} /\ produced <= hostBlock
    /\ cb \in {"play", "copy"} => playing = PlayHead /\ playing >= 0
    /\ cb = "copy" /\ served = gen => playing < produced
    /\ cb \in {"copy", "advance"} => heard = Silence \/ Plays(heard, playing)
    /\ cb \notin {"copy", "advance"} => heard = Silence

Inv == TypeOK /\ ChildInv /\ SlotsInv /\ InputInv /\ PlayInv /\ NeverTooFarAhead

-----------------------------------------------------------------------------
(* Arithmetic of the slots.                                                *)

\* a % kSlots is a slot, and a is kSlots times a whole number above it.
LEMMA DivMod ==
    ASSUME NEW s \in Nat \ {0}, NEW a \in Int
    PROVE  /\ a % s \in 0 .. s - 1
           /\ a \div s \in Int
           /\ a % s = a - s * (a \div s)
  BY Z3

LEMMA PositiveMultiple ==
    ASSUME NEW s \in Nat \ {0}, NEW k \in Int, s * k > 0
    PROVE  s * k >= s
  BY Z3

LEMMA DistributeMinus ==
    ASSUME NEW s \in Int, NEW k \in Int, NEW l \in Int
    PROVE  s * k - s * l = s * (k - l)
  BY Z3

LEMMA SlotType == \A b \in Int : Slot(b) \in SlotIds
  BY DivMod, SizesAssumption DEF Slot, SlotIds

\* Two blocks less than kSlots apart have different slots (Segment: slot b % kSlots).
LEMMA SlotsDiffer ==
    \A a, b \in Nat : b < a /\ a - b < kSlots => Slot(a) # Slot(b)
  <1> SUFFICES ASSUME NEW a \in Nat, NEW b \in Nat, b < a, a - b < kSlots, Slot(a) = Slot(b)
               PROVE FALSE
    OBVIOUS
  <1> DEFINE p == a \div kSlots
             q == b \div kSlots
  <1>1. kSlots \in Nat \ {0} /\ a \in Int /\ b \in Int
    BY SizesAssumption
  <1>2. /\ p \in Int /\ a % kSlots = a - kSlots * p
        /\ q \in Int /\ b % kSlots = b - kSlots * q
    BY <1>1, DivMod
  <1> HIDE DEF p, q
  <1>3. kSlots * p \in Int /\ kSlots * q \in Int
    BY <1>1, <1>2
  <1>4. kSlots * p - kSlots * q = a - b
    BY <1>2, <1>3 DEF Slot
  <1>5. p - q \in Int /\ kSlots * (p - q) = a - b
    BY <1>1, <1>2, <1>4, DistributeMinus
  <1>6. kSlots * (p - q) >= kSlots
    BY <1>1, <1>5, PositiveMultiple
  <1> QED
    BY <1>1, <1>5, <1>6

-----------------------------------------------------------------------------
(* Type correctness.                                                       *)

LEMMA AudioType ==
    /\ Silence \in Audio /\ Torn \in Audio
    /\ \A b \in Int, i \in Int, g \in Nat : [block |-> b, input |-> i, by |-> g] \in Audio
  BY DEF Silence, Torn, Audio, NoBlock

LEMMA InitTypeOK == Init => TypeOK
  BY SizesAssumption, AudioType DEF Init, TypeOK, Depths, SlotIds, NoBlock

LEMMA NextTypeOK == TypeOK /\ [Next]_vars => TypeOK'
  <1> SUFFICES ASSUME TypeOK, [Next]_vars PROVE TypeOK'
    OBVIOUS
  <1> USE SizesAssumption DEF TypeOK, Depths, slots, cbVars, childVars
  <1>1. CASE Callback
    <2>1. CASE Tick
      BY <2>1 DEF Tick, NoBlock
    <2>2. CASE InputWritten
      <3>1. hostBlock \in Int /\ inSlot \in [SlotIds -> Int]
        OBVIOUS
      <3>2. inSlot' = [inSlot EXCEPT ![Slot(hostBlock)] = hostBlock]
        BY <2>2 DEF InputWritten
      <3>3. inSlot' \in [SlotIds -> Int]
        BY ONLY <3>1, <3>2
      <3> QED
        BY <2>2, <3>3 DEF InputWritten
    <2>3. CASE PlayBlock
      BY <2>3, SlotType DEF PlayBlock
    <2>4. CASE CopyDone
      BY <2>4 DEF CopyDone
    <2>5. CASE Advance
      BY <2>5, AudioType DEF Advance, NoBlock
    <2>6. CASE Wake
      BY <2>6 DEF Wake
    <2> QED
      BY <1>1, <2>1, <2>2, <2>3, <2>4, <2>5, <2>6 DEF Callback
  <1>2. ASSUME NEW d \in Depths, SetDepth(d) PROVE TypeOK'
    BY <1>2 DEF SetDepth
  <1>3. CASE Child
    <2>1. CASE ChildReady \/ LoadClock \/ LoadDepth \/ Wait
      BY <2>1 DEF ChildReady, LoadClock, LoadDepth, Wait
    <2>2. CASE Skip
      BY <2>2 DEF Skip, Oldest
    <2>3. CASE ReadInput
      BY <2>3, SlotType DEF ReadInput
    <2>4. CASE BeginWrite
      BY <2>4, AudioType DEF BeginWrite
    <2>5. CASE EndWrite
      <3>1. [block |-> next, input |-> input, by |-> gen] \in Audio
        BY AudioType
      <3>2. outSlot' \in [SlotIds -> Audio]
        BY <2>5, <3>1 DEF EndWrite
      <3> QED
        BY <2>5, <3>2 DEF EndWrite
    <2>6. CASE Publish
      BY <2>6 DEF Publish
    <2> QED
      BY <1>3, <2>1, <2>2, <2>3, <2>4, <2>5, <2>6 DEF Child
  <1>4. CASE WaitTimeout
    BY <1>4 DEF WaitTimeout
  <1>5. CASE Supervisor
    BY <1>5 DEF Supervisor, ChildDies, Reap, Respawn
  <1>6. CASE UNCHANGED vars
    BY <1>6 DEF vars
  <1> QED
    BY <1>1, <1>2, <1>3, <1>4, <1>5, <1>6 DEF Next

\* Every variable keeps its type, in both builds and with respawns.
THEOREM TypeCorrect == Spec => []TypeOK
  BY InitTypeOK, NextTypeOK, PTL DEF Spec

-----------------------------------------------------------------------------
(* The invariant.                                                          *)

LEMMA InitInv == Init => Inv
  <1> SUFFICES ASSUME Init PROVE Inv
    OBVIOUS
  <1>1. TypeOK
    BY InitTypeOK
  <1>2. ChildInv /\ PlayInv /\ NeverTooFarAhead
    BY SizesAssumption DEF Init, ChildInv, PlayInv, NeverTooFarAhead, Playing, InLoop, Decided, Rendering
  <1>3. SlotsInv /\ InputInv
    BY SizesAssumption DEF Init, SlotsInv, InputInv, Rendering, PlayHead, Depths
  <1> QED
    BY <1>1, <1>2, <1>3 DEF Inv

\* The callback's steps.
LEMMA CallbackInv == Inv /\ Callback => Inv'
  <1> SUFFICES ASSUME Inv, Callback PROVE Inv'
    OBVIOUS
  <1>t. TypeOK'
    BY NextTypeOK DEF Inv, Next
  <1> USE SizesAssumption DEF Inv, TypeOK, Depths, Playing, InLoop, Decided, Rendering
  <1>1. CASE Tick
    <2> USE <1>1 DEF Tick
    <2>1. ChildInv' /\ NeverTooFarAhead'
      BY DEF ChildInv, NeverTooFarAhead, Oldest, Limit
    <2>2. SlotsInv'
      BY DEF SlotsInv, ReadingSlot, PlayHead, IsBlock
    <2>3. InputInv'
      <3> SUFFICES ASSUME Fx PROVE InputInv'
        BY DEF InputInv
      <3>1. \A j \in Nat : hostBlock - kSlots < j /\ j < hostBlock => inSlot'[Slot(j)] = j
        BY SlotType, SlotsDiffer DEF InputInv
      <3>2. Rendering' => input' = next \/ next + kSlots <= hostBlock
        <4>1. CASE ReadingSlot(Slot(hostBlock))
          <5>1. next < hostBlock
            BY <4>1 DEF ReadingSlot, ChildInv, Limit
          <5> QED
            BY <4>1, <5>1, SlotsDiffer DEF ReadingSlot
        <4>2. CASE ~ReadingSlot(Slot(hostBlock))
          BY <4>2 DEF InputInv
        <4> QED
          BY <4>1, <4>2
      <3> QED
        BY <3>1, <3>2 DEF InputInv
    <2>4. PlayInv'
      BY DEF PlayInv, PlayHead
    <2> QED
      BY <1>t, <2>1, <2>2, <2>3, <2>4
  <1>2. CASE InputWritten
    <2> USE <1>2 DEF InputWritten, childVars
    <2>1. ChildInv' /\ NeverTooFarAhead'
      BY DEF ChildInv, NeverTooFarAhead, Oldest, Limit
    <2>2. SlotsInv'
      BY DEF SlotsInv, PlayHead, IsBlock
    <2>3. InputInv'
      <3>1. \A j \in Nat : hostBlock - kSlots < j /\ j < hostBlock => Slot(j) # Slot(hostBlock)
        BY SlotsDiffer
      <3> QED
        BY <3>1, SlotType DEF InputInv
    <2>4. PlayInv'
      BY DEF PlayInv, PlayHead, IsBlock, Plays
    <2> QED
      BY <1>t, <2>1, <2>2, <2>3, <2>4
  <1>3. CASE PlayBlock
    <2> USE <1>3 DEF PlayBlock, childVars, slots
    <2>1. ChildInv' /\ NeverTooFarAhead'
      BY DEF ChildInv, NeverTooFarAhead, Oldest, Limit
    <2>2. SlotsInv' /\ InputInv'
      BY DEF SlotsInv, InputInv, PlayHead, IsBlock
    <2>3. PlayInv'
      BY DEF PlayInv, SlotsInv, PlayHead, IsBlock, Plays
    <2> QED
      BY <1>t, <2>1, <2>2, <2>3
  <1>4. CASE CopyDone
    <2> USE <1>4 DEF CopyDone, childVars, slots
    <2>1. ChildInv' /\ NeverTooFarAhead'
      BY DEF ChildInv, NeverTooFarAhead, Oldest, Limit
    <2>2. SlotsInv' /\ InputInv'
      BY DEF SlotsInv, InputInv, PlayHead, IsBlock
    <2>3. PlayInv'
      BY DEF PlayInv, Plays
    <2> QED
      BY <1>t, <2>1, <2>2, <2>3
  <1>5. CASE Advance
    <2> USE <1>5 DEF Advance, childVars, slots
    <2>1. ChildInv' /\ NeverTooFarAhead'
      BY DEF ChildInv, NeverTooFarAhead, Oldest, Limit
    <2>2. SlotsInv'
      BY DEF SlotsInv, PlayHead, IsBlock
    <2>3. InputInv'
      BY DEF InputInv
    <2>4. PlayInv'
      BY DEF PlayInv
    <2> QED
      BY <1>t, <2>1, <2>2, <2>3, <2>4
  <1>6. CASE Wake
    <2> USE <1>6 DEF Wake, slots
    <2>1. ChildInv' /\ NeverTooFarAhead'
      BY DEF ChildInv, NeverTooFarAhead, Oldest, Limit
    <2>2. SlotsInv' /\ InputInv'
      BY DEF SlotsInv, InputInv, PlayHead, IsBlock
    <2>3. PlayInv'
      BY DEF PlayInv
    <2> QED
      BY <1>t, <2>1, <2>2, <2>3
  <1> QED
    BY <1>1, <1>2, <1>3, <1>4, <1>5, <1>6 DEF Callback

\* The child's steps that write no slot.
LEMMA ChildClockInv ==
    Inv /\ (ChildReady \/ LoadClock \/ LoadDepth \/ Skip \/ Wait \/ WaitTimeout \/ ReadInput) => Inv'
  <1> SUFFICES ASSUME Inv,
                      ChildReady \/ LoadClock \/ LoadDepth \/ Skip \/ Wait \/ WaitTimeout \/ ReadInput
               PROVE Inv'
    OBVIOUS
  <1>t. TypeOK'
    BY NextTypeOK DEF Inv, Next, Child
  <1> USE SizesAssumption DEF Inv, TypeOK, Depths, Playing, InLoop, Decided, Rendering, cbVars, slots
  <1>1. CASE ChildReady
    <2> USE <1>1 DEF ChildReady
    <2>1. ChildInv' /\ NeverTooFarAhead'
      BY DEF ChildInv, NeverTooFarAhead, Oldest, Limit
    <2>2. SlotsInv'
      BY DEF ChildInv, SlotsInv, PlayHead, IsBlock
    <2>3. InputInv'
      BY DEF ChildInv, InputInv
    <2>4. PlayInv'
      BY DEF PlayInv, CallsAreShorterThanBoots
    <2> QED
      BY <1>t, <2>1, <2>2, <2>3, <2>4
  <1>2. CASE LoadClock \/ LoadDepth \/ Wait \/ WaitTimeout
    <2> USE <1>2 DEF LoadClock, LoadDepth, Wait, WaitTimeout
    <2>1. ChildInv'
      BY DEF ChildInv, Oldest, Limit
    <2>2. SlotsInv' /\ InputInv' /\ PlayInv' /\ NeverTooFarAhead'
      BY DEF SlotsInv, InputInv, PlayInv, NeverTooFarAhead, PlayHead, IsBlock, Plays
    <2> QED
      BY <1>t, <2>1, <2>2
  <1>3. CASE Skip
    <2> USE <1>3 DEF Skip
    <2>1. Oldest \in Nat /\ next < Oldest
      BY DEF Oldest
    <2>2. Oldest <= PlayHead \/ Oldest = 0
      BY DEF ChildInv, Oldest, PlayHead
    <2>3. ChildInv' /\ NeverTooFarAhead'
      BY DEF ChildInv, NeverTooFarAhead, Oldest, Limit
    <2>4. SlotsInv'
      BY <2>1, <2>2 DEF SlotsInv, PlayHead, IsBlock
    <2>5. InputInv' /\ PlayInv'
      BY <2>1 DEF ChildInv, InputInv, PlayInv, PlayHead, IsBlock, Plays
    <2> QED
      BY <1>t, <2>3, <2>4, <2>5
  <1>4. CASE ReadInput
    <2> USE <1>4 DEF ReadInput, CanRender
    <2>1. next < hostBlock
      BY DEF ChildInv, Limit
    <2>2. ChildInv'
      BY DEF ChildInv, Oldest, Limit
    <2>3. InputInv'
      BY <2>1 DEF InputInv
    <2>4. SlotsInv' /\ PlayInv' /\ NeverTooFarAhead'
      BY DEF SlotsInv, PlayInv, NeverTooFarAhead, PlayHead, IsBlock, Plays
    <2> QED
      BY <1>t, <2>2, <2>3, <2>4
  <1> QED
    BY <1>1, <1>2, <1>3, <1>4

\* The slot the child writes is not one that the callback will still play: it renders less than
\* kSlots blocks past the play head.
LEMMA WriteWindow ==
    ASSUME Inv, Fx => child \in {"read", "write"}, ~Fx => CanRender \/ child = "write"
    PROVE  \A b \in Nat : PlayHead <= b /\ b < produced => Slot(b) # Slot(next)
  <1> USE SizesAssumption DEF Inv, TypeOK, Depths, Playing, InLoop, Decided, Rendering
  <1>1. next = produced /\ hbC <= hostBlock /\ next < Limit /\ (Fx => depthC >= depth)
    BY DEF ChildInv, CanRender
  <1>2. \A b \in Nat : PlayHead <= b /\ b < produced => b < next /\ next - b < kSlots
    BY <1>1 DEF PlayHead, Limit
  <1> QED
    BY <1>1, <1>2, SlotsDiffer

\* The child's steps that write a slot and publish it.
LEMMA ChildRenderInv == Inv /\ (BeginWrite \/ EndWrite \/ Publish) => Inv'
  <1> SUFFICES ASSUME Inv, BeginWrite \/ EndWrite \/ Publish
               PROVE Inv'
    OBVIOUS
  <1>t. TypeOK'
    BY NextTypeOK DEF Inv, Next, Child
  <1> USE SizesAssumption DEF Inv, TypeOK, Depths, Playing, InLoop, Decided, Rendering, cbVars, slots
  <1>1. CASE BeginWrite
    <2> USE <1>1 DEF BeginWrite
    <2>1. \A b \in Nat : PlayHead <= b /\ b < produced => Slot(b) # Slot(next)
      BY WriteWindow
    <2>2. heard' = heard
      <3>1. cb = "copy" => PlayHead <= playing /\ playing \in Nat /\ playing < produced
        BY DEF PlayInv, CanRender
      <3> QED
        BY <2>1, <3>1 DEF CopyingSlot
    <2>3. ChildInv' /\ NeverTooFarAhead'
      BY DEF ChildInv, NeverTooFarAhead, Oldest, Limit, CanRender
    <2>4. SlotsInv'
      BY <2>1, SlotType DEF SlotsInv, PlayHead, IsBlock
    <2>5. InputInv'
      BY DEF InputInv
    <2>6. PlayInv'
      <3>1. child' = "write" /\ UNCHANGED <<cb, playing, heard, served, gen, hostBlock, produced, depth>>
        BY <2>2
      <3>2. Playing => served = gen
        BY DEF PlayInv, CanRender
      <3> QED
        BY ONLY <3>1, <3>2, PlayInv, SizesAssumption DEF PlayInv, Playing, PlayHead, Plays
    <2> QED
      BY <1>t, <2>3, <2>4, <2>5, <2>6
  <1>2. CASE EndWrite
    <2> USE <1>2 DEF EndWrite
    <2>1. \A b \in Nat : PlayHead <= b /\ b < produced => Slot(b) # Slot(next)
      BY WriteWindow
    <2>2. ChildInv' /\ NeverTooFarAhead'
      BY DEF ChildInv, NeverTooFarAhead, Oldest, Limit
    <2>3. SlotsInv'
      BY <2>1, SlotType DEF SlotsInv, PlayHead, IsBlock
    <2>4. InputInv' /\ PlayInv'
      BY DEF InputInv, PlayInv, PlayHead, IsBlock, Plays
    <2> QED
      BY <1>t, <2>2, <2>3, <2>4
  <1>3. CASE Publish
    <2> USE <1>3 DEF Publish
    <2>1. next = produced /\ next < Limit /\ hbC <= hostBlock /\ (Fx => depthC >= depth)
      BY DEF ChildInv
    <2>2. ChildInv' /\ NeverTooFarAhead'
      BY <2>1 DEF ChildInv, NeverTooFarAhead, Oldest, Limit
    <2>3. Fx /\ PlayHead <= next => input = next
      BY <2>1 DEF InputInv, PlayHead
    <2>4. PlayHead <= next => IsBlock(outSlot[Slot(next)], next)
      BY <2>3 DEF SlotsInv, IsBlock
    <2>5. SlotsInv'
      BY <2>1, <2>4 DEF SlotsInv, PlayHead, IsBlock
    <2>6. InputInv' /\ PlayInv'
      BY <2>1 DEF InputInv, PlayInv, PlayHead, IsBlock, Plays
    <2> QED
      BY <1>t, <2>2, <2>5, <2>6
  <1> QED
    BY <1>1, <1>2, <1>3

\* The depth and the supervisor.
LEMMA OtherInv == Inv /\ Calm /\ ((\E d \in Depths : SetDepth(d)) \/ Supervisor \/ UNCHANGED vars) => Inv'
  <1> SUFFICES ASSUME Inv, Calm, (\E d \in Depths : SetDepth(d)) \/ Supervisor \/ UNCHANGED vars
               PROVE Inv'
    OBVIOUS
  <1>t. TypeOK'
    BY NextTypeOK DEF Inv, Next
  <1> USE SizesAssumption DEF Inv, TypeOK, Depths, Playing, InLoop, Decided, Rendering, cbVars, childVars, slots
  <1>1. ASSUME NEW d \in Depths, SetDepth(d) PROVE Inv'
    <2> USE <1>1 DEF SetDepth
    <2>1. Fx => d <= depth
      BY DEF Calm
    <2>2. ChildInv' /\ NeverTooFarAhead'
      BY <2>1 DEF ChildInv, NeverTooFarAhead, Oldest, Limit
    <2>3. SlotsInv' /\ InputInv' /\ PlayInv'
      BY <2>1 DEF SlotsInv, InputInv, PlayInv, PlayHead, IsBlock, Plays
    <2> QED
      BY <1>t, <2>2, <2>3
  <1>2. CASE ChildDies \/ Reap
    <2> USE <1>2 DEF ChildDies, Reap
    <2>1. ChildInv' /\ NeverTooFarAhead'
      BY DEF ChildInv, NeverTooFarAhead, Oldest, Limit
    <2>2. SlotsInv' /\ InputInv' /\ PlayInv'
      BY DEF SlotsInv, InputInv, PlayInv, PlayHead, IsBlock, Plays
    <2> QED
      BY <1>t, <2>1, <2>2
  <1>3. CASE Respawn
    <2> USE <1>3 DEF Respawn
    <2>1. ~Fx
      BY DEF Calm
    <2>2. ChildInv' /\ NeverTooFarAhead'
      BY <2>1 DEF ChildInv, NeverTooFarAhead
    <2>3. SlotsInv' /\ InputInv' /\ PlayInv'
      BY <2>1 DEF SlotsInv, InputInv, PlayInv, PlayHead, IsBlock, Plays
    <2> QED
      BY <1>t, <2>2, <2>3
  <1>4. CASE UNCHANGED vars
    <2> USE <1>4 DEF vars
    <2>1. ChildInv' /\ NeverTooFarAhead'
      BY DEF ChildInv, NeverTooFarAhead, Oldest, Limit
    <2>2. SlotsInv' /\ InputInv'
      BY DEF SlotsInv, InputInv, PlayHead, IsBlock
    <2>3. PlayInv'
      BY DEF PlayInv, PlayHead, Plays
    <2> QED
      BY <1>t, <2>1, <2>2, <2>3
  <1> QED
    BY <1>1, <1>2, <1>3, <1>4 DEF Supervisor

LEMMA NextInv == Inv /\ [Calm]_vars /\ [Next]_vars => Inv'
  <1>1. Inv /\ Calm /\ Next => Inv'
    BY CallbackInv, ChildClockInv, ChildRenderInv, OtherInv DEF Next, Child
  <1>2. Inv /\ UNCHANGED vars => Inv'
    <2> SUFFICES ASSUME Inv, UNCHANGED vars PROVE Inv'
      OBVIOUS
    <2>1. Calm
      BY DEF Calm, vars, Inv, TypeOK, Depths
    <2> QED
      BY <2>1, OtherInv
  <1> QED
    BY <1>1, <1>2

LEMMA SpecInv == CalmSpec => []Inv
  <1>1. Init => Inv
    BY InitInv
  <1>2. Inv /\ [Calm]_vars /\ [Next]_vars => Inv'
    BY NextInv
  <1> QED
    BY <1>1, <1>2, PTL DEF Spec, CalmSpec

\* Every step of the synth is calm, and every step of an effect whose child does not die and whose
\* depth is set once: the runs clock_synth and clock_fx are of such systems.
LEMMA CalmSystems == ASSUME Fx => ~Respawns /\ ~LiveDepth PROVE Spec => CalmSpec
  <1> DEFINE Alive == Respawns \/ child # "off"
  <1>1. Init => Alive
    BY DEF Init
  <1> USE DEF cbVars, childVars, slots
  <1>2. Alive /\ [Next]_vars => Alive'
    <2>1. CASE Callback
      BY <2>1 DEF Callback, Tick, InputWritten, PlayBlock, CopyDone, Advance, Wake
    <2>2. CASE (\E d \in Depths : SetDepth(d)) \/ WaitTimeout \/ Supervisor \/ UNCHANGED vars
      BY <2>2 DEF SetDepth, WaitTimeout, Supervisor, ChildDies, Reap, Respawn, vars
    <2>3. CASE Child
      BY <2>3 DEF Child, ChildReady, LoadClock, LoadDepth, Skip, Wait, ReadInput, BeginWrite,
         EndWrite, Publish
    <2> QED
      BY <2>1, <2>2, <2>3 DEF Next
  <1>3. TypeOK /\ Alive /\ [Next]_vars => [Calm]_vars
    <2> SUFFICES ASSUME TypeOK, Alive, Next, Fx PROVE gen' = gen /\ depth' = depth
      BY DEF Calm, TypeOK, Depths
    <2>1. CASE Callback
      BY <2>1 DEF Callback, Tick, InputWritten, PlayBlock, CopyDone, Advance, Wake
    <2>2. CASE (\E d \in Depths : SetDepth(d)) \/ WaitTimeout \/ Supervisor
      BY <2>2 DEF SetDepth, WaitTimeout, Supervisor, ChildDies, Reap, Respawn
    <2>3. CASE Child
      BY <2>3 DEF Child, ChildReady, LoadClock, LoadDepth, Skip, Wait, ReadInput, BeginWrite,
         EndWrite, Publish
    <2> QED
      BY <2>1, <2>2, <2>3 DEF Next
  <1> QED
    BY <1>1, <1>2, <1>3, TypeCorrect, PTL DEF Spec, CalmSpec

-----------------------------------------------------------------------------
\* playBlock plays block b "if the child has produced it, else silence": always in the sound
\* generator, and in the effect while it is calm.
THEOREM OnlyProducedPlays == CalmSpec => []PlaysOnlyProduced
  <1>1. Inv => PlaysOnlyProduced
    BY DEF Inv, PlayInv, PlaysOnlyProduced, Sounding, IsBlock, Plays
  <1> QED
    BY <1>1, SpecInv, PTL

\* A block the effect plays was rendered from its own input, although the input slots are reused
\* under a late child.
THEOREM OwnInputPlays == CalmSpec => []PlaysOwnInput
  <1>1. Inv => PlaysOwnInput
    BY DEF Inv, PlayInv, PlaysOwnInput, Sounding, IsBlock, Plays
  <1> QED
    BY <1>1, SpecInv, PTL

\* The child stays within the latency of the callback.
THEOREM AheadBounded == CalmSpec => []NeverTooFarAhead
  <1>1. Inv => NeverTooFarAhead
    BY DEF Inv
  <1> QED
    BY <1>1, SpecInv, PTL

\* No wakeup is lost: the store of host_block precedes the wake and the kernel compares the word with
\* the value the child decided on.  This needs neither Calm nor the rest of the invariant.
THEOREM WakeupNotLost == Spec => []NoLostWakeup
  <1>1. Init => NoLostWakeup
    BY DEF Init, NoLostWakeup
  <1>2. TypeOK /\ NoLostWakeup /\ [Next]_vars => NoLostWakeup'
    <2> SUFFICES ASSUME TypeOK, NoLostWakeup, [Next]_vars PROVE NoLostWakeup'
      OBVIOUS
    <2> USE DEF TypeOK, NoLostWakeup, cbVars, childVars, slots
    <2>1. CASE Callback
      BY <2>1 DEF Callback, Tick, InputWritten, PlayBlock, CopyDone, Advance, Wake
    <2>2. CASE (\E d \in Depths : SetDepth(d)) \/ WaitTimeout \/ Supervisor \/ UNCHANGED vars
      BY <2>2 DEF SetDepth, WaitTimeout, Supervisor, ChildDies, Reap, Respawn, vars
    <2>3. CASE Child
      BY <2>3 DEF Child, ChildReady, LoadClock, LoadDepth, Skip, Wait, ReadInput, BeginWrite,
         EndWrite, Publish
    <2> QED
      BY <2>1, <2>2, <2>3 DEF Next
  <1> QED
    BY <1>1, <1>2, TypeCorrect, PTL DEF Spec

\* A skip gives up no block the callback would still play.
THEOREM SkipsPast == CalmSpec => SkipsOnlyThePast
  <1>1. Inv => (Skip => produced' <= PlayHead)
    <2> SUFFICES ASSUME Inv, Skip PROVE produced' <= PlayHead
      OBVIOUS
    <2>1. hbC <= hostBlock /\ (Fx => depthC >= depth) /\ next \in Nat /\ next < Oldest /\ produced' = Oldest
      BY DEF Inv, ChildInv, Decided, Skip, TypeOK
    <2> QED
      BY <2>1 DEF Oldest, PlayHead, Inv, TypeOK, Depths
  <1> QED
    BY <1>1, SpecInv, PTL DEF CalmSpec, SkipsOnlyThePast

-----------------------------------------------------------------------------
(* The sound generator's clock implements the abstract stream.             *)

LEMMA StepImplements == Inv /\ Inv' /\ ~Fx /\ [Next]_vars => [Stream!Next]_Stream!vars
  <1> SUFFICES ASSUME Inv, Inv', ~Fx, [Next]_vars PROVE [Stream!Next]_Stream!vars
    OBVIOUS
  <1> USE SizesAssumption DEF TypeOK, Inv, Depths, cbVars, childVars, slots
  <1> DEFINE Stutters == UNCHANGED <<hostBlock, Ahead, HeardBlock>>
  <1>s. Stutters => [Stream!Next]_Stream!vars
    BY DEF Stream!vars
  <1>1. CASE Tick \/ InputWritten \/ CopyDone \/ Wake \/ WaitTimeout \/ UNCHANGED vars
    BY <1>s, <1>1 DEF Tick, InputWritten, CopyDone, Wake, WaitTimeout, vars, Ahead, HeardBlock
  <1>2. CASE (\E d \in Depths : SetDepth(d)) \/ ChildDies \/ Reap
    BY <1>s, <1>2 DEF SetDepth, ChildDies, Reap, Ahead, HeardBlock
  <1>3. CASE LoadClock \/ LoadDepth \/ Wait \/ ReadInput \/ EndWrite
    BY <1>s, <1>3 DEF LoadClock, LoadDepth, Wait, ReadInput, EndWrite, Ahead, HeardBlock
  <1>4. CASE PlayBlock
    <2> USE <1>4 DEF PlayBlock
    <2>1. HeardBlock = NoBlock /\ UNCHANGED <<hostBlock, Ahead>>
      BY DEF PlayInv, HeardBlock, Ahead
    <2>2. CASE heard' = heard
      BY <1>s, <2>1, <2>2 DEF HeardBlock
    <2>3. CASE heard' # heard
      <3>1. playing = hostBlock /\ Ahead > 0
        BY <2>3 DEF PlayInv, PlayHead, Ahead
      <3>2. HeardBlock' = hostBlock
        BY <2>3, <3>1 DEF PlayInv, IsBlock, Plays, HeardBlock
      <3> QED
        BY <2>1, <3>1, <3>2 DEF Stream!Next, Stream!Take, Stream!Quiet, NoBlock
    <2> QED
      BY <2>2, <2>3
  <1>5. CASE Advance
    <2>1. hostBlock < MaxBlock /\ hostBlock' = hostBlock + 1 /\ produced' = produced
      BY <1>5 DEF Advance, PlayInv, Playing
    <2>2. Ahead' = IF Ahead > 0 THEN Ahead - 1 ELSE 0
      BY <2>1 DEF Ahead
    <2>3. HeardBlock' = NoBlock
      BY <1>5 DEF Advance, HeardBlock
    <2> QED
      BY <2>1, <2>2, <2>3 DEF Stream!Next, Stream!Turn, Stream!Quiet, NoBlock
  <1>6. CASE ChildReady \/ Respawn
    <2>1. UNCHANGED HeardBlock
      BY <1>6 DEF ChildReady, Respawn, HeardBlock
    <2>2. produced' = hostBlock /\ hostBlock' = hostBlock
      BY <1>6 DEF ChildReady, Respawn
    <2>3. Ahead' = 0
      BY ONLY <2>2, TypeOK DEF TypeOK, Ahead
    <2> QED
      BY <2>1, <2>2, <2>3 DEF Stream!Next, Stream!Lose
  <1>7. CASE Skip
    <2>1. hbC <= hostBlock /\ next = produced
      BY <1>7 DEF Skip, ChildInv, Decided, InLoop
    <2>2. UNCHANGED <<hostBlock, HeardBlock>>
      BY <1>7 DEF Skip, HeardBlock
    <2>3. UNCHANGED Ahead
      BY <1>7, <2>1 DEF Skip, Oldest, Ahead
    <2> QED
      BY <1>s, <2>2, <2>3
  <1>8. CASE BeginWrite
    <2>1. \A b \in Nat : PlayHead <= b /\ b < produced => Slot(b) # Slot(next)
      BY <1>8, WriteWindow DEF BeginWrite
    <2>2. heard' = heard
      <3>1. cb = "copy" => PlayHead <= playing /\ playing \in Nat /\ playing < produced
        BY <1>8 DEF BeginWrite, CanRender, PlayInv, Playing
      <3> QED
        BY <1>8, <2>1, <3>1 DEF BeginWrite, CopyingSlot
    <2>3. UNCHANGED <<hostBlock, produced>>
      BY <1>8 DEF BeginWrite
    <2> QED
      BY <1>s, <2>2, <2>3 DEF HeardBlock, Ahead
  <1>9. CASE Publish
    <2>1. next = produced /\ hbC <= hostBlock /\ next < hbC + depthC
      BY <1>9 DEF Publish, ChildInv, Decided, Rendering, InLoop, Limit
    <2>2. produced' = produced + 1 /\ UNCHANGED <<hostBlock, HeardBlock>>
      BY <1>9, <2>1 DEF Publish, HeardBlock
    <2>3. CASE produced < hostBlock
      BY <1>s, <2>2, <2>3 DEF Ahead
    <2>4. CASE produced >= hostBlock
      <3>1. Ahead < kMaxDepth /\ Ahead' = Ahead + 1
        BY <2>1, <2>2, <2>4 DEF Ahead
      <3> QED
        BY <2>2, <3>1 DEF Stream!Next, Stream!Render
    <2> QED
      BY <2>3, <2>4
  <1> QED
    BY <1>1, <1>2, <1>3, <1>4, <1>5, <1>6, <1>7, <1>8, <1>9 DEF Next, Callback, Child, Supervisor

\* For every depth and number of slots, with respawns and live depth changes: each call of the sound
\* generator sounds the block whose turn it is, taken from at most kMaxDepth in hand, or nothing.
THEOREM SynthImplementsStream == ASSUME ~Fx PROVE Spec => ImplementsStream
  <1>1. Init => Stream!Init
    BY DEF Init, Stream!Init, Stream!Quiet, Ahead, HeardBlock, NoBlock
  <1>3. Spec => []Inv
    BY SpecInv, CalmSystems, PTL
  <1>4. Inv /\ Inv' /\ [Next]_vars => [Stream!Next]_Stream!vars
    BY StepImplements
  <1> QED
    BY <1>1, <1>3, <1>4, PTL DEF Spec, ImplementsStream, Stream!Spec
=============================================================================
