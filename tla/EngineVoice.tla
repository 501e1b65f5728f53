---------------------------- MODULE EngineVoice ----------------------------
(***************************************************************************)
(* One engine of the child (struct Engine): the notes it holds, the mute   *)
(* after a machine change, and the parking of an idle engine.  Commands    *)
(* come from the host's MIDI (onMidi) and are applied between blocks       *)
(* (applyCmd), then a block is rendered or skipped.                        *)
(*                                                                         *)
(* HostModel, the Monomachine behind MonoVoice, is external: `gate` is     *)
(* what the calls made to it leave sounding, and how loud a block comes    *)
(* out is up to it.  A synth is built for the synth machines only, the     *)
(* effect for the effect machines only.                                    *)
(***************************************************************************)
EXTENDS Integers, Sequences

CONSTANTS
    Notes,
    kHeldNotes,       \* Engine::heldNotes: 16
    kParkAfterBlocks  \* 689

ASSUME VoiceAssumption ==
    /\ kHeldNotes \in Nat \ {0} /\ kParkAfterBlocks \in Nat \ {0}
    /\ Notes \cap {"off", "init", "open"} = {}

VARIABLES
    fxIn,                      \* Segment::hasInput, the build: an effect with FX machines, or a synth
    assigned,                  \* Engine::machine is one of the build's, not GND
    held,                      \* heldNotes[0 .. held)
    muted,                     \* mutedUntilNote
    parked, silentBlocks, woken,
    gate,                      \* external: the note sounding, "init", "open" or "off"
    keys,                      \* history: the keys down, in the order they were pressed
    unplayed,                  \* history: no note since a machine was assigned with no key down
    crowded,                   \* history: a key was pressed beside kHeldNotes others, and not recorded
    last,                      \* the last step: "command", "render" or "skip"
    input,                     \* the last block's input was not silent
    heard,                     \* history: nor was its output, in the 16 bits the host gets
    quietBlocks                \* history: blocks in a row with no input, no key down, nothing heard

noteVars == <<assigned, held, muted, gate, keys, unplayed, crowded>>
parkVars == <<parked, silentBlocks>>
vars == <<fxIn, noteVars, parkVars, woken, last, input, heard, quietBlocks>>

isFxMachine == fxIn /\ assigned

\* The notes of s but n, in their order: a note is in s once, if at all.
Without(s, n) ==
    IF \E i \in DOMAIN s : s[i] = n
    THEN LET i == CHOOSE i \in DOMAIN s : s[i] = n
         IN  [j \in 1 .. Len(s) - 1 |-> s[IF j < i THEN j ELSE j + 1]]
    ELSE s
Last(s) == s[Len(s)]
Down == keys # <<>>

-----------------------------------------------------------------------------
(* applyCmd.                                                               *)

Command ==
    /\ woken' = TRUE /\ last' = "command" /\ heard' = FALSE
    /\ UNCHANGED <<parkVars, input, quietBlocks>>

NoteOn(n) ==
    /\ muted' = FALSE /\ unplayed' = FALSE
    /\ LET others == Without(held, n)
       IN  /\ held' = IF Len(others) < kHeldNotes THEN Append(others, n) ELSE others
           /\ crowded' = (crowded \/ Len(others) >= kHeldNotes)
    /\ gate' = n
    /\ keys' = Append(Without(keys, n), n)
    /\ UNCHANGED assigned
    /\ Command

\* Mutant of NoteOff: any release goes back to the first note held.
NoteOffRetriggers(n) ==
    /\ held' = Without(held, n) /\ keys' = Without(keys, n)
    /\ gate' = IF held' = <<>> THEN "off" ELSE held'[1]
    /\ UNCHANGED <<assigned, muted, unplayed, crowded>>
    /\ Command

NoteOff(n) ==
    /\ held' = Without(held, n) /\ keys' = Without(keys, n)
    /\ LET wasCurrent == held # <<>> /\ Last(held) = n
       IN  gate' = IF isFxMachine THEN gate
                   ELSE IF held' = <<>> THEN "off"
                   ELSE IF wasCurrent THEN Last(held') ELSE gate
    /\ UNCHANGED <<assigned, muted, unplayed, crowded>>
    /\ Command

AllNotesOff ==
    /\ held' = <<>> /\ keys' = <<>>
    /\ gate' = IF isFxMachine THEN gate ELSE "off"
    /\ UNCHANGED <<assigned, muted, unplayed, crowded>>
    /\ Command

\* The assign plays the machine like a note; applyMachineRouting opens an FX machine for good.
Assigned == IF fxIn THEN "open" ELSE "init"

\* Mutant of SetMachine: the mute is left out.
SetMachineUnmuted ==
    /\ assigned' = TRUE
    /\ gate' = IF ~fxIn /\ held = <<>> THEN "off" ELSE Assigned
    /\ unplayed' = (~fxIn /\ (~Down \/ unplayed))
    /\ UNCHANGED <<held, muted, keys, crowded>>
    /\ Command

\* A synth with no note held gets a note-off and is muted.
SetMachine ==
    /\ assigned' = TRUE
    /\ gate' = IF ~fxIn /\ held = <<>> THEN "off" ELSE Assigned
    /\ muted' = IF ~fxIn /\ held = <<>> THEN TRUE ELSE muted
    /\ unplayed' = (~fxIn /\ (~Down \/ unplayed))
    /\ UNCHANGED <<held, keys, crowded>>
    /\ Command

\* SetParam, SetLfo, SetLevel, SetBpm.
SetValue == Command /\ UNCHANGED noteVars

-----------------------------------------------------------------------------
(* The plugin: onMidi.                                                     *)

NoteOnStatus == 144     \* 0x90
NoteOffStatus == 128    \* 0x80
ControlStatus == 176    \* 0xB0
AllOff == {120, 123}    \* All Sound Off, All Notes Off

\* What the host sends; controller 64 is one the plugin does not know.
Messages ==
    [status: {NoteOnStatus, NoteOffStatus}, data1: Notes, data2: {0, 100}]
        \cup [status: {ControlStatus}, data1: AllOff \cup {64}, data2: {0}]

\* A note-on of velocity 0 is a note-off; other messages push nothing.
Midi(msg) ==
    \/ msg.status = NoteOnStatus /\ msg.data2 > 0 /\ NoteOn(msg.data1)
    \/ msg.status = NoteOffStatus /\ NoteOff(msg.data1)
    \/ msg.status = NoteOnStatus /\ msg.data2 = 0 /\ NoteOff(msg.data1)
    \/ msg.status = ControlStatus /\ msg.data1 \in AllOff /\ AllNotesOff

-----------------------------------------------------------------------------
(* A block: `in` says whether its input is not silent, v is the loudest    *)
(* sample HostModel renders, in 24 bits.                                   *)

\* Around the two edges of what 16 bits round to 0; REVERB and others settle into such a residue.
Samples == {-129, -128, 0, 127, 128}

\* The callback's conversion: what the host hears.
toS16(v24) ==
    LET v == (v24 + 128) \div 256
    IN  IF v > 32767 THEN 32767 ELSE IF v < -32768 THEN -32768 ELSE v

\* Mutants of outputSilent: one more sample is taken for silence; only a zero is.
outputSilentOffByOne(v) == v + 128 \in 0 .. 256
outputSilentExact(v) == v = 0

\* The child's test, on the sample before the conversion (unsigned: no negative sum passes).
outputSilent(v) == v + 128 \in 0 .. 255

Sleeping(in) == parked /\ ~woken /\ ~in

Quiet(in) == IF in \/ heard' \/ Down THEN 0
             ELSE quietBlocks + IF quietBlocks < kParkAfterBlocks THEN 1 ELSE 0   \* no need to count further

\* Mutant of Skip: commands do not wake a parked engine.
SkipDeaf(in) ==
    /\ parked /\ ~in
    /\ last' = "skip" /\ heard' = FALSE /\ input' = in /\ woken' = FALSE /\ quietBlocks' = Quiet(in)
    /\ UNCHANGED <<noteVars, parkVars>>

Skip(in) ==
    /\ Sleeping(in)
    /\ last' = "skip" /\ heard' = FALSE /\ input' = in /\ woken' = FALSE /\ quietBlocks' = Quiet(in)
    /\ UNCHANGED <<noteVars, parkVars>>

Render(in, v) ==
    LET silent == IF parked THEN 0 ELSE silentBlocks
        out == IF muted THEN 0 ELSE v
    IN  /\ ~Sleeping(in)
        /\ silentBlocks' = IF outputSilent(out) /\ ~in /\ held = <<>> THEN silent + 1 ELSE 0
        /\ parked' = (silentBlocks' >= kParkAfterBlocks)
        /\ heard' = (toS16(out) # 0) /\ quietBlocks' = Quiet(in)
        /\ last' = "render" /\ input' = in /\ woken' = FALSE
        /\ UNCHANGED noteVars

Block == \E in \in IF fxIn THEN BOOLEAN ELSE {FALSE}, v \in Samples : Skip(in) \/ Render(in, v)

-----------------------------------------------------------------------------
Init ==
    /\ fxIn \in BOOLEAN
    /\ assigned = FALSE /\ held = <<>> /\ muted = FALSE /\ gate = "off"
    /\ parked = FALSE /\ silentBlocks = 0 /\ woken = FALSE
    /\ keys = <<>> /\ unplayed = FALSE /\ crowded = FALSE
    /\ last = "render" /\ input = FALSE /\ heard = FALSE /\ quietBlocks = 0

PlayNotes == \E msg \in Messages : Midi(msg)

Next ==
    /\ UNCHANGED fxIn
    /\ PlayNotes \/ SetMachine \/ SetValue \/ Block

Spec == Init /\ [][Next]_vars
FairSpec == Spec /\ WF_vars(UNCHANGED fxIn /\ Block)   \* the child goes round its loop

-----------------------------------------------------------------------------
TypeOK ==
    /\ fxIn \in BOOLEAN /\ assigned \in BOOLEAN /\ muted \in BOOLEAN /\ parked \in BOOLEAN
    /\ woken \in BOOLEAN /\ unplayed \in BOOLEAN /\ crowded \in BOOLEAN /\ input \in BOOLEAN /\ heard \in BOOLEAN
    /\ held \in Seq(Notes) /\ Len(held) <= kHeldNotes
    /\ keys \in Seq(Notes)
    /\ gate \in Notes \cup {"off", "init", "open"}
    /\ silentBlocks \in 0 .. kParkAfterBlocks /\ quietBlocks \in 0 .. kParkAfterBlocks
    /\ last \in {"command", "render", "skip"}

\* applyCmd: "mono, last-note priority".  What sounds is the key pressed last of those still down, and
\* nothing when none is, however presses, releases, repeats and machine changes follow each other, as long
\* as there is room for every key; a machine picked while keys are down sounds by itself until the next
\* change of note.
LastNotePlays ==
    ~isFxMachine /\ ~crowded => IF Down THEN gate \in {Last(keys), "init"} ELSE gate = "off"

\* "a sound nobody played": after a machine is assigned with no key down nothing is heard before the next
\* note, and from then on nothing is withheld.
SilentUntilPlayed == (unplayed => ~heard) /\ (muted /\ ~crowded => unplayed)

\* A parked engine renders the block after a command, and every block with input: neither a note nor
\* the start of the audio is lost to the sleep.
WakesUp == [][last' = "skip" => last # "command" /\ ~input']_vars

\* "silent as Move hears it": an engine sleeps only after kParkAfterBlocks blocks in a row of which the host
\* heard nothing, with no input and no key down; a key pressed later wakes it before the next block.
ParksOnlyIdle == parked /\ ~crowded => quietBlocks >= kParkAfterBlocks /\ (~Down \/ woken)

\* "Idle parking": with no key down, no input and nothing heard for good, the engine does sleep, although
\* "a fixed-point residue never reaches exact 24-bit zero".
Quiescent == last # "command" /\ ~Down /\ ~heard /\ ~input
EventuallyParks == <>[]Quiescent => <>[]parked
=============================================================================
