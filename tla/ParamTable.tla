----------------------------- MODULE ParamTable -----------------------------
(***************************************************************************)
(* The plugin's parameter table (struct Params): the current machine, its  *)
(* SYN values, the values every machine shares, and the SYN values         *)
(* remembered for the machines not picked now.  Each entry point changes   *)
(* the table and leaves in `todo` the commands it pushes, in order;        *)
(* TableSync carries them to the engine.  All of this runs on the          *)
(* callback's thread, so an entry point is one step.                       *)
(*                                                                         *)
(* The 8 SYN values are a function on Knobs; they travel as one command.   *)
(* Of what the machines share, `page` stands for the AMP, FILT and EFX     *)
(* pages, which the engine's SetMachine resets to defaults, and `lfo` for  *)
(* the LFOs and the level, which it keeps.                                 *)
(***************************************************************************)
EXTENDS Sequences, Naturals

CONSTANTS
    Machines,     \* the machines this build offers (kMachineList)
    Knobs,        \* SYN knobs
    Values,       \* raw values
    FirstMachine, \* the machine of a new instance
    SynDefault,   \* machineSynDefaults: each machine's SYN values
    Default,      \* the default of page and lfo
    Patches       \* the sounds that presets and saved states hold; {}: none is ever loaded

ASSUME TableAssumption ==
    /\ FirstMachine \in Machines
    /\ SynDefault \in [Machines -> [Knobs -> Values]]
    /\ Default \in Values
    /\ Patches \subseteq [machine: Machines, syn: [Knobs -> Values], page: Values, lfo: Values]

VARIABLES
    machine, syn, page, lfo,   \* Params
    synMem, synMemSet,         \* Params
    lastSyn,                   \* history: the SYN values each machine was last given
    loadedOver,                \* history: the machines a preset or a state was loaded over
    todo                       \* the commands the entry point pushes

tableVars == <<machine, syn, page, lfo, synMem, synMemSet, lastSyn, loadedOver>>
vars == <<tableVars, todo>>

SynValues == [Knobs -> Values]

\* Commands.
SetMachineCmd(m) == [op |-> "SetMachine", m |-> m]
SetSynCmd(s) == [op |-> "SetSyn", s |-> s]
SetPageCmd(v) == [op |-> "SetPage", v |-> v]
SetLfoCmd(v) == [op |-> "SetLfo", v |-> v]

\* replay(): the machine first, since SetMachine loads its defaults, then every value.
ReplayCmds(m, s, p, l) == <<SetMachineCmd(m), SetSynCmd(s), SetPageCmd(p), SetLfoCmd(l)>>

\* What is remembered for machine m: rawSlot gives it its defaults when nothing is.
Remembered(m) == IF synMemSet[m] THEN synMem[m] ELSE SynDefault[m]

-----------------------------------------------------------------------------
(* The entry points.  Each waits until the last one's commands are sent.   *)

\* set_param of a SYN knob: of the current machine, or of another one, which is only remembered.
SetSyn(m, k, v) ==
    /\ todo = <<>>
    /\ lastSyn' = [lastSyn EXCEPT ![m][k] = v]
    /\ IF m = machine
       THEN /\ syn' = [syn EXCEPT ![k] = v]
            /\ todo' = <<SetSynCmd(syn')>>
            /\ UNCHANGED <<synMem, synMemSet>>
       ELSE /\ synMem' = [synMem EXCEPT ![m] = [Remembered(m) EXCEPT ![k] = v]]
            /\ synMemSet' = [synMemSet EXCEPT ![m] = TRUE]
            /\ UNCHANGED <<syn, todo>>
    /\ UNCHANGED <<machine, page, lfo, loadedOver>>

\* get_param of another machine's knob fills its memory with the defaults (rawSlot).
GetSyn(m) ==
    /\ todo = <<>> /\ m # machine /\ ~synMemSet[m]
    /\ synMem' = [synMem EXCEPT ![m] = SynDefault[m]]
    /\ synMemSet' = [synMemSet EXCEPT ![m] = TRUE]
    /\ UNCHANGED <<machine, syn, page, lfo, lastSyn, loadedOver, todo>>

SetPage(v) ==
    /\ todo = <<>>
    /\ page' = v /\ todo' = <<SetPageCmd(v)>>
    /\ UNCHANGED <<machine, syn, lfo, synMem, synMemSet, lastSyn, loadedOver>>

SetLfo(v) ==
    /\ todo = <<>>
    /\ lfo' = v /\ todo' = <<SetLfoCmd(v)>>
    /\ UNCHANGED <<machine, syn, page, synMem, synMemSet, lastSyn, loadedOver>>

\* Mutants of SwitchMachine: the outgoing values are saved under the new machine; the shared pages,
\* which the engine's SetMachine resets, are not sent again.
SwitchSavesUnderNew(m) ==
    /\ todo = <<>> /\ m # machine
    /\ synMem' = [synMem EXCEPT ![m] = syn]
    /\ synMemSet' = [synMemSet EXCEPT ![m] = TRUE]
    /\ machine' = m /\ syn' = Remembered(m)
    /\ todo' = <<SetMachineCmd(m), SetSynCmd(syn'), SetPageCmd(page)>>
    /\ UNCHANGED <<page, lfo, lastSyn, loadedOver>>
SwitchSendsSynOnly(m) ==
    /\ todo = <<>> /\ m # machine
    /\ synMem' = [synMem EXCEPT ![machine] = syn]
    /\ synMemSet' = [synMemSet EXCEPT ![machine] = TRUE]
    /\ machine' = m /\ syn' = Remembered(m)
    /\ todo' = <<SetMachineCmd(m), SetSynCmd(syn')>>
    /\ UNCHANGED <<page, lfo, lastSyn, loadedOver>>

\* set_param "machine": switchMachine.
SwitchMachine(m) ==
    /\ todo = <<>> /\ m # machine
    /\ synMem' = [synMem EXCEPT ![machine] = syn]
    /\ synMemSet' = [synMemSet EXCEPT ![machine] = TRUE]
    /\ machine' = m /\ syn' = Remembered(m)
    /\ todo' = <<SetMachineCmd(m), SetSynCmd(syn'), SetPageCmd(page)>>
    /\ UNCHANGED <<page, lfo, lastSyn, loadedOver>>

\* A preset or a saved state replaces the whole sound; what the outgoing machine had is not saved.
LoadSound(x) ==
    /\ todo = <<>>
    /\ machine' = x.machine /\ syn' = x.syn /\ page' = x.page /\ lfo' = x.lfo
    /\ lastSyn' = [lastSyn EXCEPT ![x.machine] = x.syn]
    /\ loadedOver' = (loadedOver \cup {machine}) \ {x.machine}
    /\ todo' = ReplayCmds(x.machine, x.syn, x.page, x.lfo)

\* set_param "preset": loadPreset, which drops the new machine's memory.
LoadPreset(x) ==
    /\ LoadSound(x)
    /\ synMemSet' = [synMemSet EXCEPT ![x.machine] = FALSE]
    /\ UNCHANGED synMem

\* set_param "state": readState, which drops no machine's memory.
RestoreState(x) == LoadSound(x) /\ UNCHANGED <<synMem, synMemSet>>

Edit ==
    \/ \E m \in Machines, k \in Knobs, v \in Values : SetSyn(m, k, v)
    \/ \E m \in Machines : GetSyn(m) \/ SwitchMachine(m)
    \/ \E v \in Values : SetPage(v) \/ SetLfo(v)
    \/ \E x \in Patches : LoadPreset(x) \/ RestoreState(x)

\* The commands are out: the entry point returns.
Sent ==
    /\ todo # <<>>
    /\ todo' = <<>>
    /\ UNCHANGED tableVars

\* createInstance: loadDefaults.
TableInit ==
    /\ machine = FirstMachine /\ syn = SynDefault[FirstMachine]
    /\ page = Default /\ lfo = Default
    /\ synMem = [m \in Machines |-> [k \in Knobs |-> Default]]
    /\ synMemSet = [m \in Machines |-> FALSE]
    /\ lastSyn = SynDefault /\ loadedOver = {}
    /\ todo = <<>>

Next == Edit \/ Sent
Spec == TableInit /\ [][Next]_vars

-----------------------------------------------------------------------------
Command ==
    [op: {"SetMachine"}, m: Machines] \cup [op: {"SetSyn"}, s: SynValues]
        \cup [op: {"SetPage", "SetLfo"}, v: Values]

TypeOK ==
    /\ machine \in Machines /\ syn \in SynValues /\ page \in Values /\ lfo \in Values
    /\ synMem \in [Machines -> SynValues] /\ synMemSet \in [Machines -> BOOLEAN]
    /\ lastSyn \in [Machines -> SynValues] /\ loadedOver \subseteq Machines
    /\ todo \in Seq(Command)

\* Picking a machine brings back the SYN values it was last given, by whichever knob, preset or state,
\* unless a preset or a state has been loaded over it.
RestoresUnlessLoadedOver ==
    [][machine' # machine /\ machine' \notin loadedOver' => syn' = lastSyn'[machine']]_vars

\* struct Params: synMem holds "each machine's last SYN values, restored when it is picked again".
\* Picking a machine brings back the values it was last given, by whichever way it was given them.
RestoresLast == [][machine' # machine => syn' = lastSyn'[machine']]_vars
=============================================================================
