----------------------------- MODULE ParamText -----------------------------
(***************************************************************************)
(* The texts by which the host sets and reads the table: option names,     *)
(* indexes and numbers to raw values and back, and the state, one text     *)
(* with the whole sound.                                                   *)
(*                                                                         *)
(* A text is the number strtol reads at its start, if any, and the rest.   *)
(* (Decimals, which only a numeric parameter reads on, are left out.)  The *)
(* keys are numbers in the order of the state: the pages, then the LFOs.   *)
(* A text that is not a key's or does not fit a buffer is left out too.    *)
(***************************************************************************)
EXTENDS Integers, Sequences

CONSTANTS
    MachineList,   \* kMachineList: the machines, in the order of the options of "machine"
    Label,         \* their labels
    SynLabels,     \* kSynLabels: each machine's knob labels, Blank where the hardware has none
    Defs,          \* kDefs: key -> [kind, count, names]
    PageCount,     \* values of the pages in a state: 32; keys 1 .. PageCount
    LfoCount,      \* values of the LFOs: 24; the keys after them
    FirstMachine, FirstTable,   \* the machine and the defaults of a new instance
    Inputs,        \* the texts the host sets
    Presets        \* raw values that presets bring

VARIABLES
    machine, level, depth,    \* Params::machine, level; Instance::depth
    table,                    \* Params::page and lfo, by key
    state,                    \* the state the host saved last, or NoState
    call                      \* history: "state" or "cut" if a saved state, or part of one, was last set

vars == <<machine, level, depth, table, state, call>>

Raw == 0 .. 127
kMaxDepth == 4
kDefaultDepth == 2
Keys == 1 .. PageCount + LfoCount
Machines == {MachineList[i] : i \in DOMAIN MachineList}
validMachine(m) == m \in Machines

Numeral(v) == [digits |-> TRUE, num |-> v, rest |-> ""]
Word(w) == [digits |-> FALSE, num |-> 0, rest |-> w]
Blank == Word("")
IsNumber(t) == t.digits /\ t.rest = ""
atoi(t) == IF t.digits THEN t.num ELSE 0
Clamp(v, lo, hi) == IF v < lo THEN lo ELSE IF v > hi THEN hi ELSE v
Least(S) == CHOOSE i \in S : \A j \in S : i <= j

-----------------------------------------------------------------------------
(* Names and raw values.                                                   *)

\* A list's options share the 128 raw values in uneven buckets; a name stands for its bucket's middle.
listIndex(raw, n) == ((2 * raw + 1) * n) \div 256
listRawMid(i, n) == (i * 256 + 128) \div (2 * n)

PAR(i) == [digits |-> FALSE, num |-> i + 1, rest |-> "PAR"]
synLabel(m, i) == IF SynLabels[m][i] = Blank THEN PAR(i) ELSE SynLabels[m][i]

Options(d) == CASE d.kind = "dest" -> 8 [] d.kind = "readout" -> 128 [] OTHER -> d.count

\* The options a text spells: of SYNT DEST the machine's label or the generic PARn.
Spelled(d, t, m) ==
    {i \in 0 .. Options(d) - 1 : IF d.kind = "dest" THEN t \in {synLabel(m, i), PAR(i)} ELSE t = d.names[i]}

IsList(d) == d.kind \in {"list", "readout", "dest"}

Refused == -1

RawOf(d, i) == IF d.kind = "readout" THEN i ELSE listRawMid(i, Options(d))

\* Mutant of toRaw: a number is an index, whatever the names.
toRawIndexFirst(d, t, m) ==
    IF IsList(d)
    THEN CASE IsNumber(t) -> RawOf(d, Clamp(t.num, 0, Options(d) - 1))
           [] ~IsNumber(t) /\ Spelled(d, t, m) # {} -> RawOf(d, Least(Spelled(d, t, m)))
           [] OTHER -> Refused
    ELSE IF t.digits THEN Clamp(t.num + (IF d.kind = "bipolar" THEN 64 ELSE 0), 0, 127) ELSE Refused

\* A list takes the name of an option, or else an index; a number is clamped, what follows it ignored.
toRaw(d, t, m) ==
    IF IsList(d)
    THEN CASE Spelled(d, t, m) # {} -> RawOf(d, Least(Spelled(d, t, m)))
           [] Spelled(d, t, m) = {} /\ IsNumber(t) -> RawOf(d, Clamp(t.num, 0, Options(d) - 1))
           [] OTHER -> Refused
    ELSE IF t.digits THEN Clamp(t.num + (IF d.kind = "bipolar" THEN 64 ELSE 0), 0, 127) ELSE Refused

fromRaw(d, raw, m) ==
    CASE d.kind = "dest" -> synLabel(m, listIndex(raw, 8))
      [] d.kind = "readout" -> d.names[raw]
      [] d.kind = "list" -> d.names[listIndex(raw, d.count)]
      [] d.kind = "bipolar" -> Numeral(raw - 64)
      [] OTHER -> Numeral(raw)

NoMachine == "none"

\* An index into the options, or a label.
parseMachine(t) ==
    IF IsNumber(t)
    THEN IF t.num + 1 \in DOMAIN MachineList THEN MachineList[t.num + 1] ELSE NoMachine
    ELSE IF \E m \in Machines : Label[m] = t THEN CHOOSE m \in Machines : Label[m] = t ELSE NoMachine

\* What the generated tables are: options enough for 128 values, and no name twice in a list, the labels
\* of a machine and the generic ones taken together; no machine's label is a number.
ASSUME TextAssumption ==
    /\ PageCount \in Nat \ {0} /\ LfoCount \in Nat \ {0}
    /\ NoMachine \notin Machines
    /\ \A m \in Machines :
        /\ ~IsNumber(Label[m])
        /\ \A n \in Machines : Label[m] = Label[n] => m = n
        /\ \A i, j \in 0 .. 7 : i # j => synLabel(m, i) \notin {synLabel(m, j), PAR(j)}
    /\ \A k \in Keys :
        /\ Defs[k].kind \in {"numeric", "bipolar", "list", "readout", "dest"}
        /\ Defs[k].kind = "list" => Defs[k].count \in 1 .. 128
        /\ Defs[k].kind \in {"list", "readout"} =>
               \A i, j \in 0 .. Options(Defs[k]) - 1 : Defs[k].names[i] = Defs[k].names[j] => i = j
    /\ FirstMachine \in Machines /\ FirstTable \in [Keys -> Raw]
    /\ Inputs \subseteq [digits: BOOLEAN, num: Int, rest: STRING] /\ Presets \subseteq Raw

-----------------------------------------------------------------------------
(* set_param and get_param.                                                *)

SetKey(k, t) ==
    /\ toRaw(Defs[k], t, machine) # Refused
    /\ table' = [table EXCEPT ![k] = toRaw(Defs[k], t, machine)]
    /\ call' = "none"
    /\ UNCHANGED <<machine, level, depth, state>>

Shown(k) == fromRaw(Defs[k], table[k], machine)
ShownMachine == Label[machine]

\* Switching to another machine brings other SYN values (ParamTable); the keys here are the shared ones.
SetMachine(t) ==
    /\ parseMachine(t) \notin {NoMachine, machine}
    /\ machine' = parseMachine(t)
    /\ call' = "none"
    /\ UNCHANGED <<level, depth, table, state>>

SetLevel(t) ==
    /\ level' = Clamp(atoi(t), 0, 127) /\ call' = "none"
    /\ UNCHANGED <<machine, depth, table, state>>

SetDepth(t) ==
    /\ depth' = Clamp(atoi(t), 1, kMaxDepth) /\ call' = "none"
    /\ UNCHANGED <<machine, level, table, state>>

\* A preset brings its machine and raw values of the hardware, not the middles of buckets.
LoadPreset(m, r) ==
    /\ machine' = m /\ level' = r /\ table' = [k \in Keys |-> r]
    /\ call' = "none"
    /\ UNCHANGED <<depth, state>>

\* "m=..;l=..;d=..;p=..;f=..": `head` if the first three are there, the integers as far as they are.
NoState == [head |-> FALSE, machine |-> FirstMachine, level |-> 0, depth |-> 0, p |-> <<>>, f |-> <<>>]

writeState ==
    [head |-> TRUE, machine |-> machine, level |-> level, depth |-> depth,
     p |-> [i \in 1 .. PageCount |-> table[i]], f |-> [i \in 1 .. LfoCount |-> table[PageCount + i]]]

GetState ==
    /\ state' = writeState /\ call' = "none"
    /\ UNCHANGED <<machine, level, depth, table>>

\* The integers of a state, which must all be there; of the LFOs all or none.
readInts(s) ==
    [k \in Keys |->
        IF k <= PageCount THEN Clamp(s.p[k], 0, 127)
        ELSE IF Len(s.f) >= LfoCount THEN Clamp(s.f[k - PageCount], 0, 127) ELSE table[k]]

\* Mutants of readState: the machine and the level are set before the pages are read; the depth is not.
readStateEarly(s) ==
    IF ~(s.head /\ validMachine(s.machine)) THEN UNCHANGED <<machine, level, depth, table>>
    ELSE /\ machine' = s.machine /\ level' = Clamp(s.level, 0, 127)
         /\ depth' = Clamp(s.depth, 1, kMaxDepth)
         /\ table' = IF Len(s.p) >= PageCount THEN readInts(s) ELSE table
readStateNoDepth(s) ==
    IF ~(s.head /\ validMachine(s.machine) /\ Len(s.p) >= PageCount)
    THEN UNCHANGED <<machine, level, depth, table>>
    ELSE /\ machine' = s.machine /\ level' = Clamp(s.level, 0, 127)
         /\ table' = readInts(s) /\ UNCHANGED depth

\* readState: all of the sound or nothing, but for LFOs that are not all there (older states have none).
readState(s) ==
    IF ~(s.head /\ validMachine(s.machine) /\ Len(s.p) >= PageCount)
    THEN UNCHANGED <<machine, level, depth, table>>
    ELSE /\ machine' = s.machine /\ level' = Clamp(s.level, 0, 127)
         /\ depth' = Clamp(s.depth, 1, kMaxDepth)
         /\ table' = readInts(s)

\* What the digits of a number may be cut to: 127 to 12 or 1, 64 to 6.
Shortened(v) == {v \div d : d \in {d \in {10, 100} : d <= v}}

\* The integers q, cut in the digits of the last, and cut anywhere.
LastCut(q) == {[q EXCEPT ![Len(q)] = v] : v \in Shortened(q[Len(q)])}
CutList(q) == {SubSeq(q, 1, i) : i \in 0 .. Len(q)} \cup UNION {LastCut(SubSeq(q, 1, i)) : i \in 1 .. Len(q)}

\* What may come back of a state: its text cut anywhere, in a number or between two, in the pages, the LFOs
\* or before (all three numbers of the head may be there, but no pages); one of the other build's machines.
Cuts(s) ==
    {[s EXCEPT !.f = q] : q \in CutList(s.f)} \cup {[s EXCEPT !.p = q, !.f = <<>>] : q \in CutList(s.p)}
        \cup {[s EXCEPT !.head = FALSE], [s EXCEPT !.machine = NoMachine]}

SetState ==
    /\ state # NoState
    /\ \/ readState(state) /\ call' = "state"
       \/ \E s \in Cuts(state) : readState(s) /\ call' = "cut"
    /\ UNCHANGED state

Init ==
    /\ machine = FirstMachine /\ level = 100 /\ depth = kDefaultDepth
    /\ table = FirstTable
    /\ state = NoState /\ call = "none"

Next ==
    \/ \E t \in Inputs : SetMachine(t) \/ SetLevel(t) \/ SetDepth(t) \/ \E k \in Keys : SetKey(k, t)
    \/ \E m \in Machines, r \in Presets : LoadPreset(m, r)
    \/ GetState \/ SetState

Spec == Init /\ [][Next]_vars

-----------------------------------------------------------------------------
\* What get_param shows, set again, shows the same: of every value a knob or a preset left in the table,
\* under the machine picked now, whether names are numerals or labels or none; and so for the machine.
ShownSticks ==
    /\ parseMachine(ShownMachine) = machine
    /\ \A k \in Keys : LET raw == toRaw(Defs[k], Shown(k), machine)
                       IN  raw \in Raw /\ fromRaw(Defs[k], raw, machine) = Shown(k)

\* The state is "the current sound, self-contained": set again, after any edits, it brings back what was
\* saved, the depth included.
StateRestores == call = "state" => writeState = state

\* The sound `new` is the saved one up to where its text was cut: it was cut in the last number of the
\* pages or of the LFOs, which alone is wrong, or after the pages, and the LFOs are the old ones unless all
\* were there.
TakenUpToCut(new, old, saved) ==
    /\ new.machine = saved.machine /\ new.level = saved.level /\ new.depth = saved.depth
    /\ \/ new.p \in LastCut(saved.p) /\ new.f = old.f
       \/ new.p = saved.p /\ new.f \in {old.f, saved.f} \cup LastCut(saved.f)

\* readState's "malformed: keep the current table", as far as it goes: wherever a state was cut, it changes
\* nothing, or brings everything but one number, the last of a group and the one it was cut in, and the
\* groups after it.  (readInts takes a number for whole if it has a digit.)
CutSpoilsOneNumber ==
    [][call' = "cut" => writeState' = writeState \/ TakenUpToCut(writeState', writeState, state)]_vars
=============================================================================
