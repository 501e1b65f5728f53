-------------------------- MODULE ParamTableProofs --------------------------
(***************************************************************************)
(* The parameter table, for any machines, knobs, values, presets and saved *)
(* states.                                                                 *)
(*                                                                         *)
(* Picking a machine again brings back the SYN values it was last given,   *)
(* unless a preset or a state was loaded over it; the run table_sounds     *)
(* shows what happens then.                                                *)
(*                                                                         *)
(* The engine comes to hold the table (TableSync): what the ring still     *)
(* holds and the entry point still pushes, applied to what the engine has, *)
(* gives the table.                                                        *)
(*                                                                         *)
(* The host comes to show the pages (ServedPages): a pulse is seen by the  *)
(* poll that ends it or the next, whatever changes it meets.               *)
(***************************************************************************)
EXTENDS TableSync, ServedPages, SequenceTheorems, TLAPS

\* The values of the machine picked and the memory of every other are the last given.
MemoryInv ==
    \A m \in Machines \ loadedOver : (IF m = machine THEN syn ELSE Remembered(m)) = lastSyn[m]

TableInv == TypeOK /\ MemoryInv

-----------------------------------------------------------------------------
LEMMA CommandsType ==
    /\ \A m \in Machines : SetMachineCmd(m) \in Command
    /\ \A s \in SynValues : SetSynCmd(s) \in Command
    /\ \A v \in Values : SetPageCmd(v) \in Command /\ SetLfoCmd(v) \in Command
  BY DEF Command, SetMachineCmd, SetSynCmd, SetPageCmd, SetLfoCmd

LEMMA RememberedType == TypeOK => \A m \in Machines : Remembered(m) \in SynValues
  BY TableAssumption DEF TypeOK, Remembered, SynValues

LEMMA InitTypeOK == TableInit => TypeOK
  BY TableAssumption DEF TableInit, TypeOK, SynValues

LEMMA OneCommand == ASSUME NEW c \in Command PROVE <<c>> \in Seq(Command)
  OBVIOUS

LEMMA ReplayType ==
    ASSUME NEW m \in Machines, NEW s \in SynValues, NEW p \in Values, NEW l \in Values
    PROVE  ReplayCmds(m, s, p, l) \in Seq(Command)
  BY CommandsType DEF ReplayCmds

LEMMA NextTypeOK == TypeOK /\ [Next]_vars => TypeOK'
  <1> SUFFICES ASSUME TypeOK, [Next]_vars PROVE TypeOK'
    OBVIOUS
  <1> USE DEF TypeOK
  <1>1. ASSUME NEW m \in Machines, NEW k \in Knobs, NEW v \in Values, SetSyn(m, k, v)
        PROVE  TypeOK'
    <2>1. lastSyn' \in [Machines -> SynValues]
      BY <1>1 DEF SetSyn, SynValues
    <2>2. CASE m = machine
      <3>1. syn' \in SynValues
        BY <1>1, <2>2 DEF SetSyn, SynValues
      <3>2. SetSynCmd(syn') \in Command
        BY <3>1, CommandsType
      <3>3. todo' = <<SetSynCmd(syn')>>
        BY <1>1, <2>2 DEF SetSyn
      <3>4. todo' \in Seq(Command)
        BY <3>2, <3>3, OneCommand
      <3> QED
        BY <1>1, <2>1, <2>2, <3>1, <3>4 DEF SetSyn
    <2>3. CASE m # machine
      <3>1. [Remembered(m) EXCEPT ![k] = v] \in SynValues
        BY RememberedType DEF SynValues
      <3>2. synMem' \in [Machines -> SynValues]
        BY <1>1, <2>3, <3>1 DEF SetSyn
      <3> QED
        BY <1>1, <2>1, <2>3, <3>2 DEF SetSyn
    <2> QED
      BY <2>2, <2>3
  <1>2. ASSUME NEW m \in Machines, GetSyn(m) PROVE TypeOK'
    BY <1>2, TableAssumption DEF GetSyn, SynValues
  <1>3. ASSUME NEW m \in Machines, SwitchMachine(m) PROVE TypeOK'
    <2>1. syn' \in SynValues
      BY <1>3, RememberedType DEF SwitchMachine
    <2>2. todo' \in Seq(Command)
      BY <1>3, <2>1, CommandsType DEF SwitchMachine
    <2> QED
      BY <1>3, <2>1, <2>2 DEF SwitchMachine
  <1>4. ASSUME NEW v \in Values, SetPage(v) \/ SetLfo(v) PROVE TypeOK'
    <2>1. todo' \in Seq(Command)
      BY <1>4, CommandsType, OneCommand DEF SetPage, SetLfo
    <2> QED
      BY <1>4, <2>1 DEF SetPage, SetLfo
  <1>5. ASSUME NEW x \in Patches, LoadPreset(x) \/ RestoreState(x) PROVE TypeOK'
    <2>1. x.machine \in Machines /\ x.syn \in SynValues /\ x.page \in Values /\ x.lfo \in Values
      BY TableAssumption DEF SynValues
    <2>2. todo' = ReplayCmds(x.machine, x.syn, x.page, x.lfo)
      BY <1>5 DEF LoadPreset, RestoreState, LoadSound
    <2>3. ReplayCmds(x.machine, x.syn, x.page, x.lfo) \in Seq(Command)
      BY <2>1, ReplayType
    <2> QED
      BY <1>5, <2>1, <2>2, <2>3 DEF LoadPreset, RestoreState, LoadSound
  <1>6. CASE Sent
    BY <1>6 DEF Sent, tableVars
  <1>7. CASE UNCHANGED vars
    BY <1>7 DEF vars, tableVars
  <1> QED
    BY <1>1, <1>2, <1>3, <1>4, <1>5, <1>6, <1>7 DEF Next, Edit

\* The table keeps its type through every entry point, presets and states included.
THEOREM TableTypeCorrect == Spec => []TypeOK
  BY InitTypeOK, NextTypeOK, PTL DEF Spec

-----------------------------------------------------------------------------
LEMMA InitMemory == TableInit => MemoryInv
  BY TableAssumption DEF TableInit, MemoryInv, Remembered

LEMMA NextMemory == TableInv /\ [Next]_vars => MemoryInv'
  <1> SUFFICES ASSUME TableInv, [Next]_vars PROVE MemoryInv'
    OBVIOUS
  <1> USE DEF TableInv, TypeOK, MemoryInv
  <1>1. ASSUME NEW m \in Machines, NEW k \in Knobs, NEW v \in Values, SetSyn(m, k, v)
        PROVE  MemoryInv'
    <2>1. \A n \in Machines : n # m => lastSyn'[n] = lastSyn[n]
      BY <1>1 DEF SetSyn
    <2>2. lastSyn'[m] = [lastSyn[m] EXCEPT ![k] = v]
      BY <1>1 DEF SetSyn
    <2>3. CASE m = machine
      <3>1. m \notin loadedOver => syn' = lastSyn'[m]
        BY <1>1, <2>2, <2>3 DEF SetSyn
      <3> QED
        BY <1>1, <2>1, <2>3, <3>1 DEF SetSyn, Remembered
    <2>4. CASE m # machine
      <3>1. /\ m \notin loadedOver => synMem'[m] = lastSyn'[m]
            /\ synMemSet'[m] /\ machine' = machine /\ syn' = syn /\ loadedOver' = loadedOver
        BY <1>1, <2>2, <2>4 DEF SetSyn
      <3>2. \A n \in Machines : n # m => synMem'[n] = synMem[n] /\ synMemSet'[n] = synMemSet[n]
        BY <1>1, <2>4 DEF SetSyn
      <3> QED
        BY <2>1, <2>4, <3>1, <3>2 DEF Remembered
    <2> QED
      BY <2>3, <2>4
  <1>2. ASSUME NEW m \in Machines, GetSyn(m) PROVE MemoryInv'
    BY <1>2 DEF GetSyn, Remembered
  <1>3. ASSUME NEW m \in Machines, SwitchMachine(m) PROVE MemoryInv'
    BY <1>3 DEF SwitchMachine, Remembered
  <1>4. ASSUME NEW v \in Values, SetPage(v) \/ SetLfo(v) PROVE MemoryInv'
    BY <1>4 DEF SetPage, SetLfo, Remembered
  <1>5. ASSUME NEW x \in Patches, LoadPreset(x) \/ RestoreState(x) PROVE MemoryInv'
    <2>1. x.machine \in Machines
      BY TableAssumption
    <2>2. /\ machine' = x.machine /\ syn' = lastSyn'[x.machine]
          /\ \A n \in Machines : n # x.machine => lastSyn'[n] = lastSyn[n]
      BY <1>5, <2>1 DEF LoadPreset, RestoreState, LoadSound
    <2>3. \A n \in Machines : n # x.machine /\ n \notin loadedOver' => n \notin loadedOver /\ n # machine
      BY <1>5 DEF LoadPreset, RestoreState, LoadSound
    <2>4. \A n \in Machines : n # x.machine => Remembered(n)' = Remembered(n)
      BY <1>5, <2>1 DEF LoadPreset, RestoreState, Remembered
    <2> QED
      BY <2>1, <2>2, <2>3, <2>4
  <1>6. CASE Sent \/ UNCHANGED vars
    BY <1>6 DEF Sent, vars, tableVars, Remembered
  <1> QED
    BY <1>1, <1>2, <1>3, <1>4, <1>5, <1>6 DEF Next, Edit

\* struct Params: synMem holds "each machine's last SYN values, restored when it is picked again".
THEOREM MemoryRestores == Spec => RestoresUnlessLoadedOver
  <1>1. TableInit => TableInv
    BY InitTypeOK, InitMemory DEF TableInv
  <1>2. TableInv /\ [Next]_vars => TableInv'
    BY NextTypeOK, NextMemory DEF TableInv
  <1>3. TableInv' => (machine' # machine /\ machine' \notin loadedOver' => syn' = lastSyn'[machine'])
    BY DEF TableInv, TypeOK, MemoryInv
  <1> QED
    BY <1>1, <1>2, <1>3, PTL DEF Spec, RestoresUnlessLoadedOver

-----------------------------------------------------------------------------
(* What commands do to an engine, one field of its table at a time.        *)

Fields == {"machine", "syn", "page", "lfo"}
EngTypes == [machine: Machines \cup {NoMachine}, syn: SynValues, page: Values, lfo: Values]

Setters(f) ==
    CASE f = "machine" -> {"SetMachine"} [] f = "syn" -> {"SetMachine", "SetSyn"}
      [] f = "page" -> {"SetMachine", "SetPage"} [] f = "lfo" -> {"SetLfo"}
Sets(c, f) == c.op \in Setters(f)

\* Of the fields F: what the commands q make of engine e is what t holds.
LastSets(e, q, t, f, i) ==
    Sets(q[i], f) /\ Apply(e, q[i])[f] = t[f] /\ \A j \in i + 1 .. Len(q) : ~Sets(q[j], f)
NoneSets(e, q, t, f) == (\A i \in 1 .. Len(q) : ~Sets(q[i], f)) /\ e[f] = t[f]
Delivers(e, q, t, F) == \A f \in F : (\E i \in 1 .. Len(q) : LastSets(e, q, t, f, i)) \/ NoneSets(e, q, t, f)

LEMMA CommandCases ==
    ASSUME NEW c \in Command
    PROVE  \/ c.op = "SetMachine" /\ c.m \in Machines
           \/ c.op = "SetSyn" /\ c.s \in SynValues
           \/ c.op = "SetPage" /\ c.v \in Values
           \/ c.op = "SetLfo" /\ c.v \in Values
  BY DEF Command

LEMMA ApplyType == ASSUME NEW e \in EngTypes, NEW c \in Command PROVE Apply(e, c) \in EngTypes
  <1>1. CASE c.op = "SetMachine"
    <2>1. SynDefault[c.m] \in SynValues /\ Default \in Values /\ c.m \in Machines
      BY <1>1, CommandCases, TableAssumption DEF SynValues
    <2> QED
      BY <1>1, <2>1 DEF Apply, EngTypes
  <1>2. CASE c.op = "SetSyn"
    BY <1>2, CommandCases DEF Apply, EngTypes
  <1>3. CASE c.op = "SetPage"
    BY <1>3, CommandCases DEF Apply, EngTypes
  <1>4. CASE c.op = "SetLfo"
    BY <1>4, CommandCases DEF Apply, EngTypes
  <1> QED
    BY <1>1, <1>2, <1>3, <1>4, CommandCases

\* A command gives a field the same whatever the engine held, or leaves it alone.
LEMMA ApplyFields ==
    ASSUME NEW d \in EngTypes, NEW e \in EngTypes, NEW c \in Command, NEW f \in Fields
    PROVE  /\ Sets(c, f) => Apply(d, c)[f] = Apply(e, c)[f]
           /\ ~Sets(c, f) => Apply(e, c)[f] = e[f]
  <1>1. CASE c.op = "SetMachine"
    BY <1>1 DEF Apply, Sets, Setters, Fields, EngTypes
  <1>2. CASE c.op = "SetSyn"
    BY <1>2 DEF Apply, Sets, Setters, Fields, EngTypes
  <1>3. CASE c.op = "SetPage"
    BY <1>3 DEF Apply, Sets, Setters, Fields, EngTypes
  <1>4. CASE c.op = "SetLfo"
    BY <1>4 DEF Apply, Sets, Setters, Fields, EngTypes
  <1> QED
    BY <1>1, <1>2, <1>3, <1>4, CommandCases

\* One command more changes what is delivered as it changes an engine, and settles the fields it sets.
LEMMA DeliversAppend ==
    ASSUME NEW e \in EngTypes, NEW t \in EngTypes, NEW q \in Seq(Command), NEW c \in Command,
           NEW F \in SUBSET Fields, Delivers(e, q, t, F)
    PROVE  Delivers(e, Append(q, c), Apply(t, c), F \cup {f \in Fields : Sets(c, f)})
  <1> DEFINE p == Append(q, c)
             n == Len(q)
  <1>1. n \in Nat /\ Len(p) = n + 1 /\ p[n + 1] = c /\ \A i \in 1 .. n : p[i] = q[i]
    BY AppendProperties
  <1> SUFFICES ASSUME NEW f \in Fields, f \in F \/ Sets(c, f)
               PROVE  (\E i \in 1 .. n + 1 : LastSets(e, p, Apply(t, c), f, i)) \/ NoneSets(e, p, Apply(t, c), f)
    BY <1>1 DEF Delivers
  <1> HIDE DEF p, n
  <1>2. CASE Sets(c, f)
    <2>1. Apply(e, c)[f] = Apply(t, c)[f]
      BY <1>2, ApplyFields
    <2>2. n + 1 \in 1 .. n + 1 /\ (n + 1) + 1 .. n + 1 = {}
      BY <1>1
    <2>3. LastSets(e, p, Apply(t, c), f, n + 1)
      BY <1>1, <1>2, <2>1, <2>2 DEF LastSets
    <2> QED
      BY <2>2, <2>3
  <1>3. CASE ~Sets(c, f)
    <2>1. Apply(t, c)[f] = t[f]
      BY <1>3, ApplyFields
    <2>2. CASE NoneSets(e, q, t, f)
      <3>1. \A i \in 1 .. n + 1 : ~Sets(p[i], f)
        BY <1>1, <1>3, <2>2 DEF NoneSets, n
      <3>2. e[f] = t[f]
        BY <2>2 DEF NoneSets
      <3> QED
        BY <1>1, <2>1, <3>1, <3>2 DEF NoneSets
    <2>3. CASE \E i \in 1 .. n : LastSets(e, q, t, f, i)
      <3>1. PICK i \in 1 .. n : LastSets(e, q, t, f, i)
        BY <2>3
      <3>2. p[i] = q[i] /\ i \in 1 .. n + 1
        BY <1>1
      <3>3. \A j \in i + 1 .. n + 1 : ~Sets(p[j], f)
        BY <1>1, <1>3, <3>1 DEF LastSets, n
      <3>4. LastSets(e, p, Apply(t, c), f, i)
        BY <1>1, <2>1, <3>1, <3>2, <3>3 DEF LastSets
      <3> QED
        BY <3>2, <3>4
    <2>4. f \in F
      BY <1>3
    <2> QED
      BY <2>2, <2>3, <2>4 DEF Delivers, n
  <1> QED
    BY <1>2, <1>3

\* Applying the first command leaves it to the others to deliver the same.
LEMMA DeliversTail ==
    ASSUME NEW e \in EngTypes, NEW t \in EngTypes, NEW q \in Seq(Command), NEW p \in Seq(Command),
           Len(q) = Len(p) + 1, \A i \in 1 .. Len(p) : p[i] = q[i + 1], Delivers(e, q, t, Fields)
    PROVE  Delivers(Apply(e, q[1]), p, t, Fields)
  <1> DEFINE n == Len(p)
             d == Apply(e, q[1])
  <1>1. n \in Nat /\ Len(q) = n + 1 /\ q[1] \in Command
    BY LenProperties, ElementOfSeq
  <1>2. d \in EngTypes /\ \A i \in 1 .. n : p[i] \in Command
    BY <1>1, ApplyType, ElementOfSeq
  <1> HIDE DEF d
  <1> SUFFICES ASSUME NEW f \in Fields
               PROVE  (\E i \in 1 .. n : LastSets(d, p, t, f, i)) \/ NoneSets(d, p, t, f)
    BY DEF Delivers, d
  <1> HIDE DEF n
  <1>3. CASE NoneSets(e, q, t, f)
    <2>1. ~Sets(q[1], f) /\ e[f] = t[f]
      BY <1>1, <1>3 DEF NoneSets
    <2>2. d[f] = t[f]
      BY <1>1, <2>1, ApplyFields DEF d
    <2>3. \A i \in 1 .. n : ~Sets(p[i], f)
      BY <1>1, <1>3 DEF NoneSets, n
    <2> QED
      BY <2>2, <2>3 DEF NoneSets, n
  <1>4. CASE \E i \in 1 .. n + 1 : LastSets(e, q, t, f, i)
    <2>1. PICK i \in 1 .. n + 1 : LastSets(e, q, t, f, i)
      BY <1>4
    <2>2. CASE i = 1
      <3>1. d[f] = t[f]
        BY <2>1, <2>2 DEF LastSets, d
      <3>2. \A j \in 1 .. n : ~Sets(p[j], f)
        BY <1>1, <2>1, <2>2 DEF LastSets, n
      <3> QED
        BY <3>1, <3>2 DEF NoneSets, n
    <2>3. CASE i # 1
      <3>1. i - 1 \in 1 .. n /\ (i - 1) + 1 = i
        BY <1>1, <2>3
      <3>2. p[i - 1] = q[i] /\ p[i - 1] \in Command
        BY <1>2, <3>1 DEF n
      <3>3. Apply(d, p[i - 1])[f] = t[f]
        BY <1>2, <2>1, <3>2, ApplyFields DEF LastSets
      <3>4. ASSUME NEW j \in (i - 1) + 1 .. n PROVE ~Sets(p[j], f)
        <4>1. j \in 1 .. n /\ j + 1 \in i + 1 .. n + 1
          BY ONLY <1>1, <3>1, i \in 1 .. n + 1, j \in (i - 1) + 1 .. n
        <4>2. p[j] = q[j + 1]
          BY <4>1 DEF n
        <4>3. ~Sets(q[j + 1], f)
          BY <1>1, <2>1, <4>1 DEF LastSets
        <4> QED
          BY <4>2, <4>3
      <3>5. LastSets(d, p, t, f, i - 1)
        BY <2>1, <3>2, <3>3, <3>4 DEF LastSets, n
      <3> QED
        BY <3>1, <3>5
    <2> QED
      BY <2>2, <2>3
  <1> QED
    BY <1>1, <1>3, <1>4 DEF Delivers, n

-----------------------------------------------------------------------------
(* What an entry point pushes does to an engine what it did to the table.  *)

LEMMA ConcatAppend ==
    ASSUME NEW q \in Seq(Command), NEW s \in Seq(Command), NEW c \in Command
    PROVE  q \o Append(s, c) = Append(q \o s, c)
  <1>1. Append(s, c) = s \o <<c>> /\ q \o s \in Seq(Command) /\ <<c>> \in Seq(Command)
    BY AppendIsConcat, ConcatProperties
  <1>2. Append(q \o s, c) = (q \o s) \o <<c>>
    BY <1>1, AppendIsConcat
  <1> QED
    BY <1>1, <1>2, ConcatAssociative

LEMMA MoreCommands ==
    ASSUME NEW q \in Seq(Command), NEW a \in Command, NEW b \in Command, NEW c \in Command, NEW d \in Command
    PROVE  /\ q \o <<a>> = Append(q, a)
           /\ q \o <<a, b, c>> = Append(Append(Append(q, a), b), c)
           /\ q \o <<a, b, c, d>> = Append(Append(Append(Append(q, a), b), c), d)
  <1>1. q \o <<a>> = Append(q, a)
    BY AppendIsConcat
  <1>2. <<a>> \in Seq(Command) /\ <<a, b>> \in Seq(Command) /\ <<a, b, c>> \in Seq(Command)
    OBVIOUS
  <1>3. /\ <<a, b>> = Append(<<a>>, b) /\ <<a, b, c>> = Append(<<a, b>>, c)
        /\ <<a, b, c, d>> = Append(<<a, b, c>>, d)
    OBVIOUS
  <1>4. q \o <<a, b>> = Append(q \o <<a>>, b)
    BY <1>2, <1>3, ConcatAppend
  <1>5. q \o <<a, b, c>> = Append(q \o <<a, b>>, c)
    BY <1>2, <1>3, ConcatAppend
  <1>6. q \o <<a, b, c, d>> = Append(q \o <<a, b, c>>, d)
    BY <1>2, <1>3, ConcatAppend
  <1> QED
    BY <1>1, <1>4, <1>5, <1>6

LEMMA TableType == TypeOK => Table \in EngTypes
  BY DEF TypeOK, Table, EngTypes

\* A replay delivers the table whatever the engine holds and the ring still brings.
LEMMA ReplayDelivers ==
    ASSUME NEW e \in EngTypes, NEW q \in Seq(Command),
           NEW m \in Machines, NEW s \in SynValues, NEW p \in Values, NEW l \in Values
    PROVE  Delivers(e, q \o ReplayCmds(m, s, p, l), [machine |-> m, syn |-> s, page |-> p, lfo |-> l], Fields)
  <1> DEFINE c1 == SetMachineCmd(m)
             c2 == SetSynCmd(s)
             c3 == SetPageCmd(p)
             c4 == SetLfoCmd(l)
             t == [machine |-> m, syn |-> s, page |-> p, lfo |-> l]
             t1 == Apply(t, c1)
             t2 == Apply(t1, c2)
             t3 == Apply(t2, c3)
             t4 == Apply(t3, c4)
             q1 == Append(q, c1)
             q2 == Append(q1, c2)
             q3 == Append(q2, c3)
             q4 == Append(q3, c4)
             F1 == {} \cup {f \in Fields : Sets(c1, f)}
             F2 == F1 \cup {f \in Fields : Sets(c2, f)}
             F3 == F2 \cup {f \in Fields : Sets(c3, f)}
             F4 == F3 \cup {f \in Fields : Sets(c4, f)}
  <1>1. c1 \in Command /\ c2 \in Command /\ c3 \in Command /\ c4 \in Command
    BY CommandsType
  <1>2. t \in EngTypes
    BY DEF EngTypes
  <1>3. t1 \in EngTypes /\ t2 \in EngTypes /\ t3 \in EngTypes
    BY <1>1, <1>2, ApplyType
  <1>4. t4 = t
    BY DEF Apply, SetMachineCmd, SetSynCmd, SetPageCmd, SetLfoCmd
  <1>5. F4 = Fields
    BY DEF Fields, Sets, Setters, SetMachineCmd, SetSynCmd, SetPageCmd, SetLfoCmd
  <1>6. q1 \in Seq(Command) /\ q2 \in Seq(Command) /\ q3 \in Seq(Command)
    BY <1>1, AppendProperties
  <1>7. q \o ReplayCmds(m, s, p, l) = q4
    BY <1>1, MoreCommands DEF ReplayCmds
  <1>8. F1 \in SUBSET Fields /\ F2 \in SUBSET Fields /\ F3 \in SUBSET Fields
    OBVIOUS
  <1>9. Delivers(e, q, t, {})
    BY DEF Delivers
  <1> HIDE DEF c1, c2, c3, c4, t
  <1>10. Delivers(e, q1, t1, F1)
    BY <1>1, <1>2, <1>9, DeliversAppend
  <1> HIDE DEF t1, q1, F1
  <1>11. Delivers(e, q2, t2, F2)
    BY <1>1, <1>3, <1>6, <1>8, <1>10, DeliversAppend
  <1> HIDE DEF t2, q2, F2
  <1>12. Delivers(e, q3, t3, F3)
    BY <1>1, <1>3, <1>6, <1>8, <1>11, DeliversAppend
  <1> HIDE DEF t3, q3, F3
  <1>13. Delivers(e, q4, t4, F4)
    BY <1>1, <1>3, <1>6, <1>8, <1>12, DeliversAppend
  <1> QED
    BY <1>4, <1>5, <1>7, <1>13 DEF t

\* One command of an entry point.
LEMMA OneDelivers ==
    ASSUME NEW e \in EngTypes, NEW t \in EngTypes, NEW q \in Seq(Command), NEW c \in Command,
           Delivers(e, q, t, Fields)
    PROVE  Delivers(e, Append(q, c), Apply(t, c), Fields)
  <1>1. Fields \cup {f \in Fields : Sets(c, f)} = Fields /\ Fields \in SUBSET Fields
    OBVIOUS
  <1> QED
    BY <1>1, DeliversAppend

LEMMA EditDelivers ==
    ASSUME TypeOK, todo = <<>>, Edit, NEW e \in EngTypes, NEW q \in Seq(Command), Delivers(e, q, Table, Fields)
    PROVE  Delivers(e, q \o todo', Table', Fields)
  <1>1. Table \in EngTypes /\ TypeOK'
    BY TableType, NextTypeOK DEF Next
  <1>2. q \o <<>> = q
    BY ConcatEmptySeq
  <1>3. ASSUME Table' = Table, todo' = todo PROVE Delivers(e, q \o todo', Table', Fields)
    BY <1>2, <1>3
  <1>4. ASSUME NEW c \in Command, todo' = <<c>>, Table' = Apply(Table, c)
        PROVE  Delivers(e, q \o todo', Table', Fields)
    <2>1. q \o <<c>> = Append(q, c)
      BY MoreCommands
    <2>2. Delivers(e, Append(q, c), Apply(Table, c), Fields)
      BY <1>1, OneDelivers
    <2> QED
      BY <1>4, <2>1, <2>2
  <1>5. ASSUME NEW m \in Machines, NEW k \in Knobs, NEW v \in Values, SetSyn(m, k, v)
        PROVE  Delivers(e, q \o todo', Table', Fields)
    <2>1. CASE m = machine
      <3>1. SetSynCmd(syn') \in Command
        BY <1>1, CommandsType DEF TypeOK
      <3>2. todo' = <<SetSynCmd(syn')>> /\ machine' = machine /\ page' = page /\ lfo' = lfo
        BY <1>5, <2>1 DEF SetSyn
      <3>3. Table' = Apply(Table, SetSynCmd(syn'))
        BY <3>2 DEF Table, Apply, SetSynCmd
      <3> QED
        BY <1>4, <3>1, <3>2, <3>3
    <2>2. CASE m # machine
      BY <1>3, <1>5, <2>2 DEF SetSyn, Table
    <2> QED
      BY <2>1, <2>2
  <1>6. ASSUME NEW m \in Machines, GetSyn(m) PROVE Delivers(e, q \o todo', Table', Fields)
    BY <1>3, <1>6 DEF GetSyn, Table
  <1>7. ASSUME NEW m \in Machines, SwitchMachine(m) PROVE Delivers(e, q \o todo', Table', Fields)
    <2> DEFINE c1 == SetMachineCmd(m)
               c2 == SetSynCmd(syn')
               c3 == SetPageCmd(page)
               t1 == Apply(Table, c1)
               t2 == Apply(t1, c2)
               t3 == Apply(t2, c3)
    <2>1. c1 \in Command /\ c2 \in Command /\ c3 \in Command
      BY <1>1, CommandsType DEF TypeOK
    <2>2. todo' = <<c1, c2, c3>> /\ machine' = m /\ page' = page /\ lfo' = lfo
      BY <1>7 DEF SwitchMachine
    <2>3. Table' = t3
      BY <2>2 DEF Table, Apply, SetMachineCmd, SetSynCmd, SetPageCmd
    <2>4. t1 \in EngTypes /\ t2 \in EngTypes
      BY <1>1, <2>1, ApplyType
    <2>5. q \o todo' = Append(Append(Append(q, c1), c2), c3)
      BY <2>1, <2>2, MoreCommands
    <2>6. Append(q, c1) \in Seq(Command) /\ Append(Append(q, c1), c2) \in Seq(Command)
      BY <2>1, AppendProperties
    <2> HIDE DEF c1, c2, c3
    <2>7. Delivers(e, Append(q, c1), t1, Fields)
      BY <1>1, <2>1, OneDelivers
    <2> HIDE DEF t1
    <2>8. Delivers(e, Append(Append(q, c1), c2), t2, Fields)
      BY <2>1, <2>4, <2>6, <2>7, OneDelivers
    <2> HIDE DEF t2
    <2>9. Delivers(e, Append(Append(Append(q, c1), c2), c3), t3, Fields)
      BY <2>1, <2>4, <2>6, <2>8, OneDelivers
    <2> QED
      BY <2>3, <2>5, <2>9
  <1>8. ASSUME NEW v \in Values, SetPage(v) PROVE Delivers(e, q \o todo', Table', Fields)
    <2>1. SetPageCmd(v) \in Command /\ todo' = <<SetPageCmd(v)>>
      BY <1>8, CommandsType DEF SetPage
    <2>2. Table' = Apply(Table, SetPageCmd(v))
      BY <1>8 DEF SetPage, Table, Apply, SetPageCmd
    <2> QED
      BY <1>4, <2>1, <2>2
  <1>9. ASSUME NEW v \in Values, SetLfo(v) PROVE Delivers(e, q \o todo', Table', Fields)
    <2>1. SetLfoCmd(v) \in Command /\ todo' = <<SetLfoCmd(v)>>
      BY <1>9, CommandsType DEF SetLfo
    <2>2. Table' = Apply(Table, SetLfoCmd(v))
      BY <1>9 DEF SetLfo, Table, Apply, SetLfoCmd
    <2> QED
      BY <1>4, <2>1, <2>2
  <1>10. ASSUME NEW x \in Patches, LoadPreset(x) \/ RestoreState(x)
         PROVE  Delivers(e, q \o todo', Table', Fields)
    <2>1. x.machine \in Machines /\ x.syn \in SynValues /\ x.page \in Values /\ x.lfo \in Values
      BY TableAssumption DEF SynValues
    <2>2. /\ machine' = x.machine /\ syn' = x.syn /\ page' = x.page /\ lfo' = x.lfo
          /\ todo' = ReplayCmds(x.machine, x.syn, x.page, x.lfo)
      BY <1>10 DEF LoadPreset, RestoreState, LoadSound
    <2> QED
      BY <2>1, <2>2, ReplayDelivers DEF Table
  <1> QED
    BY <1>5, <1>6, <1>7, <1>8, <1>9, <1>10 DEF Edit

-----------------------------------------------------------------------------
(* The ring and the entry point's commands, as one sequence.               *)

Rest(r, n) == SubSeq(r, n + 1, Len(r))
Coming == Rest(ring, taken) \o todo

LEMMA RestProperties ==
    ASSUME NEW r \in Seq(Command), NEW n \in Nat, n <= Len(r)
    PROVE  /\ Rest(r, n) \in Seq(Command) /\ Len(Rest(r, n)) = Len(r) - n
           /\ \A i \in 1 .. Len(r) - n : Rest(r, n)[i] = r[n + i]
           /\ Rest(Rest(r, n), 0) = Rest(r, n)
  <1>1. Len(r) \in Nat /\ \A i \in n + 1 .. Len(r) : r[i] \in Command
    BY LenProperties, ElementOfSeq
  <1>2. /\ Rest(r, n) \in Seq(Command)
        /\ Len(Rest(r, n)) = IF n + 1 <= Len(r) THEN Len(r) - (n + 1) + 1 ELSE 0
        /\ \A i \in 1 .. Len(r) - (n + 1) + 1 : Rest(r, n)[i] = r[(n + 1) + i - 1]
    BY <1>1, SubSeqProperties DEF Rest
  <1>3. SubSeq(Rest(r, n), 1, Len(Rest(r, n))) = Rest(r, n)
    BY <1>2, SubSeqFull
  <1>4. Rest(Rest(r, n), 0) = Rest(r, n)
    BY <1>3 DEF Rest
  <1>5. Len(Rest(r, n)) = Len(r) - n
    BY <1>1, <1>2
  <1>6. ASSUME NEW i \in 1 .. Len(r) - n PROVE Rest(r, n)[i] = r[n + i]
    <2>1. i \in 1 .. Len(r) - (n + 1) + 1 /\ (n + 1) + i - 1 = n + i
      BY <1>1
    <2> QED
      BY <1>2, <2>1
  <1> QED
    BY <1>2, <1>4, <1>5, <1>6

LEMMA RestAppend ==
    ASSUME NEW r \in Seq(Command), NEW n \in Nat, n <= Len(r), NEW c \in Command
    PROVE  Rest(Append(r, c), n) = Append(Rest(r, n), c)
  <1> DEFINE a == Append(r, c)
             s == Rest(a, n)
             t == Append(Rest(r, n), c)
  <1>1. Len(r) \in Nat
    BY LenProperties
  <1>2. a \in Seq(Command) /\ Len(a) = Len(r) + 1 /\ a[Len(r) + 1] = c /\ \A i \in 1 .. Len(r) : a[i] = r[i]
    BY AppendProperties
  <1>3. n <= Len(a)
    BY <1>1, <1>2
  <1> HIDE DEF a
  <1>4. /\ s \in Seq(Command) /\ Len(s) = (Len(r) + 1) - n
        /\ \A i \in 1 .. (Len(r) + 1) - n : s[i] = a[n + i]
    BY <1>2, <1>3, RestProperties
  <1>5. /\ Rest(r, n) \in Seq(Command) /\ Len(Rest(r, n)) = Len(r) - n
        /\ \A i \in 1 .. Len(r) - n : Rest(r, n)[i] = r[n + i]
    BY RestProperties
  <1>6. /\ t \in Seq(Command) /\ Len(t) = (Len(r) - n) + 1 /\ t[(Len(r) - n) + 1] = c
        /\ \A i \in 1 .. Len(r) - n : t[i] = Rest(r, n)[i]
    BY <1>5, AppendProperties
  <1> HIDE DEF s, t
  <1>7. Len(s) = Len(t)
    BY <1>1, <1>4, <1>6
  <1>8. ASSUME NEW i \in 1 .. Len(s) PROVE s[i] = t[i]
    <2>1. CASE i = (Len(r) - n) + 1
      <3>1. n + i = Len(r) + 1 /\ i \in 1 .. (Len(r) + 1) - n
        BY <1>1, <1>4, <2>1
      <3> QED
        BY <1>2, <1>4, <1>6, <2>1, <3>1
    <2>2. CASE i # (Len(r) - n) + 1
      <3>1. i \in 1 .. Len(r) - n /\ i \in 1 .. (Len(r) + 1) - n /\ n + i \in 1 .. Len(r)
        <4>1. i \in 1 .. (Len(r) + 1) - n
          BY ONLY <1>4, i \in 1 .. Len(s)
        <4> QED
          BY ONLY <1>1, <2>2, <4>1, n \in Nat
      <3> QED
        BY <1>2, <1>4, <1>5, <1>6, <3>1
    <2> QED
      BY <2>1, <2>2
  <1>9. s = t
    BY <1>4, <1>6, <1>7, <1>8, SeqEqual
  <1> QED
    BY <1>9 DEF s, t, a

\* A command pushed into the ring is coming as it was.
LEMMA PushedComes ==
    ASSUME NEW q \in Seq(Command), NEW s \in Seq(Command), s # <<>>
    PROVE  Append(q, Head(s)) \o Tail(s) = q \o s
  <1>1. Head(s) \in Command /\ Tail(s) \in Seq(Command) /\ <<Head(s)>> \in Seq(Command)
    BY HeadTailProperties
  <1>2. Append(q, Head(s)) = q \o <<Head(s)>>
    BY <1>1, AppendIsConcat
  <1>3. <<Head(s)>> \o Tail(s) = s
    <2>1. 1 \in 1 .. Len(s) /\ Len(s) \in 1 .. Len(s) /\ SubSeq(s, 1, Len(s)) = s
      BY EmptySeq, SubSeqFull
    <2>2. SubSeq(s, 1, Len(s)) = <<s[1]>> \o SubSeq(s, 2, Len(s))
      BY <2>1, SubSeqRecursiveFirst
    <2>3. Tail(s) = SubSeq(s, 2, Len(s)) /\ Head(s) = s[1]
      BY TailIsSubSeq
    <2> QED
      BY <2>1, <2>2, <2>3
  <1> QED
    BY <1>1, <1>2, <1>3, ConcatAssociative

\* A command applied is the first that was coming.
LEMMA AppliedWasFirst ==
    ASSUME NEW r \in Seq(Command), NEW s \in Seq(Command), NEW n \in Nat, n < Len(r)
    PROVE  LET q == Rest(r, n) \o s
               p == Rest(r, n + 1) \o s
           IN  /\ q \in Seq(Command) /\ p \in Seq(Command) /\ Len(q) = Len(p) + 1 /\ q[1] = r[n + 1]
               /\ \A i \in 1 .. Len(p) : p[i] = q[i + 1]
  <1> DEFINE a == Rest(r, n)
             b == Rest(r, n + 1)
             q == a \o s
             p == b \o s
  <1>1. Len(r) \in Nat /\ Len(s) \in Nat /\ n + 1 \in Nat /\ n + 1 <= Len(r) /\ n <= Len(r)
    BY LenProperties
  <1>2. /\ a \in Seq(Command) /\ Len(a) = Len(r) - n /\ \A i \in 1 .. Len(r) - n : a[i] = r[n + i]
    BY <1>1, RestProperties
  <1>3. /\ b \in Seq(Command) /\ Len(b) = Len(r) - (n + 1)
        /\ \A i \in 1 .. Len(r) - (n + 1) : b[i] = r[(n + 1) + i]
    BY <1>1, RestProperties
  <1> HIDE DEF a, b
  <1>4. /\ q \in Seq(Command) /\ Len(q) = Len(a) + Len(s)
        /\ \A i \in 1 .. Len(a) + Len(s) : q[i] = IF i <= Len(a) THEN a[i] ELSE s[i - Len(a)]
    BY <1>2, ConcatProperties
  <1>5. /\ p \in Seq(Command) /\ Len(p) = Len(b) + Len(s)
        /\ \A i \in 1 .. Len(b) + Len(s) : p[i] = IF i <= Len(b) THEN b[i] ELSE s[i - Len(b)]
    BY <1>3, ConcatProperties
  <1> HIDE DEF q, p
  <1>6. Len(a) = Len(b) + 1 /\ Len(b) \in Nat
    BY <1>1, <1>2, <1>3
  <1>7. Len(q) = Len(p) + 1
    BY <1>1, <1>4, <1>5, <1>6
  <1>8. q[1] = r[n + 1]
    <2>1. 1 \in 1 .. Len(a) + Len(s) /\ 1 <= Len(a) /\ 1 \in 1 .. Len(r) - n
      BY <1>1, <1>2, <1>6
    <2> QED
      BY <1>2, <1>4, <2>1
  <1>9. ASSUME NEW i \in 1 .. Len(p) PROVE p[i] = q[i + 1]
    <2>1. i \in 1 .. Len(b) + Len(s) /\ i + 1 \in 1 .. Len(a) + Len(s)
      BY <1>1, <1>5, <1>6
    <2>2. CASE i <= Len(b)
      <3>1. i + 1 <= Len(a) /\ i \in 1 .. Len(r) - (n + 1) /\ i + 1 \in 1 .. Len(r) - n
        BY <1>1, <1>2, <1>3, <1>6, <2>1, <2>2
      <3>2. p[i] = r[(n + 1) + i] /\ q[i + 1] = r[n + (i + 1)]
        BY <1>2, <1>3, <1>4, <1>5, <2>1, <2>2, <3>1
      <3>3. (n + 1) + i = n + (i + 1)
        OBVIOUS
      <3> QED
        BY <3>2, <3>3
    <2>3. CASE ~(i <= Len(b))
      <3>1. ~(i + 1 <= Len(a)) /\ (i + 1) - Len(a) = i - Len(b)
        BY <1>1, <1>6, <2>1, <2>3
      <3> QED
        BY <1>4, <1>5, <2>1, <2>3, <3>1
    <2> QED
      BY <2>2, <2>3
  <1> QED
    BY <1>4, <1>5, <1>7, <1>8, <1>9 DEF q, p, a, b

-----------------------------------------------------------------------------
(* The threads' order: what the generations and the phase tell of them.    *)

SyncTypeOK ==
    /\ TypeOK /\ ring \in Seq(Command) /\ eng \in EngTypes
    /\ segGen \in Nat /\ replayedGen \in Nat /\ tickGen \in Nat
    /\ taken \in Nat /\ upto \in Nat /\ snap \in Nat

Order ==
    /\ replayedGen <= segGen /\ tickGen <= segGen
    /\ tickGen # NoGen => todo = <<>>
    /\ sup \in {"bump", "watch"} => seg
    /\ sup \in {"store", "spawn"} => phase = "Spawning"
    /\ sup \in {"reset", "store", "spawn"} => child = "off"
    /\ sup \in {"publish", "bump", "watch", "kill"} /\ child = "boot" => phase = "Spawning"
    /\ sup = "watch" /\ child = "boot" => replayedGen < segGen
    /\ taken <= upto /\ upto <= Len(ring)
    /\ child # "drain" => taken = 0 /\ upto = 0

\* A child that this generation's replay was sent to.
Listening == sup = "watch" /\ replayedGen = segGen /\ child \in {"ready", "drain"}

SyncInv ==
    /\ SyncTypeOK /\ Order
    /\ Listening /\ ~lost => Delivers(eng, Coming, Table, Fields)

LEMMA FreshType == Fresh \in EngTypes
  BY TableAssumption DEF Fresh, EngTypes, SynValues

LEMMA SyncInitInv == SyncInit => SyncInv
  <1> SUFFICES ASSUME SyncInit PROVE SyncInv
    OBVIOUS
  <1>1. TypeOK
    BY InitTypeOK DEF SyncInit
  <1>2. SyncTypeOK
    BY <1>1, FreshType, EmptySeq DEF SyncInit, SyncTypeOK, NoGen
  <1>3. Order
    <2>1. ring = <<>> /\ Len(ring) = 0
      BY EmptySeq DEF SyncInit
    <2> QED
      BY <2>1 DEF SyncInit, Order, NoGen
  <1>4. ~Listening
    BY DEF SyncInit, Listening
  <1> QED
    BY <1>2, <1>3, <1>4 DEF SyncInv

LEMMA SyncNextType == SyncTypeOK /\ Order /\ [SyncNext]_syncVars => SyncTypeOK'
  <1> SUFFICES ASSUME SyncTypeOK, Order, [SyncNext]_syncVars PROVE SyncTypeOK'
    OBVIOUS
  <1>1. UNCHANGED vars => TypeOK'
    BY NextTypeOK DEF SyncTypeOK
  <1>2. CASE EditTable
    <2>1. TypeOK'
      BY <1>2, NextTypeOK DEF SyncTypeOK, EditTable, Next
    <2> QED
      BY <1>2, <2>1 DEF SyncTypeOK, EditTable, childVars, supVars
  <1>3. CASE Push
    <2>1. Head(todo) \in Command /\ todo' \in Seq(Command)
      BY <1>3, HeadTailProperties DEF SyncTypeOK, TypeOK, Push
    <2>2. TypeOK'
      BY <1>3, <2>1 DEF SyncTypeOK, TypeOK, Push, tableVars
    <2>3. ring' \in Seq(Command)
      <3>1. ring' = ring \/ ring' = Append(ring, Head(todo))
        BY <1>3 DEF Push
      <3>2. ring \in Seq(Command)
        BY DEF SyncTypeOK
      <3> QED
        BY ONLY <2>1, <3>1, <3>2, AppendProperties
    <2> QED
      BY <1>3, <2>2, <2>3 DEF SyncTypeOK, Push, childVars, supVars
  <1>4. CASE TickGen
    BY <1>1, <1>4 DEF SyncTypeOK, TickGen, childVars, supVars
  <1>5. CASE TickPhase
    <2>1. todo' \in Seq(Command)
      BY <1>5, ReplayType DEF SyncTypeOK, TypeOK, TickPhase, Replay
    <2>2. TypeOK'
      BY <1>5, <2>1 DEF SyncTypeOK, TypeOK, TickPhase, tableVars
    <2> QED
      <3>1. replayedGen' \in Nat /\ tickGen' \in Nat
        BY <1>5 DEF SyncTypeOK, TickPhase, NoGen
      <3> QED
        BY <1>5, <2>2, <3>1 DEF SyncTypeOK, TickPhase, childVars, supVars
  <1>6. CASE Boot
    BY <1>1, <1>6, FreshType DEF SyncTypeOK, Boot, cbVars, supVars
  <1>7. CASE DrainBegin
    BY <1>1, <1>7, LenProperties DEF SyncTypeOK, DrainBegin, cbVars, supVars
  <1>8. CASE ApplyNext
    <2>1. ring[taken + 1] \in Command
      BY <1>8, LenProperties, ElementOfSeq DEF ApplyNext, SyncTypeOK, Order
    <2>2. eng' \in EngTypes
      BY <1>8, <2>1, ApplyType DEF ApplyNext, SyncTypeOK
    <2> QED
      BY <1>1, <1>8, <2>2 DEF SyncTypeOK, ApplyNext, cbVars, supVars
  <1>9. CASE DrainEnd
    <2>1. taken <= Len(ring)
      BY <1>9, LenProperties DEF DrainEnd, SyncTypeOK, Order
    <2>2. ring' \in Seq(Command)
      BY <1>9, <2>1, RestProperties DEF DrainEnd, SyncTypeOK, Rest
    <2> QED
      BY <1>1, <1>9, <2>2 DEF SyncTypeOK, DrainEnd, cbVars, supVars
  <1>10. CASE ChildDies
    BY <1>1, <1>10 DEF SyncTypeOK, ChildDies, cbVars, supVars
  <1>11. CASE Timeout
    BY <1>1, <1>11 DEF SyncTypeOK, Timeout, cbVars, childVars
  <1>12. CASE Reap
    BY <1>1, <1>12 DEF SyncTypeOK, Reap, cbVars, childVars
  <1>13. CASE Kill
    BY <1>1, <1>13 DEF SyncTypeOK, Kill, cbVars
  <1>14. CASE ResetLoad
    BY <1>1, <1>14, LenProperties DEF SyncTypeOK, ResetLoad, cbVars, childVars
  <1>15. CASE ResetStore
    <2>1. \A i \in snap + 1 .. Len(ring) : ring[i] \in Command
      BY LenProperties, ElementOfSeq DEF SyncTypeOK
    <2>2. SubSeq(ring, snap + 1, Len(ring)) \in Seq(Command)
      BY <2>1, LenProperties, SubSeqProperties DEF SyncTypeOK
    <2> QED
      BY <1>1, <1>15, <2>2 DEF SyncTypeOK, ResetStore, cbVars, childVars
  <1>16. CASE Spawn
    BY <1>1, <1>16 DEF SyncTypeOK, Spawn, cbVars
  <1>17. CASE Publish
    BY <1>1, <1>17 DEF SyncTypeOK, Publish, cbVars, childVars
  <1>18. CASE Bump
    BY <1>1, <1>18 DEF SyncTypeOK, Bump, cbVars, childVars
  <1>19. CASE UNCHANGED syncVars
    BY <1>1, <1>19 DEF SyncTypeOK, syncVars, cbVars, childVars, supVars
  <1> QED
    BY <1>2, <1>3, <1>4, <1>5, <1>6, <1>7, <1>8, <1>9, <1>10, <1>11, <1>12, <1>13, <1>14, <1>15, <1>16, <1>17,
       <1>18, <1>19 DEF SyncNext, Callback, Child, Supervisor

LEMMA SyncNextOrder == SyncTypeOK /\ Order /\ [SyncNext]_syncVars => Order'
  <1> SUFFICES ASSUME SyncTypeOK, Order, [SyncNext]_syncVars PROVE Order'
    OBVIOUS
  <1>0. /\ segGen \in Nat /\ replayedGen \in Nat /\ tickGen \in Nat /\ taken \in Nat /\ upto \in Nat
        /\ Len(ring) \in Nat
    BY LenProperties DEF SyncTypeOK
  <1>1. CASE EditTable
    BY <1>0, <1>1 DEF Order, EditTable, childVars, supVars
  <1>2. CASE Push
    <2>1. Len(ring') \in Nat /\ Len(ring) <= Len(ring')
      <3>1. Head(todo) \in Command
        BY <1>2, HeadTailProperties DEF SyncTypeOK, TypeOK, Push
      <3>2. CASE ring' = Append(ring, Head(todo))
        BY <1>0, <3>1, <3>2, AppendProperties DEF SyncTypeOK
      <3>3. CASE ring' = ring
        BY <1>0, <3>3
      <3> QED
        BY <1>2, <3>2, <3>3 DEF Push
    <2>2. tickGen = NoGen
      BY <1>2 DEF Push, Order
    <2> QED
      BY <1>0, <1>2, <2>1, <2>2 DEF Order, Push, childVars, supVars
  <1>3. CASE TickGen
    BY <1>0, <1>3 DEF Order, TickGen, vars, childVars, supVars
  <1>4. CASE TickPhase
    <2>1. replayedGen' <= segGen /\ tickGen' <= segGen
      BY <1>0, <1>4 DEF Order, TickPhase, NoGen
    <2>2. tickGen' = NoGen /\ (phase # "Ready" => replayedGen' = replayedGen)
      BY <1>4 DEF TickPhase
    <2>3. UNCHANGED <<ring, phase, childVars, supVars>>
      BY <1>4 DEF TickPhase
    <2> QED
      BY <1>0, <2>1, <2>2, <2>3 DEF Order, childVars, supVars
  <1>5. CASE Boot
    BY <1>0, <1>5 DEF Order, Boot, vars, cbVars, supVars
  <1>6. CASE DrainBegin
    BY <1>0, <1>6 DEF Order, DrainBegin, vars, cbVars, supVars
  <1>7. CASE ApplyNext
    BY <1>0, <1>7 DEF Order, ApplyNext, vars, cbVars, supVars
  <1>8. CASE DrainEnd
    <2>1. Len(ring') \in Nat
      BY <1>8, SyncNextType, LenProperties DEF SyncTypeOK
    <2> QED
      BY <1>0, <1>8, <2>1 DEF Order, DrainEnd, vars, cbVars, supVars
  <1>9. CASE ChildDies
    BY <1>0, <1>9 DEF Order, ChildDies, vars, cbVars, supVars
  <1>10. CASE Timeout
    BY <1>0, <1>10 DEF Order, Timeout, vars, cbVars, childVars
  <1>11. CASE Reap
    BY <1>0, <1>11 DEF Order, Reap, vars, cbVars, childVars
  <1>12. CASE Kill
    BY <1>0, <1>12 DEF Order, Kill, vars, cbVars
  <1>13. CASE ResetLoad
    BY <1>0, <1>13 DEF Order, ResetLoad, vars, cbVars, childVars
  <1>14. CASE ResetStore
    <2>1. Len(ring') \in Nat
      BY <1>14, SyncNextType, LenProperties DEF SyncTypeOK
    <2>2. child # "drain"
      BY <1>14 DEF Order, ResetStore
    <2>3. taken' = 0 /\ upto' = 0 /\ sup' = "spawn" /\ phase' = "Spawning" /\ child' = "off"
      BY <1>14, <2>2 DEF Order, ResetStore, childVars
    <2>4. UNCHANGED <<todo, replayedGen, tickGen, segGen>>
      BY <1>14 DEF ResetStore, vars, cbVars
    <2> QED
      BY <1>0, <2>1, <2>3, <2>4 DEF Order
  <1>15. CASE Spawn
    BY <1>0, <1>15 DEF Order, Spawn, vars, cbVars
  <1>16. CASE Publish
    BY <1>0, <1>16 DEF Order, Publish, vars, cbVars, childVars
  <1>17. CASE Bump
    BY <1>0, <1>17 DEF Order, Bump, vars, cbVars, childVars
  <1>18. CASE UNCHANGED syncVars
    BY <1>0, <1>18 DEF Order, syncVars, vars, cbVars, childVars, supVars
  <1> QED
    BY <1>1, <1>2, <1>3, <1>4, <1>5, <1>6, <1>7, <1>8, <1>9, <1>10, <1>11, <1>12, <1>13, <1>14, <1>15, <1>16, <1>17,
       <1>18 DEF SyncNext, Callback, Child, Supervisor

-----------------------------------------------------------------------------
LEMMA SyncNextDelivers ==
    ASSUME SyncInv, [SyncNext]_syncVars, Listening', ~lost'
    PROVE  Delivers(eng', Coming', Table', Fields)
  <1>1. SyncTypeOK /\ Order /\ SyncTypeOK' /\ Order'
    BY SyncNextType, SyncNextOrder DEF SyncInv
  <1>2. /\ TypeOK /\ eng \in EngTypes /\ todo \in Seq(Command) /\ ring \in Seq(Command)
        /\ taken \in Nat /\ upto \in Nat /\ taken <= upto /\ upto <= Len(ring) /\ Len(ring) \in Nat
    BY <1>1, LenProperties DEF SyncTypeOK, Order, TypeOK
  <1>3. taken <= Len(ring)
    BY <1>2
  <1>4. Rest(ring, taken) \in Seq(Command) /\ Table \in EngTypes
    BY <1>2, <1>3, RestProperties, TableType
  <1>5. ASSUME Coming' = Coming, Table' = Table, eng' = eng, Listening, ~lost
        PROVE  Delivers(eng', Coming', Table', Fields)
    BY <1>5 DEF SyncInv
  <1>6. UNCHANGED vars => Table' = Table /\ todo' = todo
    BY DEF vars, tableVars, Table
  <1>7. CASE EditTable
    <2>1. todo = <<>> /\ Edit /\ UNCHANGED <<ring, taken, eng, lost, replayedGen, segGen, sup, child>>
      <3>1. todo = <<>>
        BY <1>7 DEF EditTable, Edit, SetSyn, GetSyn, SwitchMachine, SetPage, SetLfo, LoadPreset, RestoreState, LoadSound
      <3> QED
        BY <1>7, <3>1 DEF EditTable, childVars, supVars
    <2>2. Listening /\ ~lost
      BY <2>1 DEF Listening
    <2>3. Coming = Rest(ring, taken)
      BY <1>4, <2>1, ConcatEmptySeq DEF Coming
    <2>4. Delivers(eng, Rest(ring, taken), Table, Fields)
      BY <2>2, <2>3 DEF SyncInv
    <2>5. Coming' = Rest(ring, taken) \o todo'
      BY <2>1 DEF Coming
    <2>6. Delivers(eng, Rest(ring, taken) \o todo', Table', Fields)
      BY <1>2, <1>4, <2>1, <2>4, EditDelivers
    <2> QED
      BY <2>1, <2>5, <2>6
  <1>8. CASE Push
    <2>1. todo # <<>> /\ todo' = Tail(todo) /\ UNCHANGED <<tableVars, taken, eng, replayedGen, segGen, sup, child, seg>>
      BY <1>8 DEF Push, childVars, supVars
    <2>2. Listening /\ seg
      BY <1>1, <2>1 DEF Listening, Order
    <2>3. ring' = Append(ring, Head(todo)) /\ ~lost
      BY <1>8, <2>2 DEF Push
    <2>4. Head(todo) \in Command
      BY <1>2, <2>1, HeadTailProperties
    <2>5. Rest(ring', taken) = Append(Rest(ring, taken), Head(todo))
      BY <1>2, <1>3, <2>3, <2>4, RestAppend
    <2>6. Append(Rest(ring, taken), Head(todo)) \o Tail(todo) = Rest(ring, taken) \o todo
      BY <1>2, <1>4, <2>1, PushedComes
    <2>7. Coming' = Rest(ring', taken) \o Tail(todo)
      BY <2>1 DEF Coming
    <2>8. Coming' = Coming
      BY <2>5, <2>6, <2>7 DEF Coming
    <2>9. Table' = Table
      BY <2>1 DEF Table, tableVars
    <2> QED
      BY <1>5, <2>1, <2>2, <2>3, <2>8, <2>9
  <1>9. CASE TickGen
    <2>1. UNCHANGED <<vars, ring, taken, eng, lost, replayedGen, segGen, sup, child>>
      BY <1>9 DEF TickGen, childVars, supVars
    <2> QED
      BY <1>5, <1>6, <2>1 DEF Coming, Listening
  <1>10. CASE TickPhase
    <2>1. UNCHANGED <<tableVars, ring, taken, eng, segGen, sup, child>>
      BY <1>10 DEF TickPhase, childVars, supVars
    <2>2. Table' = Table
      BY <2>1 DEF Table, tableVars
    <2>3. CASE phase = "Ready"
      <3>1. todo' = ReplayCmds(machine, syn, page, lfo)
        BY <1>10, <2>3 DEF TickPhase, Replay
      <3>2. Coming' = Rest(ring, taken) \o ReplayCmds(machine, syn, page, lfo)
        BY <2>1, <3>1 DEF Coming
      <3>3. Delivers(eng, Rest(ring, taken) \o ReplayCmds(machine, syn, page, lfo), Table, Fields)
        BY <1>2, <1>4, ReplayDelivers DEF TypeOK, Table
      <3> QED
        BY <2>1, <2>2, <3>2, <3>3
    <2>4. CASE phase # "Ready"
      <3>1. UNCHANGED <<todo, lost, replayedGen>>
        BY <1>10, <2>4 DEF TickPhase
      <3> QED
        BY <1>5, <2>1, <2>2, <3>1 DEF Coming, Listening
    <2> QED
      BY <2>3, <2>4
  <1>11. CASE Boot
    <2>1. sup = "watch" /\ child = "boot" /\ replayedGen = segGen
      BY <1>11 DEF Boot, Listening, cbVars, supVars
    <2>2. replayedGen < segGen
      BY <1>1, <2>1 DEF Order
    <2> QED
      BY <1>1, <2>1, <2>2 DEF SyncTypeOK
  <1>12. CASE DrainBegin
    <2>1. taken = 0 /\ taken' = 0 /\ UNCHANGED <<vars, ring, eng, lost, replayedGen, segGen, sup>> /\ child = "ready"
      BY <1>1, <1>12 DEF DrainBegin, Order, cbVars, supVars
    <2> QED
      BY <1>5, <1>6, <2>1 DEF Coming, Listening
  <1>13. CASE ApplyNext
    <2>1. /\ taken < upto /\ eng' = Apply(eng, ring[taken + 1]) /\ taken' = taken + 1
          /\ UNCHANGED <<vars, ring, lost, replayedGen, segGen, sup, child>>
      BY <1>13 DEF ApplyNext, cbVars, supVars
    <2>2. taken < Len(ring)
      BY <1>2, <2>1
    <2>3. Delivers(eng, Coming, Table, Fields)
      BY <2>1 DEF SyncInv, Listening
    <2> DEFINE q == Rest(ring, taken) \o todo
               p == Rest(ring, taken + 1) \o todo
    <2>4. /\ q \in Seq(Command) /\ p \in Seq(Command) /\ Len(q) = Len(p) + 1 /\ q[1] = ring[taken + 1]
          /\ \A i \in 1 .. Len(p) : p[i] = q[i + 1]
      BY <1>2, <2>2, AppliedWasFirst
    <2>5. Coming = q /\ Coming' = p
      BY <2>1 DEF Coming, vars
    <2> HIDE DEF q, p
    <2>6. Delivers(Apply(eng, q[1]), p, Table, Fields)
      BY <1>2, <1>4, <2>3, <2>4, <2>5, DeliversTail
    <2> QED
      BY <1>6, <2>1, <2>4, <2>5, <2>6
  <1>14. CASE DrainEnd
    <2>1. /\ child = "drain" /\ ring' = Rest(ring, taken) /\ taken' = 0
          /\ UNCHANGED <<vars, eng, lost, replayedGen, segGen, sup>>
      BY <1>14 DEF DrainEnd, Rest, cbVars, supVars
    <2>2. Rest(ring', 0) = Rest(ring, taken)
      BY <1>2, <1>3, <2>1, RestProperties
    <2>3. Coming' = Coming
      BY <1>6, <2>1, <2>2 DEF Coming
    <2> QED
      BY <1>5, <1>6, <2>1, <2>3 DEF Listening
  <1>15. CASE ChildDies \/ Kill
    BY <1>15 DEF ChildDies, Kill, Listening
  <1>16. CASE Timeout \/ Reap \/ ResetLoad \/ ResetStore \/ Spawn \/ Publish
    BY <1>16 DEF Timeout, Reap, ResetLoad, ResetStore, Spawn, Publish, Listening
  <1>17. CASE Bump
    <2>1. replayedGen <= segGen /\ replayedGen \in Nat /\ segGen \in Nat
      BY <1>1 DEF Order, SyncTypeOK
    <2>2. replayedGen' = replayedGen /\ segGen' = segGen + 1
      BY <1>17 DEF Bump, cbVars
    <2>3. replayedGen' = segGen'
      BY DEF Listening
    <2>4. FALSE
      BY ONLY <2>1, <2>2, <2>3
    <2> QED
      BY ONLY <2>4
  <1>18. CASE UNCHANGED syncVars
    <2>1. UNCHANGED <<vars, ring, taken, eng, lost, replayedGen, segGen, sup, child>>
      BY <1>18 DEF syncVars, cbVars, childVars, supVars
    <2> QED
      BY <1>5, <1>6, <2>1 DEF Coming, Listening
  <1> QED
    BY <1>7, <1>8, <1>9, <1>10, <1>11, <1>12, <1>13, <1>14, <1>15, <1>16, <1>17, <1>18
       DEF SyncNext, Callback, Child, Supervisor

\* "A respawned engine is replayed from it": once nothing is on its way, the engine holds the table,
\* unless the ring overflowed since the last replay began.
THEOREM EngineHoldsTable == SyncSpec => []SyncedUnlessLost
  <1>1. SyncInv /\ [SyncNext]_syncVars => SyncInv'
    BY SyncNextType, SyncNextOrder, SyncNextDelivers DEF SyncInv
  <1>2. ASSUME SyncInv, Settled, ~lost PROVE Synced
    <2>1. Listening /\ todo = <<>> /\ ring = <<>> /\ taken = 0
      BY <1>2 DEF Settled, Listening, SyncInv, Order
    <2>2. Len(Coming) = 0
      <3>1. ring \in Seq(Command) /\ Len(ring) = 0
        BY <2>1, EmptySeq
      <3>2. Rest(ring, taken) = <<>>
        BY <2>1, <3>1, SubSeqEmpty DEF Rest
      <3> QED
        BY <2>1, <3>1, <3>2, ConcatEmptySeq DEF Coming
    <2>3. 1 .. Len(Coming) = {}
      BY <2>2
    <2>4. \A f \in Fields : eng[f] = Table[f]
      BY <1>2, <2>1, <2>3 DEF SyncInv, Delivers, NoneSets
    <2>5. eng \in EngTypes /\ Table \in EngTypes
      BY <1>2, TableType DEF SyncInv, SyncTypeOK
    <2> QED
      BY <2>4, <2>5 DEF Synced, Fields, EngTypes
  <1>3. SyncInv => SyncedUnlessLost
    BY <1>2 DEF SyncedUnlessLost
  <1> QED
    BY SyncInitInv, <1>1, <1>3, PTL DEF SyncSpec

-----------------------------------------------------------------------------
(* The pages the host shows.                                               *)

Left(s) == IF s < Hold THEN Hold - s ELSE 0

PagesTypeOK ==
    /\ TypeOK
    /\ settled \in 0 .. Quiet /\ waited \in 0 .. Poll /\ polled \in BOOLEAN
    /\ reading \in {"no", "hierarchy", "params"}
    /\ shown \in [hierarchy: [machine: Machines, lfo: Values], params: Machines]

\* The pulse is the time since it was armed, and the host's clocks lag it by no more than a poll.
Timers ==
    /\ loading = Left(settled)
    /\ polled => settled < Hold + waited
    /\ reading # "no" => ~polled /\ waited = 0 /\ settled < Hold + Poll

\* The host has seen the pulse, has not asked since the change, or is about to read what changed.
Due ==
    \/ polled
    \/ settled <= waited
    \/ reading = "hierarchy"
    \/ reading = "params" /\ shown.hierarchy = Hierarchy

PagesInv == PagesTypeOK /\ Timers /\ (shown = Served \/ Due)

LEMMA ServedType == TypeOK => Served \in [hierarchy: [machine: Machines, lfo: Values], params: Machines]
  BY TableAssumption DEF TypeOK, Served, Hierarchy, ChainParams

LEMMA QuietNat == /\ Hold \in Nat /\ Poll \in Nat /\ Poll > 0 /\ Poll < Hold /\ Quiet \in Nat
                  /\ Quiet = (Hold + Poll) + 1
  BY PagesAssumption DEF Quiet

\* What is served depends on the machine and, in compat, on the LFOs.
LEMMA ServedSame ==
    ASSUME machine' = machine, lfo' = lfo \/ ~Compat
    PROVE  Served' = Served /\ Hierarchy' = Hierarchy
  BY DEF Served, Hierarchy, ChainParams

LEMMA PagesInitInv == PagesInit => PagesInv
  <1> SUFFICES ASSUME PagesInit PROVE PagesInv
    OBVIOUS
  <1>1. TypeOK
    BY InitTypeOK DEF PagesInit
  <1>2. PagesTypeOK
    <2>1. settled \in 0 .. Quiet /\ waited \in 0 .. Poll
      BY QuietNat DEF PagesInit
    <2>2. shown = Served /\ reading = "no" /\ polled \in BOOLEAN
      BY DEF PagesInit
    <2>3. shown \in [hierarchy: [machine: Machines, lfo: Values], params: Machines]
      BY <1>1, <2>2, ServedType
    <2> QED
      BY <1>1, <2>1, <2>2, <2>3 DEF PagesTypeOK
  <1>3. Timers
    BY QuietNat DEF PagesInit, Timers, Left
  <1> QED
    BY <1>2, <1>3 DEF PagesInit, PagesInv

\* A change: either the pulse is armed, or nothing that is served changes.
LEMMA ChangesInv ==
    ASSUME PagesInv, TypeOK', Changes,
           \/ loading' = Hold
           \/ loading' = loading /\ Served' = Served /\ Hierarchy' = Hierarchy
    PROVE  PagesInv'
  <1>1. UNCHANGED <<polled, waited, reading, shown>>
    BY DEF Changes, hostVars
  <1>2. settled \in 0 .. Quiet /\ waited \in 0 .. Poll /\ loading = Left(settled)
    BY DEF PagesInv, PagesTypeOK, Timers
  <1>3. CASE settled' = 0
    <2>1. loading' = Hold
      <3>1. CASE loading' = loading /\ Served' = Served
        <4>1. ~(loading' > loading)
          BY <1>2, <3>1, QuietNat DEF Left
        <4>2. settled = 0
          BY <1>3, <3>1, <4>1 DEF Changes
        <4> QED
          BY <1>2, <3>1, <4>2, QuietNat DEF Left
      <3> QED
        BY <3>1
    <2>2. Left(0) = Hold
      BY QuietNat DEF Left
    <2>3. PagesTypeOK'
      BY <1>1, <1>3, QuietNat DEF PagesInv, PagesTypeOK
    <2>4. Timers'
      BY <1>1, <1>2, <1>3, <2>1, <2>2, QuietNat DEF PagesInv, Timers
    <2>5. settled' <= waited'
      BY <1>1, <1>2, <1>3
    <2> QED
      BY <2>3, <2>4, <2>5 DEF PagesInv, Due
  <1>4. CASE settled' # 0
    <2>1. settled' = settled /\ Served' = Served /\ ~(loading' > loading)
      BY <1>4 DEF Changes
    <2>2. loading' = loading
      BY <1>2, <2>1, QuietNat DEF Left
    <2>3. Hierarchy' = Hierarchy
      BY <2>1 DEF Served
    <2>4. PagesTypeOK'
      BY <1>1, <2>1 DEF PagesInv, PagesTypeOK
    <2>5. Timers'
      BY <1>1, <2>1, <2>2 DEF PagesInv, Timers
    <2> QED
      BY <1>1, <2>1, <2>3, <2>4, <2>5 DEF PagesInv, Due
  <1> QED
    BY <1>3, <1>4

LEMMA PagesNextInv == PagesInv /\ [PagesNext]_pageVars => PagesInv'
  <1> SUFFICES ASSUME PagesInv, [PagesNext]_pageVars PROVE PagesInv'
    OBVIOUS
  <1>1. /\ TypeOK /\ settled \in 0 .. Quiet /\ waited \in 0 .. Poll /\ polled \in BOOLEAN
        /\ loading = Left(settled)
    BY DEF PagesInv, PagesTypeOK, Timers
  <1>2. UNCHANGED vars => TypeOK' /\ Served' = Served /\ Hierarchy' = Hierarchy
    BY <1>1, NextTypeOK, ServedSame DEF vars, tableVars
  <1>3. Next => TypeOK'
    BY <1>1, NextTypeOK
  <1>4. CASE PickMachine
    <2>1. Next /\ loading' = Hold /\ Changes
      BY <1>4 DEF PickMachine, Next, Edit, ArmReplan
    <2> QED
      BY <1>3, <2>1, ChangesInv
  <1>5. CASE LoadASound
    <2>1. Next /\ loading' = Hold /\ Changes
      BY <1>5 DEF LoadASound, Next, Edit, ArmReplan
    <2> QED
      BY <1>3, <2>1, ChangesInv
  <1>6. CASE TurnLfo
    <2>1. Next /\ machine' = machine /\ Changes
      BY <1>6 DEF TurnLfo, Next, Edit, SetLfo
    <2>2. CASE Compat
      BY <1>3, <1>6, <2>1, <2>2, ChangesInv DEF TurnLfo, ArmReplan
    <2>3. CASE ~Compat
      BY <1>3, <1>6, <2>1, <2>3, ServedSame, ChangesInv DEF TurnLfo
    <2> QED
      BY <2>2, <2>3
  <1>7. CASE TurnKnob
    <2>1. Next /\ machine' = machine /\ lfo' = lfo /\ loading' = loading /\ Changes
      BY <1>7 DEF TurnKnob, Next, Edit, SetSyn, GetSyn, SetPage
    <2> QED
      BY <1>3, <2>1, ServedSame, ChangesInv
  <1>8. CASE Return
    <2>1. Next /\ machine' = machine /\ lfo' = lfo /\ UNCHANGED <<loading, polled, waited, reading, shown, settled>>
      BY <1>8 DEF Return, Next, Sent, tableVars, hostVars
    <2>2. TypeOK' /\ Served' = Served /\ Hierarchy' = Hierarchy
      BY <1>3, <2>1, ServedSame
    <2> QED
      BY <2>1, <2>2 DEF PagesInv, PagesTypeOK, Timers, Due
  <1>9. CASE PollLoading
    <2>1. /\ UNCHANGED <<vars, loading, settled, shown>> /\ reading = "no" /\ waited' = 0
          /\ polled' = (loading > 0)
          /\ reading' = IF polled /\ ~polled' THEN "hierarchy" ELSE "no"
      BY <1>9 DEF PollLoading, Between, IsLoading
    <2>2. PagesTypeOK'
      BY <1>2, <2>1, QuietNat DEF PagesInv, PagesTypeOK
    <2>3. CASE settled < Hold
      <3>4. loading > 0
        BY <1>1, <2>3, QuietNat DEF Left
      <3>1. polled' /\ reading' = "no"
        <4>1. polled'
          BY ONLY <2>1, <3>4, Zenon
        <4> QED
          BY ONLY <2>1, <4>1, Zenon
      <3>2. Timers'
        BY <1>1, <2>1, <2>3, <3>1, QuietNat DEF Timers
      <3> QED
        BY <2>2, <3>1, <3>2 DEF PagesInv, Due
    <2>4. CASE ~(settled < Hold)
      <3>4. ~(loading > 0)
        BY <1>1, <2>4, QuietNat DEF Left
      <3>1. ~polled'
        BY ONLY <2>1, <3>4, Zenon
      <3>2. CASE polled
        <4>1. settled < Hold + waited /\ reading' = "hierarchy"
          BY <2>1, <3>1, <3>2 DEF PagesInv, Timers
        <4>2. settled < Hold + Poll
          BY <1>1, <4>1, QuietNat
        <4>3. Timers'
          BY <1>1, <2>1, <3>1, <4>2 DEF Timers
        <4> QED
          BY <2>2, <4>1, <4>3 DEF PagesInv, Due
      <3>3. CASE ~polled
        <4>1. ~(settled <= waited)
          BY <1>1, <2>4, QuietNat
        <4>2. shown = Served
          BY <2>1, <3>3, <4>1 DEF PagesInv, Due
        <4>3. reading' = "no"
          BY <2>1, <3>3
        <4>4. Timers'
          BY <1>1, <2>1, <3>1, <4>3 DEF Timers
        <4> QED
          BY <1>2, <2>1, <2>2, <4>2, <4>4 DEF PagesInv
      <3> QED
        BY <3>2, <3>3
    <2> QED
      BY <2>3, <2>4
  <1>10. CASE ReadHierarchy
    <2>1. /\ UNCHANGED <<vars, loading, settled, polled, waited>> /\ reading = "hierarchy" /\ reading' = "params"
          /\ shown' = [shown EXCEPT !.hierarchy = Hierarchy]
      BY <1>10 DEF ReadHierarchy, Between
    <2>2. Hierarchy \in [machine: Machines, lfo: Values]
      BY <1>1, TableAssumption DEF TypeOK, Hierarchy
    <2>3. shown' \in [hierarchy: [machine: Machines, lfo: Values], params: Machines] /\ shown'.hierarchy = Hierarchy
      BY <2>1, <2>2 DEF PagesInv, PagesTypeOK
    <2>4. PagesTypeOK'
      BY <1>2, <2>1, <2>3 DEF PagesInv, PagesTypeOK
    <2>5. Timers'
      BY <2>1 DEF PagesInv, Timers
    <2> QED
      BY <1>2, <2>1, <2>3, <2>4, <2>5 DEF PagesInv, Due
  <1>11. CASE ReadParams
    <2>1. /\ UNCHANGED <<vars, loading, settled, polled, waited>> /\ reading = "params" /\ reading' = "no"
          /\ shown' = [shown EXCEPT !.params = ChainParams]
      BY <1>11 DEF ReadParams, Between
    <2>2. shown \in [hierarchy: [machine: Machines, lfo: Values], params: Machines]
      BY DEF PagesInv, PagesTypeOK
    <2>3. /\ shown' \in [hierarchy: [machine: Machines, lfo: Values], params: Machines]
          /\ shown' = [hierarchy |-> shown.hierarchy, params |-> ChainParams]
      BY <1>1, <2>1, <2>2 DEF TypeOK, ChainParams
    <2>4. PagesTypeOK'
      BY <1>2, <2>1, <2>3 DEF PagesInv, PagesTypeOK
    <2>5. Timers'
      BY <2>1 DEF PagesInv, Timers
    <2>6. CASE shown.hierarchy = Hierarchy
      <3>1. shown' = Served
        BY <2>3, <2>6 DEF Served
      <3> QED
        BY <1>2, <2>1, <2>4, <2>5, <3>1 DEF PagesInv
    <2>7. CASE shown.hierarchy # Hierarchy
      <3>1. ~polled /\ settled <= waited
        BY <2>1, <2>7 DEF PagesInv, Timers, Due, Served
      <3> QED
        BY <2>1, <2>4, <2>5, <3>1 DEF PagesInv, Due
    <2> QED
      BY <2>6, <2>7
  <1>12. CASE Tick
    <2>1. /\ UNCHANGED <<vars, polled, reading, shown>> /\ reading = "no" /\ waited < Poll /\ waited' = waited + 1
          /\ loading' = IF loading > 0 THEN loading - 1 ELSE 0
          /\ settled' = IF settled < Quiet THEN settled + 1 ELSE Quiet
      BY <1>12 DEF Tick
    <2>2. settled' \in 0 .. Quiet /\ settled' <= settled + 1 /\ waited' \in 0 .. Poll
      BY <1>1, <2>1, QuietNat
    <2>3. loading' = Left(settled')
      BY <1>1, <2>1, QuietNat DEF Left
    <2>4. PagesTypeOK'
      BY <1>2, <2>1, <2>2 DEF PagesInv, PagesTypeOK
    <2>5. polled => settled' < Hold + waited'
      <3>1. SUFFICES ASSUME polled PROVE settled' < Hold + waited'
        OBVIOUS
      <3>2. settled < Hold + waited
        BY <3>1 DEF PagesInv, Timers
      <3> QED
        BY <1>1, <2>1, <2>2, <3>2, QuietNat
    <2>6. Timers'
      BY <2>1, <2>3, <2>5 DEF Timers
    <2>7. settled <= waited => settled' <= waited'
      BY <1>1, <2>1, <2>2, QuietNat
    <2> QED
      BY <1>2, <2>1, <2>4, <2>6, <2>7 DEF PagesInv, Due
  <1>13. CASE UNCHANGED pageVars
    <2>1. UNCHANGED <<vars, loading, settled, polled, waited, reading, shown>>
      BY <1>13 DEF pageVars, hostVars
    <2> QED
      BY <1>2, <2>1 DEF PagesInv, PagesTypeOK, Timers, Due
  <1> QED
    BY <1>4, <1>5, <1>6, <1>7, <1>8, <1>9, <1>10, <1>11, <1>12, <1>13 DEF PagesNext

\* armReplan: once nothing has changed for the hold and one poll, the host shows what is served, for
\* any hold longer than the host's wait between polls.
THEOREM PagesShown == PagesSpec => []ShownInTime
  <1>1. ASSUME PagesInv, settled = Quiet PROVE shown = Served
    <2>1. waited \in 0 .. Poll
      BY <1>1 DEF PagesInv, PagesTypeOK
    <2>2. ~polled
      BY <1>1, <2>1, QuietNat DEF PagesInv, Timers
    <2>3. ~(settled <= waited)
      BY <1>1, <2>1, QuietNat
    <2>4. reading = "no"
      BY <1>1, QuietNat DEF PagesInv, Timers
    <2> QED
      BY <1>1, <2>2, <2>3, <2>4 DEF PagesInv, Due
  <1>2. PagesInv => ShownInTime
    BY <1>1 DEF ShownInTime
  <1> QED
    BY PagesInitInv, PagesNextInv, <1>2, PTL DEF PagesSpec
=============================================================================
