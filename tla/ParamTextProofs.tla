-------------------------- MODULE ParamTextProofs --------------------------
(***************************************************************************)
(* The texts, for any machines, labels, parameters and option names the    *)
(* generated tables may hold (TextAssumption): every list of up to 128     *)
(* options reaches each of them, every raw value of the table stays in its *)
(* range whatever texts, presets and saved states are set, and what is     *)
(* shown, set again, shows the same.                                       *)
(***************************************************************************)
EXTENDS ParamText, TLAPS

Text == [digits: BOOLEAN, num: Int, rest: STRING]

\* A state as the program writes it, and a part of one.
Written ==
    [head: {TRUE}, machine: Machines, level: Raw, depth: 1 .. kMaxDepth,
     p: [1 .. PageCount -> Raw], f: [1 .. LfoCount -> Raw]]
StateTexts ==
    [head: BOOLEAN, machine: Machines \cup {NoMachine}, level: Int, depth: Int, p: Seq(Raw), f: Seq(Raw)]

TableOK == machine \in Machines /\ level \in Raw /\ depth \in 1 .. kMaxDepth /\ table \in [Keys -> Raw]
TextInv == TableOK /\ state \in Written \cup {NoState}

-----------------------------------------------------------------------------
(* Lists.                                                                  *)

LEMMA DivBounds ==
    ASSUME NEW a \in Nat, NEW b \in Nat \ {0}
    PROVE  /\ a \div b \in Nat
           /\ b * (a \div b) <= a /\ a < b * (a \div b) + b
  OBVIOUS

\* The middle of option i's bucket is a raw value, and lies in that bucket.
LEMMA MidInBucket ==
    ASSUME NEW n \in 1 .. 128, NEW i \in 0 .. n - 1
    PROVE  listRawMid(i, n) \in Raw /\ listIndex(listRawMid(i, n), n) = i
  <1> DEFINE q == (i * 256 + 128) \div (2 * n)
             r == n * q
             t == (2 * q + 1) * n
  <1>1. q \in Nat /\ (2 * n) * q <= i * 256 + 128 /\ i * 256 + 128 < (2 * n) * q + 2 * n
    <2>1. i * 256 + 128 \in Nat /\ 2 * n \in Nat \ {0}
      OBVIOUS
    <2> QED
      BY <2>1, DivBounds, ZenonT(40)
  <1>2. (2 * n) * q = 2 * r /\ t = 2 * r + n /\ r \in Nat
    BY <1>1
  <1> HIDE DEF q, r, t
  <1>3. t \in Int /\ i * 256 <= t /\ t < i * 256 + 256
    BY <1>1, <1>2
  <1>4. t \div 256 = i
    BY <1>3
  <1>5. q <= 127
    <2>1. SUFFICES ASSUME q >= 128 PROVE FALSE
      BY <1>1
    <2>2. n * q >= n * 128
      BY <1>1, <2>1
    <2> QED
      BY <1>1, <1>2, <2>2 DEF r
  <1> QED
    BY <1>1, <1>4, <1>5 DEF listRawMid, listIndex, Raw, q, t

\* Every raw value is in one of the n buckets.
LEMMA IndexInList ==
    ASSUME NEW n \in 1 .. 128, NEW raw \in Raw
    PROVE  listIndex(raw, n) \in 0 .. n - 1
  <1> DEFINE p == (2 * raw + 1) * n
  <1>1. p \in Nat /\ p <= 255 * n
    BY DEF Raw
  <1> HIDE DEF p
  <1>2. p \div 256 \in 0 .. n - 1
    BY <1>1
  <1> QED
    BY <1>2 DEF listIndex, p

\* Every list reaches each of its options: the name of option i, or its index, shows option i.
THEOREM EveryOptionReached ==
    \A n \in 1 .. 128 : \A i \in 0 .. n - 1 : listIndex(listRawMid(i, n), n) = i
  BY MidInBucket

-----------------------------------------------------------------------------
(* One text.                                                               *)

LEMMA ClampType ==
    /\ \A v \in Int : Clamp(v, 0, 127) \in Raw /\ Clamp(v, 1, kMaxDepth) \in 1 .. kMaxDepth
    /\ \A v \in Int, n \in 1 .. 128 : Clamp(v, 0, n - 1) \in 0 .. n - 1
  BY DEF Clamp, Raw, kMaxDepth

LEMMA LeastOfOne ==
    ASSUME NEW S \in SUBSET Int, S # {}, \A i, j \in S : i = j
    PROVE  Least(S) \in S
  <1>1. PICK i \in S : \A j \in S : i = j
    OBVIOUS
  <1>2. \A j \in S : i <= j
    BY <1>1
  <1> QED
    BY <1>2 DEF Least

\* No text spells two options.
LEMMA SpelledOnce ==
    ASSUME NEW k \in Keys, NEW m \in Machines, NEW t, IsList(Defs[k])
    PROVE  LET S == Spelled(Defs[k], t, m)
           IN  S \subseteq 0 .. Options(Defs[k]) - 1 /\ \A i, j \in S : i = j
  <1>1. CASE Defs[k].kind = "dest"
    <2>1. \A i, j \in 0 .. 7 : i # j => PAR(i) # PAR(j) /\ synLabel(m, i) \notin {synLabel(m, j), PAR(j)}
      BY TextAssumption, SMTT(30) DEF PAR
    <2> QED
      BY <1>1, <2>1 DEF Spelled, Options
  <1>2. CASE Defs[k].kind \in {"list", "readout"}
    BY <1>2, TextAssumption DEF Spelled
  <1> QED
    BY <1>1, <1>2 DEF IsList

LEMMA OptionsType ==
    ASSUME NEW k \in Keys, IsList(Defs[k])
    PROVE  /\ Options(Defs[k]) \in 1 .. 128
           /\ \A i \in 0 .. Options(Defs[k]) - 1 : RawOf(Defs[k], i) \in Raw
  <1>1. Options(Defs[k]) \in 1 .. 128
    BY TextAssumption DEF Options, IsList
  <1>2. CASE Defs[k].kind = "readout"
    BY <1>1, <1>2 DEF RawOf, Raw, Options
  <1>3. CASE Defs[k].kind # "readout"
    BY <1>1, <1>3, MidInBucket DEF RawOf
  <1> QED
    BY <1>1, <1>2, <1>3

\* toRaw refuses a text or gives a value of the table's range, however large the number.
LEMMA ToRawType ==
    ASSUME NEW k \in Keys, NEW m \in Machines, NEW t \in Text
    PROVE  toRaw(Defs[k], t, m) \in Raw \cup {Refused}
  <1> DEFINE d == Defs[k]
             S == Spelled(d, t, m)
  <1>1. CASE IsList(d) /\ S # {}
    <2>1. Least(S) \in S /\ S \subseteq 0 .. Options(d) - 1
      BY <1>1, SpelledOnce, LeastOfOne, OptionsType, SMTT(30)
    <2>2. RawOf(d, Least(S)) \in Raw
      BY <1>1, <2>1, OptionsType
    <2> QED
      BY <1>1, <2>2 DEF toRaw
  <1>2. CASE IsList(d) /\ S = {}
    <2>1. Options(d) \in 1 .. 128
      BY <1>2, OptionsType
    <2>2. Clamp(t.num, 0, Options(d) - 1) \in 0 .. Options(d) - 1
      BY <2>1, ClampType DEF Text
    <2>3. RawOf(d, Clamp(t.num, 0, Options(d) - 1)) \in Raw
      BY <1>2, <2>2, OptionsType
    <2> QED
      BY <1>2, <2>3 DEF toRaw
  <1>3. CASE ~IsList(d)
    <2>1. t.num \in Int /\ t.num + 64 \in Int /\ t.num + 0 \in Int
      BY DEF Text
    <2>2. CASE d.kind = "bipolar"
      BY <1>3, <2>1, <2>2, ClampType DEF toRaw
    <2>3. CASE d.kind # "bipolar"
      BY <1>3, <2>1, <2>3, ClampType DEF toRaw
    <2> QED
      BY <2>2, <2>3
  <1> QED
    BY <1>1, <1>2, <1>3

\* A name shown is spelled by its own option only.
LEMMA NameSticks ==
    ASSUME NEW k \in Keys, NEW m \in Machines, IsList(Defs[k]),
           NEW i \in 0 .. Options(Defs[k]) - 1, NEW t,
           t = IF Defs[k].kind = "dest" THEN synLabel(m, i) ELSE Defs[k].names[i]
    PROVE  toRaw(Defs[k], t, m) = RawOf(Defs[k], i)
  <1>1. i \in Spelled(Defs[k], t, m)
    BY DEF Spelled
  <1>2. Least(Spelled(Defs[k], t, m)) = i
    BY <1>1, SpelledOnce, LeastOfOne, OptionsType
  <1> QED
    BY <1>1, <1>2 DEF toRaw

LEMMA RawSticks ==
    ASSUME NEW k \in Keys, NEW m \in Machines, NEW raw \in Raw
    PROVE  LET t == fromRaw(Defs[k], raw, m)
           IN  /\ toRaw(Defs[k], t, m) \in Raw
               /\ fromRaw(Defs[k], toRaw(Defs[k], t, m), m) = t
  <1> DEFINE d == Defs[k]
             t == fromRaw(d, raw, m)
  <1>1. CASE d.kind \in {"list", "dest"}
    <2> DEFINE i == listIndex(raw, Options(d))
    <2>1. IsList(d) /\ Options(d) \in 1 .. 128
      BY <1>1, OptionsType DEF IsList
    <2>2. i \in 0 .. Options(d) - 1
      BY <2>1, IndexInList
    <2>3. t = IF d.kind = "dest" THEN synLabel(m, i) ELSE d.names[i]
      BY <1>1 DEF fromRaw, Options
    <2>4. toRaw(d, t, m) = listRawMid(i, Options(d))
      BY <1>1, <2>1, <2>2, <2>3, NameSticks DEF RawOf
    <2>5. toRaw(d, t, m) \in Raw /\ listIndex(toRaw(d, t, m), Options(d)) = i
      BY <2>1, <2>2, <2>4, MidInBucket
    <2> QED
      BY <1>1, <2>3, <2>5 DEF fromRaw, Options
  <1>2. CASE d.kind = "readout"
    <2>1. t = d.names[raw] /\ IsList(d) /\ raw \in 0 .. Options(d) - 1
      BY <1>2 DEF fromRaw, IsList, Options, Raw
    <2>2. toRaw(d, t, m) = raw
      BY <1>2, <2>1, NameSticks DEF RawOf
    <2> QED
      BY <2>2
  <1>3. CASE d.kind \in {"numeric", "bipolar"}
    <2>1. ~IsList(d) /\ Clamp(raw, 0, 127) = raw /\ raw \in Int
      BY <1>3 DEF IsList, Raw, Clamp
    <2>2. \A v \in Int : Numeral(v).digits /\ Numeral(v).num = v
      BY DEF Numeral
    <2>3. CASE d.kind = "bipolar"
      <3>1. t = Numeral(raw - 64) /\ raw - 64 \in Int /\ (raw - 64) + 64 = raw
        BY <2>1, <2>3 DEF fromRaw
      <3>2. t.digits /\ t.num + 64 = raw
        BY <2>2, <3>1
      <3> QED
        BY <2>1, <2>3, <3>2 DEF toRaw
    <2>4. CASE d.kind = "numeric"
      <3>1. t = Numeral(raw) /\ raw + 0 = raw
        BY <2>1, <2>4 DEF fromRaw
      <3>2. t.digits /\ t.num + 0 = raw
        BY <2>1, <2>2, <3>1
      <3> QED
        BY <2>1, <2>4, <3>2 DEF toRaw
    <2> QED
      BY <1>3, <2>3, <2>4
  <1> QED
    BY <1>1, <1>2, <1>3, TextAssumption

-----------------------------------------------------------------------------
(* The table.                                                              *)

LEMMA ParsedMachine == ASSUME NEW t PROVE parseMachine(t) \in Machines \cup {NoMachine}
  BY DEF parseMachine, Machines

LEMMA LabelSticks == ASSUME NEW m \in Machines PROVE parseMachine(Label[m]) = m
  BY TextAssumption DEF parseMachine

LEMMA InitTextInv == Init => TextInv
  BY TextAssumption DEF Init, TextInv, TableOK, Raw, kMaxDepth, kDefaultDepth

LEMMA WrittenType == TableOK => writeState \in Written
  <1> SUFFICES ASSUME TableOK PROVE writeState \in Written
    OBVIOUS
  <1>1. \A i \in 1 .. LfoCount : PageCount + i \in Keys
    BY TextAssumption DEF Keys
  <1>2. \A i \in 1 .. PageCount : i \in Keys
    BY TextAssumption DEF Keys
  <1>3. [i \in 1 .. PageCount |-> table[i]] \in [1 .. PageCount -> Raw]
    BY <1>2 DEF TableOK
  <1>4. [i \in 1 .. LfoCount |-> table[PageCount + i]] \in [1 .. LfoCount -> Raw]
    BY <1>1 DEF TableOK
  <1>5. machine \in Machines /\ level \in Raw /\ depth \in 1 .. kMaxDepth
    BY DEF TableOK
  <1> QED
    BY <1>3, <1>4, <1>5 DEF writeState, Written

\* Fewer digits of a raw value are one.
LEMMA ShortenedType ==
    ASSUME NEW v \in Raw, NEW u \in Shortened(v) PROVE u \in Raw
  <1>1. v \in 0 .. 127
    BY DEF Raw
  <1>2. v \div 10 \in 0 .. 127
    BY ONLY <1>1
  <1>3. v \div 100 \in 0 .. 127
    BY ONLY <1>1
  <1>4. PICK d \in {10, 100} : u = v \div d
    BY DEF Shortened
  <1>5. CASE d = 10
    BY <1>2, <1>4, <1>5 DEF Raw
  <1>6. CASE d = 100
    BY <1>3, <1>4, <1>6 DEF Raw
  <1> QED
    BY <1>5, <1>6

\* What is left of n integers is too short, or is all n of them, the last perhaps cut.
LEMMA CutKinds ==
    ASSUME NEW n \in Nat \ {0}, NEW q \in [1 .. n -> Raw], NEW c \in CutList(q)
    PROVE  /\ c \in Seq(Raw)
           /\ Len(c) < n \/ c = q \/ (c \in LastCut(q) /\ c \in [1 .. n -> Raw])
  <1>1. q \in Seq(Raw) /\ Len(q) = n
    OBVIOUS
  <1>2. ASSUME NEW i \in 0 .. n
        PROVE  /\ SubSeq(q, 1, i) = [k \in 1 .. i |-> q[k]]
               /\ SubSeq(q, 1, i) \in [1 .. i -> Raw]
               /\ Len(SubSeq(q, 1, i)) = i
    <2>1. SubSeq(q, 1, i) = [k \in 1 .. i |-> q[k]] /\ Len(SubSeq(q, 1, i)) = i
      BY <1>1
    <2>2. [k \in 1 .. i |-> q[k]] \in [1 .. i -> Raw]
      OBVIOUS
    <2> QED
      BY <2>1, <2>2
  <1>3. SubSeq(q, 1, n) = q
    <2>1. SubSeq(q, 1, n) = [k \in 1 .. n |-> q[k]]
      BY <1>2
    <2> QED
      BY <2>1
  <1>4. ASSUME NEW v \in Raw, NEW u \in Shortened(v) PROVE u \in Raw
    BY ShortenedType
  <1>5. CASE \E i \in 0 .. n : c = SubSeq(q, 1, i)
    <2>1. PICK i \in 0 .. n : c = SubSeq(q, 1, i)
      BY <1>5
    <2>2. c \in [1 .. i -> Raw] /\ Len(c) = i
      BY <1>2, <2>1
    <2>3. c \in Seq(Raw)
      BY <2>2
    <2> QED
      BY <1>3, <2>1, <2>2, <2>3
  <1>6. CASE \E i \in 1 .. n : c \in LastCut(SubSeq(q, 1, i))
    <2>1. PICK i \in 1 .. n : c \in LastCut(SubSeq(q, 1, i))
      BY <1>6
    <2> DEFINE p == SubSeq(q, 1, i)
    <2>2. p \in [1 .. i -> Raw] /\ Len(p) = i /\ i \in 1 .. i
      BY <1>2
    <2>3. i = n => p = q
      BY <1>3
    <2> HIDE DEF p
    <2>4. PICK v \in Shortened(p[i]) : c = [p EXCEPT ![i] = v]
      BY <2>1, <2>2 DEF LastCut, p
    <2>5. v \in Raw
      BY <1>4, <2>2
    <2>6. c \in [1 .. i -> Raw]
      BY <2>2, <2>4, <2>5
    <2>7. c \in Seq(Raw) /\ Len(c) = i
      BY <2>6
    <2>8. i = n => c \in LastCut(q)
      BY <2>1, <2>3 DEF p
    <2> QED
      BY <2>6, <2>7, <2>8
  <1>7. c \in CutList(q)
    OBVIOUS
  <1> QED
    BY <1>1, <1>5, <1>6, <1>7 DEF CutList

LEMMA PartsType == ASSUME NEW s \in Written PROVE {s} \cup Cuts(s) \subseteq StateTexts
  <1>1. s.p \in Seq(Raw) /\ s.f \in Seq(Raw)
    BY TextAssumption DEF Written
  <1>0. CutList(s.p) \subseteq Seq(Raw) /\ CutList(s.f) \subseteq Seq(Raw)
    BY CutKinds, TextAssumption DEF Written
  <1>2. <<>> \in Seq(Raw)
    OBVIOUS
  <1>10. /\ s.head = TRUE /\ s.machine \in Machines /\ s.level \in Raw /\ s.depth \in 1 .. kMaxDepth
         /\ s = [head |-> TRUE, machine |-> s.machine, level |-> s.level, depth |-> s.depth,
                 p |-> s.p, f |-> s.f]
    BY DEF Written
  <1>4. /\ s.head \in BOOLEAN /\ s.machine \in Machines /\ s.level \in Int /\ s.depth \in Int
        /\ s = [head |-> s.head, machine |-> s.machine, level |-> s.level, depth |-> s.depth,
                p |-> s.p, f |-> s.f]
    <2>1. Raw \subseteq Int /\ 1 .. kMaxDepth \subseteq Int
      BY DEF Raw, kMaxDepth
    <2>2. s.head \in BOOLEAN
      BY ONLY <1>10
    <2>3. s.level \in Int /\ s.depth \in Int
      BY ONLY <1>10, <2>1
    <2>4. s = [head |-> s.head, machine |-> s.machine, level |-> s.level, depth |-> s.depth,
               p |-> s.p, f |-> s.f]
      BY ONLY <1>10, Zenon
    <2> QED
      BY ONLY <1>10, <2>2, <2>3, <2>4
  <1>3. s \in StateTexts
    BY <1>1, <1>4 DEF StateTexts
  <1>5. ASSUME NEW q \in Seq(Raw) PROVE [s EXCEPT !.f = q] \in StateTexts
    BY <1>1, <1>4 DEF StateTexts
  <1>6. ASSUME NEW q \in Seq(Raw) PROVE [s EXCEPT !.p = q, !.f = <<>>] \in StateTexts
    BY <1>2, <1>4 DEF StateTexts
  <1>7. [s EXCEPT !.head = FALSE] \in StateTexts /\ [s EXCEPT !.machine = NoMachine] \in StateTexts
    BY <1>1, <1>4 DEF StateTexts
  <1>8. {[s EXCEPT !.f = q] : q \in CutList(s.f)} \subseteq StateTexts
    BY <1>0, <1>5
  <1>9. {[s EXCEPT !.p = q, !.f = <<>>] : q \in CutList(s.p)} \subseteq StateTexts
    BY <1>0, <1>6
  <1> QED
    BY <1>3, <1>7, <1>8, <1>9 DEF Cuts

LEMMA ReadType ==
    ASSUME TableOK, NEW s \in StateTexts, readState(s)
    PROVE  TableOK'
  <1>1. CASE ~(s.head /\ validMachine(s.machine) /\ Len(s.p) >= PageCount)
    BY <1>1 DEF readState, TableOK
  <1>2. CASE s.head /\ validMachine(s.machine) /\ Len(s.p) >= PageCount
    <2>1. ASSUME NEW q \in Seq(Raw), NEW i \in 1 .. Len(q) PROVE q[i] \in Int
      <3>1. q[i] \in Raw
        OBVIOUS
      <3>2. \A v \in Raw : v \in Int
        BY DEF Raw
      <3> QED
        BY <3>1, <3>2
    <2>2. ASSUME NEW k \in Keys PROVE readInts(s)[k] \in Raw
      <3>1. CASE k <= PageCount
        <4>1. s.p[k] \in Int
          BY <1>2, <2>1, <3>1, TextAssumption DEF StateTexts, Keys
        <4> QED
          BY <3>1, <4>1, ClampType DEF readInts
      <3>2. CASE k > PageCount /\ Len(s.f) >= LfoCount
        <4>1. k - PageCount \in 1 .. Len(s.f)
          BY <3>2, TextAssumption DEF Keys, StateTexts
        <4>2. s.f[k - PageCount] \in Int
          BY <2>1, <4>1 DEF StateTexts
        <4>3. ~(k <= PageCount) /\ readInts(s)[k] = Clamp(s.f[k - PageCount], 0, 127)
          <5>1. ~(k <= PageCount)
            BY <3>2, TextAssumption DEF Keys
          <5> QED
            BY <3>2, <5>1 DEF readInts
        <4> QED
          BY <4>2, <4>3, ClampType
      <3>3. CASE k > PageCount /\ ~(Len(s.f) >= LfoCount)
        BY <3>3, TextAssumption, SMTT(30) DEF readInts, TableOK, Keys
      <3> QED
        BY <3>1, <3>2, <3>3, TextAssumption DEF Keys
    <2>3. readInts(s) \in [Keys -> Raw]
      BY <2>2 DEF readInts
    <2> QED
      BY <1>2, <2>3, ClampType, ZenonT(40) DEF readState, TableOK, validMachine, StateTexts
  <1> QED
    BY <1>1, <1>2

LEMMA NextTextInv == TextInv /\ [Next]_vars => TextInv'
  <1> SUFFICES ASSUME TextInv, [Next]_vars PROVE TextInv'
    OBVIOUS
  <1> USE DEF TextInv
  <1>1. ASSUME NEW t \in Inputs, SetMachine(t) \/ SetLevel(t) \/ SetDepth(t) PROVE TextInv'
    <2>1. t.digits \in BOOLEAN /\ t.num \in Int
      BY TextAssumption
    <2>2. Clamp(atoi(t), 0, 127) \in Raw /\ Clamp(atoi(t), 1, kMaxDepth) \in 1 .. kMaxDepth
      BY <2>1, ClampType DEF atoi
    <2> QED
      BY <1>1, <2>2, ParsedMachine DEF SetMachine, SetLevel, SetDepth, TableOK
  <1>2. ASSUME NEW t \in Inputs, NEW k \in Keys, SetKey(k, t) PROVE TextInv'
    <2>1. toRaw(Defs[k], t, machine) \in Raw
      BY <1>2, ToRawType, TextAssumption DEF SetKey, TableOK, Text
    <2> QED
      BY <1>2, <2>1 DEF SetKey, TableOK
  <1>3. ASSUME NEW m \in Machines, NEW r \in Presets, LoadPreset(m, r) PROVE TextInv'
    BY <1>3, TextAssumption DEF LoadPreset, TableOK
  <1>4. CASE GetState
    BY <1>4, WrittenType DEF GetState, TableOK
  <1>5. CASE SetState
    BY <1>5, ReadType, PartsType DEF SetState
  <1>6. CASE UNCHANGED vars
    BY <1>6 DEF vars, TableOK
  <1> QED
    BY <1>1, <1>2, <1>3, <1>4, <1>5, <1>6 DEF Next

\* The values the table indexes the option names with, and sends to the engine, are in their range after
\* any texts, presets and saved states.
THEOREM TableInRange == Spec => []TableOK
  <1>1. TextInv => TableOK
    BY DEF TextInv
  <1> QED
    BY <1>1, InitTextInv, NextTextInv, PTL DEF Spec

\* get_param and set_param agree: what a key or the machine shows, set again, shows the same.
THEOREM ShownIsSet == Spec => []ShownSticks
  <1>1. TextInv => ShownSticks
    BY RawSticks, LabelSticks DEF TextInv, TableOK, ShownSticks, Shown, ShownMachine
  <1> QED
    BY <1>1, InitTextInv, NextTextInv, PTL DEF Spec

-----------------------------------------------------------------------------
(* The state.                                                              *)

LEMMA ClampKeeps ==
    /\ \A v \in Raw : Clamp(v, 0, 127) = v
    /\ \A v \in 1 .. kMaxDepth : Clamp(v, 1, kMaxDepth) = v
  BY DEF Clamp, Raw, kMaxDepth

\* What a state brings that has its head and all of its pages, some of the LFOs or all.
LEMMA ReadPages ==
    ASSUME TableOK, NEW c, readState(c), c.head, c.machine \in Machines, c.level \in Raw,
           c.depth \in 1 .. kMaxDepth, c.p \in [1 .. PageCount -> Raw]
    PROVE  /\ writeState' = [head |-> TRUE, machine |-> c.machine, level |-> c.level, depth |-> c.depth,
                             p |-> c.p, f |-> writeState'.f]
           /\ c.f \in [1 .. LfoCount -> Raw] => writeState'.f = c.f
           /\ ~(Len(c.f) >= LfoCount) => writeState'.f = writeState.f
  <1>2. PageCount \in Nat /\ LfoCount \in Nat
    BY TextAssumption
  <1>3. Len(c.p) = PageCount
    BY <1>2
  <1>4. c.head /\ validMachine(c.machine) /\ Len(c.p) >= PageCount
    BY <1>2, <1>3 DEF validMachine
  <1>5. machine' = c.machine /\ level' = c.level /\ depth' = c.depth /\ table' = readInts(c)
    BY <1>4, ClampKeeps DEF readState
  <1>6. ASSUME NEW i \in 1 .. PageCount PROVE table'[i] = c.p[i]
    <2>1. i \in Keys /\ i <= PageCount /\ c.p[i] \in Raw
      BY <1>2 DEF Keys
    <2> QED
      BY <1>5, <2>1, ClampKeeps DEF readInts
  <1>7. [i \in 1 .. PageCount |-> table'[i]] = c.p
    BY <1>6
  <1>8. ASSUME NEW i \in 1 .. LfoCount
        PROVE  table'[PageCount + i] = IF Len(c.f) >= LfoCount THEN Clamp(c.f[i], 0, 127)
                                       ELSE table[PageCount + i]
    <2> DEFINE k == PageCount + i
    <2>1. k \in Keys /\ ~(k <= PageCount) /\ k - PageCount = i
      BY <1>2 DEF Keys
    <2> HIDE DEF k
    <2>2. table'[k] = IF Len(c.f) >= LfoCount THEN Clamp(c.f[k - PageCount], 0, 127) ELSE table[k]
      BY <1>5, <2>1 DEF readInts
    <2> QED
      BY <2>1, <2>2 DEF k
  <1>9. ASSUME c.f \in [1 .. LfoCount -> Raw] PROVE [i \in 1 .. LfoCount |-> table'[PageCount + i]] = c.f
    <2>1. Len(c.f) >= LfoCount
      BY <1>2, <1>9
    <2>2. ASSUME NEW i \in 1 .. LfoCount PROVE table'[PageCount + i] = c.f[i]
      <3>1. c.f[i] \in Raw
        BY <1>9
      <3> QED
        BY <1>8, <2>1, <3>1, ClampKeeps
    <2> QED
      BY <1>9, <2>2
  <1>10. ASSUME ~(Len(c.f) >= LfoCount)
         PROVE  [i \in 1 .. LfoCount |-> table'[PageCount + i]] = [i \in 1 .. LfoCount |-> table[PageCount + i]]
    BY <1>8, <1>10
  <1> QED
    BY <1>5, <1>7, <1>9, <1>10 DEF writeState

\* A whole state brings back what was written.
LEMMA ReadWhole ==
    ASSUME TableOK, NEW s \in Written, readState(s)
    PROVE  writeState' = s
  <1>1. /\ s.head /\ s.machine \in Machines /\ s.level \in Raw /\ s.depth \in 1 .. kMaxDepth
        /\ s.p \in [1 .. PageCount -> Raw] /\ s.f \in [1 .. LfoCount -> Raw]
    BY DEF Written
  <1>2. /\ writeState' = [head |-> TRUE, machine |-> s.machine, level |-> s.level, depth |-> s.depth,
                          p |-> s.p, f |-> writeState'.f]
        /\ writeState'.f = s.f
    BY <1>1, ReadPages
  <1>3. s = [head |-> TRUE, machine |-> s.machine, level |-> s.level, depth |-> s.depth, p |-> s.p, f |-> s.f]
    BY DEF Written
  <1> QED
    BY <1>2, <1>3

\* A part of a state brings nothing, or all up to the cut.
LEMMA ReadPart ==
    ASSUME TableOK, NEW s \in Written, NEW c \in Cuts(s), readState(c)
    PROVE  writeState' = writeState \/ TakenUpToCut(writeState', writeState, s)
  <1>1. /\ s.head = TRUE /\ s.machine \in Machines /\ s.level \in Raw /\ s.depth \in 1 .. kMaxDepth
        /\ s.p \in [1 .. PageCount -> Raw] /\ s.f \in [1 .. LfoCount -> Raw]
        /\ s = [head |-> TRUE, machine |-> s.machine, level |-> s.level, depth |-> s.depth, p |-> s.p, f |-> s.f]
    BY DEF Written
  <1>s. PageCount \in Nat \ {0} /\ LfoCount \in Nat \ {0}
    BY TextAssumption
  <1>2. ASSUME ~(c.head /\ validMachine(c.machine) /\ Len(c.p) >= PageCount) PROVE writeState' = writeState
    BY <1>2 DEF readState, writeState
  <1>3. ASSUME c.head = TRUE, c.machine = s.machine, c.level = s.level, c.depth = s.depth,
               c.p \in [1 .. PageCount -> Raw]
        PROVE  /\ writeState'.machine = s.machine /\ writeState'.level = s.level
               /\ writeState'.depth = s.depth /\ writeState'.p = c.p
               /\ c.f \in [1 .. LfoCount -> Raw] => writeState'.f = c.f
               /\ ~(Len(c.f) >= LfoCount) => writeState'.f = writeState.f
    <2>1. /\ writeState' = [head |-> TRUE, machine |-> c.machine, level |-> c.level, depth |-> c.depth,
                            p |-> c.p, f |-> writeState'.f]
          /\ c.f \in [1 .. LfoCount -> Raw] => writeState'.f = c.f
          /\ ~(Len(c.f) >= LfoCount) => writeState'.f = writeState.f
      BY <1>1, <1>3, ReadPages
    <2> QED
      BY ONLY <1>3, <2>1
  <1>4. CASE \E q \in CutList(s.f) : c = [s EXCEPT !.f = q]
    <2>1. PICK q \in CutList(s.f) : c = [s EXCEPT !.f = q]
      BY <1>4
    <2>2. /\ c.head = TRUE /\ c.machine = s.machine /\ c.level = s.level /\ c.depth = s.depth
          /\ c.p = s.p /\ c.f = q
      BY <1>1, <2>1
    <2>3. Len(q) < LfoCount \/ q = s.f \/ (q \in LastCut(s.f) /\ q \in [1 .. LfoCount -> Raw])
      BY <1>1, <1>s, CutKinds
    <2>4. q \in Seq(Raw)
      BY <1>1, <1>s, CutKinds
    <2>5. Len(q) < LfoCount => ~(Len(q) >= LfoCount)
      BY <1>s, <2>4
    <2>6. writeState'.f \in {writeState.f, s.f} \cup LastCut(s.f)
      BY ONLY <1>1, <1>3, <2>2, <2>3, <2>5
    <2>7. /\ writeState'.machine = s.machine /\ writeState'.level = s.level
          /\ writeState'.depth = s.depth /\ writeState'.p = s.p
      BY ONLY <1>1, <1>3, <2>2
    <2> QED
      BY ONLY <2>6, <2>7 DEF TakenUpToCut
  <1>5. CASE \E q \in CutList(s.p) : c = [s EXCEPT !.p = q, !.f = <<>>]
    <2>1. PICK q \in CutList(s.p) : c = [s EXCEPT !.p = q, !.f = <<>>]
      BY <1>5
    <2>2. /\ c.head = TRUE /\ c.machine = s.machine /\ c.level = s.level /\ c.depth = s.depth
          /\ c.p = q /\ c.f = <<>>
      BY <1>1, <2>1
    <2>3. /\ q \in Seq(Raw)
          /\ Len(q) < PageCount \/ q = s.p \/ (q \in LastCut(s.p) /\ q \in [1 .. PageCount -> Raw])
      BY <1>1, <1>s, CutKinds
    <2>4. CASE Len(q) < PageCount
      BY <1>2, <1>s, <2>2, <2>3, <2>4
    <2>5. CASE q \in {s.p} \cup LastCut(s.p) /\ q \in [1 .. PageCount -> Raw]
      <3>1. ~(Len(c.f) >= LfoCount)
        BY <1>s, <2>2
      <3>2. /\ writeState'.machine = s.machine /\ writeState'.level = s.level
            /\ writeState'.depth = s.depth /\ writeState'.p = q /\ writeState'.f = writeState.f
        BY ONLY <1>3, <2>2, <2>5, <3>1
      <3> QED
        BY ONLY <2>5, <3>2 DEF TakenUpToCut
    <2> QED
      BY <1>1, <2>3, <2>4, <2>5
  <1>6. CASE c = [s EXCEPT !.head = FALSE]
    <2>1. ~c.head
      BY <1>1, <1>6
    <2> QED
      BY <1>2, <2>1
  <1>7. CASE c = [s EXCEPT !.machine = NoMachine]
    <2>1. ~validMachine(c.machine)
      BY <1>1, <1>7, TextAssumption DEF validMachine
    <2> QED
      BY <1>2, <2>1
  <1> QED
    BY <1>4, <1>5, <1>6, <1>7 DEF Cuts

StateInv == TextInv /\ StateRestores

LEMMA StateNext ==
    ASSUME StateInv, [Next]_vars
    PROVE  /\ StateInv'
           /\ call' = "cut" /\ vars' # vars =>
                writeState' = writeState \/ TakenUpToCut(writeState', writeState, state)
  <1>1. TextInv'
    BY NextTextInv DEF StateInv
  <1>2. TableOK /\ state \in Written \cup {NoState}
    BY DEF StateInv, TextInv
  <1>3. CASE SetState
    <2>1. state \in Written /\ state' = state
      BY <1>2, <1>3 DEF SetState
    <2>2. CASE readState(state) /\ call' = "state"
      <3>1. writeState' = state
        BY <1>2, <2>1, <2>2, ReadWhole
      <3> QED
        BY <1>1, <2>1, <2>2, <3>1 DEF StateInv, StateRestores
    <2>3. CASE \E c \in Cuts(state) : readState(c) /\ call' = "cut"
      <3>1. PICK c \in Cuts(state) : readState(c) /\ call' = "cut"
        BY <2>3
      <3>2. writeState' = writeState \/ TakenUpToCut(writeState', writeState, state)
        BY <1>2, <2>1, <3>1, ReadPart
      <3> QED
        BY <1>1, <3>1, <3>2 DEF StateInv, StateRestores
    <2> QED
      BY <1>3, <2>2, <2>3 DEF SetState
  <1>4. CASE UNCHANGED vars
    <2>1. writeState' = writeState /\ state' = state /\ call' = call
      BY <1>4 DEF vars, writeState
    <2> QED
      BY <1>1, <1>4, <2>1 DEF StateInv, StateRestores
  <1>5. ASSUME Next, ~SetState PROVE call' = "none"
    BY <1>5 DEF Next, SetMachine, SetLevel, SetDepth, SetKey, LoadPreset, GetState
  <1>6. CASE call' = "none"
    BY <1>1, <1>6 DEF StateInv, StateRestores
  <1> QED
    BY <1>3, <1>4, <1>5, <1>6

LEMMA StateAlways == Spec => []StateInv
  <1>1. Init => StateInv
    BY InitTextInv DEF Init, StateInv, StateRestores
  <1>2. StateInv /\ [Next]_vars => StateInv'
    BY StateNext
  <1> QED
    BY <1>1, <1>2, PTL DEF Spec

\* A saved state, set again after any edits, brings back the sound that was saved.
THEOREM SavedIsRestored == Spec => []StateRestores
  <1>1. StateInv => StateRestores
    BY DEF StateInv
  <1> QED
    BY <1>1, StateAlways, PTL

\* Wherever a saved state was cut, setting it changes nothing, or brings all up to the cut, where only the
\* number it was cut in can be wrong; one of the other build's machines changes nothing.
THEOREM CutSpoilsOne == Spec => CutSpoilsOneNumber
  <1>1. StateInv /\ [Next]_vars =>
            [call' = "cut" => writeState' = writeState \/ TakenUpToCut(writeState', writeState, state)]_vars
    BY StateNext
  <1> QED
    BY <1>1, StateAlways, PTL DEF Spec, CutSpoilsOneNumber
=============================================================================
