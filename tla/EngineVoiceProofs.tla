-------------------------- MODULE EngineVoiceProofs --------------------------
(***************************************************************************)
(* Theorems about one engine, for any notes, any room for them and any     *)
(* time to the sleep.                                                      *)
(*                                                                         *)
(* The properties are about the keys really down and the silence really    *)
(* heard; what the code decides by are the notes it recorded and the       *)
(* blocks it counted.  Inv relates the two: the notes are the keys as long *)
(* as there was room for each, the count is never ahead of the silence.    *)
(***************************************************************************)
EXTENDS EngineVoice, TLAPS

Once(s) == \A i, j \in DOMAIN s : s[i] = s[j] => i = j
Within(s, t) == \A i \in DOMAIN s : \E j \in DOMAIN t : s[i] = t[j]

HeldInv == Once(held) /\ Within(held, keys) /\ (~crowded => held = keys)
GateInv ==
    ~isFxMachine /\ ~crowded => IF held # <<>> THEN gate \in {Last(held), "init"} ELSE gate = "off"
MuteInv ==
    /\ fxIn => ~muted
    /\ unplayed => muted /\ ~heard
    /\ muted /\ ~crowded => unplayed
ParkInv ==
    /\ parked <=> silentBlocks = kParkAfterBlocks
    /\ ~crowded => silentBlocks <= quietBlocks
    /\ parked /\ ~crowded => ~Down \/ woken
    /\ last = "command" => woken
Inv == TypeOK /\ HeldInv /\ GateInv /\ MuteInv /\ ParkInv

-----------------------------------------------------------------------------
(* What Without does.                                                      *)

\* It is again a sequence of notes, no longer than before.
LEMMA WithoutType ==
    ASSUME NEW s \in Seq(Notes), NEW n
    PROVE  Without(s, n) \in Seq(Notes) /\ Len(Without(s, n)) <= Len(s)
  <1>1. CASE \E i \in DOMAIN s : s[i] = n
    <2> DEFINE i == CHOOSE i \in DOMAIN s : s[i] = n
               w == [j \in 1 .. Len(s) - 1 |-> s[IF j < i THEN j ELSE j + 1]]
    <2>1. i \in 1 .. Len(s) /\ Without(s, n) = w
      BY <1>1 DEF Without
    <2>2. Len(s) - 1 \in Nat /\ \A j \in 1 .. Len(s) - 1 : (IF j < i THEN j ELSE j + 1) \in 1 .. Len(s)
      BY <2>1
    <2>3. w \in [1 .. Len(s) - 1 -> Notes]
      BY <2>2
    <2>4. w \in Seq(Notes) /\ Len(w) = Len(s) - 1
      BY <2>2, <2>3
    <2> QED
      BY <2>1, <2>4
  <1>2. CASE ~\E i \in DOMAIN s : s[i] = n
    BY <1>2 DEF Without
  <1> QED
    BY <1>1, <1>2

\* It keeps every other note, takes n away and adds nothing.
LEMMA WithoutKeeps ==
    ASSUME NEW s \in Seq(Notes), NEW n, Once(s)
    PROVE  /\ Once(Without(s, n))
           /\ \A j \in DOMAIN Without(s, n) : Without(s, n)[j] # n /\ \E k \in DOMAIN s : s[k] = Without(s, n)[j]
           /\ s # <<>> /\ Last(s) # n => Without(s, n) # <<>> /\ Last(Without(s, n)) = Last(s)
  <1>1. CASE \E i \in DOMAIN s : s[i] = n
    <2> DEFINE i == CHOOSE i \in DOMAIN s : s[i] = n
               w == [j \in 1 .. Len(s) - 1 |-> s[IF j < i THEN j ELSE j + 1]]
    <2>1. i \in 1 .. Len(s) /\ s[i] = n /\ Without(s, n) = w
      BY <1>1 DEF Without
    <2>2. w \in Seq(Notes) /\ DOMAIN w = 1 .. Len(s) - 1 /\ Len(s) \in Nat
      BY <2>1, WithoutType
    <2> HIDE DEF i
    <2>3. \A j \in DOMAIN w : LET k == IF j < i THEN j ELSE j + 1
                              IN  k \in 1 .. Len(s) /\ k # i /\ w[j] = s[k]
      BY <2>1, <2>2
    <2> HIDE DEF w
    <2>4. Once(w)
      BY <2>1, <2>2, <2>3, SMTT(30) DEF Once
    <2>5. \A j \in DOMAIN w : w[j] # n /\ \E k \in DOMAIN s : s[k] = w[j]
      BY <2>1, <2>3 DEF Once
    <2>6. ASSUME s # <<>>, Last(s) # n PROVE w # <<>> /\ Last(w) = Last(s)
      <3>1. Len(s) \in 1 .. Len(s) /\ Len(s) # i
        BY <2>1, <2>6 DEF Last
      <3>2. Len(w) = Len(s) - 1 /\ Len(w) >= 1 /\ ~(Len(w) < i)
        BY <2>1, <2>2, <3>1
      <3>3. Len(w) \in DOMAIN w /\ w[Len(w)] = s[Len(s)]
        BY <2>2, <2>3, <3>2
      <3>4. w # <<>>
        BY <2>2, <3>2
      <3> QED
        BY <3>3, <3>4 DEF Last
    <2> QED
      BY <2>1, <2>4, <2>5, <2>6
  <1>2. CASE ~\E i \in DOMAIN s : s[i] = n
    BY <1>2 DEF Without
  <1> QED
    BY <1>1, <1>2

\* Every other note of s is still there.
LEMMA WithoutHas ==
    ASSUME NEW s \in Seq(Notes), NEW n, NEW k \in DOMAIN s, s[k] # n
    PROVE  \E j \in DOMAIN Without(s, n) : Without(s, n)[j] = s[k]
  <1>1. CASE \E i \in DOMAIN s : s[i] = n
    <2> DEFINE i == CHOOSE i \in DOMAIN s : s[i] = n
               w == [j \in 1 .. Len(s) - 1 |-> s[IF j < i THEN j ELSE j + 1]]
               j == IF k < i THEN k ELSE k - 1
    <2>1. i \in 1 .. Len(s) /\ s[i] = n /\ Without(s, n) = w
      BY <1>1 DEF Without
    <2> HIDE DEF i
    <2>2. k # i /\ k \in 1 .. Len(s) /\ Len(s) \in Nat
      BY <2>1
    <2>3. j \in 1 .. Len(s) - 1 /\ w[j] = s[k]
      BY <2>1, <2>2
    <2> QED
      BY <2>1, <2>3
  <1>2. CASE ~\E i \in DOMAIN s : s[i] = n
    BY <1>2 DEF Without
  <1> QED
    BY <1>1, <1>2

-----------------------------------------------------------------------------
(* Silence.                                                                *)

\* outputSilent is exactly "rounds to 0 at 16 bits".
LEMMA SilentIsUnheard == \A v \in Samples : outputSilent(v) <=> toS16(v) = 0
  BY DEF Samples, outputSilent, toS16

LEMMA ZeroIsUnheard == toS16(0) = 0
  BY DEF toS16

-----------------------------------------------------------------------------
(* One step of the engine: Inv part by part.                               *)

LEMMA VoiceInit == Init => Inv
  <1> SUFFICES ASSUME Init PROVE Inv
    OBVIOUS
  <1>1. TypeOK
    <2>1. held \in Seq(Notes) /\ keys \in Seq(Notes) /\ Len(held) <= kHeldNotes
      BY VoiceAssumption DEF Init
    <2>2. silentBlocks \in 0 .. kParkAfterBlocks /\ quietBlocks \in 0 .. kParkAfterBlocks
      BY VoiceAssumption DEF Init
    <2> QED
      BY <2>1, <2>2 DEF Init, TypeOK
  <1>2. HeldInv
    BY DEF Init, HeldInv, Once, Within
  <1>3. GateInv /\ MuteInv /\ ParkInv
    BY VoiceAssumption DEF Init, GateInv, MuteInv, ParkInv, Down
  <1> QED
    BY <1>1, <1>2, <1>3 DEF Inv

\* A command as the notes, the gate and the mute see it.
LEMMA NoteOnNext == ASSUME Inv, NEW n \in Notes, NoteOn(n), fxIn' = fxIn PROVE Inv'
  <1> DEFINE others == Without(held, n)
  <1>1. others \in Seq(Notes) /\ Len(others) <= Len(held)
    BY WithoutType DEF Inv, TypeOK
  <1>2. Without(keys, n) \in Seq(Notes) /\ Len(held) \in Nat /\ Len(others) \in Nat
    BY <1>1, WithoutType DEF Inv, TypeOK
  <1>3. held' = (IF Len(others) < kHeldNotes THEN Append(others, n) ELSE others)
        /\ crowded' = (crowded \/ Len(others) >= kHeldNotes)
        /\ keys' = Append(Without(keys, n), n) /\ gate' = n /\ muted' = FALSE /\ unplayed' = FALSE
    BY DEF NoteOn
  <1>4. Len(Append(others, n)) = Len(others) + 1 /\ Append(others, n) \in Seq(Notes)
        /\ keys' \in Seq(Notes) /\ keys' # <<>>
    BY <1>1, <1>2, <1>3
  <1>5. held' \in Seq(Notes) /\ Len(held') <= kHeldNotes
    BY <1>1, <1>2, <1>3, <1>4, VoiceAssumption DEF Inv, TypeOK
  <1>6. TypeOK'
    BY <1>3, <1>4, <1>5 DEF Inv, TypeOK, NoteOn, Command, parkVars
  <1>7. Once(others) /\ \A j \in DOMAIN others : others[j] # n /\ \E k \in DOMAIN held : held[k] = others[j]
    BY WithoutKeeps DEF Inv, TypeOK, HeldInv
  <1>8. Once(Append(others, n)) /\ Once(held')
    <2> HIDE DEF others
    <2> DEFINE longer == Append(others, n)
    <2>1. /\ DOMAIN others = 1 .. Len(others) /\ DOMAIN longer = 1 .. Len(others) + 1
          /\ \A i \in 1 .. Len(others) : longer[i] = others[i]
          /\ longer[Len(others) + 1] = n
      BY <1>1, <1>2
    <2> HIDE DEF longer
    <2>2. Once(longer)
      BY <1>2, <1>7, <2>1 DEF Once
    <2> QED
      BY <1>3, <1>7, <2>2 DEF longer
  <1>9. Within(others, Without(keys, n))
    <2> SUFFICES ASSUME NEW i \in DOMAIN others
                 PROVE  \E j \in DOMAIN Without(keys, n) : others[i] = Without(keys, n)[j]
      BY DEF Within
    <2>1. PICK k \in DOMAIN held : held[k] = others[i] /\ others[i] # n
      BY <1>7
    <2>2. PICK l \in DOMAIN keys : keys[l] = others[i]
      BY <2>1 DEF Inv, HeldInv, Within
    <2>3. \E j \in DOMAIN Without(keys, n) : Without(keys, n)[j] = keys[l]
      BY <2>1, <2>2, WithoutHas, SMTT(30) DEF Inv, TypeOK
    <2> QED
      BY <2>2, <2>3
  <1>10. \A i \in DOMAIN Without(keys, n) : i \in DOMAIN keys' /\ keys'[i] = Without(keys, n)[i]
    BY <1>2, <1>3
  <1>11. Len(keys') \in DOMAIN keys' /\ keys'[Len(keys')] = n
    BY <1>2, <1>3
  <1>12. Within(others, keys')
    BY <1>9, <1>10 DEF Within
  <1>13. Within(Append(others, n), keys')
    <2> SUFFICES ASSUME NEW i \in DOMAIN Append(others, n)
                 PROVE  \E j \in DOMAIN keys' : Append(others, n)[i] = keys'[j]
      BY DEF Within
    <2>1. CASE i \in DOMAIN others
      BY <1>1, <1>12, <2>1 DEF Within
    <2>2. CASE i \notin DOMAIN others
      BY <1>1, <1>11, <2>2
    <2> QED
      BY <2>1, <2>2
  <1>14. ASSUME ~crowded' PROVE held' = keys'
    <2>1. ~crowded /\ ~(Len(others) >= kHeldNotes)
      BY <1>3, <1>14
    <2>2. Len(others) < kHeldNotes /\ held = keys
      BY <1>2, <2>1, VoiceAssumption DEF Inv, HeldInv
    <2> QED
      BY <1>3, <2>2
  <1>15. HeldInv'
    BY <1>3, <1>8, <1>12, <1>13, <1>14 DEF HeldInv
  <1>16. GateInv'
    BY <1>3, <1>4, <1>11, <1>14 DEF GateInv, Last
  <1>17. MuteInv'
    BY <1>3 DEF MuteInv
  <1>18. ParkInv'
    BY <1>3 DEF Inv, ParkInv, NoteOn, Command, parkVars
  <1> QED
    BY <1>6, <1>15, <1>16, <1>17, <1>18 DEF Inv

LEMMA NoteOffNext == ASSUME Inv, NEW n \in Notes, NoteOff(n), fxIn' = fxIn PROVE Inv'
  <1>1. held' = Without(held, n) /\ keys' = Without(keys, n)
        /\ UNCHANGED <<assigned, muted, unplayed, crowded, parked, silentBlocks, quietBlocks, input, fxIn>>
        /\ woken' = TRUE /\ last' = "command" /\ heard' = FALSE
    BY DEF NoteOff, Command, parkVars
  <1>2. held' \in Seq(Notes) /\ Len(held') <= kHeldNotes /\ keys' \in Seq(Notes)
    <2>1. held' \in Seq(Notes) /\ Len(held') <= Len(held) /\ keys' \in Seq(Notes)
      BY <1>1, WithoutType DEF Inv, TypeOK
    <2>2. Len(held') \in Nat /\ Len(held) \in Nat /\ Len(held) <= kHeldNotes
      BY <2>1 DEF Inv, TypeOK
    <2> QED
      BY <2>1, <2>2, VoiceAssumption
  <1>3. Once(held') /\ \A j \in DOMAIN held' : held'[j] # n /\ \E k \in DOMAIN held : held[k] = held'[j]
    BY <1>1, WithoutKeeps DEF Inv, TypeOK, HeldInv
  <1>4. held # <<>> /\ Last(held) # n => held' # <<>> /\ Last(held') = Last(held)
    BY <1>1, WithoutKeeps DEF Inv, TypeOK, HeldInv
  <1>5. Within(held', keys')
    <2> SUFFICES ASSUME NEW i \in DOMAIN held'
                 PROVE  \E j \in DOMAIN keys' : held'[i] = keys'[j]
      BY DEF Within
    <2>1. PICK k \in DOMAIN held : held[k] = held'[i] /\ held'[i] # n
      BY <1>3
    <2>2. PICK l \in DOMAIN keys : keys[l] = held'[i]
      BY <2>1 DEF Inv, HeldInv, Within
    <2> QED
      BY <1>1, <2>1, <2>2, WithoutHas DEF Inv, TypeOK
  <1>6. HeldInv'
    BY <1>1, <1>3, <1>5 DEF Inv, HeldInv
  <1>7. gate' = IF isFxMachine THEN gate
                ELSE IF held' = <<>> THEN "off"
                ELSE IF held # <<>> /\ Last(held) = n THEN Last(held') ELSE gate
    BY DEF NoteOff
  <1>8. held' # <<>> => Last(held') \in Notes
    BY <1>2 DEF Last
  <1>9. gate' \in Notes \cup {"off", "init", "open"}
    BY <1>7, <1>8 DEF Inv, TypeOK
  <1>10. TypeOK'
    BY <1>1, <1>2, <1>9 DEF Inv, TypeOK
  <1>11. held' # <<>> => held # <<>>
    BY <1>2, <1>3
  <1>12. GateInv'
    BY <1>1, <1>4, <1>7, <1>11 DEF Inv, GateInv, isFxMachine
  <1>13. MuteInv' /\ ParkInv'
    BY <1>1 DEF Inv, MuteInv, ParkInv
  <1> QED
    BY <1>6, <1>10, <1>12, <1>13 DEF Inv

LEMMA OtherCommandsNext ==
    ASSUME Inv, AllNotesOff \/ SetMachine \/ SetValue, fxIn' = fxIn
    PROVE  Inv'
  <1>1. ASSUME AllNotesOff PROVE Inv'
    <2>1. held' \in Seq(Notes) /\ keys' \in Seq(Notes) /\ Len(held') <= kHeldNotes
      BY <1>1, VoiceAssumption DEF AllNotesOff
    <2>4. gate' \in Notes \cup {"off", "init", "open"}
      BY <1>1 DEF Inv, TypeOK, AllNotesOff
    <2>5. TypeOK'
      BY <1>1, <2>1, <2>4 DEF Inv, TypeOK, AllNotesOff, Command, parkVars
    <2>2. HeldInv'
      BY <1>1 DEF HeldInv, Once, Within, AllNotesOff
    <2>3. GateInv' /\ MuteInv' /\ ParkInv'
      BY <1>1 DEF Inv, GateInv, MuteInv, ParkInv, AllNotesOff, Command, parkVars, isFxMachine, Down
    <2> QED
      BY <2>2, <2>3, <2>5 DEF Inv
  <1>2. ASSUME SetMachine PROVE Inv'
    <2>1. TypeOK'
      BY <1>2 DEF Inv, TypeOK, SetMachine, Command, parkVars, Assigned, Down
    <2>2. HeldInv'
      BY <1>2 DEF Inv, HeldInv, SetMachine
    <2>3. keys = <<>> => held = <<>>
      <3> SUFFICES ASSUME keys = <<>>, held # <<>> PROVE FALSE
        OBVIOUS
      <3>1. held \in Seq(Notes) /\ Len(held) \in Nat /\ Len(held) # 0
        BY DEF Inv, TypeOK
      <3>2. 1 \in DOMAIN held /\ DOMAIN keys = {}
        BY <3>1
      <3> QED
        BY <3>2 DEF Inv, HeldInv, Within
    <2>4. GateInv'
      BY <1>2 DEF Inv, GateInv, SetMachine, isFxMachine, Assigned
    <2>5. MuteInv'
      BY <1>2, <2>3 DEF Inv, TypeOK, HeldInv, MuteInv, SetMachine, Command, Down
    <2>6. ParkInv'
      BY <1>2 DEF Inv, ParkInv, SetMachine, Command, parkVars
    <2> QED
      BY <2>1, <2>2, <2>4, <2>5, <2>6 DEF Inv
  <1>3. ASSUME SetValue PROVE Inv'
    <2>1. TypeOK'
      BY <1>3 DEF Inv, TypeOK, SetValue, Command, parkVars, noteVars
    <2>2. HeldInv' /\ GateInv' /\ MuteInv' /\ ParkInv'
      BY <1>3 DEF Inv, HeldInv, GateInv, MuteInv, ParkInv, SetValue, Command, parkVars, noteVars, isFxMachine,
                  Once, Within
    <2> QED
      BY <2>1, <2>2 DEF Inv
  <1> QED
    BY <1>1, <1>2, <1>3

LEMMA BlockNext ==
    ASSUME Inv, NEW in \in BOOLEAN, NEW v \in Samples, Skip(in) \/ Render(in, v), fxIn' = fxIn
    PROVE  Inv'
  <1> USE VoiceAssumption
  <1>1. UNCHANGED noteVars /\ fxIn' = fxIn
    BY DEF Skip, Render
  <1>2. HeldInv' /\ GateInv'
    BY <1>1 DEF Inv, HeldInv, GateInv, noteVars, isFxMachine, Once, Within
  <1>3. quietBlocks \in 0 .. kParkAfterBlocks /\ silentBlocks \in 0 .. kParkAfterBlocks
    BY DEF Inv, TypeOK
  <1>4. Quiet(in) \in 0 .. kParkAfterBlocks
    BY <1>3 DEF Quiet
  <1>5. ASSUME Skip(in) PROVE TypeOK' /\ MuteInv' /\ ParkInv'
    <2>1. TypeOK'
      BY <1>1, <1>4, <1>5 DEF Inv, TypeOK, Skip, noteVars, parkVars
    <2>2. MuteInv'
      BY <1>1, <1>5 DEF Inv, MuteInv, Skip, noteVars
    <2>3. ~crowded => Quiet(in) >= quietBlocks /\ ~Down
      BY <1>1, <1>3, <1>5 DEF Inv, ParkInv, Skip, Sleeping, Quiet
    <2>4. quietBlocks' = Quiet(in) /\ last' = "skip" /\ UNCHANGED <<parked, silentBlocks, crowded, keys>>
      BY <1>1, <1>5 DEF Skip, parkVars, noteVars
    <2>5. ParkInv'
      BY <1>3, <1>4, <2>3, <2>4 DEF Inv, ParkInv, Down
    <2> QED
      BY <2>1, <2>2, <2>5
  <1>6. ASSUME Render(in, v) PROVE TypeOK' /\ MuteInv' /\ ParkInv'
    <2> DEFINE silent == IF parked THEN 0 ELSE silentBlocks
               out == IF muted THEN 0 ELSE v
               idle == outputSilent(out) /\ ~in /\ held = <<>>
    <2>1. /\ silentBlocks' = IF idle THEN silent + 1 ELSE 0
          /\ parked' = (silentBlocks' >= kParkAfterBlocks)
          /\ heard' = (toS16(out) # 0) /\ quietBlocks' = Quiet(in)
          /\ last' = "render" /\ input' = in /\ woken' = FALSE
      BY <1>6 DEF Render
    <2>2. silent + 1 \in 1 .. kParkAfterBlocks
      BY <1>3 DEF Inv, ParkInv
    <2>3. silentBlocks' \in 0 .. kParkAfterBlocks
      BY <2>1, <2>2
    <2>4. TypeOK'
      <3>0. (silentBlocks' >= kParkAfterBlocks) \in BOOLEAN /\ (toS16(out) # 0) \in BOOLEAN
        OBVIOUS
      <3>1. parked' \in BOOLEAN /\ heard' \in BOOLEAN /\ woken' \in BOOLEAN /\ input' \in BOOLEAN
        BY <2>1, <3>0, Zenon
      <3>2. quietBlocks' \in 0 .. kParkAfterBlocks /\ last' \in {"command", "render", "skip"}
        BY <1>4, <2>1
      <3> QED
        BY <1>1, <2>3, <3>1, <3>2 DEF Inv, TypeOK, noteVars
    <2>5. out \in Samples
      BY DEF Samples
    <2>6. MuteInv'
      <3>1. muted => ~heard'
        BY <2>1, ZeroIsUnheard
      <3> QED
        BY <1>1, <3>1 DEF Inv, MuteInv, noteVars
    <2>7. idle /\ ~crowded => ~heard' /\ ~Down
      BY <2>1, <2>5, SilentIsUnheard DEF Inv, HeldInv, Down
    <2>8. idle /\ ~crowded => silentBlocks' <= quietBlocks' /\ ~Down
      BY <1>3, <2>1, <2>2, <2>7 DEF Inv, ParkInv, Quiet
    <2>9. ~idle => silentBlocks' = 0
      BY <2>1
    <2>10. UNCHANGED <<crowded, keys>>
      BY <1>1 DEF noteVars
    <2>11. ParkInv'
      <3>0. parked' <=> silentBlocks' >= kParkAfterBlocks
        BY <2>1, Zenon
      <3>1. parked' <=> silentBlocks' = kParkAfterBlocks
        BY <2>3, <3>0
      <3>2. ~crowded => silentBlocks' <= quietBlocks'
        BY <1>4, <2>1, <2>8, <2>9
      <3>3. parked' => idle
        BY <2>9, <3>1
      <3> QED
        BY <2>1, <2>8, <2>10, <3>1, <3>2, <3>3 DEF ParkInv, Down
    <2> QED
      BY <2>4, <2>6, <2>11
  <1> QED
    BY <1>2, <1>5, <1>6 DEF Inv

LEMMA VoiceStep == Inv /\ [Next]_vars => Inv'
  <1> SUFFICES ASSUME Inv, [Next]_vars PROVE Inv'
    OBVIOUS
  <1>1. ASSUME NEW msg \in Messages, Midi(msg), fxIn' = fxIn PROVE Inv'
    <2>1. (msg.status = NoteOnStatus \/ msg.status = NoteOffStatus) => msg.data1 \in Notes
      BY DEF Messages, NoteOnStatus, NoteOffStatus, ControlStatus
    <2> QED
      BY <1>1, <2>1, NoteOnNext, NoteOffNext, OtherCommandsNext DEF Midi
  <1>2. ASSUME SetMachine \/ SetValue, fxIn' = fxIn PROVE Inv'
    BY <1>2, OtherCommandsNext
  <1>3. ASSUME Block, fxIn' = fxIn PROVE Inv'
    <2>1. PICK in \in BOOLEAN, v \in Samples : Skip(in) \/ Render(in, v)
      BY <1>3 DEF Block
    <2> QED
      BY <1>3, <2>1, BlockNext
  <1>4. ASSUME UNCHANGED vars PROVE Inv'
    BY <1>4 DEF Inv, TypeOK, HeldInv, GateInv, MuteInv, ParkInv, Once, Within, isFxMachine, Down, vars,
                noteVars, parkVars
  <1> QED
    BY <1>1, <1>2, <1>3, <1>4 DEF Next, PlayNotes

THEOREM VoiceInductive == Spec => []Inv
  BY VoiceInit, VoiceStep, PTL DEF Spec

-----------------------------------------------------------------------------
(* The theorems.                                                           *)

\* The engine's state keeps its type: no more notes than there is room for, no count past the limit.
THEOREM VoiceTypeCorrect == Spec => []TypeOK
  <1>1. Inv => TypeOK
    BY DEF Inv
  <1> QED
    BY <1>1, VoiceInductive, PTL

\* Last-note priority (applyCmd): what sounds is the key pressed last of those still down.
THEOREM LastNote == Spec => []LastNotePlays
  <1>1. Inv => LastNotePlays
    BY DEF Inv, HeldInv, GateInv, LastNotePlays, Down
  <1> QED
    BY <1>1, VoiceInductive, PTL

\* Nothing is heard after a machine change that nobody played, and nothing else is muted.
THEOREM NobodyPlayedNothingHeard == Spec => []SilentUntilPlayed
  <1>1. Inv => SilentUntilPlayed
    BY DEF Inv, MuteInv, SilentUntilPlayed
  <1> QED
    BY <1>1, VoiceInductive, PTL

\* Idle parking: an engine sleeps only after kParkAfterBlocks blocks of real silence with no key down.
THEOREM ParksOnlyWhenIdle == Spec => []ParksOnlyIdle
  <1>1. Inv => ParksOnlyIdle
    BY VoiceAssumption DEF Inv, TypeOK, ParkInv, ParksOnlyIdle
  <1> QED
    BY <1>1, VoiceInductive, PTL

\* Neither the block after a command nor a block with input is slept through.
THEOREM AlwaysWakesUp == Spec => WakesUp
  <1>1. Inv /\ [Next]_vars => [last' = "skip" => last # "command" /\ ~input']_vars
    <2> SUFFICES ASSUME Inv, Next, last' = "skip" PROVE last # "command" /\ ~input'
      BY DEF vars
    <2>1. ~PlayNotes /\ ~SetMachine /\ ~SetValue
      BY DEF PlayNotes, Midi, NoteOn, NoteOff, AllNotesOff, SetMachine, SetValue, Command
    <2>2. PICK in \in BOOLEAN : Skip(in)
      BY <2>1 DEF Next, Block, Render
    <2> QED
      BY <2>2 DEF Inv, ParkInv, Skip, Sleeping
  <1> QED
    BY <1>1, VoiceInductive, PTL DEF Spec, WakesUp
=============================================================================
