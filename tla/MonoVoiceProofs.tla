--------------------------- MODULE MonoVoiceProofs ---------------------------
(***************************************************************************)
(* Theorems about a voice and its DSP engine, for any block and call size, *)
(* any number of pre-warm and warm-up blocks and any number of calls.      *)
(***************************************************************************)
EXTENDS MonoVoice, FiniteSetTheorems, TLAPS

-----------------------------------------------------------------------------
(* The DSP.                                                                *)

LEMMA ZerosType == Zeros \in [Offsets -> Int]
  BY DEF Zeros, Silence

\* The host port between two runs: no word left, the program waiting for one.
Idle(d) == ~d.faulted => d.program = "wait" /\ d.rx = 0 /\ d.tx = <<>>

LEMMA OneWord ==
    ASSUME NEW x \in Nat
    PROVE  Append(<<>>, x) = <<x>> /\ Tail(<<x>>) = <<>> /\ Head(<<x>>) = x /\ <<>> \in Seq(Nat)
  <1>1. <<x>> \in Seq(Nat) /\ Len(<<x>>) = 1 /\ <<x>>[1] = x
    OBVIOUS
  <1>2. Tail(<<x>>) \in Seq(Nat) /\ Len(Tail(<<x>>)) = 0
    BY <1>1
  <1>3. Tail(<<x>>) = <<>>
    BY <1>2
  <1> QED
    BY <1>1, <1>3

LEMMA AgeType ==
    ASSUME NEW d \in DspStates
    PROVE  Age(d) \in Nat /\ \A n \in Nat : (\A r \in Memories : d.mem[r] = n) => Age(d) = n
  <1>1. d.mem["X"] \in Nat /\ d.mem["Y"] \in Nat /\ d.mem["buffers"] \in Nat
    BY DEF DspStates, Memories
  <1>2. \E a \in {d.mem[r] : r \in Memories} : \A r \in Memories : d.mem[r] <= a
    <2>1. CASE d.mem["X"] >= d.mem["Y"] /\ d.mem["X"] >= d.mem["buffers"]
      BY <1>1, <2>1 DEF Memories
    <2>2. CASE d.mem["Y"] >= d.mem["X"] /\ d.mem["Y"] >= d.mem["buffers"]
      BY <1>1, <2>2 DEF Memories
    <2>3. CASE d.mem["buffers"] >= d.mem["X"] /\ d.mem["buffers"] >= d.mem["Y"]
      BY <1>1, <2>3 DEF Memories
    <2> QED
      BY <1>1, <2>1, <2>2, <2>3
  <1>3. Age(d) \in {d.mem[r] : r \in Memories}
    BY <1>2 DEF Age
  <1> QED
    BY <1>1, <1>3 DEF Memories

LEMMA BlockType == ASSUME NEW b \in Nat PROVE SynthBlock(b) \in [Offsets -> Int]
  BY DspSizes DEF SynthBlock, Offsets

\* What each part of a reset does to the type.
LEMMA RunTypes ==
    ASSUME NEW d \in DspStates, NEW run \in Runs
    PROVE  RunInit(d) \in DspStates /\ RunPass(d) \in DspStates /\ RunUntilTx(d, run) \in DspStates
  <1>1. RunInit(d) \in DspStates
    <2>1. Append(d.tx, kInitSentinel) \in Seq(Nat)
      BY DEF DspStates, kInitSentinel
    <2>2. [r \in Memories |-> IF r = "Y" THEN d.mem[r] ELSE 0] \in [Memories -> Nat]
      BY DEF DspStates
    <2> QED
      BY <2>1, <2>2 DEF DspStates, RunInit
  <1>2. RunPass(d) \in DspStates
    <2>1. Append(d.tx, kDoneSentinel) \in Seq(Nat) /\ d.rx - 1 \in Int
      BY DEF DspStates, kDoneSentinel
    <2>2. [r \in Memories |-> d.mem[r] + 1] \in [Memories -> Nat]
      BY DEF DspStates
    <2>3. (IF d.block.fx THEN d.adc ELSE SynthBlock(Age(d))) \in [Offsets -> Int]
      BY AgeType, BlockType DEF DspStates
    <2> QED
      BY <2>1, <2>2, <2>3 DEF DspStates, RunPass
  <1>3. Program(d, run.reach) \in DspStates
    <2>1. run.reach \in {"idle", "busy", "done"}
      BY DEF Runs
    <2>2. CASE run.reach = "busy"
      <3>1. (IF d.program = "wait" THEN d.rx - 1 ELSE d.rx) \in Int
        BY DEF DspStates
      <3> QED
        BY <2>2, <3>1 DEF DspStates, Program
    <2>3. CASE run.reach = "idle"
      BY <2>3 DEF Program
    <2>4. CASE run.reach = "done"
      BY <1>1, <1>2, <2>4 DEF Program
    <2> QED
      BY <2>1, <2>2, <2>3, <2>4
  <1>4. RunUntilTx(d, run) \in DspStates
    <2> DEFINE p == Program(d, run.reach)
    <2>1. (p.faulted \/ run.verdict # "ok") \in BOOLEAN /\ (p.jitFailed \/ run.verdict = "jit") \in BOOLEAN
      OBVIOUS
    <2> HIDE DEF p
    <2>2. [p EXCEPT !.faulted = @ \/ run.verdict # "ok", !.jitFailed = @ \/ run.verdict = "jit"] \in DspStates
      BY <1>3, <2>1 DEF DspStates, p
    <2> QED
      BY <2>2 DEF RunUntilTx, p
  <1> QED
    BY <1>1, <1>2, <1>4

LEMMA ImageTypes ==
    ASSUME NEW d \in DspStates
    PROVE  Cleared(d) \in DspStates /\ LoadImage(d) \in DspStates /\ InstallStub(d) \in DspStates
  <1>1. [r \in Memories |-> 0] \in [Memories -> Nat]
    OBVIOUS
  <1>2. [s \in Sites |-> "zero"] \in [Sites -> {"zero", "do", "jmp", "other"}]
        /\ [s \in Sites |-> IF s \in Matching THEN "do" ELSE "other"] \in [Sites -> {"zero", "do", "jmp", "other"}]
    OBVIOUS
  <1>3. Cleared(d) \in DspStates
    BY <1>1, <1>2, ZerosType DEF DspStates, Cleared
  <1>4. LoadImage(d) \in DspStates
    BY <1>2 DEF DspStates, LoadImage
  <1>5. InstallStub(d) \in DspStates
    <2> DEFINE do == {s \in Sites : d.loops[s] = "do"}
    <2>1. Cardinality(do) \in Nat
      BY DspSizes, FS_Subset, FS_CardinalityType
    <2>2. [s \in Sites |-> IF s \in do THEN "jmp" ELSE d.loops[s]] \in [Sites -> {"zero", "do", "jmp", "other"}]
      BY DEF DspStates
    <2>3. SkipIdleLoops(d) \in DspStates
      BY <2>1, <2>2 DEF DspStates, SkipIdleLoops
    <2> QED
      BY <2>3 DEF DspStates, InstallStub
  <1> QED
    BY <1>3, <1>4, <1>5

LEMMA BankTypes ==
    ASSUME NEW d \in DspStates
    PROVE  UploadDigibank(d) \in DspStates /\ SetDigibank(d) \in DspStates
  BY DEF DspStates, UploadDigibank, SetDigibank

\* What the image, the stub and the bank leave alone.
LEMMA ImageKeeps ==
    ASSUME NEW d \in DspStates
    PROVE  UploadDigibank(InstallStub(LoadImage(d))).mem = d.mem
  <1>1. LoadImage(d) \in DspStates /\ LoadImage(d).mem = d.mem
    BY ImageTypes DEF LoadImage, DspStates
  <1>2. ASSUME NEW e \in DspStates PROVE InstallStub(e) \in DspStates /\ InstallStub(e).mem = e.mem
    <2>1. SkipIdleLoops(e).mem = e.mem /\ DOMAIN SkipIdleLoops(e) = DOMAIN e
      BY DEF SkipIdleLoops, DspStates
    <2> QED
      BY <2>1, ImageTypes DEF InstallStub, DspStates
  <1>3. ASSUME NEW e \in DspStates PROVE UploadDigibank(e).mem = e.mem
    BY DEF UploadDigibank, DspStates
  <1> QED
    BY <1>1, <1>2, <1>3

\* A run that was not stopped went all the way.
LEMMA RunDone == ASSUME NEW run \in Runs, run.verdict = "ok" PROVE run.reach = "done"
  BY DEF Runs

LEMMA PortTypes ==
    ASSUME NEW d \in DspStates, NEW words \in Seq(Nat)
    PROVE  [d EXCEPT !.rx = 0, !.tx = words, !.program = "init"] \in DspStates
  <1>1. [d EXCEPT !.rx = 0] \in DspStates
    <2>1. ASSUME NEW n \in Int PROVE [d EXCEPT !.rx = n] \in DspStates
      BY DEF DspStates
    <2>2. 0 \in Int
      OBVIOUS
    <2>3. \A n \in Int : [d EXCEPT !.rx = n] \in DspStates
      BY ONLY <2>1
    <2> QED
      BY ONLY <2>2, <2>3, Zenon
  <1>2. ASSUME NEW e \in DspStates PROVE [e EXCEPT !.tx = words] \in DspStates
    BY DEF DspStates
  <1>3. ASSUME NEW e \in DspStates PROVE [e EXCEPT !.program = "init"] \in DspStates
    BY DEF DspStates
  <1>4. [d EXCEPT !.rx = 0, !.tx = words, !.program = "init"]
            = [[[d EXCEPT !.rx = 0] EXCEPT !.tx = words] EXCEPT !.program = "init"]
    BY DEF DspStates
  <1> QED
    BY <1>1, <1>2, <1>3, <1>4

\* A reset that does not throw leaves nothing on the port and the kernel's memories cleared; a memory the
\* kernel does not clear is what it was.
LEMMA ResetTurn ==
    ASSUME NEW d \in DspStates, NEW clear \in BOOLEAN, NEW run \in Runs
    PROVE  LET e == Reset(d, clear, run)
           IN  /\ e \in DspStates /\ Idle(e)
               /\ ~e.faulted => /\ e.mem["X"] = 0 /\ e.mem["buffers"] = 0
                                /\ e.mem["Y"] = IF clear THEN 0 ELSE d.mem["Y"]
  <1> DEFINE start == IF clear THEN Cleared(d) ELSE d
             loaded == UploadDigibank(InstallStub(LoadImage(start)))
             quiet == [loaded EXCEPT !.faulted = FALSE, !.adc = Zeros]
             ready == [quiet EXCEPT !.rx = 0, !.tx = <<>>, !.program = "init"]
             ran == RunUntilTx(ready, run)
             e == IF ran.faulted THEN ran ELSE [ran EXCEPT !.tx = Tail(@)]
  <1>1. Reset(d, clear, run) = e
    BY DEF Reset
  <1>2. start \in DspStates
    BY ImageTypes
  <1>3. loaded \in DspStates /\ loaded.mem = start.mem
    <2> HIDE DEF start
    <2> QED
      BY <1>2, ImageTypes, BankTypes, ImageKeeps
  <1>4. start.mem["Y"] = IF clear THEN 0 ELSE d.mem["Y"]
    BY DEF Cleared, DspStates, Memories
  <1> HIDE DEF start, loaded
  <1>5. ready \in DspStates /\ ready.mem = start.mem /\ ready.tx = <<>> /\ ready.program = "init" /\ ready.rx = 0
        /\ ready.faulted = FALSE
    <2>1. quiet \in DspStates /\ quiet.mem = loaded.mem /\ quiet.faulted = FALSE
      BY <1>3, ZerosType DEF DspStates
    <2> HIDE DEF quiet
    <2>2. <<>> \in Seq(Nat)
      BY OneWord
    <2>3. ready \in DspStates
      BY <2>1, <2>2, PortTypes
    <2>4. ready.mem = quiet.mem /\ ready.tx = <<>> /\ ready.program = "init" /\ ready.rx = 0
          /\ ready.faulted = FALSE
      BY <2>1 DEF DspStates
    <2> QED
      BY <1>3, <2>1, <2>3, <2>4
  <1> HIDE DEF ready
  <1>6. ran \in DspStates
    BY <1>5, RunTypes
  <1>7. ASSUME run.verdict = "ok"
        PROVE  ran.tx = <<kInitSentinel>> /\ ran.program = "wait" /\ ran.rx = 0
               /\ ran.mem = [r \in Memories |-> IF r = "Y" THEN start.mem[r] ELSE 0]
    <2> DEFINE q == RunInit(ready)
    <2>1. Program(ready, run.reach) = q
      BY <1>5, <1>7, RunDone DEF Program
    <2>2. q \in DspStates /\ q.tx = <<kInitSentinel>> /\ q.program = "wait" /\ q.rx = 0
          /\ q.mem = [r \in Memories |-> IF r = "Y" THEN start.mem[r] ELSE 0]
      <3>1. Append(ready.tx, kInitSentinel) = <<kInitSentinel>>
        BY <1>5, OneWord DEF kInitSentinel
      <3> QED
        BY <1>5, <3>1, RunTypes, ZenonT(40) DEF RunInit, DspStates
    <2> HIDE DEF q
    <2>3. ran = [q EXCEPT !.faulted = @ \/ run.verdict # "ok", !.jitFailed = @ \/ run.verdict = "jit"]
      BY <1>5, <2>1 DEF RunUntilTx
    <2> QED
      BY <2>2, <2>3 DEF DspStates
  <1>8. ASSUME run.verdict # "ok" PROVE ran.faulted
    <2> DEFINE q == Program(ready, run.reach)
    <2>1. ran = [q EXCEPT !.faulted = @ \/ run.verdict # "ok", !.jitFailed = @ \/ run.verdict = "jit"]
      BY <1>5 DEF RunUntilTx
    <2>2. "faulted" \in DOMAIN ran
      BY <1>6 DEF DspStates
    <2>3. "faulted" \in DOMAIN q
      BY <2>1, <2>2
    <2> HIDE DEF q
    <2> QED
      BY <1>8, <2>1, <2>3
  <1> HIDE DEF ran
  <1>9. CASE ran.faulted
    BY <1>1, <1>6, <1>9 DEF Idle
  <1>10. CASE ~ran.faulted
    <2>1. run.verdict = "ok"
      BY <1>8, <1>10
    <2>6. kInitSentinel \in Nat
      BY DEF kInitSentinel
    <2>2. ran.tx = <<kInitSentinel>> /\ Tail(ran.tx) = <<>> /\ <<>> \in Seq(Nat)
      BY <1>7, <2>1, <2>6, OneWord
    <2>3. e = [ran EXCEPT !.tx = <<>>]
      BY <1>10, <2>2
    <2>4. e \in DspStates /\ e.tx = <<>> /\ e.program = "wait" /\ e.rx = 0 /\ e.mem = ran.mem
      BY <1>6, <1>7, <2>1, <2>2, <2>3 DEF DspStates
    <2>5. e.mem["X"] = 0 /\ e.mem["buffers"] = 0 /\ e.mem["Y"] = start.mem["Y"]
      BY <1>7, <2>1, <2>4 DEF Memories
    <2> QED
      BY <1>1, <1>4, <2>4, <2>5 DEF Idle
  <1> QED
    BY <1>9, <1>10

\* A block from a DSP whose port is idle leaves it idle; one that does not fault is made of the DSP's
\* age, or of the input it was given, and makes every memory one block older.
LEMMA RenderTurn ==
    ASSUME NEW d \in DspStates, Idle(d), NEW fx \in BOOLEAN, NEW run \in Runs
    PROVE  LET e == DspRenderBlock(d, [fx |-> fx], run)
           IN  /\ e \in DspStates /\ Idle(e)
               /\ ~e.faulted => /\ ~d.faulted
                                /\ e.mem = [r \in Memories |-> d.mem[r] + 1]
                                /\ e.out = IF fx THEN d.adc ELSE SynthBlock(Age(d))
  <1> DEFINE given == [d EXCEPT !.block = [fx |-> fx], !.rx = @ + 1]
             ran == RunUntilTx(given, run)
             e == DspRenderBlock(d, [fx |-> fx], run)
  <1>1. CASE d.faulted
    BY <1>1 DEF DspRenderBlock, Idle
  <1>2. CASE ~d.faulted
    <2>1. given \in DspStates /\ given.mem = d.mem /\ given.adc = d.adc /\ given.block.fx = fx
          /\ given.rx = 1 /\ given.tx = <<>> /\ given.program = "wait" /\ ~given.faulted
      <3>1. d.program = "wait" /\ d.rx = 0 /\ d.tx = <<>>
        BY <1>2 DEF Idle
      <3>2. [fx |-> fx] \in [fx: BOOLEAN] /\ [fx |-> fx].fx = fx /\ d.rx + 1 \in Int /\ d.rx + 1 = 1
        BY <3>1
      <3> QED
        BY <1>2, <3>1, <3>2 DEF DspStates
    <2>2. e = IF ran.faulted THEN ran
              ELSE [ran EXCEPT !.tx = Tail(@), !.faulted = Head(ran.tx) # kDoneSentinel]
      BY <1>2 DEF DspRenderBlock
    <2> HIDE DEF given, e
    <2>3. ran \in DspStates
      BY <2>1, RunTypes
    <2>4. ran = [Program(given, run.reach) EXCEPT !.faulted = @ \/ run.verdict # "ok",
                                                  !.jitFailed = @ \/ run.verdict = "jit"]
      BY <2>1 DEF RunUntilTx
    <2>5. ASSUME run.verdict # "ok" PROVE ran.faulted
      <3> DEFINE q == Program(given, run.reach)
      <3>1. "faulted" \in DOMAIN ran
        BY <2>3 DEF DspStates
      <3>2. "faulted" \in DOMAIN q
        BY <2>4, <3>1
      <3> HIDE DEF q, ran
      <3> QED
        BY <2>4, <2>5, <3>2 DEF q
    <2>6. ASSUME run.verdict = "ok"
          PROVE  /\ ran.tx = <<kDoneSentinel>> /\ ran.rx = 0 /\ ran.program = "wait" /\ ~ran.faulted
                 /\ ran.mem = [r \in Memories |-> d.mem[r] + 1]
                 /\ ran.out = IF fx THEN d.adc ELSE SynthBlock(Age(d))
      <3> DEFINE q == RunPass(given)
      <3>1. Program(given, run.reach) = q
        BY <2>1, <2>6, RunDone DEF Program
      <3>2. Age(given) = Age(d)
        BY <2>1 DEF Age
      <3>3. Append(given.tx, kDoneSentinel) = <<kDoneSentinel>> /\ given.rx - 1 = 0
        BY <2>1, OneWord DEF kDoneSentinel
      <3>4. q \in DspStates
        BY <2>1, RunTypes
      <3>5. /\ q.tx = <<kDoneSentinel>> /\ q.rx = 0 /\ q.program = "wait" /\ ~q.faulted
            /\ q.mem = [r \in Memories |-> d.mem[r] + 1]
            /\ q.out = IF fx THEN d.adc ELSE SynthBlock(Age(d))
        BY <2>1, <3>2, <3>3 DEF RunPass, DspStates
      <3> HIDE DEF q, ran
      <3>6. ran = [q EXCEPT !.faulted = @ \/ run.verdict # "ok", !.jitFailed = @ \/ run.verdict = "jit"]
        BY <2>4, <3>1
      <3> QED
        BY <2>6, <3>4, <3>5, <3>6 DEF DspStates
    <2> HIDE DEF ran
    <2>7. CASE ran.faulted
      BY <2>2, <2>3, <2>7 DEF Idle, e
    <2>8. CASE ~ran.faulted
      <3>1. run.verdict = "ok"
        BY <2>5, <2>8
      <3>2. kDoneSentinel \in Nat
        BY DEF kDoneSentinel
      <3>3. Tail(ran.tx) = <<>> /\ Head(ran.tx) = kDoneSentinel /\ <<>> \in Seq(Nat)
        BY <2>6, <3>1, <3>2, OneWord
      <3>4. e = [ran EXCEPT !.tx = <<>>, !.faulted = FALSE]
        BY <2>2, <2>8, <3>3
      <3>5. e \in DspStates /\ e.tx = <<>> /\ e.rx = ran.rx /\ e.program = ran.program /\ ~e.faulted
            /\ e.mem = ran.mem /\ e.out = ran.out
        BY <2>3, <3>3, <3>4 DEF DspStates
      <3> QED
        BY <1>2, <2>6, <3>1, <3>5 DEF Idle, e
    <2> QED
      BY <2>7, <2>8
  <1> QED
    BY <1>1, <1>2

-----------------------------------------------------------------------------
(* The types and the host port's turns.                                    *)

\* Between calls the FIFO's two counters say the same; the warm-up ends with its last block.
Counters ==
    /\ avail > 0 => pos + avail = kBlockFrames
    /\ boot = "warmup" => left \in 1 .. WarmBlocks
    /\ boot # "ready" => frame = 0 /\ played = 0 /\ since = 0

Turns == TypeOK /\ TurnsKept /\ Counters

\* renderBlock in a voice whose port is idle.
LEMMA RenderTypes ==
    ASSUME NEW d \in DspStates, Idle(d), NEW fx \in BOOLEAN, hostBlocks \in Nat, RenderBlock(d, fx)
    PROVE  /\ hostBlocks' = hostBlocks + 1 /\ hostBlocks' \in Nat
           /\ dsp' \in DspStates /\ Idle(dsp') /\ fifo' \in [Offsets -> Int]
           /\ dsp'.faulted => fifo' = Zeros
           /\ ~dsp'.faulted => /\ ~d.faulted
                              /\ dsp'.mem = [r \in Memories |-> d.mem[r] + 1]
                              /\ fifo' = IF fx THEN d.adc ELSE SynthBlock(Age(d))
  <1>1. PICK run \in Runs : dsp' = DspRenderBlock(d, [fx |-> fx], run)
    BY DEF RenderBlock
  <1>2. fifo' = IF dsp'.faulted THEN Zeros ELSE dsp'.out
    BY DEF RenderBlock
  <1>3. dsp' \in DspStates /\ Idle(dsp')
        /\ (~dsp'.faulted => /\ ~d.faulted
                            /\ dsp'.mem = [r \in Memories |-> d.mem[r] + 1]
                            /\ dsp'.out = IF fx THEN d.adc ELSE SynthBlock(Age(d)))
    BY <1>1, RenderTurn
  <1>4. dsp'.out \in [Offsets -> Int]
    BY <1>3 DEF DspStates
  <1> QED
    BY <1>2, <1>3, <1>4, ZerosType DEF RenderBlock

LEMMA InputTypes ==
    ASSUME NEW d \in DspStates, NEW frames \in [Offsets -> Int]
    PROVE  LET e == SetInputFrames(d, frames)
           IN  /\ e \in DspStates /\ e.adc = frames /\ e.mem = d.mem /\ e.faulted = d.faulted
               /\ Idle(d) => Idle(e)
  BY DEF SetInputFrames, DspStates, Idle

LEMMA PowerOnType == PowerOn \in DspStates
  <1>1. [s \in Sites |-> "zero"] \in [Sites -> {"zero", "do", "jmp", "other"}]
        /\ [r \in Memories |-> 0] \in [Memories -> Nat] /\ [fx |-> FALSE] \in [fx: BOOLEAN]
    OBVIOUS
  <1>2. <<>> \in Seq(Nat)
    BY OneWord
  <1> QED
    BY <1>1, <1>2, ZerosType DEF PowerOn, DspStates

\* resetKeepCode that does not throw leaves every memory cleared.
LEMMA KeepCodeTurn ==
    ASSUME NEW d \in DspStates, NEW run \in Runs
    PROVE  LET e == ResetKeepCode(d, run)
           IN  e \in DspStates /\ Idle(e) /\ (~e.faulted => \A r \in Memories : e.mem[r] = 0)
  <1> DEFINE m == [r \in Memories |-> IF r = "buffers" THEN d.mem[r] ELSE 0]
             q == [d EXCEPT !.mem = m, !.adc = Zeros, !.out = Zeros]
  <1>1. m \in [Memories -> Nat] /\ m["Y"] = 0
    BY DEF DspStates, Memories
  <1> HIDE DEF m
  <1>2. q \in DspStates /\ q.mem = m
    BY <1>1, ZerosType DEF DspStates
  <1>3. ResetKeepCode(d, run) = Reset(q, FALSE, run)
    BY DEF ResetKeepCode, m
  <1> DEFINE e == Reset(q, FALSE, run)
  <1> HIDE DEF q
  <1>4. /\ e \in DspStates /\ Idle(e)
        /\ ~e.faulted => e.mem["X"] = 0 /\ e.mem["buffers"] = 0 /\ e.mem["Y"] = q.mem["Y"]
    BY <1>2, ResetTurn
  <1> HIDE DEF e
  <1>5. ~e.faulted => \A r \in Memories : e.mem[r] = 0
    BY <1>1, <1>2, <1>4 DEF Memories
  <1> QED
    BY <1>3, <1>4, <1>5 DEF e

LEMMA TurnsInit == ASSUME Init PROVE Turns
  BY DspSizes, PowerOnType, ZerosType DEF Init, Turns, TypeOK, TurnsKept, Counters, Offsets, Silence

LEMMA NoiseType == Noise \in [Offsets -> Int]
  BY DEF Noise

LEMMA TurnsNext == ASSUME Turns, [Next]_vars PROVE Turns'
  <1> USE DspSizes, VoiceSizes
  <1>a. dsp \in DspStates /\ (boot \in {"prewarm", "warmup", "ready"} => Idle(dsp))
    BY DEF Turns, TypeOK, TurnsKept, Idle
  <1>b. Zeros \in [Offsets -> Int] /\ Silence \in Int
    BY ZerosType DEF Silence
  <1>1. CASE Construct
    <2>1. PICK run \in Runs :
            LET d == Reset(PowerOn, FALSE, run)
            IN  /\ dsp' = IF d.faulted THEN d ELSE SetDigibank(d)
                /\ boot' = IF d.faulted THEN "failed" ELSE "prewarm"
      BY <1>1 DEF Construct
    <2> DEFINE d == Reset(PowerOn, FALSE, run)
    <2>2. d \in DspStates /\ Idle(d)
      BY PowerOnType, ResetTurn
    <2>3. boot' = IF d.faulted THEN "failed" ELSE "prewarm"
      BY <2>1
    <2>4. dsp' = IF d.faulted THEN d ELSE SetDigibank(d)
      BY <2>1
    <2> HIDE DEF d
    <2>5. SetDigibank(d) \in DspStates /\ Idle(SetDigibank(d))
      BY <2>2, BankTypes, ZenonT(40) DEF SetDigibank, UploadDigibank, Idle, DspStates
    <2>6. dsp' \in DspStates /\ Idle(dsp')
      BY <2>2, <2>4, <2>5
    <2> QED
      BY <1>1, <2>3, <2>6 DEF Construct, Turns, TypeOK, TurnsKept, Counters, Idle, fifoVars, inVars, callVars
  <1>2. CASE Prewarm
    <2>1. PICK fx \in BOOLEAN : /\ in' = IF fx THEN Noise ELSE in
                                /\ RenderBlock(IF fx THEN SetInputFrames(dsp, Noise) ELSE dsp, fx)
      BY <1>2 DEF Prewarm
    <2> DEFINE d == IF fx THEN SetInputFrames(dsp, Noise) ELSE dsp
    <2>2. d \in DspStates /\ Idle(d)
      BY <1>2, <1>a, NoiseType, InputTypes DEF Prewarm
    <2>3. RenderBlock(d, fx) /\ hostBlocks \in Nat
      BY <2>1 DEF Turns, TypeOK
    <2> HIDE DEF d
    <2>4. hostBlocks' \in Nat /\ dsp' \in DspStates /\ Idle(dsp') /\ fifo' \in [Offsets -> Int]
      BY <2>2, <2>3, RenderTypes
    <2> QED
      BY <1>2, <2>1, <2>4, NoiseType DEF Prewarm, Turns, TypeOK, TurnsKept, Counters, Idle, callVars
  <1>3. CASE PrewarmEnd
    <2>1. PICK run \in Runs : /\ dsp' = ResetKeepCode(dsp, run)
                              /\ boot' = IF dsp'.faulted THEN "failed" ELSE "warmup"
      BY <1>3 DEF PrewarmEnd
    <2>2. dsp' \in DspStates /\ Idle(dsp')
      BY <1>a, <2>1, KeepCodeTurn
    <2>3. left' \in 1 .. WarmBlocks /\ left' \in Nat
      BY <1>3 DEF PrewarmEnd
    <2> QED
      BY <1>3, <1>b, <2>1, <2>2, <2>3
      DEF PrewarmEnd, Turns, TypeOK, TurnsKept, Counters, Idle, callVars, Offsets
  <1>4. CASE WarmUp
    <2>1. RenderBlock(dsp, fxIn) /\ fxIn \in BOOLEAN /\ hostBlocks \in Nat
      BY <1>4 DEF WarmUp, Turns, TypeOK
    <2>2. hostBlocks' \in Nat /\ dsp' \in DspStates /\ Idle(dsp') /\ fifo' \in [Offsets -> Int]
      BY <1>4, <1>a, <2>1, RenderTypes DEF WarmUp
    <2>3. left' \in Nat /\ (left # 1 => left' \in 1 .. WarmBlocks)
      BY <1>4 DEF WarmUp, Turns, Counters
    <2> QED
      BY <1>4, <2>2, <2>3 DEF WarmUp, Turns, TypeOK, TurnsKept, Counters, Idle, inVars, callVars
  <1>5. CASE StartCall
    BY <1>5 DEF StartCall, Turns, TypeOK, TurnsKept, Counters, fifoVars, inVars, callVars
  <1>6. CASE Process
    <2>1. frame' \in Nat /\ played' \in Nat /\ left' \in Nat /\ boot' = boot /\ boot = "ready"
          /\ UNCHANGED <<fxIn, since, in, inPos>>
      BY <1>6 DEF Process, NextFrame, Turns, TypeOK, inVars
    <2>2. CASE avail = 0
      <3>1. RenderBlock(dsp, FALSE) /\ TakeFrame(0, kBlockFrames) /\ hostBlocks \in Nat
        BY <1>6, <2>2 DEF Process, Turns, TypeOK
      <3>2. hostBlocks' \in Nat /\ dsp' \in DspStates /\ Idle(dsp') /\ fifo' \in [Offsets -> Int]
        BY <1>a, <2>1, <3>1, RenderTypes
      <3>3. out' = fifo'[0] /\ pos' = 1 /\ avail' = kBlockFrames - 1 /\ 0 \in Offsets
        BY <3>1 DEF TakeFrame, Offsets
      <3>4. out' \in Int
        BY <3>2, <3>3
      <3> QED
        BY <2>1, <3>2, <3>3, <3>4 DEF Turns, TypeOK, TurnsKept, Counters, Idle
    <2>3. CASE avail # 0
      <3>1. UNCHANGED <<fifo, dsp, hostBlocks>> /\ TakeFrame(pos, avail)
        BY <1>6, <2>3 DEF Process
      <3>2. pos \in Offsets /\ avail \in 1 .. kBlockFrames /\ pos + avail = kBlockFrames
        BY <2>3 DEF Turns, TypeOK, Counters, Offsets
      <3>3. out' \in Int /\ pos' = pos + 1 /\ avail' = avail - 1
        BY <3>1, <3>2 DEF TakeFrame, Turns, TypeOK
      <3> QED
        BY <2>1, <3>1, <3>2, <3>3 DEF Turns, TypeOK, TurnsKept, Counters, Offsets
    <2> QED
      BY <2>2, <2>3
  <1>7. CASE ProcessFx
    <2> DEFINE filled == [in EXCEPT ![inPos] = frame + 1]
    <2>1. frame' \in Nat /\ played' \in Nat /\ left' \in Nat /\ boot' = boot /\ boot = "ready"
          /\ UNCHANGED <<fxIn, since>>
      BY <1>7 DEF ProcessFx, NextFrame, Turns, TypeOK
    <2>2. in' = filled /\ inPos' = IF inPos + 1 = kBlockFrames THEN 0 ELSE inPos + 1
      BY <1>7 DEF ProcessFx
    <2>3. filled \in [Offsets -> Int] /\ inPos' \in Offsets
      BY <2>2 DEF Turns, TypeOK, Offsets
    <2>4. CASE inPos + 1 = kBlockFrames
      <3>1. RenderBlock(SetInputFrames(dsp, filled), TRUE) /\ TakeFrame(0, kBlockFrames) /\ hostBlocks \in Nat
        BY <1>7, <2>4 DEF ProcessFx, Turns, TypeOK
      <3> HIDE DEF filled
      <3>a. SetInputFrames(dsp, filled) \in DspStates /\ Idle(SetInputFrames(dsp, filled))
        BY <1>a, <2>1, <2>3, InputTypes
      <3>2. hostBlocks' \in Nat /\ dsp' \in DspStates /\ Idle(dsp') /\ fifo' \in [Offsets -> Int]
        BY <3>1, <3>a, RenderTypes
      <3>3. out' = fifo'[0] /\ pos' = 1 /\ avail' = kBlockFrames - 1 /\ 0 \in Offsets
        BY <3>1 DEF TakeFrame, Offsets
      <3>4. out' \in Int
        BY <3>2, <3>3
      <3> QED
        BY <2>1, <2>2, <2>3, <3>2, <3>3, <3>4 DEF Turns, TypeOK, TurnsKept, Counters, Idle
    <2>5. CASE inPos + 1 # kBlockFrames /\ avail = 0
      <3>1. UNCHANGED <<fifo, dsp, hostBlocks, pos, avail>> /\ out' = Silence
        BY <1>7, <2>5 DEF ProcessFx
      <3> HIDE DEF filled
      <3> QED
        BY <1>b, <2>1, <2>2, <2>3, <3>1 DEF Turns, TypeOK, TurnsKept, Counters
    <2>6. CASE inPos + 1 # kBlockFrames /\ avail # 0
      <3>1. UNCHANGED <<fifo, dsp, hostBlocks>> /\ TakeFrame(pos, avail)
        BY <1>7, <2>6 DEF ProcessFx
      <3>2. pos \in Offsets /\ avail \in 1 .. kBlockFrames /\ pos + avail = kBlockFrames
        BY <2>6 DEF Turns, TypeOK, Counters, Offsets
      <3>3. out' \in Int /\ pos' = pos + 1 /\ avail' = avail - 1
        BY <3>1, <3>2 DEF TakeFrame, Turns, TypeOK
      <3> HIDE DEF filled
      <3> QED
        BY <2>1, <2>2, <2>3, <3>1, <3>2, <3>3, SMTT(30) DEF Turns, TypeOK, TurnsKept, Counters, Offsets
    <2> QED
      BY <2>4, <2>5, <2>6
  <1>8. CASE Skip
    <2>1. kFrames \div kBlockFrames \in Nat
      OBVIOUS
    <2>2. hostBlocks' \in Nat /\ frame' \in Nat /\ since' \in Nat
      BY <1>8, <2>1 DEF Skip, Turns, TypeOK
    <2> QED
      BY <1>8, <1>b, <2>2 DEF Skip, Turns, TypeOK, TurnsKept, Counters, inVars
  <1>9. CASE UNCHANGED vars
    BY <1>9 DEF vars, fifoVars, inVars, callVars, Turns, TypeOK, TurnsKept, Counters
  <1> QED
    BY <1>1, <1>2, <1>3, <1>4, <1>5, <1>6, <1>7, <1>8, <1>9 DEF Next

\* The host port's turns, and the types, in every state of a voice.
THEOREM TurnsAlwaysKept == Spec => [](TypeOK /\ TurnsKept)
  <1>1. Spec => []Turns
    BY TurnsInit, TurnsNext, PTL DEF Spec
  <1>2. Turns => TypeOK /\ TurnsKept
    BY DEF Turns
  <1> QED
    BY <1>1, <1>2, PTL

-----------------------------------------------------------------------------
(* What is heard.                                                          *)

\* A faulted voice is silent; a voice that is not has all its memories at one age.
Faulty == boot \in {"warmup", "ready"} /\ dsp.faulted => fifo = Zeros
SameAge == boot \in {"warmup", "ready"} /\ ~dsp.faulted => \A r \in Memories : dsp.mem[r] = dsp.mem["X"]

\* The warm-up: every block counts for the host model and for the DSP.
Warm ==
    boot = "warmup" => /\ inPos = 0 /\ hostBlocks + left = WarmBlocks
                       /\ ~dsp.faulted => dsp.mem["X"] = hostBlocks

\* What is left of a call, with the input that waits, or without what is in the FIFO, is whole blocks: a
\* call that has ended leaves nothing in either, which is what lets skip silence the FIFO.
WholeBlocks ==
    boot = "ready" => \E m \in Nat : m * kBlockFrames = IF fxIn THEN left + inPos ELSE left - avail

\* An effect, BlockEnd frames of whose input were rendered or skipped: where the FIFO stands, what waits
\* in it, and what waits to be rendered.
BlockEnd == frame - inPos
Effect ==
    boot = "ready" /\ fxIn =>
        /\ since <= BlockEnd /\ (since # BlockEnd => since <= BlockEnd - kBlockFrames)
        /\ \A k \in Offsets : k < inPos => in[k] = BlockEnd + k + 1
        /\ \/ avail = 0 /\ since = BlockEnd
           \/ avail = kBlockFrames - 1 - inPos /\ pos = inPos + 1
        /\ ~dsp.faulted => \A k \in Offsets :
            k >= pos /\ avail > 0 =>
                fifo[k] = IF since = BlockEnd THEN Silence ELSE BlockEnd - kBlockFrames + k + 1

\* A synth: its age counts the blocks played and the one in the FIFO.
Synth ==
    boot = "ready" /\ ~fxIn /\ ~dsp.faulted =>
        /\ (dsp.mem["X"] - WarmBlocks) * kBlockFrames = played + avail
        /\ \A k \in Offsets : k >= pos /\ avail > 0 => fifo[k] = (dsp.mem["X"] - 1) * kBlockFrames + k + 1

Heard == Faulty /\ SameAge /\ Warm /\ WholeBlocks /\ Effect /\ Synth /\ HostInStep /\ FxAligned /\ SynthGapless
VoiceInv == Turns /\ Heard

LEMMA WholeCall == kFrames \div kBlockFrames \in Nat /\ (kFrames \div kBlockFrames) * kBlockFrames = kFrames
  BY DspSizes, VoiceSizes

LEMMA OneMore == ASSUME NEW a \in Int PROVE (a + 1) * kBlockFrames = a * kBlockFrames + kBlockFrames
  BY DspSizes

\* Whole blocks less than one block are none; one more or one less is whole blocks again.
LEMMA NoBlock ==
    ASSUME NEW m \in Nat, NEW n \in Nat, m * kBlockFrames = n, n < kBlockFrames
    PROVE  n = 0
  <1>1. CASE m = 0
    BY <1>1, DspSizes
  <1>2. CASE m # 0
    <2>1. m - 1 \in Nat /\ (m - 1) * kBlockFrames >= 0
      BY <1>2, DspSizes
    <2>2. ((m - 1) + 1) * kBlockFrames = (m - 1) * kBlockFrames + kBlockFrames
      BY <2>1, OneMore
    <2>3. m * kBlockFrames >= kBlockFrames
      BY <2>1, <2>2, DspSizes
    <2> QED
      BY <2>3, DspSizes
  <1> QED
    BY <1>1, <1>2

LEMMA OneLess ==
    ASSUME NEW m \in Nat, NEW n \in Int, m * kBlockFrames = n, n > 0
    PROVE  \E j \in Nat : j * kBlockFrames = n - kBlockFrames
  <1>1. m # 0
    BY DspSizes
  <1>2. m - 1 \in Nat
    BY <1>1
  <1>3. ((m - 1) + 1) * kBlockFrames = (m - 1) * kBlockFrames + kBlockFrames
    BY <1>2, OneMore
  <1>4. (m - 1) * kBlockFrames = n - kBlockFrames
    BY <1>2, <1>3, DspSizes
  <1> QED
    BY <1>2, <1>4

LEMMA HeardInit == ASSUME Init PROVE Heard
  BY DEF Init, Heard, Faulty, SameAge, Warm, WholeBlocks, Effect, Synth, HostInStep, FxAligned, SynthGapless

\* Until the voice is ready nothing is heard of it.
LEMMA HeardBoot ==
    ASSUME Turns', boot' \in {"new", "prewarm", "failed"}
    PROVE  Heard'
  BY DEF Turns, Counters, Heard, Faulty, SameAge, Warm, WholeBlocks, Effect, Synth, HostInStep, FxAligned, SynthGapless

LEMMA HeardPrewarmEnd == ASSUME VoiceInv, Turns', PrewarmEnd PROVE Heard'
  <1>1. PICK run \in Runs : /\ MayRun(dsp, run) /\ dsp' = ResetKeepCode(dsp, run)
                            /\ boot' = IF dsp'.faulted THEN "failed" ELSE "warmup"
    BY DEF PrewarmEnd
  <1>2. dsp \in DspStates
    BY DEF VoiceInv, Turns, TypeOK
  <1>3. ~dsp'.faulted => \A r \in Memories : dsp'.mem[r] = 0
    BY <1>1, <1>2, KeepCodeTurn
  <1>4. CASE dsp'.faulted
    BY <1>1, <1>4, HeardBoot
  <1>5. CASE ~dsp'.faulted
    <2>1. boot' = "warmup" /\ \A r \in Memories : dsp'.mem[r] = 0
      BY <1>1, <1>3, <1>5
    <2>2. dsp'.mem["X"] = 0
      BY <2>1 DEF Memories
    <2>3. inPos' = 0 /\ hostBlocks' = 0 /\ left' = WarmBlocks /\ frame' = 0 /\ played' = 0
      BY <2>1 DEF PrewarmEnd, Turns, Counters
    <2> QED
      BY <1>5, <2>1, <2>2, <2>3, VoiceSizes
      DEF Heard, Faulty, SameAge, Warm, WholeBlocks, Effect, Synth, HostInStep, FxAligned, SynthGapless
  <1> QED
    BY <1>4, <1>5

LEMMA HeardWarmUp == ASSUME VoiceInv, Turns', WarmUp PROVE Heard'
  <1> USE DspSizes, VoiceSizes
  <1>1. RenderBlock(dsp, fxIn) /\ fxIn \in BOOLEAN /\ hostBlocks \in Nat /\ dsp \in DspStates /\ Idle(dsp)
    BY DEF WarmUp, VoiceInv, Turns, TypeOK, TurnsKept, Idle
  <1>2. hostBlocks' = hostBlocks + 1 /\ (dsp'.faulted => fifo' = Zeros)
    BY <1>1, RenderTypes
  <1>3. ~dsp'.faulted => ~dsp.faulted /\ dsp'.mem = [r \in Memories |-> dsp.mem[r] + 1]
    BY <1>1, RenderTypes
  <1>4. Faulty'
    BY <1>2 DEF Faulty
  <1>5. ~dsp'.faulted => (\A r \in Memories : dsp'.mem[r] = dsp'.mem["X"]) /\ dsp'.mem["X"] = hostBlocks'
    <2> HAVE ~dsp'.faulted
    <2>1. \A r \in Memories : dsp.mem[r] = dsp.mem["X"] /\ dsp.mem["X"] = hostBlocks
      BY <1>3 DEF VoiceInv, Heard, SameAge, Warm, WarmUp
    <2> QED
      BY <1>2, <1>3, <2>1 DEF Memories
  <1>6. SameAge'
    BY <1>5 DEF SameAge
  <1>7. inPos' = 0 /\ hostBlocks' + left' = WarmBlocks /\ frame' = 0 /\ played' = 0 /\ since' = 0
    BY <1>2 DEF WarmUp, VoiceInv, Heard, Warm, Turns, TypeOK, Counters, inVars, callVars
  <1>8. Warm'
    BY <1>5, <1>7 DEF Warm
  <1>9. CASE boot' = "warmup"
    BY <1>4, <1>6, <1>7, <1>8, <1>9
    DEF Heard, WholeBlocks, Effect, Synth, HostInStep, FxAligned, SynthGapless
  <1>10. CASE boot' = "ready"
    <2>a. left = 1
      BY <1>10 DEF WarmUp
    <2>b. left' = 0 /\ avail' = 0 /\ hostBlocks' \in Nat
      BY <1>1, <1>2, <2>a DEF WarmUp
    <2>c. \A h \in Nat, l \in Nat, w \in Nat : h + l = w /\ l = 0 => h = w
      OBVIOUS
    <2>1. left' = 0 /\ avail' = 0 /\ hostBlocks' = WarmBlocks
      <3>1. hostBlocks' + left' = WarmBlocks
        BY <1>7
      <3>2. WarmBlocks \in Nat /\ left' \in Nat
        BY <2>b
      <3> QED
        BY ONLY <2>b, <2>c, <3>1, <3>2
    <2>2. WholeBlocks'
      <3>1. 0 \in Nat /\ 0 * kBlockFrames = 0
        OBVIOUS
      <3> QED
        BY <1>7, <2>1, <3>1 DEF WholeBlocks
    <2>3. Effect'
      BY <1>7, <2>1 DEF Effect, BlockEnd, Offsets
    <2>4. Synth' /\ HostInStep'
      BY <1>5, <1>7, <2>1 DEF Synth, HostInStep
    <2> QED
      BY <1>4, <1>6, <1>7, <1>8, <2>2, <2>3, <2>4 DEF Heard, FxAligned, SynthGapless
  <1> QED
    BY <1>9, <1>10 DEF WarmUp

\* A call that has ended leaves the input and the FIFO empty.
LEMMA CallEnd == ASSUME VoiceInv, boot = "ready", left = 0 PROVE IF fxIn THEN inPos = 0 ELSE avail = 0
  <1> USE DspSizes
  <1>1. inPos \in Nat /\ inPos < kBlockFrames /\ avail \in Nat
    BY DEF VoiceInv, Turns, TypeOK, Offsets
  <1>2. PICK m \in Nat : m * kBlockFrames = IF fxIn THEN left + inPos ELSE left - avail
    BY DEF VoiceInv, Heard, WholeBlocks
  <1>3. CASE fxIn
    BY <1>1, <1>2, <1>3, NoBlock
  <1>4. CASE ~fxIn
    <2>1. m * kBlockFrames >= 0
      OBVIOUS
    <2> QED
      BY <1>1, <1>2, <1>4, <2>1
  <1> QED
    BY <1>3, <1>4

LEMMA HeardStartCall == ASSUME VoiceInv, Turns', StartCall PROVE Heard'
  <1> USE DspSizes, VoiceSizes
  <1>1. IF fxIn THEN inPos = 0 ELSE avail = 0
    BY CallEnd DEF StartCall
  <1>2. WholeBlocks'
    <2>1. (IF fxIn' THEN left' + inPos' ELSE left' - avail') = kFrames
      BY <1>1 DEF StartCall, fifoVars, inVars
    <2>2. \E m \in Nat : m * kBlockFrames = IF fxIn' THEN left' + inPos' ELSE left' - avail'
      <3> DEFINE q == kFrames \div kBlockFrames
      <3>1. q \in Nat /\ q * kBlockFrames = kFrames
        BY WholeCall
      <3> HIDE DEF q
      <3> QED
        BY <2>1, <3>1
    <2> QED
      BY <2>2 DEF WholeBlocks
  <1>3. UNCHANGED <<fxIn, boot, dsp, fifo, pos, avail, in, inPos, hostBlocks, out, frame, played, since>>
        /\ boot = "ready"
    BY DEF StartCall, fifoVars, inVars, callVars
  <1>4. Faulty' /\ SameAge' /\ Warm'
    BY <1>3 DEF VoiceInv, Heard, Faulty, SameAge, Warm
  <1>5. Effect' /\ Synth'
    BY <1>3 DEF VoiceInv, Heard, Effect, BlockEnd, Synth
  <1>6. HostInStep' /\ FxAligned' /\ SynthGapless'
    BY <1>3 DEF VoiceInv, Heard, HostInStep, FxAligned, SynthGapless
  <1> QED
    BY <1>2, <1>4, <1>5, <1>6 DEF Heard

\* A DSP whose memories are of one age is of that age.
LEMMA OneAge ==
    ASSUME NEW d \in DspStates, \A r \in Memories : d.mem[r] = d.mem["X"]
    PROVE  Age(d) = d.mem["X"] /\ d.mem["X"] \in Nat
  <1>1. d.mem["X"] \in Nat
    BY DEF DspStates, Memories
  <1> QED
    BY <1>1, AgeType

LEMMA HeardProcess == ASSUME VoiceInv, Turns', Process PROVE Heard'
  <1> USE DspSizes, VoiceSizes
  <1>1. /\ boot = "ready" /\ ~fxIn /\ left > 0 /\ left' = left - 1 /\ frame' = frame + 1 /\ played' = played + 1
        /\ UNCHANGED <<fxIn, boot, since, in, inPos>>
    BY DEF Process, NextFrame, inVars
  <1>2. /\ dsp \in DspStates /\ Idle(dsp) /\ hostBlocks \in Nat /\ left \in Nat /\ frame \in Nat /\ played \in Nat
        /\ avail \in 0 .. kBlockFrames /\ pos \in 0 .. kBlockFrames
    BY <1>1 DEF VoiceInv, Turns, TypeOK, TurnsKept, Idle
  <1>3. PICK m \in Nat : m * kBlockFrames = left - avail
    BY <1>1 DEF VoiceInv, Heard, WholeBlocks
  <1>4. (hostBlocks - WarmBlocks) * kBlockFrames = frame + avail
    BY <1>1 DEF VoiceInv, Heard, HostInStep
  <1>5. Warm' /\ Effect' /\ FxAligned'
    BY <1>1 DEF Warm, Effect, FxAligned
  <1>6. CASE avail = 0
    <2>0. RenderBlock(dsp, FALSE) /\ TakeFrame(0, kBlockFrames)
      BY <1>6 DEF Process
    <2>1. out' = fifo'[0] /\ pos' = 1 /\ avail' = kBlockFrames - 1
      BY <2>0 DEF TakeFrame
    <2>2. hostBlocks' = hostBlocks + 1 /\ (dsp'.faulted => fifo' = Zeros)
          /\ (~dsp'.faulted => /\ ~dsp.faulted
                               /\ dsp'.mem = [r \in Memories |-> dsp.mem[r] + 1]
                               /\ fifo' = SynthBlock(Age(dsp)))
      BY <1>2, <2>0, RenderTypes
    <2>3. WholeBlocks'
      <3>1. m * kBlockFrames = left
        BY <1>2, <1>3, <1>6
      <3>2. PICK j \in Nat : j * kBlockFrames = left - kBlockFrames
        BY <1>1, <1>2, <3>1, OneLess
      <3>3. j * kBlockFrames = left' - avail'
        BY <1>1, <1>2, <2>1, <3>2
      <3> QED
        BY <1>1, <3>3 DEF WholeBlocks
    <2>4. HostInStep'
      <3>1. ((hostBlocks - WarmBlocks) + 1) * kBlockFrames = (hostBlocks - WarmBlocks) * kBlockFrames + kBlockFrames
        BY <1>2, OneMore
      <3>2. hostBlocks' - WarmBlocks = (hostBlocks - WarmBlocks) + 1
        BY <1>2, <2>2
      <3>3. (hostBlocks' - WarmBlocks) * kBlockFrames = frame' + avail'
        BY <1>1, <1>2, <1>4, <1>6, <2>1, <3>1, <3>2
      <3> QED
        BY <1>1, <3>3 DEF HostInStep
    <2>5. CASE dsp'.faulted
      <3>1. fifo' = Zeros /\ out' = Silence
        BY <2>1, <2>2, <2>5 DEF Zeros, Offsets
      <3> QED
        BY <1>1, <1>5, <2>3, <2>4, <2>5, <3>1 DEF Heard, Faulty, SameAge, Synth, SynthGapless
    <2>6. CASE ~dsp'.faulted
      <3> DEFINE a == dsp.mem["X"]
      <3>1. (\A r \in Memories : dsp.mem[r] = a) /\ (a - WarmBlocks) * kBlockFrames = played
        BY <1>1, <1>2, <1>6, <2>2, <2>6 DEF VoiceInv, Heard, SameAge, Synth
      <3>2. Age(dsp) = a /\ a \in Nat
        BY <1>2, <3>1, OneAge
      <3>3. (\A r \in Memories : dsp'.mem[r] = a + 1) /\ dsp'.mem["X"] = a + 1
        BY <2>2, <2>6, <3>1 DEF Memories
      <3>4. \A k \in Offsets : fifo'[k] = a * kBlockFrames + k + 1
        BY <2>2, <2>6, <3>2 DEF SynthBlock
      <3> HIDE DEF a
      <3>5. ((a - WarmBlocks) + 1) * kBlockFrames = (a - WarmBlocks) * kBlockFrames + kBlockFrames
        BY <3>2, OneMore
      <3>6. (a + 1 - WarmBlocks) * kBlockFrames = played' + avail'
        <4>1. a + 1 - WarmBlocks = (a - WarmBlocks) + 1
          BY <3>2
        <4> QED
          BY <1>1, <1>2, <2>1, <3>1, <3>5, <4>1
      <3>7. (a + 1) - 1 = a
        BY <3>2
      <3>8. Synth'
        <4> DEFINE b == dsp'.mem["X"]
        <4>1. b = a + 1
          BY <3>3
        <4> HIDE DEF b
        <4>2. (b - WarmBlocks) * kBlockFrames = played' + avail'
          BY <3>2, <3>6, <4>1
        <4>3. b - 1 = a
          BY <3>2, <3>7, <4>1
        <4>4. \A k \in Offsets : fifo'[k] = (b - 1) * kBlockFrames + k + 1
          BY <3>4, <4>3
        <4> QED
          BY <4>2, <4>4 DEF Synth, b
      <3>9. a * kBlockFrames = WarmBlocks * kBlockFrames + played
        <4>1. (a - WarmBlocks) * kBlockFrames = a * kBlockFrames - WarmBlocks * kBlockFrames
          BY <3>2
        <4> QED
          BY <1>2, <3>1, <3>2, <4>1
      <3>10. out' = WarmBlocks * kBlockFrames + played'
        <4>1. 0 \in Offsets /\ out' = a * kBlockFrames + 0 + 1
          BY <2>1, <3>4 DEF Offsets
        <4> QED
          BY <1>1, <1>2, <3>2, <3>9, <4>1
      <3>11. SynthGapless'
        BY <2>6, <3>10 DEF SynthGapless
      <3> QED
        BY <1>5, <2>3, <2>4, <2>6, <3>3, <3>8, <3>11 DEF Heard, Faulty, SameAge
    <2> QED
      BY <2>5, <2>6
  <1>7. CASE avail # 0
    <2>1. UNCHANGED <<fifo, dsp, hostBlocks>> /\ out' = fifo[pos] /\ pos' = pos + 1 /\ avail' = avail - 1
      BY <1>7 DEF Process, TakeFrame
    <2>2. avail > 0 /\ pos + avail = kBlockFrames /\ pos \in Offsets
      BY <1>2, <1>7 DEF VoiceInv, Turns, Counters, Offsets
    <2>3. WholeBlocks'
      <3>1. m * kBlockFrames = left' - avail'
        BY <1>1, <1>2, <1>3, <2>1
      <3> QED
        BY <1>1, <3>1 DEF WholeBlocks
    <2>4. HostInStep'
      BY <1>1, <1>2, <1>4, <2>1 DEF HostInStep
    <2>5. Faulty' /\ SameAge'
      BY <1>1, <2>1 DEF VoiceInv, Heard, Faulty, SameAge
    <2>6. CASE dsp.faulted
      <3>1. out' = Silence
        BY <1>1, <2>1, <2>2, <2>6 DEF VoiceInv, Heard, Faulty, Zeros
      <3> QED
        BY <1>1, <1>5, <2>1, <2>3, <2>4, <2>5, <2>6, <3>1 DEF Heard, Synth, SynthGapless
    <2>7. CASE ~dsp.faulted
      <3> DEFINE a == dsp.mem["X"]
      <3>1. (a - WarmBlocks) * kBlockFrames = played + avail
            /\ (\A k \in Offsets : k >= pos => fifo[k] = (a - 1) * kBlockFrames + k + 1)
        BY <1>1, <2>2, <2>7 DEF VoiceInv, Heard, Synth
      <3>2. a \in Nat
        BY <1>2 DEF DspStates, Memories
      <3>3. Synth'
        <4>1. (a - WarmBlocks) * kBlockFrames = played' + avail'
          BY <1>1, <1>2, <2>1, <3>1
        <4>2. \A k \in Offsets : k >= pos' => fifo'[k] = (a - 1) * kBlockFrames + k + 1
          BY <1>2, <2>1, <3>1 DEF Offsets
        <4> QED
          BY <1>1, <2>1, <4>1, <4>2 DEF Synth
      <3>4. fifo[pos] = (a - 1) * kBlockFrames + pos + 1
        BY <2>2, <3>1 DEF Offsets
      <3> HIDE DEF a
      <3>5. ((a - 1) + 1) * kBlockFrames = (a - 1) * kBlockFrames + kBlockFrames
        BY <3>2, OneMore
      <3>6. (a - WarmBlocks) * kBlockFrames = a * kBlockFrames - WarmBlocks * kBlockFrames
        BY <3>2
      <3>7. (a - 1) + 1 = a
        BY <3>2
      <3>8. a * kBlockFrames = (a - 1) * kBlockFrames + kBlockFrames
        BY <3>5, <3>7
      <3>a. a * kBlockFrames \in Int /\ (a - 1) * kBlockFrames \in Int /\ WarmBlocks * kBlockFrames \in Int
        BY <3>2
      <3>9. out' = WarmBlocks * kBlockFrames + played'
        <4> DEFINE x == a * kBlockFrames
                   y == (a - 1) * kBlockFrames
                   z == WarmBlocks * kBlockFrames
        <4>1. x - z = played + avail /\ x = y + kBlockFrames /\ out' = y + pos + 1 /\ x \in Int /\ y \in Int /\ z \in Int
          BY <2>1, <3>1, <3>4, <3>6, <3>8, <3>a
        <4> HIDE DEF x, y, z
        <4>2. out' = z + played'
          BY <1>1, <1>2, <2>2, <4>1
        <4> QED
          BY <4>2 DEF z
      <3>10. SynthGapless'
        BY <2>1, <2>7, <3>9 DEF SynthGapless
      <3> QED
        BY <1>5, <2>3, <2>4, <2>5, <3>3, <3>10 DEF Heard
    <2> QED
      BY <2>6, <2>7
  <1> QED
    BY <1>6, <1>7

LEMMA HeardProcessFx == ASSUME VoiceInv, Turns', ProcessFx PROVE Heard'
  <1> USE DspSizes, VoiceSizes
  <1> DEFINE filled == [in EXCEPT ![inPos] = frame + 1]
             full == inPos + 1 = kBlockFrames
  <1>1. /\ boot = "ready" /\ fxIn /\ left > 0 /\ left' = left - 1 /\ frame' = frame + 1 /\ played' = played + 1
        /\ UNCHANGED <<fxIn, boot, since>>
    BY DEF ProcessFx, NextFrame
  <1>2. /\ dsp \in DspStates /\ Idle(dsp) /\ hostBlocks \in Nat /\ left \in Nat /\ frame \in Nat /\ played \in Nat
        /\ avail \in 0 .. kBlockFrames /\ pos \in 0 .. kBlockFrames /\ inPos \in Offsets /\ since \in Nat
        /\ in \in [Offsets -> Int]
    BY <1>1 DEF VoiceInv, Turns, TypeOK, TurnsKept, Idle
  <1>3. PICK m \in Nat : m * kBlockFrames = left + inPos
    BY <1>1 DEF VoiceInv, Heard, WholeBlocks
  <1>4. (hostBlocks - WarmBlocks) * kBlockFrames = frame - inPos
    BY <1>1 DEF VoiceInv, Heard, HostInStep
  <1>5. Warm' /\ Synth' /\ SynthGapless'
    BY <1>1 DEF Warm, Synth, SynthGapless
  <1>6. in' = filled /\ inPos' = IF full THEN 0 ELSE inPos + 1
    BY DEF ProcessFx
  <1>7. filled \in [Offsets -> Int] /\ \A k \in Offsets : k <= inPos => filled[k] = frame - inPos + k + 1
    <2>1. \A k \in Offsets : k < inPos => in[k] = frame - inPos + k + 1
      BY <1>1 DEF VoiceInv, Heard, Effect, BlockEnd
    <2> QED
      BY <1>2, <2>1 DEF Offsets
  <1>8. since <= frame - inPos /\ (since # frame - inPos => since <= frame - inPos - kBlockFrames)
        /\ ((avail = 0 /\ since = frame - inPos) \/ (avail = kBlockFrames - 1 - inPos /\ pos = inPos + 1))
        /\ (~dsp.faulted => \A k \in Offsets : k >= pos /\ avail > 0 =>
                fifo[k] = IF since = frame - inPos THEN Silence ELSE frame - inPos - kBlockFrames + k + 1)
    <2>1. Effect
      BY DEF VoiceInv, Heard
    <2>2. since <= BlockEnd /\ (since # BlockEnd => since <= BlockEnd - kBlockFrames)
      BY <1>1, <2>1 DEF Effect
    <2>3. (avail = 0 /\ since = BlockEnd) \/ (avail = kBlockFrames - 1 - inPos /\ pos = inPos + 1)
      BY <1>1, <2>1 DEF Effect
    <2>4. ~dsp.faulted => \A k \in Offsets : k >= pos /\ avail > 0 =>
                fifo[k] = IF since = BlockEnd THEN Silence ELSE BlockEnd - kBlockFrames + k + 1
      BY <1>1, <2>1 DEF Effect
    <2> QED
      BY <2>2, <2>3, <2>4 DEF BlockEnd
  <1> HIDE DEF filled
  <1>9. CASE full
    <2>1. RenderBlock(SetInputFrames(dsp, filled), TRUE) /\ TakeFrame(0, kBlockFrames)
      BY <1>9 DEF ProcessFx, filled
    <2>2. out' = fifo'[0] /\ pos' = 1 /\ avail' = kBlockFrames - 1
      BY <2>1 DEF TakeFrame
    <2> DEFINE d == SetInputFrames(dsp, filled)
    <2>3. d \in DspStates /\ Idle(d) /\ d.adc = filled /\ d.mem = dsp.mem /\ d.faulted = dsp.faulted
      BY <1>2, <1>7, InputTypes
    <2>4. RenderBlock(d, TRUE)
      BY <2>1
    <2> HIDE DEF d
    <2>5. hostBlocks' = hostBlocks + 1 /\ (dsp'.faulted => fifo' = Zeros)
          /\ (~dsp'.faulted => /\ ~d.faulted
                               /\ dsp'.mem = [r \in Memories |-> d.mem[r] + 1]
                               /\ fifo' = d.adc)
      BY <1>2, <2>3, <2>4, RenderTypes
    <2>6. inPos' = 0 /\ inPos = kBlockFrames - 1
      BY <1>2, <1>6, <1>9 DEF Offsets
    <2>7. WholeBlocks'
      <3> DEFINE n == left + inPos
      <3>0. n \in Int /\ n > 0 /\ m * kBlockFrames = n
        BY <1>1, <1>2, <1>3, <2>6
      <3> HIDE DEF n
      <3>a. PICK j \in Nat : j * kBlockFrames = n - kBlockFrames
        BY <3>0, OneLess
      <3>1. j * kBlockFrames = left + inPos - kBlockFrames
        BY <1>2, <3>a DEF n, Offsets
      <3>2. j * kBlockFrames = left' + inPos'
        BY <1>1, <1>2, <2>6, <3>1
      <3> QED
        BY <1>1, <3>2 DEF WholeBlocks
    <2>8. HostInStep'
      <3>1. ((hostBlocks - WarmBlocks) + 1) * kBlockFrames = (hostBlocks - WarmBlocks) * kBlockFrames + kBlockFrames
        BY <1>2, OneMore
      <3>2. hostBlocks' - WarmBlocks = (hostBlocks - WarmBlocks) + 1
        BY <1>2, <2>5
      <3>3. (hostBlocks' - WarmBlocks) * kBlockFrames = frame' - inPos'
        BY <1>1, <1>2, <1>4, <2>6, <3>1, <3>2
      <3> QED
        BY <1>1, <3>3 DEF HostInStep
    <2>9. Faulty' /\ SameAge'
      <3>1. ~dsp'.faulted => \A r \in Memories : dsp.mem[r] = dsp.mem["X"]
        BY <1>1, <2>3, <2>5 DEF VoiceInv, Heard, SameAge
      <3>2. ~dsp'.faulted => \A r \in Memories : dsp'.mem[r] = dsp'.mem["X"]
        BY <2>3, <2>5, <3>1 DEF Memories
      <3> QED
        BY <2>5, <3>2 DEF Faulty, SameAge
    <2>10. ~dsp'.faulted => \A k \in Offsets : fifo'[k] = frame - inPos + k + 1
      BY <1>2, <1>7, <2>3, <2>5, <2>6 DEF Offsets
    <2>11. Effect'
      <3>1. since' <= frame' - inPos' /\ since' # frame' - inPos' /\ since' <= frame' - inPos' - kBlockFrames
        BY <1>1, <1>2, <1>8, <2>6
      <3>2. avail' = kBlockFrames - 1 - inPos' /\ pos' = inPos' + 1
        BY <2>2, <2>6
      <3>3. \A k \in Offsets : ~(k < inPos')
        BY <2>6 DEF Offsets
      <3>4. ~dsp'.faulted => \A k \in Offsets : fifo'[k] = frame' - inPos' - kBlockFrames + k + 1
        <4>1. frame - inPos = frame' - inPos' - kBlockFrames
          BY <1>1, <1>2, <2>6
        <4> QED
          BY <2>10, <4>1
      <3> QED
        BY <3>1, <3>2, <3>3, <3>4 DEF Effect, BlockEnd
    <2>12. FxAligned'
      <3>1. 0 \in Offsets
        BY DEF Offsets
      <3>2. dsp'.faulted => out' = Silence
        BY <2>2, <2>5, <3>1 DEF Zeros
      <3>3. ~dsp'.faulted => out' = frame' - Latency
        BY <1>1, <1>2, <2>2, <2>6, <2>10, <3>1 DEF Latency
      <3>4. ~(frame' - Latency <= since')
        BY <1>1, <1>2, <1>8, <2>6 DEF Latency
      <3> QED
        BY <3>2, <3>3, <3>4 DEF FxAligned
    <2> QED
      BY <1>5, <2>7, <2>8, <2>9, <2>11, <2>12 DEF Heard
  <1>10. CASE ~full
    <2>1. UNCHANGED <<fifo, dsp, hostBlocks>>
      BY <1>10 DEF ProcessFx
    <2>2. inPos' = inPos + 1 /\ inPos + 1 < kBlockFrames /\ inPos \in Nat
      BY <1>2, <1>6, <1>10 DEF Offsets
    <2>3. WholeBlocks'
      <3>1. m * kBlockFrames = left' + inPos'
        BY <1>1, <1>2, <1>3, <2>2
      <3> QED
        BY <1>1, <3>1 DEF WholeBlocks
    <2>4. frame' - inPos' = frame - inPos
      BY <1>1, <1>2, <2>2
    <2>5. HostInStep'
      BY <1>1, <1>4, <2>1, <2>4 DEF HostInStep
    <2>6. Faulty' /\ SameAge'
      BY <1>1, <2>1 DEF VoiceInv, Heard, Faulty, SameAge
    <2>7. \A k \in Offsets : k < inPos' => in'[k] = frame' - inPos' + k + 1
      BY <1>2, <1>6, <1>7, <2>2, <2>4 DEF Offsets
    <2>8. CASE avail = 0
      <3>1. out' = Silence /\ pos' = pos /\ avail' = 0 /\ since = frame - inPos
        BY <1>2, <1>8, <1>10, <2>2, <2>8 DEF ProcessFx
      <3>2. Effect'
        BY <1>1, <1>8, <2>4, <2>7, <3>1 DEF Effect, BlockEnd
      <3>3. FxAligned'
        <4>1. frame' - Latency <= since'
          BY <1>1, <1>2, <2>2, <3>1 DEF Latency
        <4> QED
          BY <3>1, <4>1 DEF FxAligned
      <3> QED
        BY <1>5, <2>3, <2>5, <2>6, <3>2, <3>3 DEF Heard
    <2>9. CASE avail # 0
      <3>0. TakeFrame(pos, avail)
        BY <1>10, <2>9 DEF ProcessFx
      <3>1. out' = fifo[pos] /\ pos' = pos + 1 /\ avail' = avail - 1
        BY <2>1, <3>0 DEF TakeFrame
      <3>2. avail > 0 /\ avail = kBlockFrames - 1 - inPos /\ pos = inPos + 1 /\ pos \in Offsets
        BY <1>2, <1>8, <2>2, <2>9 DEF Offsets
      <3>3. Effect'
        <4>1. avail' = kBlockFrames - 1 - inPos' /\ pos' = inPos' + 1
          BY <1>2, <2>2, <3>1, <3>2
        <4>2. ~dsp'.faulted => \A k \in Offsets : k >= pos' =>
                fifo'[k] = IF since' = frame' - inPos' THEN Silence ELSE frame' - inPos' - kBlockFrames + k + 1
          BY <1>1, <1>2, <1>8, <2>1, <2>4, <3>1, <3>2 DEF Offsets
        <4> QED
          BY <1>1, <1>8, <2>4, <2>7, <4>1, <4>2 DEF Effect, BlockEnd
      <3>4. FxAligned'
        <4>1. dsp'.faulted => out' = Silence
          BY <1>1, <2>1, <3>1, <3>2 DEF VoiceInv, Heard, Faulty, Zeros
        <4>2. ~dsp'.faulted => out' = IF since = frame - inPos THEN Silence ELSE frame - inPos - kBlockFrames + pos + 1
          BY <1>8, <2>1, <3>1, <3>2 DEF Offsets
        <4>3. since = frame - inPos => frame' - Latency <= since'
          BY <1>1, <1>2, <2>2 DEF Latency
        <4>4. since # frame - inPos => frame - inPos - kBlockFrames + pos + 1 = frame' - Latency /\ ~(frame' - Latency <= since')
          BY <1>1, <1>2, <1>8, <2>2, <3>2 DEF Latency
        <4> QED
          BY <4>1, <4>2, <4>3, <4>4 DEF FxAligned
      <3> QED
        BY <1>5, <2>3, <2>5, <2>6, <3>3, <3>4 DEF Heard
    <2> QED
      BY <2>8, <2>9
  <1> QED
    BY <1>9, <1>10

LEMMA HeardSkip == ASSUME VoiceInv, Turns', Skip PROVE Heard'
  <1> USE DspSizes, VoiceSizes
  <1> DEFINE n == kFrames \div kBlockFrames
  <1>1. n \in Nat /\ n * kBlockFrames = kFrames
    BY WholeCall
  <1>2. /\ boot = "ready" /\ left = 0 /\ ~dsp.faulted /\ fifo' = Zeros /\ out' = Silence
        /\ frame' = frame + kFrames /\ since' = frame'
        /\ UNCHANGED <<fxIn, boot, dsp, pos, avail, in, inPos, left, played>>
    BY DEF Skip, inVars
  <1>a. hostBlocks' = hostBlocks + n
    BY DEF Skip
  <1> HIDE DEF n
  <1>3. hostBlocks \in Nat /\ frame \in Nat /\ played \in Nat /\ avail \in Nat /\ inPos \in Nat
    BY DEF VoiceInv, Turns, TypeOK, Offsets
  <1>4. IF fxIn THEN inPos = 0 ELSE avail = 0
    BY <1>2, CallEnd
  <1>5. Faulty' /\ SameAge' /\ Warm' /\ WholeBlocks'
    BY <1>2 DEF VoiceInv, Heard, Faulty, SameAge, Warm, WholeBlocks
  <1>6. Effect'
    <2> SUFFICES ASSUME fxIn PROVE Effect'
      BY <1>2 DEF Effect
    <2>1. inPos' = 0 /\ since' = frame' - inPos' /\ frame' - inPos' \in Nat
      BY <1>2, <1>3, <1>4
    <2>2. avail' = 0 \/ (avail' = kBlockFrames - 1 - inPos' /\ pos' = inPos' + 1)
      BY <1>2 DEF VoiceInv, Heard, Effect
    <2>3. \A k \in Offsets : fifo'[k] = Silence /\ ~(k < inPos')
      BY <1>2, <2>1 DEF Zeros, Offsets
    <2>4. since' <= frame' - inPos'
      BY <2>1
    <2> QED
      BY <2>1, <2>2, <2>3, <2>4 DEF Effect, BlockEnd
  <1>7. Synth'
    <2> SUFFICES ASSUME ~fxIn PROVE Synth'
      BY <1>2 DEF Synth
    <2>1. avail' = 0
      BY <1>2, <1>4
    <2> QED
      BY <1>2, <2>1 DEF VoiceInv, Heard, Synth
  <1>8. HostInStep'
    <2>1. (hostBlocks - WarmBlocks) * kBlockFrames = frame
      BY <1>2, <1>3, <1>4 DEF VoiceInv, Heard, HostInStep
    <2>2. ((hostBlocks - WarmBlocks) + n) * kBlockFrames = (hostBlocks - WarmBlocks) * kBlockFrames + n * kBlockFrames
      BY <1>1, <1>3
    <2>3. hostBlocks' - WarmBlocks = (hostBlocks - WarmBlocks) + n
      BY <1>1, <1>3, <1>a
    <2>4. (hostBlocks' - WarmBlocks) * kBlockFrames = frame'
      BY <1>1, <1>2, <2>1, <2>2, <2>3
    <2>5. IF fxIn' THEN frame' - inPos' = frame' ELSE frame' + avail' = frame'
      BY <1>2, <1>3, <1>4
    <2> QED
      BY <2>4, <2>5 DEF HostInStep
  <1>9. FxAligned' /\ SynthGapless'
    <2>1. frame' - Latency <= since' /\ ~(frame' > since')
      BY <1>2, <1>3 DEF Latency
    <2> QED
      BY <1>2, <2>1 DEF FxAligned, SynthGapless
  <1> QED
    BY <1>5, <1>6, <1>7, <1>8, <1>9 DEF Heard

\* Every step keeps the invariant.
LEMMA VoiceInductive == ASSUME VoiceInv, [Next]_vars PROVE VoiceInv'
  <1>1. Turns'
    BY TurnsNext DEF VoiceInv
  <1>2. CASE Construct
    <2>1. boot' \in {"prewarm", "failed"}
      BY <1>2 DEF Construct
    <2> QED
      BY <1>1, <2>1, HeardBoot DEF VoiceInv
  <1>3. CASE Prewarm
    <2>1. boot' = "prewarm"
      BY <1>3 DEF Prewarm
    <2> QED
      BY <1>1, <2>1, HeardBoot DEF VoiceInv
  <1>4. CASE PrewarmEnd
    BY <1>1, <1>4, HeardPrewarmEnd DEF VoiceInv
  <1>5. CASE WarmUp
    BY <1>1, <1>5, HeardWarmUp DEF VoiceInv
  <1>6. CASE StartCall
    BY <1>1, <1>6, HeardStartCall DEF VoiceInv
  <1>7. CASE Process
    BY <1>1, <1>7, HeardProcess DEF VoiceInv
  <1>8. CASE ProcessFx
    BY <1>1, <1>8, HeardProcessFx DEF VoiceInv
  <1>9. CASE Skip
    BY <1>1, <1>9, HeardSkip DEF VoiceInv
  <1>10. CASE UNCHANGED vars
    <2>1. Heard'
      BY <1>10 DEF vars, fifoVars, inVars, callVars, VoiceInv, Heard, Faulty, SameAge, Warm, WholeBlocks,
                   Effect, BlockEnd, Synth, HostInStep, FxAligned, SynthGapless
    <2> QED
      BY <1>1, <2>1 DEF VoiceInv
  <1> QED
    BY <1>2, <1>3, <1>4, <1>5, <1>6, <1>7, <1>8, <1>9, <1>10 DEF Next

LEMMA VoiceAlways == Spec => []VoiceInv
  <1>1. Init => VoiceInv
    BY TurnsInit, HeardInit DEF VoiceInv
  <1> QED
    BY <1>1, VoiceInductive, PTL DEF Spec

\* What an effect puts out is its input of one block less a frame before, however often the engine slept.
THEOREM EffectAligned == Spec => []FxAligned
  <1>1. VoiceInv => FxAligned
    BY DEF VoiceInv, Heard
  <1> QED
    BY <1>1, VoiceAlways, PTL

\* A synth's frames are put out each once and in order, from the first after the warm-up.
THEOREM SynthInOrder == Spec => []SynthGapless
  <1>1. VoiceInv => SynthGapless
    BY DEF VoiceInv, Heard
  <1> QED
    BY <1>1, VoiceAlways, PTL

\* The host model keeps the time of the frames asked for, awake or asleep.
THEOREM HostKeepsTime == Spec => []HostInStep
  <1>1. VoiceInv => HostInStep
    BY DEF VoiceInv, Heard
  <1> QED
    BY <1>1, VoiceAlways, PTL

-----------------------------------------------------------------------------
(* What a reset makes of the DSP, field by field.                          *)

\* States of the DSP with the same fields are one.
LEMMA SameFields ==
    ASSUME NEW d \in DspStates, NEW e \in DspStates,
           d.mem = e.mem, d.loops = e.loops, d.skipped = e.skipped, d.stub = e.stub, d.bank = e.bank,
           d.bankSet = e.bankSet, d.block = e.block, d.adc = e.adc, d.out = e.out, d.program = e.program,
           d.rx = e.rx, d.tx = e.tx, d.faulted = e.faulted, d.jitFailed = e.jitFailed
    PROVE  d = e
  <1>1. d = [mem |-> d.mem, loops |-> d.loops, skipped |-> d.skipped, stub |-> d.stub, bank |-> d.bank,
              bankSet |-> d.bankSet, block |-> d.block, adc |-> d.adc, out |-> d.out, program |-> d.program,
              rx |-> d.rx, tx |-> d.tx, faulted |-> d.faulted, jitFailed |-> d.jitFailed]
    BY DEF DspStates
  <1>2. e = [mem |-> e.mem, loops |-> e.loops, skipped |-> e.skipped, stub |-> e.stub, bank |-> e.bank,
              bankSet |-> e.bankSet, block |-> e.block, adc |-> e.adc, out |-> e.out, program |-> e.program,
              rx |-> e.rx, tx |-> e.tx, faulted |-> e.faulted, jitFailed |-> e.jitFailed]
    BY DEF DspStates
  <1> QED
    BY <1>1, <1>2

\* The kernel's idle loops once the stub is installed over a fresh image.
Patched == [s \in Sites |-> IF s \in Matching THEN "jmp" ELSE "other"]

\* What the image, the stub and the bank make of any program memory, and what they leave alone.
LEMMA ImageWhole ==
    ASSUME NEW d \in DspStates
    PROVE  LET e == UploadDigibank(InstallStub(LoadImage(d)))
           IN  /\ e \in DspStates /\ e.loops = Patched /\ e.skipped = Cardinality(Matching) /\ e.stub = TRUE
               /\ (d.bankSet = TRUE => e.bank = TRUE) /\ e.bankSet = d.bankSet /\ e.block = d.block
               /\ e.out = d.out /\ e.jitFailed = d.jitFailed /\ e.mem = d.mem
  <1> DEFINE a == LoadImage(d)
             b == SkipIdleLoops(a)
             c == InstallStub(a)
             e == UploadDigibank(c)
             do == {s \in Sites : a.loops[s] = "do"}
  <1>1. /\ a \in DspStates /\ a.loops = [s \in Sites |-> IF s \in Matching THEN "do" ELSE "other"]
        /\ a.bank = d.bank /\ a.bankSet = d.bankSet /\ a.block = d.block /\ a.out = d.out
        /\ a.jitFailed = d.jitFailed /\ a.mem = d.mem
    <2>1. a \in DspStates
      BY ImageTypes
    <2>2. a.loops = [s \in Sites |-> IF s \in Matching THEN "do" ELSE "other"]
      BY DEF LoadImage, DspStates
    <2>3. /\ a.bank = d.bank /\ a.bankSet = d.bankSet /\ a.block = d.block /\ a.out = d.out
          /\ a.jitFailed = d.jitFailed /\ a.mem = d.mem
      BY DEF LoadImage, DspStates
    <2> HIDE DEF a
    <2> QED
      BY <2>1, <2>2, <2>3
  <1> HIDE DEF a
  <1>2. do = Matching
    BY <1>1, DspSizes
  <1>3. [s \in Sites |-> IF s \in Matching THEN "jmp" ELSE a.loops[s]] = Patched
    BY <1>1 DEF Patched
  <1>4. b = [a EXCEPT !.loops = Patched, !.skipped = Cardinality(Matching)]
    BY <1>2, <1>3 DEF SkipIdleLoops
  <1> HIDE DEF b
  <1>5. c = [b EXCEPT !.stub = TRUE]
    BY DEF InstallStub, b
  <1>6. c \in DspStates
    BY <1>1, ImageTypes
  <1> HIDE DEF c
  <1>7. /\ c.loops = Patched /\ c.skipped = Cardinality(Matching) /\ c.stub = TRUE
        /\ c.bank = d.bank /\ c.bankSet = d.bankSet /\ c.block = d.block /\ c.out = d.out
        /\ c.jitFailed = d.jitFailed /\ c.mem = d.mem
    BY <1>1, <1>4, <1>5 DEF DspStates
  <1>8. e \in DspStates
    BY <1>6, BankTypes
  <1>9. /\ e.loops = c.loops /\ e.skipped = c.skipped /\ e.stub = c.stub
        /\ (c.bankSet = TRUE => e.bank = TRUE) /\ e.bankSet = c.bankSet /\ e.block = c.block /\ e.out = c.out
        /\ e.jitFailed = c.jitFailed /\ e.mem = c.mem
    BY <1>6 DEF UploadDigibank, DspStates
  <1> HIDE DEF e
  <1>10. /\ e \in DspStates /\ e.loops = Patched /\ e.skipped = Cardinality(Matching) /\ e.stub = TRUE
         /\ (d.bankSet = TRUE => e.bank = TRUE) /\ e.bankSet = d.bankSet /\ e.block = d.block
         /\ e.out = d.out /\ e.jitFailed = d.jitFailed /\ e.mem = d.mem
    BY <1>7, <1>8, <1>9
  <1> QED
    BY <1>10 DEF e, c, a

\* What the kernel's init leaves of the memory.
InitKeeps(m) == [r \in Memories |-> IF r = "Y" THEN m[r] ELSE 0]

\* What a reset of d by a JIT that runs is.
AfterReset(d, e) ==
    /\ e \in DspStates /\ e.loops = Patched /\ e.skipped = Cardinality(Matching) /\ e.stub = TRUE
    /\ (d.bankSet = TRUE => e.bank = TRUE) /\ e.bankSet = d.bankSet /\ e.block = d.block
    /\ e.out = d.out /\ e.adc = Zeros /\ e.program = "wait" /\ e.rx = 0 /\ e.tx = <<>>
    /\ e.faulted = FALSE /\ e.jitFailed = FALSE
    /\ e.mem = InitKeeps(d.mem)

LEMMA ResetWhole ==
    ASSUME NEW d \in DspStates, NEW run \in Runs, run.verdict = "ok", d.jitFailed = FALSE,
           NEW e, e = Reset(d, FALSE, run)
    PROVE  AfterReset(d, e)
  <1> DEFINE loaded == UploadDigibank(InstallStub(LoadImage(d)))
             quiet == [loaded EXCEPT !.faulted = FALSE, !.adc = Zeros]
             ready == [quiet EXCEPT !.rx = 0, !.tx = <<>>, !.program = "init"]
             q == RunInit(ready)
             ran == RunUntilTx(ready, run)
  <1>1. e = IF ran.faulted THEN ran ELSE [ran EXCEPT !.tx = Tail(@)]
    BY DEF Reset
  <1>2. /\ loaded \in DspStates /\ loaded.loops = Patched /\ loaded.skipped = Cardinality(Matching)
        /\ loaded.stub = TRUE /\ (d.bankSet = TRUE => loaded.bank = TRUE) /\ loaded.bankSet = d.bankSet
        /\ loaded.block = d.block /\ loaded.out = d.out /\ loaded.jitFailed = d.jitFailed /\ loaded.mem = d.mem
    BY ImageWhole
  <1> HIDE DEF loaded
  <1>3. /\ quiet \in DspStates /\ quiet.loops = Patched /\ quiet.skipped = Cardinality(Matching)
        /\ quiet.stub = TRUE /\ (d.bankSet = TRUE => quiet.bank = TRUE) /\ quiet.bankSet = d.bankSet
        /\ quiet.block = d.block /\ quiet.out = d.out /\ quiet.jitFailed = d.jitFailed /\ quiet.mem = d.mem
        /\ quiet.faulted = FALSE /\ quiet.adc = Zeros
    BY <1>2, ZerosType DEF DspStates
  <1> HIDE DEF quiet
  <1>4. ready \in DspStates
    BY <1>3, OneWord, PortTypes
  <1>5. /\ ready.loops = Patched /\ ready.skipped = Cardinality(Matching)
        /\ ready.stub = TRUE /\ (d.bankSet = TRUE => ready.bank = TRUE) /\ ready.bankSet = d.bankSet
        /\ ready.block = d.block /\ ready.out = d.out /\ ready.jitFailed = d.jitFailed /\ ready.mem = d.mem
        /\ ready.faulted = FALSE /\ ready.adc = Zeros /\ ready.rx = 0 /\ ready.tx = <<>> /\ ready.program = "init"
    BY <1>3 DEF DspStates
  <1> HIDE DEF ready
  <1>6. Program(ready, run.reach) = q
    BY <1>5, RunDone DEF Program
  <1>7. q \in DspStates
    BY <1>4, RunTypes
  <1>8. /\ q.loops = Patched /\ q.skipped = Cardinality(Matching)
        /\ q.stub = TRUE /\ (d.bankSet = TRUE => q.bank = TRUE) /\ q.bankSet = d.bankSet
        /\ q.block = d.block /\ q.out = d.out /\ q.jitFailed = FALSE
        /\ q.mem = InitKeeps(d.mem)
        /\ q.faulted = FALSE /\ q.adc = Zeros /\ q.rx = 0 /\ q.tx = <<kInitSentinel>> /\ q.program = "wait"
    <2>1. Append(ready.tx, kInitSentinel) = <<kInitSentinel>>
      BY <1>5, OneWord DEF kInitSentinel
    <2>2. ready.jitFailed = FALSE
      BY <1>5 DEF DspStates
    <2> QED
      BY <1>4, <1>5, <2>1, <2>2 DEF RunInit, DspStates, InitKeeps
  <1> HIDE DEF q
  <1>9. ran = [q EXCEPT !.faulted = @ \/ run.verdict # "ok", !.jitFailed = @ \/ run.verdict = "jit"]
    BY <1>5, <1>6 DEF RunUntilTx
  <1>10. (q.faulted \/ run.verdict # "ok") = FALSE /\ (q.jitFailed \/ run.verdict = "jit") = FALSE
    BY <1>8
  <1>11. ran = q
    <2>1. ran = [q EXCEPT !.faulted = FALSE, !.jitFailed = FALSE]
      BY <1>9, <1>10
    <2>2. [q EXCEPT !.faulted = FALSE, !.jitFailed = FALSE] = q
      BY <1>7, <1>8 DEF DspStates
    <2> QED
      BY <2>1, <2>2
  <1> HIDE DEF ran
  <1>12. e = [q EXCEPT !.tx = <<>>]
    <2>1. Tail(<<kInitSentinel>>) = <<>>
      BY OneWord DEF kInitSentinel
    <2> QED
      BY <1>1, <1>8, <1>11, <2>1
  <1>13. <<>> \in Seq(Nat)
    BY OneWord
  <1>14. /\ e \in DspStates /\ e.loops = q.loops /\ e.skipped = q.skipped /\ e.stub = q.stub /\ e.bank = q.bank
         /\ e.bankSet = q.bankSet /\ e.block = q.block /\ e.out = q.out /\ e.adc = q.adc
         /\ e.program = q.program /\ e.rx = q.rx /\ e.tx = <<>> /\ e.faulted = q.faulted
         /\ e.jitFailed = q.jitFailed /\ e.mem = q.mem
    BY <1>7, <1>12, <1>13 DEF DspStates
  <1> QED
    BY <1>8, <1>14 DEF AfterReset

\* A reset whose run was stopped throws.
LEMMA ResetFaults ==
    ASSUME NEW d \in DspStates, NEW run \in Runs, run.verdict # "ok"
    PROVE  Reset(d, FALSE, run).faulted
  <1> DEFINE loaded == UploadDigibank(InstallStub(LoadImage(d)))
             quiet == [loaded EXCEPT !.faulted = FALSE, !.adc = Zeros]
             ready == [quiet EXCEPT !.rx = 0, !.tx = <<>>, !.program = "init"]
             q == Program(ready, run.reach)
             ran == RunUntilTx(ready, run)
  <1>1. Reset(d, FALSE, run) = IF ran.faulted THEN ran ELSE [ran EXCEPT !.tx = Tail(@)]
    BY DEF Reset
  <1>2. loaded \in DspStates
    BY ImageWhole
  <1> HIDE DEF loaded
  <1>3. quiet \in DspStates
    BY <1>2, ZerosType DEF DspStates
  <1> HIDE DEF quiet
  <1>4. ready \in DspStates /\ ready.tx = <<>>
    <2>1. ready \in DspStates
      BY <1>3, OneWord, PortTypes
    <2> QED
      BY <1>3, <2>1 DEF DspStates
  <1> HIDE DEF ready
  <1>5. ran \in DspStates
    BY <1>4, RunTypes
  <1>6. ran = [q EXCEPT !.faulted = @ \/ run.verdict # "ok", !.jitFailed = @ \/ run.verdict = "jit"]
    BY <1>4 DEF RunUntilTx
  <1>7. "faulted" \in DOMAIN ran
    BY <1>5 DEF DspStates
  <1>8. "faulted" \in DOMAIN q
    BY <1>6, <1>7
  <1> HIDE DEF q, ran
  <1>9. ran.faulted
    BY <1>6, <1>8
  <1> QED
    BY <1>1, <1>9

\* The invariant: the bank is set before the pre-warm and no block loses it.
FreshInv == Turns /\ (boot = "prewarm" => dsp.bankSet) /\ FreshAfterPrewarm

LEMMA RenderKeepsBank ==
    ASSUME NEW d \in DspStates, NEW fx \in BOOLEAN, RenderBlock(d, fx)
    PROVE  dsp'.bankSet = d.bankSet
  <1>1. PICK run \in Runs : dsp' = DspRenderBlock(d, [fx |-> fx], run)
    BY DEF RenderBlock
  <1> DEFINE given == [d EXCEPT !.block = [fx |-> fx], !.rx = @ + 1]
             ran == RunUntilTx(given, run)
             e == DspRenderBlock(d, [fx |-> fx], run)
  <1>2. CASE d.faulted
    BY <1>1, <1>2 DEF DspRenderBlock
  <1>3. CASE ~d.faulted
    <2>1. given \in DspStates /\ given.bankSet = d.bankSet
      <3>1. [fx |-> fx] \in [fx: BOOLEAN] /\ d.rx + 1 \in Int
        BY DEF DspStates
      <3> QED
        BY <3>1 DEF DspStates
    <2>2. e = IF ran.faulted THEN ran
              ELSE [ran EXCEPT !.tx = Tail(@), !.faulted = Head(ran.tx) # kDoneSentinel]
      BY <1>3 DEF DspRenderBlock
    <2> HIDE DEF given, e
    <2>3. ran \in DspStates
      BY <2>1, RunTypes
    <2>4. ran.bankSet = given.bankSet
      <3> DEFINE q == Program(given, run.reach)
      <3>1. RunInit(given).bankSet = given.bankSet /\ RunPass(given).bankSet = given.bankSet
        BY <2>1 DEF RunInit, RunPass, DspStates
      <3>2. q.bankSet = given.bankSet
        <4>1. run.reach \in {"idle", "busy", "done"}
          BY DEF Runs
        <4>2. CASE run.reach = "idle"
          BY <4>2 DEF Program
        <4>3. CASE run.reach = "busy"
          BY <2>1, <4>3 DEF Program, DspStates
        <4>4. CASE run.reach = "done"
          BY <3>1, <4>4 DEF Program
        <4> QED
          BY <4>1, <4>2, <4>3, <4>4
      <3> HIDE DEF q
      <3>3. ran = IF given.tx # <<>> THEN given
                  ELSE [q EXCEPT !.faulted = @ \/ run.verdict # "ok", !.jitFailed = @ \/ run.verdict = "jit"]
        BY DEF RunUntilTx, q
      <3>4. [q EXCEPT !.faulted = @ \/ run.verdict # "ok", !.jitFailed = @ \/ run.verdict = "jit"].bankSet = q.bankSet
        OBVIOUS
      <3> QED
        BY <3>2, <3>3, <3>4
    <2> HIDE DEF ran
    <2>5. e.bankSet = ran.bankSet
      BY <2>2, <2>3 DEF DspStates
    <2> QED
      BY <1>1, <2>1, <2>4, <2>5 DEF e
  <1> QED
    BY <1>2, <1>3

\* The reset of a pre-warmed DSP whose bank is set and whose JIT runs.
LEMMA KeepCodeFresh ==
    ASSUME NEW d \in DspStates, d.bankSet, NEW run \in Runs, MayRun(d, run), ~ResetKeepCode(d, run).faulted
    PROVE  [ResetKeepCode(d, run) EXCEPT !.block = PowerOn.block]
               = SetDigibank(Reset(PowerOn, FALSE, [reach |-> "done", verdict |-> "ok"]))
  <1> DEFINE m == [r \in Memories |-> IF r = "buffers" THEN d.mem[r] ELSE 0]
             q == [d EXCEPT !.mem = m, !.adc = Zeros, !.out = Zeros]
             e == Reset(q, FALSE, run)
             ok == [reach |-> "done", verdict |-> "ok"]
             p == Reset(PowerOn, FALSE, ok)
             none == [r \in Memories |-> 0]
  <1>1. m \in [Memories -> Nat] /\ m["Y"] = 0
    BY DEF DspStates, Memories
  <1>2. ResetKeepCode(d, run) = e
    BY DEF ResetKeepCode
  <1> HIDE DEF m
  <1>3. q \in DspStates /\ q.mem = m /\ q.bankSet = d.bankSet /\ q.out = Zeros /\ q.jitFailed = d.jitFailed
    BY <1>1, ZerosType DEF DspStates
  <1> HIDE DEF q
  <1>4. run.verdict = "ok"
    <2>1. ~e.faulted
      BY <1>2
    <2> QED
      BY <1>3, <2>1, ResetFaults
  <1>5. q.jitFailed = FALSE
    BY <1>3, <1>4 DEF MayRun, DspStates
  <1>6. /\ e \in DspStates /\ e.loops = Patched /\ e.skipped = Cardinality(Matching) /\ e.stub = TRUE
        /\ e.bank = TRUE /\ e.bankSet = TRUE /\ e.out = Zeros /\ e.adc = Zeros
        /\ e.program = "wait" /\ e.rx = 0 /\ e.tx = <<>> /\ e.faulted = FALSE /\ e.jitFailed = FALSE
        /\ e.mem = InitKeeps(q.mem)
    <2>1. q.bankSet = TRUE
      BY <1>3 DEF DspStates
    <2>2. AfterReset(q, e)
      <3>1. e = Reset(q, FALSE, run)
        OBVIOUS
      <3> HIDE DEF e
      <3> QED
        BY <1>3, <1>4, <1>5, <3>1, ResetWhole
    <2> HIDE DEF e
    <2> QED
      BY <1>3, <2>1, <2>2 DEF AfterReset
  <1>7. e.mem = none
    BY <1>1, <1>3, <1>6 DEF InitKeeps
  <1>8. ok \in Runs /\ ok.verdict = "ok" /\ PowerOn.jitFailed = FALSE
    BY DEF Runs, PowerOn
  <1> HIDE DEF ok
  <1>9. /\ p \in DspStates /\ p.loops = Patched /\ p.skipped = Cardinality(Matching) /\ p.stub = TRUE
        /\ p.block = PowerOn.block /\ p.out = Zeros /\ p.adc = Zeros
        /\ p.program = "wait" /\ p.rx = 0 /\ p.tx = <<>> /\ p.faulted = FALSE /\ p.jitFailed = FALSE
        /\ p.mem = InitKeeps(PowerOn.mem)
    <2>1. PowerOn.out = Zeros
      BY DEF PowerOn
    <2>2. AfterReset(PowerOn, p)
      <3>1. p = Reset(PowerOn, FALSE, ok)
        OBVIOUS
      <3> HIDE DEF p
      <3> QED
        BY <1>8, <3>1, PowerOnType, ResetWhole
    <2> HIDE DEF p
    <2> QED
      BY <2>1, <2>2 DEF AfterReset
  <1>10. p.mem = none
    <2>1. PowerOn.mem = none
      BY DEF PowerOn
    <2> QED
      BY <1>9, <2>1 DEF InitKeeps
  <1> HIDE DEF e, p, none
  <1> DEFINE a == [e EXCEPT !.block = PowerOn.block]
             b == SetDigibank(p)
  <1>11. /\ a \in DspStates /\ a.mem = none /\ a.loops = Patched /\ a.skipped = Cardinality(Matching) /\ a.stub = TRUE
         /\ a.bank = TRUE /\ a.bankSet = TRUE /\ a.block = PowerOn.block /\ a.out = Zeros /\ a.adc = Zeros
         /\ a.program = "wait" /\ a.rx = 0 /\ a.tx = <<>> /\ a.faulted = FALSE /\ a.jitFailed = FALSE
    <2>1. PowerOn.block \in [fx: BOOLEAN]
      BY PowerOnType DEF DspStates
    <2> QED
      BY <1>6, <1>7, <2>1 DEF DspStates
  <1>12. /\ b \in DspStates /\ b.mem = none /\ b.loops = Patched /\ b.skipped = Cardinality(Matching) /\ b.stub = TRUE
         /\ b.bank = TRUE /\ b.bankSet = TRUE /\ b.block = PowerOn.block /\ b.out = Zeros /\ b.adc = Zeros
         /\ b.program = "wait" /\ b.rx = 0 /\ b.tx = <<>> /\ b.faulted = FALSE /\ b.jitFailed = FALSE
    <2>1. b \in DspStates
      BY <1>9, BankTypes
    <2>2. b = [[p EXCEPT !.bankSet = TRUE] EXCEPT !.bank = TRUE]
      BY <1>9 DEF SetDigibank, UploadDigibank, DspStates
    <2> HIDE DEF b
    <2> QED
      BY <1>9, <1>10, <2>1, <2>2 DEF DspStates
  <1> HIDE DEF a, b
  <1>13. a = b
    <2>1. /\ a.mem = b.mem /\ a.loops = b.loops /\ a.skipped = b.skipped /\ a.stub = b.stub /\ a.bank = b.bank
          /\ a.bankSet = b.bankSet /\ a.block = b.block /\ a.adc = b.adc /\ a.out = b.out /\ a.program = b.program
          /\ a.rx = b.rx /\ a.tx = b.tx /\ a.faulted = b.faulted /\ a.jitFailed = b.jitFailed
      BY ONLY <1>11, <1>12
    <2>2. a \in DspStates /\ b \in DspStates
      BY ONLY <1>11, <1>12
    <2> QED
      BY ONLY <2>1, <2>2, SameFields
  <1> QED
    BY <1>2, <1>13 DEF a, b, p, ok

LEMMA FreshNext == ASSUME FreshInv, [Next]_vars PROVE FreshInv'
  <1>1. Turns'
    BY TurnsNext DEF FreshInv
  <1>2. dsp \in DspStates
    BY DEF FreshInv, Turns, TypeOK
  <1>3. CASE Construct
    <2>1. PICK run \in Runs :
            LET d == Reset(PowerOn, FALSE, run)
            IN  /\ dsp' = IF d.faulted THEN d ELSE SetDigibank(d)
                /\ boot' = IF d.faulted THEN "failed" ELSE "prewarm"
      BY <1>3 DEF Construct
    <2> DEFINE d == Reset(PowerOn, FALSE, run)
    <2>2. d \in DspStates
      BY PowerOnType, ResetTurn
    <2>3. boot' = (IF d.faulted THEN "failed" ELSE "prewarm") /\ dsp' = IF d.faulted THEN d ELSE SetDigibank(d)
      BY <2>1
    <2> HIDE DEF d
    <2>4. SetDigibank(d).bankSet
      BY <2>2 DEF SetDigibank, UploadDigibank, DspStates
    <2> QED
      BY <1>1, <2>3, <2>4 DEF FreshInv, FreshAfterPrewarm
  <1>4. CASE Prewarm
    <2>1. PICK fx \in BOOLEAN : RenderBlock(IF fx THEN SetInputFrames(dsp, Noise) ELSE dsp, fx)
      BY <1>4 DEF Prewarm
    <2> DEFINE d == IF fx THEN SetInputFrames(dsp, Noise) ELSE dsp
    <2>2. d \in DspStates
      BY <1>2, NoiseType, InputTypes
    <2>3. d.bankSet = dsp.bankSet
      BY <1>2 DEF SetInputFrames, DspStates
    <2>4. dsp.bankSet /\ boot = "prewarm" /\ boot' = "prewarm"
      BY <1>4 DEF Prewarm, FreshInv
    <2>5. RenderBlock(d, fx)
      BY <2>1
    <2> HIDE DEF d
    <2>6. dsp'.bankSet
      BY <2>2, <2>3, <2>4, <2>5, RenderKeepsBank
    <2> QED
      BY <1>1, <2>4, <2>6 DEF FreshInv, FreshAfterPrewarm
  <1>5. CASE PrewarmEnd
    <2>1. PICK run \in Runs : /\ MayRun(dsp, run) /\ dsp' = ResetKeepCode(dsp, run)
                              /\ boot' = IF dsp'.faulted THEN "failed" ELSE "warmup"
      BY <1>5 DEF PrewarmEnd
    <2>2. dsp.bankSet
      BY <1>5 DEF PrewarmEnd, FreshInv
    <2>3. CASE dsp'.faulted
      BY <1>1, <2>1, <2>3 DEF FreshInv, FreshAfterPrewarm
    <2>4. CASE ~dsp'.faulted
      <3>1. [dsp' EXCEPT !.block = PowerOn.block]
               = SetDigibank(Reset(PowerOn, FALSE, [reach |-> "done", verdict |-> "ok"]))
        BY <1>2, <2>1, <2>2, <2>4, KeepCodeFresh
      <3> QED
        BY <1>1, <2>1, <2>4, <3>1 DEF FreshInv, FreshAfterPrewarm
    <2> QED
      BY <2>3, <2>4
  <1>6. CASE WarmUp
    <2>1. boot = "warmup" /\ left' = left - 1 /\ boot' # "prewarm" /\ left \in 1 .. WarmBlocks /\ WarmBlocks \in Nat
      BY <1>6, VoiceSizes DEF WarmUp, FreshInv, Turns, Counters
    <2>2. left' # WarmBlocks
      BY <2>1
    <2> QED
      BY <1>1, <2>1, <2>2 DEF FreshInv, FreshAfterPrewarm
  <1>7. CASE StartCall \/ Process \/ ProcessFx \/ Skip
    <2>1. boot' = "ready"
      BY <1>7 DEF StartCall, Process, ProcessFx, NextFrame, Skip
    <2> QED
      BY <1>1, <2>1 DEF FreshInv, FreshAfterPrewarm
  <1>8. CASE UNCHANGED vars
    BY <1>1, <1>8 DEF vars, FreshInv, FreshAfterPrewarm
  <1> QED
    BY <1>3, <1>4, <1>5, <1>6, <1>7, <1>8 DEF Next

\* After the pre-warm the DSP is the one a new voice has, whatever was played and whatever faulted.
THEOREM PrewarmLeavesNothing == Spec => []FreshAfterPrewarm
  <1>1. Init => FreshInv
    BY TurnsInit DEF Init, FreshInv, FreshAfterPrewarm
  <1>2. Spec => []FreshInv
    BY <1>1, FreshNext, PTL DEF Spec
  <1>3. FreshInv => FreshAfterPrewarm
    BY DEF FreshInv
  <1> QED
    BY <1>2, <1>3, PTL

=============================================================================
