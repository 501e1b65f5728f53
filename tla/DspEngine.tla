----------------------------- MODULE DspEngine -----------------------------
(***************************************************************************)
(* DspEngine: the emulated DSP, its memory, and the host port on which the *)
(* harness stub and the host take turns: a go word in, a done word out.    *)
(* Each method runs on the engine process's one thread, so it is a         *)
(* function from the DSP's state to the next; MonoVoice holds the state.   *)
(*                                                                         *)
(* Of the memory, what a reset must put back is kept: X and Y RAM and the  *)
(* external buffers as the number of blocks rendered since each was        *)
(* cleared, the program words the stub patches, the waveform bank, the ADC *)
(* ring and the output.  The kernel's own code is external: its init       *)
(* clears X RAM and the buffers, its track pass renders one block.         *)
(***************************************************************************)
EXTENDS Integers, Sequences, FiniteSets

CONSTANTS
    kBlockFrames,    \* frames in a DSP block: 16
    Sites,           \* kSites: the kernel's idle loops
    Matching         \* those whose words this OS file holds

ASSUME DspSizes ==
    /\ kBlockFrames \in Nat \ {0}
    /\ Matching \subseteq Sites /\ IsFiniteSet(Sites)

Silence == 0
Offsets == 0 .. kBlockFrames - 1
Zeros == [k \in Offsets |-> Silence]

kInitSentinel == 49374    \* 0x00C0DE
kDoneSentinel == 53472    \* 0x00D0E0

\* How a run of the emulator ends: how far the program got, and whether the host stopped it there for the
\* instruction budget or because the JIT failed.  It may fail in the run in which the word came.
Runs == [reach: {"done"}, verdict: {"ok"}]
            \cup [reach: {"idle", "busy", "done"}, verdict: {"budget", "jit"}]

\* A JIT that failed stays failed.
MayRun(d, run) == d.jitFailed => run.verdict = "jit"

Memories == {"X", "Y", "buffers"}
Age(d) == CHOOSE a \in {d.mem[r] : r \in Memories} : \A r \in Memories : d.mem[r] <= a

\* A block of a synth, numbered by the state it was made from; what is left in any memory is heard.
SynthBlock(b) == [k \in Offsets |-> b * kBlockFrames + k + 1]

-----------------------------------------------------------------------------
(* The DSP, started at kStubInit or waiting for a go word.                 *)

\* The stub's init: the kernel clears X RAM and the buffers, the sentinel goes to the host.
RunInit(d) ==
    [d EXCEPT !.mem = [r \in Memories |-> IF r = "Y" THEN @[r] ELSE 0],
              !.tx = Append(@, kInitSentinel), !.program = "wait"]

\* The stub's main and out: a go word is taken, a track pass run over the block, the done word sent.
RunPass(d) ==
    [d EXCEPT !.rx = @ - 1, !.tx = Append(@, kDoneSentinel),
              !.mem = [r \in Memories |-> @[r] + 1],
              !.out = IF d.block.fx THEN d.adc ELSE SynthBlock(Age(d))]

Program(d, reach) ==
    CASE reach = "idle" -> d
      [] reach = "busy" -> [d EXCEPT !.rx = IF d.program = "wait" THEN @ - 1 ELSE @, !.program = "busy"]
      [] reach = "done" -> IF d.program = "init" THEN RunInit(d) ELSE RunPass(d)

\* runUntilTx for one word: nothing runs when one is there already; a failed JIT is seen before the word.
RunUntilTx(d, run) ==
    IF d.tx # <<>> THEN d
    ELSE [Program(d, run.reach) EXCEPT !.faulted = @ \/ run.verdict # "ok",
                                       !.jitFailed = @ \/ run.verdict = "jit"]

-----------------------------------------------------------------------------
(* Reset.                                                                  *)

Cleared(d) ==
    [d EXCEPT !.mem = [r \in Memories |-> 0], !.loops = [s \in Sites |-> "zero"], !.stub = FALSE,
              !.bank = FALSE, !.adc = Zeros, !.out = Zeros]

\* The OS file's records: the words the stub had patched are the file's again.
LoadImage(d) ==
    [d EXCEPT !.loops = [s \in Sites |-> IF s \in Matching THEN "do" ELSE "other"], !.stub = FALSE]

\* Each DO that holds the words of OS 1.32B becomes a jump past its end.
SkipIdleLoops(d) ==
    LET do == {s \in Sites : d.loops[s] = "do"}
    IN  [d EXCEPT !.loops = [s \in Sites |-> IF s \in do THEN "jmp" ELSE @[s]], !.skipped = Cardinality(do)]

InstallStub(d) == [SkipIdleLoops(d) EXCEPT !.stub = TRUE]

UploadDigibank(d) == IF d.bankSet THEN [d EXCEPT !.bank = TRUE] ELSE d

SetDigibank(d) == UploadDigibank([d EXCEPT !.bankSet = TRUE])

\* Mutant of Reset: what the host port holds is left there.
ResetKeepsPort(d, clear, run) ==
    LET loaded == InstallStub(LoadImage(IF clear THEN Cleared(d) ELSE d))
        quiet  == [UploadDigibank(loaded) EXCEPT !.faulted = FALSE, !.adc = Zeros]
        ready  == [quiet EXCEPT !.program = "init"]
        ran    == RunUntilTx(ready, run)
    IN  IF ran.faulted THEN ran ELSE [ran EXCEPT !.tx = Tail(@)]

\* reset: image, stub, bank; the ADC ring and the host port emptied; the init run to its sentinel.
\* A state left faulted stands for the exception.
Reset(d, clear, run) ==
    LET loaded == InstallStub(LoadImage(IF clear THEN Cleared(d) ELSE d))
        quiet  == [UploadDigibank(loaded) EXCEPT !.faulted = FALSE, !.adc = Zeros]
        ready  == [quiet EXCEPT !.rx = 0, !.tx = <<>>, !.program = "init"]
        ran    == RunUntilTx(ready, run)
    IN  IF ran.faulted THEN ran ELSE [ran EXCEPT !.tx = Tail(@)]

\* Mutant of ResetKeepCode: internal RAM is left to the kernel's init, which clears X only.
ResetKeepsRam(d, run) == Reset(d, FALSE, run)

\* resetKeepCode: internal X and Y RAM are zeroed, the program is left for the compiled code's sake.
ResetKeepCode(d, run) ==
    Reset([d EXCEPT !.mem = [r \in Memories |-> IF r = "buffers" THEN @[r] ELSE 0],
                    !.adc = Zeros, !.out = Zeros], FALSE, run)

\* The constructor, up to its reset.
PowerOn ==
    [mem |-> [r \in Memories |-> 0], loops |-> [s \in Sites |-> "zero"], skipped |-> 0, stub |-> FALSE,
     bank |-> FALSE, bankSet |-> FALSE, block |-> [fx |-> FALSE], adc |-> Zeros, out |-> Zeros,
     program |-> "init", rx |-> 0, tx |-> <<>>, faulted |-> FALSE, jitFailed |-> FALSE]

DspStates ==
    [mem: [Memories -> Nat], loops: [Sites -> {"zero", "do", "jmp", "other"}], skipped: Nat, stub: BOOLEAN,
     bank: BOOLEAN, bankSet: BOOLEAN, block: [fx: BOOLEAN], adc: [Offsets -> Int], out: [Offsets -> Int],
     program: {"init", "wait", "busy"}, rx: Int, tx: Seq(Nat), faulted: BOOLEAN, jitFailed: BOOLEAN]

-----------------------------------------------------------------------------
(* A block.                                                                *)

SetInputFrames(d, frames) == [d EXCEPT !.adc = frames]

\* renderBlock: words 1..51 to memory, word 0 over the port; one word back, which must be the done word.
\* A faulted engine stays silent.
DspRenderBlock(d, block, run) ==
    IF d.faulted THEN d
    ELSE LET ran == RunUntilTx([d EXCEPT !.block = block, !.rx = @ + 1], run)
         IN  IF ran.faulted THEN ran
             ELSE [ran EXCEPT !.tx = Tail(@), !.faulted = Head(ran.tx) # kDoneSentinel]
=============================================================================
