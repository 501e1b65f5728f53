----------------------------- MODULE MonoVoice -----------------------------
(***************************************************************************)
(* MonoVoice: the DSP and the host model work in blocks of kBlockFrames,   *)
(* the engine asks for kFrames at a time, an effect also brings its input  *)
(* frame by frame.  m_fifo and m_in fit the one to the other, over calls   *)
(* that are rendered, calls that are skipped while the engine is parked,   *)
(* and a DSP that faults.                                                  *)
(*                                                                         *)
(* A frame of audio is abstracted to a number: of an effect, the frame of  *)
(* input it was made from (the DSP's own delay is external); of a synth,   *)
(* its place in what the DSP rendered since the pre-warm.                  *)
(***************************************************************************)
EXTENDS DspEngine

CONSTANTS
    kFrames,       \* frames in a call: 128
    PrewarmBlocks, \* blocks of the pre-warm: 32 of each machine
    WarmBlocks,    \* the blocks main warms a voice up with: 8
    MaxCalls       \* bound on the calls

ASSUME VoiceSizes ==
    /\ kFrames \in Nat \ {0} /\ kFrames % kBlockFrames = 0          \* skip: "a multiple of 16"
    /\ PrewarmBlocks \in Nat \ {0} /\ WarmBlocks \in Nat \ {0} /\ MaxCalls \in Nat

VARIABLES
    fxIn,                 \* the engine calls processFx, not process
    boot,                 \* "new", "prewarm", "warmup", "ready"; "failed": the process exits
    dsp,                  \* m_engine
    fifo, pos, avail,     \* m_fifo, m_pos, m_avail
    in, inPos,            \* m_in, m_inPos
    hostBlocks,           \* blocks HostModel advanced
    left,                 \* blocks left in the boot phase, frames left in the call
    out,                  \* the frame last put out
    frame,                \* history: frames asked for since the voice is ready
    played, since         \* history: those rendered; the frame count when it was ready or last skipped

fifoVars == <<fifo, pos, avail>>
inVars == <<in, inPos>>
callVars == <<out, frame, played, since>>
vars == <<fxIn, boot, dsp, fifoVars, inVars, hostBlocks, left, callVars>>

Noise == [k \in Offsets |-> -1]

\* renderBlock: the host model's next block goes to the DSP.
RenderBlock(d, fx) ==
    /\ hostBlocks' = hostBlocks + 1
    /\ \E run \in Runs : MayRun(d, run) /\ dsp' = DspRenderBlock(d, [fx |-> fx], run)
    /\ fifo' = IF dsp'.faulted THEN Zeros ELSE dsp'.out

-----------------------------------------------------------------------------
(* The boot: the constructor, prewarm and warmUp.  An exception ends the   *)
(* process.                                                                *)

Construct ==
    /\ boot = "new"
    /\ \E run \in Runs :
        LET d == Reset(PowerOn, FALSE, run)
        IN  /\ dsp' = IF d.faulted THEN d ELSE SetDigibank(d)
            /\ boot' = IF d.faulted THEN "failed" ELSE "prewarm"
    /\ left' = PrewarmBlocks
    /\ UNCHANGED <<fxIn, fifoVars, inVars, hostBlocks, callVars>>

\* Every machine is played, an effect over noise; a fault only silences the rest.
Prewarm ==
    /\ boot = "prewarm" /\ left > 0
    /\ left' = left - 1
    /\ \E fx \in BOOLEAN :
        /\ in' = IF fx THEN Noise ELSE in
        /\ RenderBlock(IF fx THEN SetInputFrames(dsp, Noise) ELSE dsp, fx)
    /\ pos' = 0 /\ avail' = kBlockFrames
    /\ UNCHANGED <<fxIn, boot, inPos, callVars>>

\* Then all of it is put back: resetKeepCode, which clears a fault, a new HostModel, the FIFO empty.
PrewarmEnd ==
    /\ boot = "prewarm" /\ left = 0
    /\ \E run \in Runs :
        /\ MayRun(dsp, run) /\ dsp' = ResetKeepCode(dsp, run)
        /\ boot' = IF dsp'.faulted THEN "failed" ELSE "warmup"
    /\ left' = WarmBlocks
    /\ fifo' = Zeros /\ pos' = 0 /\ avail' = 0
    /\ in' = Zeros /\ inPos' = 0 /\ hostBlocks' = 0
    /\ UNCHANGED <<fxIn, callVars>>

\* Mutant of WarmUp: the last block it rendered is left to be heard.
WarmUpKeepsBlock ==
    /\ boot = "warmup"
    /\ left' = left - 1 /\ boot' = IF left = 1 THEN "ready" ELSE boot
    /\ RenderBlock(dsp, fxIn)
    /\ pos' = 0 /\ avail' = kBlockFrames
    /\ UNCHANGED <<fxIn, inVars, callVars>>

\* The blocks are rendered and the FIFO is left empty; a fault shows in the first call.
WarmUp ==
    /\ boot = "warmup"
    /\ left' = left - 1 /\ boot' = IF left = 1 THEN "ready" ELSE boot
    /\ RenderBlock(dsp, fxIn)
    /\ pos' = 0 /\ avail' = IF left = 1 THEN 0 ELSE kBlockFrames
    /\ UNCHANGED <<fxIn, inVars, callVars>>

-----------------------------------------------------------------------------
(* A call.                                                                 *)

\* A fault ends the process after the call it happened in.
StartCall ==
    /\ boot = "ready" /\ left = 0 /\ (~dsp.faulted \/ frame = 0)
    /\ frame < MaxCalls * kFrames
    /\ left' = kFrames
    /\ UNCHANGED <<fxIn, boot, dsp, fifoVars, inVars, hostBlocks, callVars>>

\* The end of the loop's body: a frame out of the FIFO.
TakeFrame(p, a) == out' = fifo'[p] /\ pos' = p + 1 /\ avail' = a - 1

NextFrame ==
    /\ boot = "ready" /\ left > 0
    /\ left' = left - 1 /\ frame' = frame + 1 /\ played' = played + 1
    /\ UNCHANGED <<fxIn, boot, since>>

\* process, a frame of it.
Process ==
    /\ ~fxIn /\ NextFrame
    /\ IF avail = 0
       THEN RenderBlock(dsp, FALSE) /\ TakeFrame(0, kBlockFrames)
       ELSE UNCHANGED <<fifo, dsp, hostBlocks>> /\ TakeFrame(pos, avail)
    /\ UNCHANGED inVars

\* processFx, a frame of it: the input goes in first, a full block is rendered at once.
ProcessFx ==
    /\ fxIn /\ NextFrame
    /\ LET filled == [in EXCEPT ![inPos] = frame + 1]
           full == inPos + 1 = kBlockFrames
       IN  /\ in' = filled /\ inPos' = IF full THEN 0 ELSE inPos + 1
           /\ IF full THEN RenderBlock(SetInputFrames(dsp, filled), TRUE) /\ TakeFrame(0, kBlockFrames)
              ELSE /\ UNCHANGED <<fifo, dsp, hostBlocks>>
                   /\ IF avail = 0 THEN out' = Silence /\ UNCHANGED <<pos, avail>>
                                   ELSE TakeFrame(pos, avail)

\* Mutants of Skip: what the FIFO held is heard on waking; the host model sleeps too.
SkipKeepsFifo ==
    /\ boot = "ready" /\ left = 0 /\ ~dsp.faulted /\ frame < MaxCalls * kFrames
    /\ hostBlocks' = hostBlocks + kFrames \div kBlockFrames
    /\ out' = Silence
    /\ frame' = frame + kFrames /\ since' = frame'
    /\ UNCHANGED <<fxIn, boot, dsp, fifoVars, inVars, left, played>>
SkipStopsHost ==
    /\ boot = "ready" /\ left = 0 /\ ~dsp.faulted /\ frame < MaxCalls * kFrames
    /\ fifo' = Zeros /\ out' = Silence
    /\ frame' = frame + kFrames /\ since' = frame'
    /\ UNCHANGED <<fxIn, boot, dsp, pos, avail, inVars, hostBlocks, left, played>>

\* skip, for a parked engine: the host model goes on, the FIFO is silenced where it stands.
Skip ==
    /\ boot = "ready" /\ left = 0 /\ ~dsp.faulted /\ frame < MaxCalls * kFrames
    /\ hostBlocks' = hostBlocks + kFrames \div kBlockFrames
    /\ fifo' = Zeros /\ out' = Silence
    /\ frame' = frame + kFrames /\ since' = frame'
    /\ UNCHANGED <<fxIn, boot, dsp, pos, avail, inVars, left, played>>

-----------------------------------------------------------------------------
Init ==
    /\ fxIn \in BOOLEAN /\ boot = "new" /\ dsp = PowerOn
    /\ fifo = Zeros /\ pos = 0 /\ avail = 0 /\ in = Zeros /\ inPos = 0
    /\ hostBlocks = 0 /\ left = 0
    /\ out = Silence /\ frame = 0 /\ played = 0 /\ since = 0

Next ==
    \/ Construct \/ Prewarm \/ PrewarmEnd \/ WarmUp
    \/ StartCall \/ Process \/ ProcessFx \/ Skip

Spec == Init /\ [][Next]_vars

-----------------------------------------------------------------------------
TypeOK ==
    /\ fxIn \in BOOLEAN /\ boot \in {"new", "prewarm", "warmup", "ready", "failed"}
    /\ dsp \in DspStates
    /\ fifo \in [Offsets -> Int] /\ in \in [Offsets -> Int]
    /\ pos \in 0 .. kBlockFrames /\ avail \in 0 .. kBlockFrames /\ inPos \in Offsets
    /\ hostBlocks \in Nat /\ left \in Nat /\ out \in Int
    /\ frame \in Nat /\ played \in Nat /\ since \in Nat

\* The host port's turns: between calls a DSP that runs waits for a go word, and no word of either
\* direction is left over, whatever a fault of the pre-warm left in it.  A word too many would be taken
\* for the next block's, and every block from there on be heard one block late.
TurnsKept ==
    boot \in {"prewarm", "warmup", "ready"} /\ ~dsp.faulted =>
        dsp.program = "wait" /\ dsp.rx = 0 /\ dsp.tx = <<>>

\* resetKeepCode: "back to the state of a fresh engine without losing the JIT's compiled code".  After the
\* pre-warm the DSP is the one a new voice has, but for the block it was last given.
FreshAfterPrewarm ==
    boot = "warmup" /\ left = WarmBlocks =>
        [dsp EXCEPT !.block = PowerOn.block]
            = SetDigibank(Reset(PowerOn, FALSE, [reach |-> "done", verdict |-> "ok"]))

Latency == kBlockFrames - 1

\* skip keeps the FIFO's position "so an FX engine's input/output alignment survives": what an effect puts
\* out was made from the input kBlockFrames - 1 frames before, through any number of sleeps, and is silent
\* only as long as that input came before it was ready or awake; nothing of before a sleep is heard after.
FxAligned ==
    fxIn /\ played > 0 =>
        out = IF dsp.faulted \/ frame - Latency <= since THEN Silence ELSE frame - Latency

\* What a synth puts out is all the DSP rendered since the warm-up, each frame once and in order, also
\* across a sleep; nothing of the pre-warm or the warm-up.  After a fault it is silent.
SynthGapless ==
    ~fxIn /\ played > 0 /\ frame > since =>
        out = IF dsp.faulted THEN Silence ELSE WarmBlocks * kBlockFrames + played

\* The host model (LFOs, slew, tempo) is where the frames asked for have brought it, asleep or not: a
\* synth's ahead by what is in the FIFO, an effect's behind by the input that waits.
HostInStep ==
    boot = "ready" =>
        (hostBlocks - WarmBlocks) * kBlockFrames = IF fxIn THEN frame - inPos ELSE frame + avail
=============================================================================
