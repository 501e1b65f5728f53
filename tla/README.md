# Monomodule, specified

TLA+ models of the Monomodule: an Elektron Monomachine voice as a sound
generator and an audio effect for Ableton Move. The DSP of the machine runs in
a process of its own (`mnm-engine`), beside the plugin that the host loads. What
can go wrong is between the two: a callback that may never wait, a process that
may be late, hang or die, a segment of shared memory with no lock in it, and a
parameter table that must survive all of it.

Paths below are those of the repository.

## 1. The system

| Part | Where | State it keeps | Operations |
|---|---|---|---|
| Callback | `src/plugin/mnm_plugin.cpp` (`renderBlock`, `processBlock`, `tick`, `playBlock`, `advance`) | `host_block`, `underruns`, `replayedGen` | one block per call: play or silence, input in (effect), store, wake |
| Entry points | same file (`setParam`, `getParam`, `onMidi`, `createInstance`, `destroyInstance`) | `Params`, `presetIndex`, `depth` | knobs, machine, preset, state, notes; on the host's thread |
| Supervisor | same file (`supervise`, `spawnChild`, `resetSegment`, `freeWhenStopped`) | `pid`, `failures`, `stalledPolls`, `bootPolls`, `gaveUp`, `seg`, `segGen`, `error` | spawn, poll every 100 ms, kill, back off, give up, free |
| Preset catalog | same file (`refreshPresets`, `buildCatalog`, `presetName`, `loadPreset`) | `catalog`, `retired`, `retiredPolls`, `dumpPolls` | rebuild, swap, delete later; lock-free reads |
| Segment | `src/common/mnm_shm.h` | clock, phases, command ring, slots | `pushCmd` |
| Engine process | `src/child/mnm_engine.cpp` | `next`, `produced`, `heartbeat`, `struct Engine` | boot, drain, render or skip, publish, sleep |
| Texts | `src/plugin/mnm_plugin.cpp` (`toRaw`, `fromRaw`, `parseMachine`, `writeState`, `readState`) | none of its own: the table, the depth | names, indexes and numbers to raw values and back; the state's text |
| Served pages | same file (`armReplan`, `expandInto`, `is_loading`) | `loadingUntilMs` | pages filled with the current machine's names; a 350 ms pulse after a change |
| Voice | `src/engine/MonoVoice.cpp` | two FIFOs, host model, DSP | `prewarm`, `warmUp`, `process`, `processFx`, `skip` |
| DSP | `src/engine/dsp/DspEngine.cpp` | emulated DSP56300 and its memory, the host port, `m_faulted` | `reset`, `resetKeepCode`, `setDigibank`, `renderBlock` |
| UI tables, generators, tools | `src/plugin/generated`, `modules`, `tools` | none at run time | offline |

How they meet:

* the callback and the child share the *clock* (`host_block`, `produced`,
  `depth`, the slots); a futex on `host_block` wakes the child;
* the callback and the child share the *command ring* (`cmd_write`, `cmd_read`);
* the supervisor and the child share the *phase* and the *heartbeat*; the
  supervisor resets both the clock and the ring between two children, while the
  callback keeps running;
* the supervisor tells the callback of a new child by `seg` and `segGen`, and
  the callback answers with a replay of the table;
* the supervisor hands the callback preset catalogs through an atomic pointer;
* the host's grid polls `is_loading` and reads the pages again when it falls;
* a voice and its DSP take turns on the host port: a go word in, a done word out.

What is hard: no lock anywhere on the audio path; two processes and three
threads; crashes, hangs and slow boots at every point; a reset that overlaps
the callback's calls; bounded rings and counters; sleeps and wake-ups. The
hazards are listed one by one, with their lines and the properties that catch
them, in `PROJECT.json`.

What makes each part correct:

* **clock**: what is heard is the block whose turn it is, whole, from the child
  the call found Ready, from its own input; the child is never too far ahead; no wake-up is
  lost; a late child gives up only what is past, and catches up;
* **ring**: a bounded FIFO queue;
* **table**: a machine's values come back when it is picked; the engine comes to
  hold what the table holds;
* **texts**: what is shown, set again, shows the same; a saved state brings all
  of it back, one that was cut gets no more than one number wrong;
* **pages**: what the host shows is what is served, soon after the last change;
* **supervisor**: one child, no false Ready, bounded tries, no wrong kill, a
  hang ended, a destroyed instance freed;
* **engine voice**: last-note priority, no sound nobody played, a sleep that
  loses nothing;
* **voice**: constant latency for the effect, no frame lost or doubled for the
  synth, the host model on time;
* **DSP**: no word left on the port between two calls, a fresh state after the
  pre-warm, silence after a fault;
* **catalog**: never read after it is freed, never indexed with another one's
  count, none leaked, none freed twice, up to date in the end.

## 2. The modules

| Module | Models | Extends or instantiates |
|---|---|---|
| `BlockStream` | what the clock promises a listener: the abstract stream | |
| `BlockClock` | the clock and the slots, synth and effect | `BlockStream` as `Stream` |
| `BlockClockProofs` | its theorems | `BlockClock` |
| `CmdQueue` | a bounded queue that may refuse, and lose all on a respawn | |
| `CmdRing` | the ring, index by index | `CmdQueue` as `Queue` |
| `CmdRingProofs` | its theorems | `CmdRing` |
| `ParamTable` | `struct Params` and every entry point that writes it | |
| `TableSync` | table, ring, child and supervisor composed | `ParamTable` |
| `ServedPages` | the pages, their pulse and the host's grid | `ParamTable` |
| `ParamTableProofs` | the theorems of these three | `ParamTable`, `TableSync`, `ServedPages` |
| `ParamText` | texts to values and back, the saved state | |
| `ParamTextProofs` | its theorems | `ParamText` |
| `Supervisor` | an instance's life and its engine processes | |
| `SupervisorProofs` | its theorems | `Supervisor` |
| `EngineVoice` | MIDI, notes, mute and parking of an engine | |
| `EngineVoiceProofs` | its theorems | `EngineVoice` |
| `DspEngine` | the DSP, its host port and its resets, as functions on a state | |
| `MonoVoice` | a voice's boot, and the FIFOs between calls and DSP blocks | `DspEngine` |
| `MonoVoiceProofs` | its theorems | `MonoVoice` |
| `Catalog` | the preset catalog and its readers | |
| `CatalogProofs` | its theorems | `Catalog` |
| `MCParamTable`, `MCTableSync`, `MCServedPages`, `MCParamText`, `MCCatalog` | values of the constants for TLC | |

The parts are split where the code's own interfaces are. `BlockClock` takes from
the supervisor only what touches the clock (a death, a reap, a reset);
`Supervisor` takes from the clock only whether it moved; `TableSync` takes the
ring as the queue `CmdRing` implements, and the entry points whole from
`ParamTable`, as `ServedPages` does; `MonoVoice` runs `DspEngine`. A definition
bears the name of what it models where TLA+ allows it; the rest is in the `map`
of `PROJECT.json`.

### BlockClock

Every store of the clock is a step: `Tick`, `InputWritten`, `PlayBlock`,
`CopyDone`, `Advance`, `Wake` for the callback; `LoadClock`, `LoadDepth`, `Skip`,
`Wait`, `ReadInput`, `BeginWrite`, `EndWrite`, `Publish` for the child's loop;
`ChildDies`, `Reap`, `Respawn` for the supervisor. Slots have no lock, so an
access is a begin and an end; an access overlapped by a write is `Torn`. A block
of audio is the record of the block it is for, the block its input is of, and
the child that made it. Constant `Fx` is the build.

A call may be anywhere when its child dies, is reaped, and the segment is reset
for the next: the first restart follows the reap at once (`failures > 1` guards
the back-off), so `Respawn` has no guard on the callback. The history variable
`served` is the child whose Ready the call's `tick` found. One thing about time
is assumed, named `CallsAreShorterThanBoots` and put on `ChildReady` only: a call
of 3 ms does not last through the boot of a child, 0.4 s, that was spawned
during it. Without it a call could copy a slot for as long as the next child
needs to load, pre-warm and overwrite it.

The abstract `BlockStream` has no slots and no child: a stream that plays each
block in turn or nothing, with a bounded number in hand, which it may lose at any moment. The synth's clock
implements it (`ImplementsStream`).

### CmdRing

`pushCmd`, the drain and the reset, load by load and store by store, with
indices that run free and wrap. `CmdQueue` is what it implements: the queue is
read off the two indices, what the drain has applied off `r`.

### ParamTable and TableSync

`ParamTable` is sequential: each entry point is one step on the host's thread,
and leaves in `todo` the commands it pushes. The eight SYN values are one value
(a function on `Knobs`), the pages a machine change resets another, the LFOs and
the level, which it does not, the last. The history variable `lastSyn` is what
each machine was last given, `loadedOver` the machines a preset or a state has
replaced unsaved since.

`TableSync` adds the ring, `push` and its two reasons to drop, `tick`'s two
loads, the child's boot, drain (command by command, released at its end) and
death, and the supervisor's reset, spawn, publication and generation. The
engine's own table starts fresh at a boot.
`SetBpm` is left out: it is one more value sent again by the replay.

### ServedPages and ParamText

`ServedPages` adds to `ParamTable` what each entry point does to the pages:
`ArmReplan` where the code calls `armReplan`, nothing elsewhere. A page is the
values that fill it. Time is in ticks, `loadingUntilMs` the time that is left.
The host is external: it polls at least every `Poll`, and when it sees
`is_loading` fall reads first the hierarchy, then the parameters; changes may
come between the two.

`ParamText` is sequential. A text is what `strtol` makes of it, a number and a
rest, which is what the code's decisions rest on (`1/2` begins with a number and
is none). `SetKey` is `toRaw` and the store, `Shown` what `get_param` answers.
A state is a record of the parts of its text; `Cuts` are the texts that a cut,
an older version or the other build leaves of it. A cut may fall between two
values or among the digits of one (`Shortened`), which `readInts` takes for
whole.

### Supervisor

Two threads and up to `MaxSpawn` processes. The supervisor's program counter is
`sup`, from `setup` (the segment, the wait for the OS file) to `freed`; a poll is
one step (its reads are of atomics that another read could as well have found a
moment later), the stores that other threads can fall between are steps of their
own: the phase and the kill, the reset and the publication, the instance's depth
and the segment's. A child goes through the phases of its boot (`Load`,
`Prewarm`, `Ready`), may exit before it stores one, fail, crash or hang. The
heartbeat and the block counter are kept as "moved since the last poll".
Histories: `tries` since a poll last found the child at work, `quiet` polls since
the child last went round its loop.

### EngineVoice

One action per command and one for a block, rendered or skipped. Notes come in as
the MIDI messages `onMidi` turns into commands (`Midi`). `gate` is what the calls
to the external host model leave sounding, `keys` the keys really down, `crowded`
that one more was pressed than `heldNotes` records. A block's output is its
loudest sample, next to the two edges of what rounds to zero in 16 bits, so that
the child's `outputSilent` and the callback's conversion (`toS16`) can disagree.
`fxIn`, chosen at the start, is the build. `Op::Reset` and `Op::SetRouting` are
never sent by the plugin and left out.

### DspEngine and MonoVoice

`DspEngine` is a record and functions on it, since every method runs on the
child's one thread. Of the memory, it keeps what a reset must put back: X, Y and
the buffers as the number of blocks since each was cleared, the patched program
words, the waveform bank, the ADC ring. A run of the emulator gets as far as
`reach` and ends with `verdict`: the instruction budget or a failed JIT may stop
it before the go word is taken, after it, or after the done word is sent.

`MonoVoice` boots (`Construct`, `Prewarm`, `PrewarmEnd`, `WarmUp`) and then goes
frame by frame. A frame is the number of the input frame it was made from
(effect) or its place in the DSP's output (synth), so that a property can say
*which* frame is heard.

### Catalog

The supervisor's polls, scans, rebuilds and deletions against calls that load
the pointer, check the count and copy the sound as three steps. Files are what
the folders hold as a whole; the parser is in a submodule.

## 3. The runs

All with deadlock checking off where the bounds, or a destroyed instance, end
the behaviours; `pages`, `texts`, `table_sounds` and `voice` never stop and check
it.

| Run | Question | Bounds | Result |
|---|---|---|---|
| `clock_synth` | Is what the synth plays right, across respawns (during a call too) and depth changes, and does the child catch up? | 4 slots, depth 1..2, 7 blocks, 2 children | holds |
| `clock_fx` | Same for the effect, with late children and reused input slots | 8 slots, depth 1..4, 11 blocks, no death, fixed depth | holds |
| `cmd_ring` | Is the ring a queue? | 2 slots, indices mod 6, 9 commands, 3 children | holds |
| `sync` | Does the engine come to hold the table? | ring of 5, 2 edits, 2 children, 2 machines, 1 sound | holds |
| `pages` | Does the host come to show what is served? Do a machine's values come back? | 2 machines, 1 knob, 2 values, 2 sounds; a pulse of 3 ticks, a poll every 2 | holds |
| `texts` | Do names, numbers and states, whole or cut, go there and back? | 2 machines, 3 keys (bipolar, list, LFO destination), 3 texts, one preset | holds |
| `supervisor` | Is there one child, never falsely live or wrongly killed; is everything ended or served? | 5 children, 3 failures, 3 stalled polls, 2 boot polls, 2 depths, an OS file that may come late | holds |
| `voice` | Notes, mute, sleep | 4 notes, 3 held, parks after 3 | holds |
| `mono_voice` | Which frame is heard, from which DSP | blocks of 4, calls of 12, 5 calls, 3 pre-warm and 2 warm-up blocks, 2 idle loops | holds |
| `catalog` | Is the catalog safe to read, and current? | 3 changes of folder, 4 contents, retire after 3 polls, scan every 4 | holds |
| `clock_fx_respawn` | Does the effect play only what its child produced? | 4 slots, depth 1..2, 2 children | **violated** |
| `table_sounds` | Do a machine's values come back, also after presets and states? | 2 machines, 2 sounds | **violated** |

### Why the bounds are enough

* *Slots and blocks.* A slot is reused after `kSlots` blocks; the blocks bound is
  larger than `kSlots` in both clock runs, and the effect's run takes the code's
  own 8 and 4, for its margin is the difference of the two. The clock compares
  differences only, so nothing depends on how large the numbers are, short of
  the wrap at 2^32, which is not modelled.
* *Ring.* Two slots fill and empty, the indices wrap after six of the nine
  commands. In `sync` five slots hold one replay (four commands)
  and one more command, so that a replay can be cut.
* *Children.* The effects of a death reach its successor only; five children
  exhaust three failures with one recovery between.
* *Counters.* Polls, failures and parking limits are small numbers that are
  reached and passed; the proofs hold for all of them.
* *Texts.* The first list has names that are indexes of other options, and one
  that only begins with a number; the destination list has labels that another
  machine has on another knob, and a blank knob: the cases in which the ways to
  read a text can disagree. The preset's raw values are 127, which is no bucket's
  middle and, in a saved state, can be cut to 12 and to 1. The theorems are for every table and text.
* *Pages.* Only that a poll is shorter than the pulse matters
  (`PagesAssumption`); here it is by one tick.
* *Notes.* One more than `held` has room for.
* *Frames.* A call of three blocks starts and ends on a block for the synth and
  in the middle of one for the effect's output; five of them sleep twice with a
  call between. A memory left from the pre-warm shows in the first block.
* *Catalog.* A call is bounded by fewer polls than a replaced catalog waits
  (`kCallPolls <= kRetirePolls`): the code's own argument, "long after any
  get_param reading it returned".

### Fairness, and why the code justifies it

* The callback is called once per block by the host (`WF` of the callback's
  steps). Where a property needs that calls keep coming *between polls*, it says
  so as a premise (`HostKeepsCalling`), since a host may stop.
* The child's steps never block but in the futex wait, which the wake ends. The
  wait's 50 ms timeout gets **no** fairness: `EventuallyCaughtUp` shows the wake
  alone suffices.
* The supervisor's sleeps end, so it polls on, and looks for the OS file on.
  Nobody need upload one: `ServedOrGivenUp` begins when it is there. Crashes,
  hangs, edits, uploads and destroys are never fair. A hung process has no
  fairness.
* In `EngineVoice` the loop renders blocks; in `Catalog` a call returns and the
  supervisor polls.

### What the violations show

* `clock_fx_respawn`: `resetSegment` and the child set `produced` to
  `host_block`, and the effect plays `host_block - depth`. For `depth` blocks
  after a reset `playBlock`'s test passes for blocks nobody rendered since, and
  the slots still hold what the dead child left, one possibly half written. TLC's
  shortest trace is a call in flight at the reset, which plays that half-written
  slot; the calls after the new child is Ready play the others.
* `table_sounds`: `loadPreset` and `readState` replace the current machine's SYN
  values without remembering them as `switchMachine` does, and `readState` does
  not drop the restored machine's own memory.

### Differences between code and comments with no run of their own

Each shows in a model when an excuse is dropped; the definitions, where there
are any, stay in the modules and are marked as such.

* An effect whose depth is *raised* after its child skipped plays skipped blocks
  (`LiveDepth` for the effect in `BlockClock`); the run keeps the depth still.
  A depth that is *lowered* is safe (section 4).
* `resetSegment` takes the depth as an argument and stores it last; `seg` is
  published after `posix_spawn`. A depth set in between is lost to the engine
  until the next change, while `get_param` reports it (`DepthAgrees` in
  `Supervisor`).
* A child that becomes Ready between the boot timeout and its kill leaves the
  phase Ready with nobody behind it if that was the last try
  (`GivenUpIsNotReady` in `Supervisor`).
* "cannot start ..." stays in `get_error` for good after one failed spawn
  (`ErrorClears` in `Supervisor`).
* `readState` says "malformed: keep the current table", which a text cut in the
  digits of its last page value is not taken for: the shortened value replaces
  the saved one (`CutSpoilsOneNumber` says that nothing more goes wrong).
* A replay cut by a full ring counts as done (`AlwaysSynced` in `TableSync`).
* The 17th held key sounds but is not recorded: with the other 16 released it
  falls silent, and the engine may park under it (`crowded` in `EngineVoice`).
* Folders that change while they are read and then come back leave the catalog
  of the in-between files (`Reverts` in `Catalog`).
* `MonoVoice::processFx` says one block of latency and 16 silent frames; both
  are 15, since a full block is rendered on its last input frame
  (`Latency` in `MonoVoice`).
* `toRaw` says lists take "an option name or index", but names are searched
  first, and some lists have numerals for names: there an index that is also a
  name means the name. What is shown still sticks (`ShownSticks`).

## 4. The proofs

All are for every value of the constants that meets the named assumptions, and
none for liveness. The type invariants are proved, so no run spends time on them.

| Module | Theorem | Property |
|---|---|---|
| `BlockClockProofs` | `TypeCorrect` | `TypeOK` |
| | `OnlyProducedPlays`, `OwnInputPlays`, `AheadBounded`, `SkipsPast` | `PlaysOnlyProduced`, `PlaysOwnInput`, `NeverTooFarAhead`, `SkipsOnlyThePast` |
| | `WakeupNotLost` | `NoLostWakeup` |
| | `SynthImplementsStream` | `ImplementsStream` (refinement) |
| `CmdRingProofs` | `RingTypeCorrect`, `RingInOrder` | `TypeOK`, `InOrder` |
| | `RingImplementsQueue` | `ImplementsQueue` (refinement) |
| `ParamTableProofs` | `TableTypeCorrect`, `MemoryRestores` | `TypeOK`, `RestoresUnlessLoadedOver` |
| | `EngineHoldsTable` | `SyncedUnlessLost` (of `TableSync`) |
| | `PagesShown` | `ShownInTime` (of `ServedPages`) |
| `ParamTextProofs` | `EveryOptionReached`, `TableInRange`, `ShownIsSet` | the buckets of a list, the ranges of the table, `ShownSticks` |
| | `SavedIsRestored`, `CutSpoilsOne` | `StateRestores`, `CutSpoilsOneNumber` |
| `SupervisorProofs` | `SupervisorTypeCorrect`, `OneChildOnly`, `NeverReadyEarly`, `TriesAreBounded`, `KillsOnlyTheStalled` | `TypeOK`, `OneChild`, `NoEarlyReady`, `TriesBounded`, `KillsOnlyStalled` |
| `EngineVoiceProofs` | `VoiceTypeCorrect`, `LastNote`, `NobodyPlayedNothingHeard`, `ParksOnlyWhenIdle`, `AlwaysWakesUp` | `TypeOK`, `LastNotePlays`, `SilentUntilPlayed`, `ParksOnlyIdle`, `WakesUp` |
| `MonoVoiceProofs` | `TurnsAlwaysKept`, `EffectAligned`, `SynthInOrder`, `HostKeepsTime` | `TypeOK` and `TurnsKept`, `FxAligned`, `SynthGapless`, `HostInStep` |
| | `PrewarmLeavesNothing` | `FreshAfterPrewarm` |
| `CatalogProofs` | `CatalogTypeCorrect`, `NeverUsedAfterFree`, `OwnCountIndexes`, `CatalogsOwnedOnce` | `TypeOK`, `NoUseAfterFree`, `IndexesItsOwn`, `OwnedOnce` |

**Block clock.** Assumed: `SizesAssumption` (more slots than the largest depth,
as `mnm_shm.h` says), `CallsAreShorterThanBoots` as a guard of the model, and,
for the effect only, `CalmSpec`: no step respawns its
child or raises its depth, both of which `clock_fx_respawn` and the hazard on
the depth show cannot be dropped. The child may die, and the depth may be
lowered at any moment, between the child's reading of it and its use too, which
no run does. Every step of the two clocks the passing runs check is calm
(`CalmSystems`), and every step of a sound generator. The properties are not inductive: that a heard block is right needs
that every slot in the *window* from the callback's next block to `produced`
holds that very block, by this child. The invariant `Inv` says so, and where
the child is in its loop (`Decided`, `Rendering`) what it knows of the clock is
still true enough: `hbC <= hostBlock`, `next = produced`, and in the effect
`depthC >= depth`: an older, larger depth only makes the child render blocks the
callback no longer wants. A call that a reset has overtaken (`served # gen`, in
`PlayInv`) takes nothing more: `produced` is then no later than `host_block`, the
block it plays, and the next child, which is still booting, moves nothing until
the call is over; that is where `CallsAreShorterThanBoots` is used. What it had
taken is whole, for a booting child writes no slot. The key lemma,
`WriteWindow`, is that the slot the child writes is none of the window's, since
two blocks less than `kSlots` apart have different slots (`SlotsDiffer`).

**Command ring.** Assumed: `RingAssumption` (the indices wrap at a multiple of
the ring's size, and at more than it, as 32 bits and 1024 slots do). The indices
wrap, so no order can be read off them; `RingInv` says that there are unwrapped
counts (`Counts`: stored, released, applied, the ends of a drain and of a
respawn) of which the indices are the remainders (`Places`), and that the slots
between applied and stored hold commands in their order (`Ordered`). The lemmas
before it are the arithmetic of remainders: the difference of two indices is
that of the counts, and two counts less than a ring apart have different slots.

That the ring implements `CmdQueue` rests on the same invariant. `QueueIsWindow`
rids the queue of the wrap: it is the commands stored in the `Distance` of the
two indices, from the slot of the read index on. Each step of the code is then a
step of the queue or a stutter: the store of the write index accepts
(`PushImplements`; a refused push needs all slots taken), the store of the read
index lets go of the front (`DrainImplements`), the two halves of
`cmd_read.store(cmd_write.load())` lose what was stored before the load
(`ResetImplements`), and the copy into a slot changes none that the queue shows.

**Parameter table.** Assumed: `TableAssumption`. `MemoryInv`: of a machine that
no preset or state was loaded over, what is remembered of it, or its defaults if
nothing is, is what it was last given; and the current values are the current
machine's last. The excuse cannot be dropped (`table_sounds`).

**Table replay.** `SyncInv` joins two things. `Order` is what the generations
and the phase tell of the threads: between a reap and the publication the child
is off, a child that boots finds the phase Spawning, and while it boots the
generation has not been replayed; so a replay that counts for this generation
is one its child receives. For such a child (`Listening`), and while nothing
was dropped, what is `Coming` (the ring from the first command not yet applied,
then what the entry point still pushes) gives, applied to what the engine holds,
the table (`Delivers`). Applying a sequence is a recursion, about which nothing
can be proved here by induction; `Delivers` says it a field at a time instead:
the last command that sets the field gives the table's value, or none sets it and the
engine has it. That is kept by one command more (`DeliversAppend`) and by one
applied (`DeliversTail`), because a command gives a field the same whatever the
engine held (`ApplyFields`); what an entry point pushes does to an engine what it
did to the table (`EditDelivers`), and a replay sets every field
(`ReplayDelivers`).

**Served pages.** Assumed: `PagesAssumption` (the pulse is longer than the wait
between two polls). `Timers`: what is left of the pulse is the hold less the
time since the last change, and the host's last answer is no older than a poll.
`Due`: where the host shows something else than what is served, it saw the
pulse at its last poll, or has not polled since the change, or is about to read
what changed. When the time is up, none of the three is possible.

**Texts.** Assumed: `TextAssumption`, which says of the generated tables that a
list has at most 128 options and no name twice. The middle of a bucket lies in
it (`MidInBucket`, integer division at both ends), so a name leads to its own
option and back (`NameSticks`), and so does every raw value, a preset's too
(`RawSticks`); the invariant is that the table is in its ranges, also after
damaged states. For the saved state it is also that what was saved is whole
(`Written`): its values were in their ranges, so the clamps of `readState` keep
them (`ClampKeeps`, `ReadWhole`). What a cut leaves of a list of numbers is too short,
and then refused, or all of them, the last perhaps short of digits (`CutKinds`);
so a cut state that is taken is the saved one but for that number and the LFOs
(`ReadPart`).

**Supervisor.** Assumed: `SupervisorAssumption`. `SInv` joins the type with
where each process can be while the supervisor is where it is (`ProcInv`), which
phases a child's state allows (`PhaseInv`), that `tries` and `failures` differ by
the child that is running (`TriesInv`) and that `stalledPolls` never passes
`quiet` (`StallInv`).

**Engine voice.** Assumed: `VoiceAssumption`. The properties are about the keys
really down and the silence really heard, the code decides by `held` and
`silentBlocks`. `Inv` relates them: `held` is `keys` until one is not recorded
(and at least within them after), the count of silent blocks is never ahead of
the silence heard. `SilentIsUnheard` is the arithmetic: the child takes for
silence exactly what the callback rounds to zero.

**Voice.** Assumed: `DspSizes`, `VoiceSizes` (a call is whole blocks). First the
host port (`Turns`): a run that ends well leaves no word and a DSP that waits,
whatever a fault of the pre-warm left, since a reset empties the port. Then what
is heard (`Heard`): what is left of a call, with the input that waits or without
what is in the FIFO, is whole blocks (`WholeBlocks`), which is why `skip` may
silence the FIFO where it stands; `Effect` and `Synth` say which frames each
offset of the two FIFOs holds. That the pre-warm leaves nothing (`FreshInv`) is
that the DSP keeps its bank through the pre-warm (`RenderKeepsBank`), and what a
reset makes of a state whose JIT runs (`AfterReset`): it sets all but Y memory,
the output and the bank, and `resetKeepCode` has cleared the first two and kept
the third, so it ends where power-on, a reset and `setDigibank` end.

**Catalog.** Assumed: `CatalogAssumption`, with `kCallPolls <= kRetirePolls` as
above. `Inv` says that the catalog a call holds is the current one, or the
retired one, and then that it was retired no longer ago than the call is old;
and that current, retired and deleted are disjoint, which is also `OwnedOnce`.

Only model-checked: everything under fairness (`EventuallyCaughtUp`,
`EventuallySynced`, `DestroyEnds`, `ServedOrGivenUp`, `HungIsEnded`,
`EventuallyParks`, `ShowsTheFiles`), which the prover does not reach. Every
safety property of a passing run is proved.

## 5. Not modelled

* What is in the empty submodules: the DSP emulator, `HostModel`, the dump
  parser, the firmware loader. The models take what this repository's code asks
  of them as external.
* The DSP's debugging calls (`sendBlock`, `poke`, the interpreter, the trace)
  and statistics; `MonoVoice::reset`, which only `Op::Reset` reaches.
* The JSON of the pages, decimals, keys that do not exist, buffers that are too
  short for a text.
* Logging, scheduling classes, affinity, file descriptors, `pinSelf`; the peak
  and load meters.
* The wrap of the block counter at 2^32 (144 days of audio). The comparisons of
  `mnm_plugin.cpp` l. 959 in the effect are not of differences, as those of the
  synth are, and go wrong for some blocks there.
* Generated tables, generators, test tools, the host's headers, build files:
  data, straight-line code, or not this program's.

## 6. Plan

Done, in this order: clock and stream, ring and queue, table, their composition,
supervisor, engine voice, catalog, voice; DSP and boot; served pages and texts;
proofs of every safety property and of both refinements; the effect's clock with
a depth that is lowered while it runs.

## 7. Checking it

    tlc -workers 2 -config MCSupervisor.cfg Supervisor.tla
    tlapm SupervisorProofs.tla

Each run is a module and a configuration in `PROJECT.json` ("runs"). Each
property of a passing run has a mutant: an operator beside the definition it
changes, marked `Mutant of ...`, which TLC finds to break the property.
