----------------------------- MODULE Supervisor -----------------------------
(***************************************************************************)
(* The life of an instance and of its engine processes: the supervisor     *)
(* thread (supervise) spawns a child, polls it every 100 ms, kills and     *)
(* respawns it, gives up after too many quick failures, and frees the      *)
(* instance once destroy has asked for it; the callback's thread goes on   *)
(* using the instance until then.                                          *)
(*                                                                         *)
(* heartbeat and host_block are kept as what a poll can tell of them: that *)
(* they moved since the last one.  The back-off sleeps and the 20 waits of *)
(* the shutdown take as long as they take.                                 *)
(***************************************************************************)
EXTENDS Naturals

CONSTANTS
    kMaxQuickFailures,  \* 5
    kStallPolls,        \* polls without a heartbeat: 10
    kBootTimeoutPolls,  \* polls to reach Ready: 300
    Depths,             \* the latencies the user can pick
    MaxSpawn            \* bound on the children

ASSUME SupervisorAssumption ==
    /\ kMaxQuickFailures \in Nat \ {0} /\ kStallPolls \in Nat \ {0}
    /\ kBootTimeoutPolls \in Nat \ {0} /\ MaxSpawn \in Nat \ {0}
    /\ Depths # {}

VARIABLES
    osFile,     \* external: the user has uploaded the OS file
    stop,       \* Instance::stop: destroy was called
    moved,      \* host_block moved since the last poll
    inDepth,    \* Instance::depth
    setting,    \* set_param "depth" is between its two stores
    seg,        \* Instance::seg is published
    phase,      \* Segment::phase
    shutdown,   \* Segment::shutdown
    segDepth,   \* Segment::depth
    proc,       \* the processes
    children,   \* how many were spawned
    beat,       \* heartbeat moved since the last poll
    sup,        \* where the supervisor is
    pid,        \* its child, or NoPid
    depthArg,   \* resetSegment's argument
    stalledPolls, bootPolls, failures, gaveUp,
    error,      \* Instance::error: "none", or what wrote it
    tries,      \* history: spawns tried since a poll last found a healthy child
    quiet       \* history: polls since the child became Ready or went round its loop

hostVars == <<osFile, stop, moved, inDepth, setting>>
segVars == <<seg, phase, shutdown, segDepth>>
childVars == <<proc, children, beat>>
countVars == <<stalledPolls, bootPolls, failures, gaveUp, error, tries>>
vars == <<hostVars, segVars, childVars, sup, pid, depthArg, countVars, quiet>>

Phase == {"Spawning", "Loading", "Prewarming", "Ready", "Failed"}
NoPid == 0
Pids == 1 .. MaxSpawn
\* "gone" is reaped; the last child allowed neither fails nor is taken for hung.
Running == {"boot", "loading", "prewarming", "ready", "hung", "dying"}
CanLose == children < MaxSpawn

-----------------------------------------------------------------------------
(* The callback's thread.                                                  *)

\* tick and advance: host_block moves while the engine is Ready.
Advance ==
    /\ ~stop /\ seg /\ phase = "Ready" /\ ~moved
    /\ moved' = TRUE
    /\ UNCHANGED <<osFile, stop, inDepth, setting, segVars, childVars, sup, pid, depthArg, countVars,
                   quiet>>

\* set_param "depth", and a restored state: the instance's copy, then the segment's if it is published.
SetDepth(d) ==
    /\ ~stop /\ ~setting /\ d # inDepth
    /\ inDepth' = d /\ setting' = TRUE
    /\ UNCHANGED <<osFile, stop, moved, segVars, childVars, sup, pid, depthArg, countVars, quiet>>

SetSegDepth ==
    /\ setting
    /\ segDepth' = IF seg THEN inDepth ELSE segDepth
    /\ setting' = FALSE
    /\ UNCHANGED <<osFile, stop, moved, inDepth, seg, phase, shutdown, childVars, sup, pid, depthArg,
                   countVars, quiet>>

\* destroyInstance: hands the instance over and does not touch it again; frees it if no thread was started.
Destroy ==
    /\ ~stop /\ ~setting
    /\ stop' = TRUE
    /\ sup' = IF sup = "unstarted" THEN "freed" ELSE sup
    /\ UNCHANGED <<osFile, moved, inDepth, setting, segVars, childVars, pid, depthArg, countVars, quiet>>

-----------------------------------------------------------------------------
(* The processes.                                                          *)

Become(p, from, to) == proc[p] \in from /\ proc' = [proc EXCEPT ![p] = to]

Load(p) ==
    /\ Become(p, {"boot"}, "loading")
    /\ phase' = "Loading"
    /\ UNCHANGED <<hostVars, seg, shutdown, segDepth, children, beat, sup, pid, depthArg,
                   countVars, quiet>>

Prewarm(p) ==
    /\ Become(p, {"loading"}, "prewarming")
    /\ phase' = "Prewarming"
    /\ UNCHANGED <<hostVars, seg, shutdown, segDepth, children, beat, sup, pid, depthArg,
                   countVars, quiet>>

Ready(p) ==
    /\ Become(p, {"prewarming"}, "ready")
    /\ phase' = "Ready" /\ quiet' = 0
    /\ UNCHANGED <<hostVars, seg, shutdown, segDepth, children, beat, sup, pid, depthArg,
                   countVars>>

fail == phase' = "Failed"

\* A bad OS file, or an engine that does not build.
BootFails(p) ==
    /\ CanLose
    /\ Become(p, {"loading", "prewarming"}, "dying")
    /\ fail
    /\ UNCHANGED <<hostVars, seg, shutdown, segDepth, children, beat, sup, pid, depthArg,
                   countVars, quiet>>

\* One turn of the main loop.
Iterate(p) ==
    /\ proc[p] = "ready" /\ ~shutdown
    /\ ~beat \/ quiet # 0
    /\ beat' = TRUE /\ quiet' = 0
    /\ UNCHANGED <<hostVars, segVars, proc, children, sup, pid, depthArg, countVars>>

\* main returns: the loop sees shutdown, or the boot failed.
Exit(p) ==
    /\ Become(p, {"dying"} \cup IF shutdown THEN {"ready"} ELSE {}, "zombie")
    /\ UNCHANGED <<hostVars, segVars, children, beat, sup, pid, depthArg, countVars, quiet>>

\* main returns before it stores a phase: its parent, its segment or its arguments are not there.
BootExits(p) ==
    /\ CanLose
    /\ Become(p, {"boot"}, "zombie")
    /\ UNCHANGED <<hostVars, segVars, children, beat, sup, pid, depthArg, countVars, quiet>>

\* A signal, or the exit after a DSP fault.
Crash(p) ==
    /\ CanLose
    /\ Become(p, {"boot", "loading", "prewarming", "ready", "hung"}, "zombie")
    /\ UNCHANGED <<hostVars, segVars, children, beat, sup, pid, depthArg, countVars, quiet>>

Hang(p) ==
    /\ CanLose
    /\ Become(p, {"boot", "loading", "prewarming", "ready"}, "hung")
    /\ UNCHANGED <<hostVars, segVars, children, beat, sup, pid, depthArg, countVars, quiet>>
-----------------------------------------------------------------------------
(* The supervisor: set-up, and a child is spawned.                         *)

Upload ==
    /\ ~osFile
    /\ osFile' = TRUE
    /\ UNCHANGED <<stop, moved, inDepth, setting, segVars, childVars, sup, pid, depthArg, countVars, quiet>>

findOsFile == osFile

\* The supervisor looks every two seconds, and says what it waits for.
AwaitOsFile ==
    /\ sup = "setup" /\ ~findOsFile
    /\ error' = "setup" /\ sup' = IF stop THEN "free" ELSE "setup"
    /\ UNCHANGED <<hostVars, segVars, childVars, pid, depthArg, stalledPolls, bootPolls,
                   failures, gaveUp, tries, quiet>>

\* The segment is made and mapped.
SetUp ==
    /\ sup = "setup" /\ findOsFile
    /\ error' = "none" /\ sup' = "spawn"
    /\ UNCHANGED <<hostVars, segVars, childVars, pid, depthArg, stalledPolls, bootPolls,
                   failures, gaveUp, tries, quiet>>

\* There is no shared memory.
SetUpFails ==
    /\ sup = "setup" /\ findOsFile
    /\ error' = "setup" /\ sup' = "free"
    /\ UNCHANGED <<hostVars, segVars, childVars, pid, depthArg, stalledPolls, bootPolls,
                   failures, gaveUp, tries, quiet>>

Exhausted == gaveUp \/ failures >= kMaxQuickFailures

GiveUp ==
    /\ sup = "spawn" /\ ~stop /\ Exhausted /\ ~gaveUp
    /\ gaveUp' = TRUE
    /\ UNCHANGED <<hostVars, segVars, childVars, sup, pid, depthArg, stalledPolls, bootPolls,
                   failures, error, tries, quiet>>

\* Mutant of Reset: the phase stays what it was.
ResetKeepsPhase ==
    /\ sup = "spawn" /\ ~stop /\ ~Exhausted
    /\ shutdown' = FALSE /\ depthArg' = inDepth
    /\ sup' = "reset"
    /\ UNCHANGED <<hostVars, seg, phase, segDepth, childVars, pid, countVars, quiet>>

\* resetSegment, called with in.depth; its store of the depth comes last.
Reset ==
    /\ sup = "spawn" /\ ~stop /\ ~Exhausted
    /\ phase' = "Spawning" /\ shutdown' = FALSE /\ depthArg' = inDepth
    /\ sup' = "reset"
    /\ UNCHANGED <<hostVars, seg, segDepth, childVars, pid, countVars, quiet>>

ResetDepth ==
    /\ sup = "reset"
    /\ segDepth' = depthArg
    /\ sup' = "fork"
    /\ UNCHANGED <<hostVars, seg, phase, shutdown, childVars, pid, depthArg, countVars, quiet>>

SpawnChild ==
    /\ sup = "fork" /\ CanLose
    /\ children' = children + 1 /\ pid' = children'
    /\ proc' = [proc EXCEPT ![children'] = "boot"]
    /\ tries' = tries + 1
    /\ sup' = "publish"
    /\ UNCHANGED <<hostVars, segVars, beat, depthArg, stalledPolls, bootPolls, failures, gaveUp,
                   error, quiet>>

SpawnFails ==
    /\ sup = "fork"
    /\ failures' = failures + 1 /\ tries' = tries + 1 /\ error' = "start"
    /\ sup' = "spawn"
    /\ UNCHANGED <<hostVars, segVars, childVars, pid, depthArg, stalledPolls, bootPolls, gaveUp,
                   quiet>>

\* Mutant of Publish: the counts of the last child stand.
PublishKeepsCounts ==
    /\ sup = "publish"
    /\ seg' = TRUE /\ sup' = "watch"
    /\ UNCHANGED <<hostVars, phase, shutdown, segDepth, childVars, pid, depthArg, countVars, quiet>>

Publish ==
    /\ sup = "publish"
    /\ seg' = TRUE /\ stalledPolls' = 0 /\ bootPolls' = 0
    /\ sup' = "watch"
    /\ UNCHANGED <<hostVars, phase, shutdown, segDepth, childVars, pid, depthArg, failures,
                   gaveUp, error, tries, quiet>>

-----------------------------------------------------------------------------
(* A poll: what it finds, and what it does.                                *)

Polls == sup = "watch" /\ ~stop

\* Whatever the exit was, the text begins with "engine".
describeExit == "engine"

\* waitpid returns the child: a boot failure is final, any other exit counts as a quick failure.
PollReaps ==
    /\ sup = "watch" /\ ~stop /\ proc[pid] = "zombie"
    /\ proc' = [proc EXCEPT ![pid] = "gone"] /\ pid' = NoPid
    /\ IF phase = "Failed" THEN gaveUp' = TRUE /\ error' = "boot" /\ UNCHANGED failures
                           ELSE failures' = failures + 1 /\ error' = describeExit /\ UNCHANGED gaveUp
    /\ phase' = "Spawning"
    /\ sup' = "spawn"
    /\ UNCHANGED <<hostVars, seg, shutdown, segDepth, children, beat, depthArg, stalledPolls,
                   bootPolls, tries, quiet>>

\* A child found hung: the callback is silenced, and the poll's readings are not kept.
Hung == phase' = "Spawning" /\ error' = "engine" /\ sup' = "kill" /\ UNCHANGED <<moved, beat>>

\* Mutant of NotHung: the heartbeat is not remembered.
NotHungKeepsBeat(clear) ==
    /\ moved' = FALSE
    /\ error' = IF clear /\ error = "engine" THEN "none" ELSE error
    /\ UNCHANGED <<beat, phase, sup>>

\* The end of a poll; a Ready child with no failure to its account clears the engine's error.
NotHung(clear) ==
    /\ moved' = FALSE /\ beat' = FALSE
    /\ error' = IF clear /\ error = "engine" THEN "none" ELSE error
    /\ UNCHANGED <<phase, sup>>

\* Mutant of PollBooting: a boot has all the time it wants.
PollBootingForever ==
    /\ Polls /\ proc[pid] # "zombie" /\ phase # "Ready"
    /\ NotHung(FALSE)
    /\ UNCHANGED <<osFile, stop, inDepth, setting, seg, shutdown, segDepth, proc, children, pid,
                   depthArg, stalledPolls, bootPolls, failures, gaveUp, tries, quiet>>

PollBooting ==
    /\ Polls /\ proc[pid] # "zombie" /\ phase # "Ready"
    /\ bootPolls' = bootPolls + 1
    /\ IF bootPolls' >= kBootTimeoutPolls THEN CanLose /\ Hung ELSE NotHung(FALSE)
    /\ UNCHANGED <<osFile, stop, inDepth, setting, seg, shutdown, segDepth, proc, children, pid,
                   depthArg, stalledPolls, failures, gaveUp, tries, quiet>>

Quieter == quiet + IF quiet < kStallPolls THEN 1 ELSE 0   \* no need to count further

\* The callback advanced and the child's loop did not.
PollStalled ==
    /\ Polls /\ proc[pid] # "zombie" /\ phase = "Ready" /\ ~beat /\ moved
    /\ stalledPolls' = stalledPolls + 1 /\ quiet' = Quieter
    /\ IF stalledPolls' >= kStallPolls THEN CanLose /\ Hung ELSE NotHung(failures = 0)
    /\ UNCHANGED <<osFile, stop, inDepth, setting, seg, shutdown, segDepth, proc, children, pid,
                   depthArg, bootPolls, failures, gaveUp, tries>>

PollFine ==
    /\ Polls /\ proc[pid] # "zombie" /\ phase = "Ready" /\ (beat \/ ~moved)
    /\ stalledPolls' = 0 /\ quiet' = Quieter
    /\ failures' = IF moved THEN 0 ELSE failures
    /\ tries' = IF moved THEN 0 ELSE tries
    /\ NotHung(failures' = 0)
    /\ UNCHANGED <<osFile, stop, inDepth, setting, seg, shutdown, segDepth, proc, children, pid,
                   depthArg, bootPolls, gaveUp>>

\* Mutants of Kill: the kill is not counted as a failure; the child is forgotten, not killed.
KillUncounted ==
    /\ sup = "kill"
    /\ proc' = [proc EXCEPT ![pid] = "gone"] /\ pid' = NoPid
    /\ sup' = "spawn"
    /\ UNCHANGED <<hostVars, segVars, children, beat, depthArg, countVars, quiet>>
KillForgets ==
    /\ sup = "kill"
    /\ pid' = NoPid
    /\ failures' = failures + 1
    /\ sup' = "spawn"
    /\ UNCHANGED <<hostVars, segVars, childVars, depthArg, stalledPolls, bootPolls, gaveUp,
                   error, tries, quiet>>

\* kill and waitpid.
Kill ==
    /\ sup = "kill"
    /\ proc' = [proc EXCEPT ![pid] = "gone"] /\ pid' = NoPid
    /\ failures' = failures + 1
    /\ sup' = "spawn"
    /\ UNCHANGED <<hostVars, segVars, children, beat, depthArg, stalledPolls, bootPolls, gaveUp,
                   error, tries, quiet>>

-----------------------------------------------------------------------------
(* The supervisor: destroy was called.                                     *)

Leave ==
    /\ sup \in {"spawn", "watch"} /\ stop
    /\ shutdown' = (pid # NoPid) /\ sup' = IF pid # NoPid THEN "collect" ELSE "unmap"
    /\ UNCHANGED <<hostVars, seg, phase, segDepth, childVars, pid, depthArg, countVars, quiet>>

\* Mutant of Collect: waits for the child to exit by itself.
CollectNoKill ==
    /\ sup = "collect" /\ proc[pid] = "zombie"
    /\ proc' = [proc EXCEPT ![pid] = "gone"] /\ pid' = NoPid
    /\ sup' = "unmap"
    /\ UNCHANGED <<hostVars, segVars, children, beat, depthArg, countVars, quiet>>

\* The child is reaped, within 100 ms or after a kill.
Collect ==
    /\ sup = "collect"
    /\ proc' = [proc EXCEPT ![pid] = "gone"] /\ pid' = NoPid
    /\ sup' = "unmap"
    /\ UNCHANGED <<hostVars, segVars, children, beat, depthArg, countVars, quiet>>

Unmap ==
    /\ sup = "unmap"
    /\ seg' = FALSE /\ sup' = "free"
    /\ UNCHANGED <<hostVars, phase, shutdown, segDepth, childVars, pid, depthArg, countVars, quiet>>

\* freeWhenStopped.
Free ==
    /\ sup = "free" /\ stop
    /\ sup' = "freed"
    /\ UNCHANGED <<hostVars, segVars, childVars, pid, depthArg, countVars, quiet>>

-----------------------------------------------------------------------------
Init ==
    /\ osFile \in BOOLEAN /\ stop = FALSE /\ moved = FALSE /\ inDepth \in Depths /\ setting = FALSE
    /\ seg = FALSE /\ phase = "Spawning" /\ shutdown = FALSE /\ segDepth = inDepth
    /\ proc = [p \in Pids |-> "none"] /\ children = 0 /\ beat = FALSE
    /\ sup \in {"setup", "unstarted"} /\ pid = NoPid /\ depthArg = inDepth
    /\ stalledPolls = 0 /\ bootPolls = 0 /\ failures = 0 /\ gaveUp = FALSE
    /\ error = "none" /\ tries = 0 /\ quiet = 0

Host == Advance \/ SetSegDepth
Boots == \E p \in Pids : Load(p) \/ Prewarm(p) \/ Ready(p) \/ Exit(p)
Loops == \E p \in Pids : Iterate(p)
Faults == \E p \in Pids : BootExits(p) \/ BootFails(p) \/ Crash(p) \/ Hang(p)
Watch == PollReaps \/ PollBooting \/ PollStalled \/ PollFine \/ Kill
Spawn == Reset \/ ResetDepth \/ SpawnChild \/ Publish \/ GiveUp
End == Leave \/ Collect \/ Unmap \/ Free

Next ==
    \/ Host \/ Destroy \/ \E d \in Depths : SetDepth(d)
    \/ Boots \/ Loops \/ Faults
    \/ Upload \/ AwaitOsFile \/ SetUp \/ SetUpFails \/ Spawn \/ SpawnFails \/ Watch \/ End

Spec == Init /\ [][Next]_vars

\* The callback keeps coming, processes that are not hung run, the supervisor's sleeps end.  Nobody need
\* destroy the instance or upload the OS file.
FairSpec ==
    /\ Spec
    /\ WF_vars(Advance) /\ WF_vars(SetSegDepth) /\ WF_vars(Boots) /\ WF_vars(Loops)
    /\ WF_vars(AwaitOsFile \/ SetUp \/ Spawn \/ Watch \/ End)

-----------------------------------------------------------------------------
FlagsTypeOK ==
    /\ osFile \in BOOLEAN /\ stop \in BOOLEAN /\ moved \in BOOLEAN /\ setting \in BOOLEAN /\ seg \in BOOLEAN
    /\ shutdown \in BOOLEAN /\ beat \in BOOLEAN /\ gaveUp \in BOOLEAN
DataTypeOK ==
    /\ inDepth \in Depths /\ segDepth \in Depths /\ depthArg \in Depths
    /\ phase \in Phase
    /\ error \in {"none", "setup", "start", "boot", "engine"}
ProcTypeOK ==
    /\ proc \in [Pids -> Running \cup {"none", "zombie", "gone"}]
    /\ children \in 0 .. MaxSpawn /\ pid \in 0 .. MaxSpawn
    /\ sup \in {"unstarted", "setup", "spawn", "reset", "fork", "publish", "watch", "kill",
                "collect", "unmap", "free", "freed"}
CountTypeOK ==
    /\ stalledPolls \in 0 .. kStallPolls /\ bootPolls \in 0 .. kBootTimeoutPolls
    /\ failures \in 0 .. kMaxQuickFailures /\ tries \in Nat /\ quiet \in 0 .. kStallPolls
TypeOK == FlagsTypeOK /\ DataTypeOK /\ ProcTypeOK /\ CountTypeOK

\* supervise: no second engine process is started beside a first one, none outlives the instance and
\* none is left unreaped; the process the supervisor watches is the only one there is.
OneChild == \A p \in Pids : proc[p] \in Running \cup {"zombie"} => p = pid

\* tick takes Ready for "the engine is live": never while the current child still boots, although the
\* child before it may store Ready after the supervisor has given it up.
NoEarlyReady == phase = "Ready" /\ pid # NoPid => proc[pid] \notin {"boot", "loading", "prewarming", "dying"}

\* "~1 s: the callback advances, the child's loop does not": the watchdog never kills a Ready child that
\* went round its loop within the last kStallPolls polls, whatever the children before it did.
KillsOnlyStalled == [][sup = "watch" /\ sup' = "kill" /\ phase = "Ready" => quiet' >= kStallPolls]_vars

\* "consecutive failures before giving up": there are never more than kMaxQuickFailures tries in a row
\* without a child that was seen to work, however they fail: no process, a crash, a hang, a slow boot.
TriesBounded == tries <= kMaxQuickFailures

\* destroyInstance returns at once; the supervisor ends the child, hung or booting, and frees the instance.
DestroyEnds == stop ~> (sup = "freed" /\ \A p \in Pids : proc[p] \in {"none", "gone"})

\* From some time on the host calls the callback at least once between two polls of a Ready engine: a
\* block is 3 ms, a poll 100 ms.  A host that stops calling has no use for the engine.
HostKeepsCalling == <>[][PollStalled \/ PollFine => moved]_vars

Live == phase = "Ready" /\ pid # NoPid /\ proc[pid] = "ready"

\* "The user may upload it after adding the module": once the OS file is there an instance always comes to
\* have a live engine, and to have one again, unless it gave up, was destroyed, or has no thread or memory.
ServedOrGivenUp ==
    HostKeepsCalling => [](osFile => <>(Live \/ gaveUp \/ stop \/ sup \in {"unstarted", "free"}))

\* A hung process does not stay: the watchdog replaces it, in its boot or in its loop.
HungIsEnded == HostKeepsCalling => []<>(\A p \in Pids : proc[p] # "hung")

\* get_error: "0 if no error".  A child that was seen to work, and none has failed since, leaves no
\* error.  No run checks it: an error of a failed spawn stays.
ErrorClears == sup = "watch" /\ tries = 0 => error = "none"

\* tick "returns the segment when the engine is live, nullptr otherwise": a supervisor that gave up leaves
\* the phase other than Ready, so that the effect passes the audio through.  No run checks it: the last
\* child may store Ready between the boot timeout and its kill.
GivenUpIsNotReady == gaveUp /\ ~stop => phase # "Ready"

\* The depth is "live-adjustable": while the child is watched and no set_param is under way, the
\* segment's depth is the one the user picked.  No run checks it: a depth set while the supervisor
\* resets and publishes the segment is overwritten, or finds no segment.
DepthAgrees == sup = "watch" /\ ~setting => segDepth = inDepth
=============================================================================
