----------------------------- MODULE TableSync -----------------------------
(***************************************************************************)
(* The table, the command ring, the child and the supervisor together: how *)
(* the engine comes to hold what the table holds, across commands that are *)
(* dropped, children that die or do not start, and a supervisor that       *)
(* resets the segment while the callback goes on pushing.                  *)
(*                                                                         *)
(* ParamTable gives the entry points and the commands they push.  The ring *)
(* is the queue CmdRing implements.  The engine's SetMachine (external     *)
(* code) loads the machine's defaults of every page, as the plugin's       *)
(* comments say.                                                           *)
(***************************************************************************)
EXTENDS ParamTable

CONSTANTS
    RingSize,    \* room in the ring
    MaxEdits,    \* bound on the table edits
    MaxGen       \* bound on the spawns

VARIABLES
    ring,         \* the commands in the segment
    lost,         \* history: a command was dropped since the last replay began
    seg,          \* Instance::seg is published
    segGen,       \* Instance::segGen
    replayedGen,  \* Instance::replayedGen
    tickGen,      \* tick()'s copy of segGen, or NoGen
    phase,        \* Segment::phase, "Ready" or not
    child,        \* "off", "boot", "ready", "drain"
    taken,        \* the commands the drain has applied
    upto,         \* its copy of cmd_write: how many it applies
    eng,          \* the engine's own table
    sup,          \* where the supervisor is
    snap,         \* resetSegment's copy of cmd_write
    edits         \* edits made

cbVars == <<lost, replayedGen, tickGen, edits>>
childVars == <<child, taken, upto, eng>>
supVars == <<seg, segGen, sup, snap>>
syncVars == <<vars, ring, cbVars, phase, childVars, supVars>>

NoGen == 0
NoMachine == "GND"
Fresh == [machine |-> NoMachine, syn |-> [k \in Knobs |-> Default], page |-> Default, lfo |-> Default]
Spawns == segGen + IF sup \in {"publish", "bump"} THEN 1 ELSE 0
Replay == ReplayCmds(machine, syn, page, lfo)

-----------------------------------------------------------------------------
(* The callback's thread.                                                  *)

EditTable ==
    /\ tickGen = NoGen /\ edits < MaxEdits
    /\ Edit
    /\ edits' = edits + 1
    /\ UNCHANGED <<ring, lost, replayedGen, tickGen, phase, childVars, supVars>>

\* push: nothing before the segment is published ("the table is replayed when it is"), else pushCmd,
\* whose refusal is ignored.
Push ==
    /\ todo # <<>>
    /\ todo' = Tail(todo)
    /\ IF ~seg THEN UNCHANGED <<ring, lost>>
       ELSE IF Len(ring) < RingSize THEN ring' = Append(ring, Head(todo)) /\ UNCHANGED lost
       ELSE lost' = TRUE /\ UNCHANGED ring
    /\ UNCHANGED <<tableVars, replayedGen, tickGen, edits, phase, childVars, supVars>>

\* tick(): loads segGen, then the phase.
TickGen ==
    /\ todo = <<>> /\ tickGen = NoGen /\ seg
    /\ segGen # replayedGen
    /\ tickGen' = segGen
    /\ UNCHANGED <<vars, ring, lost, replayedGen, edits, phase, childVars, supVars>>

TickPhase ==
    /\ tickGen # NoGen
    /\ tickGen' = NoGen
    /\ IF phase = "Ready"
       THEN replayedGen' = tickGen /\ todo' = Replay /\ lost' = FALSE
       ELSE UNCHANGED <<replayedGen, todo, lost>>
    /\ UNCHANGED <<tableVars, ring, edits, phase, childVars, supVars>>

-----------------------------------------------------------------------------
(* The child.                                                              *)

Boot ==
    /\ child = "boot"
    /\ child' = "ready" /\ phase' = "Ready" /\ eng' = Fresh
    /\ UNCHANGED <<vars, ring, cbVars, taken, upto, supVars>>

Apply(e, c) ==
    CASE c.op = "SetMachine" -> [machine |-> c.m, syn |-> SynDefault[c.m], page |-> Default, lfo |-> e.lfo]
      [] c.op = "SetSyn"     -> [e EXCEPT !.syn = c.s]
      [] c.op = "SetPage"    -> [e EXCEPT !.page = c.v]
      [] c.op = "SetLfo"     -> [e EXCEPT !.lfo = c.v]

\* The drain before a block: what the ring holds when it begins, one command after the other, released
\* when all is applied.
DrainBegin ==
    /\ child = "ready" /\ ring # <<>>
    /\ child' = "drain" /\ taken' = 0 /\ upto' = Len(ring)
    /\ UNCHANGED <<vars, ring, cbVars, phase, eng, supVars>>

ApplyNext ==
    /\ child = "drain" /\ taken < upto
    /\ eng' = Apply(eng, ring[taken + 1])
    /\ taken' = taken + 1
    /\ UNCHANGED <<vars, ring, cbVars, phase, child, upto, supVars>>

DrainEnd ==
    /\ child = "drain" /\ taken = upto
    /\ ring' = SubSeq(ring, taken + 1, Len(ring))
    /\ child' = "ready" /\ taken' = 0 /\ upto' = 0
    /\ UNCHANGED <<vars, cbVars, phase, eng, supVars>>

ChildDies ==
    /\ child # "off" /\ Spawns < MaxGen
    /\ child' = "off" /\ taken' = 0 /\ upto' = 0
    /\ UNCHANGED <<vars, ring, cbVars, phase, eng, supVars>>

-----------------------------------------------------------------------------
(* The supervisor.                                                         *)

\* waitpid reports the child's exit.
Reap ==
    /\ sup = "watch" /\ child = "off"
    /\ phase' = "Spawning" /\ sup' = "reset"
    /\ UNCHANGED <<vars, ring, cbVars, childVars, seg, segGen, snap>>

\* A child that takes too long to start: the phase is stored before the child is killed, and the
\* child may become Ready in between.
Timeout ==
    /\ sup = "watch" /\ child = "boot" /\ segGen < MaxGen
    /\ phase' = "Spawning" /\ sup' = "kill"
    /\ UNCHANGED <<vars, ring, cbVars, childVars, seg, segGen, snap>>

Kill ==
    /\ sup = "kill"
    /\ child' = "off" /\ taken' = 0 /\ upto' = 0 /\ sup' = "reset"
    /\ UNCHANGED <<vars, ring, cbVars, phase, eng, seg, segGen, snap>>

\* resetSegment: the phase, and at the end cmd_read.store(cmd_write.load()), a load and a store.
ResetLoad ==
    /\ sup = "reset"
    /\ phase' = "Spawning" /\ snap' = Len(ring) /\ sup' = "store"
    /\ UNCHANGED <<vars, ring, cbVars, childVars, seg, segGen>>

ResetStore ==
    /\ sup = "store"
    /\ ring' = SubSeq(ring, snap + 1, Len(ring))
    /\ snap' = 0 /\ sup' = "spawn"
    /\ UNCHANGED <<vars, cbVars, phase, childVars, seg, segGen>>

Spawn ==
    /\ sup = "spawn"
    /\ child' = "boot" /\ sup' = "publish"
    /\ UNCHANGED <<vars, ring, cbVars, phase, taken, upto, eng, seg, segGen, snap>>

\* Mutant of Publish: the generation is bumped only for a segment published before.
PublishSkipsBump ==
    /\ sup = "publish"
    /\ seg' = TRUE /\ sup' = IF seg THEN "watch" ELSE "bump"
    /\ UNCHANGED <<vars, ring, cbVars, phase, childVars, segGen, snap>>

Publish ==
    /\ sup = "publish"
    /\ seg' = TRUE /\ sup' = "bump"
    /\ UNCHANGED <<vars, ring, cbVars, phase, childVars, segGen, snap>>

Bump ==
    /\ sup = "bump"
    /\ segGen' = segGen + 1 /\ sup' = "watch"
    /\ UNCHANGED <<vars, ring, cbVars, phase, childVars, seg, snap>>

-----------------------------------------------------------------------------
SyncInit ==
    /\ TableInit
    /\ ring = <<>> /\ lost = FALSE /\ seg = FALSE
    /\ segGen = 0 /\ replayedGen = 0 /\ tickGen = NoGen
    /\ phase = "Spawning" /\ child = "off" /\ taken = 0 /\ upto = 0 /\ eng = Fresh
    /\ sup = "reset" /\ snap = 0 /\ edits = 0

Callback == Push \/ TickGen \/ TickPhase
Child == Boot \/ DrainBegin \/ ApplyNext \/ DrainEnd
Supervisor == Reap \/ Kill \/ ResetLoad \/ ResetStore \/ Spawn \/ Publish \/ Bump

SyncNext == EditTable \/ Callback \/ Child \/ ChildDies \/ Timeout \/ Supervisor

SyncSpec == SyncInit /\ [][SyncNext]_syncVars

\* The host keeps calling the callback (an entry point finishes, tick runs), the child runs, the
\* supervisor polls.  Nothing makes the user edit, the child die or time out.
FairSync == SyncSpec /\ WF_syncVars(Callback) /\ WF_syncVars(Child) /\ WF_syncVars(Supervisor)

-----------------------------------------------------------------------------
\* The engine runs and nothing is on its way to it.
Settled ==
    /\ seg /\ sup = "watch" /\ child = "ready" /\ phase = "Ready"
    /\ replayedGen = segGen /\ tickGen = NoGen /\ todo = <<>> /\ ring = <<>>

Table == [machine |-> machine, syn |-> syn, page |-> page, lfo |-> lfo]
Synced == eng = Table

\* "The parameter table ... is the authority: a respawned engine is replayed from it."  Once nothing
\* is on its way, the engine holds the table, unless the ring overflowed since the last replay began:
\* whatever was pushed before the segment was published, during a boot, into a dead child's ring, or
\* while a reset moved cmd_read.
SyncedUnlessLost == Settled /\ ~lost => Synced

\* The same with no excuse for a full ring.  No run checks it: a replay that is cut counts as done.
AlwaysSynced == Settled => Synced

\* The engine does come to hold the table: every spawn is noticed and replayed into, by a replay that
\* the reset does not throw away.
EventuallySynced == <>[](Settled /\ (lost \/ Synced))
=============================================================================
