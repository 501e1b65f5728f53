------------------------------ MODULE CmdRing ------------------------------
(***************************************************************************)
(* The command ring of the segment, index by index: pushCmd on the         *)
(* callback, the drain before each block in the child, and the reset of a  *)
(* respawn, which moves cmd_read from the supervisor thread while the      *)
(* callback may be pushing.  The indices run free and wrap at IndexMod     *)
(* (2^32 in the code), a multiple of kCmdSlots.  A command is its number   *)
(* in the order of sending.                                                *)
(***************************************************************************)
EXTENDS Integers, Sequences

CONSTANTS
    kCmdSlots,   \* slots of the ring (1024)
    IndexMod,    \* where the indices wrap (2^32)
    MaxPush,     \* bound on the commands offered
    MaxChild     \* bound on the children spawned

ASSUME RingAssumption ==
    /\ kCmdSlots \in Nat \ {0} /\ IndexMod \in Nat /\ IndexMod > kCmdSlots
    /\ IndexMod % kCmdSlots = 0
    /\ MaxPush \in Nat /\ MaxChild \in Nat \ {0}

VARIABLES
    cmds,               \* the slots
    cmdWrite, cmdRead,  \* the two shared indices
    offered,            \* commands the callback has offered so far
    refused,            \* those pushCmd refused
    writer,             \* where pushCmd is: "idle", "copy" (the slot is being written), "store"
    child,              \* "idle", "drain", or "off" between two children
    r, w,               \* the drain's locals
    applied,            \* the command applied last
    snap,               \* resetSegment's copy of cmd_write, or -1
    gen                 \* children spawned

vars == <<cmds, cmdWrite, cmdRead, offered, refused, writer, child, r, w, applied, snap, gen>>

Slot(i) == i % kCmdSlots
Index(i) == i % IndexMod
Nothing == 0
HalfWritten == -1
NoSnap == -1
InFlight == Index(cmdWrite - cmdRead)

-----------------------------------------------------------------------------
(* The callback: pushCmd.                                                  *)

\* Mutant of Push: the test lets one command too many in.
PushOneTooMany ==
    /\ writer = "idle" /\ offered < MaxPush
    /\ offered' = offered + 1
    /\ IF InFlight > kCmdSlots
       THEN refused' = refused + 1 /\ UNCHANGED <<cmds, writer>>
       ELSE /\ cmds' = [cmds EXCEPT ![Slot(cmdWrite)] = HalfWritten]
            /\ writer' = "copy" /\ UNCHANGED refused
    /\ UNCHANGED <<cmdWrite, cmdRead, child, r, w, applied, snap, gen>>

\* Loads both indices; refuses when the ring is full, else begins to write the slot.
Push ==
    /\ writer = "idle" /\ offered < MaxPush
    /\ offered' = offered + 1
    /\ IF InFlight >= kCmdSlots
       THEN refused' = refused + 1 /\ UNCHANGED <<cmds, writer>>
       ELSE /\ cmds' = [cmds EXCEPT ![Slot(cmdWrite)] = HalfWritten]
            /\ writer' = "copy" /\ UNCHANGED refused
    /\ UNCHANGED <<cmdWrite, cmdRead, child, r, w, applied, snap, gen>>

PushCopied ==
    /\ writer = "copy"
    /\ cmds' = [cmds EXCEPT ![Slot(cmdWrite)] = offered]
    /\ writer' = "store"
    /\ UNCHANGED <<cmdWrite, cmdRead, offered, refused, child, r, w, applied, snap, gen>>

PushStored ==
    /\ writer = "store"
    /\ cmdWrite' = Index(cmdWrite + 1)
    /\ writer' = "idle"
    /\ UNCHANGED <<cmds, cmdRead, offered, refused, child, r, w, applied, snap, gen>>

-----------------------------------------------------------------------------
(* The child: the drain.                                                   *)

DrainBegin ==
    /\ child = "idle"
    /\ r' = cmdRead /\ w' = cmdWrite
    /\ child' = "drain"
    /\ UNCHANGED <<cmds, cmdWrite, cmdRead, offered, refused, writer, applied, snap, gen>>

ApplyNext ==
    /\ child = "drain" /\ r # w
    /\ applied' = cmds[Slot(r)]
    /\ r' = Index(r + 1)
    /\ UNCHANGED <<cmds, cmdWrite, cmdRead, offered, refused, writer, child, w, snap, gen>>

\* Mutant of DrainEnd: cmd_read is not stored.
DrainEndForgets ==
    /\ child = "drain" /\ r = w
    /\ child' = "idle"
    /\ UNCHANGED <<cmds, cmdWrite, cmdRead, offered, refused, writer, r, w, applied, snap, gen>>

DrainEnd ==
    /\ child = "drain" /\ r = w
    /\ cmdRead' = r
    /\ child' = "idle"
    /\ UNCHANGED <<cmds, cmdWrite, offered, refused, writer, r, w, applied, snap, gen>>

-----------------------------------------------------------------------------
(* The supervisor.                                                         *)

ChildDies ==
    /\ child # "off" /\ gen < MaxChild
    /\ child' = "off"
    /\ UNCHANGED <<cmds, cmdWrite, cmdRead, offered, refused, writer, r, w, applied, snap, gen>>

\* cmd_read.store(cmd_write.load()): a load and a store, the callback may push between them.
ResetLoad ==
    /\ child = "off" /\ snap = NoSnap
    /\ snap' = cmdWrite
    /\ UNCHANGED <<cmds, cmdWrite, cmdRead, offered, refused, writer, child, r, w, applied, gen>>

ResetStore ==
    /\ snap # NoSnap
    /\ cmdRead' = snap /\ snap' = NoSnap
    /\ child' = "idle" /\ gen' = gen + 1
    /\ UNCHANGED <<cmds, cmdWrite, offered, refused, writer, r, w, applied>>

-----------------------------------------------------------------------------
Init ==
    /\ cmds = [s \in 0 .. kCmdSlots - 1 |-> Nothing]
    /\ cmdWrite = 0 /\ cmdRead = 0 /\ offered = 0 /\ refused = 0 /\ writer = "idle"
    /\ child = "idle" /\ r = 0 /\ w = 0 /\ applied = Nothing /\ snap = NoSnap /\ gen = 1

Callback == Push \/ PushCopied \/ PushStored
Child == DrainBegin \/ ApplyNext \/ DrainEnd
Supervisor == ChildDies \/ ResetLoad \/ ResetStore
Next == Callback \/ Child \/ Supervisor

Spec == Init /\ [][Next]_vars

-----------------------------------------------------------------------------
Indices == 0 .. IndexMod - 1

TypeOK ==
    /\ cmds \in [0 .. kCmdSlots - 1 -> HalfWritten .. MaxPush]
    /\ cmdWrite \in Indices /\ cmdRead \in Indices
    /\ offered \in 0 .. MaxPush /\ refused \in 0 .. offered
    /\ writer \in {"idle", "copy", "store"} /\ child \in {"idle", "drain", "off"}
    /\ r \in Indices /\ w \in Indices /\ applied \in HalfWritten .. MaxPush
    /\ snap \in Indices \cup {NoSnap} /\ gen \in 1 .. MaxChild

\* The ring, its two indices and the drain implement the queue, wrap and respawns included: commands
\* are applied whole, in order, at most once, and refused only when kCmdSlots of them are waiting.
Queued == [i \in 1 .. InFlight |-> cmds[Slot(cmdRead + i - 1)]]
Queue == INSTANCE CmdQueue WITH
    queue <- Queued,
    taken <- IF child = "drain" THEN Index(r - cmdRead) ELSE 0
ImplementsQueue == Queue!Spec

\* No command is applied twice or after a later one, whatever a respawn and a push in flight do to
\* cmd_read: the numbers of the applied commands only grow.
InOrder == [][applied' # applied => applied' > applied]_vars
=============================================================================
