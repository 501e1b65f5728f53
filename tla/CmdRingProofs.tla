---------------------------- MODULE CmdRingProofs ----------------------------
(***************************************************************************)
(* The order of the commands for every size of the ring, every modulus of  *)
(* its indices, any number of commands and of children.                    *)
(***************************************************************************)
EXTENDS CmdRing, SequenceTheorems, TLAPS

-----------------------------------------------------------------------------
(* Arithmetic of the indices.                                              *)

LEMMA DivMod ==
    ASSUME NEW s \in Nat \ {0}, NEW a \in Int
    PROVE  /\ a % s \in 0 .. s - 1
           /\ a \div s \in Int
           /\ a % s = a - s * (a \div s)
  BY Z3

LEMMA Multiple ==
    ASSUME NEW s \in Nat \ {0}, NEW k \in Int
    PROVE  s * k \in Int /\ (s * k > 0 => s * k >= s) /\ (s * k < 0 => s * k <= -s)
  BY Z3

LEMMA Distribute ==
    ASSUME NEW s \in Int, NEW k \in Int, NEW l \in Int
    PROVE  s * k - s * l = s * (k - l) /\ s * k + s * l = s * (k + l)
  BY Z3

\* What lies in a period and differs by whole periods is the remainder.
LEMMA Remainder ==
    ASSUME NEW s \in Nat \ {0}, NEW a \in Int, NEW x \in 0 .. s - 1, NEW k \in Int, a = x + s * k
    PROVE  a % s = x
  <1> DEFINE p == a \div s
  <1>1. p \in Int /\ a % s \in 0 .. s - 1 /\ a % s = a - s * p
    BY DivMod
  <1> HIDE DEF p
  <1>2. s * p \in Int /\ s * k \in Int
    BY <1>1, Multiple
  <1>3. s * k - s * p = s * (k - p) /\ k - p \in Int
    BY <1>1, Distribute
  <1> DEFINE q == s * (k - p)
  <1>4. q \in Int /\ (q > 0 => q >= s) /\ (q < 0 => q <= -s)
    BY <1>1, <1>3, Multiple
  <1>5. q = s * k - s * p
    BY <1>3
  <1> HIDE DEF q
  <1>6. (a % s) - x = q
    BY <1>1, <1>2, <1>5
  <1>7. q = 0
    BY <1>1, <1>4, <1>6
  <1> QED
    BY <1>1, <1>6, <1>7

\* Numbers whole periods apart have one remainder.
LEMMA Congruent ==
    ASSUME NEW s \in Nat \ {0}, NEW a \in Int, NEW c \in Int, NEW k \in Int, a = c + s * k
    PROVE  a % s = c % s
  <1> DEFINE p == c \div s
             x == c % s
  <1>1. p \in Int /\ x \in 0 .. s - 1 /\ x = c - s * p
    BY DivMod
  <1> HIDE DEF p, x
  <1>2. s * p \in Int /\ s * k \in Int
    BY <1>1, Multiple
  <1>3. s * p + s * k = s * (p + k) /\ p + k \in Int
    BY <1>1, Distribute
  <1>4. a = x + (s * p + s * k)
    BY <1>1, <1>2
  <1>5. a = x + s * (p + k)
    BY <1>3, <1>4
  <1>6. a % s = x
    BY <1>1, <1>3, <1>5, Remainder, ZenonT(40)
  <1> QED
    BY <1>6 DEF x

LEMMA Negated == ASSUME NEW s \in Int, NEW k \in Int PROVE s * (-k) = -(s * k) /\ -k \in Int
  BY Z3

LEMMA NextIndex == ASSUME NEW s \in Nat \ {0}, NEW a \in Int PROVE ((a % s) + 1) % s = (a + 1) % s
  <1> DEFINE p == a \div s
             x == a % s
  <1>1. p \in Int /\ x \in Int /\ x = a - s * p
    BY DivMod
  <1> HIDE DEF p, x
  <1>2. s * (-p) = -(s * p) /\ -p \in Int /\ s * p \in Int
    BY <1>1, Negated, Multiple
  <1>3. x + 1 = (a + 1) + s * (-p)
    BY <1>1, <1>2
  <1>4. (x + 1) % s = (a + 1) % s
    <2>1. x + 1 \in Int /\ a + 1 \in Int
      BY <1>1
    <2> DEFINE u == x + 1
               v == a + 1
    <2> HIDE DEF u, v
    <2>2. u \in Int /\ v \in Int /\ u = v + s * (-p)
      BY <1>3, <2>1 DEF u, v
    <2>3. u % s = v % s
      BY <1>2, <2>2, Congruent
    <2> QED
      BY <2>3 DEF u, v
  <1> QED
    BY <1>4 DEF x

\* The difference of two indices less than a period apart survives the wrap.
LEMMA IndexDifference ==
    ASSUME NEW s \in Nat \ {0}, NEW a \in Int, NEW c \in Int, c <= a, a - c < s
    PROVE  ((a % s) - (c % s)) % s = a - c
  <1> DEFINE p == a \div s
             q == c \div s
             x == a % s
             y == c % s
  <1>0. p \in Int /\ x \in Int /\ x = a - s * p
    BY DivMod
  <1>a. q \in Int /\ y \in Int /\ y = c - s * q
    BY DivMod
  <1>1. p \in Int /\ x \in Int /\ x = a - s * p /\ q \in Int /\ y \in Int /\ y = c - s * q
    BY <1>0, <1>a
  <1> HIDE DEF p, q, x, y
  <1>2. s * p \in Int /\ s * q \in Int /\ s * q - s * p = s * (q - p) /\ q - p \in Int
    BY <1>1, Multiple, Distribute
  <1>3. x - y = (a - c) + (s * q - s * p)
    BY <1>1, <1>2
  <1>4. x - y = (a - c) + s * (q - p)
    BY <1>2, <1>3
  <1>5. (x - y) % s = a - c
    <2> DEFINE u == x - y
               v == a - c
    <2>1. u \in Int /\ v \in 0 .. s - 1 /\ u = v + s * (q - p)
      BY <1>1, <1>4
    <2> HIDE DEF u, v
    <2>2. u % s = v
      BY <1>2, <2>1, Remainder
    <2> QED
      BY <2>2 DEF u, v
  <1> QED
    BY <1>5 DEF x, y

\* Less than a period apart, two numbers of one remainder are one.
LEMMA SameRemainder ==
    ASSUME NEW s \in Nat \ {0}, NEW a \in Int, NEW c \in Int, c <= a, a - c < s, a % s = c % s
    PROVE  a = c
  <1>1. ((a % s) - (c % s)) % s = a - c
    BY IndexDifference
  <1>2. c % s \in Int /\ (a % s) - (c % s) = 0
    BY DivMod
  <1>3. 0 % s = 0
    <2>1. 0 = 0 + s * 0 /\ 0 \in 0 .. s - 1
      OBVIOUS
    <2> QED
      BY <2>1, Remainder
  <1> QED
    BY <1>1, <1>2, <1>3

\* The modulus is a multiple of kCmdSlots: the wrap moves no slot.
LEMMA SlotOfIndex == ASSUME NEW a \in Int PROVE Slot(Index(a)) = Slot(a)
  <1> DEFINE L == IndexMod \div kCmdSlots
             p == a \div IndexMod
             x == a % IndexMod
  <1>1. kCmdSlots \in Nat \ {0} /\ IndexMod \in Nat \ {0} /\ IndexMod % kCmdSlots = 0
    BY RingAssumption
  <1>2. p \in Int /\ x \in Int /\ x = a - IndexMod * p
    <2>1. \A s \in Nat \ {0} : a % s \in 0 .. s - 1 /\ a \div s \in Int /\ a % s = a - s * (a \div s)
      BY DivMod
    <2>2. a % IndexMod \in 0 .. IndexMod - 1 /\ a \div IndexMod \in Int
          /\ a % IndexMod = a - IndexMod * (a \div IndexMod)
      BY <1>1, <2>1
    <2> QED
      BY <2>2
  <1>3. L \in Int /\ IndexMod = kCmdSlots * L
    <2>1. L \in Int /\ IndexMod % kCmdSlots = IndexMod - kCmdSlots * L
      BY <1>1, DivMod
    <2>2. kCmdSlots * L \in Int
      BY <1>1, <2>1, Multiple
    <2> QED
      BY <1>1, <2>1, <2>2
  <1> HIDE DEF L, p, x
  <1>4. IndexMod * p = kCmdSlots * (L * p) /\ L * p \in Int
    BY <1>1, <1>2, <1>3, Z3
  <1> DEFINE k == L * p
  <1>5. k \in Int /\ x = a - kCmdSlots * k
    BY <1>2, <1>4
  <1> HIDE DEF k
  <1>6. kCmdSlots * (-k) = -(kCmdSlots * k) /\ -k \in Int /\ kCmdSlots * k \in Int
    BY <1>1, <1>5, Negated, Multiple
  <1>7. x = a + kCmdSlots * (-k)
    BY <1>5, <1>6
  <1>8. x % kCmdSlots = a % kCmdSlots
    BY <1>1, <1>2, <1>6, <1>7, Congruent, ZenonT(40)
  <1> QED
    BY <1>8 DEF Slot, Index, x

\* Commands less than kCmdSlots apart are in different slots.
LEMMA SlotsDiffer ==
    ASSUME NEW a \in Int, NEW c \in Int, c < a, a - c < kCmdSlots
    PROVE  Slot(a) # Slot(c)
  <1>1. kCmdSlots \in Nat \ {0} /\ c <= a /\ a # c
    BY RingAssumption
  <1>2. a % kCmdSlots # c % kCmdSlots
    BY <1>1, SameRemainder
  <1> QED
    BY <1>2 DEF Slot

LEMMA SlotType == ASSUME NEW a \in Int PROVE Slot(a) \in 0 .. kCmdSlots - 1
  BY RingAssumption, DivMod DEF Slot

LEMMA IndexType == ASSUME NEW a \in Int PROVE Index(a) \in Indices
  BY RingAssumption, DivMod DEF Index, Indices

-----------------------------------------------------------------------------
(* The types.                                                              *)

\* A respawn is begun only between two children, and only while another may come.
Respawn ==
    /\ child = "off" => gen < MaxChild
    /\ snap # NoSnap => child = "off"

Typed == TypeOK /\ Respawn

LEMMA TypedInit == ASSUME Init PROVE Typed
  BY RingAssumption DEF Init, Typed, TypeOK, Respawn, Indices, Nothing, HalfWritten, NoSnap

LEMMA TypedNext == ASSUME Typed, [Next]_vars PROVE Typed'
  <1> USE RingAssumption DEF Typed, TypeOK, Respawn
  <1>1. cmdWrite \in Int /\ cmdRead \in Int /\ r \in Int /\ w \in Int
    BY DEF Indices
  <1>2. CASE Push
    <2>1. Slot(cmdWrite) \in 0 .. kCmdSlots - 1
      BY <1>1, SlotType
    <2>2. offered' \in 0 .. MaxPush /\ refused' \in 0 .. offered'
      BY <1>2 DEF Push
    <2>3. HalfWritten \in HalfWritten .. MaxPush
      BY DEF HalfWritten
    <2>4. cmds' \in [0 .. kCmdSlots - 1 -> HalfWritten .. MaxPush]
      BY <1>2, <2>3 DEF Push
    <2>5. writer' \in {"idle", "copy", "store"}
      BY <1>2 DEF Push
    <2> QED
      BY <1>2, <2>2, <2>4, <2>5 DEF Push
  <1>3. CASE PushCopied
    <2>1. offered \in HalfWritten .. MaxPush
      BY DEF HalfWritten
    <2>2. cmds' \in [0 .. kCmdSlots - 1 -> HalfWritten .. MaxPush]
      BY <1>3, <2>1 DEF PushCopied
    <2> QED
      BY <1>3, <2>2 DEF PushCopied
  <1>4. CASE PushStored
    <2>1. Index(cmdWrite + 1) \in Indices
      BY <1>1, IndexType
    <2> QED
      BY <1>4, <2>1 DEF PushStored
  <1>5. CASE DrainBegin
    BY <1>5 DEF DrainBegin
  <1>6. CASE ApplyNext
    <2>1. Index(r + 1) \in Indices /\ Slot(r) \in 0 .. kCmdSlots - 1
      BY <1>1, IndexType, SlotType
    <2> QED
      BY <1>6, <2>1 DEF ApplyNext
  <1>7. CASE DrainEnd
    BY <1>7 DEF DrainEnd
  <1>8. CASE ChildDies
    BY <1>8 DEF ChildDies
  <1>9. CASE ResetLoad
    BY <1>9 DEF ResetLoad
  <1>10. CASE ResetStore
    BY <1>10 DEF ResetStore
  <1>11. CASE UNCHANGED vars
    BY <1>11 DEF vars
  <1> QED
    BY <1>2, <1>3, <1>4, <1>5, <1>6, <1>7, <1>8, <1>9, <1>10, <1>11 DEF Next, Callback, Child, Supervisor

\* The ring, its indices and its users keep their type.
THEOREM RingTypeCorrect == Spec => []TypeOK
  <1>1. Spec => []Typed
    BY TypedInit, TypedNext, PTL DEF Spec
  <1>2. Typed => TypeOK
    BY DEF Typed
  <1> QED
    BY <1>1, <1>2, PTL

-----------------------------------------------------------------------------
(* The order.                                                              *)

\* The indices as they would be without a wrap: wr commands were stored, the commands up to rd were
\* released, those up to dn applied or dropped; a drain goes on to ww, a respawn drops up to sn.
Counts == [wr: Nat, rd: Nat, dn: Nat, ww: Nat, sn: Nat]

\* The number of the last command whose slot is done.
Complete == IF writer = "idle" THEN offered ELSE offered - 1

Places(p) ==
    /\ cmdWrite = Index(p.wr) /\ cmdRead = Index(p.rd)
    /\ p.rd <= p.dn /\ p.dn <= p.wr /\ p.wr <= p.rd + kCmdSlots
    /\ child = "idle" => p.dn = p.rd
    /\ child = "drain" => r = Index(p.dn) /\ w = Index(p.ww) /\ p.dn <= p.ww /\ p.ww <= p.wr
    /\ snap # NoSnap => snap = Index(p.sn) /\ p.dn <= p.sn /\ p.sn <= p.wr
    /\ writer # "idle" => p.wr < p.rd + kCmdSlots /\ offered > 0
    /\ writer = "store" => cmds[Slot(p.wr)] = offered

\* The commands that wait are numbered in the order of their places, above the last applied.
Ordered(p) ==
    /\ applied <= Complete
    /\ \A i \in Nat : p.dn <= i /\ i < p.wr => applied < cmds[Slot(i)] /\ cmds[Slot(i)] <= Complete
    /\ \A i, j \in Nat : p.dn <= i /\ i < j /\ j < p.wr => cmds[Slot(i)] < cmds[Slot(j)]

RingInv == Typed /\ \E p \in Counts : Places(p) /\ Ordered(p)

LEMMA OrderInit == ASSUME Init PROVE \E p \in Counts : Places(p) /\ Ordered(p)
  <1> DEFINE p == [wr |-> 0, rd |-> 0, dn |-> 0, ww |-> 0, sn |-> 0]
  <1>1. p \in Counts
    BY DEF Counts
  <1>2. Index(0) = 0
    <2>1. IndexMod \in Nat \ {0} /\ 0 = 0 + IndexMod * 0 /\ 0 \in 0 .. IndexMod - 1
      BY RingAssumption
    <2> QED
      BY <2>1, Remainder DEF Index
  <1>3. Places(p)
    BY <1>2, RingAssumption DEF Init, Places, NoSnap
  <1>4. Ordered(p)
    BY DEF Init, Ordered, Complete, Nothing
  <1> QED
    BY <1>1, <1>3, <1>4

\* The types, for the prover's arithmetic.
LEMMA Types ==
    ASSUME Typed
    PROVE  /\ kCmdSlots \in Nat \ {0} /\ IndexMod \in Nat \ {0} /\ kCmdSlots < IndexMod
           /\ offered \in Nat /\ applied \in Int /\ cmds \in [0 .. kCmdSlots - 1 -> Int]
           /\ \A i \in Nat : Slot(i) \in 0 .. kCmdSlots - 1 /\ cmds[Slot(i)] \in Int
  <1>1. cmds \in [0 .. kCmdSlots - 1 -> Int] /\ applied \in Int /\ offered \in Nat
    BY DEF Typed, TypeOK, HalfWritten
  <1>2. \A i \in Nat : Slot(i) \in 0 .. kCmdSlots - 1
    BY SlotType
  <1>3. \A i \in Nat : cmds[Slot(i)] \in Int
    BY ONLY <1>1, <1>2
  <1>4. kCmdSlots \in Nat \ {0} /\ IndexMod \in Nat \ {0} /\ kCmdSlots < IndexMod
    BY RingAssumption
  <1> QED
    BY ONLY <1>1, <1>2, <1>3, <1>4

LEMMA OrderPush ==
    ASSUME Typed, Push, NEW p \in Counts, Places(p), Ordered(p)
    PROVE  Places(p)' /\ Ordered(p)'
  <1>0. kCmdSlots \in Nat \ {0} /\ IndexMod \in Nat \ {0} /\ kCmdSlots < IndexMod
        /\ offered \in Nat /\ applied \in Int
    BY Types
  <1>s. cmds \in [0 .. kCmdSlots - 1 -> Int] /\ \A i \in Nat : Slot(i) \in 0 .. kCmdSlots - 1
    BY Types
  <1>t. \A i \in Nat : cmds[Slot(i)] \in Int
    BY Types
  <1>1. /\ writer = "idle" /\ offered' = offered + 1
        /\ UNCHANGED <<cmdWrite, cmdRead, child, r, w, applied, snap, gen>>
    BY DEF Push
  <1>2. p.wr \in Nat /\ p.rd \in Nat /\ p.dn \in Nat /\ p.ww \in Nat /\ p.sn \in Nat
    BY DEF Counts
  <1>3. p.rd <= p.dn /\ p.dn <= p.wr /\ p.wr <= p.rd + kCmdSlots
    BY DEF Places
  <1>4. InFlight = p.wr - p.rd
    <2>1. p.wr \in Int /\ p.rd \in Int /\ p.rd <= p.wr /\ p.wr - p.rd < IndexMod
      BY <1>2, <1>3, <1>0
    <2>2. ((p.wr % IndexMod) - (p.rd % IndexMod)) % IndexMod = p.wr - p.rd
      BY <2>1, <1>0, IndexDifference
    <2> QED
      BY <2>2 DEF InFlight, Index, Places
  <1>5. CASE InFlight >= kCmdSlots
    <2>1. UNCHANGED <<cmds, writer>>
      BY <1>5 DEF Push
    <2>2. Places(p)'
      BY <1>1, <2>1 DEF Places
    <2>3. Ordered(p)'
      <3>1. Complete' = Complete + 1 /\ Complete \in Int
        BY <1>1, <2>1, <1>0 DEF Complete
      <3>2. applied' <= Complete'
        BY <1>1, <3>1, <1>0 DEF Ordered
      <3>3. \A i \in Nat : p.dn <= i /\ i < p.wr => applied' < cmds'[Slot(i)] /\ cmds'[Slot(i)] <= Complete'
        BY <1>1, <2>1, <3>1, <1>0, <1>t DEF Ordered
      <3>4. \A i, j \in Nat : p.dn <= i /\ i < j /\ j < p.wr => cmds'[Slot(i)] < cmds'[Slot(j)]
        BY <2>1 DEF Ordered
      <3> QED
        BY <3>2, <3>3, <3>4 DEF Ordered
    <2> QED
      BY <2>2, <2>3
  <1>6. CASE ~(InFlight >= kCmdSlots)
    <2>1. cmds' = [cmds EXCEPT ![Slot(cmdWrite)] = HalfWritten] /\ writer' = "copy"
      BY <1>6 DEF Push
    <2>2. p.wr < p.rd + kCmdSlots
      BY <1>2, <1>4, <1>6, <1>0
    <2>3. Slot(cmdWrite) = Slot(p.wr)
      BY <1>2, SlotOfIndex DEF Places
    <2>4. \A i \in Nat : p.dn <= i /\ i < p.wr => cmds'[Slot(i)] = cmds[Slot(i)]
      <3> SUFFICES ASSUME NEW i \in Nat, p.dn <= i, i < p.wr PROVE cmds'[Slot(i)] = cmds[Slot(i)]
        OBVIOUS
      <3>1. p.wr \in Int /\ i \in Int /\ p.wr - i < kCmdSlots
        BY <1>2, <1>3, <2>2, <1>0
      <3>2. Slot(p.wr) # Slot(i)
        BY <3>1, SlotsDiffer
      <3> QED
        BY <2>1, <2>3, <3>2, <1>s
    <2>5. Places(p)'
      <3>1. offered' > 0
        BY <1>1, <1>0
      <3> QED
        BY <1>1, <2>1, <2>2, <3>1 DEF Places
    <2>6. Ordered(p)'
      <3>1. Complete' = Complete
        BY <1>1, <2>1, <1>0 DEF Complete
      <3>2. applied' <= Complete'
        BY <1>1, <3>1 DEF Ordered
      <3>3. \A i \in Nat : p.dn <= i /\ i < p.wr => applied' < cmds'[Slot(i)] /\ cmds'[Slot(i)] <= Complete'
        BY <1>1, <2>4, <3>1 DEF Ordered
      <3>4. \A i, j \in Nat : p.dn <= i /\ i < j /\ j < p.wr => cmds'[Slot(i)] < cmds'[Slot(j)]
        <4> SUFFICES ASSUME NEW i \in Nat, NEW j \in Nat, p.dn <= i, i < j, j < p.wr
                     PROVE  cmds'[Slot(i)] < cmds'[Slot(j)]
          OBVIOUS
        <4>1. i < p.wr /\ p.dn <= j
          BY <1>2
        <4>2. cmds'[Slot(i)] = cmds[Slot(i)] /\ cmds'[Slot(j)] = cmds[Slot(j)]
          BY <2>4, <4>1
        <4>3. cmds[Slot(i)] < cmds[Slot(j)]
          BY DEF Ordered
        <4> QED
          BY <4>2, <4>3
      <3> QED
        BY <3>2, <3>3, <3>4 DEF Ordered
    <2> QED
      BY <2>5, <2>6
  <1> QED
    BY <1>5, <1>6

LEMMA OrderPushCopied ==
    ASSUME Typed, PushCopied, NEW p \in Counts, Places(p), Ordered(p)
    PROVE  Places(p)' /\ Ordered(p)'
  <1>0. kCmdSlots \in Nat \ {0} /\ IndexMod \in Nat \ {0} /\ kCmdSlots < IndexMod
        /\ offered \in Nat /\ applied \in Int
    BY Types
  <1>s. cmds \in [0 .. kCmdSlots - 1 -> Int] /\ \A i \in Nat : Slot(i) \in 0 .. kCmdSlots - 1
    BY Types
  <1>t. \A i \in Nat : cmds[Slot(i)] \in Int
    BY Types
  <1>1. /\ writer = "copy" /\ writer' = "store" /\ cmds' = [cmds EXCEPT ![Slot(cmdWrite)] = offered]
        /\ UNCHANGED <<cmdWrite, cmdRead, offered, refused, child, r, w, applied, snap, gen>>
    BY DEF PushCopied
  <1>2. p.wr \in Nat /\ p.rd \in Nat /\ p.dn \in Nat /\ p.ww \in Nat /\ p.sn \in Nat
    BY DEF Counts
  <1>3. p.rd <= p.dn /\ p.dn <= p.wr /\ p.wr < p.rd + kCmdSlots /\ offered > 0
    BY <1>1 DEF Places
  <1>4. Slot(cmdWrite) = Slot(p.wr)
    BY <1>2, SlotOfIndex DEF Places
  <1>5. \A i \in Nat : p.dn <= i /\ i < p.wr => cmds'[Slot(i)] = cmds[Slot(i)]
    <2> SUFFICES ASSUME NEW i \in Nat, p.dn <= i, i < p.wr PROVE cmds'[Slot(i)] = cmds[Slot(i)]
      OBVIOUS
    <2>1. p.wr \in Int /\ i \in Int /\ p.wr - i < kCmdSlots
      BY <1>2, <1>3, <1>0
    <2>2. Slot(p.wr) # Slot(i)
      BY <2>1, SlotsDiffer
    <2> QED
      BY <1>1, <1>4, <2>2, <1>s
  <1>6. cmds'[Slot(p.wr)] = offered
    BY <1>1, <1>2, <1>4, <1>s
  <1>7. Places(p)'
    BY <1>1, <1>3, <1>6 DEF Places
  <1>8. Ordered(p)'
    <2>1. Complete' = Complete
      BY <1>1 DEF Complete
    <2>2. applied' <= Complete'
      BY <1>1, <2>1 DEF Ordered
    <2>3. \A i \in Nat : p.dn <= i /\ i < p.wr => applied' < cmds'[Slot(i)] /\ cmds'[Slot(i)] <= Complete'
      BY <1>1, <1>5, <2>1 DEF Ordered
    <2>4. \A i, j \in Nat : p.dn <= i /\ i < j /\ j < p.wr => cmds'[Slot(i)] < cmds'[Slot(j)]
      <3> SUFFICES ASSUME NEW i \in Nat, NEW j \in Nat, p.dn <= i, i < j, j < p.wr
                   PROVE  cmds'[Slot(i)] < cmds'[Slot(j)]
        OBVIOUS
      <3>1. i < p.wr /\ p.dn <= j
        BY <1>2
      <3>2. cmds'[Slot(i)] = cmds[Slot(i)] /\ cmds'[Slot(j)] = cmds[Slot(j)]
        BY <1>5, <3>1
      <3>3. cmds[Slot(i)] < cmds[Slot(j)]
        BY DEF Ordered
      <3> QED
        BY <3>2, <3>3
    <2> QED
      BY <2>2, <2>3, <2>4 DEF Ordered
  <1> QED
    BY <1>7, <1>8

LEMMA OrderPushStored ==
    ASSUME Typed, PushStored, NEW p \in Counts, Places(p), Ordered(p)
    PROVE  \E q \in Counts : Places(q)' /\ Ordered(q)'
  <1>0. kCmdSlots \in Nat \ {0} /\ IndexMod \in Nat \ {0} /\ kCmdSlots < IndexMod
        /\ offered \in Nat /\ applied \in Int
    BY Types
  <1>s. cmds \in [0 .. kCmdSlots - 1 -> Int] /\ \A i \in Nat : Slot(i) \in 0 .. kCmdSlots - 1
    BY Types
  <1>t. \A i \in Nat : cmds[Slot(i)] \in Int
    BY Types
  <1> DEFINE q == [p EXCEPT !.wr = @ + 1]
  <1>1. /\ writer = "store" /\ writer' = "idle" /\ cmdWrite' = Index(cmdWrite + 1)
        /\ UNCHANGED <<cmds, cmdRead, offered, refused, child, r, w, applied, snap, gen>>
    BY DEF PushStored
  <1>2. p.wr \in Nat /\ p.rd \in Nat /\ p.dn \in Nat /\ p.ww \in Nat /\ p.sn \in Nat
    BY DEF Counts
  <1>3. p.rd <= p.dn /\ p.dn <= p.wr /\ p.wr < p.rd + kCmdSlots /\ offered > 0 /\ cmds[Slot(p.wr)] = offered
    BY <1>1 DEF Places
  <1>4. q \in Counts /\ q.wr = p.wr + 1 /\ q.rd = p.rd /\ q.dn = p.dn /\ q.ww = p.ww /\ q.sn = p.sn
    BY <1>2 DEF Counts
  <1> HIDE DEF q
  <1>5. cmdWrite' = Index(p.wr + 1)
    <2>1. ((p.wr % IndexMod) + 1) % IndexMod = (p.wr + 1) % IndexMod
      BY <1>2, <1>0, NextIndex
    <2> QED
      BY <1>1, <2>1 DEF Index, Places
  <1>6. Places(q)'
    <2>1. q.rd <= q.dn /\ q.dn <= q.wr /\ q.wr <= q.rd + kCmdSlots
      BY <1>2, <1>3, <1>4, <1>0
    <2>2. child = "drain" => r = Index(p.dn) /\ w = Index(p.ww) /\ p.dn <= p.ww /\ p.ww <= p.wr + 1
      BY <1>2 DEF Places
    <2>3. snap # NoSnap => snap = Index(p.sn) /\ p.dn <= p.sn /\ p.sn <= p.wr + 1
      BY <1>2 DEF Places
    <2>4. (child = "idle" => p.dn = p.rd) /\ cmdRead = Index(p.rd)
      BY DEF Places
    <2> QED
      BY <1>1, <1>4, <1>5, <2>1, <2>2, <2>3, <2>4 DEF Places
  <1>7. Ordered(q)'
    <2>1. Complete' = Complete + 1 /\ Complete = offered - 1 /\ Complete' = offered /\ Complete \in Int
      BY <1>1, <1>0 DEF Complete
    <2>2. applied' <= Complete'
      BY <1>1, <2>1, <1>0 DEF Ordered
    <2>3. \A i \in Nat : p.dn <= i /\ i < p.wr + 1 => applied' < cmds'[Slot(i)] /\ cmds'[Slot(i)] <= Complete'
      <3> SUFFICES ASSUME NEW i \in Nat, p.dn <= i, i < p.wr + 1
                   PROVE  applied < cmds[Slot(i)] /\ cmds[Slot(i)] <= offered
        BY <1>1, <2>1
      <3>1. CASE i = p.wr
        BY <1>3, <2>1, <3>1, <1>0 DEF Ordered
      <3>2. CASE i # p.wr
        <4>1. i < p.wr
          BY <1>2, <3>2
        <4>2. applied < cmds[Slot(i)] /\ cmds[Slot(i)] <= Complete
          BY <4>1 DEF Ordered
        <4>3. cmds[Slot(i)] \in Int
          BY <1>0, <1>t
        <4> QED
          BY <2>1, <4>2, <4>3, <1>0, <1>t
      <3> QED
        BY <3>1, <3>2
    <2>4. \A i, j \in Nat : p.dn <= i /\ i < j /\ j < p.wr + 1 => cmds'[Slot(i)] < cmds'[Slot(j)]
      <3> SUFFICES ASSUME NEW i \in Nat, NEW j \in Nat, p.dn <= i, i < j, j < p.wr + 1
                   PROVE  cmds[Slot(i)] < cmds[Slot(j)]
        BY <1>1
      <3>1. CASE j = p.wr
        <4>1. i < p.wr /\ cmds[Slot(i)] \in Int
          BY <3>1, <1>0, <1>t
        <4>2. cmds[Slot(i)] <= Complete
          BY <4>1 DEF Ordered
        <4> QED
          BY <1>3, <2>1, <3>1, <4>1, <4>2, <1>0, <1>t
      <3>2. CASE j # p.wr
        <4>1. j < p.wr
          BY <1>2, <3>2
        <4> QED
          BY <4>1 DEF Ordered
      <3> QED
        BY <3>1, <3>2
    <2> QED
      BY <1>4, <2>2, <2>3, <2>4 DEF Ordered
  <1> QED
    BY <1>4, <1>6, <1>7

\* What waits further on is in order too.
LEMMA Later ==
    ASSUME Typed, NEW p \in Counts, Ordered(p), NEW q \in Counts, q.wr = p.wr, p.dn <= q.dn
    PROVE  Ordered(q)
  <1>1. p.dn \in Nat /\ q.dn \in Nat /\ p.wr \in Nat
    BY DEF Counts
  <1>2. \A i \in Nat : q.dn <= i => p.dn <= i
    BY <1>1
  <1> QED
    BY <1>2 DEF Ordered

LEMMA OrderDrainBegin ==
    ASSUME Typed, DrainBegin, NEW p \in Counts, Places(p), Ordered(p)
    PROVE  \E q \in Counts : Places(q)' /\ Ordered(q)'
  <1> DEFINE q == [p EXCEPT !.ww = p.wr]
  <1>1. child = "idle" /\ r' = cmdRead /\ w' = cmdWrite /\ child' = "drain"
        /\ UNCHANGED <<cmds, cmdWrite, cmdRead, offered, refused, writer, applied, snap, gen>>
    BY DEF DrainBegin
  <1>2. p.wr \in Nat /\ p.rd \in Nat /\ p.dn \in Nat /\ p.ww \in Nat /\ p.sn \in Nat
    BY DEF Counts
  <1>3. q \in Counts /\ q.wr = p.wr /\ q.rd = p.rd /\ q.dn = p.dn /\ q.ww = p.wr /\ q.sn = p.sn
    BY <1>2 DEF Counts
  <1> HIDE DEF q
  <1>4. p.dn = p.rd
    BY <1>1 DEF Places
  <1>5. Places(q)'
    <2>1. q.ww <= q.wr
      BY <1>2, <1>3
    <2> QED
      BY <1>1, <1>3, <1>4, <2>1 DEF Places
  <1>6. Ordered(q)'
    BY <1>1, <1>3 DEF Ordered, Complete
  <1> QED
    BY <1>3, <1>5, <1>6

LEMMA OrderApplyNext ==
    ASSUME Typed, ApplyNext, NEW p \in Counts, Places(p), Ordered(p)
    PROVE  applied' > applied /\ \E q \in Counts : Places(q)' /\ Ordered(q)'
  <1>0. kCmdSlots \in Nat \ {0} /\ IndexMod \in Nat \ {0} /\ kCmdSlots < IndexMod
        /\ offered \in Nat /\ applied \in Int
    BY Types
  <1>s. cmds \in [0 .. kCmdSlots - 1 -> Int] /\ \A i \in Nat : Slot(i) \in 0 .. kCmdSlots - 1
    BY Types
  <1>t. \A i \in Nat : cmds[Slot(i)] \in Int
    BY Types
  <1> DEFINE q == [p EXCEPT !.dn = @ + 1]
  <1>1. child = "drain" /\ r # w /\ applied' = cmds[Slot(r)] /\ r' = Index(r + 1)
        /\ UNCHANGED <<cmds, cmdWrite, cmdRead, offered, refused, writer, child, w, snap, gen>>
    BY DEF ApplyNext
  <1>2. p.wr \in Nat /\ p.rd \in Nat /\ p.dn \in Nat /\ p.ww \in Nat /\ p.sn \in Nat
    BY DEF Counts
  <1>3. q \in Counts /\ q.wr = p.wr /\ q.rd = p.rd /\ q.dn = p.dn + 1 /\ q.ww = p.ww /\ q.sn = p.sn
    BY <1>2 DEF Counts
  <1> HIDE DEF q
  <1>4. r = Index(p.dn) /\ w = Index(p.ww) /\ p.dn <= p.ww /\ p.ww <= p.wr /\ p.rd <= p.dn
        /\ snap = NoSnap
    BY <1>1 DEF Places, Typed, Respawn
  <1>5. p.dn < p.ww /\ p.dn < p.wr
    <2>1. p.dn # p.ww
      BY <1>1, <1>4
    <2> QED
      BY <1>2, <1>4, <2>1
  <1>6. applied' = cmds[Slot(p.dn)]
    BY <1>1, <1>2, <1>4, SlotOfIndex
  <1>7. applied < cmds[Slot(p.dn)] /\ cmds[Slot(p.dn)] <= Complete /\ cmds[Slot(p.dn)] \in Int
    BY <1>2, <1>5, <1>0, <1>t DEF Ordered
  <1>8. r' = Index(p.dn + 1)
    <2>1. ((p.dn % IndexMod) + 1) % IndexMod = (p.dn + 1) % IndexMod
      BY <1>2, <1>0, NextIndex
    <2> QED
      BY <1>1, <1>4, <2>1 DEF Index
  <1>9. Places(q)'
    <2>1. q.rd <= q.dn /\ q.dn <= q.ww /\ q.ww <= q.wr /\ q.dn <= q.wr
      BY <1>2, <1>3, <1>4, <1>5
    <2>2. cmdWrite = Index(p.wr) /\ cmdRead = Index(p.rd) /\ p.wr <= p.rd + kCmdSlots
          /\ (writer # "idle" => p.wr < p.rd + kCmdSlots /\ offered > 0)
          /\ (writer = "store" => cmds[Slot(p.wr)] = offered)
      BY DEF Places
    <2> QED
      BY <1>1, <1>3, <1>4, <1>8, <2>1, <2>2 DEF Places
  <1>10. Ordered(q)'
    <2>1. Complete' = Complete
      BY <1>1 DEF Complete
    <2>2. \A i \in Nat : p.dn + 1 <= i /\ i < p.wr => cmds[Slot(p.dn)] < cmds[Slot(i)] /\ cmds[Slot(i)] <= Complete
      <3> SUFFICES ASSUME NEW i \in Nat, p.dn + 1 <= i, i < p.wr
                   PROVE  cmds[Slot(p.dn)] < cmds[Slot(i)] /\ cmds[Slot(i)] <= Complete
        OBVIOUS
      <3>1. p.dn <= p.dn /\ p.dn < i /\ p.dn <= i
        BY <1>2
      <3> QED
        BY <1>2, <3>1 DEF Ordered
    <2>3. \A i, j \in Nat : p.dn + 1 <= i /\ i < j /\ j < p.wr => cmds[Slot(i)] < cmds[Slot(j)]
      <3>1. \A i \in Nat : p.dn + 1 <= i => p.dn <= i
        BY <1>2
      <3> QED
        BY <3>1 DEF Ordered
    <2> QED
      BY <1>1, <1>3, <1>6, <1>7, <2>1, <2>2, <2>3 DEF Ordered
  <1>11. applied' > applied
    BY <1>6, <1>7, <1>0
  <1> QED
    BY <1>3, <1>9, <1>10, <1>11

LEMMA OrderDrainEnd ==
    ASSUME Typed, DrainEnd, NEW p \in Counts, Places(p), Ordered(p)
    PROVE  \E q \in Counts : Places(q)' /\ Ordered(q)'
  <1>0. kCmdSlots \in Nat \ {0} /\ IndexMod \in Nat \ {0} /\ kCmdSlots < IndexMod
        /\ offered \in Nat /\ applied \in Int
    BY Types
  <1>s. cmds \in [0 .. kCmdSlots - 1 -> Int] /\ \A i \in Nat : Slot(i) \in 0 .. kCmdSlots - 1
    BY Types
  <1>t. \A i \in Nat : cmds[Slot(i)] \in Int
    BY Types
  <1> DEFINE q == [p EXCEPT !.rd = p.dn]
  <1>1. child = "drain" /\ cmdRead' = r /\ child' = "idle"
        /\ UNCHANGED <<cmds, cmdWrite, offered, refused, writer, r, w, applied, snap, gen>>
    BY DEF DrainEnd
  <1>2. p.wr \in Nat /\ p.rd \in Nat /\ p.dn \in Nat /\ p.ww \in Nat /\ p.sn \in Nat
    BY DEF Counts
  <1>3. q \in Counts /\ q.wr = p.wr /\ q.rd = p.dn /\ q.dn = p.dn /\ q.ww = p.ww /\ q.sn = p.sn
    BY <1>2 DEF Counts
  <1> HIDE DEF q
  <1>4. r = Index(p.dn) /\ p.rd <= p.dn /\ p.dn <= p.wr /\ p.wr <= p.rd + kCmdSlots /\ cmdWrite = Index(p.wr)
        /\ (writer # "idle" => p.wr < p.rd + kCmdSlots /\ offered > 0)
        /\ (writer = "store" => cmds[Slot(p.wr)] = offered)
    BY <1>1 DEF Places
  <1>5. snap = NoSnap
    BY <1>1 DEF Typed, Respawn
  <1>6. Places(q)'
    <2>1. p.dn <= p.dn /\ p.wr <= p.dn + kCmdSlots /\ (writer # "idle" => p.wr < p.dn + kCmdSlots)
      BY <1>2, <1>4, <1>0
    <2> QED
      BY <1>1, <1>3, <1>4, <1>5, <2>1 DEF Places
  <1>7. Ordered(q)'
    BY <1>1, <1>3 DEF Ordered, Complete
  <1> QED
    BY <1>3, <1>6, <1>7

LEMMA OrderReset ==
    ASSUME Typed, ChildDies \/ ResetLoad \/ ResetStore, NEW p \in Counts, Places(p), Ordered(p)
    PROVE  \E q \in Counts : Places(q)' /\ Ordered(q)'
  <1>0. kCmdSlots \in Nat \ {0} /\ IndexMod \in Nat \ {0} /\ kCmdSlots < IndexMod
        /\ offered \in Nat /\ applied \in Int
    BY Types
  <1>s. cmds \in [0 .. kCmdSlots - 1 -> Int] /\ \A i \in Nat : Slot(i) \in 0 .. kCmdSlots - 1
    BY Types
  <1>t. \A i \in Nat : cmds[Slot(i)] \in Int
    BY Types
  <1>1. UNCHANGED <<cmds, cmdWrite, offered, refused, writer, r, w, applied>>
    BY DEF ChildDies, ResetLoad, ResetStore
  <1>2. p.wr \in Nat /\ p.rd \in Nat /\ p.dn \in Nat /\ p.ww \in Nat /\ p.sn \in Nat
    BY DEF Counts
  <1>3. p.rd <= p.dn /\ p.dn <= p.wr /\ p.wr <= p.rd + kCmdSlots /\ cmdWrite = Index(p.wr) /\ cmdRead = Index(p.rd)
        /\ (writer # "idle" => p.wr < p.rd + kCmdSlots /\ offered > 0)
        /\ (writer = "store" => cmds[Slot(p.wr)] = offered)
        /\ (snap # NoSnap => snap = Index(p.sn) /\ p.dn <= p.sn /\ p.sn <= p.wr)
    BY DEF Places
  <1>4. CASE ChildDies
    <2>1. child' = "off" /\ UNCHANGED <<cmdRead, snap>>
      BY <1>4 DEF ChildDies
    <2>2. Places(p)'
      BY <1>1, <1>3, <2>1 DEF Places
    <2>3. Ordered(p)'
      BY <1>1 DEF Ordered, Complete
    <2> QED
      BY <2>2, <2>3
  <1>5. CASE ResetLoad
    <2> DEFINE q == [p EXCEPT !.sn = p.wr]
    <2>1. q \in Counts /\ q.wr = p.wr /\ q.rd = p.rd /\ q.dn = p.dn /\ q.ww = p.ww /\ q.sn = p.wr
      BY <1>2 DEF Counts
    <2> HIDE DEF q
    <2>2. child' = "off" /\ snap' = cmdWrite /\ cmdRead' = cmdRead
      BY <1>5 DEF ResetLoad
    <2>3. p.wr <= p.wr
      BY <1>2
    <2>4. Places(q)'
      BY <1>1, <1>3, <2>1, <2>2, <2>3 DEF Places
    <2>5. Ordered(q)'
      BY <1>1, <2>1 DEF Ordered, Complete
    <2> QED
      BY <2>1, <2>4, <2>5
  <1>6. CASE ResetStore
    <2> DEFINE q == [p EXCEPT !.rd = p.sn, !.dn = p.sn]
    <2>1. q \in Counts /\ q.wr = p.wr /\ q.rd = p.sn /\ q.dn = p.sn /\ q.ww = p.ww /\ q.sn = p.sn
      BY <1>2 DEF Counts
    <2> HIDE DEF q
    <2>2. child' = "idle" /\ cmdRead' = snap /\ snap' = NoSnap /\ snap = Index(p.sn) /\ p.dn <= p.sn /\ p.sn <= p.wr
      BY <1>3, <1>6 DEF ResetStore
    <2>3. p.sn <= p.sn /\ p.wr <= p.sn + kCmdSlots /\ (writer # "idle" => p.wr < p.sn + kCmdSlots)
      BY <1>2, <1>3, <2>2, <1>0
    <2>4. Places(q)'
      BY <1>1, <1>3, <2>1, <2>2, <2>3 DEF Places
    <2>5. Ordered(q)
      BY <2>1, <2>2, Later
    <2>6. Ordered(q)'
      BY <1>1, <2>5 DEF Ordered, Complete
    <2> QED
      BY <2>1, <2>4, <2>6
  <1> QED
    BY <1>4, <1>5, <1>6

LEMMA OrderNext ==
    ASSUME RingInv, [Next]_vars
    PROVE  RingInv' /\ (applied' # applied => applied' > applied)
  <1>1. Typed /\ Typed'
    BY TypedNext DEF RingInv
  <1>2. PICK p \in Counts : Places(p) /\ Ordered(p)
    BY DEF RingInv
  <1>3. CASE Push
    <2>1. applied' = applied
      BY <1>3 DEF Push
    <2> QED
      BY <1>1, <1>2, <1>3, <2>1, OrderPush DEF RingInv
  <1>4. CASE PushCopied
    <2>1. applied' = applied
      BY <1>4 DEF PushCopied
    <2> QED
      BY <1>1, <1>2, <1>4, <2>1, OrderPushCopied DEF RingInv
  <1>5. CASE PushStored
    <2>1. applied' = applied
      BY <1>5 DEF PushStored
    <2> QED
      BY <1>1, <1>2, <1>5, <2>1, OrderPushStored DEF RingInv
  <1>6. CASE DrainBegin
    <2>1. applied' = applied
      BY <1>6 DEF DrainBegin
    <2> QED
      BY <1>1, <1>2, <1>6, <2>1, OrderDrainBegin DEF RingInv
  <1>7. CASE ApplyNext
    BY <1>1, <1>2, <1>7, OrderApplyNext DEF RingInv
  <1>8. CASE DrainEnd
    <2>1. applied' = applied
      BY <1>8 DEF DrainEnd
    <2> QED
      BY <1>1, <1>2, <1>8, <2>1, OrderDrainEnd DEF RingInv
  <1>9. CASE ChildDies \/ ResetLoad \/ ResetStore
    <2>1. applied' = applied
      BY <1>9 DEF ChildDies, ResetLoad, ResetStore
    <2> QED
      BY <1>1, <1>2, <1>9, <2>1, OrderReset DEF RingInv
  <1>10. CASE UNCHANGED vars
    <2>1. Places(p)' /\ Ordered(p)'
      BY <1>2, <1>10 DEF vars, Places, Ordered, Complete
    <2>2. applied' = applied
      BY <1>10 DEF vars
    <2> QED
      BY <1>1, <1>2, <2>1, <2>2 DEF RingInv
  <1> QED
    BY <1>3, <1>4, <1>5, <1>6, <1>7, <1>8, <1>9, <1>10 DEF Next, Callback, Child, Supervisor

\* No command is applied twice, after a later one or half written: what is applied only grows.
THEOREM RingInOrder == Spec => InOrder
  <1>1. Init => RingInv
    BY TypedInit, OrderInit DEF RingInv
  <1>2. Spec => []RingInv
    BY <1>1, OrderNext, PTL DEF Spec
  <1>3. RingInv /\ [Next]_vars => [applied' # applied => applied' > applied]_vars
    BY OrderNext
  <1> QED
    BY <1>2, <1>3, PTL DEF Spec, InOrder

-----------------------------------------------------------------------------
(* The refinement.                                                         *)

\* The commands in the places from a up to b.
Window(f, a, b) == [i \in 1 .. b - a |-> f[Slot(a + i - 1)]]

\* How many of the head a drain has applied, as the refinement maps it.
Taken == IF child = "drain" THEN Index(r - cmdRead) ELSE 0

Slots == [0 .. kCmdSlots - 1 -> Int]

LEMMA WindowSeq ==
    ASSUME NEW f \in Slots, NEW a \in Nat, NEW b \in Nat, a <= b
    PROVE  /\ Window(f, a, b) \in Seq(Int) /\ Len(Window(f, a, b)) = b - a
           /\ \A i \in 1 .. b - a : Window(f, a, b)[i] = f[Slot(a + i - 1)]
           /\ \A i \in Nat : f[Slot(i)] \in Int
  <1> DEFINE n == b - a
  <1>1. n \in Nat
    OBVIOUS
  <1>2. \A i \in Nat : f[Slot(i)] \in Int
    <2>1. \A i \in Nat : Slot(i) \in 0 .. kCmdSlots - 1
      BY SlotType
    <2> QED
      BY ONLY <2>1, f \in Slots DEF Slots
  <1>3. \A i \in 1 .. n : a + i - 1 \in Nat
    OBVIOUS
  <1>4. Window(f, a, b) \in [1 .. n -> Int]
    BY <1>2, <1>3 DEF Window
  <1>5. Window(f, a, b) \in Seq(Int)
    BY <1>1, <1>4, SeqDef
  <1>6. Len(Window(f, a, b)) = n
    <2>1. DOMAIN Window(f, a, b) = 1 .. n
      BY DEF Window
    <2> QED
      BY <1>1, <1>5, <2>1, LenProperties
  <1> QED
    BY <1>2, <1>5, <1>6 DEF Window

\* Both indices wrap and their slots are found by adding to a wrapped one: the queue is the window.
LEMMA SlotAfter == ASSUME NEW a \in Int, NEW j \in Int PROVE Slot(Index(a) + j) = Slot(a + j)
  <1> DEFINE s == kCmdSlots
             x == Index(a)
             k == x \div s
             l == a \div s
  <1>1. s \in Nat \ {0} /\ x \in Int
    BY RingAssumption, IndexType DEF Indices
  <1> HIDE DEF x
  <1>2. k \in Int /\ x % s = x - s * k
    BY <1>1, DivMod
  <1>3. l \in Int /\ a % s = a - s * l
    BY <1>1, DivMod
  <1>4. x % s = a % s
    BY SlotOfIndex DEF Slot, x
  <1> HIDE DEF s, k, l
  <1>5. s * k \in Int /\ s * l \in Int /\ s * k - s * l = s * (k - l) /\ k - l \in Int
    BY <1>1, <1>2, <1>3, Multiple, Distribute
  <1> DEFINE m == k - l
             u == x + j
             v == a + j
  <1>6. u \in Int /\ v \in Int /\ m \in Int /\ u = v + s * m
    BY <1>1, <1>2, <1>3, <1>4, <1>5
  <1> HIDE DEF m, u, v
  <1>7. u % s = v % s
    BY <1>1, <1>6, Congruent
  <1> QED
    BY <1>7 DEF Slot, s, u, v, x

LEMMA Distance ==
    ASSUME NEW a \in Nat, NEW b \in Nat, a <= b, b <= a + kCmdSlots
    PROVE  Index(Index(b) - Index(a)) = b - a
  <1>1. IndexMod \in Nat \ {0} /\ a \in Int /\ b \in Int /\ b - a < IndexMod
    BY RingAssumption
  <1>2. ((b % IndexMod) - (a % IndexMod)) % IndexMod = b - a
    BY <1>1, IndexDifference
  <1> QED
    BY <1>2 DEF Index

LEMMA QueueIsWindow ==
    ASSUME NEW f \in Slots, NEW a \in Nat, NEW b \in Nat, a <= b, b <= a + kCmdSlots
    PROVE  [i \in 1 .. Index(Index(b) - Index(a)) |-> f[Slot(Index(a) + i - 1)]] = Window(f, a, b)
  <1>1. Index(Index(b) - Index(a)) = b - a
    BY Distance
  <1>2. ASSUME NEW i \in 1 .. b - a PROVE Slot(Index(a) + i - 1) = Slot(a + i - 1)
    <2>1. i - 1 \in Int /\ Index(a) \in Int
      BY IndexType DEF Indices
    <2>2. Slot(Index(a) + (i - 1)) = Slot(a + (i - 1))
      BY <2>1, SlotAfter
    <2>3. Index(a) + (i - 1) = Index(a) + i - 1 /\ a + (i - 1) = a + i - 1
      BY <2>1
    <2> QED
      BY <2>2, <2>3
  <1> QED
    BY <1>1, <1>2 DEF Window

LEMMA WindowGrows ==
    ASSUME NEW f \in Slots, NEW a \in Nat, NEW b \in Nat, a <= b
    PROVE  Window(f, a, b + 1) = Append(Window(f, a, b), f[Slot(b)])
  <1> DEFINE s == Window(f, a, b)
             t == Window(f, a, b + 1)
             e == f[Slot(b)]
  <1>1. s \in Seq(Int) /\ Len(s) = b - a /\ (\A i \in 1 .. b - a : s[i] = f[Slot(a + i - 1)]) /\ e \in Int
    BY WindowSeq
  <1>2. t \in Seq(Int) /\ Len(t) = b + 1 - a /\ \A i \in 1 .. b + 1 - a : t[i] = f[Slot(a + i - 1)]
    BY WindowSeq
  <1> HIDE DEF s, t
  <1>3. /\ Append(s, e) \in Seq(Int) /\ Len(Append(s, e)) = b - a + 1
        /\ \A i \in 1 .. b - a : Append(s, e)[i] = s[i]
        /\ Append(s, e)[b - a + 1] = e
    BY <1>1, AppendProperties
  <1>4. ASSUME NEW i \in 1 .. b - a + 1 PROVE t[i] = Append(s, e)[i]
    <2>1. CASE i = b - a + 1
      <3>1. a + i - 1 = b /\ i \in 1 .. b + 1 - a
        BY <2>1
      <3> QED
        BY <1>2, <1>3, <2>1, <3>1
    <2>2. CASE i # b - a + 1
      <3>1. i \in 1 .. b - a /\ i \in 1 .. b + 1 - a
        BY <2>2
      <3> QED
        BY <1>1, <1>2, <1>3, <3>1
    <2> QED
      BY <2>1, <2>2
  <1>5. Len(t) = Len(Append(s, e)) /\ Len(t) = b - a + 1
    BY <1>2, <1>3
  <1>6. t = Append(s, e)
    BY <1>2, <1>3, <1>4, <1>5, SeqEqual
  <1> QED
    BY <1>6 DEF s, t

LEMMA WindowReleased ==
    ASSUME NEW f \in Slots, NEW a \in Nat, NEW b \in Nat, NEW c \in Nat, a <= c, c <= b
    PROVE  Window(f, c, b) = SubSeq(Window(f, a, b), c - a + 1, Len(Window(f, a, b)))
  <1> DEFINE s == Window(f, a, b)
             t == Window(f, c, b)
             m == c - a + 1
             n == b - a
  <1>1. s \in Seq(Int) /\ Len(s) = n /\ \A i \in 1 .. b - a : s[i] = f[Slot(a + i - 1)]
    BY WindowSeq
  <1>2. t \in Seq(Int) /\ Len(t) = b - c /\ \A i \in 1 .. b - c : t[i] = f[Slot(c + i - 1)]
    BY WindowSeq
  <1> HIDE DEF s, t
  <1>3. \A i \in m .. n : s[i] \in Int
    BY <1>1, ElementOfSeq
  <1>4. m \in Int /\ n \in Int /\ n - m + 1 = b - c /\ (IF m <= n THEN n - m + 1 ELSE 0) = b - c
    OBVIOUS
  <1>5. /\ SubSeq(s, m, n) \in Seq(Int) /\ Len(SubSeq(s, m, n)) = b - c
        /\ \A i \in 1 .. b - c : SubSeq(s, m, n)[i] = s[m + i - 1]
    <2> HIDE DEF m, n
    <2>1. /\ SubSeq(s, m, n) \in Seq(Int)
          /\ Len(SubSeq(s, m, n)) = IF m <= n THEN n - m + 1 ELSE 0
          /\ \A i \in 1 .. n - m + 1 : SubSeq(s, m, n)[i] = s[m + i - 1]
      BY <1>3, <1>4, SubSeqProperties
    <2> QED
      BY <1>4, <2>1
  <1>6. ASSUME NEW i \in 1 .. b - c PROVE t[i] = SubSeq(s, m, n)[i]
    <2>1. m + i - 1 \in 1 .. b - a /\ a + (m + i - 1) - 1 = c + i - 1
      OBVIOUS
    <2>2. SubSeq(s, m, n)[i] = s[m + i - 1]
      BY <1>5
    <2>3. s[m + i - 1] = f[Slot(c + i - 1)]
      BY <1>1, <2>1
    <2> QED
      BY <1>2, <2>2, <2>3
  <1>7. t = SubSeq(s, m, n)
    BY <1>2, <1>5, <1>6, SeqEqual
  <1> QED
    BY <1>1, <1>7 DEF s, t

\* The slot the callback writes is none of those that wait.
LEMMA WindowKept ==
    ASSUME NEW f \in Slots, NEW a \in Nat, NEW b \in Nat, a <= b, b < a + kCmdSlots,
           NEW g, \A n \in 0 .. kCmdSlots - 1 : n # Slot(b) => g[n] = f[n]
    PROVE  Window(g, a, b) = Window(f, a, b)
  <1>1. ASSUME NEW i \in 1 .. b - a PROVE g[Slot(a + i - 1)] = f[Slot(a + i - 1)]
    <2>1. a + i - 1 \in Int /\ a + i - 1 < b /\ b - (a + i - 1) < kCmdSlots /\ b \in Int
      BY RingAssumption
    <2>2. Slot(b) # Slot(a + i - 1)
      BY <2>1, SlotsDiffer
    <2>3. Slot(a + i - 1) \in 0 .. kCmdSlots - 1
      BY <2>1, SlotType
    <2> QED
      BY <2>2, <2>3 DEF Slots
  <1> QED
    BY <1>1 DEF Window

\* What the places say of the queue and of the next one.
LEMMA PlacesMapped ==
    ASSUME Typed, [Next]_vars, NEW p \in Counts, Places(p)
    PROVE  /\ p.wr \in Nat /\ p.rd \in Nat /\ p.dn \in Nat /\ p.ww \in Nat /\ p.sn \in Nat
           /\ p.rd <= p.dn /\ p.dn <= p.wr /\ p.wr <= p.rd + kCmdSlots
           /\ kCmdSlots \in Nat \ {0}
           /\ cmds \in Slots /\ cmds' \in Slots
           /\ InFlight = p.wr - p.rd
           /\ Queued = Window(cmds, p.rd, p.wr)
           /\ Len(Queued) = p.wr - p.rd
           /\ Taken = IF child = "drain" THEN p.dn - p.rd ELSE 0
           /\ UNCHANGED <<cmdWrite, cmdRead>> => Queued' = Window(cmds', p.rd, p.wr)
  <1>1. p.wr \in Nat /\ p.rd \in Nat /\ p.dn \in Nat /\ p.ww \in Nat /\ p.sn \in Nat
    BY DEF Counts
  <1>2. p.rd <= p.dn /\ p.dn <= p.wr /\ p.wr <= p.rd + kCmdSlots
        /\ cmdWrite = Index(p.wr) /\ cmdRead = Index(p.rd)
    BY DEF Places
  <1>3. kCmdSlots \in Nat \ {0} /\ p.rd <= p.wr /\ p.dn <= p.rd + kCmdSlots
    BY <1>1, <1>2, RingAssumption
  <1>4. cmds \in Slots
    BY Types DEF Slots
  <1>5. cmds' \in Slots
    <2>1. cmds' \in [0 .. kCmdSlots - 1 -> HalfWritten .. MaxPush]
      BY TypedNext DEF Typed, TypeOK
    <2> QED
      BY <2>1, RingAssumption DEF Slots, HalfWritten
  <1>6. InFlight = p.wr - p.rd
    BY <1>1, <1>2, <1>3, Distance DEF InFlight
  <1>7. Queued = Window(cmds, p.rd, p.wr)
    <2>1. [i \in 1 .. Index(Index(p.wr) - Index(p.rd)) |-> cmds[Slot(Index(p.rd) + i - 1)]] = Window(cmds, p.rd, p.wr)
      BY <1>1, <1>2, <1>3, <1>4, QueueIsWindow
    <2> QED
      BY <1>2, <2>1 DEF Queued, InFlight
  <1>8. Len(Queued) = p.wr - p.rd
    <2>1. p.wr \in Nat /\ p.rd \in Nat /\ p.rd <= p.wr /\ cmds \in Slots
      BY <1>1, <1>3, <1>4
    <2>2. Len(Window(cmds, p.rd, p.wr)) = p.wr - p.rd
      BY ONLY <2>1, WindowSeq
    <2> QED
      BY <1>7, <2>2
  <1>9. Taken = IF child = "drain" THEN p.dn - p.rd ELSE 0
    <2>1. child = "drain" => r = Index(p.dn)
      BY DEF Places
    <2>2. Index(Index(p.dn) - Index(p.rd)) = p.dn - p.rd
      BY <1>1, <1>2, <1>3, Distance
    <2> QED
      BY <1>2, <2>1, <2>2 DEF Taken
  <1>10. ASSUME UNCHANGED <<cmdWrite, cmdRead>> PROVE Queued' = Window(cmds', p.rd, p.wr)
    <2>1. [i \in 1 .. Index(Index(p.wr) - Index(p.rd)) |-> cmds'[Slot(Index(p.rd) + i - 1)]] = Window(cmds', p.rd, p.wr)
      BY <1>1, <1>2, <1>3, <1>5, QueueIsWindow
    <2> QED
      BY <1>2, <1>10, <2>1 DEF Queued, InFlight
  <1> QED
    BY <1>1, <1>2, <1>3, <1>4, <1>5, <1>6, <1>7, <1>8, <1>9, <1>10

\* A push refuses with a full queue; while it copies, the queue does not change; its store accepts.
LEMMA PushImplements ==
    ASSUME Typed, Push \/ PushCopied \/ PushStored, NEW p \in Counts, Places(p)
    PROVE  Queue!Next \/ UNCHANGED <<Queued, Taken, applied, refused>>
  <1>0. [Next]_vars
    BY DEF Next, Callback
  <1>1. /\ p.wr \in Nat /\ p.rd \in Nat /\ p.rd <= p.wr /\ p.wr <= p.rd + kCmdSlots /\ kCmdSlots \in Nat \ {0}
        /\ cmds \in Slots /\ cmds' \in Slots /\ InFlight = p.wr - p.rd
        /\ Queued = Window(cmds, p.rd, p.wr) /\ Len(Queued) = p.wr - p.rd
        /\ UNCHANGED <<cmdWrite, cmdRead>> => Queued' = Window(cmds', p.rd, p.wr)
    BY <1>0, PlacesMapped
  <1>2. Taken' = Taken /\ UNCHANGED <<cmdRead, applied>>
    BY DEF Taken, Push, PushCopied, PushStored
  <1>3. Slot(cmdWrite) = Slot(p.wr)
    BY <1>1, SlotOfIndex DEF Places
  <1>4. CASE Push /\ InFlight >= kCmdSlots
    <2>1. Queued' = Queued
      BY <1>1, <1>4 DEF Push
    <2>2. Len(Queued) = kCmdSlots /\ refused < MaxPush /\ refused' = refused + 1
      BY <1>1, <1>4, RingAssumption DEF Push, Typed, TypeOK
    <2>3. Queue!Refuse
      BY <1>2, <2>1, <2>2 DEF Queue!Refuse, Taken
    <2> QED
      BY <2>3 DEF Queue!Next
  <1>5. CASE (Push /\ ~(InFlight >= kCmdSlots)) \/ PushCopied
    <2>1. PICK e : cmds' = [cmds EXCEPT ![Slot(p.wr)] = e]
      BY <1>3, <1>5 DEF Push, PushCopied
    <2>2. p.wr < p.rd + kCmdSlots
      BY <1>1, <1>5 DEF PushCopied, Places
    <2>3. Window(cmds', p.rd, p.wr) = Window(cmds, p.rd, p.wr)
      <3>1. /\ p.wr \in Nat /\ p.rd \in Nat /\ p.rd <= p.wr /\ p.wr < p.rd + kCmdSlots
            /\ cmds \in Slots
            /\ \A n \in 0 .. kCmdSlots - 1 : n # Slot(p.wr) => cmds'[n] = cmds[n]
        BY <1>1, <2>1, <2>2 DEF Slots
      <3> QED
        BY ONLY <3>1, WindowKept
    <2>4. UNCHANGED <<cmdWrite, cmdRead, refused>>
      BY <1>5 DEF Push, PushCopied
    <2> QED
      BY <1>1, <1>2, <2>3, <2>4
  <1>6. CASE PushStored
    <2>1. UNCHANGED <<cmds, cmdRead, refused>> /\ cmdWrite' = Index(cmdWrite + 1) /\ writer = "store"
      BY <1>6 DEF PushStored
    <2>2. p.wr < p.rd + kCmdSlots /\ offered > 0 /\ cmds[Slot(p.wr)] = offered
          /\ cmdWrite = Index(p.wr) /\ cmdRead = Index(p.rd)
      BY <2>1 DEF Places
    <2>3. cmdWrite' = Index(p.wr + 1)
      <3>0. IndexMod \in Nat \ {0} /\ p.wr \in Int
        BY <1>1, RingAssumption
      <3>1. ((p.wr % IndexMod) + 1) % IndexMod = (p.wr + 1) % IndexMod
        BY <3>0, NextIndex
      <3> QED
        BY <2>1, <2>2, <3>1 DEF Index
    <2>4. Queued' = Window(cmds, p.rd, p.wr + 1)
      <3>1. p.wr + 1 \in Nat /\ p.rd <= p.wr + 1 /\ p.wr + 1 <= p.rd + kCmdSlots
        BY <1>1, <2>2
      <3>2. [i \in 1 .. Index(Index(p.wr + 1) - Index(p.rd)) |-> cmds[Slot(Index(p.rd) + i - 1)]]
            = Window(cmds, p.rd, p.wr + 1)
        BY <1>1, <3>1, QueueIsWindow
      <3> QED
        BY <2>1, <2>2, <2>3, <3>2 DEF Queued, InFlight
    <2>5. Queued' = Append(Queued, offered)
      BY <1>1, <2>2, <2>4, WindowGrows
    <2>6. Len(Queued) < kCmdSlots /\ offered \in 1 .. MaxPush
      BY <1>1, <2>2, RingAssumption DEF Typed, TypeOK
    <2>7. Queue!Accept(offered)
      BY <1>2, <2>1, <2>5, <2>6 DEF Queue!Accept, Taken
    <2> QED
      BY <2>6, <2>7 DEF Queue!Next
  <1> QED
    BY <1>4, <1>5, <1>6

\* A drain applies the head of the queue, command by command, and releases what it applied.
LEMMA DrainImplements ==
    ASSUME Typed, DrainBegin \/ ApplyNext \/ DrainEnd, NEW p \in Counts, Places(p)
    PROVE  Queue!Next \/ UNCHANGED <<Queued, Taken, applied, refused>>
  <1>0. [Next]_vars
    BY DEF Next, Child
  <1>1. /\ p.wr \in Nat /\ p.rd \in Nat /\ p.dn \in Nat /\ p.ww \in Nat
        /\ p.rd <= p.dn /\ p.dn <= p.wr /\ p.wr <= p.rd + kCmdSlots /\ kCmdSlots \in Nat \ {0}
        /\ cmds \in Slots
        /\ Queued = Window(cmds, p.rd, p.wr) /\ Len(Queued) = p.wr - p.rd
        /\ Taken = IF child = "drain" THEN p.dn - p.rd ELSE 0
        /\ UNCHANGED <<cmdWrite, cmdRead>> => Queued' = Window(cmds', p.rd, p.wr)
    BY <1>0, PlacesMapped
  <1>2. UNCHANGED <<cmds, cmdWrite, refused>> /\ cmdWrite = Index(p.wr) /\ cmdRead = Index(p.rd)
    BY DEF DrainBegin, ApplyNext, DrainEnd, Places
  <1>3. CASE DrainBegin
    <2>1. Queued' = Queued /\ applied' = applied
      BY <1>1, <1>2, <1>3 DEF DrainBegin
    <2>2. Taken' = 0
      <3>1. Index(Index(p.rd) - Index(p.rd)) = 0
        BY <1>1, Distance
      <3> QED
        BY <1>2, <1>3, <3>1 DEF DrainBegin, Taken
    <2>3. Taken = 0
      BY <1>1, <1>3 DEF DrainBegin
    <2> QED
      BY <1>2, <2>1, <2>2, <2>3
  <1>4. CASE ApplyNext
    <2>1. child = "drain" /\ r # w /\ child' = "drain" /\ r' = Index(r + 1) /\ cmdRead' = cmdRead
          /\ applied' = cmds[Slot(r)] /\ Queued' = Queued
      BY <1>1, <1>2, <1>4 DEF ApplyNext
    <2>2. r = Index(p.dn) /\ w = Index(p.ww) /\ p.dn <= p.ww /\ p.ww <= p.wr
      BY <2>1 DEF Places
    <2>3. p.dn < p.wr
      <3>1. p.dn # p.ww
        BY <2>1, <2>2
      <3> QED
        BY <1>1, <2>2, <3>1
    <2>4. r' = Index(p.dn + 1)
      <3>0. IndexMod \in Nat \ {0} /\ p.dn \in Int
        BY <1>1, RingAssumption
      <3>1. ((p.dn % IndexMod) + 1) % IndexMod = (p.dn + 1) % IndexMod
        BY <3>0, NextIndex
      <3> QED
        BY <2>1, <2>2, <3>1 DEF Index
    <2>a. /\ p.wr \in Nat /\ p.rd \in Nat /\ p.dn \in Nat /\ kCmdSlots \in Nat
          /\ p.rd <= p.dn /\ p.dn < p.wr /\ p.wr <= p.rd + kCmdSlots
      BY <1>1, <2>3
    <2>5. Taken = p.dn - p.rd
      BY <1>1, <2>1
    <2>6. Taken' = Taken + 1
      <3>1. p.dn + 1 \in Nat /\ p.rd \in Nat /\ p.rd <= p.dn + 1 /\ p.dn + 1 <= p.rd + kCmdSlots
        BY ONLY <2>a
      <3>2. Index(Index(p.dn + 1) - Index(p.rd)) = (p.dn + 1) - p.rd
        <4> DEFINE b == p.dn + 1
        <4>1. b \in Nat /\ p.rd \in Nat /\ p.rd <= b /\ b <= p.rd + kCmdSlots
          BY ONLY <3>1
        <4> HIDE DEF b
        <4>2. Index(Index(b) - Index(p.rd)) = b - p.rd
          BY ONLY <4>1, Distance
        <4> QED
          BY <4>2 DEF b
      <3>3. Taken' = (p.dn + 1) - p.rd
        BY <1>2, <2>1, <2>4, <3>2 DEF Taken
      <3> QED
        BY ONLY <2>a, <2>5, <3>3
    <2>7. applied' = Queued[Taken + 1]
      <3>1. Taken + 1 \in 1 .. p.wr - p.rd /\ p.rd + (Taken + 1) - 1 = p.dn
        BY ONLY <2>a, <2>5
      <3>2. Queued[Taken + 1] = cmds[Slot(p.rd + (Taken + 1) - 1)]
        BY <1>1, <3>1 DEF Window
      <3>3. Slot(r) = Slot(p.dn)
        BY <1>1, <2>2, SlotOfIndex
      <3> QED
        BY <2>1, <3>1, <3>2, <3>3
    <2>8. Taken < Len(Queued)
      BY <1>1, <2>3, <2>5
    <2>9. Queue!Apply
      BY <1>2, <2>1, <2>6, <2>7, <2>8 DEF Queue!Apply, Taken
    <2> QED
      BY <2>9 DEF Queue!Next
  <1>5. CASE DrainEnd
    <2>1. child = "drain" /\ child' = "idle" /\ cmdRead' = r /\ applied' = applied /\ r = Index(p.dn)
      BY <1>5 DEF DrainEnd, Places
    <2>2. Taken = p.dn - p.rd /\ Taken' = 0
      BY <1>1, <2>1 DEF Taken
    <2>3. Queued' = Window(cmds, p.dn, p.wr)
      <3>1. p.wr <= p.dn + kCmdSlots /\ p.dn <= p.wr /\ p.dn \in Nat /\ p.wr \in Nat /\ cmds \in Slots
        BY <1>1
      <3>2. [i \in 1 .. Index(Index(p.wr) - Index(p.dn)) |-> cmds[Slot(Index(p.dn) + i - 1)]]
            = Window(cmds, p.dn, p.wr)
        BY ONLY <3>1, QueueIsWindow
      <3> QED
        BY <1>2, <2>1, <3>2 DEF Queued, InFlight
    <2>4. Queued' = SubSeq(Queued, Taken + 1, Len(Queued))
      <3>0. /\ p.rd \in Nat /\ p.dn \in Nat /\ p.wr \in Nat /\ p.rd <= p.dn /\ p.dn <= p.wr /\ cmds \in Slots
        BY <1>1
      <3>1. Window(cmds, p.dn, p.wr) = SubSeq(Window(cmds, p.rd, p.wr), p.dn - p.rd + 1, Len(Window(cmds, p.rd, p.wr)))
        BY ONLY <3>0, WindowReleased, Zenon
      <3> QED
        BY <1>1, <2>2, <2>3, <3>1
    <2>5. CASE Taken > 0
      <3>1. Queue!Release
        BY <1>2, <2>1, <2>2, <2>4, <2>5 DEF Queue!Release, Taken
      <3> QED
        BY <3>1 DEF Queue!Next
    <2>6. CASE ~(Taken > 0)
      <3>1. p.dn = p.rd /\ Taken = 0
        BY <1>1, <2>2, <2>6
      <3> QED
        BY <1>1, <1>2, <2>1, <2>2, <2>3, <3>1
    <2> QED
      BY <2>5, <2>6
  <1> QED
    BY <1>3, <1>4, <1>5

\* A child that dies leaves the queue as it is; the reset of the respawn drops a prefix.
LEMMA ResetImplements ==
    ASSUME Typed, ChildDies \/ ResetLoad \/ ResetStore, NEW p \in Counts, Places(p)
    PROVE  Queue!Next \/ UNCHANGED <<Queued, Taken, applied, refused>>
  <1>0. [Next]_vars
    BY DEF Next, Supervisor
  <1>1. /\ p.wr \in Nat /\ p.rd \in Nat /\ p.dn \in Nat /\ p.sn \in Nat
        /\ p.rd <= p.dn /\ p.dn <= p.wr /\ p.wr <= p.rd + kCmdSlots /\ kCmdSlots \in Nat \ {0}
        /\ cmds \in Slots
        /\ Queued = Window(cmds, p.rd, p.wr) /\ Len(Queued) = p.wr - p.rd
        /\ UNCHANGED <<cmdWrite, cmdRead>> => Queued' = Window(cmds', p.rd, p.wr)
    BY <1>0, PlacesMapped
  <1>2. UNCHANGED <<cmds, cmdWrite, applied, refused>> /\ cmdWrite = Index(p.wr)
    BY DEF ChildDies, ResetLoad, ResetStore, Places
  <1>3. Taken' = 0
    BY DEF ChildDies, ResetLoad, ResetStore, Taken
  <1>4. CASE ChildDies
    <2>1. Queued' = Queued
      BY <1>1, <1>2, <1>4 DEF ChildDies
    <2>2. Queue!Abort
      BY <1>2, <1>3, <2>1 DEF Queue!Abort, Taken
    <2> QED
      BY <2>2 DEF Queue!Next
  <1>5. CASE ResetLoad
    <2>1. Queued' = Queued /\ Taken = 0
      BY <1>1, <1>2, <1>5 DEF ResetLoad, Taken
    <2> QED
      BY <1>2, <1>3, <2>1
  <1>6. CASE ResetStore
    <2>1. child = "off" /\ snap # NoSnap /\ cmdRead' = snap
      BY <1>6 DEF ResetStore, Typed, Respawn
    <2>2. snap = Index(p.sn) /\ p.dn <= p.sn /\ p.sn <= p.wr /\ Taken = 0
      BY <2>1 DEF Places, Taken
    <2> DEFINE n == p.sn - p.rd
    <2>3. n \in 0 .. p.wr - p.rd /\ p.rd <= p.sn /\ p.wr <= p.sn + kCmdSlots
      BY <1>1, <2>2
    <2>4. Queued' = Window(cmds, p.sn, p.wr)
      <3>1. p.wr <= p.sn + kCmdSlots /\ p.sn <= p.wr /\ p.sn \in Nat /\ p.wr \in Nat /\ cmds \in Slots
        BY <1>1, <2>2, <2>3
      <3>2. [i \in 1 .. Index(Index(p.wr) - Index(p.sn)) |-> cmds[Slot(Index(p.sn) + i - 1)]]
            = Window(cmds, p.sn, p.wr)
        BY ONLY <3>1, QueueIsWindow
      <3> QED
        BY <1>2, <2>1, <2>2, <3>2 DEF Queued, InFlight
    <2>5. Queued' = SubSeq(Queued, n + 1, Len(Queued))
      <3>0. /\ p.rd \in Nat /\ p.sn \in Nat /\ p.wr \in Nat /\ p.rd <= p.sn /\ p.sn <= p.wr /\ cmds \in Slots
        BY <1>1, <2>2, <2>3
      <3>1. Window(cmds, p.sn, p.wr) = SubSeq(Window(cmds, p.rd, p.wr), p.sn - p.rd + 1, Len(Window(cmds, p.rd, p.wr)))
        BY ONLY <3>0, WindowReleased, Zenon
      <3> QED
        BY <1>1, <2>4, <3>1
    <2>6. CASE n = 0
      <3>1. p.sn = p.rd
        BY <1>1, <2>6
      <3> QED
        BY <1>1, <1>2, <1>3, <2>2, <2>4, <3>1
    <2>7. CASE n # 0
      <3>1. n \in 1 .. Len(Queued)
        BY <1>1, <2>3, <2>7
      <3> HIDE DEF n
      <3>2. Queue!Clear
        BY <1>2, <1>3, <2>2, <2>5, <3>1 DEF Queue!Clear, Taken
      <3> QED
        BY <3>2 DEF Queue!Next
    <2> QED
      BY <2>6, <2>7
  <1> QED
    BY <1>4, <1>5, <1>6

LEMMA StepImplementsQueue == ASSUME RingInv, [Next]_vars PROVE [Queue!Next]_Queue!vars
  <1>1. PICK p \in Counts : Places(p) /\ Ordered(p)
    BY DEF RingInv
  <1>2. Typed
    BY DEF RingInv
  <1>3. Queue!Next \/ UNCHANGED <<Queued, Taken, applied, refused>>
    <2>1. CASE Push \/ PushCopied \/ PushStored
      BY <1>1, <1>2, <2>1, PushImplements
    <2>2. CASE DrainBegin \/ ApplyNext \/ DrainEnd
      BY <1>1, <1>2, <2>2, DrainImplements
    <2>3. CASE ChildDies \/ ResetLoad \/ ResetStore
      BY <1>1, <1>2, <2>3, ResetImplements
    <2>4. CASE UNCHANGED vars
      BY <2>4 DEF vars, Queued, InFlight, Taken
    <2> QED
      BY <2>1, <2>2, <2>3, <2>4 DEF Next, Callback, Child, Supervisor
  <1>4. UNCHANGED <<Queued, Taken, applied, refused>> => UNCHANGED Queue!vars
    BY DEF Queue!vars, Taken
  <1> QED
    BY <1>3, <1>4

\* The ring implements the queue: what is accepted is applied whole, in order and at most once, a
\* command is refused only when kCmdSlots are waiting, and only a respawn throws one away.
THEOREM RingImplementsQueue == Spec => ImplementsQueue
  <1>1. Init => Queue!Init
    <2> SUFFICES ASSUME Init PROVE Queue!Init
      OBVIOUS
    <2>1. InFlight = 0
      <3>1. cmdWrite = 0 /\ cmdRead = 0 /\ 0 \in 0 .. IndexMod - 1 /\ IndexMod \in Nat \ {0} /\ 0 - 0 = 0 + IndexMod * 0
        BY RingAssumption DEF Init
      <3>2. (0 - 0) % IndexMod = 0
        BY <3>1, Remainder
      <3> QED
        BY <3>1, <3>2 DEF InFlight, Index
    <2>2. Queued = <<>>
      BY <2>1 DEF Queued
    <2> QED
      BY <2>2 DEF Init, Queue!Init, Nothing, Queue!Nothing
  <1>2. Init => RingInv
    BY TypedInit, OrderInit DEF RingInv
  <1>3. Spec => []RingInv
    BY <1>2, OrderNext, PTL DEF Spec
  <1>4. RingInv /\ [Next]_vars => [Queue!Next]_Queue!vars
    BY StepImplementsQueue
  <1> QED
    BY <1>1, <1>3, <1>4, PTL DEF Spec, ImplementsQueue, Queue!Spec

=============================================================================
