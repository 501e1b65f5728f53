--------------------------- MODULE CatalogProofs ---------------------------
(***************************************************************************)
(* Proofs about Catalog, for any contents of the folders and any periods   *)
(* that satisfy CatalogAssumption.                                         *)
(*                                                                         *)
(* The argument: a catalog a call holds is the current one, or the one     *)
(* just replaced, and then the call has seen every poll since (Held); a    *)
(* call sees fewer polls than a catalog waits for its deletion.  The next  *)
(* build cannot cut the wait short, since the catalog before is gone by    *)
(* the next look at the folders (Waits).                                   *)
(***************************************************************************)
EXTENDS Catalog, TLAPS, SequenceTheorems

Held ==
    call # "out" /\ held # NoCatalog =>
        held = catalog \/ (held = retired /\ retiredPolls <= age)

Waits ==
    /\ retired # NoCatalog => dumpPolls = retiredPolls + 1 /\ retiredPolls < kRetirePolls
    /\ sup = "build" => retired = NoCatalog /\ dumpPolls = 1

Ended ==
    /\ stop => call = "out"
    /\ sup = "freed" => stop /\ catalog = NoCatalog

Inv == TypeOK /\ Held /\ Waits /\ Ended /\ IndexesItsOwn /\ OwnedOnce

\* Appending a catalog leaves the others as they were.
LEMMA AppendCatalog ==
    ASSUME TypeOK, NEW x \in [content: Contents, signature: Contents],
           catalogs' = Append(catalogs, x)
    PROVE  /\ catalogs' \in Seq([content: Contents, signature: Contents])
           /\ Len(catalogs') = Len(catalogs) + 1
           /\ Len(catalogs) \in Nat
           /\ \A c \in 1 .. Len(catalogs) : catalogs'[c] = catalogs[c]
<1> DEFINE Cat == [content: Contents, signature: Contents]
<1>1. catalogs \in Seq(Cat)
  BY DEF TypeOK
<1>2. Append(catalogs, x) \in Seq(Cat) /\ Len(Append(catalogs, x)) = Len(catalogs) + 1
  BY <1>1, AppendProperties
<1>3. \A c \in 1 .. Len(catalogs) : Append(catalogs, x)[c] = catalogs[c]
  BY <1>1, AppendProperties
<1> QED
  BY <1>1, <1>2, <1>3, LenProperties

\* A catalog that was built is a record of the two, whatever its number.
LEMMA BuiltCatalog ==
    ASSUME TypeOK
    PROVE  /\ Len(catalogs) \in Nat
           /\ \A c \in 1 .. Len(catalogs) : catalogs[c].content \in Contents
<1> DEFINE Cat == [content: Contents, signature: Contents]
<1>1. catalogs \in Seq(Cat)
  BY DEF TypeOK
<1>2. Len(catalogs) \in Nat /\ \A c \in 1 .. Len(catalogs) : catalogs[c] \in Cat
  BY <1>1, LenProperties, ElementOfSeq
<1> QED
  BY <1>2

\* Only catalogs that were built are deleted.
LEMMA DeleteBuilt ==
    ASSUME NEW n \in Nat, freed \subseteq 1 .. n, NEW S \in SUBSET (0 .. n), Delete(S)
    PROVE  freed' \subseteq 1 .. n
<1>1. S \ {0} \subseteq 1 .. n
  OBVIOUS
<1> QED
  BY <1>1 DEF Delete, NoCatalog

LEMMA InitInv == Init => Inv
<1> SUFFICES ASSUME Init PROVE Inv
  OBVIOUS
<1> DEFINE Cat == [content: Contents, signature: Contents]
<1>1. catalogs \in Seq(Cat) /\ Len(catalogs) = 0
  <2>1. <<>> \in Seq(Cat) /\ Len(<<>>) = 0
    BY EmptySeq
  <2> QED
    BY <2>1 DEF Init
<1>2. /\ 0 \in 0 .. kRetirePolls /\ 0 \in 0 .. kScanPolls - 1 /\ 0 \in 0 .. kCallPolls - 1
      /\ 0 \in 0 .. MaxChanges
  BY CatalogAssumption
<1>3. TypeOK
  <2>1. files \in Contents /\ seen \subseteq Contents /\ scan \in Contents
    BY CatalogAssumption DEF Init
  <2>2. freed \subseteq 1 .. Len(catalogs) /\ {catalog, retired, held} \subseteq 0 .. Len(catalogs)
    BY <1>1 DEF Init, NoCatalog
  <2> QED
    BY <1>1, <1>2, <2>1, <2>2 DEF Init, TypeOK
<1>4. Held /\ Waits /\ Ended /\ IndexesItsOwn /\ OwnedOnce
  BY <1>1 DEF Init, Held, Waits, Ended, IndexesItsOwn, OwnedOnce, NoCatalog
<1> QED
  BY <1>3, <1>4 DEF Inv

\* The folders and the callback's thread.
LEMMA CallsInv ==
    ASSUME Inv,
           (\E f \in Contents : ChangeFiles(f)) \/ (\E i \in Asked : Enter(i)) \/ Calls \/ Destroy
    PROVE  Inv'
<1> USE CatalogAssumption DEF Inv, NoCatalog
<1>1. ASSUME NEW f \in Contents, ChangeFiles(f) PROVE Inv'
  BY <1>1 DEF ChangeFiles, heapVars, pollVars, callVars, TypeOK, Held, Waits, Ended,
     IndexesItsOwn, OwnedOnce, SoundCount
<1>2. ASSUME NEW i \in Asked, Enter(i) PROVE Inv'
  <2>1. i \in Nat
    BY <1>2 DEF Asked
  <2> QED
    BY <1>2, <2>1 DEF Enter, folderVars, heapVars, pollVars, TypeOK, Held, Waits, Ended,
       IndexesItsOwn, OwnedOnce, SoundCount
<1>3. CASE CheckIndex
  <2>1. held \in 0 .. Len(catalogs)
    BY DEF TypeOK
  <2>2. Len(catalogs) \in Nat /\ \A c \in 1 .. Len(catalogs) : catalogs[c].content \in Contents
    BY BuiltCatalog
  <2>3. held # NoCatalog => catalogs[held].content \in Contents
    BY <2>1, <2>2
  <2>4. SoundCount(held) \in Nat
    BY <2>3 DEF SoundCount
  <2>5. IndexesItsOwn'
    <3>1. held' = held /\ index' = index /\ SoundCount(held)' = SoundCount(held)
      BY <1>3 DEF CheckIndex, heapVars, SoundCount
    <3>2. call' = "sound" => kMachineCount <= index /\ index < kMachineCount + SoundCount(held)
      BY <1>3 DEF CheckIndex, presetCount
    <3>3. index \in Nat /\ kMachineCount \in Nat /\ (held = NoCatalog => SoundCount(held) = 0)
      BY DEF TypeOK, SoundCount
    <3>4. call' = "sound" => held # NoCatalog /\ index - kMachineCount < SoundCount(held)
      BY <2>4, <3>2, <3>3
    <3> QED
      BY <3>1, <3>4 DEF IndexesItsOwn
  <2> QED
    BY <1>3, <2>5 DEF CheckIndex, folderVars, heapVars, pollVars, TypeOK, Held, Waits, Ended,
       OwnedOnce
<1>4. CASE CopySound
  BY <1>4 DEF CopySound, folderVars, heapVars, pollVars, TypeOK, Held, Waits, Ended,
     IndexesItsOwn, OwnedOnce
<1>5. CASE Destroy
  BY <1>5 DEF Destroy, folderVars, heapVars, pollVars, callVars, TypeOK, Held, Waits, Ended,
     IndexesItsOwn, OwnedOnce, SoundCount
<1> QED
  BY <1>1, <1>2, <1>3, <1>4, <1>5 DEF Calls

LEMMA PollInv == ASSUME Inv, Poll PROVE Inv'
<1> USE CatalogAssumption DEF Inv, NoCatalog
<1>1. dumpPolls \in 0 .. kScanPolls - 1 /\ retiredPolls \in 0 .. kRetirePolls /\ age \in 0 .. kCallPolls - 1
  BY DEF TypeOK
<1>2. /\ dumpPolls' \in 0 .. kScanPolls - 1
      /\ dumpPolls + 1 < kScanPolls => dumpPolls' = dumpPolls + 1
  BY <1>1 DEF Poll
<1>3. TypeOK'
  <2>1. UNCHANGED <<folderVars, catalogs, catalog, call, held, index, stop>>
    BY DEF Poll
  <2>2. /\ Len(catalogs) \in Nat /\ freed \subseteq 1 .. Len(catalogs)
        /\ retired \in 0 .. Len(catalogs) /\ catalogs \in Seq([content: Contents, signature: Contents])
        /\ {catalog, held} \subseteq 0 .. Len(catalogs)
    BY BuiltCatalog DEF TypeOK
  <2>3. freed' \subseteq 1 .. Len(catalogs) /\ retired' \in 0 .. Len(catalogs)
    <3>1. {retired} \in SUBSET (0 .. Len(catalogs)) /\ 0 \in 0 .. Len(catalogs)
      BY <2>2
    <3>2. CASE Expired
      BY <3>1, <3>2, <2>2, DeleteBuilt DEF Poll
    <3>3. CASE ~Expired
      BY <3>3, <2>2 DEF Poll
    <3> QED
      BY <3>2, <3>3
  <2>4. retiredPolls' \in 0 .. kRetirePolls
    BY <1>1 DEF Poll, Waits
  <2>5. age' \in 0 .. kCallPolls - 1
    BY <1>1 DEF Poll, CallsAreShort
  <2>6. scan' \in Contents /\ sup' \in {"poll", "build", "freed"}
    BY DEF Poll, TypeOK, scanDumps
  <2>7. {catalog, retired, held}' \subseteq 0 .. Len(catalogs)
    BY <2>1, <2>2, <2>3
  <2> QED
    BY <1>2, <2>1, <2>2, <2>3, <2>4, <2>5, <2>6, <2>7 DEF TypeOK, folderVars
<1>4. Waits'
  BY <1>1, <1>2 DEF Poll, Waits, Expired
<1>5. Held'
  BY <1>1 DEF Poll, Held, Waits, CallsAreShort, Expired
<1>6. Ended' /\ OwnedOnce'
  BY <1>1 DEF Poll, Ended, OwnedOnce, Delete, Expired, TypeOK
<1>7. IndexesItsOwn'
  BY DEF Poll, IndexesItsOwn, SoundCount
<1> QED
  BY <1>3, <1>4, <1>5, <1>6, <1>7

LEMMA BuildInv == ASSUME Inv, Build PROVE Inv'
<1> USE CatalogAssumption DEF Inv, NoCatalog
<1>1. PICK f \in {scan, files} : catalogs' = Append(catalogs, buildCatalog(scan, f))
  BY DEF Build
<1>2. buildCatalog(scan, f) \in [content: Contents, signature: Contents]
  BY DEF TypeOK, buildCatalog
<1>3. /\ catalogs' \in Seq([content: Contents, signature: Contents])
      /\ Len(catalogs') = Len(catalogs) + 1
      /\ Len(catalogs) \in Nat
      /\ \A k \in 1 .. Len(catalogs) : catalogs'[k] = catalogs[k]
  BY <1>1, <1>2, AppendCatalog
<1>4. retired = 0 /\ dumpPolls = 1 /\ freed' = freed
  BY DEF Build, Waits, Delete
<1>5. catalog' = Len(catalogs) + 1 /\ retired' = catalog /\ retiredPolls' = 0 /\ sup' = "poll"
  BY <1>3 DEF Build
<1>6. UNCHANGED <<folderVars, dumpPolls, scan, callVars, stop>>
  BY DEF Build
<1>7. TypeOK'
  BY <1>3, <1>4, <1>5, <1>6 DEF TypeOK, folderVars, callVars
<1>8. Waits' /\ Ended' /\ OwnedOnce'
  <2>1. Waits'
    BY <1>4, <1>5, <1>6 DEF Waits
  <2>2. catalog \in 0 .. Len(catalogs) /\ freed \subseteq 1 .. Len(catalogs)
    BY DEF TypeOK
  <2>3. stop => call = "out"
    BY DEF Ended
  <2>4. Ended'
    BY <1>3, <1>4, <1>5, <1>6, <2>2, <2>3 DEF Ended, callVars
  <2>5. OwnedOnce'
    <3> DEFINE n == Len(catalogs)
    <3>1. n \in Nat /\ Len(catalogs') = n + 1 /\ catalog \in 0 .. n /\ freed \subseteq 1 .. n
      BY <1>3, <2>2
    <3>2. 1 .. n \subseteq freed \cup {catalog, 0} /\ catalog \notin freed
      BY <1>4 DEF OwnedOnce
    <3>3. catalog' = n + 1 /\ retired' = catalog /\ freed' = freed
      BY <1>4, <1>5
    <3> HIDE DEF n
    <3>4. 1 .. n + 1 \subseteq freed \cup {n + 1, catalog}
      BY <3>1, <3>2
    <3>5. n + 1 \notin freed /\ catalog # n + 1
      BY <3>1
    <3> QED
      BY <3>1, <3>2, <3>3, <3>4, <3>5 DEF OwnedOnce
  <2> QED
    BY <2>1, <2>4, <2>5
<1>9. Held'
  BY <1>3, <1>4, <1>5, <1>6 DEF TypeOK, Held, callVars
<1>10. IndexesItsOwn'
  <2>1. held \in 0 .. Len(catalogs)
    BY DEF TypeOK
  <2>2. held # 0 => catalogs'[held] = catalogs[held]
    BY <1>3, <2>1
  <2>3. SoundCount(held)' = SoundCount(held)
    BY <1>6, <2>2 DEF SoundCount, callVars
  <2> QED
    BY <1>6, <2>3 DEF IndexesItsOwn, callVars
<1> QED
  BY <1>7, <1>8, <1>9, <1>10

LEMMA FreeInv == ASSUME Inv, Free PROVE Inv'
<1> USE CatalogAssumption DEF Inv, NoCatalog
<1>1. TypeOK'
  <2>1. /\ Len(catalogs) \in Nat /\ freed \subseteq 1 .. Len(catalogs)
        /\ {catalog, retired, held} \subseteq 0 .. Len(catalogs)
    BY BuiltCatalog DEF TypeOK
  <2>2. /\ freed' \subseteq 1 .. Len(catalogs)
        /\ {catalog', retired', held} \subseteq 0 .. Len(catalogs)
    <3>1. {retired, catalog} \in SUBSET (0 .. Len(catalogs)) /\ 0 \in 0 .. Len(catalogs)
      BY <2>1
    <3>2. Delete({retired, catalog}) /\ catalog' = 0 /\ retired' = 0
      BY DEF Free
    <3> QED
      BY <2>1, <3>1, <3>2, DeleteBuilt
  <2>3. UNCHANGED <<folderVars, catalogs, retiredPolls, dumpPolls, scan, callVars, stop>> /\ sup' = "freed"
    BY DEF Free
  <2> QED
    BY <2>2, <2>3 DEF TypeOK, folderVars, callVars
<1>2. Held' /\ Waits' /\ Ended' /\ OwnedOnce'
  BY DEF Free, TypeOK, Held, Waits, Ended, OwnedOnce, folderVars, callVars, Delete
<1>3. IndexesItsOwn'
  BY DEF Free, IndexesItsOwn, callVars, SoundCount
<1> QED
  BY <1>1, <1>2, <1>3

LEMMA StepInv == Inv /\ [Next]_vars => Inv'
<1> SUFFICES ASSUME Inv, [Next]_vars PROVE Inv'
  OBVIOUS
<1>1. CASE UNCHANGED vars
  BY <1>1 DEF vars, folderVars, heapVars, pollVars, callVars, Inv, TypeOK, Held, Waits, Ended,
     IndexesItsOwn, OwnedOnce, SoundCount
<1> QED
  BY <1>1, CallsInv, PollInv, BuildInv, FreeInv DEF Next, Supervisor

LEMMA Invariance == Spec => []Inv
BY InitInv, StepInv, PTL DEF Spec

\* Every variable of the catalog keeps its type; deleted catalogs were built.
THEOREM CatalogTypeCorrect == Spec => []TypeOK
<1>1. Inv => TypeOK
  BY DEF Inv
<1> QED
  BY <1>1, Invariance, PTL

\* presetName, presetCount, loadPreset: whenever the supervisor swaps the catalog and deletes the old one, no
\* call reads a deleted one, as long as a call sees fewer polls than the deletion waits.
THEOREM NeverUsedAfterFree == Spec => []NoUseAfterFree
<1>1. Inv => NoUseAfterFree
  BY DEF Inv, NoUseAfterFree, Held, OwnedOnce, TypeOK, NoCatalog
<1> QED
  BY <1>1, Invariance, PTL

\* The preset a call copies is one of the catalog whose count it checked.
THEOREM OwnCountIndexes == Spec => []IndexesItsOwn
<1>1. Inv => IndexesItsOwn
  BY DEF Inv
<1> QED
  BY <1>1, Invariance, PTL

\* Each catalog is current, about to be deleted, or deleted, and only one of these, through any number of
\* swaps and whenever the instance is destroyed: none is lost and none is deleted twice.
THEOREM CatalogsOwnedOnce == Spec => []OwnedOnce
<1>1. Inv => OwnedOnce
  BY DEF Inv
<1> QED
  BY <1>1, Invariance, PTL
=============================================================================
