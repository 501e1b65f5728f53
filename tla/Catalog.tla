------------------------------ MODULE Catalog ------------------------------
(***************************************************************************)
(* The preset catalog: the supervisor rebuilds it from the user's dumps    *)
(* and swaps an atomic pointer; the callback's calls read it with no lock, *)
(* and a replaced catalog is deleted some polls later.                     *)
(*                                                                         *)
(* Files are abstracted to what the dump folders hold as a whole, and a    *)
(* catalog to the number of sounds in it.  scanDumps' signature is taken   *)
(* to tell any two folder contents apart.                                  *)
(***************************************************************************)
EXTENDS Naturals, Sequences

CONSTANTS
    kMachineCount,  \* the Init presets, which need no catalog
    Contents,       \* what the dump folders can hold
    NoFiles,        \* one of them: no dump at all
    SoundsIn,       \* how many sounds each gives
    kRetirePolls,   \* polls before a replaced catalog is deleted: 10
    kScanPolls,     \* polls between two looks at the folders: 30
    kCallPolls,     \* polls that one call of the host may see go by: fewer than these
    Reverts,        \* the folders may come to hold again what they once held
    MaxChanges      \* bound on the changes of the folders

ASSUME CatalogAssumption ==
    /\ NoFiles \in Contents /\ SoundsIn \in [Contents -> Nat]
    /\ kMachineCount \in Nat /\ MaxChanges \in Nat /\ Reverts \in BOOLEAN
    /\ kCallPolls \in Nat \ {0} /\ kRetirePolls \in Nat /\ kScanPolls \in Nat
    /\ kCallPolls <= kRetirePolls /\ kRetirePolls < kScanPolls

VARIABLES
    files,        \* what the dump folders hold
    changes,      \* how often they changed
    seen,         \* what they have held
    catalogs,     \* every catalog ever built
    freed,        \* those deleted, by their number
    catalog,      \* Instance::catalog
    retired, retiredPolls, dumpPolls,
    scan,         \* the signature refreshPresets is building for
    sup,          \* "poll", "build" or "freed"
    call,         \* the callback's thread: "out", "in" a call, at a "sound"
    held, index,  \* the call's catalog and the preset asked for
    age,          \* polls since the call began
    stop          \* Instance::stop

folderVars == <<files, changes, seen>>
heapVars == <<catalogs, freed, catalog>>
pollVars == <<retired, retiredPolls, dumpPolls, scan, sup>>
callVars == <<call, held, index, age>>
vars == <<folderVars, heapVars, pollVars, callVars, stop>>

NoCatalog == 0
SoundCount(c) == IF c = NoCatalog THEN 0 ELSE SoundsIn[catalogs[c].content]
presetCount(c) == kMachineCount + SoundCount(c)

\* Mutant of Delete: the memory is leaked.
Leak(S) == UNCHANGED freed
Delete(S) == freed' = freed \cup (S \ {NoCatalog})

-----------------------------------------------------------------------------
(* The user and the callback's thread.                                     *)

ChangeFiles(f) ==
    /\ changes < MaxChanges /\ f # files
    /\ Reverts \/ f \notin seen
    /\ files' = f /\ changes' = changes + 1 /\ seen' = seen \cup {f}
    /\ UNCHANGED <<heapVars, pollVars, callVars, stop>>

\* presetName, loadPreset, presetCount: the pointer is loaded once ...
Enter(i) ==
    /\ call = "out" /\ ~stop
    /\ call' = "in" /\ held' = catalog /\ index' = i /\ age' = 0
    /\ UNCHANGED <<folderVars, heapVars, pollVars, stop>>

\* Mutant of CheckIndex: the count is that of the catalog of the moment.
CheckIndexAgain ==
    /\ call = "in"
    /\ call' = IF kMachineCount <= index /\ index < presetCount(catalog) THEN "sound" ELSE "out"
    /\ UNCHANGED <<folderVars, heapVars, pollVars, held, index, age, stop>>

\* ... and its count checked; an Init preset needs no more of it.
CheckIndex ==
    /\ call = "in"
    /\ call' = IF kMachineCount <= index /\ index < presetCount(held) THEN "sound" ELSE "out"
    /\ UNCHANGED <<folderVars, heapVars, pollVars, held, index, age, stop>>

\* The name or the sound is copied out of the catalog, and the call returns.
CopySound ==
    /\ call = "sound"
    /\ call' = "out"
    /\ UNCHANGED <<folderVars, heapVars, pollVars, held, index, age, stop>>

\* destroyInstance, on the same thread.
Destroy ==
    /\ call = "out" /\ ~stop
    /\ stop' = TRUE
    /\ UNCHANGED <<folderVars, heapVars, pollVars, callVars>>

-----------------------------------------------------------------------------
(* refreshPresets, at each poll of the supervisor.                         *)

\* The host's calls take microseconds: none sees a second of polls go by.
CallsAreShort == call = "out" \/ age + 1 < kCallPolls

\* Mutant of Expired: a replaced catalog is deleted at the next poll.
ExpiredAtOnce == retired # NoCatalog

Expired == retired # NoCatalog /\ retiredPolls + 1 >= kRetirePolls
scanDumps == files
Stale == catalog = NoCatalog \/ catalogs[catalog].signature # scanDumps
WorthBuilding == catalog # NoCatalog \/ files # NoFiles

\* Every sound of the files f, under the signature sig.
buildCatalog(sig, f) == [content |-> f, signature |-> sig]

\* A catalog replaced ~1 s ago is deleted; every ~3 s the folders are compared with the catalog.
Poll ==
    /\ sup = "poll" /\ ~stop /\ CallsAreShort
    /\ age' = IF call = "out" THEN age ELSE age + 1
    /\ retiredPolls' = IF retired = NoCatalog THEN retiredPolls ELSE retiredPolls + 1
    /\ IF Expired THEN Delete({retired}) /\ retired' = NoCatalog ELSE UNCHANGED <<freed, retired>>
    /\ dumpPolls' = (dumpPolls + 1) % kScanPolls
    /\ IF dumpPolls = 0 /\ Stale /\ WorthBuilding
       THEN scan' = scanDumps /\ sup' = "build"
       ELSE UNCHANGED <<scan, sup>>
    /\ UNCHANGED <<folderVars, catalogs, catalog, call, held, index, stop>>

\* Mutant of Build: the signature is taken after the files were read.
BuildSignsLate ==
    /\ sup = "build"
    /\ \E f \in {scan, files} : catalogs' = Append(catalogs, buildCatalog(scanDumps, f))
    /\ Delete({retired})
    /\ catalog' = Len(catalogs') /\ retired' = catalog /\ retiredPolls' = 0
    /\ sup' = "poll"
    /\ UNCHANGED <<folderVars, dumpPolls, scan, callVars, stop>>

\* buildCatalog reads files that may have changed since they were scanned.  The new catalog carries
\* the scan's signature.
Build ==
    /\ sup = "build"
    /\ \E f \in {scan, files} : catalogs' = Append(catalogs, buildCatalog(scan, f))
    /\ Delete({retired})
    /\ catalog' = Len(catalogs') /\ retired' = catalog /\ retiredPolls' = 0
    /\ sup' = "poll"
    /\ UNCHANGED <<folderVars, dumpPolls, scan, callVars, stop>>

\* supervise's end and freeWhenStopped.
Free ==
    /\ sup = "poll" /\ stop
    /\ Delete({retired, catalog})
    /\ catalog' = NoCatalog /\ retired' = NoCatalog
    /\ sup' = "freed"
    /\ UNCHANGED <<folderVars, catalogs, retiredPolls, dumpPolls, scan, callVars, stop>>

-----------------------------------------------------------------------------
Init ==
    /\ files \in Contents /\ changes = 0 /\ seen = {files}
    /\ catalogs = <<>> /\ freed = {} /\ catalog = NoCatalog
    /\ retired = NoCatalog /\ retiredPolls = 0 /\ dumpPolls = 0
    /\ scan = NoFiles /\ sup = "poll"
    /\ call = "out" /\ held = NoCatalog /\ index = 0 /\ age = 0
    /\ stop = FALSE

\* The presets the host asks for: an Init one, and every sound a catalog may have.
Asked == 0 .. kMachineCount + 3

Calls == CheckIndex \/ CopySound
Supervisor == Poll \/ Build \/ Free
Next ==
    \/ \E f \in Contents : ChangeFiles(f)
    \/ \E i \in Asked : Enter(i)
    \/ Calls \/ Destroy \/ Supervisor

Spec == Init /\ [][Next]_vars

\* A call of the host returns; the supervisor goes on polling, which it does while it watches a child.
FairSpec == Spec /\ WF_vars(Calls) /\ WF_vars(Supervisor)

-----------------------------------------------------------------------------
TypeOK ==
    /\ files \in Contents /\ changes \in 0 .. MaxChanges /\ seen \subseteq Contents
    /\ catalogs \in Seq([content: Contents, signature: Contents])
    /\ freed \subseteq 1 .. Len(catalogs)
    /\ {catalog, retired, held} \subseteq 0 .. Len(catalogs)
    /\ retiredPolls \in 0 .. kRetirePolls /\ dumpPolls \in 0 .. kScanPolls - 1
    /\ scan \in Contents /\ sup \in {"poll", "build", "freed"}
    /\ call \in {"out", "in", "sound"} /\ index \in Nat /\ age \in 0 .. kCallPolls - 1
    /\ stop \in BOOLEAN

\* "A replaced catalog is freed a second later, long after any get_param reading it returned": a call
\* never reads a catalog that was deleted, whenever the supervisor swaps it.
NoUseAfterFree == call # "out" => held \notin freed

\* "A count from one catalog must never index another": the sound a call copies is one of the catalog
\* it holds, although a shorter list may have been swapped in since.
IndexesItsOwn == call = "sound" => held # NoCatalog /\ index - kMachineCount < SoundCount(held)

\* Three places delete catalogs: the poll a second after a swap, the next swap, and the end of the instance.
\* Every catalog is the current one, the one on its way out, or deleted, and one of these only: none is
\* leaked, and what a place deletes was not deleted before.
OwnedOnce ==
    /\ 1 .. Len(catalogs) \subseteq freed \cup {catalog, retired}
    /\ catalog \notin freed /\ retired \notin freed
    /\ catalog # NoCatalog => catalog # retired

\* A folder that changes while it is read is read again: the presets come to be what the folders hold.
Content(c) == IF c = NoCatalog THEN NoFiles ELSE catalogs[c].content
ShowsTheFiles == <>[](stop \/ Content(catalog) = files)
=============================================================================
