---------------------------- MODULE ServedPages ----------------------------
(***************************************************************************)
(* The pages the host shows: the plugin serves them filled with the        *)
(* current machine's names, and the host reads them again only when it     *)
(* has seen is_loading fall, which the plugin raises for a while after a   *)
(* change.  ParamTable gives the changes.                                  *)
(*                                                                         *)
(* Time passes in ticks; loadingUntilMs is kept as the time that is left.  *)
(* The host's grid is external: it polls is_loading at least every Poll    *)
(* and, once it falls, reads the two texts, with calls of others between.  *)
(***************************************************************************)
EXTENDS ParamTable

CONSTANTS
    Compat,    \* MNM_UI_COMPAT: the LFO pages are served too
    Hold,      \* armReplan's 350 ms
    Poll       \* the longest the host waits between polls: 133 ms

ASSUME PagesAssumption ==
    /\ Compat \in BOOLEAN
    /\ Hold \in Nat /\ Poll \in Nat \ {0} /\ Poll < Hold

VARIABLES
    loading,   \* loadingUntilMs - nowMs(), not below 0
    polled,    \* the host's last answer to is_loading
    waited,    \* the time since it asked
    reading,   \* what the host reads next: "no", "hierarchy" or "params"
    shown,     \* the texts it shows
    settled    \* history: the time since the pages changed or the pulse was armed, up to Quiet

hostVars == <<polled, waited, reading, shown>>
pageVars == <<vars, loading, hostVars, settled>>

Quiet == Hold + Poll + 1

\* expandInto: what the placeholders of each text are filled with.
Hierarchy == [machine |-> machine, lfo |-> IF Compat THEN lfo ELSE Default]
ChainParams == machine
Served == [hierarchy |-> Hierarchy, params |-> ChainParams]

-----------------------------------------------------------------------------
(* The entry points that change what is served.                            *)

\* Mutant of ArmReplan: the pulse is no longer than the host's wait.
ArmReplanShort == loading' = Poll - 1
ArmReplan == loading' = Hold

Changes ==
    /\ settled' = IF Served' # Served \/ loading' > loading THEN 0 ELSE settled
    /\ UNCHANGED hostVars

PickMachine == \E m \in Machines : SwitchMachine(m) /\ ArmReplan /\ Changes

LoadASound == \E x \in Patches : (LoadPreset(x) \/ RestoreState(x)) /\ ArmReplan /\ Changes

\* In compat an LFO's PAGE changes its DEST list.
TurnLfo == \E v \in Values : SetLfo(v) /\ (IF Compat THEN ArmReplan ELSE UNCHANGED loading) /\ Changes

TurnKnob ==
    /\ \/ \E m \in Machines, k \in Knobs, v \in Values : SetSyn(m, k, v)
       \/ \E m \in Machines : GetSyn(m)
       \/ \E v \in Values : SetPage(v)
    /\ UNCHANGED loading /\ Changes

Return == Sent /\ UNCHANGED <<loading, hostVars, settled>>

-----------------------------------------------------------------------------
(* The host.                                                               *)

Between == todo = <<>> /\ UNCHANGED <<vars, loading, settled>>

\* get_param "is_loading".
IsLoading == loading > 0

PollLoading ==
    /\ Between /\ reading = "no" /\ waited > 0
    /\ polled' = IsLoading /\ waited' = 0
    /\ reading' = IF polled /\ ~polled' THEN "hierarchy" ELSE "no"
    /\ UNCHANGED shown

\* get_param "ui_hierarchy", then "chain_params".
ReadHierarchy ==
    /\ Between /\ reading = "hierarchy"
    /\ shown' = [shown EXCEPT !.hierarchy = Hierarchy] /\ reading' = "params"
    /\ UNCHANGED <<polled, waited>>
ReadParams ==
    /\ Between /\ reading = "params"
    /\ shown' = [shown EXCEPT !.params = ChainParams] /\ reading' = "no"
    /\ UNCHANGED <<polled, waited>>

Tick ==
    /\ todo = <<>> /\ reading = "no" /\ waited < Poll
    /\ waited' = waited + 1
    /\ loading' = IF loading > 0 THEN loading - 1 ELSE 0
    /\ settled' = IF settled < Quiet THEN settled + 1 ELSE Quiet
    /\ UNCHANGED <<vars, polled, reading, shown>>

PagesInit ==
    /\ TableInit
    /\ loading = 0 /\ polled = FALSE /\ waited = 0 /\ reading = "no"
    /\ shown = Served /\ settled = Quiet

PagesNext ==
    \/ PickMachine \/ LoadASound \/ TurnLfo \/ TurnKnob \/ Return
    \/ PollLoading \/ ReadHierarchy \/ ReadParams \/ Tick

PagesSpec == PagesInit /\ [][PagesNext]_pageVars

-----------------------------------------------------------------------------
\* armReplan: "hold 1 for 350 ms after any change".  Once nothing has changed for the hold and one poll,
\* the host shows both texts as they are served, however the changes, the polls and the two reads
\* fell: a pulse is never too short to be seen, and a change in the middle of a read brings another one.
ShownInTime == settled = Quiet => shown = Served
=============================================================================
