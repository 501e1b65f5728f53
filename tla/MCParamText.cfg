SPECIFICATION Spec
CONSTANTS
    MachineList <- MCMachineList
    Label <- MCLabel
    SynLabels <- MCSynLabels
    Defs <- MCDefs
    PageCount = 2
    LfoCount = 1
    FirstMachine = "FM"
    FirstTable <- MCFirstTable
    Inputs <- MCInputs
    Presets = {127}
INVARIANTS ShownSticks StateRestores
PROPERTY CutSpoilsOneNumber
