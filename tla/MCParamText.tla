----------------------------- MODULE MCParamText -----------------------------
EXTENDS ParamText

\* Two machines: one with a blank knob, one that has a label of the other on another knob.
MCMachineList == <<"FM", "SID">>
MCLabel == [m \in {"FM", "SID"} |-> Word(m)]
MCSynLabels ==
    [m \in {"FM", "SID"} |-> [i \in 0 .. 7 |->
        IF i = 0 THEN Blank
        ELSE Word(IF m = "FM" THEN <<"ENV", "MOD", "TUNE", "D", "E", "F", "G">>[i]
                              ELSE <<"TUNE", "WAVE", "PW", "MOD", "V", "W", "X">>[i])]]

\* An FM ratio list, whose names are fractions and numerals.
Ratios == <<Numeral(1), Numeral(2), [digits |-> TRUE, num |-> 1, rest |-> "/2"], Numeral(4), Word("-")>>
MCDefs == <<
    [kind |-> "bipolar"],
    [kind |-> "list", count |-> 5, names |-> [i \in 0 .. 4 |-> Ratios[i + 1]]],
    [kind |-> "dest"]>>
MCFirstTable == <<64, 12, 71>>
MCInputs == {Numeral(1), Word("TUNE"), Word("FM")}
=============================================================================
