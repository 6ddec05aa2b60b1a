------------------------------- MODULE MCCell -------------------------------
(* Cell for TLC: the values of its constants.                              *)
EXTENDS Cell, TLC
CONSTANTS c1, c2
Both == {c1, c2}
One == {c1}
Symmetry == Permutations({c1, c2})

\* Host commands: how many of each kind.
Times(n, cmds) == [cmd \in AllHostCmds |-> IF cmd \in cmds THEN n ELSE 0]
OneStart == Times(1, {"EXEC_PROCESS"})
TwoStarts == Times(2, {"EXEC_PROCESS"})
StartStopPause == Times(1, {"EXEC_PROCESS", "EXEC_STOP", "EXEC_PAUSE"})
StartStopResume == Times(1, {"EXEC_PROCESS", "EXEC_STOP", "EXEC_RESUME"})
Mixed == Times(1, {"EXEC_PROCESS", "EXEC_JUMP", "SET_STEP", "CLEAR_WARNING", "BARCODE"})

\* Pin bed states.
P(door, down) == [fire_door_open |-> door, pressed |-> down]
OpenDoor == {P(TRUE, FALSE)}
\* One report makes both waits go either way: the door counts as shut until it comes.
BothSignals == {P(TRUE, TRUE)}
=============================================================================
