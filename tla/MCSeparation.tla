--------------------------- MODULE MCSeparation ---------------------------
(***************************************************************************)
(* Instances of Separation for TLC.                                        *)
(***************************************************************************)
EXTENDS Separation

Task(useCL, cleanup, hardKill, mayFail) ==
    [useCL |-> useCL, cleanup |-> cleanup, hardKill |-> hardKill, mayFail |-> mayFail]

\* On the CPU and on the device, with every combination of disturbances.
AllTasks == {Task(d, c, h, f) : d \in BOOLEAN, c \in BOOLEAN, h \in BOOLEAN, f \in BOOLEAN}
=============================================================================
