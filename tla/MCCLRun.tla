------------------------------- MODULE MCCLRun -------------------------------
(* Model-checking instances of CLRun.                                       *)
EXTENDS CLRun

Every == [lmc : BOOLEAN, allowIncest : BOOLEAN, checkpoints : {"all", "final", "none"}]
Plain == [lmc : {FALSE}, allowIncest : {FALSE}, checkpoints : {"all"}]

=============================================================================
