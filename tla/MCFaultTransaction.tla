-------------------------- MODULE MCFaultTransaction --------------------------
(* Small instances of FaultTransaction for TLC.                            *)
EXTENDS FaultTransaction

CONSTANTS db, cpu, mem, proxy

\* The healthy control, one scenario of each mechanism, those of a stop and a CPU
\* helper as the registered pair in the order schedule_v3.py lists it.
ScenariosAll == {<<>>, <<mem>>, <<proxy>>, <<db, cpu>>}
ScenariosStop == {<<db>>}
=============================================================================
