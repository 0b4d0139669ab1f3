--------------------------- MODULE LibraryProcess ---------------------------
(***************************************************************************)
(* A process that works on the library database.  Every handler or command *)
(* is an execution of LibraryDb; a step of the process runs one to its end *)
(* or is killed in the middle of it, which leaves what was committed by    *)
(* then.                                                                   *)
(***************************************************************************)
EXTENDS LibraryDb

CONSTANT
    Kills       \* bound: handlers or commands that are cut short in a behaviour

VARIABLES
    lib,        \* the library on disk
    ops,        \* how many more handlers or commands run
    kills       \* how many more times the process may be killed

processVars == <<lib, ops, kills>>

Torn == kills < Kills

\* The statements of x one after the other; a handler that changes nothing is no step.
Run(x) ==
    /\ ops > 0 /\ Len(x.trace) > 1
    /\ ops' = ops - 1
    /\ lib' = At(x) /\ UNCHANGED kills

\* The process dies after some of the statements of x.
RunKilled(x) ==
    /\ ops > 0 /\ kills > 0
    /\ ops' = ops - 1 /\ kills' = kills - 1
    /\ \E k \in 2 .. Len(x.trace) - 1 : lib' = x.trace[k]

Runs(x) == Run(x) \/ RunKilled(x)
=============================================================================
