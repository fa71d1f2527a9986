------------------------------- MODULE Start --------------------------------
(***************************************************************************)
(* The start of a container, and the installation of modules, by the loop  *)
(* of the container or by calls of the module manager.  A behaviour is one *)
(* of either, chosen at the start, while the other stays where it begins.  *)
(***************************************************************************)
EXTENDS ContainerStart

CONSTANTS
  Modules, Jobs, MaxAttempts  \* of ModuleInstall

VARIABLES part, state, job, rest, installPc, attempt, second, late, answer

installVars == <<state, job, rest, installPc, attempt, second, late, answer>>

Install == INSTANCE ModuleInstall WITH pc <- installPc

ASSUME CallsAssumption == Install!JobsAssumption

BothInit == part \in {"start", "install"} /\ Init /\ Install!Init

Starting(A)   == part = "start" /\ A /\ UNCHANGED <<part, installVars>>
Installing(A) == part = "install" /\ A /\ UNCHANGED <<part, vars>>

BothNext == Starting(Next) \/ Installing(Install!Next)

bothVars == <<vars, part, installVars>>

BothSpec ==
  /\ BothInit /\ [][BothNext]_bothVars
  /\ WF_bothVars(Starting(Calls)) /\ WF_bothVars(Starting(Code))

-----------------------------------------------------------------------------

\* Modules are in the state asked for when the loop or the call of the module
\* manager returns (module_manager.py, container.py).
DoneIsDone == Install!DoneIsDone
=============================================================================
