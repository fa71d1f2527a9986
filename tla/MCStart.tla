------------------------------- MODULE MCStart ------------------------------
(***************************************************************************)
(* The test containers for TLC.  A container starts; or modules are        *)
(* installed: the loop of the container installs two, or one call of the   *)
(* module manager installs, upgrades or uninstalls one; or workers share   *)
(* the snapshot files.  A behaviour is one of the three, and the others    *)
(* stay where they begin.                                                  *)
(***************************************************************************)
EXTENDS Start, SnapshotCache

CONSTANTS sale, stock, s1, s2

VARIABLE shared   \* whether it is one of workers that share the snapshot files

MCModules == {sale, stock}

CallsOfOne ==
  {[op |-> op, modules |-> <<sale>>, container |-> FALSE] :
     op \in {"install", "upgrade", "uninstall"}}

CallsOfTheLoop == {[op |-> "install", modules |-> <<sale, stock>>, container |-> TRUE]}

MCJobs == CallsOfOne \cup CallsOfTheLoop

-----------------------------------------------------------------------------

allVars == <<shared, bothVars, snapshotVars>>

AllInit ==
  /\ shared \in BOOLEAN
  /\ BothInit /\ SnapshotInit
  /\ shared => <<part, mode, state, job>> =
                 <<"start", CHOOSE m \in Modes : TRUE, {}, CHOOSE j \in Jobs : TRUE>>
  /\ ~shared => source = s1

Alone(A) == ~shared /\ A /\ UNCHANGED <<shared, snapshotVars>>

AllNext ==
  \/ Alone(BothNext)
  \/ shared /\ SnapshotNext /\ UNCHANGED <<shared, bothVars>>

AllSpec ==
  /\ AllInit /\ [][AllNext]_allVars
  /\ WF_allVars(Alone(Starting(Calls))) /\ WF_allVars(Alone(Starting(Code)))
=============================================================================
