--------------------------- MODULE ModuleInstall ---------------------------
(***************************************************************************)
(* ModuleManager (services/modules/module_manager.py) and the loop of      *)
(* OdooTestContainer.start that installs modules with it.  Pressing a      *)
(* module's button may fail with an ir_cron lock, be refused, or break off *)
(* while the server, which restarts, still finishes the job; the container *)
(* then waits, logs in again and installs once more.                       *)
(***************************************************************************)
EXTENDS Naturals, Sequences

CONSTANTS
  Modules,
  Jobs,         \* what may be called: operation, modules in order, whether by
                \* the container's loop
  MaxAttempts   \* _MAX_RETRIES

VARIABLES
  state,     \* ir.module.module: the modules installed
  job, rest, \* what was called, and the modules still to do, the current one first
  pc,        \* the await, or how the call ended
  attempt,   \* of pressing the button
  second,    \* the container is in its second install_module
  late,      \* presses the server may still carry out after the caller gave up
  answer     \* how the press ended

vars == <<state, job, rest, pc, attempt, second, late, answer>>

Over == {"done", "raised"}

Current == Head(rest)

Init ==
  /\ state \in SUBSET Modules
  /\ job \in Jobs
  /\ rest = job.modules
  /\ pc = IF job.container THEN "check" ELSE "find"
  /\ attempt = 0
  /\ second = FALSE
  /\ late = {}
  /\ answer = "none"

-----------------------------------------------------------------------------

\* The current module is done: the next one, if any.
NextModule ==
  /\ rest' = Tail(rest)
  /\ pc' = IF Tail(rest) = <<>> THEN "done" ELSE "check"
  /\ second' = FALSE

\* An exception leaves install_module.  The container catches a broken or
\* timed-out request of its first try, not of the second.
Leave(broken) ==
  /\ pc' = IF broken /\ job.container /\ ~second THEN "wait ready" ELSE "raised"
  /\ UNCHANGED <<rest, second>>

\* is_module_installed, which nothing catches.
Check ==
  /\ pc = "check"
  /\ \/ Current \in state /\ NextModule
     \/ Current \notin state /\ pc' = "find" /\ UNCHANGED <<rest, second>>
     \/ pc' = "raised" /\ UNCHANGED <<rest, second>>
  /\ UNCHANGED <<state, job, attempt, late, answer>>

Press ==
  /\ pc' = "press"
  /\ attempt' = attempt + 1
  /\ answer' = "none"

\* _find_module, and what install, upgrade and uninstall make of its state.
Find ==
  /\ pc = "find"
  /\ \/ /\ job.op = "install" /\ Current \in state
        /\ NextModule
        /\ UNCHANGED <<attempt, answer>>
     \/ /\ job.op = "upgrade" /\ Current \notin state
        /\ Leave(FALSE)
        /\ UNCHANGED <<attempt, answer>>
     \/ /\ job.op = "install" => Current \notin state
        /\ job.op = "upgrade" => Current \in state
        /\ Press
        /\ UNCHANGED <<rest, second>>
     \/ /\ \E broken \in BOOLEAN : Leave(broken)
        /\ UNCHANGED <<attempt, answer>>
  /\ UNCHANGED <<state, job, late>>

\* What the button does, in one transaction.
Applied(m) == IF job.op = "uninstall" THEN state \ {m} ELSE state \cup {m}

\* The server commits, or rolls back: for a lock on ir_cron that the message
\* tells or only the debug text does, or for another reason.
ServerAnswers ==
  /\ pc = "press" /\ answer = "none"
  /\ \/ answer' = "ok" /\ state' = Applied(Current)
     \/ answer' \in {"ir_cron", "ir_cron in debug", "refused"} /\ UNCHANGED state
  /\ UNCHANGED <<job, rest, pc, attempt, second, late>>

\* The connection drops or the request times out, the server going on or not.
Breaks ==
  /\ pc = "press" /\ answer = "none"
  /\ answer' = "broken"
  /\ late' \in {late, late \cup {Current}}
  /\ UNCHANGED <<state, job, rest, pc, attempt, second>>

LateCommit(m) ==
  /\ m \in late
  /\ state' \in {state, Applied(m)}
  /\ late' = late \ {m}
  /\ UNCHANGED <<job, rest, pc, attempt, second, answer>>

\* _is_ir_cron_error: str(exc) is the human message; the debug text is looked
\* for in exc.data, an attribute OdooRpcError no longer has.
Retries == answer = "ir_cron" /\ attempt < MaxAttempts

\* Mutant: the error of the last attempt is swallowed.
PressEndsQuietly ==
  IF answer \in {"ok", "ir_cron"} THEN pc' = "fetch" /\ UNCHANGED <<rest, second>>
                                  ELSE Leave(answer = "broken")

\* The last attempt is over.
PressEnds ==
  IF answer = "ok" THEN pc' = "fetch" /\ UNCHANGED <<rest, second>>
                   ELSE Leave(answer = "broken")

\* _call_with_ir_cron_retry
Pressed ==
  /\ pc = "press" /\ answer # "none"
  /\ IF Retries
     THEN Press /\ UNCHANGED <<rest, second>>
     ELSE PressEnds /\ attempt' = 0 /\ UNCHANGED answer
  /\ UNCHANGED <<state, job, late>>

\* _fetch_module_info
Fetch ==
  /\ pc = "fetch"
  /\ NextModule \/ \E broken \in BOOLEAN : Leave(broken)
  /\ UNCHANGED <<state, job, attempt, late, answer>>

\* The container: _wait_for_odoo_ready and authenticate, which may fail, then
\* install_module again, with no other check.
Again ==
  /\ pc = "wait ready"
  /\ second' = TRUE
  /\ pc' \in {"find", "raised"}
  /\ UNCHANGED <<state, job, rest, attempt, late, answer>>

Code == Check \/ Find \/ Pressed \/ Fetch \/ Again

Next == Code \/ ServerAnswers \/ Breaks \/ \E m \in Modules : LateCommit(m)

Spec == Init /\ [][Next]_vars

-----------------------------------------------------------------------------

TypeOK ==
  /\ state \in SUBSET Modules /\ late \in SUBSET Modules
  /\ pc \in {"check", "find", "press", "fetch", "wait ready"} \cup Over
  /\ attempt \in 0..MaxAttempts
  /\ second \in BOOLEAN
  /\ answer \in {"none", "ok", "ir_cron", "ir_cron in debug", "refused", "broken"}

\* A module is in the state asked for.
Reached(m) == IF job.op = "uninstall" THEN m \notin state ELSE m \in state

\* A container that has got through its modules has all of them installed, and
\* an operation of the manager that returns has reached its state
\* (modules.md:16), whatever was locked, broken off, late and repeated.
DoneIsDone == pc = "done" => \A i \in DOMAIN job.modules : Reached(job.modules[i])

\* What the manager and the container's loop are called with; there is an attempt.
JobsAssumption ==
  /\ MaxAttempts \in Nat \ {0}
  /\ \A j \in Jobs :
       /\ j.op \in {"install", "upgrade", "uninstall"}
       /\ j.modules \in Seq(Modules) \ {<<>>}
       /\ j.container \in BOOLEAN /\ (j.container => j.op = "install")
       /\ ~j.container => Len(j.modules) = 1

\* Every module is in the state asked for or still to come.
NoneLost ==
  \A i \in DOMAIN job.modules :
    Reached(job.modules[i]) \/ \E k \in DOMAIN rest : rest[k] = job.modules[i]

\* The current module is in the state asked for once its press has succeeded.
PressCounts == pc = "fetch" \/ (pc = "press" /\ answer = "ok") => Reached(Current)

Control ==
  /\ job \in Jobs /\ rest \in Seq(Modules)
  /\ pc \notin Over => rest # <<>>
  /\ pc = "done" => rest = <<>>
  /\ ~job.container => Len(rest) <= 1
  /\ pc = "check" => job.container
  /\ pc # "press" => attempt = 0

IInv == TypeOK /\ Control /\ NoneLost /\ PressCounts
=============================================================================
