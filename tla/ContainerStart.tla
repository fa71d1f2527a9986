--------------------------- MODULE ContainerStart ---------------------------
(***************************************************************************)
(* TestHarness and OdooTestContainer (harness.py, container.py of          *)
(* godoo-testcontainers): a coroutine brings up a network, a database and  *)
(* an Odoo container one after the other, talks to the server, and takes   *)
(* everything down again, when it fails or when the harness is left.       *)
(*                                                                         *)
(* Docker is driven by blocking calls in threads (asyncio.to_thread).  A   *)
(* cancellation ends the await at once but not the thread, which goes on   *)
(* by itself: an orphan.                                                   *)
(***************************************************************************)
EXTENDS Naturals, Sequences, SequencesExt

CONSTANTS
  MaxCancels,    \* bound on cancellations of the task
  MaxStopErrors  \* bound on stops and removals the daemon refuses

ASSUME StartAssumption == MaxCancels \in Nat /\ MaxStopErrors \in Nat

\* How the database is provided: from a seed image, from a snapshot that is
\* there, or cold, with or without saving a snapshot.
Modes == {"seed", "hit", "miss", "plain"}

\* The awaits of start() and __aenter__ in order.
Stages ==
  <<"create network", "make config", "start pg", "prepare db", "start odoo", "wait ready",
    "authenticate", "install", "save snapshot", "seed properties">>

\* The detour after an installation was interrupted by a restart.
Retry == {"wait again", "authenticate again", "install again"}

\* Mutant: the database is stopped before Odoo.
TeardownSwapped == <<"close client", "stop pg", "stop odoo", "remove network">>

\* The awaits of the except branch and of cleanup().
Teardown == <<"close client", "stop odoo", "stop pg", "remove network">>

\* The awaits that are calls in threads.
Threaded == {"create network", "make config", "start pg", "prepare db", "start odoo",
             "fetch logs", "save snapshot", "stop odoo", "stop pg", "remove network"}

Resources == {"network", "pg", "odoo"}

\* The resource a call brings up, or takes down.
Brings(s) == CASE s = "create network" -> {"network"} [] s = "start pg" -> {"pg"}
               [] s = "start odoo" -> {"odoo"} [] OTHER -> {}
Takes(s)  == CASE s = "remove network" -> {"network"} [] s = "stop pg" -> {"pg"}
               [] s = "stop odoo" -> {"odoo"} [] OTHER -> {}

VARIABLES
  mode,
  pc,          \* the await the coroutine is at, or how it ended
  call,        \* the call it awaits: running, ok or failed
  owned,       \* network, pg and odoo, as far as they are assigned
  client,      \* whether an OdooClient was made
  orphans,     \* calls that go on in threads nobody awaits any more
  docker,      \* daemon: what is up
  leaving,     \* whether teardown ends a failure or a completed harness
  cancels,
  stopErrors,
  excused      \* a cancellation hit a running thread, the creation of the
               \* network or the teardown, or the daemon refused a stop

vars == <<mode, pc, call, owned, client, orphans, docker, leaving, cancels, stopErrors, excused>>

Ended == {"entered", "raised", "closed"}

Init ==
  /\ mode \in Modes
  /\ pc = "create network"
  /\ call = "running"
  /\ owned = {"network"}
  /\ client = FALSE
  /\ orphans = {}
  /\ docker = {}
  /\ leaving = "none"
  /\ cancels = 0 /\ stopErrors = 0
  /\ excused = FALSE

-----------------------------------------------------------------------------
(***************************************************************************)
(* The calls, in threads and on the wire.                                  *)
(***************************************************************************)

\* Containers hold on to their network.
Removable(s) == Takes(s) \cap docker # {} /\ (s = "remove network" => docker = {"network"})

\* What a call does when it succeeds.  Stopping a container that is not up
\* yet does nothing.
Effect(s) ==
  docker' = (docker \cup Brings(s)) \ (IF Removable(s) THEN Takes(s) ELSE {})

\* The awaited call succeeds.
CallSucceeds ==
  /\ pc \notin Ended /\ call = "running"
  /\ Effect(pc)
  /\ call' = "ok"
  /\ UNCHANGED <<mode, pc, owned, client, orphans, leaving, cancels, stopErrors, excused>>

\* The awaited call raises: a start with or without having created what it
\* was to start, a stop or a removal the daemon refuses, a failed request.
CallFails ==
  /\ pc \notin Ended /\ call = "running"
  /\ IF Takes(pc) = {}
     THEN /\ docker' \in {docker, docker \cup (IF pc = "create network" THEN {} ELSE Brings(pc))}
          /\ UNCHANGED <<stopErrors, excused>>
     ELSE /\ stopErrors < MaxStopErrors
          /\ stopErrors' = stopErrors + 1
          /\ excused' = TRUE
          /\ UNCHANGED docker
  /\ call' = "failed"
  /\ UNCHANGED <<mode, pc, owned, client, orphans, leaving, cancels>>

\* A thread nobody awaits comes to its end.
OrphanEnds(s) ==
  /\ s \in orphans
  /\ Effect(s)
  /\ orphans' = orphans \ {s}
  /\ UNCHANGED <<mode, pc, call, owned, client, leaving, cancels, stopErrors, excused>>

-----------------------------------------------------------------------------
(***************************************************************************)
(* The coroutine.                                                          *)
(***************************************************************************)

\* The coroutine goes to the await s.  Container objects are assigned before
\* they are started, the client before it authenticates.
GoTo(s) ==
  /\ pc' = s
  /\ call' = "running"
  /\ owned' = owned \cup Brings(s)
  /\ client' = (client \/ s = "authenticate")

\* The i-th await of S is the first after the n-th that is not left out.
NextAwait(S, n, out, i) ==
  n < i /\ S[i] \notin out /\ \A j \in (n + 1)..(i - 1) : S[j] \in out

\* The stages that this way of providing the database has no use for.
Omitted ==
  (IF mode \in {"hit", "miss"} THEN {} ELSE {"make config"})
    \cup (IF mode \in {"seed", "hit"} THEN {} ELSE {"prepare db"})
    \cup (IF mode = "miss" THEN {} ELSE {"save snapshot"})

\* The coroutine goes to the stage that follows s.
GoOn(s) ==
  \E n, i \in DOMAIN Stages :
    Stages[n] = s /\ NextAwait(Stages, n, Omitted, i) /\ GoTo(Stages[i])

\* Mutant: the database is stopped only when there is an Odoo container.
SkippedLoose ==
  (IF client THEN {} ELSE {"close client"})
    \cup (IF "odoo" \in owned THEN {} ELSE {"stop odoo", "stop pg"})

\* The steps of the teardown there is nothing to do for.
Skipped ==
  (IF client THEN {} ELSE {"close client"})
    \cup (IF "odoo" \in owned THEN {} ELSE {"stop odoo"})
    \cup (IF "pg" \in owned THEN {} ELSE {"stop pg"})

\* The first step of the teardown after the first n.
TeardownFrom(n) ==
  /\ \E i \in DOMAIN Teardown : NextAwait(Teardown, n, Skipped, i) /\ pc' = Teardown[i]
  /\ call' = "running"
  /\ UNCHANGED <<owned, client>>

\* The except branch, of start() or of __aenter__.  The creation of the
\* network precedes the try statement.
Fail ==
  /\ leaving' = "failure"
  /\ IF pc = "create network"
     THEN pc' = "raised" /\ UNCHANGED <<call, owned, client>>
     ELSE TeardownFrom(0)

\* The awaited call succeeded: the next stage.
Proceed ==
  /\ call = "ok"
  /\ \/ GoOn(pc) /\ UNCHANGED leaving
     \/ /\ pc = "seed properties"
        /\ pc' = "entered"
        /\ UNCHANGED <<call, owned, client, leaving>>
     \/ pc = "wait again" /\ GoTo("authenticate again") /\ UNCHANGED leaving
     \/ pc = "authenticate again" /\ GoTo("install again") /\ UNCHANGED leaving
     \/ pc = "install again" /\ GoOn("install") /\ UNCHANGED leaving
     \/ pc = "fetch logs" /\ Fail
  /\ UNCHANGED <<mode, orphans, docker, cancels, stopErrors, excused>>

\* Mutant: a container that does not start is not fatal either.
RecoverLenient ==
  /\ call = "failed"
  /\ pc \notin ToSet(Teardown) \cup Ended
  /\ \/ pc = "install" /\ GoTo("wait again") /\ UNCHANGED leaving
     \/ pc = "save snapshot" /\ GoTo("seed properties") /\ UNCHANGED leaving
     \/ pc = "start odoo" /\ GoTo("wait ready") /\ UNCHANGED leaving
     \/ pc = "wait ready" /\ GoTo("fetch logs") /\ UNCHANGED leaving
     \/ pc \notin {"save snapshot", "start odoo"} /\ Fail
  /\ UNCHANGED <<mode, orphans, docker, cancels, stopErrors, excused>>

\* The awaited call raised.  An installation broken off by the network is
\* tried once more; a failed save is not fatal; a server that does not come
\* up has its logs fetched; everything else is torn down.
Recover ==
  /\ call = "failed"
  /\ pc \notin ToSet(Teardown) \cup Ended
  /\ \/ pc = "install" /\ GoTo("wait again") /\ UNCHANGED leaving
     \/ pc = "save snapshot" /\ GoTo("seed properties") /\ UNCHANGED leaving
     \/ pc = "wait ready" /\ GoTo("fetch logs") /\ UNCHANGED leaving
     \/ pc # "save snapshot" /\ Fail
  /\ UNCHANGED <<mode, orphans, docker, cancels, stopErrors, excused>>

\* Mutant: the teardown waits for the threads that still run.
TeardownNextJoining ==
  /\ pc \in ToSet(Teardown)
  /\ call # "running"
  /\ orphans = {}
  /\ \/ /\ pc = "remove network"
        /\ pc' = IF leaving = "failure" THEN "raised" ELSE "closed"
        /\ UNCHANGED <<call, owned, client>>
     \/ \E n \in 1..(Len(Teardown) - 1) : pc = Teardown[n] /\ TeardownFrom(n)
  /\ UNCHANGED <<mode, orphans, docker, leaving, cancels, stopErrors, excused>>

\* A step of the teardown is over, well or not: its exceptions are suppressed.
TeardownNext ==
  /\ pc \in ToSet(Teardown)
  /\ call # "running"
  /\ \/ /\ pc = "remove network"
        /\ pc' = IF leaving = "failure" THEN "raised" ELSE "closed"
        /\ UNCHANGED <<call, owned, client>>
     \/ \E n \in 1..(Len(Teardown) - 1) : pc = Teardown[n] /\ TeardownFrom(n)
  /\ UNCHANGED <<mode, orphans, docker, leaving, cancels, stopErrors, excused>>

\* __aexit__, or cleanup() by whoever started the container.
Exit ==
  /\ pc = "entered"
  /\ leaving' = "exit"
  /\ TeardownFrom(0)
  /\ UNCHANGED <<mode, orphans, docker, cancels, stopErrors, excused>>

\* The task is cancelled at the await: a thread that still runs becomes an
\* orphan, one that is done has had its effect.  In the teardown nothing
\* suppresses a CancelledError, and what is left of it is not done.
Cancel ==
  /\ pc \notin Ended
  /\ cancels < MaxCancels
  /\ cancels' = cancels + 1
  /\ orphans' = IF call = "running" /\ pc \in Threaded THEN orphans \cup {pc} ELSE orphans
  /\ excused' = (excused \/ orphans' # orphans \/ pc \in ToSet(Teardown) \/ pc = "create network")
  /\ IF pc \in ToSet(Teardown)
     THEN pc' = "raised" /\ UNCHANGED <<call, owned, client, leaving>>
     ELSE Fail
  /\ UNCHANGED <<mode, docker, stopErrors>>

Calls == CallSucceeds \/ CallFails
Code  == Proceed \/ Recover \/ TeardownNext

Next == Calls \/ (\E s \in Threaded : OrphanEnds(s)) \/ Code \/ Exit \/ Cancel

Spec == Init /\ [][Next]_vars

\* Calls come to an end, well or not, and the loop runs the coroutine.
FairSpec == Spec /\ WF_vars(Calls) /\ WF_vars(Code)

-----------------------------------------------------------------------------
(***************************************************************************)
(* Properties.                                                             *)
(***************************************************************************)

Awaits ==
  ToSet(Stages) \cup Retry \cup ToSet(Teardown) \cup {"fetch logs"}

TypeOK ==
  /\ mode \in Modes
  /\ pc \in Awaits \cup Ended
  /\ call \in {"running", "ok", "failed"}
  /\ owned \in SUBSET Resources /\ docker \in SUBSET Resources
  /\ client \in BOOLEAN /\ excused \in BOOLEAN
  /\ orphans \in SUBSET Threaded
  /\ leaving \in {"none", "failure", "exit"}

Over == pc \in {"raised", "closed"} /\ orphans = {}

\* Whatever fails, at any stage, and wherever a cancellation arrives outside a
\* running thread and the teardown: nothing is left behind, neither when
\* start() or the seeding of properties raises nor when the harness is left.
NothingLeftBehind == Over /\ ~excused => docker = {}

\* A harness that was entered has all of its parts, and a client; whatever was
\* cancelled or retried before.
EnteredComplete == pc = "entered" => docker = Resources /\ client

\* The network is not taken away under a container, and Odoo not left
\* without its database: parts go down in the reverse order of their coming.
TakenDownInOrder ==
  [][/\ "network" \in docker \ docker' => docker' = {}
     /\ "pg" \in docker \ docker' => excused \/ "odoo" \notin docker]_vars

\* A failing start and a leaving harness come to their end.
TeardownEnds == (leaving # "none") ~> (pc \in {"raised", "closed"})

\* "Preserve cleanup on failure" (docs/development.md:46), for a start that
\* is cancelled: when all is over, and the daemon refused nothing, nothing is
\* left.
CancelledCleanly == Over /\ stopErrors = 0 => docker = {}
-----------------------------------------------------------------------------
(***************************************************************************)
(* Why the safety properties hold: the inductive invariant.                *)
(***************************************************************************)

BeforePg == {"create network", "make config"}
BeforeOdoo == BeforePg \cup {"start pg", "prepare db"}
BeforeClient == BeforeOdoo \cup {"start odoo", "wait ready", "fetch logs"}

\* What is torn down belongs to a failure or an exit; a thread that was
\* abandoned, a refused stop and a teardown that broke off are excused.
Excuses ==
  /\ leaving = "none" <=> pc \notin ToSet(Teardown) \cup {"raised", "closed"}
  /\ leaving = "none" => ~excused
  /\ orphans # {} => excused
  /\ call = "failed" /\ Takes(pc) # {} => excused

\* Only what is assigned can be up, now or when a thread comes to its end.
OnlyOwned ==
  /\ docker \subseteq owned
  /\ \A s \in orphans \cup {pc} : Brings(s) \subseteq owned

\* On the way up, what was brought up is up.
UpSoFar ==
  leaving = "none" =>
    /\ call = "ok" => Brings(pc) \subseteq docker
    /\ pc # "create network" => "network" \in docker
    /\ pc \notin BeforePg \cup {"start pg"} => "pg" \in docker
    /\ pc \notin BeforeOdoo \cup {"start odoo"} => "odoo" \in docker
    /\ pc \notin BeforeClient => client
    /\ pc = "create network" /\ call # "ok" => docker = {}

\* On the way down, and unless it is excused, what was taken down is gone.
DownSoFar ==
  leaving # "none" /\ ~excused =>
    /\ call = "ok" => Takes(pc) \cap docker = {}
    /\ pc \in {"stop pg", "remove network"} => "odoo" \notin docker
    /\ pc = "remove network" => "pg" \notin docker
    /\ pc \in {"raised", "closed"} => docker = {}

IInv == TypeOK /\ Excuses /\ OnlyOwned /\ UpSoFar /\ DownSoFar
=============================================================================
