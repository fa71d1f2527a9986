----------------------------- MODULE StartProofs -----------------------------
(***************************************************************************)
(* Proofs about ContainerStart, for any number of cancellations and of     *)
(* refused stops, and about ModuleInstall, for any modules, calls and      *)
(* number of attempts; Start runs one or the other.                        *)
(***************************************************************************)
EXTENDS Start, TLAPS

\* The steps of the teardown.
LEMMA TeardownIs ==
  /\ DOMAIN Teardown = 1..4 /\ Len(Teardown) = 4
  /\ Teardown[1] = "close client" /\ Teardown[2] = "stop odoo"
  /\ Teardown[3] = "stop pg" /\ Teardown[4] = "remove network"
  /\ ToSet(Teardown) = {"close client", "stop odoo", "stop pg", "remove network"}
  <1>1. /\ DOMAIN Teardown = 1..4 /\ Len(Teardown) = 4
        /\ Teardown[1] = "close client" /\ Teardown[2] = "stop odoo"
        /\ Teardown[3] = "stop pg" /\ Teardown[4] = "remove network"
    BY DEF Teardown
  <1>2. ToSet(Teardown) = {Teardown[i] : i \in 1..4}
    BY <1>1 DEF ToSet
  <1>3. 1..4 = {1, 2, 3, 4}
    OBVIOUS
  <1>. QED BY <1>1, <1>2, <1>3

\* Where the teardown goes after its first n steps, and what that says of the
\* containers it skips.
LEMMA TeardownGoes ==
  ASSUME NEW n \in {0, 1, 2, 3}, TeardownFrom(n)
  PROVE  /\ pc' \in ToSet(Teardown)
         /\ n \in {0, 1} /\ pc' \in {"stop pg", "remove network"} => "odoo" \notin owned
         /\ n \in {0, 1, 2} /\ pc' = "remove network" => "pg" \notin owned
         /\ call' = "running" /\ UNCHANGED <<owned, client>>
  <1>1. PICK i \in 1..4 :
          /\ n < i /\ pc' = Teardown[i]
          /\ \A j \in (n + 1)..(i - 1) : Teardown[j] \in Skipped
    BY TeardownIs DEF TeardownFrom, NextAwait
  <1>2. i = 1 \/ i = 2 \/ i = 3 \/ i = 4
    BY <1>1
  <1>3. n \in {0, 1} /\ i \in {3, 4} => Teardown[2] \in Skipped
    BY <1>1
  <1>4. n \in {0, 1, 2} /\ i = 4 => Teardown[3] \in Skipped
    BY <1>1
  <1>5. n \in {0, 1} /\ i \in {3, 4} => "odoo" \notin owned
    BY <1>3, TeardownIs DEF Skipped
  <1>6. n \in {0, 1, 2} /\ i = 4 => "pg" \notin owned
    BY <1>4, TeardownIs DEF Skipped
  <1>7. call' = "running" /\ UNCHANGED <<owned, client>>
    BY DEF TeardownFrom
  <1>8. pc' \in ToSet(Teardown)
    BY <1>1, <1>2, TeardownIs
  <1>9. /\ i = 1 => pc' = "close client"
        /\ i = 2 => pc' = "stop odoo"
        /\ i = 3 => pc' = "stop pg"
    BY <1>1, TeardownIs
  <1>10. pc' \in {"stop pg", "remove network"} => i \in {3, 4}
    BY <1>2, <1>9
  <1>11. pc' = "remove network" => i = 4
    BY <1>2, <1>9
  <1>. QED BY <1>5, <1>6, <1>7, <1>8, <1>10, <1>11

\* The stages, and those that may follow them.
Order ==
  {<<"create network", "make config">>, <<"create network", "start pg">>,
   <<"make config", "start pg">>, <<"start pg", "prepare db">>, <<"start pg", "start odoo">>,
   <<"prepare db", "start odoo">>, <<"start odoo", "wait ready">>,
   <<"wait ready", "authenticate">>, <<"authenticate", "install">>,
   <<"install", "save snapshot">>, <<"install", "seed properties">>,
   <<"save snapshot", "seed properties">>}

\* The stages on the way up, by their places.
LEMMA StagesAre ==
  /\ DOMAIN Stages = 1..10
  /\ Stages[1] = "create network" /\ Stages[2] = "make config" /\ Stages[3] = "start pg"
  /\ Stages[4] = "prepare db" /\ Stages[5] = "start odoo" /\ Stages[6] = "wait ready"
  /\ Stages[7] = "authenticate" /\ Stages[8] = "install" /\ Stages[9] = "save snapshot"
  /\ Stages[10] = "seed properties"
  BY DEF Stages

\* The stages that every way of providing the database has.
LEMMA NeverOmitted ==
  /\ Stages[3] \notin Omitted /\ Stages[5] \notin Omitted /\ Stages[6] \notin Omitted
  /\ Stages[7] \notin Omitted /\ Stages[8] \notin Omitted
  BY DEF Stages, Omitted

\* The next await is not past one that is not left out.
LEMMA NotPast ==
  ASSUME NEW S, NEW out, NEW n \in Nat, NEW i \in Nat, NextAwait(S, n, out, i),
         NEW j \in Nat, S[j] \notin out, n < j
  PROVE  i <= j
  BY DEF NextAwait

\* Stages follow one another as Order says.
LEMMA Ordered ==
  ASSUME NEW n \in 1..10, NEW i \in 1..10, NextAwait(Stages, n, Omitted, i)
  PROVE  <<Stages[n], Stages[i]>> \in Order
  <1>1. n < i
    BY DEF NextAwait
  <1>2. ASSUME NEW j \in 1..10, Stages[j] \notin Omitted, n < j
        PROVE  i <= j
    BY <1>2, NotPast
  <1>3. n < 3 => i <= 3
    BY <1>2, NeverOmitted
  <1>4. n < 5 => i <= 5
    BY <1>2, NeverOmitted
  <1>5. n < 6 => i <= 6
    BY <1>2, NeverOmitted
  <1>6. n < 7 => i <= 7
    BY <1>2, NeverOmitted
  <1>7. n < 8 => i <= 8
    BY <1>2, NeverOmitted
  <1>8. \/ n = 1 /\ (i = 2 \/ i = 3)
        \/ n = 2 /\ i = 3
        \/ n = 3 /\ (i = 4 \/ i = 5)
        \/ n = 4 /\ i = 5
        \/ n = 5 /\ i = 6
        \/ n = 6 /\ i = 7
        \/ n = 7 /\ i = 8
        \/ n = 8 /\ (i = 9 \/ i = 10)
        \/ n = 9 /\ i = 10
    BY <1>1, <1>3, <1>4, <1>5, <1>6, <1>7
  <1>. QED BY <1>8, StagesAre DEF Order

\* What going on to the next stage does.
LEMMA GoesOn ==
  ASSUME NEW s, GoOn(s)
  PROVE  \E t : /\ <<s, t>> \in Order
                /\ pc' = t /\ call' = "running"
                /\ owned' = owned \cup Brings(t)
                /\ client' = (client \/ t = "authenticate")
  <1>1. PICK n \in 1..10, i \in 1..10 :
          /\ Stages[n] = s /\ NextAwait(Stages, n, Omitted, i)
          /\ pc' = Stages[i] /\ call' = "running"
          /\ owned' = owned \cup Brings(Stages[i])
          /\ client' = (client \/ Stages[i] = "authenticate")
    BY StagesAre DEF GoOn, GoTo
  <1>2. <<s, Stages[i]>> \in Order
    BY <1>1, Ordered
  <1>. QED BY <1>1, <1>2
\* A failure goes to the teardown, but for one of the creation of the network.
LEMMA FailGoes ==
  ASSUME Fail
  PROVE  /\ leaving' = "failure" /\ UNCHANGED <<owned, client>>
         /\ pc = "create network" => pc' = "raised" /\ UNCHANGED call
         /\ pc # "create network" =>
              /\ pc' \in ToSet(Teardown) /\ call' = "running"
              /\ pc' \in {"stop pg", "remove network"} => "odoo" \notin owned
              /\ pc' = "remove network" => "pg" \notin owned
  <1>1. CASE pc = "create network"
    BY <1>1 DEF Fail
  <1>2. CASE pc # "create network"
    <2>1. TeardownFrom(0)
      BY <1>2 DEF Fail
    <2>2. leaving' = "failure"
      BY DEF Fail
    <2>. QED BY <1>2, <2>1, <2>2, TeardownGoes
  <1>. QED BY <1>1, <1>2

\* All awaits.
LEMMA AwaitsAre ==
  \A s : s \in Awaits <=>
    s \in {"create network", "make config", "start pg", "prepare db", "start odoo", "wait ready",
           "authenticate", "install", "save snapshot", "seed properties", "wait again",
           "authenticate again", "install again", "close client", "stop odoo", "stop pg",
           "remove network", "fetch logs"}
  <1>1. ToSet(Stages) = {Stages[i] : i \in 1..10}
    BY StagesAre DEF ToSet
  <1>2. 1..10 = {1, 2, 3, 4, 5, 6, 7, 8, 9, 10}
    OBVIOUS
  <1>3. ToSet(Stages) = {Stages[1], Stages[2], Stages[3], Stages[4], Stages[5], Stages[6],
                         Stages[7], Stages[8], Stages[9], Stages[10]}
    BY <1>1, <1>2
  <1>4. ToSet(Stages) = {"create network", "make config", "start pg", "prepare db", "start odoo",
                         "wait ready", "authenticate", "install", "save snapshot",
                         "seed properties"}
    BY <1>3, StagesAre
  <1>. QED BY <1>4, TeardownIs DEF Awaits, Retry

-----------------------------------------------------------------------------

\* Nothing is up yet.
LEMMA InitIInv == Init => IInv
  <1> SUFFICES ASSUME Init PROVE IInv
    OBVIOUS
  <1>1. TypeOK
    BY AwaitsAre DEF Init, TypeOK, Resources, Threaded
  <1>2. Excuses
    BY TeardownIs DEF Init, Excuses, Takes
  <1>3. OnlyOwned
    BY DEF Init, OnlyOwned, Brings
  <1>4. UpSoFar
    BY DEF Init, UpSoFar, BeforePg, BeforeOdoo, BeforeClient
  <1>5. DownSoFar
    BY DEF Init, DownSoFar
  <1>. QED BY <1>1, <1>2, <1>3, <1>4, <1>5 DEF IInv

\* What a call that succeeds does to the daemon.
LEMMA EffectIs ==
  ASSUME NEW s, Effect(s), docker \subseteq Resources
  PROVE  /\ docker' \subseteq docker \cup Brings(s)
         /\ Takes(s) = {} => docker' = docker \cup Brings(s)
         /\ Brings(s) # {} => Takes(s) = {}
         /\ docker' \in SUBSET Resources
         /\ Takes(s) = {"odoo"} => "odoo" \notin docker'
         /\ Takes(s) = {"pg"} => "pg" \notin docker'
         /\ s = "remove network" /\ docker \subseteq {"network"} => docker' = {}
  BY DEF Effect, Removable, Brings, Takes, Resources

\* The awaited call succeeds.
LEMMA SucceedsIInv ==
  ASSUME IInv, CallSucceeds
  PROVE  IInv'
  <1>1. TypeOK'
    BY EffectIs DEF IInv, TypeOK, CallSucceeds
  <1>2. Excuses'
    BY DEF IInv, Excuses, CallSucceeds
  <1>3. OnlyOwned'
    BY EffectIs DEF IInv, TypeOK, OnlyOwned, CallSucceeds
  <1>4. UpSoFar'
    <2>1. leaving = "none" => Takes(pc) = {}
      BY TeardownIs DEF IInv, Excuses, Takes
    <2>. QED BY <2>1, EffectIs DEF IInv, TypeOK, UpSoFar, CallSucceeds
  <1>5. DownSoFar'
    <2>1. UNCHANGED <<pc, leaving, excused>> /\ call' = "ok" /\ pc \notin {"raised", "closed"}
      BY DEF CallSucceeds, Ended
    <2>2. /\ docker' \subseteq docker \cup Brings(pc)
          /\ pc \in {"stop pg", "remove network"} => Brings(pc) = {}
          /\ pc = "stop odoo" => "odoo" \notin docker'
          /\ pc = "stop pg" => "pg" \notin docker'
          /\ pc = "remove network" /\ docker \subseteq {"network"} => docker' = {}
      BY EffectIs DEF IInv, TypeOK, CallSucceeds, Takes, Brings
    <2>3. leaving # "none" /\ ~excused /\ pc = "remove network" => docker \subseteq {"network"}
      BY DEF IInv, DownSoFar, TypeOK, Resources
    <2>. QED BY <2>1, <2>2, <2>3 DEF IInv, DownSoFar, Takes
  <1>. QED BY <1>1, <1>2, <1>3, <1>4, <1>5 DEF IInv

\* The awaited call raises.
LEMMA FailsIInv ==
  ASSUME IInv, CallFails
  PROVE  IInv'
  <1>1. /\ pc \notin Ended /\ call = "running" /\ call' = "failed"
        /\ UNCHANGED <<mode, pc, owned, client, orphans, leaving>>
    BY DEF CallFails
  <1>2. /\ docker \subseteq docker' /\ docker' \subseteq docker \cup Brings(pc)
        /\ pc = "create network" => docker' = docker
    BY DEF CallFails, Brings
  <1>3. /\ excused' \in BOOLEAN /\ (excused => excused')
        /\ Takes(pc) # {} => excused' /\ docker' = docker
        /\ Takes(pc) = {} => excused' = excused
    BY DEF CallFails, IInv, TypeOK
  <1>4. TypeOK'
    BY <1>1, <1>2, <1>3 DEF IInv, TypeOK, Brings, Resources
  <1>5. Excuses'
    <2>1. leaving = "none" => Takes(pc) = {}
      BY TeardownIs DEF IInv, Excuses, Takes
    <2>. QED BY <1>1, <1>3, <2>1 DEF IInv, Excuses
  <1>6. OnlyOwned'
    BY <1>1, <1>2 DEF IInv, OnlyOwned
  <1>7. UpSoFar'
    BY <1>1, <1>2 DEF IInv, UpSoFar
  <1>8. DownSoFar'
    BY <1>1, <1>2, <1>3 DEF IInv, DownSoFar, Takes, Ended, Brings
  <1>. QED BY <1>4, <1>5, <1>6, <1>7, <1>8 DEF IInv

\* A thread that nobody awaits comes to its end: whatever it does is excused.
LEMMA OrphanIInv ==
  ASSUME IInv, NEW s \in Threaded, OrphanEnds(s)
  PROVE  IInv'
  <1>1. /\ s \in orphans /\ orphans' = orphans \ {s} /\ excused
        /\ UNCHANGED <<mode, pc, call, owned, client, leaving, excused>>
    BY DEF OrphanEnds, IInv, Excuses
  <1>2. /\ docker' \subseteq docker \cup Brings(s) /\ docker' \in SUBSET Resources
    BY EffectIs DEF OrphanEnds, IInv, TypeOK
  <1>3. TypeOK'
    BY <1>1, <1>2 DEF IInv, TypeOK
  <1>4. Excuses'
    BY <1>1 DEF IInv, Excuses
  <1>5. OnlyOwned'
    BY <1>1, <1>2 DEF IInv, OnlyOwned
  <1>6. UpSoFar' /\ DownSoFar'
    BY <1>1 DEF IInv, Excuses, UpSoFar, DownSoFar
  <1>. QED BY <1>3, <1>4, <1>5, <1>6 DEF IInv

-----------------------------------------------------------------------------

\* The coroutine goes to the await t on the way up.
Up(t) ==
  /\ pc' = t /\ call' = "running"
  /\ owned' = owned \cup Brings(t)
  /\ client' = (client \/ t = "authenticate")
  /\ UNCHANGED <<mode, orphans, docker, leaving, excused>>

\* What an await on the way up needs to be up, and the client there.
Needs(t) ==
  /\ t # "create network"
  /\ "network" \in docker
  /\ t \notin BeforePg \cup {"start pg"} => "pg" \in docker
  /\ t \notin BeforeOdoo \cup {"start odoo"} => "odoo" \in docker
  /\ t \notin BeforeClient \cup {"authenticate"} => client

\* One await further on the way up, everything it needs being up.
LEMMA UpIInv ==
  ASSUME IInv, leaving = "none", NEW t \in Awaits \ ToSet(Teardown), Needs(t), Up(t)
  PROVE  IInv'
  <1>1. TypeOK'
    BY DEF IInv, TypeOK, Up, Brings, Resources
  <1>2. Excuses'
    <2>1. t \notin {"raised", "closed"} /\ Takes(t) = {}
      BY TeardownIs, AwaitsAre DEF Takes
    <2>. QED BY <2>1 DEF IInv, Excuses, Up
  <1>3. OnlyOwned'
    BY DEF IInv, OnlyOwned, Up
  <1>4. UpSoFar'
    BY DEF IInv, UpSoFar, Up, Needs, TypeOK
  <1>5. DownSoFar'
    BY DEF IInv, DownSoFar, Up
  <1>. QED BY <1>1, <1>2, <1>3, <1>4, <1>5 DEF IInv

\* What the teardown leaves behind, so far.
Gone(s) ==
  /\ s \in {"stop pg", "remove network"} => "odoo" \notin docker
  /\ s = "remove network" => "pg" \notin docker

\* Somewhere in the teardown, what it has passed being gone.
LEMMA DownIInv ==
  ASSUME IInv, NEW t \in ToSet(Teardown), ~excused' => Gone(t),
         pc' = t, call' = "running", leaving' \in {"failure", "exit"},
         orphans' \in SUBSET Threaded,
         \A s \in orphans' : Brings(s) \subseteq owned,
         excused' \in BOOLEAN, orphans' # {} => excused',
         UNCHANGED <<mode, owned, client, docker>>
  PROVE  IInv'
  <1>1. Brings(t) = {} /\ t \in Awaits /\ t \notin {"raised", "closed"}
    BY TeardownIs, AwaitsAre DEF Brings
  <1>2. TypeOK'
    BY <1>1 DEF IInv, TypeOK
  <1>3. Excuses'
    BY <1>1 DEF Excuses
  <1>4. OnlyOwned'
    BY <1>1 DEF IInv, OnlyOwned
  <1>5. UpSoFar'
    BY DEF UpSoFar
  <1>6. DownSoFar'
    BY <1>1 DEF DownSoFar, Gone
  <1>. QED BY <1>2, <1>3, <1>4, <1>5, <1>6 DEF IInv

\* The end, with nothing left unless it is excused.
LEMMA EndIInv ==
  ASSUME IInv, pc' \in {"raised", "closed"}, leaving' \in {"failure", "exit"},
         orphans' \in SUBSET Threaded,
         \A s \in orphans' : Brings(s) \subseteq owned,
         excused' \in BOOLEAN, orphans' # {} => excused',
         ~excused' => docker = {},
         UNCHANGED <<mode, call, owned, client, docker>>
  PROVE  IInv'
  <1>1. Brings(pc') = {} /\ Takes(pc') = {}
    BY DEF Brings, Takes
  <1>2. TypeOK'
    BY DEF IInv, TypeOK, Ended
  <1>3. Excuses'
    BY <1>1 DEF Excuses
  <1>4. OnlyOwned'
    BY <1>1 DEF IInv, OnlyOwned
  <1>5. UpSoFar'
    BY DEF UpSoFar
  <1>6. DownSoFar'
    BY <1>1 DEF DownSoFar
  <1>. QED BY <1>2, <1>3, <1>4, <1>5, <1>6 DEF IInv

\* A failure, where it leaves nothing behind or is excused.
LEMMA FailIInv ==
  ASSUME IInv, Fail, UNCHANGED <<mode, docker>>,
         pc \notin ToSet(Teardown) \cup Ended,
         orphans' \in SUBSET Threaded,
         \A s \in orphans' : Brings(s) \subseteq owned,
         excused' \in BOOLEAN, orphans' # {} => excused',
         pc = "create network" /\ ~excused' => docker = {}
  PROVE  IInv'
  <1>1. docker \subseteq owned
    BY DEF IInv, OnlyOwned
  <1>2. CASE pc = "create network"
    <2>1. pc' = "raised" /\ leaving' = "failure" /\ UNCHANGED <<call, owned, client>>
      BY <1>2, FailGoes
    <2>. QED BY <1>2, <2>1, EndIInv
  <1>3. CASE pc # "create network"
    <2>1. /\ leaving' = "failure" /\ UNCHANGED <<owned, client>>
          /\ pc' \in ToSet(Teardown) /\ call' = "running" /\ Gone(pc')
      BY <1>1, <1>3, FailGoes DEF Gone
    <2>. QED BY <2>1, DownIInv
  <1>. QED BY <1>2, <1>3

\* The awaited call has succeeded: on to the next stage, or out of the start.
LEMMA ProceedIInv ==
  ASSUME IInv, Proceed
  PROVE  IInv'
  <1>1. /\ call = "ok" /\ UNCHANGED <<mode, orphans, docker, cancels, stopErrors, excused>>
    BY DEF Proceed
  <1>2. ASSUME NEW s, NEW t, s = pc \/ (s = "install" /\ pc = "install again"),
               <<s, t>> \in Order, Up(t)
        PROVE  IInv'
    <2>1. leaving = "none"
      BY <1>2, TeardownIs DEF IInv, Excuses, Order
    <2>2. t \in Awaits \ ToSet(Teardown)
      BY <1>2, AwaitsAre, TeardownIs DEF Order
    <2>3. Brings(pc) \subseteq docker
      BY <1>1, <2>1 DEF IInv, UpSoFar
    <2>4. pc # "create network" => "network" \in docker
      BY <2>1 DEF IInv, UpSoFar
    <2>5. pc \notin BeforePg \cup {"start pg"} => "pg" \in docker
      BY <2>1 DEF IInv, UpSoFar
    <2>6. pc \notin BeforeOdoo \cup {"start odoo"} => "odoo" \in docker
      BY <2>1 DEF IInv, UpSoFar
    <2>7. pc \notin BeforeClient => client
      BY <2>1 DEF IInv, UpSoFar
    <2>8. t # "create network" /\ "network" \in docker
      BY <1>2, <2>3, <2>4 DEF Order, Brings
    <2>9. t \notin BeforePg \cup {"start pg"} => "pg" \in docker
      BY <1>2, <2>3, <2>5 DEF Order, Brings, BeforePg
    <2>10. t \notin BeforeOdoo \cup {"start odoo"} => "odoo" \in docker
      BY <1>2, <2>3, <2>6 DEF Order, Brings, BeforePg, BeforeOdoo
    <2>11. t \notin BeforeClient \cup {"authenticate"} => client
      BY <1>2, <2>7 DEF Order, BeforePg, BeforeOdoo, BeforeClient
    <2>12. Needs(t)
      BY <2>8, <2>9, <2>10, <2>11 DEF Needs
    <2>. QED BY <1>2, <2>1, <2>2, <2>12, UpIInv
  <1>3. CASE GoOn(pc) /\ UNCHANGED leaving
    BY <1>1, <1>2, <1>3, GoesOn DEF Up
  <1>4. CASE pc = "install again" /\ GoOn("install") /\ UNCHANGED leaving
    BY <1>1, <1>2, <1>4, GoesOn DEF Up
  <1>5. CASE pc \in {"wait again", "authenticate again"} /\ UNCHANGED leaving
             /\ (pc = "wait again" => GoTo("authenticate again"))
             /\ (pc = "authenticate again" => GoTo("install again"))
    <2>1. leaving = "none"
      BY <1>5, TeardownIs DEF IInv, Excuses
    <2>2. PICK t \in {"authenticate again", "install again"} : Up(t)
      BY <1>1, <1>5 DEF GoTo, Up
    <2>3. Needs(t)
      BY <1>5, <2>1 DEF Needs, IInv, UpSoFar, BeforePg, BeforeOdoo, BeforeClient
    <2>4. t \in Awaits \ ToSet(Teardown)
      BY AwaitsAre, TeardownIs
    <2>. QED BY <2>1, <2>2, <2>3, <2>4, UpIInv
  <1>6. CASE pc = "seed properties" /\ pc' = "entered" /\ UNCHANGED <<call, owned, client, leaving>>
    <2>1. leaving = "none"
      BY <1>6, TeardownIs DEF IInv, Excuses
    <2>2. /\ Brings(pc') = {} /\ Takes(pc') = {}
          /\ pc' \notin ToSet(Teardown) \cup {"raised", "closed"}
      BY <1>6, TeardownIs DEF Brings, Takes
    <2>3. TypeOK'
      BY <1>1, <1>6 DEF IInv, TypeOK, Ended
    <2>4. Excuses'
      BY <1>1, <1>6, <2>1, <2>2 DEF IInv, Excuses
    <2>5. OnlyOwned'
      BY <1>1, <1>6, <2>2 DEF IInv, OnlyOwned
    <2>6. UpSoFar'
      BY <1>1, <1>6, <2>1, <2>2 DEF IInv, UpSoFar, BeforePg, BeforeOdoo, BeforeClient
    <2>7. DownSoFar'
      BY <1>6, <2>1 DEF DownSoFar
    <2>. QED BY <2>3, <2>4, <2>5, <2>6, <2>7 DEF IInv
  <1>7. CASE pc = "fetch logs" /\ Fail
    <2>1. pc \notin ToSet(Teardown) \cup Ended
      BY <1>7, TeardownIs DEF Ended
    <2>2. /\ orphans' \in SUBSET Threaded /\ excused' \in BOOLEAN /\ (orphans' # {} => excused')
          /\ \A s \in orphans' : Brings(s) \subseteq owned
      BY <1>1 DEF IInv, TypeOK, Excuses, OnlyOwned
    <2>. QED BY <1>1, <1>7, <2>1, <2>2, FailIInv
  <1>. QED BY <1>3, <1>4, <1>5, <1>6, <1>7 DEF Proceed

\* The awaited call has raised: the detour, or the teardown.
LEMMA RecoverIInv ==
  ASSUME IInv, Recover
  PROVE  IInv'
  <1>1. /\ call = "failed" /\ pc \notin ToSet(Teardown) \cup Ended
        /\ UNCHANGED <<mode, orphans, docker, excused>>
    BY DEF Recover
  <1>2. ASSUME NEW s, NEW t, pc = s, GoTo(t), UNCHANGED leaving,
               <<s, t>> \in {<<"install", "wait again">>, <<"save snapshot", "seed properties">>,
                             <<"wait ready", "fetch logs">>}
        PROVE  IInv'
    <2>1. leaving = "none"
      BY <1>2, TeardownIs DEF IInv, Excuses
    <2>2. t \in Awaits \ ToSet(Teardown)
      BY <1>2, AwaitsAre, TeardownIs
    <2>3. Needs(t)
      BY <1>2, <2>1 DEF Needs, IInv, UpSoFar, BeforePg, BeforeOdoo, BeforeClient
    <2>4. Up(t)
      BY <1>1, <1>2 DEF GoTo, Up
    <2>. QED BY <2>1, <2>2, <2>3, <2>4, UpIInv
  <1>3. CASE Fail
    <2>1. /\ orphans' \in SUBSET Threaded /\ excused' \in BOOLEAN /\ (orphans' # {} => excused')
          /\ \A s \in orphans' : Brings(s) \subseteq owned
      BY <1>1 DEF IInv, TypeOK, Excuses, OnlyOwned
    <2>2. pc = "create network" => docker = {}
      BY <1>1, TeardownIs DEF IInv, Excuses, UpSoFar
    <2>. QED BY <1>1, <1>3, <2>1, <2>2, FailIInv
  <1>. QED BY <1>2, <1>3 DEF Recover

\* A step of the teardown is over.
LEMMA TeardownNextIInv ==
  ASSUME IInv, TeardownNext
  PROVE  IInv'
  <1>1. /\ pc \in ToSet(Teardown) /\ call # "running"
        /\ UNCHANGED <<mode, orphans, docker, leaving, excused>>
    BY DEF TeardownNext
  <1>2. /\ leaving \in {"failure", "exit"} /\ leaving # "none"
        /\ orphans' \in SUBSET Threaded /\ excused' \in BOOLEAN /\ (orphans' # {} => excused')
        /\ \A s \in orphans' : Brings(s) \subseteq owned
    BY <1>1 DEF IInv, TypeOK, Excuses, OnlyOwned
  <1>3. call = "ok" \/ Takes(pc) = {} \/ excused
    BY <1>1 DEF IInv, TypeOK, Excuses
  <1>4. ~excused => Takes(pc) \cap docker = {}
    BY <1>2, <1>3 DEF IInv, DownSoFar
  <1>5. CASE /\ pc = "remove network" /\ pc' \in {"raised", "closed"}
             /\ UNCHANGED <<call, owned, client>>
    <2>1. ~excused' => docker = {}
      BY <1>1, <1>2, <1>4, <1>5 DEF IInv, TypeOK, DownSoFar, Takes, Resources
    <2>. QED BY <1>1, <1>2, <1>5, <2>1, EndIInv
  <1>6. ASSUME NEW n \in 1..(Len(Teardown) - 1), pc = Teardown[n], TeardownFrom(n)
        PROVE  IInv'
    <2>0. Len(Teardown) = 4
      BY TeardownIs
    <2>1. n \in {1, 2, 3}
      BY <2>0
    <2>2. docker \subseteq owned
      BY DEF IInv, OnlyOwned
    <2>3. /\ pc' \in ToSet(Teardown) /\ call' = "running" /\ UNCHANGED <<owned, client>>
          /\ n = 1 /\ pc' \in {"stop pg", "remove network"} => "odoo" \notin owned
          /\ n \in {1, 2} /\ pc' = "remove network" => "pg" \notin owned
      BY <1>6, <2>1, TeardownGoes
    <2>4. /\ n = 1 => pc = "close client"
          /\ n = 2 => pc = "stop odoo"
          /\ n = 3 => pc = "stop pg"
      BY <1>6, TeardownIs
    <2>5. ~excused /\ n \in {2, 3} => "odoo" \notin docker
      BY <1>2, <1>4, <2>4 DEF IInv, DownSoFar, Takes
    <2>6. ~excused /\ n = 3 => "pg" \notin docker
      BY <1>4, <2>4 DEF Takes
    <2>7. ~excused => Gone(pc')
      BY <2>1, <2>2, <2>3, <2>5, <2>6 DEF Gone
    <2>8. ~excused' => Gone(pc')
      BY <1>1, <2>7
    <2>9. leaving' \in {"failure", "exit"}
      BY <1>1, <1>2
    <2>. QED BY <1>1, <1>2, <2>3, <2>8, <2>9, DownIInv
  <1>. QED BY <1>5, <1>6 DEF TeardownNext

\* The harness is left.
LEMMA ExitIInv ==
  ASSUME IInv, Exit
  PROVE  IInv'
  <1>1. /\ leaving' = "exit" /\ TeardownFrom(0)
        /\ UNCHANGED <<mode, orphans, docker, excused>>
    BY DEF Exit
  <1>2. docker \subseteq owned
    BY DEF IInv, OnlyOwned
  <1>3. /\ pc' \in ToSet(Teardown) /\ call' = "running" /\ UNCHANGED <<owned, client>>
        /\ Gone(pc')
    BY <1>1, <1>2, TeardownGoes DEF Gone
  <1>4. /\ orphans' \in SUBSET Threaded /\ excused' \in BOOLEAN /\ (orphans' # {} => excused')
        /\ \A s \in orphans' : Brings(s) \subseteq owned
    BY <1>1 DEF IInv, TypeOK, Excuses, OnlyOwned
  <1>. QED BY <1>1, <1>3, <1>4, DownIInv

\* The task is cancelled, anywhere.
LEMMA CancelIInv ==
  ASSUME IInv, Cancel
  PROVE  IInv'
  <1>1. /\ pc \notin Ended /\ UNCHANGED <<mode, docker>>
        /\ orphans' = orphans \/ (orphans' = orphans \cup {pc} /\ pc \in Threaded)
        /\ excused' = (excused \/ orphans' # orphans \/ pc \in ToSet(Teardown)
                         \/ pc = "create network")
    BY DEF Cancel
  <1>2. /\ orphans' \in SUBSET Threaded /\ excused' \in BOOLEAN /\ (orphans' # {} => excused')
        /\ \A s \in orphans' : Brings(s) \subseteq owned
    BY <1>1 DEF IInv, TypeOK, Excuses, OnlyOwned
  <1>3. CASE pc \in ToSet(Teardown)
    <2>1. pc' = "raised" /\ UNCHANGED <<call, owned, client, leaving>>
      BY <1>3 DEF Cancel
    <2>2. leaving' \in {"failure", "exit"}
      BY <1>3, <2>1 DEF IInv, TypeOK, Excuses
    <2>3. ~excused' => docker = {}
      BY <1>1, <1>3
    <2>. QED BY <1>1, <1>2, <2>1, <2>2, <2>3, EndIInv
  <1>4. CASE pc \notin ToSet(Teardown)
    <2>1. Fail
      BY <1>4 DEF Cancel
    <2>2. pc = "create network" /\ ~excused' => docker = {}
      BY <1>1
    <2>. QED BY <1>1, <1>2, <1>4, <2>1, <2>2, FailIInv
  <1>. QED BY <1>3, <1>4

\* The invariant is inductive.
LEMMA NextIInv == IInv /\ [Next]_vars => IInv'
  <1> SUFFICES ASSUME IInv, [Next]_vars PROVE IInv'
    OBVIOUS
  <1>1. CASE UNCHANGED vars
    BY <1>1 DEF vars, IInv, TypeOK, Excuses, OnlyOwned, UpSoFar, DownSoFar
  <1>2. CASE Next
    BY <1>2, SucceedsIInv, FailsIInv, OrphanIInv, ProceedIInv, RecoverIInv, TeardownNextIInv,
       ExitIInv, CancelIInv DEF Next, Calls, Code
  <1>. QED BY <1>1, <1>2

\* The inductive invariant, types included, holds in every reachable state.
THEOREM Invariance == Spec => []IInv
  BY InitIInv, NextIInv, PTL DEF Spec

\* Whatever fails and wherever a cancellation arrives that hits no running
\* thread: when start() has raised, or the harness was left, nothing is up.
THEOREM NothingIsLeft == Spec => []NothingLeftBehind
  <1>1. IInv => NothingLeftBehind
    BY TeardownIs DEF IInv, Excuses, DownSoFar, NothingLeftBehind, Over
  <1>. QED BY <1>1, Invariance, PTL

\* An entered harness has its network, database and server, and a client.
THEOREM EnteredWhole == Spec => []EnteredComplete
  <1>1. IInv => EnteredComplete
    <2>1. ASSUME IInv, pc = "entered" PROVE leaving = "none"
      BY <2>1, TeardownIs DEF IInv, Excuses
    <2>. QED BY <2>1 DEF IInv, TypeOK, UpSoFar, EnteredComplete, BeforePg, BeforeOdoo,
                         BeforeClient, Resources
  <1>. QED BY <1>1, Invariance, PTL

\* What a step may take away.
InOrder == /\ "network" \in docker \ docker' => docker' = {}
           /\ "pg" \in docker \ docker' => excused \/ "odoo" \notin docker

\* Containers go before their network, and Odoo before its database.
THEOREM DownInOrder == Spec => TakenDownInOrder
  <1>1. ASSUME NEW s, Effect(s), IInv, s \in orphans \/ (s = pc /\ pc \notin Ended)
        PROVE  InOrder
    <2>1. "network" \in docker \ docker' => docker' = {}
      BY <1>1 DEF Effect, Removable, Brings, Takes
    <2>2. "pg" \in docker \ docker' => s = "stop pg"
      BY <1>1 DEF Effect, Removable, Brings, Takes
    <2>3. s = "stop pg" => excused \/ "odoo" \notin docker
      BY <1>1, TeardownIs DEF IInv, Excuses, DownSoFar
    <2>. QED BY <2>1, <2>2, <2>3 DEF InOrder
  <1>2. CallFails => docker \subseteq docker'
    BY DEF CallFails
  <1>3. Code \/ Exit \/ Cancel => UNCHANGED docker
    BY DEF Code, Proceed, Recover, TeardownNext, Exit, Cancel
  <1>4. ASSUME IInv, Next PROVE InOrder
    <2>1. CASE CallSucceeds
      BY <1>1, <1>4, <2>1 DEF CallSucceeds
    <2>2. CASE CallFails
      BY <1>2, <2>2 DEF InOrder
    <2>3. CASE \E s \in Threaded : OrphanEnds(s)
      BY <1>1, <1>4, <2>3 DEF OrphanEnds
    <2>4. CASE Code \/ Exit \/ Cancel
      BY <1>3, <2>4 DEF InOrder
    <2>. QED BY <1>4, <2>1, <2>2, <2>3, <2>4 DEF Next, Calls
  <1>5. IInv /\ [Next]_vars => [InOrder]_vars
    BY <1>4
  <1>6. TakenDownInOrder <=> [][InOrder]_vars
    BY PTL DEF TakenDownInOrder, InOrder
  <1>. QED BY <1>5, <1>6, Invariance, PTL DEF Spec
-----------------------------------------------------------------------------
(***************************************************************************)
(* ModuleInstall.                                                          *)
(***************************************************************************)

\* Nothing has been done yet.
LEMMA InstallInitIInv == ASSUME Install!JobsAssumption, Install!Init PROVE Install!IInv
<1>1. /\ attempt \in 0..MaxAttempts /\ (installPc # "press" => attempt = 0)
      /\ job \in Jobs /\ rest = job.modules
  BY DEF Install!Init, Install!JobsAssumption
<1>2. /\ job.container \in BOOLEAN /\ rest \in Seq(Modules) /\ rest # <<>>
      /\ ~job.container => Len(rest) <= 1
  <2>1. Len(rest) = 1 => Len(rest) <= 1
    OBVIOUS
  <2> QED
    BY <1>1, <2>1 DEF Install!JobsAssumption
<1>3. installPc \in {"check", "find"} /\ (installPc = "check" => job.container)
  BY <1>2 DEF Install!Init
<1>4. Install!TypeOK
  BY <1>1, <1>3 DEF Install!Init, Install!TypeOK, Install!Over
<1>5. Install!Control
  BY <1>1, <1>2, <1>3 DEF Install!Control, Install!Over
<1>6. Install!NoneLost
  BY <1>1 DEF Install!NoneLost
<1>7. Install!PressCounts
  BY <1>3 DEF Install!PressCounts
<1> QED
  BY <1>4, <1>5, <1>6, <1>7 DEF Install!IInv

\* Going on to the next module: the current one is in the state asked for.
LEMMA NextModuleProgress ==
  ASSUME Install!JobsAssumption, Install!IInv, installPc \notin Install!Over,
         Install!Reached(Install!Current), Install!NextModule,
         UNCHANGED <<state, job>>, attempt' = 0
  PROVE  /\ Install!Control' /\ Install!NoneLost' /\ Install!PressCounts'
         /\ installPc' \in {"done", "check"} /\ second' \in BOOLEAN
<1>1. /\ rest \in Seq(Modules) /\ rest # <<>> /\ rest' = Tail(rest) /\ job' = job /\ state' = state
      /\ installPc' = IF rest' = <<>> THEN "done" ELSE "check"
      /\ second' = FALSE
  BY DEF Install!IInv, Install!Control, Install!NextModule
<1>2. /\ rest' \in Seq(Modules) /\ Len(rest') = Len(rest) - 1
      /\ Len(rest) \in Nat /\ Install!Current = rest[1]
      /\ \A k \in DOMAIN rest : k = 1 \/ (k - 1 \in DOMAIN rest' /\ rest'[k - 1] = rest[k])
  BY <1>1 DEF Install!Current
<1>3. rest' # <<>> => Len(rest') > 0
  BY <1>2
<1>4. Install!Control'
  BY <1>1, <1>2, <1>3 DEF Install!IInv, Install!Control, Install!Over
<1>5. Install!NoneLost'
  <2> SUFFICES ASSUME NEW i \in DOMAIN job.modules, ~Install!Reached(job.modules[i])
               PROVE  \E k \in DOMAIN rest' : rest'[k] = job.modules[i]
    BY <1>1 DEF Install!NoneLost, Install!Reached
  <2>1. PICK k \in DOMAIN rest : rest[k] = job.modules[i]
    BY DEF Install!IInv, Install!NoneLost
  <2>2. k # 1
    BY <1>2, <2>1
  <2> QED
    BY <1>2, <2>1, <2>2
<1>6. Install!PressCounts'
  BY <1>1 DEF Install!PressCounts
<1> QED
  BY <1>1, <1>4, <1>5, <1>6

\* What holds while the call stays at its module and nothing is committed.
LEMMA SameModuleProgress ==
  ASSUME Install!IInv, installPc \notin Install!Over, UNCHANGED <<state, job, rest>>,
         installPc' \in {"check", "find", "press", "fetch", "wait ready", "raised"},
         installPc' = "check" => job.container, installPc' # "press" => attempt' = 0,
         installPc' = "fetch" \/ (installPc' = "press" /\ answer' = "ok")
           => Install!Reached(Install!Current)
  PROVE  Install!Control' /\ Install!NoneLost' /\ Install!PressCounts'
<1>1. Install!Control'
  BY DEF Install!IInv, Install!Control, Install!Over
<1>2. Install!NoneLost'
  BY DEF Install!IInv, Install!NoneLost, Install!Reached
<1>3. Install!PressCounts'
  BY DEF Install!PressCounts, Install!Reached, Install!Current
<1> QED
  BY <1>1, <1>2, <1>3

\* A commit, of this press or of a late one, takes no module out of the state
\* asked for.
LEMMA CommitProgress ==
  ASSUME Install!IInv, NEW m \in Modules, state' \in {state, Install!Applied(m)},
         UNCHANGED <<job, rest, installPc, attempt>>,
         UNCHANGED answer \/ (answer' = "ok" => m = Install!Current /\ state' = Install!Applied(m))
  PROVE  Install!Control' /\ Install!NoneLost' /\ Install!PressCounts' /\ state' \in SUBSET Modules
<1>1. Install!Control'
  BY DEF Install!IInv, Install!Control
<1>2. \A n : /\ job.op = "uninstall" /\ n \notin state => n \notin state'
             /\ job.op # "uninstall" /\ n \in state => n \in state'
  BY DEF Install!Applied
<1>3. Install!NoneLost'
  BY <1>2 DEF Install!IInv, Install!NoneLost, Install!Reached
<1>4. Install!PressCounts'
  BY <1>2 DEF Install!IInv, Install!PressCounts, Install!Reached, Install!Current, Install!Applied
<1>5. state' \in SUBSET Modules
  BY DEF Install!Applied, Install!IInv, Install!TypeOK
<1> QED
  BY <1>1, <1>3, <1>4, <1>5

\* The invariant is inductive.
LEMMA InstallStepIInv ==
  ASSUME Install!JobsAssumption, Install!IInv, [Install!Next]_(Install!vars)
  PROVE  Install!IInv'
<1> USE DEF Install!Over
<1>0. MaxAttempts \in Nat \ {0} /\ attempt \in 0..MaxAttempts /\ (installPc # "press"
      => attempt = 0)
  BY DEF Install!JobsAssumption, Install!IInv, Install!TypeOK, Install!Control
<1>t. SUFFICES Install!TypeOK' /\ Install!Control' /\ Install!NoneLost' /\ Install!PressCounts'
  BY DEF Install!IInv
<1>1. CASE Install!Check
  <2>1. CASE Install!Current \in state /\ Install!NextModule
    <3>1. Install!Reached(Install!Current)
      BY <1>1, <2>1 DEF Install!Check, Install!IInv, Install!Control, Install!JobsAssumption,
         Install!Reached
    <3> QED
      BY <1>0, <1>1, <2>1, <3>1, NextModuleProgress DEF Install!Check, Install!IInv, Install!TypeOK
  <2>2. CASE installPc' \in {"find", "raised"} /\ UNCHANGED <<rest, second>>
    <3>1. Install!Control' /\ Install!NoneLost' /\ Install!PressCounts'
      BY <1>0, <1>1, <2>2, SameModuleProgress DEF Install!Check
    <3> QED
      BY <1>1, <2>2, <3>1 DEF Install!Check, Install!IInv, Install!TypeOK
  <2> QED
    BY <1>1, <2>1, <2>2 DEF Install!Check
<1>2. CASE Install!Find
  <2>1. CASE job.op = "install" /\ Install!Current \in state /\ Install!NextModule
             /\ UNCHANGED <<attempt, answer>>
    <3>1. Install!Reached(Install!Current)
      BY <2>1 DEF Install!Reached
    <3> QED
      BY <1>0, <1>2, <2>1, <3>1, NextModuleProgress DEF Install!Find, Install!IInv, Install!TypeOK
  <2>2. CASE Install!Press /\ UNCHANGED <<rest, second>>
    <3>1. Install!Control' /\ Install!NoneLost' /\ Install!PressCounts'
      BY <1>2, <2>2, SameModuleProgress DEF Install!Find, Install!Press
    <3>2. attempt' \in 0..MaxAttempts
      BY <1>0, <1>2, <2>2 DEF Install!Find, Install!Press
    <3> QED
      BY <1>2, <2>2, <3>1, <3>2 DEF Install!Find, Install!Press, Install!IInv, Install!TypeOK
  <2>3. CASE (\E broken \in BOOLEAN : Install!Leave(broken)) /\ UNCHANGED <<attempt, answer>>
    <3>1. installPc' \in {"wait ready", "raised"} /\ UNCHANGED <<rest, second, attempt, answer>>
      BY <2>3 DEF Install!Leave
    <3>2. installPc = "find" /\ UNCHANGED <<state, job, late>>
      BY <1>2 DEF Install!Find
    <3>3. Install!Control' /\ Install!NoneLost' /\ Install!PressCounts'
      BY <1>0, <3>1, <3>2, SameModuleProgress
    <3> QED
      BY <3>1, <3>2, <3>3 DEF Install!IInv, Install!TypeOK
  <2>4. CASE job.op = "upgrade" /\ Install!Leave(FALSE) /\ UNCHANGED <<attempt, answer>>
    BY <2>3, <2>4
  <2> QED
    BY <1>2, <2>1, <2>2, <2>3, <2>4 DEF Install!Find
<1>3. CASE Install!Pressed
  <2>0. installPc = "press" /\ UNCHANGED <<state, job, late>>
    BY <1>3 DEF Install!Pressed
  <2>1. CASE Install!Retries
    <3>1. Install!Press /\ UNCHANGED <<rest, second>>
      BY <1>3, <2>1 DEF Install!Pressed
    <3>2. Install!Control' /\ Install!NoneLost' /\ Install!PressCounts'
      BY <2>0, <3>1, SameModuleProgress DEF Install!Press
    <3>3. attempt' \in 0..MaxAttempts
      BY <1>0, <2>1, <3>1 DEF Install!Retries, Install!Press
    <3> QED
      BY <2>0, <3>1, <3>2, <3>3 DEF Install!Press, Install!IInv, Install!TypeOK
  <2>2. CASE ~Install!Retries
    <3>1. Install!PressEnds /\ attempt' = 0 /\ answer' = answer
      BY <1>3, <2>2 DEF Install!Pressed
    <3>2. installPc' \in {"fetch", "wait ready", "raised"} /\ (installPc' = "fetch"
          => answer = "ok")
      BY <1>3, <3>1 DEF Install!PressEnds, Install!Leave
    <3>3. UNCHANGED <<rest, second>>
      BY <3>1 DEF Install!PressEnds, Install!Leave
    <3>4. installPc' = "fetch" => Install!Reached(Install!Current)
      BY <2>0, <3>2 DEF Install!IInv, Install!PressCounts
    <3>5. Install!Control' /\ Install!NoneLost' /\ Install!PressCounts'
      BY <2>0, <3>1, <3>2, <3>3, <3>4, SameModuleProgress
    <3>6. attempt' \in 0..MaxAttempts
      BY <1>0, <3>1
    <3> QED
      BY <2>0, <3>1, <3>2, <3>3, <3>5, <3>6 DEF Install!IInv, Install!TypeOK
  <2> QED
    BY <2>1, <2>2
<1>4. CASE Install!Fetch
  <2>0. installPc = "fetch" /\ UNCHANGED <<state, job, attempt, late, answer>>
    BY <1>4 DEF Install!Fetch
  <2>1. CASE Install!NextModule
    <3>1. Install!Reached(Install!Current)
      BY <2>0 DEF Install!IInv, Install!PressCounts
    <3> QED
      BY <1>0, <2>0, <2>1, <3>1, NextModuleProgress DEF Install!IInv, Install!TypeOK
  <2>2. CASE \E broken \in BOOLEAN : Install!Leave(broken)
    <3>1. installPc' \in {"wait ready", "raised"} /\ UNCHANGED <<rest, second>>
      BY <2>2 DEF Install!Leave
    <3>2. Install!Control' /\ Install!NoneLost' /\ Install!PressCounts'
      BY <1>0, <2>0, <3>1, SameModuleProgress
    <3> QED
      BY <2>0, <3>1, <3>2 DEF Install!IInv, Install!TypeOK
  <2> QED
    BY <1>4, <2>1, <2>2 DEF Install!Fetch
<1>5. CASE Install!Again
  <2>1. Install!Control' /\ Install!NoneLost' /\ Install!PressCounts'
    BY <1>0, <1>5, SameModuleProgress DEF Install!Again
  <2> QED
    BY <1>5, <2>1 DEF Install!Again, Install!IInv, Install!TypeOK
<1>6. CASE Install!ServerAnswers
  <2>0. installPc = "press" /\ UNCHANGED <<job, rest, installPc, attempt, second, late>>
    BY <1>6 DEF Install!ServerAnswers
  <2>1. Install!Current \in Modules
    BY <2>0 DEF Install!IInv, Install!Control, Install!Current
  <2>2. /\ state' \in {state, Install!Applied(Install!Current)} /\ (answer' = "ok"
           => state' = Install!Applied(Install!Current))
        /\ answer' \in {"ok", "ir_cron", "ir_cron in debug", "refused"}
    BY <1>6 DEF Install!ServerAnswers
  <2>3. Install!Control' /\ Install!NoneLost' /\ Install!PressCounts' /\ state' \in SUBSET Modules
    BY <2>0, <2>1, <2>2, CommitProgress
  <2> QED
    BY <2>0, <2>2, <2>3 DEF Install!IInv, Install!TypeOK
<1>7. CASE Install!Breaks
  <2>0. /\ installPc = "press" /\ UNCHANGED <<state, job, rest, installPc, attempt, second>>
        /\ answer' = "broken" /\ late' \in {late, late \cup {Install!Current}}
    BY <1>7 DEF Install!Breaks
  <2>1. Install!Current \in Modules
    BY <2>0 DEF Install!IInv, Install!Control, Install!Current
  <2>2. Install!Control' /\ Install!NoneLost' /\ Install!PressCounts'
    BY <2>0, SameModuleProgress
  <2> QED
    BY <2>0, <2>1, <2>2 DEF Install!IInv, Install!TypeOK
<1>8. CASE \E m \in Modules : Install!LateCommit(m)
  <2>1. PICK m \in Modules : Install!LateCommit(m)
    BY <1>8
  <2>2. /\ state' \in {state, Install!Applied(m)} /\ late' = late \ {m}
        /\ UNCHANGED <<job, rest, installPc, attempt, second, answer>>
    BY <2>1 DEF Install!LateCommit
  <2>3. Install!Control' /\ Install!NoneLost' /\ Install!PressCounts' /\ state' \in SUBSET Modules
    BY <2>2, CommitProgress
  <2> QED
    BY <2>2, <2>3 DEF Install!IInv, Install!TypeOK
<1>9. CASE UNCHANGED Install!vars
  BY <1>9 DEF Install!vars, Install!IInv, Install!TypeOK, Install!Control, Install!NoneLost,
     Install!PressCounts, Install!Reached, Install!Current
<1> QED
  BY <1>1, <1>2, <1>3, <1>4, <1>5, <1>6, <1>7, <1>8, <1>9 DEF Install!Next, Install!Code

\* The inductive invariant, types included, holds in every reachable state.
THEOREM InstallInvariance == ASSUME Install!JobsAssumption PROVE Install!Spec => []Install!IInv
BY InstallInitIInv, InstallStepIInv, PTL DEF Install!Spec

\* Whatever was locked, refused, broken off, late and repeated, and with any
\* number of modules and attempts: a call that comes to its end without an
\* exception leaves its modules in the state it was asked for.
THEOREM InstallDone == ASSUME Install!JobsAssumption PROVE Install!Spec => []Install!DoneIsDone
<1>1. Install!IInv => Install!DoneIsDone
  BY DEF Install!IInv, Install!Control, Install!NoneLost, Install!DoneIsDone
<1> QED
  BY <1>1, InstallInvariance, PTL

-----------------------------------------------------------------------------
(***************************************************************************)
(* A behaviour of Start is one of ContainerStart and one of ModuleInstall. *)
(***************************************************************************)

\* Whichever of them takes the steps, the start of the container goes by
\* ContainerStart and the installation by ModuleInstall.
THEOREM Parts == BothSpec => Spec /\ Install!Spec
<1>1. BothInit => Init /\ Install!Init
  BY DEF BothInit
<1>2. [BothNext]_bothVars => [Next]_vars
  BY DEF BothNext, Starting, Installing, bothVars
<1>3. [BothNext]_bothVars => [Install!Next]_(Install!vars)
  BY DEF BothNext, Starting, Installing, bothVars, installVars, Install!vars
<1> QED
  BY <1>1, <1>2, <1>3, PTL DEF BothSpec, Spec, Install!Spec

\* Whatever was locked, refused, broken off, late and repeated, and with any
\* number of modules and attempts: a call that comes to its end without an
\* exception leaves its modules in the state it was asked for.
THEOREM DoneIsReached == BothSpec => []DoneIsDone
BY InstallDone, CallsAssumption, Parts, PTL DEF DoneIsDone
=============================================================================
