----------------------- MODULE PropertyDispatchProofs -----------------------
(***************************************************************************)
(* Proofs about PropertyDispatch, for every batch size and pool size.      *)
(***************************************************************************)
EXTENDS PropertyDispatch, TLAPS

\* The iterator's records, and the pool, whatever the constants.
LEMMA Constants ==
  /\ N \in Nat
  /\ Records = 1..N
  /\ Workers \subseteq Nat
  /\ N > 0 => Workers # {}
  /\ N = 0 => Workers = {}
BY BatchAssumption DEF Records, Workers

\* The initial state satisfies the inductive invariant.
LEMMA InitIInv == Init => IInv
BY Constants DEF Init, IInv, TypeOK, Prefix, Exclusive, Sent, Accounted, Phases,
   ReceiptsTruthful, CancelReportExact, ReturnComplete, Drained, Holding, Live,
   LiveWorkers, Returned, Verdicts, Requests

\* A worker that runs, runs under an uncancelled gather().
LEMMA RunsWhileGathering ==
  ASSUME IInv, NEW w \in Workers, task[w] \in Live, w \notin cancelling
  PROVE  caller = "gathering"
BY DEF IInv, TypeOK, Phases, Drained, Live, LiveWorkers, Returned

\* One turn of a worker, after its last record was given the receipt in got.
LEMMA TakeNextIInv ==
  ASSUME IInv, NEW w \in Workers, task[w] \in Live, w \notin cancelling,
         NEW got \in [Records -> Verdicts \cup {"none"}],
         \A r \in Records : got[r] # receipts[r] => Holding(w) /\ r = holds[w],
         Holding(w) => got[holds[w]] # "none",
         \A r \in Records :
           /\ got[r] = "acknowledged" => request[r] = "applied"
           /\ got[r] = "failed" => request[r] \in {"none", "rejected"},
         TakeNext(w, got),
         UNCHANGED <<caller, cancelling, session, request, posts, reportVars>>
  PROVE  IInv'
<1>1. caller = "gathering"
  BY RunsWhileGathering
<1>2. /\ TypeOK /\ Prefix /\ Exclusive /\ Sent /\ Accounted /\ Phases
      /\ Records = 1..N /\ N \in Nat
  BY Constants DEF IInv
<1>types. /\ task \in [Workers -> Live \cup {"absent", "finished", "cancelled"}]
          /\ holds \in [Workers -> 0..N]
          /\ queue \in 1..(N + 1)
          /\ started \subseteq Records
          /\ receipts \in [Records -> Verdicts \cup {"none"}]
  BY <1>2 DEF TypeOK
<1>3. /\ UNCHANGED <<caller, cancelling, session, request, posts, reported, undispatched>>
      /\ \A v \in Workers : v # w => task'[v] = task[v] /\ holds'[v] = holds[v]
      /\ task' \in [Workers -> Live \cup {"absent", "finished", "cancelled"}]
      /\ holds' \in [Workers -> 0..N]
  <2>1. UNCHANGED <<caller, cancelling, session, request, posts, reported, undispatched>>
    BY DEF reportVars
  <2>2. PICK s \in {"finished", "confirming"}, h \in 0..N :
          /\ task' = [task EXCEPT ![w] = s]
          /\ holds' = [holds EXCEPT ![w] = h]
    <3>1. CASE queue > N
      BY <3>1, <1>2, <1>types DEF TakeNext
    <3>2. CASE ~(queue > N)
      <4>1. queue \in 0..N /\ 0 \in 0..N
        BY <3>2, <1>2, <1>types
      <4>. QED
        BY <4>1, <3>2, <1>2, <1>types DEF TakeNext
    <3>. QED
      BY <3>1, <3>2
  <2>. QED
    BY <2>1, <2>2, <1>types DEF Live
<1>4. \/ /\ queue > N
         /\ task'[w] = "finished"
         /\ queue' = queue /\ started' = started /\ receipts' = got
      \/ /\ queue <= N
         /\ task'[w] = "confirming" /\ holds'[w] = queue
         /\ queue' = queue + 1 /\ started' = started \cup {queue} /\ receipts' = got
      \/ /\ queue <= N
         /\ task'[w] = "finished"
         /\ queue' = N + 1 /\ started' = started \cup queue..N
         /\ receipts' = [r \in Records |-> IF r >= queue THEN "failed" ELSE got[r]]
  BY <1>types DEF TakeNext
<1>5. \A r \in Records : r >= queue => got[r] = "none"
  <2>1. SUFFICES ASSUME NEW r \in Records, r >= queue PROVE got[r] = "none"
    OBVIOUS
  <2>2. r \notin started /\ receipts[r] = "none"
    BY <1>2, <1>types, <2>1 DEF Prefix
  <2>3. ~(Holding(w) /\ r = holds[w])
    BY <1>2, <2>2 DEF Exclusive
  <2>. QED
    BY <2>2, <2>3
<1>6. Prefix'
  <2>1. started' = {r \in Records : r < queue'}
    BY <1>2, <1>4, <1>types DEF Prefix
  <2>2. \A r \in Records \ started' : r \notin started /\ receipts'[r] = "none"
    BY <1>2, <1>4, <1>5, <1>types, <2>1 DEF Prefix
  <2>. QED
    BY <1>2, <1>3, <2>1, <2>2 DEF Prefix
<1>7. TypeOK'
  <2>1. queue' \in 1..(N + 1)
    BY <1>2, <1>4, <1>types
  <2>2. receipts' \in [Records -> Verdicts \cup {"none"}]
    BY <1>4 DEF Verdicts
  <2>3. started' \subseteq Records
    BY <1>6 DEF Prefix
  <2>. QED
    BY <1>2, <1>3, <2>1, <2>2, <2>3 DEF TypeOK
<1>8. Exclusive'
  <2>1. \A v \in Workers : v # w /\ Holding(v)' =>
          /\ Holding(v) /\ holds'[v] = holds[v] /\ task'[v] = task[v]
          /\ holds[v] \in started /\ receipts[holds[v]] = "none"
    BY <1>2, <1>3 DEF Exclusive, Holding
  <2>2. \A v \in Workers : v # w /\ Holding(v)' =>
          /\ holds[v] \in Records /\ holds[v] < queue
          /\ got[holds[v]] = "none"
    <3>1. SUFFICES ASSUME NEW v \in Workers, v # w, Holding(v)'
                   PROVE  holds[v] \in Records /\ holds[v] < queue /\ got[holds[v]] = "none"
      OBVIOUS
    <3>2. holds[v] \in Records /\ holds[v] < queue
      BY <2>1, <3>1, <1>2 DEF Prefix
    <3>3. ~(Holding(w) /\ holds[v] = holds[w])
      BY <2>1, <3>1, <1>2 DEF Exclusive
    <3>. QED
      BY <2>1, <3>1, <3>2, <3>3
  <2>3. \A v \in Workers : v # w /\ Holding(v)' =>
          /\ holds'[v] \in started' /\ receipts'[holds'[v]] = "none"
          /\ task'[v] = "confirming" => request'[holds'[v]] = "none"
    <3>1. SUFFICES ASSUME NEW v \in Workers, v # w, Holding(v)'
                   PROVE  /\ holds'[v] \in started' /\ receipts'[holds'[v]] = "none"
                          /\ task'[v] = "confirming" => request'[holds'[v]] = "none"
      OBVIOUS
    <3>2. holds'[v] \in started' /\ receipts'[holds'[v]] = "none"
      BY <2>1, <2>2, <3>1, <1>2, <1>4, <1>types
    <3>3. task'[v] = "confirming" => request'[holds'[v]] = "none"
      BY <2>1, <3>1, <1>2, <1>3 DEF Exclusive, Holding
    <3>. QED
      BY <3>2, <3>3
  <2>4. Holding(w)' =>
          /\ holds'[w] = queue /\ queue <= N /\ queue \in Records
          /\ holds'[w] \in started' /\ receipts'[holds'[w]] = "none"
          /\ request'[holds'[w]] = "none"
    <3>1. SUFFICES ASSUME Holding(w)'
                   PROVE  /\ holds'[w] = queue /\ queue <= N /\ queue \in Records
                          /\ holds'[w] \in started' /\ receipts'[holds'[w]] = "none"
                          /\ request'[holds'[w]] = "none"
      OBVIOUS
    <3>2. /\ holds'[w] = queue /\ queue <= N
          /\ started' = started \cup {queue} /\ receipts' = got
      BY <3>1, <1>4 DEF Holding
    <3>3. queue \in Records /\ queue \notin started
      BY <3>2, <1>2, <1>types DEF Prefix
    <3>. QED
      BY <3>2, <3>3, <1>2, <1>3, <1>5, <1>types DEF Prefix
  <2>5. \A u, v \in Workers : Holding(u)' /\ Holding(v)' /\ u # v => holds'[u] # holds'[v]
    <3>1. SUFFICES ASSUME NEW u \in Workers, NEW v \in Workers,
                          Holding(u)', Holding(v)', u # v
                   PROVE  holds'[u] # holds'[v]
      OBVIOUS
    <3>2. CASE u # w /\ v # w
      BY <2>1, <3>1, <3>2, <1>2 DEF Exclusive
    <3>3. CASE u = w
      BY <2>1, <2>2, <2>4, <3>1, <3>3, <1>2, <1>types
    <3>4. CASE v = w
      BY <2>1, <2>2, <2>4, <3>1, <3>4, <1>2, <1>types
    <3>. QED
      BY <3>2, <3>3, <3>4
  <2>. QED
    BY <2>3, <2>4, <2>5 DEF Exclusive
<1>9. Sent'
  BY <1>2, <1>3 DEF Sent
<1>10. Accounted'
  <2>1. \A r \in started' : \/ receipts'[r] # "none"
                            \/ \E v \in Workers : Holding(v)' /\ holds'[v] = r
                            \/ \E v \in Workers : task'[v] = "cancelled"
    <3>1. SUFFICES ASSUME NEW r \in started', receipts'[r] = "none",
                          ~\E v \in Workers : task'[v] = "cancelled"
                   PROVE  \E v \in Workers : Holding(v)' /\ holds'[v] = r
      OBVIOUS
    <3>2. r \in Records
      BY <1>7 DEF TypeOK
    <3>3. CASE r \notin started
      <4>1. task'[w] = "confirming" /\ holds'[w] = r
        BY <3>1, <3>2, <3>3, <1>4, <1>2, <1>types
      <4>. QED
        BY <4>1 DEF Holding
    <3>4. CASE r \in started
      <4>1. r < queue /\ receipts'[r] = got[r]
        BY <3>2, <3>4, <1>2, <1>4, <1>types DEF Prefix
      <4>2. receipts[r] = "none" /\ ~(Holding(w) /\ holds[w] = r)
        BY <3>1, <3>2, <4>1
      <4>3. ~\E v \in Workers : task[v] = "cancelled"
        BY <3>1, <1>3 DEF Live
      <4>4. PICK v \in Workers : Holding(v) /\ holds[v] = r
        BY <3>4, <4>2, <4>3, <1>2 DEF Accounted
      <4>. QED
        BY <4>2, <4>4, <1>3 DEF Holding
    <3>. QED
      BY <3>3, <3>4
  <2>2. \A v \in Workers : task'[v] = "finished" => queue' = N + 1
    <3>1. queue > N => queue = N + 1
      BY <1>2, <1>types
    <3>2. \A v \in Workers : task[v] = "finished" => queue = N + 1
      BY <1>2 DEF Accounted
    <3>3. queue' = N + 1 \/ (queue <= N /\ task'[w] = "confirming")
      BY <3>1, <1>4
    <3>. QED
      BY <3>2, <3>3, <1>2, <1>3
  <2>. QED
    BY <2>1, <2>2 DEF Accounted
<1>11. Phases'
  <2>1. \A v \in Workers : (task'[v] = "absent") <=> (caller' = "called")
    BY <1>1, <1>2, <1>3, <1>4 DEF Phases
  <2>2. cancelling' \subseteq LiveWorkers'
    BY <1>2, <1>3 DEF Phases, LiveWorkers
  <2>. QED
    BY <2>1, <2>2, <1>1, <1>2, <1>3 DEF Phases
<1>12. ReceiptsTruthful'
  BY <1>2, <1>3, <1>4, <1>5 DEF ReceiptsTruthful, Prefix, TypeOK
<1>13. CancelReportExact' /\ ReturnComplete' /\ Drained'
  BY <1>1, <1>3 DEF CancelReportExact, ReturnComplete, Drained, Returned
<1>. QED
  BY <1>6, <1>7, <1>8, <1>9, <1>10, <1>11, <1>12, <1>13 DEF IInv

\* A verdict write_one gives is true of what became of the request.
LEMMA WriteOneTruthful ==
  ASSUME NEW fate \in Requests, NEW outcome \in Outcomes(fate)
  PROVE  /\ WriteOne(outcome) \in Verdicts
         /\ WriteOne(outcome) = "acknowledged" => fate = "applied"
         /\ WriteOne(outcome) = "failed" => fate = "rejected"
BY DEF Outcomes, WriteOne, Verdicts, Requests

\* A worker settles the record it holds and goes on.
LEMMA SettleIInv ==
  ASSUME IInv, NEW w \in Workers, Holding(w), w \notin cancelling,
         NEW verdict \in Verdicts,
         verdict = "acknowledged" => request[holds[w]] = "applied",
         verdict = "failed" => request[holds[w]] \in {"none", "rejected"},
         Settle(w, verdict),
         UNCHANGED <<caller, cancelling, session, request, posts, reportVars>>
  PROVE  IInv'
<1>. DEFINE got == [receipts EXCEPT ![holds[w]] = verdict]
<1>1. TypeOK /\ Exclusive /\ ReceiptsTruthful
  BY DEF IInv
<1>2. holds[w] \in Records /\ task[w] \in Live
  BY <1>1 DEF Exclusive, TypeOK, Holding, Live
<1>3. got \in [Records -> Verdicts \cup {"none"}]
  BY <1>1 DEF TypeOK
<1>4. \A r \in Records : got[r] = IF r = holds[w] THEN verdict ELSE receipts[r]
  BY <1>1, <1>2 DEF TypeOK
<1>5. \A r \in Records : got[r] # receipts[r] => Holding(w) /\ r = holds[w]
  BY <1>4
<1>6. got[holds[w]] # "none"
  BY <1>2, <1>4 DEF Verdicts
<1>7. \A r \in Records :
        /\ got[r] = "acknowledged" => request[r] = "applied"
        /\ got[r] = "failed" => request[r] \in {"none", "rejected"}
  BY <1>1, <1>4 DEF ReceiptsTruthful
<1>8. TakeNext(w, got)
  BY DEF Settle
<1>. HIDE DEF got
<1>. QED
  BY <1>2, <1>3, <1>5, <1>6, <1>7, <1>8, TakeNextIInv

\* Every step of a worker preserves the inductive invariant.
LEMMA WorkerIInv ==
  ASSUME IInv, NEW w \in Workers, WorkerStep(w)
  PROVE  IInv'
<1>1. TypeOK /\ Prefix /\ Exclusive /\ Sent /\ Accounted /\ Phases /\ ReceiptsTruthful
  BY DEF IInv
<1>2. CASE WorkerStarts(w)
  <2>1. task[w] = "new" /\ w \notin cancelling /\ ~Holding(w)
    BY <1>2 DEF WorkerStarts, Resumes, Holding
  <2>2. receipts \in [Records -> Verdicts \cup {"none"}]
    BY <1>1 DEF TypeOK
  <2>3. /\ TakeNext(w, receipts)
        /\ UNCHANGED <<caller, cancelling, session, request, posts, reportVars>>
    BY <1>2 DEF WorkerStarts
  <2>. QED
    BY <1>1, <2>1, <2>2, <2>3, TakeNextIInv DEF ReceiptsTruthful, Live
<1>3. CASE Confirmed(w)
  <2>1. /\ task[w] = "confirming" /\ w \notin cancelling /\ Holding(w)
        /\ request[holds[w]] = "none" /\ holds[w] \in started /\ holds[w] \in Records
        /\ receipts[holds[w]] = "none"
    BY <1>1, <1>3 DEF Confirmed, Resumes, Holding, Exclusive, TypeOK
  <2>2. CASE session # "captured"
    BY <1>3, <2>1, <2>2, SettleIInv DEF Confirmed, Verdicts
  <2>3. CASE session = "captured"
    <3>1. /\ task' = [task EXCEPT ![w] = "calling"]
          /\ request' = [request EXCEPT ![holds[w]] = "posted"]
          /\ posts' = [posts EXCEPT ![holds[w]] = @ + 1]
          /\ UNCHANGED <<queue, started, receipts, holds, caller, cancelling,
                         session, reported, undispatched>>
      BY <1>3, <2>3 DEF Confirmed, reportVars
    <3>2. TypeOK'
      BY <1>1, <2>1, <3>1 DEF TypeOK, Live, Requests
    <3>3. Prefix'
      BY <1>1, <2>1, <3>1 DEF Prefix, TypeOK
    <3>4. \A v \in Workers : Holding(v)' <=> Holding(v)
      BY <1>1, <2>1, <3>1 DEF Holding, TypeOK
    <3>5. Exclusive'
      <4>1. \A v \in Workers : task'[v] = "confirming" => v # w /\ task[v] = "confirming"
        BY <1>1, <3>1 DEF TypeOK
      <4>2. \A v \in Workers : task'[v] = "confirming" => request'[holds[v]] = "none"
        BY <1>1, <2>1, <3>1, <4>1 DEF Exclusive, Holding, TypeOK
      <4>. QED
        BY <1>1, <3>1, <3>4, <4>2 DEF Exclusive
    <3>6. Sent'
      BY <1>1, <2>1, <3>1 DEF Sent, TypeOK
    <3>7. Accounted'
      BY <1>1, <2>1, <3>1, <3>4 DEF Accounted, TypeOK
    <3>8. Phases'
      BY <1>1, <2>1, <3>1 DEF Phases, TypeOK, LiveWorkers, Live
    <3>9. ReceiptsTruthful'
      BY <1>1, <2>1, <3>1 DEF ReceiptsTruthful, TypeOK
    <3>10. CancelReportExact' /\ ReturnComplete' /\ Drained'
      BY <2>1, <3>1, RunsWhileGathering
         DEF CancelReportExact, ReturnComplete, Drained, Returned, Live
    <3>. QED
      BY <3>2, <3>3, <3>5, <3>6, <3>7, <3>8, <3>9, <3>10 DEF IInv
  <2>. QED
    BY <2>2, <2>3
<1>4. ASSUME NEW verdict \in {"failed", "unknown"}, NotConfirmed(w, verdict)
      PROVE  IInv'
  <2>1. /\ w \notin cancelling /\ Holding(w) /\ request[holds[w]] = "none"
    BY <1>1, <1>4 DEF NotConfirmed, Resumes, Holding, Exclusive
  <2>2. /\ verdict \in Verdicts /\ Settle(w, verdict)
        /\ UNCHANGED <<caller, cancelling, session, request, posts, reportVars>>
    BY <1>4 DEF NotConfirmed, Verdicts
  <2>. QED
    BY <1>4, <2>1, <2>2, SettleIInv
<1>5. CASE Answered(w)
  <2>1. /\ w \notin cancelling /\ Holding(w) /\ request[holds[w]] \in Requests
    BY <1>1, <1>5 DEF Answered, Resumes, Holding, Exclusive, TypeOK
  <2>2. PICK outcome \in Outcomes(request[holds[w]]) : Settle(w, WriteOne(outcome))
    BY <1>5 DEF Answered
  <2>3. UNCHANGED <<caller, cancelling, session, request, posts, reportVars>>
    BY <1>5 DEF Answered
  <2>. QED
    BY <2>1, <2>2, <2>3, WriteOneTruthful, SettleIInv
<1>6. CASE CancelDelivered(w)
  <2>1. /\ w \in LiveWorkers /\ w \in cancelling
        /\ task' = [task EXCEPT ![w] = "cancelled"]
        /\ holds' = [holds EXCEPT ![w] = 0]
        /\ cancelling' = cancelling \ {w}
        /\ UNCHANGED <<caller, queue, started, receipts, session, request, posts,
                       reported, undispatched>>
    BY <1>1, <1>6 DEF CancelDelivered, reportVars, Phases
  <2>2. \A v \in Workers : Holding(v)' => v # w /\ Holding(v) /\ holds'[v] = holds[v]
    BY <1>1, <2>1 DEF Holding, TypeOK
  <2>3. TypeOK'
    <3>1. 0 \in 0..N
      BY Constants
    <3>. QED
      BY <1>1, <2>1, <3>1 DEF TypeOK
  <2>4. Prefix' /\ Sent' /\ ReceiptsTruthful'
    BY <1>1, <2>1 DEF Prefix, Sent, ReceiptsTruthful
  <2>5. Exclusive'
    BY <1>1, <2>1, <2>2 DEF Exclusive, TypeOK
  <2>6. Accounted'
    BY <1>1, <2>1 DEF Accounted, TypeOK
  <2>7. LiveWorkers' = LiveWorkers \ {w}
    BY <1>1, <2>1 DEF LiveWorkers, Live, TypeOK
  <2>8. \A v \in Workers : (task'[v] = "absent") <=> (task[v] = "absent")
    BY <1>1, <2>1 DEF LiveWorkers, Live, TypeOK
  <2>9. Phases'
    BY <1>1, <2>1, <2>7, <2>8 DEF Phases
  <2>10. CancelReportExact' /\ ReturnComplete' /\ Drained'
    BY <2>1, <2>7 DEF IInv, CancelReportExact, ReturnComplete, Drained
  <2>. QED
    BY <2>3, <2>4, <2>5, <2>6, <2>9, <2>10 DEF IInv
<1>. QED
  BY <1>2, <1>3, <1>4, <1>5, <1>6 DEF WorkerStep

\* Every step of the coroutine that runs dispatch() preserves it.
LEMMA CallerIInv ==
  ASSUME IInv, CallerStep \/ Cancel \/ CancelAgain
  PROVE  IInv'
<1>1. /\ TypeOK /\ Prefix /\ Exclusive /\ Sent /\ Accounted /\ Phases
      /\ ReceiptsTruthful /\ CancelReportExact /\ ReturnComplete /\ Drained
  BY DEF IInv
<1>2. CASE CreateWorkers
  <2>1. /\ caller = "called" /\ caller' = "gathering"
        /\ task' = [w \in Workers |-> "new"]
        /\ UNCHANGED <<queue, started, receipts, holds, posts, cancelling,
                       session, request, reported, undispatched>>
    BY <1>2 DEF CreateWorkers, reportVars
  <2>2. \A w \in Workers : task[w] = "absent"
    BY <1>1, <2>1 DEF Phases
  <2>3. TypeOK'
    BY <1>1, <2>1 DEF TypeOK, Live
  <2>4. Prefix' /\ Sent' /\ ReceiptsTruthful' /\ Exclusive'
    BY <1>1, <2>1 DEF Prefix, Sent, ReceiptsTruthful, Exclusive, Holding
  <2>5. Accounted'
    BY <1>1, <2>1, <2>2 DEF Accounted, Holding
  <2>6. Phases'
    BY <1>1, <2>1, <2>2 DEF Phases, LiveWorkers, Live
  <2>. QED
    BY <2>1, <2>3, <2>4, <2>5, <2>6
       DEF IInv, CancelReportExact, ReturnComplete, Drained, Returned
<1>3. CASE Return
  <2>1. /\ caller = "gathering" /\ caller' = "returned" /\ reported' = receipts
        /\ \A w \in Workers : task[w] = "finished"
        /\ UNCHANGED <<queue, started, receipts, task, holds, posts, cancelling,
                       session, request, undispatched>>
    BY <1>3 DEF Return, workerVars
  <2>2. \A r \in Records : receipts[r] # "none"
    <3>1. SUFFICES ASSUME NEW r \in Records PROVE receipts[r] # "none"
      OBVIOUS
    <3>2. queue = N + 1
      <4>1. N > 0
        BY <3>1, Constants
      <4>. QED
        BY <4>1, <1>1, <2>1, Constants DEF Accounted
    <3>3. r \in started
      BY <1>1, <3>1, <3>2, Constants DEF Prefix
    <3>. QED
      BY <1>1, <2>1, <3>3 DEF Accounted, Holding
  <2>3. TypeOK' /\ Prefix' /\ Exclusive' /\ Sent' /\ Accounted' /\ ReceiptsTruthful'
    BY <1>1, <2>1 DEF TypeOK, Prefix, Exclusive, Sent, Accounted, ReceiptsTruthful,
       Holding, Returned
  <2>4. Phases'
    BY <1>1, <2>1 DEF Phases, LiveWorkers
  <2>5. CancelReportExact' /\ ReturnComplete' /\ Drained'
    BY <2>1, <2>2 DEF CancelReportExact, ReturnComplete, Drained, LiveWorkers, Live
  <2>. QED
    BY <2>3, <2>4, <2>5 DEF IInv
<1>4. CASE Raise
  <2>1. /\ caller = "draining" /\ caller' = "raised" /\ LiveWorkers = {}
        /\ reported' = [r \in Records |->
                          IF r \notin started THEN "none"
                          ELSE IF receipts[r] = "none" THEN "unknown" ELSE receipts[r]]
        /\ undispatched' = Records \ started
        /\ UNCHANGED <<queue, started, receipts, task, holds, posts, cancelling,
                       session, request>>
    BY <1>4 DEF Raise, workerVars
  <2>2. reported' \in [Records -> Verdicts \cup {"none"}]
    BY <1>1, <2>1 DEF TypeOK, Verdicts
  <2>3. TypeOK' /\ Prefix' /\ Exclusive' /\ Sent' /\ Accounted' /\ ReceiptsTruthful'
    BY <1>1, <2>1, <2>2 DEF TypeOK, Prefix, Exclusive, Sent, Accounted, ReceiptsTruthful,
       Holding, Returned
  <2>4. Phases'
    BY <1>1, <2>1 DEF Phases, LiveWorkers
  <2>5. CancelReportExact' /\ ReturnComplete' /\ Drained'
    BY <1>1, <2>1 DEF CancelReportExact, ReturnComplete, Drained, LiveWorkers, Prefix
  <2>. QED
    BY <2>3, <2>4, <2>5 DEF IInv
<1>5. ASSUME \/ Cancel
             \/ Drain
             \/ CancelAgain
             \/ Interrupted
      PROVE  IInv'
  <2>1. /\ caller \in {"gathering", "cancelled", "draining", "recancelled"}
        /\ caller' \in {"cancelled", "draining", "recancelled", "interrupted"}
        /\ cancelling' = LiveWorkers
        /\ caller' = "interrupted" => LiveWorkers = {}
        /\ UNCHANGED <<queue, started, receipts, task, holds, posts, session,
                       request, reported, undispatched>>
    BY <1>1, <1>5 DEF Cancel, Drain, CancelAgain, Interrupted, workerVars, reportVars, Phases
  <2>2. TypeOK' /\ Prefix' /\ Exclusive' /\ Sent' /\ Accounted' /\ ReceiptsTruthful'
    BY <1>1, <2>1 DEF TypeOK, Prefix, Exclusive, Sent, Accounted, ReceiptsTruthful,
       Holding, Returned, LiveWorkers
  <2>3. Phases'
    BY <1>1, <2>1 DEF Phases, LiveWorkers
  <2>4. CancelReportExact' /\ ReturnComplete' /\ Drained'
    BY <2>1 DEF CancelReportExact, ReturnComplete, Drained, LiveWorkers, Returned
  <2>. QED
    BY <2>2, <2>3, <2>4 DEF IInv
<1>. QED
  BY <1>2, <1>3, <1>4, <1>5 DEF CallerStep

\* So does everything the server, the network or another task may do.
LEMMA EnvironmentIInv ==
  ASSUME IInv,
         SessionChanges \/ \E r \in Records : ServerApplies(r) \/ ServerRejects(r)
  PROVE  IInv'
<1>1. /\ TypeOK /\ Prefix /\ Exclusive /\ Sent /\ Accounted /\ Phases
      /\ ReceiptsTruthful /\ CancelReportExact /\ ReturnComplete /\ Drained
  BY DEF IInv
<1>2. CASE SessionChanges
  BY <1>1, <1>2 DEF SessionChanges, workerVars, reportVars, IInv, TypeOK, Prefix,
     Exclusive, Sent, Accounted, Phases, ReceiptsTruthful, CancelReportExact,
     ReturnComplete, Drained, Holding, LiveWorkers
<1>3. ASSUME NEW r \in Records, ServerApplies(r) \/ ServerRejects(r)
      PROVE  IInv'
  <2>1. PICK f \in {"applied", "rejected"} :
          /\ request[r] = "posted"
          /\ request' = [request EXCEPT ![r] = f]
          /\ UNCHANGED <<caller, queue, started, receipts, task, holds, posts,
                         cancelling, session, reported, undispatched>>
    BY <1>3 DEF ServerApplies, ServerRejects, workerVars, reportVars
  <2>2. TypeOK' /\ Prefix' /\ Sent' /\ ReceiptsTruthful'
    BY <1>1, <1>3, <2>1 DEF TypeOK, Prefix, Sent, ReceiptsTruthful, Requests
  <2>3. Exclusive' /\ Accounted' /\ Phases'
    BY <1>1, <1>3, <2>1 DEF TypeOK, Exclusive, Accounted, Phases, Holding, LiveWorkers
  <2>4. CancelReportExact' /\ ReturnComplete' /\ Drained'
    BY <1>1, <1>3, <2>1 DEF TypeOK, CancelReportExact, ReturnComplete, Drained, LiveWorkers
  <2>. QED
    BY <2>2, <2>3, <2>4 DEF IInv
<1>. QED
  BY <1>2, <1>3

\* The invariant is inductive.
LEMMA StepIInv == IInv /\ [Next]_vars => IInv'
<1>1. ASSUME IInv, UNCHANGED vars PROVE IInv'
  BY <1>1 DEF vars, workerVars, reportVars, IInv, TypeOK, Prefix, Exclusive, Sent,
     Accounted, Phases, ReceiptsTruthful, CancelReportExact, ReturnComplete, Drained,
     Holding, LiveWorkers
<1>. QED
  BY <1>1, WorkerIInv, CallerIInv, EnvironmentIInv DEF Next

\* The state of dispatch() has its types, and satisfies the inductive
\* invariant, in every reachable state.
THEOREM Invariance == Spec => []IInv
BY InitIInv, StepIInv, PTL DEF Spec

\* Every variable keeps its type, for every batch and every pool.
THEOREM TypeCorrect == Spec => []TypeOK
<1>1. IInv => TypeOK
  BY DEF IInv
<1>. QED
  BY <1>1, Invariance, PTL

\* No receipt is wrong, whatever the answers, the session and the callback do
\* and however long the server takes (mutations.py:18-31).
THEOREM TruthfulReceipts == Spec => []ReceiptsTruthful
<1>1. IInv => ReceiptsTruthful
  BY DEF IInv
<1>. QED
  BY <1>1, Invariance, PTL

\* The shared iterator lets no record be written twice, for any pool size.
THEOREM WrittenOnce == Spec => []PostedOnce
<1>1. IInv => PostedOnce
  BY DEF IInv, Sent, PostedOnce
<1>. QED
  BY <1>1, Invariance, PTL

\* PropertyBatchCancelledError partitions the batch, for every batch and pool.
THEOREM ExactCancelReport == Spec => []CancelReportExact
<1>1. IInv => CancelReportExact
  BY DEF IInv
<1>. QED
  BY <1>1, Invariance, PTL

\* A normal return has a receipt for every payload: receipts[rid] at
\* mutations.py:63 cannot raise KeyError.
THEOREM CompleteReturn == Spec => []ReturnComplete
<1>1. IInv => ReturnComplete
  BY DEF IInv
<1>. QED
  BY <1>1, Invariance, PTL

\* dispatch() never leaves a live worker behind.
THEOREM WorkersDrained == Spec => []Drained
<1>1. IInv => Drained
  BY DEF IInv
<1>. QED
  BY <1>1, Invariance, PTL

\* What a turn of a worker may touch.
LEMMA TurnFrame ==
  ASSUME NEW w \in Workers, WorkerStep(w), IInv
  PROVE  /\ UNCHANGED <<caller, session, reported, undispatched>>
         /\ CancelDelivered(w) \/ caller = "gathering"
<1>1. WorkerStarts(w) \/ Confirmed(w) \/ Answered(w)
      \/ (\E v \in {"failed", "unknown"} : NotConfirmed(w, v))
      => task[w] \in Live /\ w \notin cancelling
  BY DEF WorkerStarts, Confirmed, Answered, NotConfirmed, Resumes, Live
<1>2. CancelDelivered(w) \/ caller = "gathering"
  BY <1>1, RunsWhileGathering DEF WorkerStep
<1>3. UNCHANGED <<caller, session, reported, undispatched>>
  BY DEF WorkerStep, WorkerStarts, Confirmed, Answered, NotConfirmed,
     CancelDelivered, reportVars
<1>. QED
  BY <1>2, <1>3

\* After a cancellation nothing further is started or sent.
THEOREM NothingAfterCancel == Spec => NothingSentAfterCancel
<1>1. ASSUME IInv, [Next]_vars, caller \in {"cancelled", "draining", "recancelled"}
      PROVE  started' = started /\ posts' = posts
  <2>1. CASE \E w \in Workers : WorkerStep(w)
    <3>1. PICK w \in Workers : WorkerStep(w)
      BY <2>1
    <3>2. CancelDelivered(w)
      BY <1>1, <3>1, TurnFrame
    <3>. QED
      BY <3>2 DEF CancelDelivered
  <2>2. CASE CallerStep \/ Cancel \/ CancelAgain
    BY <1>1, <2>2 DEF CallerStep, CreateWorkers, Return, Drain, Raise, Interrupted,
       Cancel, CancelAgain, workerVars
  <2>3. CASE SessionChanges \/ \E r \in Records : ServerApplies(r) \/ ServerRejects(r)
    BY <2>3 DEF SessionChanges, ServerApplies, ServerRejects, workerVars
  <2>4. CASE UNCHANGED vars
    BY <2>4 DEF vars, workerVars
  <2>. QED
    BY <1>1, <2>1, <2>2, <2>3, <2>4 DEF Next
<1>2. IInv /\ [Next]_vars =>
        [(caller \in {"cancelled", "draining", "recancelled"}) =>
           (started' = started /\ posts' = posts)]_vars
  BY <1>1
<1>. QED
  BY <1>2, Invariance, PTL DEF Spec, NothingSentAfterCancel

\* A write never leaves under a session other than the captured one, although
\* the callback's await separates the scope's own check from the POST.
THEOREM CapturedSession == Spec => SentUnderCapturedSession
<1>1. ASSUME [Next]_vars, posts' # posts
      PROVE  session = "captured"
  <2>1. PICK w \in Workers : Confirmed(w)
    BY <1>1 DEF Next, vars, workerVars, WorkerStep, WorkerStarts, NotConfirmed, Answered,
       CancelDelivered, CallerStep, CreateWorkers, Return, Drain, Raise, Interrupted,
       Cancel, CancelAgain, SessionChanges, ServerApplies, ServerRejects
  <2>. QED
    BY <1>1, <2>1 DEF Confirmed
<1>2. [Next]_vars => [posts' # posts => session = "captured"]_vars
  BY <1>1
<1>. QED
  BY <1>2, PTL DEF Spec, SentUnderCapturedSession

-----------------------------------------------------------------------------
(***************************************************************************)
(* dispatch() implements PropertyBatch.                                    *)
(***************************************************************************)

\* A fresh call maps to a fresh batch of the contract.
LEMMA InitContract == Init => Contract!Init
BY DEF Init, Contract!Init, fateBar, verdictBar, phaseBar

\* A turn that sends nothing only adds truthful verdicts.
LEMMA TurnJudges ==
  ASSUME IInv, IInv', NEW w \in Workers, NEW got, TakeNext(w, got),
         caller = "gathering",
         UNCHANGED <<caller, request, undispatched>>,
         \A r \in Records :
           got[r] # receipts[r] => /\ receipts[r] = "none"
                                   /\ Contract!Truthful(got[r], fateBar[r])
  PROVE  Contract!Judge
<1>1. /\ verdictBar = receipts /\ verdictBar' = receipts' /\ fateBar' = fateBar
      /\ phaseBar = "running" /\ phaseBar' = "running"
  BY DEF verdictBar, fateBar, phaseBar
<1>2. receipts' \in [Records -> Contract!Verdicts \cup {"none"}]
  BY DEF IInv, TypeOK, Verdicts, Contract!Verdicts
<1>3. ASSUME NEW r \in Records, receipts'[r] # receipts[r]
      PROVE  receipts[r] = "none" /\ Contract!Truthful(receipts'[r], fateBar[r])
  <2>1. CASE receipts'[r] = got[r]
    BY <1>3, <2>1
  <2>2. CASE receipts'[r] # got[r]
    <3>1. r >= queue /\ receipts'[r] = "failed"
      BY <1>3, <2>2 DEF TakeNext
    <3>2. receipts[r] = "none" /\ request[r] = "none"
      BY <3>1, Constants DEF IInv, Prefix, TypeOK
    <3>. QED
      BY <3>1, <3>2 DEF Contract!Truthful, fateBar
  <2>. QED
    BY <2>1, <2>2
<1>. QED
  BY <1>1, <1>2, <1>3 DEF Contract!Judge, Contract!Judged

\* Settling a record is a judgement of the contract.
LEMMA SettleJudges ==
  ASSUME IInv, IInv', NEW w \in Workers, Holding(w), caller = "gathering",
         NEW verdict \in Verdicts, Settle(w, verdict),
         verdict = "acknowledged" => request[holds[w]] = "applied",
         verdict = "failed" => request[holds[w]] \in {"none", "rejected"},
         UNCHANGED <<caller, request, undispatched>>
  PROVE  Contract!Judge
<1>. DEFINE got == [receipts EXCEPT ![holds[w]] = verdict]
<1>1. holds[w] \in Records /\ receipts[holds[w]] = "none"
  BY DEF IInv, Exclusive, TypeOK
<1>2. \A r \in Records : got[r] = IF r = holds[w] THEN verdict ELSE receipts[r]
  BY <1>1 DEF IInv, TypeOK
<1>3. Contract!Truthful(verdict, fateBar[holds[w]])
  BY <1>1 DEF Contract!Truthful, fateBar
<1>4. \A r \in Records :
        got[r] # receipts[r] => /\ receipts[r] = "none"
                                /\ Contract!Truthful(got[r], fateBar[r])
  BY <1>1, <1>2, <1>3
<1>5. TakeNext(w, got)
  BY DEF Settle
<1>. HIDE DEF got
<1>. QED
  BY <1>4, <1>5, TurnJudges

\* Every step of a worker is a send, a judgement or nothing to the contract.
LEMMA WorkerContract ==
  ASSUME IInv, IInv', NEW w \in Workers, WorkerStep(w)
  PROVE  Contract!Next \/ UNCHANGED Contract!vars
<1>1. UNCHANGED <<caller, session, reported, undispatched>>
  BY TurnFrame
<1>2. CASE CancelDelivered(w)
  BY <1>1, <1>2 DEF CancelDelivered, Contract!vars, fateBar, verdictBar, phaseBar
<1>3. CASE ~CancelDelivered(w)
  <2>1. caller = "gathering"
    BY <1>3, TurnFrame
  <2>2. CASE WorkerStarts(w)
    BY <1>1, <2>1, <2>2, TurnJudges DEF WorkerStarts, Contract!Next
  <2>3. CASE Confirmed(w)
    <3>1. /\ Holding(w) /\ request[holds[w]] = "none" /\ holds[w] \in Records
          /\ receipts[holds[w]] = "none"
      BY <2>3 DEF Confirmed, Resumes, Holding, IInv, Exclusive, TypeOK
    <3>2. CASE session # "captured"
      BY <1>1, <2>1, <2>3, <3>1, <3>2, SettleJudges DEF Confirmed, Verdicts, Contract!Next
    <3>3. CASE session = "captured"
      <4>1. /\ request' = [request EXCEPT ![holds[w]] = "posted"]
            /\ receipts' = receipts
        BY <2>3, <3>3 DEF Confirmed
      <4>2. /\ verdictBar = receipts /\ verdictBar' = receipts
            /\ phaseBar = "running" /\ phaseBar' = "running"
        BY <1>1, <2>1, <4>1 DEF verdictBar, phaseBar
      <4>3. fateBar[holds[w]] = "unsent"
        BY <3>1 DEF fateBar
      <4>4. fateBar' = [fateBar EXCEPT ![holds[w]] = "open"]
        BY <3>1, <4>1 DEF fateBar, IInv, TypeOK
      <4>. QED
        BY <1>1, <3>1, <4>2, <4>3, <4>4 DEF Contract!Next, Contract!Send
    <3>. QED
      BY <3>2, <3>3
  <2>4. ASSUME NEW v \in {"failed", "unknown"}, NotConfirmed(w, v)
        PROVE  Contract!Judge
    <3>1. Holding(w) /\ request[holds[w]] = "none" /\ v \in Verdicts /\ Settle(w, v)
          /\ UNCHANGED request
      BY <2>4 DEF NotConfirmed, Resumes, Holding, IInv, Exclusive, Verdicts
    <3>. QED
      BY <1>1, <2>1, <2>4, <3>1, SettleJudges
  <2>5. CASE Answered(w)
    <3>1. Holding(w) /\ request[holds[w]] \in Requests /\ UNCHANGED request
      BY <2>5 DEF Answered, Resumes, Holding, IInv, Exclusive, TypeOK
    <3>2. PICK outcome \in Outcomes(request[holds[w]]) : Settle(w, WriteOne(outcome))
      BY <2>5 DEF Answered
    <3>. QED
      BY <1>1, <2>1, <3>1, <3>2, WriteOneTruthful, SettleJudges DEF Contract!Next
  <2>. QED
    BY <1>3, <2>2, <2>3, <2>4, <2>5 DEF WorkerStep, Contract!Next
<1>. QED
  BY <1>2, <1>3

\* Cancellation, return and report are those of the contract.
LEMMA CallerContract ==
  ASSUME IInv, IInv', CallerStep \/ Cancel \/ CancelAgain
  PROVE  Contract!Next \/ UNCHANGED Contract!vars
<1>0. UNCHANGED <<request, receipts>>
  BY DEF CallerStep, CreateWorkers, Return, Drain, Raise, Interrupted, Cancel,
     CancelAgain, workerVars
<1>1. fateBar' = fateBar
  BY <1>0 DEF fateBar
<1>2. CASE CreateWorkers \/ Drain \/ CancelAgain
  BY <1>0, <1>1, <1>2 DEF CreateWorkers, Drain, CancelAgain, reportVars,
     Contract!vars, verdictBar, phaseBar
<1>3. CASE Cancel
  BY <1>0, <1>1, <1>3 DEF Cancel, reportVars, verdictBar, phaseBar, Contract!Cancel,
     Contract!Next
<1>4. CASE Interrupted
  BY <1>0, <1>1, <1>4 DEF Interrupted, reportVars, verdictBar, phaseBar,
     Contract!Abandon, Contract!Next
<1>5. CASE Return
  <2>1. /\ verdictBar = receipts /\ verdictBar' = receipts
        /\ phaseBar = "running" /\ phaseBar' = "closed" /\ UNCHANGED undispatched
    BY <1>5 DEF Return, verdictBar, phaseBar
  <2>2. \A r \in Records : receipts[r] # "none"
    BY <1>5 DEF Return, IInv, ReturnComplete
  <2>. QED
    BY <1>1, <2>1, <2>2 DEF Contract!Complete, Contract!Next
<1>6. CASE Raise
  <2>1. /\ verdictBar = receipts /\ verdictBar' = reported'
        /\ phaseBar = "cancelled" /\ phaseBar' = "closed"
        /\ undispatched' = Records \ started
        /\ reported' = [r \in Records |->
                          IF r \notin started THEN "none"
                          ELSE IF receipts[r] = "none" THEN "unknown" ELSE receipts[r]]
    BY <1>6 DEF Raise, verdictBar, phaseBar
  <2>2. reported' \in [Records -> Contract!Verdicts \cup {"none"}]
    BY DEF IInv, TypeOK, Verdicts, Contract!Verdicts
  <2>3. \A r \in Records : r \notin started => receipts[r] = "none" /\ fateBar[r] = "unsent"
    BY DEF IInv, Prefix, fateBar
  <2>4. \A r \in Records : reported'[r] # receipts[r] =>
          receipts[r] = "none" /\ reported'[r] = "unknown"
    BY <2>1, <2>3
  <2>5. undispatched' = {r \in Records : reported'[r] = "none"}
    BY <2>1
  <2>6. Contract!Judged
    BY <2>1, <2>2, <2>4 DEF Contract!Judged, Contract!Truthful
  <2>7. \A r \in undispatched' : fateBar[r] = "unsent"
    BY <2>1, <2>3
  <2>. QED
    BY <1>1, <2>1, <2>5, <2>6, <2>7 DEF Contract!Release, Contract!Next
<1>. QED
  BY <1>2, <1>3, <1>4, <1>5, <1>6 DEF CallerStep

\* The server decides in the contract as well; the rest does not show there.
LEMMA EnvironmentContract ==
  ASSUME IInv,
         SessionChanges \/ \E r \in Records : ServerApplies(r) \/ ServerRejects(r)
  PROVE  Contract!Next \/ UNCHANGED Contract!vars
<1>1. CASE SessionChanges
  BY <1>1 DEF SessionChanges, workerVars, reportVars, Contract!vars, fateBar,
     verdictBar, phaseBar
<1>2. ASSUME NEW r \in Records, ServerApplies(r) \/ ServerRejects(r)
      PROVE  Contract!Next
  <2>1. PICK f \in {"applied", "rejected"} :
          /\ request[r] = "posted"
          /\ request' = [request EXCEPT ![r] = f]
          /\ UNCHANGED <<caller, receipts, reported, undispatched>>
    BY <1>2 DEF ServerApplies, ServerRejects, workerVars, reportVars
  <2>2. fateBar[r] = "open" /\ fateBar' = [fateBar EXCEPT ![r] = f]
    BY <2>1 DEF fateBar, IInv, TypeOK
  <2>3. UNCHANGED <<verdictBar, phaseBar, undispatched>>
    BY <2>1 DEF verdictBar, phaseBar
  <2>. QED
    BY <2>1, <2>2, <2>3 DEF Contract!Decide, Contract!Next
<1>. QED
  BY <1>1, <1>2

\* The worker pool keeps the contract of PropertyBatch, for every batch size
\* and every concurrency.
THEOREM Refinement == Spec => ImplementsContract
<1>1. IInv /\ IInv' /\ [Next]_vars => [Contract!Next]_(Contract!vars)
  <2>1. ASSUME UNCHANGED vars PROVE UNCHANGED Contract!vars
    BY <2>1 DEF vars, workerVars, reportVars, Contract!vars, fateBar, verdictBar, phaseBar
  <2>. QED
    BY <2>1, WorkerContract, CallerContract, EnvironmentContract DEF Next
<1>. QED
  BY <1>1, InitContract, Invariance, PTL DEF Spec, Contract!Spec, ImplementsContract
=============================================================================
