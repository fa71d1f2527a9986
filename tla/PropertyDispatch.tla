-------------------------- MODULE PropertyDispatch --------------------------
(***************************************************************************)
(* services/properties/mutations.py: dispatch() hands a batch of property  *)
(* writes to a bounded pool of asyncio tasks that share one iterator, and  *)
(* reports one receipt per record, also when the batch is cancelled.       *)
(*                                                                         *)
(* The event loop runs one task at a time, so an action is what one task   *)
(* does from the moment it wakes to its next suspension.  A worker         *)
(* suspends in the safety callback (client._guard) and in the HTTP POST    *)
(* (transport.call_rpc); a callback that answers without suspending is the *)
(* behaviour in which nothing happens between the two.  Records are named  *)
(* by their position in the payload mapping.                               *)
(***************************************************************************)
EXTENDS Naturals

CONSTANTS N,            \* number of payloads in the batch
          Concurrency   \* the caller's concurrency argument

\* dispatch() refuses any other concurrency before it does anything else.
ASSUME BatchAssumption == N \in Nat /\ Concurrency \in Nat \ {0}

Records == 1..N

\* asyncio.create_task(worker()) for _ in range(min(concurrency, len(payloads)))
Workers == 1..(IF Concurrency < N THEN Concurrency ELSE N)

VARIABLES
  caller,        \* where the coroutine running dispatch() is
  queue,         \* the shared iterator: the next record it will yield
  started,       \* the set dispatch() calls "started"
  receipts,      \* the mapping dispatch() calls "receipts"; "none" is absent
  task,          \* the state of each worker task
  holds,         \* the record each worker is writing, 0 when it has none
  cancelling,    \* the workers whose Task.cancel() is not delivered yet
  session,       \* is the client's session still the one the scope captured
  request,       \* what became of the write request of each record
  posts,         \* how many times a write of the record was handed to httpx
  reported,      \* the outcome the caller was given for each record
  undispatched   \* PropertyBatchCancelledError.undispatched_ids

workerVars == <<queue, started, receipts, task, holds, posts>>
reportVars == <<reported, undispatched>>
vars == <<caller, workerVars, cancelling, session, request, reportVars>>

Verdicts == {"acknowledged", "failed", "unknown"}
Live     == {"new", "confirming", "calling"}
Returned == {"returned", "raised", "interrupted"}
Requests == {"none", "posted", "applied", "rejected"}

LiveWorkers == {w \in Workers : task[w] \in Live}

Init ==
  /\ caller = "called"
  /\ queue = 1
  /\ started = {}
  /\ receipts = [r \in Records |-> "none"]
  /\ task = [w \in Workers |-> "absent"]
  /\ holds = [w \in Workers |-> 0]
  /\ cancelling = {}
  /\ session = "captured"
  /\ request = [r \in Records |-> "none"]
  /\ posts = [r \in Records |-> 0]
  /\ reported = [r \in Records |-> "none"]
  /\ undispatched = {}

-----------------------------------------------------------------------------
(***************************************************************************)
(* The worker tasks.                                                       *)
(***************************************************************************)

\* Mutant: workers that wait for another record instead of ending.
TakeNextWaiting(w, got) ==
  /\ receipts' = got
  /\ IF queue > N
     THEN /\ task' = [task EXCEPT ![w] = "new"]
          /\ holds' = [holds EXCEPT ![w] = 0]
          /\ UNCHANGED <<queue, started>>
     ELSE /\ task' = [task EXCEPT ![w] = "confirming"]
          /\ holds' = [holds EXCEPT ![w] = queue]
          /\ started' = started \cup {queue}
          /\ queue' = queue + 1

\* Back at the head of "for rid, payload in queue", with the receipts `got`.
\* scope.call checks the session before anything suspends: once the session
\* has changed, PropertyScopeError fails every record left in the same turn.
TakeNext(w, got) ==
  \/ /\ queue > N
     /\ task' = [task EXCEPT ![w] = "finished"]
     /\ holds' = [holds EXCEPT ![w] = 0]
     /\ receipts' = got
     /\ UNCHANGED <<queue, started>>
  \/ /\ queue <= N
     /\ session = "captured"
     /\ task' = [task EXCEPT ![w] = "confirming"]
     /\ holds' = [holds EXCEPT ![w] = queue]
     /\ started' = started \cup {queue}
     /\ queue' = queue + 1
     /\ receipts' = got
  \/ /\ queue <= N
     /\ session # "captured"
     /\ task' = [task EXCEPT ![w] = "finished"]
     /\ holds' = [holds EXCEPT ![w] = 0]
     /\ started' = started \cup queue..N
     /\ queue' = N + 1
     /\ receipts' = [r \in Records |-> IF r >= queue THEN "failed" ELSE got[r]]

\* A task runs only while no cancellation waits to be thrown into it.
Resumes(w, state) == task[w] = state /\ w \notin cancelling

\* Mutant: a write whose outcome is not known is tried again.
SettleRetrying(w, verdict) ==
  IF verdict = "unknown"
  THEN /\ task' = [task EXCEPT ![w] = "confirming"]
       /\ UNCHANGED <<queue, started, receipts, holds>>
  ELSE TakeNext(w, [receipts EXCEPT ![holds[w]] = verdict])

\* receipts[rid] = await write_one(...), and on to the next record.
Settle(w, verdict) ==
  TakeNext(w, [receipts EXCEPT ![holds[w]] = verdict])

WorkerStarts(w) ==
  /\ Resumes(w, "new")
  /\ TakeNext(w, receipts)
  /\ UNCHANGED <<caller, cancelling, session, request, posts, reportVars>>

\* The safety callback answers yes (or there is none): client.call compares
\* the session again, now that the await is over, and posts the write.
Confirmed(w) ==
  /\ Resumes(w, "confirming")
  /\ \/ /\ session = "captured"
        /\ task' = [task EXCEPT ![w] = "calling"]
        /\ request' = [request EXCEPT ![holds[w]] = "posted"]
        /\ posts' = [posts EXCEPT ![holds[w]] = @ + 1]
        /\ UNCHANGED <<queue, started, receipts, holds>>
     \/ /\ session # "captured"
        /\ Settle(w, "failed")
        /\ UNCHANGED <<request, posts>>
  /\ UNCHANGED <<caller, cancelling, session, reportVars>>

\* The callback denies (OdooSafetyError, "failed") or raises something of its
\* own ("unknown"): write_one turns both into a receipt.
NotConfirmed(w, verdict) ==
  /\ Resumes(w, "confirming")
  /\ verdict \in {"failed", "unknown"}
  /\ Settle(w, verdict)
  /\ UNCHANGED <<caller, cancelling, session, request, posts, reportVars>>

\* What awaiting the POST can produce, given what became of the request.
\* A timeout, a broken connection, an HTTP error status ("network") and a
\* body that cannot be decoded ("exception") can follow any fate.
Outcomes(fate) ==
  {"network", "exception"}
    \cup (IF fate = "applied"  THEN {"true", "other"}  ELSE {})
    \cup (IF fate = "rejected" THEN {"false", "error"} ELSE {})

\* Mutant: whatever is not a success is reported as failed.
WriteOneOptimistic(outcome) == IF outcome = "true" THEN "acknowledged" ELSE "failed"

\* write_one's classification of the outcome.
WriteOne(outcome) ==
  CASE outcome = "true"               -> "acknowledged"
    [] outcome \in {"false", "error"} -> "failed"
    [] OTHER                          -> "unknown"

Answered(w) ==
  /\ Resumes(w, "calling")
  /\ \E outcome \in Outcomes(request[holds[w]]) : Settle(w, WriteOne(outcome))
  /\ UNCHANGED <<caller, cancelling, session, request, posts, reportVars>>

\* CancelledError is thrown into the worker; neither write_one nor worker()
\* catches it, so the record it holds keeps no receipt.
CancelDelivered(w) ==
  /\ w \in cancelling
  /\ task' = [task EXCEPT ![w] = "cancelled"]
  /\ holds' = [holds EXCEPT ![w] = 0]
  /\ cancelling' = cancelling \ {w}
  /\ UNCHANGED <<caller, queue, started, receipts, session, request, posts, reportVars>>

-----------------------------------------------------------------------------
(***************************************************************************)
(* The coroutine that called dispatch().                                   *)
(***************************************************************************)

CreateWorkers ==
  /\ caller = "called"
  /\ caller' = "gathering"
  /\ task' = [w \in Workers |-> "new"]
  /\ UNCHANGED <<queue, started, receipts, holds, posts, cancelling, session,
                 request, reportVars>>

\* Every worker ended by itself: gather() returns, then the receipts in order.
Return ==
  /\ caller = "gathering"
  /\ \A w \in Workers : task[w] = "finished"
  /\ caller' = "returned"
  /\ reported' = receipts
  /\ UNCHANGED <<workerVars, cancelling, session, request, undispatched>>

\* Mutant: the workers are shielded from the caller's cancellation.
CancelShielded ==
  /\ caller = "gathering"
  /\ Workers # {}
  /\ caller' = "cancelled"
  /\ UNCHANGED <<workerVars, cancelling, session, request, reportVars>>

\* Task.cancel() on the caller while it awaits the first gather(), which
\* passes the cancellation on to every worker that is not done.
Cancel ==
  /\ caller = "gathering"
  /\ Workers # {}
  /\ caller' = "cancelled"
  /\ cancelling' = LiveWorkers
  /\ UNCHANGED <<workerVars, session, request, reportVars>>

\* The first gather() ends with the first cancelled worker, or because all
\* had already ended.  The handler cancels the rest and awaits all of them.
Drain ==
  /\ caller = "cancelled"
  /\ (\E w \in Workers : task[w] = "cancelled") \/ LiveWorkers = {}
  /\ caller' = "draining"
  /\ cancelling' = LiveWorkers
  /\ UNCHANGED <<workerVars, session, request, reportVars>>

\* Mutant: the records without a receipt are reported as never sent.
RaiseByReceipts ==
  /\ caller = "draining"
  /\ LiveWorkers = {}
  /\ caller' = "raised"
  /\ reported' = receipts
  /\ undispatched' = {r \in Records : receipts[r] = "none"}
  /\ UNCHANGED <<workerVars, cancelling, session, request>>

\* All workers are done: PropertyBatchCancelledError(observed, not started).
Raise ==
  /\ caller = "draining"
  /\ LiveWorkers = {}
  /\ caller' = "raised"
  /\ reported' = [r \in Records |->
                    IF r \notin started THEN "none"
                    ELSE IF receipts[r] = "none" THEN "unknown" ELSE receipts[r]]
  /\ undispatched' = Records \ started
  /\ UNCHANGED <<workerVars, cancelling, session, request>>

\* A second Task.cancel() while the handler awaits the drain ...
CancelAgain ==
  /\ caller = "draining"
  /\ caller' = "recancelled"
  /\ cancelling' = LiveWorkers
  /\ UNCHANGED <<workerVars, session, request, reportVars>>

\* ... makes that await itself raise a bare CancelledError, after the drain.
Interrupted ==
  /\ caller = "recancelled"
  /\ LiveWorkers = {}
  /\ caller' = "interrupted"
  /\ UNCHANGED <<workerVars, cancelling, session, request, reportVars>>

-----------------------------------------------------------------------------
(***************************************************************************)
(* The environment: the server, the network, and other tasks of the        *)
(* program that log out or authenticate again while the batch runs.        *)
(***************************************************************************)

\* Odoo runs write() in one transaction and commits it, or rolls it back and
\* answers an error; or the request never arrives.  It may do so after the
\* worker that sent the request is gone.
ServerApplies(r) ==
  /\ request[r] = "posted"
  /\ request' = [request EXCEPT ![r] = "applied"]
  /\ UNCHANGED <<caller, workerVars, cancelling, session, reportVars>>

ServerRejects(r) ==
  /\ request[r] = "posted"
  /\ request' = [request EXCEPT ![r] = "rejected"]
  /\ UNCHANGED <<caller, workerVars, cancelling, session, reportVars>>

SessionChanges ==
  /\ session = "captured"
  /\ session' = "replaced"
  /\ UNCHANGED <<caller, workerVars, cancelling, request, reportVars>>

-----------------------------------------------------------------------------

WorkerStep(w) ==
  \/ WorkerStarts(w)
  \/ Confirmed(w)
  \/ \E verdict \in {"failed", "unknown"} : NotConfirmed(w, verdict)
  \/ Answered(w)
  \/ CancelDelivered(w)

CallerStep ==
  CreateWorkers \/ Return \/ Drain \/ Raise \/ Interrupted

Next ==
  \/ \E w \in Workers : WorkerStep(w)
  \/ CallerStep
  \/ Cancel
  \/ CancelAgain
  \/ \E r \in Records : ServerApplies(r) \/ ServerRejects(r)
  \/ SessionChanges

Spec == Init /\ [][Next]_vars

(***************************************************************************)
(* The event loop runs every task that is ready.  Nothing is assumed of    *)
(* the callback or of the server: an RPC has no timeout unless one is      *)
(* configured (transport.py:27), so an await may last for ever.            *)
(***************************************************************************)
LoopFairness ==
  /\ WF_vars(CallerStep)
  /\ \A w \in Workers : WF_vars(WorkerStarts(w) \/ CancelDelivered(w))

LoopSpec == Spec /\ LoopFairness

(***************************************************************************)
(* With a timeout configured and a callback that answers, every await      *)
(* of a worker ends as well.                                               *)
(***************************************************************************)
AwaitsEnd ==
  \A w \in Workers :
    /\ WF_vars(Confirmed(w) \/ \E v \in {"failed", "unknown"} : NotConfirmed(w, v))
    /\ WF_vars(Answered(w))

-----------------------------------------------------------------------------
(***************************************************************************)
(* Properties.                                                             *)
(***************************************************************************)

TypeOK ==
  /\ caller \in {"called", "gathering", "cancelled", "draining", "recancelled"} \cup Returned
  /\ queue \in 1..(N + 1)
  /\ started \subseteq Records
  /\ receipts \in [Records -> Verdicts \cup {"none"}]
  /\ task \in [Workers -> Live \cup {"absent", "finished", "cancelled"}]
  /\ holds \in [Workers -> 0..N]
  /\ cancelling \subseteq Workers
  /\ session \in {"captured", "replaced"}
  /\ request \in [Records -> Requests]
  /\ posts \in [Records -> Nat]
  /\ reported \in [Records -> Verdicts \cup {"none"}]
  /\ undispatched \subseteq Records

\* A receipt is never wrong, now or later: "acknowledged" only for a write the
\* server applied, "failed" only for one that was not applied and cannot be
\* any more, though answers may be late, lost or garbled (write_one).
ReceiptsTruthful ==
  \A r \in Records :
    /\ receipts[r] = "acknowledged" => request[r] = "applied"
    /\ receipts[r] = "failed" => request[r] \in {"none", "rejected"}

\* No write is handed to the network twice, by two workers or by a retry
\* after an uncertain answer: the shared iterator yields a record once.
PostedOnce == \A r \in Records : posts[r] <= 1

\* PropertyBatchCancelledError splits the batch exactly: every record is
\* either undispatched, and then its write never reached the network, or has
\* an outcome, and then the outcome its worker observed is kept.
CancelReportExact ==
  caller = "raised" =>
    \A r \in Records :
      /\ (r \in undispatched) <=> (reported[r] = "none")
      /\ r \in undispatched => request[r] = "none"
      /\ receipts[r] # "none" => reported[r] = receipts[r]

\* dispatch() returns normally only with a receipt for every payload (its
\* receipts[rid] would raise KeyError otherwise).
ReturnComplete ==
  caller = "returned" => \A r \in Records : reported[r] # "none"

\* Once dispatch() is over, by whatever exit, no worker is still alive that
\* could send a write behind the caller's back.
Drained == caller \in Returned => LiveWorkers = {}

\* From the moment the batch is cancelled no further record is started and no
\* further write is sent.
NothingSentAfterCancel ==
  [][(caller \in {"cancelled", "draining", "recancelled"}) =>
       (started' = started /\ posts' = posts)]_vars

\* A write leaves the client only under the session the scope captured: the
\* callback's await leaves room for a logout or a new login (client.py:200).
SentUnderCapturedSession ==
  [][posts' # posts => session = "captured"]_vars

\* A cancelled batch comes to an end even if the server never answers and
\* the safety callback never returns.
CancelEnds == caller = "cancelled" ~> caller \in Returned

\* If every await of a worker ends, so does the batch.
BatchEnds == AwaitsEnd => (caller = "gathering" ~> caller \in Returned)

(***************************************************************************)
(* The inductive invariant behind the safety properties.                   *)
(***************************************************************************)

Holding(w) == task[w] \in {"confirming", "calling"}

\* The iterator has yielded the records before `queue`, and no others have
\* left any trace.
Prefix ==
  /\ started = {r \in Records : r < queue}
  /\ \A r \in Records \ started :
       receipts[r] = "none" /\ request[r] = "none" /\ posts[r] = 0

\* A worker that awaits is alone with its record, which has no receipt yet;
\* it has been posted exactly when the worker awaits the POST.
Exclusive ==
  /\ \A w \in Workers : Holding(w) =>
       /\ holds[w] \in started
       /\ receipts[holds[w]] = "none"
       /\ task[w] = "confirming" => request[holds[w]] = "none"
  /\ \A v, w \in Workers : Holding(v) /\ Holding(w) /\ v # w => holds[v] # holds[w]

Sent == \A r \in Records : posts[r] = IF request[r] = "none" THEN 0 ELSE 1

\* A started record has a receipt, a worker, or lost its worker to a
\* cancellation; a worker that finishes leaves the iterator exhausted.
Accounted ==
  /\ \A r \in started :
       \/ receipts[r] # "none"
       \/ \E w \in Workers : Holding(w) /\ holds[w] = r
       \/ \E w \in Workers : task[w] = "cancelled"
  /\ \A w \in Workers : task[w] = "finished" => queue = N + 1

Phases ==
  /\ \A w \in Workers : (task[w] = "absent") <=> (caller = "called")
  /\ cancelling \subseteq LiveWorkers
  /\ caller \in {"cancelled", "draining", "recancelled"} => cancelling = LiveWorkers
  /\ caller \notin {"returned", "raised"} =>
       undispatched = {} /\ reported = [r \in Records |-> "none"]

IInv ==
  /\ TypeOK /\ Prefix /\ Exclusive /\ Sent /\ Accounted /\ Phases
  /\ ReceiptsTruthful /\ CancelReportExact /\ ReturnComplete /\ Drained

(***************************************************************************)
(* dispatch() implements PropertyBatch.                                    *)
(***************************************************************************)
fateBar ==
  [r \in Records |->
     CASE request[r] = "none"   -> "unsent"
       [] request[r] = "posted" -> "open"
       [] OTHER                 -> request[r]]

verdictBar == IF caller \in {"returned", "raised"} THEN reported ELSE receipts

phaseBar ==
  CASE caller \in {"called", "gathering"}                  -> "running"
    [] caller \in {"cancelled", "draining", "recancelled"} -> "cancelled"
    [] OTHER                                               -> "closed"

Contract == INSTANCE PropertyBatch
              WITH Writes <- Records, fate <- fateBar, verdict <- verdictBar,
                   phase <- phaseBar, released <- undispatched

\* Every behaviour of the worker pool is one the contract allows: the same
\* fates, verdicts that are never revised, and the writes released to the
\* caller on cancellation are exactly those that were never sent.
ImplementsContract == Contract!Spec
=============================================================================
