--------------------------- MODULE IterSearchRead ---------------------------
(***************************************************************************)
(* OdooClient.iter_search_read (client.py): an asynchronous generator that *)
(* pages through the records matching a domain with a cursor on the id.    *)
(* Each page is one search_read; between two pages, and between two        *)
(* records of a page, the consumer may take any time, and other users      *)
(* create, delete and edit records, so that what matches changes.          *)
(***************************************************************************)
EXTENDS Integers, FiniteSets

CONSTANTS
  Ids,         \* the ids records of the model may have
  BatchSizes,  \* the values of batch_size callers pass
  Limits,      \* the values of limit callers pass
  NoLimit,     \* limit=None
  MaxChanges   \* bound on what other users do, for model checking

ASSUME IterAssumption ==
  /\ Ids \subseteq Nat \ {0} /\ IsFiniteSet(Ids)
  /\ BatchSizes \subseteq Nat
  /\ Limits \subseteq Nat \cup {NoLimit}
  /\ NoLimit \notin Nat
  /\ MaxChanges \in Nat

VARIABLES
  matching,    \* server: the ids of the records that match the domain now
  changes,     \* how often other users changed that
  throughout,  \* the ids that have matched ever since the iteration began
  pc,          \* fetching, yielding, done, failed or closed
  batch_size,
  limit,
  last_id,     \* the cursor
  fetch_size,  \* how many records the current page was asked for
  batch,       \* the ids of the page that was fetched last
  rest,        \* those of them that are still to be yielded
  yielded,     \* the ids of the records the consumer has got
  count        \* the variable `yielded` of the code, which counts them

vars == <<matching, changes, throughout, pc, batch_size, limit, last_id,
          fetch_size, batch, rest, yielded, count>>

Init ==
  /\ matching \in SUBSET Ids
  /\ throughout = matching
  /\ changes = 0
  /\ pc = "fetching"
  /\ batch_size \in BatchSizes
  /\ limit \in Limits
  /\ last_id = 0
  /\ fetch_size = 0
  /\ batch = {}
  /\ rest = {}
  /\ yielded = {}
  /\ count = 0

-----------------------------------------------------------------------------
(***************************************************************************)
(* The server.                                                             *)
(***************************************************************************)

\* order="id", limit=k: B are the first k elements of S in ascending order;
\* limit 0 is no limit to Odoo.
FirstOf(B, S, k) ==
  /\ B \subseteq S
  /\ \A i \in B, j \in S \ B : i < j
  /\ B = S \/ (k # 0 /\ Cardinality(B) = k)
  /\ k # 0 => Cardinality(B) <= k

\* Other users create, delete and edit records.
Change ==
  /\ changes < MaxChanges
  /\ matching' \in SUBSET Ids
  /\ matching' # matching
  /\ throughout' = throughout \cap matching'
  /\ changes' = changes + 1
  /\ UNCHANGED <<pc, batch_size, limit, last_id, fetch_size, batch,
                 rest, yielded, count>>

-----------------------------------------------------------------------------
(***************************************************************************)
(* The generator.                                                          *)
(***************************************************************************)

\* Mutant: the limit is applied to every page, not to what is left of it.
FetchSizePerPage ==
  IF limit = NoLimit \/ batch_size <= limit THEN batch_size ELSE limit

\* min(batch_size, remaining)
FetchSize ==
  IF limit = NoLimit \/ batch_size <= limit - count THEN batch_size ELSE limit - count

\* ("id", ">", last_id)
After == {i \in matching : i > last_id}

\* Mutant: an empty page is asked for again.
FetchPolling ==
  /\ pc = "fetching"
  /\ fetch_size' = FetchSize
  /\ batch' \in SUBSET Ids
  /\ FirstOf(batch', After, FetchSize)
  /\ rest' = batch'
  /\ pc' = IF batch' = {} THEN "fetching" ELSE "yielding"
  /\ UNCHANGED <<matching, changes, throughout, batch_size, limit, last_id,
                 yielded, count>>

\* One page: what the server answers, and the `if not batch: break`.
Fetch ==
  /\ pc = "fetching"
  /\ fetch_size' = FetchSize
  /\ batch' \in SUBSET Ids
  /\ FirstOf(batch', After, FetchSize)
  /\ rest' = batch'
  /\ pc' = IF batch' = {} THEN "done" ELSE "yielding"
  /\ UNCHANGED <<matching, changes, throughout, batch_size, limit, last_id,
                 yielded, count>>

\* search_read raises, and the generator with it.
FetchFails ==
  /\ pc = "fetching"
  /\ pc' = "failed"
  /\ UNCHANGED <<matching, changes, throughout, batch_size, limit, last_id,
                 fetch_size, batch, rest, yielded, count>>

\* Mutant: a full page counts as the last one.
ShortPageInclusive == Cardinality(batch) <= fetch_size

\* len(batch) < fetch_size
ShortPage == Cardinality(batch) < fetch_size

\* x was the last record of the page: a short page is the last one, and after
\* another the cursor moves to x.
PageEnds(x) ==
  IF ShortPage
  THEN pc' = "done" /\ UNCHANGED last_id
  ELSE pc' = "fetching" /\ last_id' = x

\* yielded >= limit, after `yielded += 1`
LimitReached == limit # NoLimit /\ count + 1 >= limit

\* The next record of the page goes to the consumer.  When it asks for more,
\* the record is counted; the limit, then the end of the page, stop the loop.
Yield ==
  /\ pc = "yielding"
  /\ \E x \in rest :
       /\ \A y \in rest : x <= y
       /\ rest' = rest \ {x}
       /\ yielded' = yielded \cup {x}
       /\ count' = count + 1
       /\ \/ /\ LimitReached
             /\ pc' = "done"
             /\ UNCHANGED last_id
          \/ /\ ~LimitReached /\ rest' # {}
             /\ UNCHANGED <<pc, last_id>>
          \/ /\ ~LimitReached /\ rest' = {}
             /\ PageEnds(x)
  /\ UNCHANGED <<matching, changes, throughout, batch_size, limit, fetch_size,
                 batch>>

\* The consumer breaks out of its loop and the generator is closed.
Close ==
  /\ pc = "yielding"
  /\ pc' = "closed"
  /\ UNCHANGED <<matching, changes, throughout, batch_size, limit, last_id,
                 fetch_size, batch, rest, yielded, count>>

Next == Change \/ Fetch \/ FetchFails \/ Yield \/ Close

Spec == Init /\ [][Next]_vars

\* The server answers, and the consumer goes on asking.
FairSpec == Spec /\ WF_vars(Fetch) /\ WF_vars(Yield)

-----------------------------------------------------------------------------
(***************************************************************************)
(* Properties.                                                             *)
(***************************************************************************)

TypeOK ==
  /\ matching \in SUBSET Ids /\ throughout \in SUBSET matching
  /\ changes \in Nat
  /\ pc \in {"fetching", "yielding", "done", "failed", "closed"}
  /\ batch_size \in BatchSizes
  /\ limit \in Limits
  /\ last_id \in Ids \cup {0}
  /\ fetch_size \in Int
  /\ batch \in SUBSET Ids /\ rest \in SUBSET batch
  /\ yielded \in SUBSET Ids
  /\ count \in Nat

\* However records come and go between two pages, no record that matches all
\* along is passed over: when a record has been yielded, every such record
\* with a smaller id has been yielded before.
NoGaps == \A i \in throughout, j \in yielded : i < j => i \in yielded

\* An iteration that was not cut short by its limit has yielded every record
\* that matched all along.
Complete == pc = "done" /\ (limit = NoLimit \/ count < limit) => throughout \subseteq yielded

\* Records come in ascending order and none comes twice, also when a record
\* that was yielded is edited, deleted or joined by others meanwhile.
Ascending ==
  [][count' # count =>
       \E x \in Ids : yielded' = yielded \cup {x} /\ \A j \in yielded : j < x]_vars

\* A positive limit is never exceeded, and with a positive batch_size no page
\* fetches more records than the limit still allows to yield.
LimitRespected ==
  limit # NoLimit /\ limit # 0 =>
    /\ count <= limit
    /\ batch_size # 0 /\ pc = "yielding" => count + Cardinality(rest) <= limit

\* The cursor is ahead of all that was yielded, and nothing that matched all
\* along is behind it without having been yielded.
Cursor ==
  pc = "fetching" =>
    /\ rest = {}
    /\ \A j \in yielded : j <= last_id
    /\ \A i \in throughout : i <= last_id => i \in yielded

\* While a page is yielded, what matched all along and is neither yielded nor
\* on the page lies beyond it, and the page is full.
Page ==
  pc = "yielding" =>
    /\ rest # {}
    /\ \A j \in yielded, i \in rest : j < i
    /\ \A i \in throughout \ (yielded \cup rest) :
         /\ \A b \in batch : b < i
         /\ Cardinality(batch) = fetch_size

\* A positive limit leaves something to yield as long as the loop runs.
Budget ==
  pc \in {"fetching", "yielding"} /\ limit # NoLimit /\ limit # 0 => count < limit

IInv == TypeOK /\ Cursor /\ Page /\ Budget /\ NoGaps /\ Complete /\ LimitRespected

\* A consumer that goes on asking comes to the end of the iteration, once
\* other users leave the records alone.
IterationEnds == <>(pc \in {"done", "failed", "closed"})
=============================================================================
