------------------------------ MODULE CdcFeed -------------------------------
(***************************************************************************)
(* get_feed (services/cdc/functions.py): an asynchronous generator over    *)
(* the tracking values of a model, paged by a cursor on their ids, and the *)
(* consumer that resumes it with since_id after it stopped.                *)
(*                                                                         *)
(* A tracking value is an event here.  Odoo writes the events of a change  *)
(* together with the message they hang on, in one transaction; the ids are *)
(* drawn when rows are inserted, the rows appear when it commits, so that  *)
(* a lower id may appear after a higher one.  Deleting a message deletes   *)
(* its events.                                                             *)
(***************************************************************************)
EXTENDS Integers, FiniteSets

CONSTANTS
  Events,      \* the ids tracking values may get
  Messages,
  MessageOf,   \* the message of each event
  Owned,       \* the messages of the requested model
  Requested,   \* those among them of the records in res_ids
  BatchSizes,  \* the values of batch_size callers pass
  MaxDeletes,  \* bound on the messages that are deleted
  MaxResumes   \* bound on the feeds started after the first one

\* What a caller may choose.
FeedConstants ==
  /\ Events \subseteq Nat \ {0} /\ IsFiniteSet(Events)
  /\ MessageOf \in [Events -> Messages]
  /\ Requested \subseteq Owned /\ Owned \subseteq Messages
  /\ BatchSizes \subseteq Nat \ {0}
  /\ MaxDeletes \in Nat /\ MaxResumes \in Nat

VARIABLES
  byRecord,   \* whether the feed is given res_ids
  batch_size,
  committed,  \* server: the messages whose transaction has committed
  deleted,    \* server: those of them deleted since
  late,       \* messages that appeared after one with a higher event id
  pc,         \* where the feed is
  cursor,
  msg_map,    \* the messages the feed has read for the page
  rows,       \* tracking_rows
  rest,       \* those the loop has not come to yet
  delivered,  \* the events the consumer has got, from all its feeds
  deliveries, \* how many times it has got one
  lastSeen,   \* the id it resumes from
  since_id,   \* the cursor the feed was given
  since,      \* the messages that were there when the feed began
  resumes

options == <<byRecord, batch_size>>
server == <<committed, deleted, late>>
consumer == <<delivered, deliveries, lastSeen, since_id, since, resumes>>
feed   == <<pc, cursor, msg_map, rows, rest, consumer>>
vars   == <<options, server, feed>>

EventsOf(M) == {e \in Events : MessageOf[e] \in M}
Visible     == committed \ deleted

\* What the feed is asked for.
Wanted == IF byRecord THEN Requested ELSE Owned

Init ==
  /\ byRecord \in BOOLEAN /\ batch_size \in BatchSizes
  /\ committed = {} /\ deleted = {} /\ late = {}
  /\ pc = "idle"
  /\ cursor = 0
  /\ msg_map = {} /\ rows = {} /\ rest = {}
  /\ delivered = {} /\ deliveries = 0
  /\ lastSeen = 0
  /\ since_id = 0 /\ since = {}
  /\ resumes = 0

-----------------------------------------------------------------------------
(***************************************************************************)
(* The server.                                                             *)
(***************************************************************************)

\* A transaction commits: late when a higher id is there already.
Commit(m) ==
  /\ m \notin committed
  /\ committed' = committed \cup {m}
  /\ late' = IF \E e \in EventsOf({m}), f \in EventsOf(committed) : e < f
             THEN late \cup {m} ELSE late
  /\ UNCHANGED <<options, deleted, feed>>

DeleteMessage(m) ==
  /\ Cardinality(deleted) < MaxDeletes
  /\ m \in Visible
  /\ deleted' = deleted \cup {m}
  /\ UNCHANGED <<options, committed, late, feed>>

-----------------------------------------------------------------------------
(***************************************************************************)
(* The feed.                                                               *)
(***************************************************************************)

\* A page begins; without res_ids there are no messages to find first.
FirstStep == IF byRecord THEN "messages" ELSE "rows"

\* get_feed is called for the first time, or again with since_id=last_seen_id.
\* Whatever the old generator was doing, it is gone.
StartFeed ==
  /\ \/ pc = "idle" /\ UNCHANGED resumes
     \/ pc # "idle" /\ resumes < MaxResumes /\ resumes' = resumes + 1
  /\ pc' = FirstStep
  /\ since_id' = lastSeen /\ cursor' = since_id'
  /\ since' = committed
  /\ msg_map' = {} /\ rows' = {} /\ rest' = {}
  /\ UNCHANGED <<options, server, delivered, deliveries, lastSeen>>

\* The messages of res_ids; without any the feed ends.
MessagesRead ==
  /\ pc = "messages"
  /\ msg_map' = Visible \cap Requested
  /\ pc' = IF msg_map' = {} THEN "done" ELSE "rows"
  /\ UNCHANGED <<options, server, cursor, rows, rest, consumer>>

\* Mutant: the domain is ("id", ">=", cursor).
InDomainInclusive(e) == e >= cursor /\ (byRecord => MessageOf[e] \in msg_map)

\* The domain of the page.
InDomain(e) == e > cursor /\ (byRecord => MessageOf[e] \in msg_map)

\* Mutant: order="id desc".
FirstOfNewest(B, S) ==
  /\ B \subseteq S
  /\ \A i \in B, j \in S \ B : i > j
  /\ B = S \/ Cardinality(B) = batch_size
  /\ Cardinality(B) <= batch_size

\* order="id asc", limit=batch_size
FirstOf(B, S) ==
  /\ B \subseteq S
  /\ \A i \in B, j \in S \ B : i < j
  /\ B = S \/ Cardinality(B) = batch_size
  /\ Cardinality(B) <= batch_size

\* One page of tracking values; an empty one ends the feed.
RowsRead ==
  /\ pc = "rows"
  /\ rows' \in SUBSET Events
  /\ FirstOf(rows', {e \in EventsOf(Visible) : InDomain(e)})
  /\ rest' = rows'
  /\ pc' = IF rows' = {} THEN "done" ELSE IF msg_map = {} THEN "authors" ELSE "fields"
  /\ UNCHANGED <<options, server, cursor, msg_map, consumer>>

\* The messages of the rows; read() answers for those that still exist.
AuthorsRead ==
  /\ pc = "authors"
  /\ msg_map' = {MessageOf[e] : e \in rows} \cap Visible
  /\ pc' = "fields"
  /\ UNCHANGED <<options, server, cursor, rows, rest, consumer>>

\* ensure_fields_cached
FieldsRead ==
  /\ pc = "fields"
  /\ pc' = "yielding"
  /\ UNCHANGED <<options, server, cursor, msg_map, rows, rest, consumer>>

\* Any read may raise, and ends the feed.
ReadFails ==
  /\ pc \in {"messages", "rows", "authors", "fields"}
  /\ pc' = "failed"
  /\ UNCHANGED <<options, server, cursor, msg_map, rows, rest, consumer>>

\* Without res_ids, a row whose message is known to be of another model.
Foreign(e) == ~byRecord /\ MessageOf[e] \in msg_map /\ MessageOf[e] \notin Owned

\* Mutant: a full page counts as the last one.
ShortPageInclusive == Cardinality(rows) <= batch_size

\* len(tracking_rows) < batch_size
ShortPage == Cardinality(rows) < batch_size

\* After the last row of a page: the end, or the next page, for which msg_map
\* is read anew.
RowDone(e) ==
  /\ rest' = rest \ {e}
  /\ IF rest' # {}
     THEN UNCHANGED <<pc, msg_map>>
     ELSE pc' = (IF ShortPage THEN "done" ELSE FirstStep) /\ msg_map' = {}

\* Mutant: the cursor stays behind rows of other models.
SkipStuck ==
  /\ pc = "yielding"
  /\ \E e \in rest : (\A f \in rest : e <= f) /\ Foreign(e) /\ RowDone(e)
  /\ UNCHANGED <<options, server, cursor, rows, consumer>>

\* A row of another model is passed over.
Skip ==
  /\ pc = "yielding"
  /\ \E e \in rest :
       /\ \A f \in rest : e <= f
       /\ Foreign(e)
       /\ cursor' = e
       /\ RowDone(e)
  /\ UNCHANGED <<options, server, rows, consumer>>

\* The next event goes to the consumer, which notes its id; when it asks for
\* more, the cursor moves.
Yield ==
  /\ pc = "yielding"
  /\ \E e \in rest :
       /\ \A f \in rest : e <= f
       /\ ~Foreign(e)
       /\ delivered' = delivered \cup {e}
       /\ deliveries' = deliveries + 1
       /\ lastSeen' = e
       /\ cursor' = e
       /\ RowDone(e)
  /\ UNCHANGED <<options, server, rows, since_id, since, resumes>>

FeedStep == MessagesRead \/ RowsRead \/ AuthorsRead \/ FieldsRead \/ Skip \/ Yield

Next ==
  \/ \E m \in Messages : Commit(m) \/ DeleteMessage(m)
  \/ StartFeed \/ ReadFails \/ FeedStep

Spec == Init /\ [][Next]_vars

\* Reads end, and the consumer goes on asking.
FairSpec == Spec /\ WF_vars(FeedStep)

-----------------------------------------------------------------------------
(***************************************************************************)
(* Properties.                                                             *)
(***************************************************************************)

Reading == {"messages", "rows", "authors", "fields", "yielding"}

TypeOK ==
  /\ byRecord \in BOOLEAN /\ batch_size \in BatchSizes
  /\ committed \in SUBSET Messages
  /\ deleted \in SUBSET committed /\ late \in SUBSET committed
  /\ pc \in Reading \cup {"idle", "done", "failed"}
  /\ cursor \in Events \cup {0} /\ lastSeen \in Events \cup {0}
  /\ since_id \in Events \cup {0}
  /\ msg_map \in SUBSET Messages
  /\ rows \in SUBSET Events /\ rest \in SUBSET rows
  /\ delivered \in SUBSET Events /\ deliveries \in Nat
  /\ since \in SUBSET committed
  /\ resumes \in Nat

\* No event is skipped on the way, over all pages and resumptions: whatever
\* the cursor has passed was delivered, if it was asked for, its message still
\* exists and it appeared in the order of its id.
NoneSkipped ==
  \A e \in EventsOf((Visible \ late) \cap Wanted) :
    e <= cursor \/ e <= lastSeen => e \in delivered

\* What a feed is to deliver: the events beyond its since_id that were there when
\* it began and still are, those that appeared out of order among them.
OwedSince ==
  {e \in EventsOf((since \ deleted) \cap Wanted) : since_id < e}

\* A feed that comes to its end has delivered every event beyond its since_id that
\* was there when it began, whatever appeared and was deleted meanwhile.  (What
\* commits late with an id at or below since_id, no feed returns to.)
FeedComplete == pc = "done" => OwedSince \subseteq delivered

\* The consumer gets events in ascending order and none twice, over any
\* number of resumptions, although feeds fail and messages are deleted.
OnceInOrder ==
  [][deliveries' # deliveries =>
       \E e \in Events : /\ delivered' = delivered \cup {e}
                         /\ \A f \in delivered : f < e]_vars

\* "Filter: only yield events for the requested model" (functions.py:202).
OwnModel == delivered \subseteq EventsOf(Owned)

\* Once nothing new commits, every feed comes to an end.
FeedEnds == (pc \in Reading) ~> (pc \notin Reading)

-----------------------------------------------------------------------------
(***************************************************************************)
(* The inductive invariant.                                                *)
(***************************************************************************)

\* The events that are owed to the consumer: those that appeared in the order of
\* their ids, and those that were there when the feed began.
Owed == EventsOf((Visible \ late) \cap Wanted) \cup OwedSince

\* The cursor stands on an event that was there, and has passed no event that is
\* owed and not delivered; the consumer is not ahead of it.
Cursor ==
  /\ lastSeen <= cursor
  /\ \A i \in {cursor, lastSeen} : i = 0 \/ MessageOf[i] \in committed
  /\ \A e \in delivered : e <= lastSeen
  /\ \A e \in Owed : e <= cursor => e \in delivered

\* Messages read before the rows: an event they leave out came after them all.
Found ==
  /\ pc = "messages" => byRecord
  /\ pc = "rows" /\ byRecord =>
       /\ msg_map \subseteq committed
       /\ \A e \in Owed : \/ MessageOf[e] \in msg_map
                          \/ e \notin OwedSince /\ \A f \in EventsOf(msg_map) : f < e

\* A page leaves out only events beyond its end, and of those that were there when
\* the feed began only when it is full.
Page ==
  /\ rows \subseteq EventsOf(committed)
  /\ pc \in {"authors", "fields", "yielding"} =>
       /\ \A e \in rest : cursor < e
       /\ \A e \in Owed : cursor < e => e \in rest \/ \A f \in rows : f < e
       /\ \A e \in OwedSince : cursor < e => e \in rest \/ Cardinality(rows) = batch_size

IInv == TypeOK /\ Cursor /\ Found /\ Page /\ FeedComplete
=============================================================================
