---------------------------- MODULE PagingProofs ----------------------------
(***************************************************************************)
(* Proofs about IterSearchRead, for every finite set of ids, every batch   *)
(* size and limit, and any number of changes between pages, and about      *)
(* CdcFeed, for any events and messages, any batch size, any number of     *)
(* failures, deletions and resumptions, and commits at any time; Paging    *)
(* runs one or the other.                                                  *)
(***************************************************************************)
EXTENDS Paging, FiniteSetTheorems, TLAPS

\* Numbers of records are numbers.
LEMMA Sizes ==
  ASSUME NEW S \in SUBSET Ids
  PROVE  IsFiniteSet(S) /\ Cardinality(S) \in Nat
BY IterAssumption, FS_Subset, FS_CardinalityType

\* Taking a record off a page.
LEMMA OneLess ==
  ASSUME NEW S \in SUBSET Ids, NEW x \in S
  PROVE  Cardinality(S \ {x}) = Cardinality(S) - 1
BY Sizes, FS_RemoveElement

\* Nothing has been fetched yet.
LEMMA InitIInv == Init => IInv
BY IterAssumption DEF Init, IInv, TypeOK, Cursor, Page, Budget, NoGaps, Complete, LimitRespected

\* What other users do never adds to the records that matched all along.
LEMMA ChangeIInv == IInv /\ Change => IInv'
<1> SUFFICES ASSUME IInv, Change PROVE IInv'
  OBVIOUS
<1>1. throughout' \subseteq throughout
  BY DEF Change
<1>2. TypeOK'
  BY IterAssumption DEF IInv, TypeOK, Change
<1>3. Cursor' /\ Budget' /\ LimitRespected'
  BY <1>1 DEF IInv, Cursor, Budget, LimitRespected, Change
<1>4. Page'
  BY <1>1 DEF IInv, Page, Change
<1>5. NoGaps' /\ Complete'
  BY <1>1 DEF IInv, NoGaps, Complete, Change
<1> QED
  BY <1>2, <1>3, <1>4, <1>5 DEF IInv

\* Of the records beyond the cursor, a page leaves out only some that are
\* beyond its end, and only when it is full.
LEMMA FetchIInv == IInv /\ Fetch => IInv'
<1> SUFFICES ASSUME IInv, Fetch PROVE IInv'
  OBVIOUS
<1> USE DEF Fetch
<1>types. /\ TypeOK /\ last_id \in Nat /\ count \in Nat /\ batch_size \in Nat
          /\ limit = NoLimit \/ limit \in Nat
          /\ Ids \subseteq Nat /\ NoLimit \notin Nat
  BY IterAssumption DEF IInv, TypeOK
<1>1. fetch_size' \in Int
  BY <1>types DEF FetchSize
<1>2. TypeOK'
  BY <1>types, <1>1 DEF TypeOK
<1>3. Cursor' /\ Budget' /\ NoGaps'
  BY DEF IInv, Cursor, Budget, NoGaps
<1>4. /\ \A j \in yielded : j <= last_id
      /\ \A i \in throughout : i <= last_id => i \in yielded
  BY DEF IInv, Cursor
<1>5. /\ batch' \subseteq After
      /\ \A i \in batch', j \in After \ batch' : i < j
      /\ batch' = After \/ Cardinality(batch') = fetch_size'
      /\ fetch_size' # 0 => Cardinality(batch') <= fetch_size'
  BY DEF FirstOf
<1>6. \A i \in throughout \ yielded : i \in After
  BY <1>4, <1>types DEF After, TypeOK
<1>7. Page'
  <2>1. \A j \in yielded, i \in After : j < i
    BY <1>4, <1>types DEF After, TypeOK
  <2>2. \A i \in throughout \ (yielded \cup batch') : i \in After \ batch'
    BY <1>6
  <2> QED
    BY <2>1, <2>2, <1>5 DEF Page
<1>8. Complete'
  <2>1. ASSUME batch' = {}, limit = NoLimit \/ count < limit
        PROVE  After = {}
    <3>1. CASE batch' = After
      BY <3>1, <2>1
    <3>2. CASE batch' # After
      <4>1. fetch_size' # 0 /\ Cardinality(batch') = fetch_size'
        BY <3>2 DEF FirstOf
      <4> QED
        BY <4>1, <2>1, FS_EmptySet
    <3> QED
      BY <3>1, <3>2
  <2> QED
    BY <2>1, <1>6 DEF Complete
<1>9. LimitRespected'
  <2> SUFFICES ASSUME limit # NoLimit, limit # 0
               PROVE  /\ count <= limit
                      /\ batch_size # 0 => count + Cardinality(batch') <= limit
    BY DEF LimitRespected
  <2>1. count < limit /\ limit \in Nat
    BY <1>types DEF IInv, Budget
  <2>2. batch_size # 0 => fetch_size' # 0 /\ fetch_size' <= limit - count
    BY <2>1, <1>types DEF FetchSize
  <2>3. Cardinality(batch') \in Nat
    BY Sizes
  <2> QED
    BY <2>1, <2>2, <2>3, <1>1, <1>5, <1>types
<1> QED
  BY <1>2, <1>3, <1>7, <1>8, <1>9 DEF IInv

\* The record that is yielded is the next one of all that matched all along,
\* and the last record of a page is a good cursor.
LEMMA YieldIInv == IInv /\ Yield => IInv'
<1> SUFFICES ASSUME IInv, Yield PROVE IInv'
  OBVIOUS
<1>types. /\ TypeOK /\ last_id \in Nat /\ count \in Nat /\ batch_size \in Nat
          /\ fetch_size \in Int
          /\ limit = NoLimit \/ limit \in Nat
          /\ Ids \subseteq Nat \ {0} /\ NoLimit \notin Nat
          /\ batch \subseteq Ids /\ rest \subseteq batch /\ yielded \subseteq Ids
          /\ throughout \subseteq Ids
  BY IterAssumption DEF IInv, TypeOK
<1>1. PICK x \in rest :
        /\ \A y \in rest : x <= y
        /\ rest' = rest \ {x}
        /\ yielded' = yielded \cup {x}
        /\ count' = count + 1
        /\ \/ /\ LimitReached
              /\ pc' = "done"
              /\ UNCHANGED last_id
           \/ /\ ~LimitReached /\ rest' # {}
              /\ UNCHANGED <<pc, last_id>>
           \/ /\ ~LimitReached /\ rest' = {}
              /\ PageEnds(x)
  BY DEF Yield
<1>2. /\ pc = "yielding"
      /\ UNCHANGED <<matching, changes, throughout, batch_size, limit, fetch_size, batch>>
  BY DEF Yield
<1>3. /\ \A j \in yielded, i \in rest : j < i
      /\ \A i \in throughout \ (yielded \cup rest) :
           /\ \A b \in batch : b < i
           /\ Cardinality(batch) = fetch_size
  BY <1>2 DEF IInv, Page
<1>4. \A y \in rest' : x < y
  BY <1>1, <1>types
<1>5. TypeOK'
  BY <1>1, <1>2, <1>types DEF TypeOK, PageEnds
<1>6. NoGaps'
  <2> SUFFICES ASSUME NEW i \in throughout, NEW j \in yielded', i < j
               PROVE  i \in yielded'
    BY <1>2 DEF NoGaps
  <2>1. CASE j \in yielded
    BY <2>1, <1>1 DEF IInv, NoGaps
  <2>2. CASE j = x
    <3>1. i \notin rest
      BY <2>2, <1>1, <1>types
    <3>2. ~(x < i)
      BY <2>2, <1>types
    <3>3. i \notin throughout \ (yielded \cup rest)
      BY <3>2, <1>1, <1>3, <1>types
    <3> QED
      BY <3>1, <3>3, <1>1
  <2> QED
    BY <2>1, <2>2, <1>1
<1>7. Page'
  <2>1. ASSUME pc' = "yielding" PROVE rest' # {}
    BY <2>1, <1>1 DEF PageEnds
  <2>2. \A j \in yielded', i \in rest' : j < i
    BY <1>1, <1>3, <1>4
  <2>3. \A i \in throughout \ (yielded' \cup rest') : i \in throughout \ (yielded \cup rest)
    BY <1>1
  <2> QED
    BY <2>1, <2>2, <2>3, <1>2, <1>3 DEF Page
<1>8. Cursor'
  <2> SUFFICES ASSUME pc' = "fetching"
               PROVE  /\ rest' = {}
                      /\ \A j \in yielded' : j <= last_id'
                      /\ \A i \in throughout : i <= last_id' => i \in yielded'
    BY <1>2 DEF Cursor
  <2>1. rest' = {} /\ last_id' = x
    BY <1>1, <1>2 DEF PageEnds
  <2>2. \A j \in yielded' : j <= x
    BY <1>1, <1>3, <1>types
  <2>3. ASSUME NEW i \in throughout, i <= x PROVE i \in yielded'
    <3>1. ~(x < i)
      BY <2>3, <1>types
    <3>2. i \notin throughout \ (yielded \cup rest)
      BY <3>1, <1>1, <1>3, <1>types
    <3> QED
      BY <3>2, <2>1, <1>1
  <2> QED
    BY <2>1, <2>2, <2>3
<1>9. Complete'
  <2> SUFFICES ASSUME pc' = "done", limit = NoLimit \/ count + 1 < limit,
                      NEW i \in throughout
               PROVE  i \in yielded'
    BY <1>1, <1>2 DEF Complete
  <2>1. ~LimitReached
    BY <1>types DEF LimitReached
  <2>2. rest' = {} /\ ShortPage
    BY <2>1, <1>1, <1>2 DEF PageEnds
  <2>3. Cardinality(batch) \in Nat
    BY <1>types, Sizes
  <2>4. i \notin throughout \ (yielded \cup rest)
    BY <2>2, <2>3, <1>3, <1>types DEF ShortPage
  <2> QED
    BY <2>2, <2>4, <1>1
<1>10. Budget'
  BY <1>1, <1>2, <1>types DEF IInv, Budget, LimitReached, PageEnds
<1>11. LimitRespected'
  <2> SUFFICES ASSUME limit # NoLimit, limit # 0
               PROVE  /\ count + 1 <= limit
                      /\ batch_size # 0 /\ pc' = "yielding" =>
                           count + 1 + Cardinality(rest') <= limit
    BY <1>1, <1>2 DEF LimitRespected
  <2>1. count < limit /\ limit \in Nat
    BY <1>2, <1>types DEF IInv, Budget
  <2>2. batch_size # 0 => count + Cardinality(rest) <= limit
    BY <1>2 DEF IInv, LimitRespected
  <2>3. Cardinality(rest') = Cardinality(rest) - 1 /\ Cardinality(rest) \in Nat
    BY <1>1, <1>types, OneLess, Sizes
  <2> QED
    BY <2>1, <2>2, <2>3, <1>types
<1> QED
  BY <1>5, <1>6, <1>7, <1>8, <1>9, <1>10, <1>11 DEF IInv

\* The invariant is inductive.
LEMMA StepIInv == IInv /\ [Next]_vars => IInv'
<1> SUFFICES ASSUME IInv, [Next]_vars PROVE IInv'
  OBVIOUS
<1>1. CASE Change
  BY <1>1, ChangeIInv
<1>2. CASE Fetch
  BY <1>2, FetchIInv
<1>3. CASE FetchFails
  BY <1>3 DEF FetchFails, IInv, TypeOK, Cursor, Page, Budget, NoGaps, Complete, LimitRespected
<1>4. CASE Yield
  BY <1>4, YieldIInv
<1>5. CASE Close
  BY <1>5 DEF Close, IInv, TypeOK, Cursor, Page, Budget, NoGaps, Complete, LimitRespected
<1>6. CASE UNCHANGED vars
  BY <1>6 DEF vars, IInv, TypeOK, Cursor, Page, Budget, NoGaps, Complete, LimitRespected
<1> QED
  BY <1>1, <1>2, <1>3, <1>4, <1>5, <1>6 DEF Next

\* The inductive invariant, types included, holds in every reachable state.
THEOREM Invariance == Spec => []IInv
BY InitIInv, StepIInv, PTL DEF Spec

\* No record that matches all along is passed over.
THEOREM NothingPassedOver == Spec => []NoGaps
<1>1. IInv => NoGaps
  BY DEF IInv
<1> QED
  BY <1>1, Invariance, PTL

\* An iteration without a limit in its way yields all that matched all along.
THEOREM EverythingYielded == Spec => []Complete
<1>1. IInv => Complete
  BY DEF IInv
<1> QED
  BY <1>1, Invariance, PTL

\* A positive limit bounds what is yielded and what is fetched.
THEOREM WithinLimit == Spec => []LimitRespected
<1>1. IInv => LimitRespected
  BY DEF IInv
<1> QED
  BY <1>1, Invariance, PTL

\* Records come in ascending order, and none twice.
THEOREM InOrder == Spec => Ascending
<1>1. ASSUME IInv, [Next]_vars
      PROVE  [count' # count =>
                \E x \in Ids : yielded' = yielded \cup {x} /\ \A j \in yielded : j < x]_vars
  <2>1. CASE Yield
    <3>1. PICK x \in rest : yielded' = yielded \cup {x}
      BY <2>1 DEF Yield
    <3>2. x \in Ids /\ \A j \in yielded : j < x
      BY <2>1, <1>1 DEF IInv, TypeOK, Page, Yield
    <3> QED
      BY <3>1, <3>2
  <2>2. CASE ~Yield
    BY <2>2, <1>1 DEF Next, Change, Fetch, FetchFails, Close, vars
  <2> QED
    BY <2>1, <2>2
<1> QED
  BY <1>1, Invariance, PTL DEF Spec, Ascending

-----------------------------------------------------------------------------
(***************************************************************************)
(* CdcFeed.                                                                *)
(***************************************************************************)

\* Sizes of sets are the same to CdcFeed.
LEMMA SameSizes ==
  \A S : Feed!Cardinality(S) = Cardinality(S) /\ (Feed!IsFiniteSet(S) <=> IsFiniteSet(S))
BY DEF Feed!Cardinality, Cardinality, Feed!IsFiniteSet, IsFiniteSet

\* Nothing has happened yet.
LEMMA FeedInitIInv == ASSUME Feed!FeedConstants, Feed!Init PROVE Feed!IInv
<1>1. Feed!TypeOK
  BY DEF Feed!FeedConstants, Feed!Init, Feed!TypeOK, Feed!Reading
<1>2. Feed!Owed = {}
  BY DEF Feed!Init, Feed!Owed, Feed!OwedSince, Feed!EventsOf, Feed!Visible
<1> QED
  BY <1>1, <1>2 DEF Feed!Init, Feed!IInv, Feed!Cursor, Feed!Found, Feed!Page, Feed!FeedComplete

\* What is owed of the time before is owed.
LEMMA OwedEarlier ==
  ASSUME Feed!FeedConstants, Feed!IInv
  PROVE  /\ Feed!OwedSince \subseteq Feed!Owed /\ Feed!Owed \subseteq Events
         /\ Events \subseteq Nat \ {0} /\ cursor \in Nat /\ lastSeen \in Nat
BY DEF Feed!FeedConstants, Feed!IInv, Feed!TypeOK, Feed!Owed, Feed!OwedSince, Feed!EventsOf,
   Feed!Visible

\* Events that appear in the order of their ids come after all that were there.
LEMMA CommitIInv ==
  ASSUME Feed!FeedConstants, Feed!IInv, NEW m \in Messages, Feed!Commit(m)
  PROVE  Feed!IInv'
<1> USE DEF Feed!Commit, Feed!options, Feed!feed, Feed!consumer
<1>1. Feed!TypeOK'
  BY DEF Feed!IInv, Feed!TypeOK
<1>2. /\ Feed!Owed \subseteq Events /\ Events \subseteq Nat \ {0}
      /\ cursor \in Nat /\ lastSeen \in Nat
      /\ MessageOf \in [Events -> Messages]
  BY OwedEarlier DEF Feed!FeedConstants
<1>4. Feed!OwedSince' \subseteq Feed!OwedSince
  BY DEF Feed!OwedSince, Feed!EventsOf, Feed!Wanted
<1>3. ASSUME NEW e \in Feed!Owed', e \notin Feed!Owed
      PROVE  e \in Events /\ MessageOf[e] = m /\ \A f \in Feed!EventsOf(committed) : f < e
  <2>1. e \in Events /\ MessageOf[e] = m /\ m \notin late'
    BY <1>3, <1>4 DEF Feed!Owed, Feed!EventsOf, Feed!Visible, Feed!Wanted, Feed!IInv, Feed!TypeOK
  <2> QED
    BY <1>2, <2>1 DEF Feed!EventsOf
<1>5. Feed!Cursor'
  <2>1. ASSUME NEW e \in Feed!Owed', e <= cursor PROVE e \in delivered
    <3>1. CASE e \in Feed!Owed
      BY <2>1, <3>1 DEF Feed!IInv, Feed!Cursor
    <3>2. CASE e \notin Feed!Owed
      <4>1. e \in Events /\ \A f \in Feed!EventsOf(committed) : f < e
        BY <1>3, <3>2
      <4>2. cursor = 0 \/ cursor \in Feed!EventsOf(committed)
        BY DEF Feed!IInv, Feed!Cursor, Feed!TypeOK, Feed!EventsOf
      <4> QED
        BY <1>2, <2>1, <4>1, <4>2
    <3> QED
      BY <3>1, <3>2
  <2> QED
    BY <2>1 DEF Feed!IInv, Feed!Cursor
<1>6. Feed!Found'
  BY <1>3, <1>4 DEF Feed!IInv, Feed!Found, Feed!TypeOK, Feed!EventsOf, Feed!OwedSince
<1>7. Feed!Page'
  BY <1>3, <1>4 DEF Feed!IInv, Feed!Page, Feed!TypeOK, Feed!EventsOf
<1>8. Feed!FeedComplete'
  BY <1>4 DEF Feed!IInv, Feed!FeedComplete, Feed!OwedSince
<1> QED
  BY <1>1, <1>5, <1>6, <1>7, <1>8 DEF Feed!IInv

\* Deleting takes from what is owed.
LEMMA DeleteIInv == ASSUME Feed!IInv, NEW m \in Messages, Feed!DeleteMessage(m) PROVE Feed!IInv'
<1> USE DEF Feed!DeleteMessage, Feed!options, Feed!feed, Feed!consumer
<1>1. Feed!TypeOK'
  BY DEF Feed!IInv, Feed!TypeOK, Feed!Visible
<1>2. Feed!Owed' \subseteq Feed!Owed /\ Feed!OwedSince' \subseteq Feed!OwedSince
  BY DEF Feed!Owed, Feed!OwedSince, Feed!EventsOf, Feed!Visible, Feed!Wanted
<1>3. Feed!Cursor' /\ Feed!Found' /\ Feed!Page'
  BY <1>2 DEF Feed!IInv, Feed!Cursor, Feed!Found, Feed!Page, Feed!EventsOf, Feed!OwedSince
<1>4. Feed!FeedComplete'
  BY <1>2 DEF Feed!IInv, Feed!FeedComplete, Feed!OwedSince
<1> QED
  BY <1>1, <1>3, <1>4 DEF Feed!IInv

\* A feed that is resumed begins where the consumer is.
LEMMA StartIInv == ASSUME Feed!FeedConstants, Feed!IInv, Feed!StartFeed PROVE Feed!IInv'
<1> USE DEF Feed!StartFeed, Feed!options, Feed!server
<1>1. /\ feedPc' \in {"messages", "rows"} /\ (byRecord <=> feedPc' = "messages")
      /\ byRecord' = byRecord
      /\ rows' = {}
  BY DEF Feed!FirstStep, Feed!IInv, Feed!TypeOK
<1>2. Feed!TypeOK'
  <2>1. resumes' \in Nat
    BY DEF Feed!IInv, Feed!TypeOK
  <2> QED
    BY <1>1, <2>1 DEF Feed!IInv, Feed!TypeOK, Feed!Reading
<1>3. ASSUME NEW e \in Feed!Owed', e <= cursor' PROVE e \in Feed!Owed /\ e <= cursor
  <2>1. e \in Events /\ Events \subseteq Nat /\ cursor' = lastSeen /\ since_id' = lastSeen
    BY OwedEarlier DEF Feed!Owed, Feed!OwedSince, Feed!EventsOf
  <2>2. e \notin Feed!OwedSince'
    BY <1>3, <2>1, OwedEarlier DEF Feed!OwedSince
  <2>3. e \in Feed!Owed
    BY <2>2 DEF Feed!Owed, Feed!EventsOf, Feed!Visible, Feed!Wanted
  <2> QED
    BY <1>3, <2>1, <2>3, OwedEarlier DEF Feed!IInv, Feed!Cursor
<1>4. Feed!Cursor'
  <2>1. lastSeen' = lastSeen /\ cursor' = lastSeen /\ UNCHANGED <<delivered, committed>>
    OBVIOUS
  <2> QED
    BY <1>3, <2>1, OwedEarlier DEF Feed!IInv, Feed!Cursor
<1>5. Feed!Found' /\ Feed!Page' /\ Feed!FeedComplete'
  <2>1. Feed!Found'
    BY <1>1 DEF Feed!Found
  <2>2. Feed!Page'
    BY <1>1 DEF Feed!Page
  <2> QED
    BY <1>1, <2>1, <2>2 DEF Feed!FeedComplete
<1> QED
  BY <1>2, <1>4, <1>5 DEF Feed!IInv

\* The messages that are there, with all of the time before among them.
LEMMA MessagesIInv == ASSUME Feed!FeedConstants, Feed!IInv, Feed!MessagesRead PROVE Feed!IInv'
<1> USE DEF Feed!MessagesRead, Feed!options, Feed!server, Feed!consumer
<1>0. /\ byRecord = TRUE \/ byRecord = FALSE
      /\ Feed!Owed' = Feed!Owed /\ Feed!OwedSince' = Feed!OwedSince
      /\ feedPc' \in {"done", "rows"}
  BY DEF Feed!IInv, Feed!TypeOK, Feed!Owed, Feed!OwedSince, Feed!EventsOf, Feed!Visible, Feed!Wanted
<1>1. Feed!TypeOK'
  BY DEF Feed!IInv, Feed!TypeOK, Feed!Reading, Feed!Visible
<1>2. Feed!Cursor' /\ Feed!Page'
  BY <1>0 DEF Feed!IInv, Feed!Cursor, Feed!Page
<1>6. Feed!Wanted = Requested
  BY DEF Feed!IInv, Feed!Found, Feed!Wanted
<1>3. \A e \in Feed!Owed : MessageOf[e] \in msg_map'
  BY <1>6 DEF Feed!Owed, Feed!OwedSince, Feed!EventsOf, Feed!Visible, Feed!IInv, Feed!TypeOK
<1>4. Feed!Found'
  <2>1. msg_map' \subseteq committed' /\ feedPc' # "messages"
    BY <1>0 DEF Feed!Visible
  <2>2. \A e \in Feed!Owed' : MessageOf[e] \in msg_map'
    BY <1>0, <1>3
  <2> QED
    BY <2>1, <2>2 DEF Feed!Found
<1>5. Feed!FeedComplete'
  <2> SUFFICES ASSUME feedPc' = "done"
               PROVE  Feed!OwedSince \subseteq delivered
    BY <1>0 DEF Feed!FeedComplete
  <2>1. Feed!Visible \cap Requested = {}
    OBVIOUS
  <2> QED
    BY <1>6, <2>1 DEF Feed!IInv, Feed!TypeOK, Feed!OwedSince, Feed!EventsOf, Feed!Visible
<1> QED
  BY <1>1, <1>2, <1>4, <1>5 DEF Feed!IInv

\* A page is the first of what the cursor has not passed.
LEMMA RowsIInv == ASSUME Feed!FeedConstants, Feed!IInv, Feed!RowsRead PROVE Feed!IInv'
<1> USE DEF Feed!RowsRead, Feed!options, Feed!server, Feed!consumer
<1> DEFINE S == {e \in Feed!EventsOf(Feed!Visible) : Feed!InDomain(e)}
<1>0. /\ Feed!Owed' = Feed!Owed /\ Feed!OwedSince' = Feed!OwedSince
      /\ Feed!OwedSince \subseteq Feed!Owed /\ Feed!Owed \subseteq Events
      /\ Events \subseteq Nat \ {0} /\ cursor \in Nat /\ lastSeen \in Nat
      /\ feedPc' \in {"done", "authors", "fields"} /\ (feedPc' = "done" => rows' = {})
      /\ feedSize \in Nat \ {0}
  BY OwedEarlier DEF Feed!FeedConstants, Feed!IInv, Feed!TypeOK, Feed!Owed, Feed!OwedSince,
     Feed!EventsOf, Feed!Visible, Feed!Wanted
<1>1. Feed!TypeOK'
  BY DEF Feed!IInv, Feed!TypeOK, Feed!Reading
<1>2. /\ rows' \subseteq S /\ feedRest' = rows'
      /\ \A i \in rows', j \in S \ rows' : i < j
      /\ rows' = S \/ Cardinality(rows') = feedSize
  BY SameSizes DEF Feed!FirstOf
<1>3. Feed!Cursor' /\ Feed!Found'
  BY <1>0 DEF Feed!IInv, Feed!Cursor, Feed!Found
<1>4. ASSUME NEW e \in Feed!Owed, cursor < e
      PROVE  /\ e \in rows' \/ \A f \in rows' : f < e
             /\ e \in Feed!OwedSince => e \in rows' \/ Cardinality(rows') = feedSize
  <2>1. e \in Feed!EventsOf(Feed!Visible)
    BY DEF Feed!Owed, Feed!OwedSince, Feed!EventsOf, Feed!Visible, Feed!IInv, Feed!TypeOK
  <2>2. CASE e \in S
    BY <1>2, <2>2
  <2>3. CASE e \notin S
    <3>1. byRecord /\ MessageOf[e] \notin msg_map
      BY <1>0, <1>4, <2>1, <2>3 DEF Feed!InDomain, Feed!IInv, Feed!TypeOK
    <3>2. e \notin Feed!OwedSince /\ \A f \in Feed!EventsOf(msg_map) : f < e
      BY <3>1 DEF Feed!IInv, Feed!Found
    <3>3. rows' \subseteq Feed!EventsOf(msg_map)
      BY <1>2, <3>1 DEF Feed!InDomain, Feed!EventsOf
    <3> QED
      BY <3>2, <3>3
  <2> QED
    BY <2>2, <2>3
<1>5. Feed!Page'
  <2>1. \A e \in feedRest' : cursor < e
    BY <1>0, <1>2 DEF Feed!InDomain, Feed!EventsOf
  <2>2. rows' \subseteq Feed!EventsOf(committed)
    BY <1>2 DEF Feed!EventsOf, Feed!Visible
  <2> QED
    BY <1>0, <1>2, <1>4, <2>1, <2>2, SameSizes DEF Feed!Page
<1>6. Feed!FeedComplete'
  <2> SUFFICES ASSUME feedPc' = "done", NEW e \in Feed!OwedSince PROVE e \in delivered
    BY <1>0 DEF Feed!FeedComplete, Feed!OwedSince
  <2>1. rows' = {} /\ Cardinality(rows') # feedSize
    BY <1>0, FS_EmptySet
  <2>2. ~(cursor < e)
    BY <1>0, <1>4, <2>1
  <2> QED
    BY <1>0, <2>2 DEF Feed!IInv, Feed!Cursor
<1> QED
  BY <1>1, <1>3, <1>5, <1>6 DEF Feed!IInv

\* Reads that say nothing of which rows there are.
LEMMA DetailsIInv ==
  ASSUME Feed!IInv, Feed!AuthorsRead \/ Feed!FieldsRead \/ Feed!ReadFails
  PROVE  Feed!IInv'
<1> USE DEF Feed!AuthorsRead, Feed!FieldsRead, Feed!ReadFails, Feed!options, Feed!server,
           Feed!consumer
<1>1. Feed!Owed' = Feed!Owed /\ Feed!OwedSince' = Feed!OwedSince
  BY DEF Feed!Owed, Feed!OwedSince, Feed!EventsOf, Feed!Visible, Feed!Wanted
<1>2. Feed!TypeOK'
  BY DEF Feed!IInv, Feed!TypeOK, Feed!Reading, Feed!Visible
<1>3. Feed!Cursor' /\ Feed!Found' /\ Feed!FeedComplete'
  BY <1>1 DEF Feed!IInv, Feed!Cursor, Feed!Found, Feed!FeedComplete
<1>4. Feed!Page'
  BY <1>1 DEF Feed!IInv, Feed!Page
<1> QED
  BY <1>2, <1>3, <1>4 DEF Feed!IInv

\* The first of the remaining rows is delivered, or is not owed.
LEMMA RowIInv ==
  ASSUME Feed!FeedConstants, Feed!IInv, feedPc = "yielding",
         NEW e \in feedRest, \A f \in feedRest : e <= f,
         Feed!RowDone(e), cursor' = e, e \in delivered' \/ e \notin Feed!Owed,
         \/ UNCHANGED Feed!consumer
         \/ /\ delivered' = delivered \cup {e} /\ deliveries' = deliveries + 1 /\ lastSeen' = e
            /\ UNCHANGED <<since_id, since, resumes>>,
         UNCHANGED <<Feed!options, Feed!server, rows>>
  PROVE  Feed!IInv'
<1> USE DEF Feed!options, Feed!server, Feed!consumer
<1>0. /\ Feed!Owed' = Feed!Owed /\ Feed!OwedSince' = Feed!OwedSince
      /\ Feed!OwedSince \subseteq Feed!Owed /\ Feed!Owed \subseteq Events
      /\ Events \subseteq Nat \ {0} /\ cursor \in Nat /\ lastSeen \in Nat
      /\ e \in Events /\ e \in rows /\ rows \subseteq Events /\ feedRest \subseteq rows
  BY OwedEarlier DEF Feed!FeedConstants, Feed!IInv, Feed!TypeOK, Feed!Owed, Feed!OwedSince,
     Feed!EventsOf, Feed!Visible, Feed!Wanted
<1>1. /\ feedRest' = feedRest \ {e}
      /\ \/ feedRest' # {} /\ UNCHANGED <<feedPc, msg_map>>
         \/ feedRest' = {} /\ feedPc' = Feed!FirstStep /\ msg_map' = {} /\ ~Feed!ShortPage
         \/ feedRest' = {} /\ feedPc' = "done" /\ msg_map' = {} /\ Feed!ShortPage
  BY DEF Feed!RowDone
<1>2. delivered \subseteq delivered' /\ lastSeen' \in {lastSeen, e} /\ cursor < e
  BY DEF Feed!IInv, Feed!Page
<1>3. Feed!TypeOK'
  <2>1. feedPc' \in Feed!Reading \cup {"done"} /\ msg_map' \in SUBSET Messages
    BY <1>1 DEF Feed!IInv, Feed!TypeOK, Feed!Reading, Feed!FirstStep
  <2>2. /\ delivered' \in {delivered, delivered \cup {e}} /\ lastSeen' \in {lastSeen, e}
        /\ deliveries' \in {deliveries, deliveries + 1} /\ resumes' = resumes
        /\ since_id' = since_id /\ since' = since
    OBVIOUS
  <2>3. /\ delivered' \in SUBSET Events /\ deliveries' \in Nat
        /\ lastSeen' \in Events \cup {0} /\ cursor' \in Events \cup {0}
    BY <1>0, <2>2 DEF Feed!IInv, Feed!TypeOK
  <2> QED
    BY <1>0, <1>1, <2>1, <2>2, <2>3 DEF Feed!IInv, Feed!TypeOK
<1>4. ASSUME NEW f \in Feed!Owed, f <= e PROVE f \in delivered'
  <2>1. CASE f <= cursor
    BY <1>2, <2>1 DEF Feed!IInv, Feed!Cursor
  <2>2. CASE cursor < f
    <3>1. f \in feedRest
      BY <1>0, <1>4, <2>2 DEF Feed!IInv, Feed!Page
    <3>2. f = e
      BY <1>0, <1>4, <3>1
    <3> QED
      BY <3>2
  <2> QED
    BY <1>0, <2>1, <2>2
<1>5. Feed!Cursor'
  <2>1. lastSeen' <= cursor'
    BY <1>0, <1>2 DEF Feed!IInv, Feed!Cursor
  <2>2. \A f \in delivered' : f <= lastSeen'
    BY <1>0, <1>2 DEF Feed!IInv, Feed!Cursor, Feed!TypeOK
  <2>3. MessageOf[e] \in committed
    BY <1>0 DEF Feed!IInv, Feed!Page, Feed!EventsOf
  <2> QED
    BY <1>0, <1>2, <1>4, <2>1, <2>2, <2>3 DEF Feed!IInv, Feed!Cursor
<1>6. Feed!Found'
  BY <1>1 DEF Feed!IInv, Feed!Found, Feed!FirstStep
<1>7. Feed!Page'
  <2>1. \A f \in feedRest' : e < f
    BY <1>0, <1>1
  <2>2. ASSUME NEW f \in Feed!Owed, e < f
        PROVE  /\ f \in feedRest' \/ \A g \in rows : g < f
               /\ f \in Feed!OwedSince => f \in feedRest' \/ Cardinality(rows) = feedSize
    <3>1. cursor < f /\ f # e
      BY <1>0, <1>2, <2>2
    <3> QED
      BY <1>1, <3>1, <2>2, SameSizes DEF Feed!IInv, Feed!Page
  <2> QED
    BY <1>0, <1>1, <2>1, <2>2, SameSizes DEF Feed!IInv, Feed!Page, Feed!FirstStep
<1>8. Feed!FeedComplete'
  <2> SUFFICES ASSUME feedPc' = "done", NEW f \in Feed!OwedSince PROVE f \in delivered'
    BY <1>0 DEF Feed!FeedComplete, Feed!OwedSince
  <2>1. feedRest' = {} /\ Feed!ShortPage
    BY <1>1 DEF Feed!FirstStep
  <2>2. Cardinality(rows) # feedSize
    BY <2>1, SameSizes, FS_Subset, FS_CardinalityType DEF Feed!ShortPage, Feed!FeedConstants,
       Feed!IInv, Feed!TypeOK
  <2>3. f <= cursor \/ f \in feedRest
    BY <1>0, <2>2, SameSizes DEF Feed!IInv, Feed!Page
  <2> QED
    BY <1>0, <1>1, <1>2, <1>4, <2>1, <2>3
<1> QED
  BY <1>3, <1>5, <1>6, <1>7, <1>8 DEF Feed!IInv

\* The invariant is inductive.
LEMMA FeedStepIInv == ASSUME Feed!FeedConstants, Feed!IInv, [Feed!Next]_(Feed!vars) PROVE Feed!IInv'
<1>1. CASE \E m \in Messages : Feed!Commit(m) \/ Feed!DeleteMessage(m)
  BY <1>1, CommitIInv, DeleteIInv
<1>2. CASE Feed!StartFeed
  BY <1>2, StartIInv
<1>3. CASE Feed!MessagesRead
  BY <1>3, MessagesIInv
<1>4. CASE Feed!RowsRead
  BY <1>4, RowsIInv
<1>5. CASE Feed!AuthorsRead \/ Feed!FieldsRead \/ Feed!ReadFails
  BY <1>5, DetailsIInv
<1>6. CASE Feed!Skip
  <2>1. PICK e \in feedRest : /\ \A f \in feedRest : e <= f
                              /\ Feed!Foreign(e) /\ cursor' = e /\ Feed!RowDone(e)
    BY <1>6 DEF Feed!Skip
  <2>2. e \notin Feed!Owed
    BY <2>1 DEF Feed!Foreign, Feed!Owed, Feed!OwedSince, Feed!EventsOf, Feed!Wanted
  <2> QED
    BY <1>6, <2>1, <2>2, RowIInv DEF Feed!Skip
<1>7. CASE Feed!Yield
  <2>1. PICK e \in feedRest :
          /\ (\A f \in feedRest : e <= f) /\ cursor' = e /\ Feed!RowDone(e)
          /\ delivered' = delivered \cup {e} /\ deliveries' = deliveries + 1 /\ lastSeen' = e
    BY <1>7 DEF Feed!Yield
  <2> QED
    BY <1>7, <2>1, RowIInv DEF Feed!Yield
<1>8. CASE UNCHANGED Feed!vars
  <2>1. UNCHANGED <<Feed!options, Feed!server, Feed!feed>>
    BY <1>8 DEF Feed!vars
  <2> USE DEF Feed!options, Feed!server, Feed!feed, Feed!consumer
  <2>2. Feed!Owed' = Feed!Owed /\ Feed!OwedSince' = Feed!OwedSince
    BY <2>1 DEF Feed!Owed, Feed!OwedSince, Feed!EventsOf, Feed!Visible, Feed!Wanted
  <2>3. Feed!TypeOK'
    BY <2>1 DEF Feed!IInv, Feed!TypeOK
  <2>4. Feed!Cursor' /\ Feed!Found'
    BY <2>1, <2>2 DEF Feed!IInv, Feed!Cursor, Feed!Found, Feed!EventsOf
  <2>5. Feed!Page'
    BY <2>1, <2>2 DEF Feed!IInv, Feed!Page, Feed!EventsOf
  <2>6. Feed!FeedComplete'
    BY <2>1, <2>2 DEF Feed!IInv, Feed!FeedComplete, Feed!OwedSince
  <2> QED
    BY <2>3, <2>4, <2>5, <2>6 DEF Feed!IInv
<1> QED
  BY <1>1, <1>2, <1>3, <1>4, <1>5, <1>6, <1>7, <1>8 DEF Feed!Next, Feed!FeedStep

\* The inductive invariant holds in every reachable state.
LEMMA FeedInvariance == ASSUME Feed!FeedConstants PROVE Feed!Spec => []Feed!IInv
BY FeedInitIInv, FeedStepIInv, PTL DEF Feed!Spec

\* Over all pages, failures and resumptions the cursor passes no event that is owed.
LEMMA FeedSkipsNothing == ASSUME Feed!FeedConstants PROVE Feed!Spec => []Feed!NoneSkipped
<1>1. Feed!IInv => Feed!NoneSkipped
  BY OwedEarlier DEF Feed!IInv, Feed!Cursor, Feed!NoneSkipped, Feed!Owed
<1> QED
  BY <1>1, FeedInvariance, PTL

\* A feed that ends has delivered all that was there beyond its since_id when it began.
LEMMA FeedEndsComplete == ASSUME Feed!FeedConstants PROVE Feed!Spec => []Feed!FeedComplete
<1>1. Feed!IInv => Feed!FeedComplete
  BY DEF Feed!IInv
<1> QED
  BY <1>1, FeedInvariance, PTL

\* The consumer gets no event twice and none out of order.
LEMMA FeedDeliversOnce == ASSUME Feed!FeedConstants PROVE Feed!Spec => Feed!OnceInOrder
<1>1. ASSUME Feed!IInv, [Feed!Next]_(Feed!vars)
      PROVE  [deliveries' # deliveries =>
                \E e \in Events : /\ delivered' = delivered \cup {e}
                                  /\ \A f \in delivered : f < e]_(Feed!vars)
  <2>1. CASE Feed!Yield
    <3>1. PICK e \in feedRest : delivered' = delivered \cup {e}
      BY <2>1 DEF Feed!Yield
    <3>2. e \in Events /\ cursor < e
      BY <1>1, <2>1 DEF Feed!IInv, Feed!TypeOK, Feed!Page, Feed!Yield
    <3>3. \A f \in delivered : f < e
      BY <1>1, <3>2, OwedEarlier DEF Feed!IInv, Feed!TypeOK, Feed!Cursor
    <3> QED
      BY <3>1, <3>2, <3>3
  <2>2. CASE ~Feed!Yield
    BY <1>1, <2>2 DEF Feed!Next, Feed!FeedStep, Feed!Commit, Feed!DeleteMessage, Feed!StartFeed,
       Feed!ReadFails, Feed!MessagesRead,
       Feed!RowsRead, Feed!AuthorsRead, Feed!FieldsRead, Feed!Skip, Feed!vars, Feed!feed,
       Feed!consumer
  <2> QED
    BY <2>1, <2>2
<1> QED
  BY <1>1, FeedInvariance, PTL DEF Feed!Spec, Feed!OnceInOrder

-----------------------------------------------------------------------------
(***************************************************************************)
(* A behaviour of Paging is one of IterSearchRead and one of CdcFeed.      *)
(***************************************************************************)

\* Whichever of them takes the steps, iter_search_read goes by IterSearchRead and
\* get_feed by CdcFeed.
THEOREM Parts == BothSpec => Spec /\ Feed!Spec
<1>1. BothInit => Init /\ Feed!Init
  BY DEF BothInit
<1>2. [BothNext]_bothVars => [Next]_vars
  BY DEF BothNext, Iterating, Feeding, bothVars
<1>3. [BothNext]_bothVars => [Feed!Next]_(Feed!vars)
  BY DEF BothNext, Iterating, Feeding, bothVars, feedVars, Feed!vars, Feed!options, Feed!server,
     Feed!feed, Feed!consumer
<1> QED
  BY <1>1, <1>2, <1>3, PTL DEF BothSpec, Spec, Feed!Spec

\* Over all pages, failures and resumptions the cursor passes no event that is owed.
THEOREM NothingSkipped == BothSpec => []NoneSkipped
BY FeedSkipsNothing, FeedAssumption, Parts, PTL DEF NoneSkipped

\* A feed that ends has delivered all that was there beyond its since_id when it began.
THEOREM EndsComplete == BothSpec => []FeedComplete
BY FeedEndsComplete, FeedAssumption, Parts, PTL DEF FeedComplete

\* The consumer gets no event twice and none out of order.
THEOREM DeliveredOnce == BothSpec => OnceInOrder
BY FeedDeliversOnce, FeedAssumption, Parts, PTL DEF OnceInOrder
=============================================================================
