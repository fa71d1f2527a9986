------------------------------- MODULE Paging -------------------------------
(***************************************************************************)
(* The two generators that page through records with a cursor on the id:   *)
(* iter_search_read and get_feed.  A behaviour is one of either, chosen at *)
(* the start, while the other stays where it begins.                       *)
(***************************************************************************)
EXTENDS IterSearchRead

CONSTANTS
  Events, Messages, MessageOf, Owned, Requested, FeedSizes, MaxDeletes, MaxResumes  \* of CdcFeed

VARIABLES part, byRecord, feedSize, committed, deleted, late, feedPc, cursor, msg_map,
          rows, feedRest, delivered, deliveries, lastSeen, since_id, since, resumes

feedVars == <<byRecord, feedSize, committed, deleted, late, feedPc, cursor, msg_map,
              rows, feedRest, delivered, deliveries, lastSeen, since_id, since, resumes>>

Feed == INSTANCE CdcFeed WITH
  BatchSizes <- FeedSizes, batch_size <- feedSize, pc <- feedPc, rest <- feedRest

ASSUME FeedAssumption == Feed!FeedConstants

One(S) == CHOOSE x \in S : TRUE

\* The part that stays where it begins does so in one of its initial states.
BothInit ==
  /\ Init /\ Feed!Init
  /\ \/ part = "iter" /\ byRecord = FALSE /\ feedSize = One(FeedSizes)
     \/ part = "feed" /\ matching = {} /\ batch_size = One(BatchSizes) /\ limit = One(Limits)

Iterating(A) == part = "iter" /\ A /\ UNCHANGED <<part, feedVars>>
Feeding(A)   == part = "feed" /\ A /\ UNCHANGED <<part, vars>>

BothNext == Iterating(Next) \/ Feeding(Feed!Next)

bothVars == <<vars, part, feedVars>>

BothSpec ==
  /\ BothInit /\ [][BothNext]_bothVars
  /\ WF_bothVars(Iterating(Fetch))
  /\ WF_bothVars(Iterating(Yield))
  /\ WF_bothVars(Feeding(Feed!FeedStep))

-----------------------------------------------------------------------------

\* A consumer that goes on asking comes to the end of iter_search_read.
IterationReturns == part = "iter" => IterationEnds

\* What get_feed passed over, delivered, and that it ends.
NoneSkipped  == Feed!NoneSkipped
FeedComplete == Feed!FeedComplete
OnceInOrder  == Feed!OnceInOrder
FeedEnds     == Feed!FeedEnds
=============================================================================
