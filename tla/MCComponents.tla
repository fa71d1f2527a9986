---------------------------- MODULE MCComponents ----------------------------
(***************************************************************************)
(* Components for TLC.                                                     *)
(***************************************************************************)
EXTENDS Components, TLC

CONSTANTS good, bad   \* two states of the source tree

\* A record with a datetime, a computed field and a list.
MCKind == "since" :> "datetime" @@ "state" :> "readonly" @@ "lines" :> "x2many"
MCWireValues == "since" :> {"False", "d t"} @@ "state" :> {"draft"} @@ "lines" :> {"False"}
MCProjections == {{"since", "state"}}

\* Models that refer to one another, in a circle too, or to one without a name.
MCRelations ==
  {"m1" :> a @@ "m2" :> b @@ "_" :> {} :
     a \in {{}, {"m2"}, {"_"}}, b \in {{}, {"m1"}, {"m2"}}}

\* Calls of two clients that overlap in the fields they ask about.
MCClientOf == "k1" :> "here" @@ "k2" :> "there"
MCNames == "k1" :> {"fa", "fb"} @@ "k2" :> {"fa"}

\* The two objects, tasks or calls of a component may be exchanged: they are the
\* same two model values in each.
Alike == Permutations(Objs)
=============================================================================
