------------------------------- MODULE Client -------------------------------
(***************************************************************************)
(* The session and guard of a client, and the ambient context of its       *)
(* calls.  A behaviour is one of either, chosen at the start, while the    *)
(* other stays where it begins.                                            *)
(***************************************************************************)
EXTENDS ClientSession

CONSTANTS
  Tasks, Main, Scopes, Layer, Explicits, MaxDepth  \* of AmbientContext

VARIABLES part, alive, ambient, inherited, blocks, token, raised, reused

ambientVars == <<alive, ambient, inherited, blocks, token, raised, reused>>

Context == INSTANCE AmbientContext

ASSUME ContextAssumption == Context!ContextConstants

BothInit == part \in {"session", "context"} /\ Init /\ Context!Init

BothNext ==
  \/ part = "session" /\ Next /\ UNCHANGED <<part, ambientVars>>
  \/ part = "context" /\ Context!Next /\ UNCHANGED <<part, vars>>

bothVars == <<vars, part, ambientVars>>

BothSpec == BothInit /\ [][BothNext]_bothVars

-----------------------------------------------------------------------------

\* Calls are sent in the context of their blocks (_OdooContextScope, call).
CallsInScope == Context!CallsInScope
=============================================================================
