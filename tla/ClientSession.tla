--------------------------- MODULE ClientSession ----------------------------
(***************************************************************************)
(* OdooClient.call, its safety guard, and the session JsonRpcTransport     *)
(* keeps (client.py, safety/__init__.py, rpc/transport.py).                *)
(*                                                                         *)
(* Tasks of one program share a client: some log in, some call, any may    *)
(* log out or replace a safety context.  A call suspends while the confirm *)
(* callback decides and again while the server answers; a login suspends   *)
(* while the server answers.  Everything else happens between two awaits.  *)
(* Context dictionaries are modelled in AmbientContext.                    *)
(***************************************************************************)
EXTENDS Naturals

CONSTANTS
  Calls,         \* tasks that make one call each
  Logins,        \* tasks that authenticate once each; they name the sessions
  Users,         \* credentials; a user stands for its uid and its password
  Level,         \* the level infer_safety_level gives the method of a call
  Scoped,        \* the calls made through a PropertyScope
  ConfigSafety,  \* OdooClientConfig.safety
  None           \* Python's None

ASSUME SessionAssumption ==
  /\ Level \in [Calls -> {"READ", "WRITE", "DELETE"}]
  /\ Scoped \subseteq Calls
  /\ ConfigSafety \in {None, "guard"}
  /\ None \notin Users \cup [login : Logins, uid : Users]
  /\ None \notin [session : [login : Logins, uid : Users], password : Users]
  /\ None \notin {"undefined", "guard", "yes", "no"}

VARIABLES
  session,        \* JsonRpcTransport._session
  password,       \* JsonRpcTransport._password
  loginPc,        \* where each authenticate() is
  loginUser,      \* the credentials it was given
  clientSafety,   \* OdooClient._safety_context
  defaultSafety,  \* the module-level default of safety/__init__.py
  pc,             \* where each call is
  scope,          \* the session a scoped call was captured under
  inForce,        \* the safety context the call's guard found
  verdict,        \* what the confirm callback answered
  wire            \* the credentials the request left with

authVars == <<session, password, loginPc, loginUser>>
callVars == <<pc, scope, inForce, verdict, wire>>
vars     == <<authVars, clientSafety, defaultSafety, callVars>>

Sessions == [login : Logins, uid : Users]

Init ==
  /\ session = None
  /\ password = None
  /\ loginPc = [l \in Logins |-> "idle"]
  /\ loginUser = [l \in Logins |-> None]
  /\ clientSafety = "undefined"
  /\ defaultSafety = None
  /\ pc = [c \in Calls |-> "idle"]
  /\ scope = [c \in Calls |-> None]
  /\ inForce = [c \in Calls |-> None]
  /\ verdict = [c \in Calls |-> None]
  /\ wire = [c \in Calls |-> None]

-----------------------------------------------------------------------------
(***************************************************************************)
(* Authentication.                                                         *)
(***************************************************************************)

\* Mutant: the password is stored before the server has accepted it.
LoginSentStoring(l, u) ==
  /\ loginPc[l] = "idle"
  /\ loginPc' = [loginPc EXCEPT ![l] = "asked"]
  /\ loginUser' = [loginUser EXCEPT ![l] = u]
  /\ password' = u
  /\ UNCHANGED <<session, clientSafety, defaultSafety, callVars>>

\* JsonRpcTransport.authenticate up to its await; several may be in flight.
LoginSent(l, u) ==
  /\ loginPc[l] = "idle"
  /\ loginPc' = [loginPc EXCEPT ![l] = "asked"]
  /\ loginUser' = [loginUser EXCEPT ![l] = u]
  /\ UNCHANGED <<session, password, clientSafety, defaultSafety, callVars>>

\* The answer may come long after, and after other logins and logouts; the
\* session and its password are replaced together, with a new session id.
LoginAccepted(l) ==
  /\ loginPc[l] = "asked"
  /\ loginPc' = [loginPc EXCEPT ![l] = "done"]
  /\ session' = [login |-> l, uid |-> loginUser[l]]
  /\ password' = loginUser[l]
  /\ UNCHANGED <<loginUser, clientSafety, defaultSafety, callVars>>

\* A false uid raises OdooAuthError, a lost answer OdooNetworkError; the
\* session in place, if any, stays.
LoginRefused(l) ==
  /\ loginPc[l] = "asked"
  /\ loginPc' = [loginPc EXCEPT ![l] = "done"]
  /\ UNCHANGED <<session, password, loginUser, clientSafety, defaultSafety, callVars>>

\* logout(): the session and its password go together, whatever is in flight.
Logout ==
  /\ session' = None
  /\ password' = None
  /\ UNCHANGED <<loginPc, loginUser, clientSafety, defaultSafety, callVars>>

-----------------------------------------------------------------------------
(***************************************************************************)
(* Safety contexts.                                                        *)
(***************************************************************************)

SetSafetyContext(ctx) ==
  /\ ctx \in {None, "guard"}
  /\ clientSafety' = ctx
  /\ UNCHANGED <<authVars, defaultSafety, callVars>>

SetDefaultSafetyContext(ctx) ==
  /\ ctx \in {None, "guard"}
  /\ defaultSafety' = ctx
  /\ UNCHANGED <<authVars, clientSafety, callVars>>

\* resolve_safety_context
ResolveSafetyContext(ctx, undefined) == IF undefined THEN defaultSafety ELSE ctx

\* OdooClient._effective_safety never passes undefined=True.
EffectiveSafety ==
  IF clientSafety = "undefined"
  THEN ResolveSafetyContext(ConfigSafety, FALSE)
  ELSE ResolveSafetyContext(clientSafety, FALSE)

-----------------------------------------------------------------------------
(***************************************************************************)
(* Calls.                                                                  *)
(***************************************************************************)

\* capture_scope: the session is remembered; without one, OdooAuthError.
Capture(c) ==
  /\ c \in Scoped
  /\ pc[c] = "idle"
  /\ IF session = None
     THEN pc' = [pc EXCEPT ![c] = "failed"] /\ UNCHANGED scope
     ELSE /\ pc' = [pc EXCEPT ![c] = "captured"]
          /\ scope' = [scope EXCEPT ![c] = session]
  /\ UNCHANGED <<authVars, clientSafety, defaultSafety, inForce, verdict, wire>>

\* Mutant: the session is compared only before the guard.
DispatchUnchecked(c) ==
  IF session = None
  THEN pc' = [pc EXCEPT ![c] = "failed"] /\ UNCHANGED wire
  ELSE /\ pc' = [pc EXCEPT ![c] = "calling"]
       /\ wire' = [wire EXCEPT ![c] =
            [session |-> session, password |-> password]]

\* What follows the guard in the same turn: a scoped call compares the session
\* with the captured one again, and the transport refuses without a session.
Dispatch(c) ==
  IF session = None \/ (c \in Scoped /\ session # scope[c])
  THEN pc' = [pc EXCEPT ![c] = "failed"] /\ UNCHANGED wire
  ELSE /\ pc' = [pc EXCEPT ![c] = "calling"]
       /\ wire' = [wire EXCEPT ![c] =
            [session |-> session, password |-> password]]

\* PropertyScope.call and OdooClient.call up to the first suspension.
Start(c) ==
  /\ pc[c] = IF c \in Scoped THEN "captured" ELSE "idle"
  /\ IF session = None \/ (c \in Scoped /\ session # scope[c])
     THEN /\ pc' = [pc EXCEPT ![c] = "failed"]
          /\ UNCHANGED <<inForce, wire>>
     ELSE IF Level[c] = "READ" \/ EffectiveSafety = None
          THEN Dispatch(c) /\ UNCHANGED inForce
          ELSE /\ pc' = [pc EXCEPT ![c] = "confirming"]
               /\ inForce' = [inForce EXCEPT ![c] = EffectiveSafety]
               /\ UNCHANGED wire
  /\ UNCHANGED <<authVars, clientSafety, defaultSafety, scope, verdict>>

Confirmed(c) ==
  /\ pc[c] = "confirming"
  /\ verdict' = [verdict EXCEPT ![c] = "yes"]
  /\ Dispatch(c)
  /\ UNCHANGED <<authVars, clientSafety, defaultSafety, scope, inForce>>

\* Mutant: the callback's answer is not looked at.
DeniedIgnored(c) ==
  /\ pc[c] = "confirming"
  /\ verdict' = [verdict EXCEPT ![c] = "no"]
  /\ Dispatch(c)
  /\ UNCHANGED <<authVars, clientSafety, defaultSafety, scope, inForce>>

\* OdooSafetyError
Denied(c) ==
  /\ pc[c] = "confirming"
  /\ verdict' = [verdict EXCEPT ![c] = "no"]
  /\ pc' = [pc EXCEPT ![c] = "denied"]
  /\ UNCHANGED <<authVars, clientSafety, defaultSafety, scope, inForce, wire>>

Answered(c) ==
  /\ pc[c] = "calling"
  /\ pc' = [pc EXCEPT ![c] = "done"]
  /\ UNCHANGED <<authVars, clientSafety, defaultSafety, scope, inForce, verdict, wire>>

-----------------------------------------------------------------------------

CallStep(c) == Capture(c) \/ Start(c) \/ Confirmed(c) \/ Denied(c) \/ Answered(c)

LoginStep(l) ==
  (\E u \in Users : LoginSent(l, u)) \/ LoginAccepted(l) \/ LoginRefused(l)

Next ==
  \/ \E c \in Calls : CallStep(c)
  \/ \E l \in Logins : LoginStep(l)
  \/ Logout
  \/ \E ctx \in {None, "guard"} : SetSafetyContext(ctx) \/ SetDefaultSafetyContext(ctx)

Spec == Init /\ [][Next]_vars

-----------------------------------------------------------------------------
(***************************************************************************)
(* Properties.                                                             *)
(***************************************************************************)

TypeOK ==
  /\ session \in Sessions \cup {None}
  /\ password \in Users \cup {None}
  /\ loginPc \in [Logins -> {"idle", "asked", "done"}]
  /\ loginUser \in [Logins -> Users \cup {None}]
  /\ clientSafety \in {"undefined", None, "guard"}
  /\ defaultSafety \in {None, "guard"}
  /\ pc \in [Calls -> {"idle", "captured", "confirming", "calling", "done", "denied", "failed"}]
  /\ scope \in [Calls -> Sessions \cup {None}]
  /\ inForce \in [Calls -> {None, "guard"}]
  /\ verdict \in [Calls -> {None, "yes", "no"}]
  /\ wire \in [Calls -> [session : Sessions, password : Users] \cup {None}]

\* Logins of different users that overtake one another, and logouts between a
\* login's request and its answer, never leave the uid of one user with the
\* password of another in the transport, nor send such a pair.
CredentialsPaired ==
  /\ (session = None) <=> (password = None)
  /\ session # None => password = session.uid
  /\ \A c \in Calls : wire[c] # None => wire[c].password = wire[c].session.uid

\* A request made through a property scope leaves only under the very session
\* it was discovered under, not under a later session of the same user, even
\* if the session changes while the callback is asked (client.py:200-205).
ScopePinned ==
  \A c \in Scoped : wire[c] # None => wire[c].session = scope[c]

\* An operation the guard in force must confirm leaves only after it did, and
\* one that was denied or failed never leaves (safety-guards.md, "This is a
\* local error -- no RPC call is made"), whoever changes sessions or safety
\* contexts while the callback is deciding.
GuardRespected ==
  \A c \in Calls :
    /\ wire[c] # None /\ inForce[c] = "guard" => verdict[c] = "yes"
    /\ wire[c] # None => pc[c] \in {"calling", "done"}
    /\ inForce[c] = "guard" => Level[c] # "READ"

\* safety-guards.md:66: "Set a default for all clients that do not have an
\* explicit safety context".  _effective_safety never consults the default.
DefaultGuards ==
  clientSafety = "undefined" /\ ConfigSafety = None => EffectiveSafety = defaultSafety

(***************************************************************************)
(* The inductive invariant behind the safety properties.                   *)
(***************************************************************************)

\* The credentials of a login in flight are known; the session in place is
\* that of a login already answered.
LoginsKnown ==
  /\ \A l \in Logins : loginPc[l] = "asked" => loginUser[l] \in Users
  /\ session # None => loginPc[session.login] = "done"

\* A call that has not reached its guard has found no safety context; one that
\* waits for the callback has found one, and is no read.
CallsProgress ==
  \A c \in Calls :
    /\ pc[c] \in {"idle", "captured"} => inForce[c] = None
    /\ pc[c] = "confirming" => Level[c] # "READ"
    /\ pc[c] \in {"idle", "captured", "confirming"} => wire[c] = None

IInv ==
  /\ TypeOK /\ LoginsKnown /\ CallsProgress
  /\ CredentialsPaired /\ ScopePinned /\ GuardRespected
=============================================================================
