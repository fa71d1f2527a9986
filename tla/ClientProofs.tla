---------------------------- MODULE ClientProofs ----------------------------
(***************************************************************************)
(* Proofs about ClientSession, for any number of tasks, logins and users,  *)
(* and about AmbientContext, for any number of tasks and scope objects,    *)
(* any layers and any depth; Client runs one or the other.                 *)
(***************************************************************************)
EXTENDS Client, Sequences, TLAPS

\* Before the first login nothing has been sent.
LEMMA InitIInv == Init => IInv
<1> SUFFICES ASSUME Init PROVE IInv
  OBVIOUS
<1>1. TypeOK
  BY SessionAssumption DEF Init, TypeOK
<1>2. LoginsKnown /\ CallsProgress /\ CredentialsPaired
  BY DEF Init, LoginsKnown, CallsProgress, CredentialsPaired
<1>3. ScopePinned
  BY SessionAssumption DEF Init, ScopePinned
<1>4. GuardRespected
  BY SessionAssumption DEF Init, GuardRespected
<1>. QED
  BY <1>1, <1>2, <1>3, <1>4 DEF IInv

\* Answers to logins and logouts replace session and password together.
LEMMA AuthIInv ==
  ASSUME IInv, Logout \/ \E l \in Logins : LoginStep(l)
  PROVE  IInv'
<1>1. /\ TypeOK /\ LoginsKnown /\ CallsProgress
      /\ CredentialsPaired /\ ScopePinned /\ GuardRespected
  BY DEF IInv
<1>2. UNCHANGED <<clientSafety, defaultSafety, pc, scope, inForce, verdict, wire>>
  BY DEF Logout, LoginStep, LoginSent, LoginAccepted, LoginRefused, callVars
<1>3. CallsProgress' /\ ScopePinned' /\ GuardRespected'
  BY <1>1, <1>2 DEF CallsProgress, ScopePinned, GuardRespected
<1>4. CASE Logout
  BY <1>1, <1>2, <1>3, <1>4 DEF Logout, IInv, TypeOK, LoginsKnown, CredentialsPaired
<1>5. ASSUME NEW l \in Logins, NEW u \in Users, LoginSent(l, u)
      PROVE  IInv'
  <2>1. TypeOK'
    BY <1>1, <1>2, <1>5 DEF LoginSent, TypeOK
  <2>2. LoginsKnown'
    BY <1>1, <1>5 DEF LoginSent, TypeOK, LoginsKnown, Sessions
  <2>3. CredentialsPaired'
    BY <1>1, <1>2, <1>5 DEF LoginSent, CredentialsPaired
  <2>. QED
    BY <1>3, <2>1, <2>2, <2>3 DEF IInv
<1>6. ASSUME NEW l \in Logins, LoginAccepted(l)
      PROVE  IInv'
  <2>1. loginUser[l] \in Users /\ loginUser[l] # None
    BY <1>1, <1>6, SessionAssumption DEF LoginAccepted, LoginsKnown
  <2>2. session' = [login |-> l, uid |-> loginUser[l]] /\ session' \in Sessions
    BY <1>6, <2>1 DEF LoginAccepted, Sessions
  <2>3. TypeOK'
    BY <1>1, <1>2, <1>6, <2>1, <2>2 DEF LoginAccepted, TypeOK
  <2>4. LoginsKnown'
    BY <1>1, <1>6, <2>2 DEF LoginAccepted, TypeOK, LoginsKnown
  <2>5. session' # None
    BY <2>2, SessionAssumption DEF Sessions
  <2>6. CredentialsPaired'
    BY <1>1, <1>2, <1>6, <2>1, <2>2, <2>5 DEF LoginAccepted, CredentialsPaired
  <2>. QED
    BY <1>3, <2>3, <2>4, <2>6 DEF IInv
<1>7. ASSUME NEW l \in Logins, LoginRefused(l)
      PROVE  IInv'
  <2>1. TypeOK'
    BY <1>1, <1>2, <1>7 DEF LoginRefused, TypeOK
  <2>2. LoginsKnown'
    BY <1>1, <1>7 DEF LoginRefused, TypeOK, LoginsKnown, Sessions
  <2>3. CredentialsPaired'
    BY <1>1, <1>2, <1>7 DEF LoginRefused, CredentialsPaired
  <2>. QED
    BY <1>3, <2>1, <2>2, <2>3 DEF IInv
<1>. QED
  BY <1>4, <1>5, <1>6, <1>7 DEF LoginStep

\* Replacing a safety context touches nothing the invariant relates.
LEMMA SafetyIInv ==
  ASSUME IInv, NEW ctx \in {None, "guard"},
         SetSafetyContext(ctx) \/ SetDefaultSafetyContext(ctx)
  PROVE  IInv'
<1>1. UNCHANGED <<session, password, loginPc, loginUser, pc, scope, inForce, verdict, wire>>
  BY DEF SetSafetyContext, SetDefaultSafetyContext, authVars, callVars
<1>2. TypeOK'
  BY <1>1 DEF IInv, TypeOK, SetSafetyContext, SetDefaultSafetyContext
<1>. QED
  BY <1>1, <1>2 DEF IInv, LoginsKnown, CallsProgress, CredentialsPaired, ScopePinned,
     GuardRespected

\* The safety context a guard finds is one of the two there are.
LEMMA EffectiveType == TypeOK => EffectiveSafety \in {None, "guard"}
BY SessionAssumption DEF TypeOK, EffectiveSafety, ResolveSafetyContext

\* A request that leaves carries the session and password of the moment, and
\* for a scoped call the session it was captured under.
LEMMA DispatchSends ==
  ASSUME IInv, NEW c \in Calls, Dispatch(c)
  PROVE  \/ /\ pc' = [pc EXCEPT ![c] = "failed"]
            /\ wire' = wire
         \/ \E m \in [session : Sessions, password : Users] :
              /\ pc' = [pc EXCEPT ![c] = "calling"]
              /\ wire' = [wire EXCEPT ![c] = m]
              /\ m.password = m.session.uid
              /\ (c \in Scoped) => m.session = scope[c]
<1>1. CASE session = None \/ (c \in Scoped /\ session # scope[c])
  BY <1>1 DEF Dispatch
<1>2. CASE ~(session = None \/ (c \in Scoped /\ session # scope[c]))
  <2>1. session \in Sessions /\ password = session.uid
    BY <1>2 DEF IInv, TypeOK, CredentialsPaired
  <2>2. password \in Users
    BY <2>1 DEF Sessions
  <2>3. DEFINE m == [session |-> session, password |-> password]
  <2>4. m \in [session : Sessions, password : Users]
    BY <2>1, <2>2
  <2>. QED
    BY <1>2, <2>1, <2>4 DEF Dispatch
<1>. QED
  BY <1>1, <1>2

\* A step of a call sends nothing the guard in force has not let through.
LEMMA CallIInv ==
  ASSUME IInv, NEW c \in Calls, CallStep(c)
  PROVE  IInv'
<1>1. /\ TypeOK /\ LoginsKnown /\ CallsProgress
      /\ CredentialsPaired /\ ScopePinned /\ GuardRespected
  BY DEF IInv
<1>types. /\ pc \in [Calls -> {"idle", "captured", "confirming", "calling", "done",
                               "denied", "failed"}]
          /\ scope \in [Calls -> Sessions \cup {None}]
          /\ inForce \in [Calls -> {None, "guard"}]
          /\ verdict \in [Calls -> {None, "yes", "no"}]
          /\ wire \in [Calls -> [session : Sessions, password : Users] \cup {None}]
          /\ Scoped \subseteq Calls
  BY <1>1, SessionAssumption DEF TypeOK
<1>auth. UNCHANGED <<session, password, loginPc, loginUser, clientSafety, defaultSafety>>
  BY DEF CallStep, Capture, Start, Confirmed, Denied, Answered, authVars
<1>2. LoginsKnown'
  BY <1>1, <1>auth DEF LoginsKnown
<1>3. CASE Capture(c)
  <2>1. UNCHANGED <<inForce, verdict, wire>> /\ wire[c] = None /\ pc[c] = "idle"
    BY <1>1, <1>3 DEF Capture, CallsProgress
  <2>2. \/ pc' = [pc EXCEPT ![c] = "failed"] /\ scope' = scope
        \/ /\ pc' = [pc EXCEPT ![c] = "captured"]
           /\ scope' = [scope EXCEPT ![c] = session]
    BY <1>3 DEF Capture
  <2>3. TypeOK'
    BY <1>1, <1>auth, <2>1, <2>2 DEF TypeOK
  <2>4. CallsProgress'
    BY <1>1, <1>types, <2>1, <2>2 DEF CallsProgress
  <2>5. CredentialsPaired'
    BY <1>1, <1>auth, <2>1 DEF CredentialsPaired
  <2>6. ScopePinned'
    BY <1>1, <1>types, <2>1, <2>2 DEF ScopePinned
  <2>7. GuardRespected'
    BY <1>1, <1>types, <2>1, <2>2 DEF GuardRespected
  <2>. QED
    BY <1>2, <2>3, <2>4, <2>5, <2>6, <2>7 DEF IInv
<1>4. ASSUME UNCHANGED <<scope, inForce>>, verdict' \in [Calls -> {None, "yes", "no"}],
             \A d \in Calls : d # c => verdict'[d] = verdict[d],
             inForce[c] = "guard" => verdict'[c] = "yes",
             wire[c] = None, Dispatch(c)
      PROVE  IInv'
  <2>1. CASE pc' = [pc EXCEPT ![c] = "failed"] /\ wire' = wire
    <3>1. TypeOK'
      BY <1>1, <1>4, <1>auth, <2>1 DEF TypeOK
    <3>2. CallsProgress'
      BY <1>1, <1>4, <1>types, <2>1 DEF CallsProgress
    <3>3. CredentialsPaired' /\ ScopePinned'
      BY <1>1, <1>4, <1>auth, <2>1 DEF CredentialsPaired, ScopePinned
    <3>4. GuardRespected'
      BY <1>1, <1>4, <1>types, <2>1 DEF GuardRespected
    <3>. QED
      BY <1>2, <3>1, <3>2, <3>3, <3>4 DEF IInv
  <2>2. ASSUME NEW m \in [session : Sessions, password : Users],
               pc' = [pc EXCEPT ![c] = "calling"], wire' = [wire EXCEPT ![c] = m],
               m.password = m.session.uid, (c \in Scoped) => m.session = scope[c]
        PROVE  IInv'
    <3>1. TypeOK'
      BY <1>1, <1>4, <1>auth, <2>2 DEF TypeOK
    <3>2. CallsProgress'
      BY <1>1, <1>4, <1>types, <2>2 DEF CallsProgress
    <3>3. CredentialsPaired'
      BY <1>1, <1>auth, <1>types, <2>2 DEF CredentialsPaired
    <3>4. ScopePinned'
      BY <1>1, <1>4, <1>types, <2>2 DEF ScopePinned
    <3>5. GuardRespected'
      BY <1>1, <1>4, <1>types, <2>2 DEF GuardRespected
    <3>. QED
      BY <1>2, <3>1, <3>2, <3>3, <3>4, <3>5 DEF IInv
  <2>. QED
    BY <2>1, <2>2, <1>4, DispatchSends
<1>5. CASE Start(c)
  <2>1. /\ pc[c] \in {"idle", "captured"} /\ wire[c] = None /\ inForce[c] = None
        /\ UNCHANGED <<scope, verdict>>
    BY <1>1, <1>5 DEF Start, CallsProgress
  <2>2. CASE Dispatch(c) /\ UNCHANGED inForce
    BY <1>4, <1>types, <2>1, <2>2, SessionAssumption
  <2>3. CASE /\ pc' = [pc EXCEPT ![c] = "failed"]
             /\ UNCHANGED <<inForce, wire>>
    <3>1. TypeOK'
      BY <1>1, <1>auth, <2>1, <2>3 DEF TypeOK
    <3>2. CallsProgress'
      BY <1>1, <1>types, <2>1, <2>3 DEF CallsProgress
    <3>3. CredentialsPaired' /\ ScopePinned'
      BY <1>1, <1>auth, <2>1, <2>3 DEF CredentialsPaired, ScopePinned
    <3>4. GuardRespected'
      BY <1>1, <1>types, <2>1, <2>3 DEF GuardRespected
    <3>. QED
      BY <1>2, <3>1, <3>2, <3>3, <3>4 DEF IInv
  <2>4. CASE /\ Level[c] # "READ" /\ EffectiveSafety # None
             /\ pc' = [pc EXCEPT ![c] = "confirming"]
             /\ inForce' = [inForce EXCEPT ![c] = EffectiveSafety]
             /\ UNCHANGED wire
    <3>1. EffectiveSafety \in {None, "guard"}
      BY <1>1, EffectiveType
    <3>2. TypeOK'
      BY <1>1, <1>auth, <2>1, <2>4, <3>1 DEF TypeOK
    <3>3. CallsProgress'
      BY <1>1, <1>types, <2>1, <2>4 DEF CallsProgress
    <3>4. CredentialsPaired' /\ ScopePinned'
      BY <1>1, <1>auth, <2>1, <2>4 DEF CredentialsPaired, ScopePinned
    <3>5. GuardRespected'
      BY <1>1, <1>types, <2>1, <2>4 DEF GuardRespected
    <3>. QED
      BY <1>2, <3>2, <3>3, <3>4, <3>5 DEF IInv
  <2>. QED
    BY <1>5, <2>2, <2>3, <2>4 DEF Start
<1>6. CASE Confirmed(c)
  <2>1. /\ wire[c] = None /\ UNCHANGED <<scope, inForce>> /\ Dispatch(c)
        /\ verdict' = [verdict EXCEPT ![c] = "yes"]
    BY <1>1, <1>6 DEF Confirmed, CallsProgress
  <2>. QED
    BY <1>4, <1>types, <2>1
<1>7. CASE Denied(c)
  <2>1. /\ wire[c] = None /\ UNCHANGED <<scope, inForce, wire>>
        /\ pc' = [pc EXCEPT ![c] = "denied"] /\ verdict' = [verdict EXCEPT ![c] = "no"]
    BY <1>1, <1>7 DEF Denied, CallsProgress
  <2>2. TypeOK'
    BY <1>1, <1>auth, <2>1 DEF TypeOK
  <2>3. CallsProgress'
    BY <1>1, <1>types, <2>1 DEF CallsProgress
  <2>4. CredentialsPaired' /\ ScopePinned'
    BY <1>1, <1>auth, <2>1 DEF CredentialsPaired, ScopePinned
  <2>5. GuardRespected'
    BY <1>1, <1>types, <2>1 DEF GuardRespected
  <2>. QED
    BY <1>2, <2>2, <2>3, <2>4, <2>5 DEF IInv
<1>8. CASE Answered(c)
  <2>1. /\ UNCHANGED <<scope, inForce, verdict, wire>> /\ pc[c] = "calling"
        /\ pc' = [pc EXCEPT ![c] = "done"]
    BY <1>8 DEF Answered
  <2>2. TypeOK'
    BY <1>1, <1>auth, <2>1 DEF TypeOK
  <2>3. CallsProgress'
    BY <1>1, <1>types, <2>1 DEF CallsProgress
  <2>4. CredentialsPaired' /\ ScopePinned'
    BY <1>1, <1>auth, <2>1 DEF CredentialsPaired, ScopePinned
  <2>5. GuardRespected'
    BY <1>1, <1>types, <2>1 DEF GuardRespected
  <2>. QED
    BY <1>2, <2>2, <2>3, <2>4, <2>5 DEF IInv
<1>. QED
  BY <1>3, <1>5, <1>6, <1>7, <1>8 DEF CallStep

\* The invariant is inductive.
LEMMA StepIInv == IInv /\ [Next]_vars => IInv'
<1> SUFFICES ASSUME IInv, [Next]_vars PROVE IInv'
  OBVIOUS
<1>1. CASE UNCHANGED vars
  BY <1>1 DEF vars, authVars, callVars, IInv, TypeOK, LoginsKnown, CallsProgress,
     CredentialsPaired, ScopePinned, GuardRespected
<1>2. CASE Next
  BY <1>2, AuthIInv, SafetyIInv, CallIInv DEF Next
<1>. QED
  BY <1>1, <1>2

\* The inductive invariant holds of every reachable state.
THEOREM Invariance == Spec => []IInv
BY InitIInv, StepIInv, PTL DEF Spec

\* Overlapping logins and logouts never pair one user's uid with another's
\* password, in the transport or on the wire, for any number of either.
THEOREM PairedCredentials == Spec => []CredentialsPaired
<1>1. IInv => CredentialsPaired
  BY DEF IInv
<1>. QED
  BY <1>1, Invariance, PTL

\* A scoped request leaves only under the session of its discovery.
THEOREM PinnedScope == Spec => []ScopePinned
<1>1. IInv => ScopePinned
  BY DEF IInv
<1>. QED
  BY <1>1, Invariance, PTL

\* No request leaves against the answer of the guard that was in force.
THEOREM RespectedGuard == Spec => []GuardRespected
<1>1. IInv => GuardRespected
  BY DEF IInv
<1>. QED
  BY <1>1, Invariance, PTL

-----------------------------------------------------------------------------
(***************************************************************************)
(* AmbientContext.                                                         *)
(***************************************************************************)

\* What blocks decide depends on these blocks only.
LEMMA DecidedPrefix ==
  ASSUME NEW b, NEW c, NEW n \in Nat, NEW f, NEW k, NEW v,
         \A i \in 1..n : b[i] = c[i], Context!Decided(b, n, f, k, v)
  PROVE  Context!Decided(c, n, f, k, v)
BY DEF Context!Decided

\* A block that sets the key decides; another leaves the decision as it was.
LEMMA DecidedOver ==
  ASSUME NEW b, NEW c, NEW n \in Nat, NEW f, NEW k, NEW g, NEW s,
         \A i \in 1..n : b[i] = c[i], c[n + 1] = s, Context!Decided(b, n, f, k, Context!At(g, k))
  PROVE  Context!Decided(c, n + 1, f, k, Context!At(Context!Over(g, Layer[s]), k))
<1>1. CASE k \in DOMAIN Layer[s]
  <2>1. Context!At(Context!Over(g, Layer[s]), k) = Layer[s][k]
    BY <1>1 DEF Context!At, Context!Over
  <2> QED
    BY <1>1, <2>1 DEF Context!Decided
<1>2. CASE k \notin DOMAIN Layer[s]
  <2>1. Context!At(Context!Over(g, Layer[s]), k) = Context!At(g, k)
    BY <1>2 DEF Context!At, Context!Over
  <2>2. CASE (\A i \in 1..n : k \notin DOMAIN Layer[b[i]]) /\ Context!At(g, k) = Context!At(f, k)
    BY <1>2, <2>1, <2>2 DEF Context!Decided
  <2>3. CASE \E i \in 1..n : /\ k \in DOMAIN Layer[b[i]] /\ Context!At(g, k) = Layer[b[i]][k]
                             /\ \A j \in 1..n : i < j => k \notin DOMAIN Layer[b[j]]
    <3>1. PICK i \in 1..n : /\ k \in DOMAIN Layer[b[i]] /\ Context!At(g, k) = Layer[b[i]][k]
                            /\ \A j \in 1..n : i < j => k \notin DOMAIN Layer[b[j]]
      BY <2>3
    <3>2. /\ i \in 1..(n + 1) /\ k \in DOMAIN Layer[c[i]] /\ Context!At(g, k) = Layer[c[i]][k]
          /\ \A j \in 1..(n + 1) : i < j => k \notin DOMAIN Layer[c[j]]
      BY <1>2, <3>1
    <3> QED
      BY <2>1, <3>2 DEF Context!Decided
  <2> QED
    BY <2>2, <2>3 DEF Context!Decided
<1> QED
  BY <1>1, <1>2

\* Nothing is entered yet.
LEMMA ContextInitIInv == ASSUME Context!ContextConstants, Context!Init PROVE Context!IInv
BY DEF Context!ContextConstants, Context!Init, Context!IInv, Context!Shape, Context!Tokens,
   Context!Contexts, Context!Decided, Context!At, Context!Empty

\* A scope that is not in use becomes the innermost block, with a token of its own.
LEMMA EnterIInv ==
  ASSUME Context!ContextConstants, Context!IInv, NEW t \in Tasks, NEW s \in Scopes,
         Context!Enter(t, s)
  PROVE  Context!IInv'
<1> DEFINE b == blocks[t]
           n == Len(b)
           c == Append(b, s)
<1>1. /\ b \in Seq(Scopes) /\ n \in Nat /\ DOMAIN b = 1..n /\ blocks \in [Tasks -> Seq(Scopes)]
      /\ t \in alive /\ alive' = alive /\ alive \subseteq Tasks
  BY DEF Context!IInv, Context!Shape, Context!Enter, Context!Running
<1>2. /\ blocks'[t] = c /\ c \in Seq(Scopes) /\ Len(c) = n + 1
      /\ DOMAIN c = 1..(n + 1)
      /\ c[n + 1] = s /\ \A i \in 1..n : c[i] = b[i]
      /\ \A u \in Tasks \ {t} : blocks'[u] = blocks[u]
  BY <1>1 DEF Context!Enter
<1> HIDE DEF c
<1>3. /\ token'[s] = [task |-> t, value |-> ambient[t]]
      /\ \A r \in Scopes \ {s} : token'[r] = token[r]
      /\ ambient'[t] = Context!Over(ambient[t], Layer[s])
      /\ \A u \in Tasks \ {t} : ambient'[u] = ambient[u]
      /\ inherited' = inherited /\ raised' = raised
  BY DEF Context!IInv, Context!Shape, Context!Enter
<1>4. Context!Shape'
  BY <1>1, <1>2 DEF Context!IInv, Context!Shape, Context!Enter
<1> SUFFICES ASSUME reused' = {} PROVE raised' = {} /\ Context!Tokens' /\ Context!Contexts'
  BY <1>4 DEF Context!IInv
<1>5. reused = {} /\ token[s] = Context!NoToken
  BY DEF Context!Enter
<1>6. raised = {} /\ Context!Tokens /\ Context!Contexts
  BY <1>5 DEF Context!IInv
<1>7. \A u \in Tasks : \A i \in DOMAIN blocks[u] : blocks[u][i] \in Scopes \ {s}
  <2> SUFFICES ASSUME NEW u \in Tasks,
      NEW i \in DOMAIN blocks[u] PROVE blocks[u][i] \in Scopes \ {s}
    OBVIOUS
  <2>1. blocks[u][i] \in Scopes /\ token[blocks[u][i]].task = u
    BY <1>1, <1>6 DEF Context!Tokens
  <2>2. token[s].task \notin Tasks
    BY <1>5 DEF Context!NoToken, Context!ContextConstants
  <2> QED
    BY <2>1, <2>2
<1>8. Context!Tokens'
  <2> SUFFICES ASSUME NEW u \in Tasks, NEW i \in DOMAIN blocks'[u]
               PROVE  /\ token'[blocks'[u][i]].task = u
                      /\ \A j \in DOMAIN blocks'[u] : blocks'[u][i] = blocks'[u][j] => i = j
    BY DEF Context!Tokens
  <2>1. CASE u # t
    <3>1. blocks'[u] = blocks[u] /\ i \in DOMAIN blocks[u]
      BY <1>2, <2>1
    <3>2. token'[blocks[u][i]] = token[blocks[u][i]]
      BY <1>3, <1>7, <3>1
    <3> QED
      BY <1>6, <3>1, <3>2 DEF Context!Tokens
  <2>2. CASE u = t /\ i = n + 1
    <3>1. blocks'[t][i] = s /\ token'[s].task = t
      BY <1>2, <1>3, <2>2
    <3>2. \A j \in 1..n : c[j] # s
      BY <1>1, <1>2, <1>7
    <3>3. \A j \in 1..(n + 1) : c[j] = s => j = n + 1
      BY <1>1, <3>2
    <3> QED
      BY <1>2, <2>2, <3>1, <3>3
  <2>3. CASE u = t /\ i \in 1..n
    <3>1. /\ token[b[i]].task = t /\ b[i] \in Scopes \ {s}
          /\ \A j \in 1..n : b[i] = b[j] => i = j
      BY <1>1, <1>6, <1>7, <2>3 DEF Context!Tokens
    <3>2. c[i] = b[i] /\ token'[b[i]] = token[b[i]]
      BY <1>2, <1>3, <2>3, <3>1
    <3>3. \A j \in 1..(n + 1) : c[i] = c[j] => i = j
      BY <1>1, <1>2, <3>1, <3>2
    <3> QED
      BY <1>2, <2>3, <3>1, <3>2, <3>3
  <2> QED
    BY <1>1, <1>2, <2>1, <2>2, <2>3
<1>9. Context!Contexts'
  <2> SUFFICES ASSUME NEW u \in Tasks, NEW k \in Context!Keys
               PROVE  /\ \A i \in DOMAIN blocks'[u] :
                           Context!Decided(blocks'[u], i - 1, inherited'[u], k,
                             Context!At(token'[blocks'[u][i]].value, k))
                      /\ Context!Decided(blocks'[u], Len(blocks'[u]), inherited'[u], k,
                         Context!At(ambient'[u], k))
    BY DEF Context!Contexts, Context!Keys
  <2>1. CASE u # t
    <3>1. blocks'[u] = blocks[u] /\ ambient'[u] = ambient[u] /\ inherited'[u] = inherited[u]
      BY <1>2, <1>3, <2>1
    <3>2. \A i \in DOMAIN blocks[u] : token'[blocks[u][i]] = token[blocks[u][i]]
      BY <1>3, <1>7, <2>1
    <3> QED
      BY <1>6, <3>1, <3>2 DEF Context!Contexts
  <2>2. CASE u = t
    <3>1. ASSUME NEW i \in 1..n
          PROVE  Context!Decided(c, i - 1, inherited[t], k, Context!At(token'[c[i]].value, k))
      <4>1. Context!Decided(b, i - 1, inherited[t], k, Context!At(token[b[i]].value, k))
        BY <1>1, <1>6 DEF Context!Contexts
      <4>2. token'[c[i]] = token[b[i]]
        BY <1>1, <1>2, <1>3, <1>7
      <4>3. i - 1 \in Nat /\ \A j \in 1..(i - 1) : b[j] = c[j]
        BY <1>1, <1>2
      <4> QED
        BY <4>1, <4>2, <4>3, DecidedPrefix
    <3>2. Context!Decided(b, n, inherited[t], k, Context!At(ambient[t], k))
      BY <1>6 DEF Context!Contexts
    <3>3. Context!Decided(c, n, inherited[t], k, Context!At(token'[c[n + 1]].value, k))
      <4>1. token'[c[n + 1]].value = ambient[t]
        BY <1>2, <1>3
      <4>2. n \in Nat /\ \A j \in 1..n : b[j] = c[j]
        BY <1>1, <1>2
      <4>3. Context!Decided(c, n, inherited[t], k, Context!At(ambient[t], k))
        BY <3>2, <4>2, DecidedPrefix
      <4> QED
        BY <4>1, <4>3
    <3>4. Context!Decided(c, n + 1, inherited[t], k, 
            Context!At(Context!Over(ambient[t], Layer[s]), k))
      <4>1. n \in Nat /\ c[n + 1] = s /\ \A j \in 1..n : b[j] = c[j]
        BY <1>1, <1>2
      <4> QED
        BY <3>2, <4>1, DecidedOver
    <3>5. \A i \in 1..(n + 1) :
            Context!Decided(c, i - 1, inherited[t], k, Context!At(token'[c[i]].value, k))
      <4> SUFFICES ASSUME NEW i \in 1..(n + 1), i \notin 1..n
                   PROVE  Context!Decided(c, i - 1, inherited[t], k, 
                            Context!At(token'[c[i]].value, k))
        BY <3>1
      <4>1. i = n + 1 /\ i - 1 = n
        BY <1>1
      <4> QED
        BY <3>3, <4>1
    <3> QED
      BY <1>2, <1>3, <2>2, <3>4, <3>5
  <2> QED
    BY <2>1, <2>2
<1> QED
  BY <1>3, <1>6, <1>8, <1>9

\* The innermost block gives back its token, with what the others say.
LEMMA ExitIInv == ASSUME Context!ContextConstants, Context!IInv, NEW t \in Tasks,
  Context!Exit(t) PROVE Context!IInv'
<1> DEFINE b == blocks[t]
           n == Len(b)
           s == b[n]
           c == SubSeq(b, 1, n - 1)
<1>1. /\ b \in Seq(Scopes) /\ n \in Nat \ {0} /\ DOMAIN b = 1..n /\ s \in Scopes
      /\ blocks \in [Tasks -> Seq(Scopes)]
      /\ t \in alive /\ alive' = alive /\ alive \subseteq Tasks
      /\ inherited' = inherited /\ reused' = reused
  BY DEF Context!IInv, Context!Shape, Context!Exit
<1>2. /\ blocks'[t] = c /\ c \in Seq(Scopes) /\ Len(c) = n - 1 /\ DOMAIN c = 1..(n - 1)
      /\ \A i \in 1..(n - 1) : c[i] = b[i]
      /\ \A u \in Tasks \ {t} : blocks'[u] = blocks[u]
  BY <1>1 DEF Context!Exit
<1>3. Context!Shape'
  <2>1. DOMAIN ambient' = Tasks /\ DOMAIN token' = Scopes
    BY DEF Context!IInv, Context!Shape, Context!Exit
  <2> QED
    BY <1>1, <1>2, <2>1 DEF Context!IInv, Context!Shape, Context!Exit
<1> SUFFICES ASSUME reused = {} PROVE raised' = {} /\ Context!Tokens' /\ Context!Contexts'
  BY <1>1, <1>3 DEF Context!IInv
<1>4. raised = {} /\ Context!Tokens /\ Context!Contexts
  BY DEF Context!IInv
<1>5. token[s].task = t /\ token[s] # Context!NoToken
  BY <1>1, <1>4 DEF Context!Tokens, Context!NoToken, Context!ContextConstants
<1>6. /\ ambient' = [ambient EXCEPT ![t] = token[s].value]
         /\ token' = [token EXCEPT ![s] = Context!NoToken]
      /\ raised' = raised
  BY <1>5 DEF Context!Exit, Context!ResetValue
<1>7. /\ ambient'[t] = token[s].value /\ \A u \in Tasks \ {t} : ambient'[u] = ambient[u]
      /\ \A r \in Scopes \ {s} : token'[r] = token[r]
  BY <1>1, <1>6 DEF Context!IInv, Context!Shape
<1>8. /\ \A u \in Tasks \ {t} : \A i \in DOMAIN blocks[u] : blocks[u][i] \in Scopes \ {s}
      /\ \A i \in 1..(n - 1) : b[i] \in Scopes \ {s}
  <2>1. ASSUME NEW u \in Tasks \ {t}, NEW i \in DOMAIN blocks[u] PROVE blocks[u][i] \in Scopes \ {s}
    <3>1. blocks[u][i] \in Scopes /\ token[blocks[u][i]].task = u
      BY <1>1, <1>4, <2>1 DEF Context!Tokens
    <3> QED
      BY <1>5, <3>1
  <2>2. ASSUME NEW i \in 1..(n - 1) PROVE b[i] \in Scopes \ {s}
    BY <1>1, <1>4 DEF Context!Tokens
  <2> QED
    BY <2>1, <2>2
<1>9. Context!Tokens'
  <2> SUFFICES ASSUME NEW u \in Tasks, NEW i \in DOMAIN blocks'[u]
               PROVE  /\ token'[blocks'[u][i]].task = u
                      /\ \A j \in DOMAIN blocks'[u] : blocks'[u][i] = blocks'[u][j] => i = j
    BY DEF Context!Tokens
  <2>1. CASE u # t
    <3>1. blocks'[u] = blocks[u] /\ i \in DOMAIN blocks[u]
      BY <1>2, <2>1
    <3>2. token'[blocks[u][i]] = token[blocks[u][i]]
      BY <1>7, <1>8, <2>1, <3>1
    <3> QED
      BY <1>4, <3>1, <3>2 DEF Context!Tokens
  <2>2. CASE u = t
    <3>1. blocks'[t] = c /\ i \in 1..(n - 1) /\ 1..(n - 1) \subseteq DOMAIN b
      BY <1>1, <1>2, <2>2
    <3>2. token'[b[i]] = token[b[i]] /\ c[i] = b[i]
      BY <1>2, <1>7, <1>8, <3>1
    <3>3. token[b[i]].task = t /\ \A j \in 1..(n - 1) : b[i] = b[j] => i = j
      BY <1>4, <3>1 DEF Context!Tokens
    <3> QED
      BY <1>2, <2>2, <3>1, <3>2, <3>3
  <2> QED
    BY <2>1, <2>2
<1>10. Context!Contexts'
  <2> SUFFICES ASSUME NEW u \in Tasks, NEW k \in Context!Keys
               PROVE  /\ \A i \in DOMAIN blocks'[u] :
                           Context!Decided(blocks'[u], i - 1, inherited'[u], k,
                             Context!At(token'[blocks'[u][i]].value, k))
                      /\ Context!Decided(blocks'[u], Len(blocks'[u]), inherited'[u], k,
                         Context!At(ambient'[u], k))
    BY DEF Context!Contexts, Context!Keys
  <2>1. CASE u # t
    <3>1. blocks'[u] = blocks[u] /\ ambient'[u] = ambient[u] /\ inherited'[u] = inherited[u]
      BY <1>1, <1>2, <1>7, <2>1
    <3>2. \A i \in DOMAIN blocks[u] : token'[blocks[u][i]] = token[blocks[u][i]]
      BY <1>7, <1>8, <2>1
    <3> QED
      BY <1>4, <3>1, <3>2 DEF Context!Contexts
  <2>2. CASE u = t
    <3>1. ASSUME NEW i \in 1..(n - 1)
          PROVE  Context!Decided(c, i - 1, inherited[t], k, Context!At(token'[c[i]].value, k))
      <4>1. Context!Decided(b, i - 1, inherited[t], k, Context!At(token[b[i]].value, k))
        BY <1>1, <1>4 DEF Context!Contexts
      <4>2. token'[c[i]] = token[b[i]]
        BY <1>2, <1>7, <1>8
      <4>3. i - 1 \in Nat /\ \A j \in 1..(i - 1) : b[j] = c[j]
        BY <1>1, <1>2
      <4> QED
        BY <4>1, <4>2, <4>3, DecidedPrefix
    <3>2. Context!Decided(b, n - 1, inherited[t], k, Context!At(token[s].value, k))
      BY <1>1, <1>4 DEF Context!Contexts
    <3>3. Context!Decided(c, n - 1, inherited[t], k, Context!At(token[s].value, k))
      <4>1. n - 1 \in Nat /\ \A j \in 1..(n - 1) : b[j] = c[j]
        BY <1>1, <1>2
      <4> QED
        BY <3>2, <4>1, DecidedPrefix
    <3> QED
      BY <1>1, <1>2, <1>7, <2>2, <3>1, <3>3
  <2> QED
    BY <2>1, <2>2
<1> QED
  BY <1>4, <1>6, <1>9, <1>10

\* A task that is created has no blocks, and a copy of the context.
LEMMA CreateTaskIInv ==
  ASSUME Context!ContextConstants, Context!IInv, NEW t \in Tasks, NEW u \in Tasks,
         Context!CreateTask(t, u)
  PROVE  Context!IInv'
<1>1. Context!Shape' /\ blocks[u] = <<>>
  BY DEF Context!IInv, Context!Shape, Context!CreateTask
<1> SUFFICES ASSUME reused = {} PROVE raised' = {} /\ Context!Tokens' /\ Context!Contexts'
  BY <1>1 DEF Context!IInv, Context!CreateTask
<1>2. raised' = {} /\ Context!Tokens'
  BY DEF Context!IInv, Context!CreateTask, Context!Tokens
<1>3. Context!Contexts'
  <2> SUFFICES ASSUME NEW w \in Tasks, NEW k \in Context!Keys
               PROVE  /\ \A i \in DOMAIN blocks[w] :
                           Context!Decided(blocks[w], i - 1, inherited'[w], k,
                             Context!At(token[blocks[w][i]].value, k))
                      /\ Context!Decided(blocks[w], Len(blocks[w]), inherited'[w], k,
                         Context!At(ambient'[w], k))
    BY DEF Context!Contexts, Context!Keys, Context!CreateTask
  <2>1. CASE w # u
    <3>1. inherited'[w] = inherited[w] /\ ambient'[w] = ambient[w]
      BY <2>1 DEF Context!IInv, Context!Shape, Context!CreateTask
    <3> QED
      BY <3>1 DEF Context!IInv, Context!Contexts
  <2>2. CASE w = u
    <3>1. inherited'[u] = ambient[t] /\ ambient'[u] = ambient[t]
      BY DEF Context!IInv, Context!Shape, Context!CreateTask
    <3> QED
      BY <1>1, <2>2, <3>1 DEF Context!Decided
  <2> QED
    BY <2>1, <2>2
<1> QED
  BY <1>2, <1>3

\* The invariant is inductive.
LEMMA ContextStepIInv == ASSUME Context!ContextConstants, Context!IInv,
  [Context!Next]_(Context!vars) PROVE Context!IInv'
<1>1. CASE Context!Next
  BY <1>1, EnterIInv, ExitIInv, CreateTaskIInv DEF Context!Next, Context!Running, Context!CreateTask
<1>2. CASE UNCHANGED Context!vars
  BY <1>2 DEF Context!vars, Context!IInv, Context!Shape, Context!Tokens, Context!Contexts
<1> QED
  BY <1>1, <1>2

\* The inductive invariant holds in every reachable state.
LEMMA ContextInvariance == ASSUME Context!ContextConstants PROVE Context!Spec => []Context!IInv
BY ContextInitIInv, ContextStepIInv, PTL DEF Context!Spec

\* Then the context of a call is what the blocks around it say (client.call).
LEMMA ContextSentInScope == ASSUME Context!ContextConstants PROVE Context!Spec
  => []Context!CallsInScope
<1>1. ASSUME Context!IInv PROVE Context!CallsInScope
  <2> SUFFICES ASSUME reused = {}, NEW t \in alive, NEW explicit \in Explicits,
      NEW k \in Context!Keys
               PROVE  Context!At(Context!Merged(t, explicit), k) =
                        IF k \in DOMAIN explicit THEN explicit[k] ELSE Context!InScope(t, k)
    BY <1>1 DEF Context!IInv, Context!CallsInScope
  <2>1. Context!At(Context!Merged(t, explicit), k) =
          IF k \in DOMAIN explicit THEN explicit[k] ELSE Context!At(ambient[t], k)
    BY DEF Context!At, Context!Merged, Context!Over
  <2> DEFINE b == blocks[t]
             n == Len(b)
  <2>2. /\ Context!Decided(b, n, inherited[t], k, Context!At(ambient[t], k))
        /\ n \in Nat /\ DOMAIN b = 1..n
    BY <1>1 DEF Context!IInv, Context!Shape, Context!Contexts
  <2>3. Context!At(ambient[t], k) = Context!InScope(t, k)
    <3>1. CASE /\ \A i \in 1..n : k \notin DOMAIN Layer[b[i]]
               /\ Context!At(ambient[t], k) = Context!At(inherited[t], k)
      <4>1. Context!Saying(t, k) = {}
        BY <2>2, <3>1 DEF Context!Saying
      <4> QED
        BY <3>1, <4>1 DEF Context!InScope, Context!At
    <3>2. CASE \E i \in 1..n : /\ k \in DOMAIN Layer[b[i]]
                               /\ Context!At(ambient[t], k) = Layer[b[i]][k]
                               /\ \A j \in 1..n : i < j => k \notin DOMAIN Layer[b[j]]
      <4>1. PICK i \in 1..n : /\ k \in DOMAIN Layer[b[i]]
                              /\ Context!At(ambient[t], k) = Layer[b[i]][k]
                              /\ \A j \in 1..n : i < j => k \notin DOMAIN Layer[b[j]]
        BY <3>2
      <4>2. /\ i \in Context!Saying(t, k) /\ Context!Saying(t, k) \subseteq 1..n
            /\ \A j \in Context!Saying(t, k) : j <= i
        BY <2>2, <4>1 DEF Context!Saying
      <4> DEFINE m == CHOOSE j \in Context!Saying(t, k) : \A l \in Context!Saying(t, k) : l <= j
      <4>3. m \in Context!Saying(t, k) /\ \A l \in Context!Saying(t, k) : l <= m
        BY <4>2
      <4>4. m = i
        BY <2>2, <4>2, <4>3
      <4>5. Context!InScope(t, k) = Layer[b[m]][k]
        BY <4>2 DEF Context!InScope
      <4> QED
        BY <4>1, <4>4, <4>5
    <3> QED
      BY <2>2, <3>1, <3>2 DEF Context!Decided
  <2> QED
    BY <2>1, <2>3
<1> QED
  BY <1>1, ContextInvariance, PTL

-----------------------------------------------------------------------------
(***************************************************************************)
(* A behaviour of Client is one of ClientSession and one of                *)
(* AmbientContext.                                                         *)
(***************************************************************************)

\* Whichever of them takes the steps, the session goes by ClientSession and the
\* context variable by AmbientContext.
THEOREM Parts == BothSpec => Spec /\ Context!Spec
<1>1. BothInit => Init /\ Context!Init
  BY DEF BothInit
<1>2. [BothNext]_bothVars => [Next]_vars
  BY DEF BothNext, bothVars
<1>3. [BothNext]_bothVars => [Context!Next]_(Context!vars)
  BY DEF BothNext, bothVars, ambientVars, Context!vars
<1> QED
  BY <1>1, <1>2, <1>3, PTL DEF BothSpec, Spec, Context!Spec

\* In a program that never enters a scope object it has not left, every call is
\* sent with its own context over the layers of the blocks around it (client.call).
THEOREM SentInScope == BothSpec => []CallsInScope
BY ContextSentInScope, ContextAssumption, Parts, PTL DEF CallsInScope
=============================================================================
