--------------------------- MODULE AmbientContext ---------------------------
(***************************************************************************)
(* with_context and the RPC context of a call (client.py): a scope object  *)
(* puts a layer over the ambient context when its block is entered, and    *)
(* resets the context variable to what it was when the block is left.      *)
(* Every asyncio task has its own copy of the variable, taken from the     *)
(* task that created it; blocks of one task nest, those of different tasks *)
(* interleave, and nothing keeps a program from using one scope object for *)
(* several blocks.                                                         *)
(***************************************************************************)
EXTENDS Naturals, Sequences, Functions

CONSTANTS
  Tasks, Main,   \* the tasks, and the one that runs first
  Scopes,        \* the scope objects the program has made with with_context
  Layer,         \* the keys each of them sets, with their values
  Explicits,     \* the contexts passed to a call by itself
  None,
  MaxDepth       \* bound on nested blocks of a task

Empty == [k \in {} |-> None]

\* {**f, **g}
Over(f, g) == [k \in DOMAIN f \cup DOMAIN g |-> IF k \in DOMAIN g THEN g[k] ELSE f[k]]

VARIABLES
  alive,      \* the tasks that run
  ambient,    \* _ambient_context of each task
  inherited,  \* what it was when the task was created
  blocks,     \* the scopes whose blocks each task is in, outermost first
  token,      \* _token of each scope: the context it belongs to and the value
  raised,     \* tasks in which leaving a block raised; they only unwind
  reused      \* scopes that were entered again before they were left

vars == <<alive, ambient, inherited, blocks, token, raised, reused>>

NoToken == [task |-> None, value |-> Empty]

Init ==
  /\ alive = {Main}
  /\ ambient = [t \in Tasks |-> Empty]
  /\ inherited = [t \in Tasks |-> Empty]
  /\ blocks = [t \in Tasks |-> <<>>]
  /\ token = [s \in Scopes |-> NoToken]
  /\ raised = {}
  /\ reused = {}

Running == alive \ raised

-----------------------------------------------------------------------------

\* __enter__
Enter(t, s) ==
  /\ t \in Running
  /\ Len(blocks[t]) < MaxDepth
  /\ token' = [token EXCEPT ![s] = [task |-> t, value |-> ambient[t]]]
  /\ ambient' = [ambient EXCEPT ![t] = Over(@, Layer[s])]
  /\ blocks' = [blocks EXCEPT ![t] = Append(@, s)]
  /\ reused' = IF token[s] = NoToken THEN reused ELSE reused \cup {s}
  /\ UNCHANGED <<alive, inherited, raised>>

\* Mutant: the layer is taken off by emptying the context.
ResetValueEmpty(s) == Empty

\* What the variable is reset to.
ResetValue(s) == token[s].value

\* __exit__ of the innermost block: without a token nothing is reset, and a
\* token of another task's context makes reset() raise.
Exit(t) ==
  /\ t \in alive
  /\ blocks[t] # <<>>
  /\ LET s == blocks[t][Len(blocks[t])]
     IN CASE token[s] = NoToken -> UNCHANGED <<ambient, token, raised>>
          [] token[s].task = t ->
               /\ ambient' = [ambient EXCEPT ![t] = ResetValue(s)]
               /\ token' = [token EXCEPT ![s] = NoToken]
               /\ UNCHANGED raised
          [] OTHER ->
               /\ raised' = raised \cup {t}
               /\ UNCHANGED <<ambient, token>>
  /\ blocks' = [blocks EXCEPT ![t] = SubSeq(@, 1, Len(@) - 1)]
  /\ UNCHANGED <<alive, inherited, reused>>

\* asyncio.create_task copies the context.
CreateTask(t, u) ==
  /\ t \in Running
  /\ u \notin alive
  /\ alive' = alive \cup {u}
  /\ ambient' = [ambient EXCEPT ![u] = ambient[t]]
  /\ inherited' = [inherited EXCEPT ![u] = ambient[t]]
  /\ UNCHANGED <<blocks, token, raised, reused>>

\* The context a call is sent with: its own over the ambient one.
Merged(t, explicit) == Over(ambient[t], explicit)

Next ==
  \E t \in Tasks :
    \/ \E s \in Scopes : Enter(t, s)
    \/ Exit(t)
    \/ \E u \in Tasks : CreateTask(t, u)

Spec == Init /\ [][Next]_vars

-----------------------------------------------------------------------------
(***************************************************************************)
(* Properties.                                                             *)
(***************************************************************************)

Keys == UNION ({DOMAIN Layer[s] : s \in Scopes} \cup {DOMAIN e : e \in Explicits})

TypeOK ==
  /\ alive \in SUBSET Tasks /\ raised \in SUBSET alive
  /\ \A t \in Tasks : DOMAIN ambient[t] \subseteq Keys
  /\ \A t \in Tasks : \A i \in DOMAIN blocks[t] : blocks[t][i] \in Scopes
  /\ \A s \in Scopes : token[s] = NoToken \/ token[s].task \in alive
  /\ reused \in SUBSET Scopes

\* What the blocks around a task's code say of a key: the innermost block that
\* sets it decides, then what the task was created with.
Saying(t, k) == {i \in DOMAIN blocks[t] : k \in DOMAIN Layer[blocks[t][i]]}

InScope(t, k) ==
  IF Saying(t, k) = {}
  THEN IF k \in DOMAIN inherited[t] THEN inherited[t][k] ELSE None
  ELSE Layer[blocks[t][CHOOSE i \in Saying(t, k) : \A j \in Saying(t, k) : j <= i]][k]

At(f, k) == IF k \in DOMAIN f THEN f[k] ELSE None

\* In a program that never enters a scope object it has not left, every call is
\* sent with its own context over exactly the layers of the blocks around it and
\* what its task was created with, however the blocks of the tasks interleave,
\* and however long a task outlives the block it was created in.
CallsInScope ==
  reused = {} =>
    /\ raised = {}
    /\ \A t \in alive : \A explicit \in Explicits : \A k \in Keys :
         At(Merged(t, explicit), k) = IF k \in DOMAIN explicit THEN explicit[k] ELSE InScope(t, k)

-----------------------------------------------------------------------------
(***************************************************************************)
(* The inductive invariant.                                                *)
(***************************************************************************)

\* The main task is a task, and no task is the owner of no token.
ContextConstants == Main \in Tasks /\ None \notin Tasks

\* v is what the first n of the blocks b, entered under the context f, say of k.
Decided(b, n, f, k, v) ==
  \/ (\A i \in 1..n : k \notin DOMAIN Layer[b[i]]) /\ v = At(f, k)
  \/ \E i \in 1..n : /\ k \in DOMAIN Layer[b[i]] /\ v = Layer[b[i]][k]
                     /\ \A j \in 1..n : i < j => k \notin DOMAIN Layer[b[j]]

\* Every block has the token of its scope, and none shares it.
Tokens ==
  \A t \in Tasks : \A i \in DOMAIN blocks[t] :
    /\ token[blocks[t][i]].task = t
    /\ \A j \in DOMAIN blocks[t] : blocks[t][i] = blocks[t][j] => i = j

\* A token holds what the blocks outside its own say, the variable what all do.
Contexts ==
  \A t \in Tasks : \A k \in Keys :
    /\ \A i \in DOMAIN blocks[t] :
         Decided(blocks[t], i - 1, inherited[t], k, At(token[blocks[t][i]].value, k))
    /\ Decided(blocks[t], Len(blocks[t]), inherited[t], k, At(ambient[t], k))

Shape ==
  /\ alive \subseteq Tasks
  /\ blocks \in [Tasks -> Seq(Scopes)]
  /\ DOMAIN ambient = Tasks /\ DOMAIN inherited = Tasks /\ DOMAIN token = Scopes
  /\ \A t \in Tasks \ alive : blocks[t] = <<>>

IInv == Shape /\ (reused = {} => raised = {} /\ Tokens /\ Contexts)
=============================================================================
