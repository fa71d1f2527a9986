----------------------------- MODULE FieldCache -----------------------------
(***************************************************************************)
(* The field metadata cache of change data capture                         *)
(* (services/cdc/field_cache.py): one dictionary of the process, which     *)
(* every feed and history of every client goes through.  A call looks up   *)
(* the fields of a page, asks its own server about those it misses, and    *)
(* puts the answers in.  Meanwhile other calls do the same, somebody       *)
(* clears the cache, and the fields of a database change.                  *)
(*                                                                         *)
(* The keys "model.field" of one model are the fields here; of the         *)
(* metadata only the type is kept, which decides how values are resolved.  *)
(***************************************************************************)
EXTENDS Naturals

CONSTANTS
  Calls,      \* calls of ensure_fields_cached, a page of a feed each
  Clients,    \* clients of the process, each with a database of its own
  ClientOf,   \* the client of each call
  Names,      \* the field_names each call asks for
  Fields, Types,
  Char,       \* the type assumed of a field the server does not know
  NoField,    \* the type of a field a database does not have
  MaxChanges  \* bound on changes of a database's fields

Nothing == [f \in {} |-> Char]

VARIABLES
  ttype,    \* each database: the types of its fields
  told,     \* the types each database has had since the process started
  changes,
  _cache,
  pc,       \* idle, fetching, done or failed
  result,   \* the mapping each call fills and returns
  missing,  \* the names each call found no entry for
  records   \* the answer on its way to each call

vars == <<ttype, told, changes, _cache, pc, result, missing, records>>

Init ==
  /\ ttype \in [Clients -> [Fields -> Types \cup {NoField}]]
  /\ told = [c \in Clients |-> [f \in Fields |-> {ttype[c][f]}]]
  /\ changes = 0
  /\ _cache = Nothing
  /\ pc = [k \in Calls |-> "idle"]
  /\ result = [k \in Calls |-> Nothing]
  /\ missing = [k \in Calls |-> {}]
  /\ records = [k \in Calls |-> Nothing]

-----------------------------------------------------------------------------

\* The fields of a database change: a module is installed or upgraded.
Alter(c, f, t) ==
  /\ changes < MaxChanges
  /\ t # ttype[c][f]
  /\ ttype' = [ttype EXCEPT ![c][f] = t]
  /\ told' = [told EXCEPT ![c][f] = @ \cup {t}]
  /\ changes' = changes + 1
  /\ UNCHANGED <<_cache, pc, result, missing, records>>

\* clear_cache
ClearCache ==
  /\ _cache' = Nothing
  /\ UNCHANGED <<ttype, told, changes, pc, result, missing, records>>

\* f with the entries of g over it.
Update(f, g) ==
  [x \in DOMAIN f \cup DOMAIN g |-> IF x \in DOMAIN g THEN g[x] ELSE f[x]]

\* The loop over the names, up to the request for those that are missing.
LookUp(k) ==
  /\ pc[k] = "idle"
  /\ result' = [result EXCEPT ![k] = [f \in Names[k] \cap DOMAIN _cache |-> _cache[f]]]
  /\ missing' = [missing EXCEPT ![k] = Names[k] \ DOMAIN _cache]
  /\ pc' = [pc EXCEPT ![k] = IF missing'[k] = {} THEN "done" ELSE "fetching"]
  /\ UNCHANGED <<ttype, told, changes, _cache, records>>

\* The server answers for the fields it knows.
Serve(k) ==
  /\ pc[k] = "fetching"
  /\ pc' = [pc EXCEPT ![k] = "answered"]
  /\ LET has == ttype[ClientOf[k]]
     IN records' = [records EXCEPT ![k] =
                      [f \in {g \in missing[k] : has[g] # NoField} |-> has[f]]]
  /\ UNCHANGED <<ttype, told, changes, _cache, result, missing>>

FetchFails(k) ==
  /\ pc[k] \in {"fetching", "answered"}
  /\ pc' = [pc EXCEPT ![k] = "failed"]
  /\ UNCHANGED <<ttype, told, changes, _cache, result, missing, records>>

\* Mutant: what the server does not know is cached as unknown.
FilledUnknown(k) ==
  [f \in missing[k] |-> IF f \in DOMAIN records[k] THEN records[k][f] ELSE NoField]

\* What the answer says, and "char" for the names it lacks.
Filled(k) ==
  [f \in missing[k] |-> IF f \in DOMAIN records[k] THEN records[k][f] ELSE Char]

\* Mutant: an entry that another call has put there meanwhile is kept and returned.
FetchedKeeping(k) ==
  /\ pc[k] = "answered"
  /\ _cache' = Update(Filled(k), _cache)
  /\ result' = [result EXCEPT ![k] = Update(@, [f \in missing[k] |-> _cache'[f]])]
  /\ pc' = [pc EXCEPT ![k] = "done"]
  /\ UNCHANGED <<ttype, told, changes, missing, records>>

\* The answer is put into the cache and into the result, without looking
\* whether another call has been there meanwhile.
Fetched(k) ==
  /\ pc[k] = "answered"
  /\ _cache' = Update(_cache, Filled(k))
  /\ result' = [result EXCEPT ![k] = Update(@, Filled(k))]
  /\ pc' = [pc EXCEPT ![k] = "done"]
  /\ UNCHANGED <<ttype, told, changes, missing, records>>

Next ==
  \/ \E c \in Clients, f \in Fields, t \in Types \cup {NoField} : Alter(c, f, t)
  \/ ClearCache
  \/ \E k \in Calls : LookUp(k) \/ Serve(k) \/ FetchFails(k) \/ Fetched(k)

Spec == Init /\ [][Next]_vars

-----------------------------------------------------------------------------
(***************************************************************************)
(* Properties.                                                             *)
(***************************************************************************)

TypeOK ==
  /\ ttype \in [Clients -> [Fields -> Types \cup {NoField}]]
  /\ told \in [Clients -> [Fields -> SUBSET (Types \cup {NoField})]]
  /\ changes \in Nat
  /\ DOMAIN _cache \subseteq Fields /\ \A f \in DOMAIN _cache : _cache[f] \in Types
  /\ pc \in [Calls -> {"idle", "fetching", "answered", "done", "failed"}]
  /\ missing \in [Calls -> SUBSET Fields]
  /\ \A k \in Calls : DOMAIN records[k] \subseteq missing[k] /\ DOMAIN result[k] \subseteq Names[k]

\* What a client may have been told of a field: a type its database has had,
\* or "char" if it has been without the field.
Heard(c, f) ==
  {t \in Types : t \in told[c][f] \/ (t = Char /\ NoField \in told[c][f])}

\* What a call has asked its server about it has from there: of a field that the
\* cache lacked, a type its own database has had, whatever other calls, of other
\* databases too, put into the cache meanwhile.
OwnAnswers ==
  \A k \in Calls : pc[k] = "done" =>
    \A f \in missing[k] : f \in DOMAIN result[k] /\ result[k][f] \in Heard(ClientOf[k], f)

\* "Field metadata is cached across pages within a single feed iteration"
\* (docs/services/cdc.md:73): what a feed learns of a field comes from its own
\* database.  Violated by a feed of another client that has asked first.
OwnDatabase ==
  \A k \in Calls : \A f \in DOMAIN result[k] : result[k][f] \in Heard(ClientOf[k], f)

-----------------------------------------------------------------------------
(***************************************************************************)
(* The inductive invariant.                                                *)
(***************************************************************************)

FieldConstants ==
  /\ ClientOf \in [Calls -> Clients] /\ Names \in [Calls -> SUBSET Fields]
  /\ Char \in Types /\ NoField \notin Types

\* A database has told what it has now; an answer on its way was told by the
\* database it comes from, and so was the lack of a field.
Answers ==
  /\ \A c \in Clients, f \in Fields : ttype[c][f] \in told[c][f]
  /\ \A k \in Calls :
       /\ missing[k] \subseteq Names[k]
       /\ pc[k] = "idle" => missing[k] = {}
       /\ pc[k] = "answered" => \A f \in missing[k] :
            IF f \in DOMAIN records[k]
            THEN records[k][f] \in told[ClientOf[k]][f] \cap Types
            ELSE NoField \in told[ClientOf[k]][f]
  /\ DOMAIN result = Calls /\ DOMAIN records = Calls

IInv == TypeOK /\ Answers /\ OwnAnswers
=============================================================================
