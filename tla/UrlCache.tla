------------------------------ MODULE UrlCache ------------------------------
(***************************************************************************)
(* get_base_url (services/urls/functions.py): a module-level dictionary    *)
(* from id(client) to the base URL of the client's database.  Calls        *)
(* overlap, of one client and of several; URLs change; and clients come    *)
(* and go: a new one may be given the id of one that is gone.              *)
(***************************************************************************)
EXTENDS Naturals

CONSTANTS
  Clients,     \* client objects; each has a database of its own
  Addresses,   \* what id() may return
  Calls,       \* calls under way or just returned
  None,
  MaxVersion   \* bound on changes of a base URL

VARIABLES
  url,        \* web.base.url of each database, as a version number
  address,    \* id() of the clients that live
  born,       \* the version when the client was made
  cache,      \* _base_url_cache: whose URL, and which
  call,
  informed    \* clients that have been answered by Odoo

vars == <<url, address, born, cache, call, informed>>

Alive == {c \in Clients : address[c] \in Addresses}

\* sure: the call asked Odoo, or its client had been answered before it began;
\* since: the version it may expect at least.
NoCall ==
  [pc |-> "idle", client |-> None, key |-> None, url |-> None, sure |-> FALSE, since |-> 0]

InFlight(k) == call[k].pc \in {"asked", "answered"}

Init ==
  /\ url = [c \in Clients |-> 0]
  /\ address = [c \in Clients |-> None]
  /\ born = [c \in Clients |-> 0]
  /\ cache = [a \in Addresses |-> None]
  /\ call = [k \in Calls |-> NoCall]
  /\ informed = {}

\* A client is made.
Create(c, a) ==
  /\ address[c] = None
  /\ \A d \in Clients : address[d] # a
  /\ address' = [address EXCEPT ![c] = a]
  /\ born' = [born EXCEPT ![c] = url[c]]
  /\ UNCHANGED <<url, cache, call, informed>>

\* A client is gone for ever, once no call holds it: its id is free, its entry
\* stays.
Collect(c) ==
  /\ c \in Alive
  /\ \A k \in Calls : InFlight(k) => call[k].client # c
  /\ address' = [address EXCEPT ![c] = "collected"]
  /\ UNCHANGED <<url, born, cache, call, informed>>

\* Mutant: one entry for all clients.
KeyShared(c) == CHOOSE a \in Addresses : TRUE

Key(c) == address[c]

\* get_base_url takes the id, and looks into the cache unless it is to refresh:
\* it returns what is there, or asks Odoo.
Get(k, c, refresh) ==
  /\ c \in Alive
  /\ ~InFlight(k)
  /\ LET hit  == ~refresh /\ cache[Key(c)] # None
         call0 == [pc |-> IF hit THEN "returned" ELSE "asked", client |-> c, key |-> Key(c),
                   url |-> IF hit THEN cache[Key(c)] ELSE None,
                   sure |-> ~hit \/ c \in informed,
                   since |-> IF refresh THEN url[c] ELSE born[c]]
     IN call' = [call EXCEPT ![k] = call0]
  /\ UNCHANGED <<url, address, born, cache, informed>>

\* Odoo reads its parameter.
Answer(k) ==
  /\ call[k].pc = "asked"
  /\ LET c == call[k].client
     IN call' = [call EXCEPT ![k].pc = "answered", ![k].url = [of |-> c, version |-> url[c]]]
  /\ UNCHANGED <<url, address, born, cache, informed>>

\* The answer arrives: it is stored under the id taken before, and returned.
Got(k) ==
  /\ call[k].pc = "answered"
  /\ call' = [call EXCEPT ![k].pc = "returned"]
  /\ cache' = [cache EXCEPT ![call[k].key] = call[k].url]
  /\ informed' = informed \cup {call[k].client}
  /\ UNCHANGED <<url, address, born>>

ReadFails(k) ==
  /\ InFlight(k)
  /\ call' = [call EXCEPT ![k] = NoCall]
  /\ UNCHANGED <<url, address, born, cache, informed>>

ChangeUrl(c) ==
  /\ url[c] < MaxVersion
  /\ url' = [url EXCEPT ![c] = @ + 1]
  /\ UNCHANGED <<address, born, cache, call, informed>>

Next ==
  \/ \E c \in Clients :
       \/ \E a \in Addresses : Create(c, a)
       \/ Collect(c) \/ ChangeUrl(c)
       \/ \E k \in Calls, refresh \in BOOLEAN : Get(k, c, refresh)
  \/ \E k \in Calls : Answer(k) \/ Got(k) \/ ReadFails(k)

-----------------------------------------------------------------------------

Urls == [of : Clients, version : Nat]

TypeOK ==
  /\ url \in [Clients -> Nat] /\ born \in [Clients -> Nat]
  /\ address \in [Clients -> Addresses \cup {None, "collected"}]
  /\ cache \in [Addresses -> Urls \cup {None}]
  /\ call \in [Calls -> [pc : {"idle", "asked", "answered", "returned"},
                         client : Clients \cup {None}, key : Addresses \cup {None},
                         url : Urls \cup {None}, sure : BOOLEAN, since : Nat]]
  /\ informed \in SUBSET Clients

\* A URL of client c, and not older than since.
Own(c, u, since) == u # None /\ u.of = c /\ since <= u.version /\ u.version <= url[c]

\* A call that asks Odoo, and every call of a client that Odoo has answered before,
\* returns a URL of the client's own database, had since the client was made or, for
\* a refresh, since the call began; whichever calls overlap, and whoever had the id
\* before.
OwnOnceAsked ==
  \A k \in Calls : call[k].pc = "returned" /\ call[k].sure =>
    Own(call[k].client, call[k].url, call[k].since)

\* "Results are cached per client instance" (functions.py:19): what a call returns
\* is a URL of its client's own database.  Violated by a client with the id of one
\* that is gone.
OwnUrl == \A k \in Calls : call[k].pc = "returned" => call[k].url.of = call[k].client

-----------------------------------------------------------------------------
(***************************************************************************)
(* The inductive invariant.                                                *)
(***************************************************************************)

\* None and "collected" are no addresses.
UrlConstants ==
  None \notin Addresses \cup {"collected"} \cup Urls \cup Clients /\ "collected" \notin Addresses

\* No two clients that live have one id; those that are to come were not answered,
\* and were not younger than their databases.
Lives ==
  /\ \A c, d \in Clients : c # d /\ address[c] = address[d] => address[c] \notin Addresses
  /\ \A c \in informed : address[c] # None
  /\ \A c \in Clients : born[c] <= url[c]

\* A call in flight is of a client that lives, whose id it took, and expects nothing
\* younger than there is; an answer on its way is good.
Waiting ==
  \A k \in Calls :
    /\ InFlight(k) =>
         /\ call[k].client \in Alive /\ call[k].key = address[call[k].client]
         /\ born[call[k].client] <= call[k].since /\ call[k].since <= url[call[k].client]
    /\ call[k].pc = "answered" => Own(call[k].client, call[k].url, call[k].since)

\* Under the id of a client that lives and was answered stands a URL of its own.
Told == \A c \in Alive \cap informed : Own(c, cache[address[c]], born[c])

IInv == TypeOK /\ Lives /\ Waiting /\ Told /\ OwnOnceAsked
=============================================================================
