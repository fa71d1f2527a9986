---------------------------- MODULE ServiceProofs ----------------------------
(***************************************************************************)
(* Proofs about the components a program uses through a client: typed      *)
(* records, references, attendance and timesheets, base URLs, and field    *)
(* types, for any number of objects, calls, tasks and clients and any      *)
(* bounds.  Each keeps its inductive invariant; ComponentsProofs draws the *)
(* theorems from that.                                                     *)
(***************************************************************************)
EXTENDS Components, Integers, Sequences, TLAPS

-----------------------------------------------------------------------------
(***************************************************************************)
(* TypedRecord.                                                            *)
(***************************************************************************)

\* Its variables.
stored == v1
obj == v2
userSet == v3
given == v4
readAs == v5
copied == v6
wire == v7
USE DEF stored, obj, userSet, given, readAs, copied, wire

\* Nothing has been read.
LEMMA TypedInit ==
  ASSUME Typed!TypedConstants, Typed!Init
  PROVE  Typed!IInv
<1>1. Typed!TypeOK
  BY DEF Typed!TypedConstants, Typed!Init, Typed!TypeOK
<1>2. Typed!Shape /\ Typed!OwnSets /\ Typed!Values
  BY DEF Typed!TypedConstants, Typed!Init, Typed!Absent, Typed!Nothing, Typed!Idle, Typed!Shape,
     Typed!OwnSets, Typed!Values
<1> QED
  BY <1>1, <1>2 DEF Typed!IInv

\* What a caller gives is sent as what reads back as the same.
LEMMA RoundTrip ==
  ASSUME Typed!TypedConstants, NEW f \in Typed!Fields, Kind[f] \in {"text", "datetime"},
         NEW v \in Typed!Given(f)
  PROVE  Typed!FromWire(f, Typed!ToWire(v)) = v
<1>1. PICK w \in WireValues[f] : v = Typed!FromWire(f, w)
  BY DEF Typed!Given
<1>2. /\ w \notin {"None", "datetime", "dTt", "[]"}
      /\ Unset \notin {"None", "datetime", "d t", "dTt", "[]"}
  BY DEF Typed!TypedConstants
<1>3. CASE w = Unset
  BY <1>1, <1>2, <1>3 DEF Typed!FromWire, Typed!ToWire
<1>4. CASE w = "d t" /\ Kind[f] = "datetime"
  BY <1>1, <1>2, <1>4 DEF Typed!FromWire, Typed!ToWire
<1>5. CASE w # Unset /\ ~ (w = "d t" /\ Kind[f] = "datetime")
  <2>1. v = w /\ Typed!ToWire(w) = w
    BY <1>1, <1>2, <1>5 DEF Typed!FromWire, Typed!ToWire
  <2> QED
    BY <1>1, <2>1
<1> QED
  BY <1>3, <1>4, <1>5

\* What Odoo stores of it is a value it answers.
LEMMA StoredValue ==
  ASSUME Typed!TypedConstants, Typed!TypeOK, NEW f \in Typed!Fields, NEW v \in Typed!Given(f)
  PROVE  Typed!Stored(f, Typed!ToWire(v)) \in WireValues[f]
<1>1. PICK w \in WireValues[f] : v = Typed!FromWire(f, w)
  BY DEF Typed!Given
<1>2. /\ w \notin {"None", "datetime", "dTt", "[]"}
      /\ Unset \notin {"None", "datetime", "d t", "dTt", "[]"}
  BY DEF Typed!TypedConstants
<1>3. CASE Kind[f] = "x2many"
  BY <1>3 DEF Typed!Stored, Typed!TypeOK
<1>4. CASE Kind[f] # "x2many" /\ w = Unset
  BY <1>1, <1>2, <1>4 DEF Typed!FromWire, Typed!ToWire, Typed!Stored
<1>5. CASE Kind[f] = "datetime" /\ w = "d t"
  BY <1>1, <1>2, <1>5 DEF Typed!FromWire, Typed!ToWire, Typed!Stored
<1>6. CASE Kind[f] # "x2many" /\ w # Unset /\ ~ (w = "d t" /\ Kind[f] = "datetime")
  <2>1. v = w /\ Typed!ToWire(w) = w
    BY <1>1, <1>2, <1>6 DEF Typed!FromWire, Typed!ToWire
  <2>2. Typed!Stored(f, w) = w
    BY <1>2, <1>6 DEF Typed!Stored
  <2> QED
    BY <2>1, <2>2
<1> QED
  BY <1>3, <1>4, <1>5, <1>6

\* An object is built of what the caller gave, which is its user set.
LEMMA TypedBuild ==
  ASSUME Typed!TypedConstants, Typed!IInv, NEW o \in Objs, NEW f \in Typed!Fields,
         NEW v \in Typed!Given(f),
         NEW hasId \in BOOLEAN, Typed!Build(o, f, v, hasId)
  PROVE  Typed!IInv'
<1> DEFINE r == [id |-> hasId, plain |-> {}, data |-> [g \in {f} |-> v], set |-> o]
<1>1. /\ obj' = [obj EXCEPT ![o] = r] /\ userSet' = [userSet EXCEPT ![o] = {f}]
      /\ given' = [given EXCEPT ![o] = [g \in {f} |-> v]]
      /\ UNCHANGED <<stored, readAs, copied, wire>> /\ obj[o] = Typed!Absent
  BY DEF Typed!Build
<1>2. /\ DOMAIN r = {"id", "plain", "data", "set"} /\ DOMAIN r.data = {f} /\ r.data[f] = v
      /\ r.set = o /\ r # Typed!Absent
  BY DEF Typed!Absent, Typed!TypedConstants
<1> HIDE DEF r
<1>3. /\ obj'[o] = r /\ userSet'[o] = {f} /\ DOMAIN given'[o] = {f} /\ given'[o][f] = v
      /\ \A p \in Objs \ {o} : obj'[p] = obj[p] /\ userSet'[p] = userSet[p] /\ given'[p] = given[p]
      /\ DOMAIN obj' = Objs /\ DOMAIN given' = Objs
  BY <1>1 DEF Typed!IInv, Typed!TypeOK, Typed!Shape
<1>4. Typed!TypeOK'
  BY <1>1, <1>2, <1>3 DEF Typed!IInv, Typed!TypeOK
<1>5. Typed!Shape'
  BY <1>1, <1>2, <1>3 DEF Typed!IInv, Typed!Shape
<1>6. Typed!OwnSets'
  BY <1>1, <1>2, <1>3 DEF Typed!IInv, Typed!OwnSets
<1>7. Typed!Values'
  BY <1>1, <1>2, <1>3 DEF Typed!IInv, Typed!Values
<1> QED
  BY <1>4, <1>5, <1>6, <1>7 DEF Typed!IInv

\* An object is read: nothing was given, and its values are those answered.
LEMMA TypedReadTyped ==
  ASSUME Typed!TypedConstants, Typed!IInv, NEW o \in Objs, NEW fields \in SUBSET Typed!Fields,
         NEW plain \in SUBSET Typed!Fields, Typed!ReadTyped(o, fields, plain)
  PROVE  Typed!IInv'
<1> DEFINE d == [f \in fields |-> Typed!FromWire(f, stored[f])]
           r == [id |-> TRUE, plain |-> plain, data |-> d, set |-> o]
<1>1. /\ obj' = [obj EXCEPT ![o] = r] /\ userSet' = [userSet EXCEPT ![o] = {}]
      /\ readAs' = [readAs EXCEPT ![o] = [f \in fields |-> stored[f]]]
      /\ UNCHANGED <<stored, given, copied, wire>> /\ obj[o] = Typed!Absent
  BY DEF Typed!ReadTyped, Typed!Seeded, Typed!Restrict
<1>2. /\ DOMAIN r = {"id", "plain", "data", "set"} /\ DOMAIN r.data = fields
      /\ r.set = o /\ r # Typed!Absent
      /\ \A f \in fields : r.data[f] = Typed!FromWire(f, stored[f])
  BY DEF Typed!Absent, Typed!TypedConstants
<1> HIDE DEF d, r
<1>3. /\ obj'[o] = r /\ userSet'[o] = {} /\ DOMAIN readAs'[o] = fields
      /\ \A f \in fields : readAs'[o][f] = stored[f]
      /\ \A p \in Objs \ {o} :
         obj'[p] = obj[p] /\ userSet'[p] = userSet[p] /\ readAs'[p] = readAs[p]
      /\ DOMAIN obj' = Objs /\ DOMAIN readAs' = Objs
  BY <1>1 DEF Typed!IInv, Typed!TypeOK, Typed!Shape
<1>v. \A f \in fields :
        stored[f] \in WireValues[f] /\ Typed!FromWire(f, stored[f]) \in Typed!Given(f)
  BY DEF Typed!IInv, Typed!TypeOK, Typed!Given
<1>4. Typed!TypeOK'
  BY <1>1, <1>2, <1>3, <1>v DEF Typed!IInv, Typed!TypeOK
<1>5. Typed!Shape'
  BY <1>1, <1>2, <1>3, <1>v DEF Typed!IInv, Typed!Shape
<1>6. Typed!OwnSets'
  BY <1>1, <1>2, <1>3 DEF Typed!IInv, Typed!OwnSets
<1>7. Typed!Values'
  <2> SUFFICES ASSUME NEW p \in Objs \ copied, obj'[p] # Typed!Absent
               PROVE  /\ DOMAIN given[p] \subseteq DOMAIN obj'[p].data
                      /\ \A f \in DOMAIN obj'[p].data :
                           IF f \in DOMAIN given[p]
                           THEN obj'[p].data[f] = given[p][f]
                           ELSE /\ f \in DOMAIN readAs'[p]
                                /\ obj'[p].data[f] = Typed!FromWire(f, readAs'[p][f])
    BY <1>1 DEF Typed!Values
  <2>1. CASE p = o
    BY <1>1, <1>2, <1>3, <2>1 DEF Typed!IInv, Typed!OwnSets
  <2>2. CASE p # o
    BY <1>3, <2>2 DEF Typed!IInv, Typed!Values
  <2> QED
    BY <2>1, <2>2
<1> QED
  BY <1>4, <1>5, <1>6, <1>7 DEF Typed!IInv

\* An assignment is noted in the user set of the object, which no object but its
\* copies shares.
LEMMA TypedAssign ==
  ASSUME Typed!TypedConstants, Typed!IInv, NEW o \in Objs, NEW f \in Typed!Fields,
         NEW v \in Typed!Given(f),
         Typed!Assign(o, f, v)
  PROVE  Typed!IInv'
<1>1. /\ obj' = [obj EXCEPT ![o].data = Typed!SetField(@, f, v)]
      /\ userSet' = [userSet EXCEPT ![obj[o].set] = @ \cup {f}]
      /\ given' = [given EXCEPT ![o] = Typed!SetField(@, f, v)]
      /\ UNCHANGED <<stored, readAs, copied, wire>> /\ obj[o] # Typed!Absent
  BY DEF Typed!Assign, Typed!Noted
<1>2. obj[o].set \in Objs /\ (obj[o].set = o \/ {o, obj[o].set} \subseteq copied)
  BY <1>1 DEF Typed!IInv, Typed!TypeOK, Typed!OwnSets
<1>3. /\ DOMAIN obj' = Objs /\ DOMAIN given' = Objs
      /\ DOMAIN obj'[o] = {"id", "plain", "data", "set"} /\ obj'[o].set = obj[o].set
      /\ obj'[o].data = Typed!SetField(obj[o].data, f, v)
      /\ given'[o] = Typed!SetField(given[o], f, v)
      /\ userSet' \in [Objs -> SUBSET Typed!Fields]
      /\ userSet'[obj[o].set] = userSet[obj[o].set] \cup {f}
      /\ \A p \in Objs \ {obj[o].set} : userSet'[p] = userSet[p]
      /\ \A p \in Objs \ {o} : obj'[p] = obj[p] /\ given'[p] = given[p]
  BY <1>1, <1>2 DEF Typed!IInv, Typed!TypeOK, Typed!Shape
<1>4. /\ DOMAIN obj'[o].data = DOMAIN obj[o].data \cup {f}
      /\ DOMAIN given'[o] = DOMAIN given[o] \cup {f}
      /\ \A g \in DOMAIN obj'[o].data : obj'[o].data[g] = IF g = f THEN v ELSE obj[o].data[g]
      /\ \A g \in DOMAIN given'[o] : given'[o][g] = IF g = f THEN v ELSE given[o][g]
  BY <1>3 DEF Typed!SetField
<1>5. obj'[o] # Typed!Absent
  <2>1. Typed!Absent.set = Unset /\ Unset \notin Objs
    BY DEF Typed!Absent, Typed!TypedConstants
  <2> QED
    BY <1>2, <1>3, <2>1
<1>6. Typed!TypeOK'
  <2> SUFFICES ASSUME NEW p \in Objs, obj'[p] # Typed!Absent
               PROVE  obj'[p].set \in Objs
                      /\ \A g \in DOMAIN obj'[p].data : obj'[p].data[g] \in Typed!Given(g)
    BY <1>1, <1>3 DEF Typed!IInv, Typed!TypeOK
  <2>1. CASE p = o
    BY <1>1, <1>2, <1>3, <1>4, <2>1 DEF Typed!IInv, Typed!TypeOK
  <2>2. CASE p # o
    BY <1>3, <2>2 DEF Typed!IInv, Typed!TypeOK
  <2> QED
    BY <2>1, <2>2
<1>7. Typed!Shape'
  BY <1>1, <1>3, <1>4 DEF Typed!IInv, Typed!Shape
<1>8. Typed!OwnSets'
  <2>c. copied' = copied
    BY <1>1
  <2> SUFFICES ASSUME NEW p \in Objs
               PROVE  /\ obj'[p] = Typed!Absent =>
                           DOMAIN given'[p] = {} /\ userSet'[p] = {} /\ p \notin copied
                      /\ obj'[p] # Typed!Absent => obj'[p].set = p
                         \/ {p, obj'[p].set} \subseteq copied
                      /\ p \notin copied => userSet'[p] = DOMAIN given'[p]
    BY <2>c DEF Typed!OwnSets
  <2>1. CASE p = o
    <3>1. o \notin copied => userSet[o] = DOMAIN given[o] /\ obj[o].set = o
      BY <1>2 DEF Typed!IInv, Typed!OwnSets
    <3>2. o \notin copied => userSet'[o] = DOMAIN given'[o]
      BY <1>3, <1>4, <3>1
    <3> QED
      BY <1>2, <1>3, <1>5, <2>1, <3>2
  <2>2. CASE p # o
    BY <1>2, <1>3, <2>2 DEF Typed!IInv, Typed!OwnSets
  <2> QED
    BY <2>1, <2>2
<1>9. Typed!Values'
  <2> SUFFICES ASSUME NEW p \in Objs \ copied, obj'[p] # Typed!Absent
               PROVE  /\ DOMAIN given'[p] \subseteq DOMAIN obj'[p].data
                      /\ \A g \in DOMAIN obj'[p].data :
                           IF g \in DOMAIN given'[p]
                           THEN obj'[p].data[g] = given'[p][g]
                           ELSE /\ g \in DOMAIN readAs[p]
                                /\ obj'[p].data[g] = Typed!FromWire(g, readAs[p][g])
    BY <1>1 DEF Typed!Values
  <2>1. CASE p = o
    BY <1>1, <1>4, <2>1 DEF Typed!IInv, Typed!Values
  <2>2. CASE p # o
    BY <1>3, <2>2 DEF Typed!IInv, Typed!Values
  <2> QED
    BY <2>1, <2>2
<1> QED
  BY <1>6, <1>7, <1>8, <1>9 DEF Typed!IInv

\* A copy has the user set of the original; both count as copied from then on.
LEMMA TypedCopy ==
  ASSUME Typed!TypedConstants, Typed!IInv, NEW o \in Objs, NEW p \in Objs, Typed!Copy(o, p)
  PROVE  Typed!IInv'
<1>1. /\ obj' = [obj EXCEPT ![p] = obj[o]] /\ given' = [given EXCEPT ![p] = given[o]]
      /\ readAs' = [readAs EXCEPT ![p] = readAs[o]] /\ copied' = copied \cup {o, p}
      /\ UNCHANGED <<stored, userSet, wire>> /\ obj[o] # Typed!Absent /\ obj[p] = Typed!Absent
  BY DEF Typed!Copy
<1>2. /\ DOMAIN obj' = Objs /\ DOMAIN given' = Objs /\ DOMAIN readAs' = Objs
      /\ obj'[p] = obj[o] /\ given'[p] = given[o] /\ readAs'[p] = readAs[o]
      /\ \A q \in Objs \ {p} : obj'[q] = obj[q] /\ given'[q] = given[q] /\ readAs'[q] = readAs[q]
  BY <1>1 DEF Typed!IInv, Typed!Shape
<1>3. Typed!TypeOK'
  BY <1>1, <1>2 DEF Typed!IInv, Typed!TypeOK
<1>4. Typed!Shape'
  BY <1>1, <1>2 DEF Typed!IInv, Typed!Shape
<1>5. Typed!OwnSets'
  BY <1>1, <1>2 DEF Typed!IInv, Typed!OwnSets
<1>6. Typed!Values'
  BY <1>1, <1>2 DEF Typed!IInv, Typed!Values
<1> QED
  BY <1>3, <1>4, <1>5, <1>6 DEF Typed!IInv

\* A write takes values the object has; what it sends is of the fields' types.
LEMMA TypedWrite ==
  ASSUME Typed!TypedConstants, Typed!IInv, NEW o \in Objs, NEW method \in {"write", "create"},
         Typed!Write(o, method)
  PROVE  Typed!IInv'
<1>1. /\ UNCHANGED <<stored, obj, userSet, given, readAs, copied>> /\ obj[o] # Typed!Absent
      /\ wire' = [wire EXCEPT ![o] =
           IF Typed!UserX2many(o) # {}
           THEN [state |-> "refused", payload |-> Typed!Nothing]
           ELSE [state |-> method,
                 payload |-> [f \in Typed!Scalars(o) |-> Typed!ToWire(obj[o].data[f])]]]
  BY DEF Typed!Write
<1>2. \A f \in Typed!Scalars(o) : f \in Typed!Fields /\ obj[o].data[f] \in Typed!Given(f)
  BY <1>1 DEF Typed!IInv, Typed!TypeOK, Typed!Shape, Typed!Scalars
<1>3. wire'[o].state = "write" => \A f \in DOMAIN wire'[o].payload :
        f \in Typed!Fields /\ \E v \in Typed!Given(f) : wire'[o].payload[f] = Typed!ToWire(v)
  BY <1>1, <1>2 DEF Typed!IInv, Typed!Shape, Typed!Nothing
<1>4. DOMAIN wire' = Objs /\ \A p \in Objs \ {o} : wire'[p] = wire[p]
  BY <1>1 DEF Typed!IInv, Typed!Shape
<1>5. Typed!TypeOK' /\ Typed!OwnSets' /\ Typed!Values'
  BY <1>1 DEF Typed!IInv, Typed!TypeOK, Typed!OwnSets, Typed!Values
<1>6. Typed!Shape'
  BY <1>1, <1>3, <1>4 DEF Typed!IInv, Typed!Shape
<1> QED
  BY <1>5, <1>6 DEF Typed!IInv

\* A write that is applied stores values Odoo answers.
LEMMA TypedEnded ==
  ASSUME Typed!TypedConstants, Typed!IInv, NEW o \in Objs, Typed!Ended(o)
  PROVE  Typed!IInv'
<1>1. /\ wire' = [wire EXCEPT ![o] = Typed!Idle]
      /\ UNCHANGED <<obj, userSet, given, readAs, copied>>
      /\ \/ UNCHANGED stored
         \/ /\ wire[o].state = "write"
            /\ stored' = [f \in Typed!Fields |->
                 IF f \in DOMAIN wire[o].payload THEN Typed!Stored(f, wire[o].payload[f])
                 ELSE stored[f]]
  BY DEF Typed!Ended
<1>2. DOMAIN stored' = Typed!Fields /\ \A f \in Typed!Fields : stored'[f] \in WireValues[f]
  <2>1. CASE UNCHANGED stored
    BY <2>1 DEF Typed!IInv, Typed!TypeOK, Typed!Shape
  <2>2. CASE wire[o].state = "write"
             /\ stored' = [f \in Typed!Fields |->
                 IF f \in DOMAIN wire[o].payload THEN Typed!Stored(f, wire[o].payload[f])
                 ELSE stored[f]]
    <3>1. \A f \in DOMAIN wire[o].payload :
            f \in Typed!Fields /\ \E v \in Typed!Given(f) : wire[o].payload[f] = Typed!ToWire(v)
      BY <2>2 DEF Typed!IInv, Typed!Shape
    <3>2. \A f \in DOMAIN wire[o].payload : Typed!Stored(f, wire[o].payload[f]) \in WireValues[f]
      BY <3>1, StoredValue DEF Typed!IInv
    <3>3. \A f \in Typed!Fields : stored[f] \in WireValues[f]
      BY DEF Typed!IInv, Typed!TypeOK
    <3> QED
      BY <2>2, <3>2, <3>3
  <2> QED
    BY <1>1, <2>1, <2>2
<1>3. /\ DOMAIN wire' = Objs /\ wire'[o].state # "write"
      /\ \A p \in Objs \ {o} : wire'[p] = wire[p]
  BY <1>1 DEF Typed!IInv, Typed!Shape, Typed!Idle
<1>4. Typed!TypeOK'
  BY <1>1, <1>2 DEF Typed!IInv, Typed!TypeOK
<1>5. Typed!Shape'
  BY <1>1, <1>2, <1>3 DEF Typed!IInv, Typed!Shape
<1>6. Typed!OwnSets' /\ Typed!Values'
  BY <1>1 DEF Typed!IInv, Typed!OwnSets, Typed!Values
<1> QED
  BY <1>4, <1>5, <1>6 DEF Typed!IInv

\* Every step keeps the invariant of typed records.
LEMMA TypedStep ==
  ASSUME Typed!TypedConstants, Typed!IInv, [Typed!Next]_(Typed!vars)
  PROVE  Typed!IInv'
<1>1. ASSUME NEW f \in Typed!Fields, NEW v \in WireValues[f], Typed!WriteElsewhere(f, v)
      PROVE  Typed!IInv'
  <2>1. stored' = [stored EXCEPT ![f] = v]
        /\ UNCHANGED <<obj, userSet, given, readAs, copied, wire>>
    BY <1>1 DEF Typed!WriteElsewhere
  <2>2. Typed!TypeOK' /\ Typed!Shape'
    BY <2>1 DEF Typed!IInv, Typed!TypeOK, Typed!Shape
  <2>3. Typed!OwnSets' /\ Typed!Values'
    BY <2>1 DEF Typed!IInv, Typed!OwnSets, Typed!Values
  <2> QED
    BY <2>2, <2>3 DEF Typed!IInv
<1>2. ASSUME NEW o \in Objs, Typed!ReadTyped(o, Typed!Fields, {})
      PROVE  Typed!IInv'
  BY <1>2, TypedReadTyped
<1>3. ASSUME NEW o \in Objs, NEW fields \in Projections, Typed!ReadTyped(o, fields, fields)
      PROVE  Typed!IInv'
  <2>1. fields \in SUBSET Typed!Fields
    BY DEF Typed!TypedConstants
  <2> QED
    BY <1>3, <2>1, TypedReadTyped
<1>same. CASE UNCHANGED Typed!vars
  <2>1. Typed!TypeOK'
    BY <1>same DEF Typed!vars, Typed!IInv, Typed!TypeOK
  <2>2. Typed!Shape'
    BY <1>same DEF Typed!vars, Typed!IInv, Typed!Shape
  <2>3. Typed!OwnSets'
    BY <1>same DEF Typed!vars, Typed!IInv, Typed!OwnSets
  <2>4. Typed!Values'
    BY <1>same DEF Typed!vars, Typed!IInv, Typed!Values
  <2> QED
    BY <2>1, <2>2, <2>3, <2>4 DEF Typed!IInv
<1> QED
  BY <1>same, <1>1, <1>2, <1>3, TypedBuild, TypedAssign, TypedCopy, TypedWrite,
     TypedEnded DEF Typed!Next

\* The user set of an object that is no copy names what the caller gave, and its
\* other values are those it was read with, so that a write is as the caller meant.
LEMMA TypedWriteMeant ==
  ASSUME Typed!TypedConstants, Typed!IInv, NEW o \in Objs \ copied,
         NEW method \in {"write", "create"},
         Typed!Write(o, method)
  PROVE  Typed!AsMeant(o)
<1> SUFFICES ASSUME obj[o].plain = {}
             PROVE  /\ (wire'[o].state = "refused")
                       <=> \E f \in DOMAIN given[o] : Kind[f] = "x2many"
                    /\ wire'[o].state # "refused" =>
                         LET payload == wire'[o].payload
                         IN /\ \A f \in DOMAIN given[o] : Kind[f] \in {"text", "datetime"} =>
                                 f \in DOMAIN payload /\ Typed!FromWire(f, payload[f]) = given[o][f]
                            /\ \A f \in DOMAIN payload \ DOMAIN given[o] :
                                 f \in DOMAIN readAs[o]
                                 /\ Typed!FromWire(f, payload[f]) = Typed!FromWire(f, readAs[o][f])
  BY DEF Typed!AsMeant
<1>1. /\ obj[o] # Typed!Absent
      /\ wire' = [wire EXCEPT ![o] =
           IF Typed!UserX2many(o) # {}
           THEN [state |-> "refused", payload |-> Typed!Nothing]
           ELSE [state |-> method,
                 payload |-> [f \in Typed!Scalars(o) |-> Typed!ToWire(obj[o].data[f])]]]
  BY DEF Typed!Write
<1>2. /\ obj[o].set = o /\ userSet[o] = DOMAIN given[o]
      /\ DOMAIN given[o] \subseteq DOMAIN obj[o].data /\ DOMAIN obj[o].data \subseteq Typed!Fields
      /\ \A f \in DOMAIN obj[o].data :
           /\ obj[o].data[f] \in Typed!Given(f)
           /\ IF f \in DOMAIN given[o]
              THEN obj[o].data[f] = given[o][f]
              ELSE f \in DOMAIN readAs[o] /\ obj[o].data[f] = Typed!FromWire(f, readAs[o][f])
  BY <1>1 DEF Typed!IInv, Typed!TypeOK, Typed!Shape, Typed!OwnSets, Typed!Values
<1>3. /\ Typed!UserX2many(o) = {f \in DOMAIN given[o] : Kind[f] = "x2many"}
      /\ Typed!Scalars(o) = {f \in DOMAIN obj[o].data : Kind[f] \in {"text", "datetime"}}
  BY <1>2 DEF Typed!UserX2many, Typed!Scalars, Typed!KindIn
<1>4. CASE Typed!UserX2many(o) # {}
  BY <1>1, <1>3, <1>4 DEF Typed!IInv, Typed!Shape
<1>5. CASE Typed!UserX2many(o) = {}
  <2>1. /\ wire'[o].state = method /\ DOMAIN wire'[o].payload = Typed!Scalars(o)
        /\ \A f \in Typed!Scalars(o) : wire'[o].payload[f] = Typed!ToWire(obj[o].data[f])
    BY <1>1, <1>5 DEF Typed!IInv, Typed!Shape
  <2>2. \A f \in Typed!Scalars(o) : Typed!FromWire(f, wire'[o].payload[f]) = obj[o].data[f]
    BY <1>2, <1>3, <2>1, RoundTrip
  <2> QED
    BY <1>2, <1>3, <1>5, <2>1, <2>2
<1> QED
  BY <1>4, <1>5

\* Only Write begins a write.
LEMMA TypedStepMeant ==
  ASSUME Typed!TypedConstants, Typed!IInv, [Typed!Next]_(Typed!vars)
  PROVE  Typed!AllAsMeant
<1> SUFFICES ASSUME NEW o \in Objs \ copied, wire[o] = Typed!Idle, wire'[o] # Typed!Idle
             PROVE  Typed!AsMeant(o)
  BY DEF Typed!AllAsMeant, Typed!AsMeant
<1>1. ASSUME NEW p \in Objs, NEW method \in {"write", "create"}, Typed!Write(p, method)
      PROVE  Typed!AsMeant(o)
  <2>1. p = o
    BY <1>1 DEF Typed!Write, Typed!IInv, Typed!Shape
  <2> QED
    BY <1>1, <2>1, TypedWriteMeant
<1>2. ASSUME NEW p \in Objs, Typed!Ended(p)
      PROVE  FALSE
  BY <1>2 DEF Typed!Ended, Typed!IInv, Typed!Shape
<1> QED
  BY <1>1, <1>2 DEF Typed!Next, Typed!vars, Typed!Build, Typed!Assign, Typed!ReadTyped, Typed!Copy,
     Typed!WriteElsewhere

-----------------------------------------------------------------------------
(***************************************************************************)
(* RefResolve.                                                             *)
(***************************************************************************)

\* Its variables.
existing == v1
refs == v2
refsPc == v3
reads == v4
fetched == v5
asked == v6
refsResult == v7
USE DEF existing, refs, refsPc, reads, fetched, asked, refsResult

\* Nothing has been read.
LEMMA RefsInit ==
  ASSUME Refs!RefConstants, Refs!Init
  PROVE  Refs!IInv
<1>1. refs \in Seq(Refs!Refs)
  BY DEF Refs!Init, Refs!BoundedSeq, Refs!SeqOf, Refs!RefConstants
<1> QED
  BY <1>1 DEF Refs!Init, Refs!IInv, Refs!TypeOK, Refs!Collected, Refs!RefsResolved

\* With no untyped target the references are to models, all of them to be read.
LEMMA RefsGroup ==
  ASSUME Refs!RefConstants, Refs!IInv, Refs!Group
  PROVE  Refs!IInv'
<1>1. /\ UNCHANGED <<existing, refs, fetched, asked, refsResult>>
      /\ DOMAIN fetched = {}
      /\ asked = <<>>
  BY DEF Refs!Group, Refs!IInv, Refs!Collected
<1>2. CASE \E i \in DOMAIN refs : refs[i][1] = Untyped
  BY <1>1, <1>2 DEF Refs!Group, Refs!IInv, Refs!TypeOK, Refs!Collected, Refs!RefsResolved
<1>3. CASE ~ \E i \in DOMAIN refs : refs[i][1] = Untyped
  <2>1. refsPc' = "reading" /\ reads' = Refs!Targets
    BY <1>3 DEF Refs!Group
  <2>2. Refs!Targets \subseteq Classes
    BY <1>3 DEF Refs!Targets, Refs!IInv, Refs!Collected, Refs!Refs
  <2>3. \A i \in DOMAIN refs : refs[i][1] \in Refs!Targets
    BY DEF Refs!Targets
  <2> QED
    BY <1>1, <2>1, <2>2, <2>3 DEF Refs!IInv, Refs!TypeOK, Refs!Collected, Refs!RefsResolved
<1> QED
  BY <1>2, <1>3

\* What Odoo answers is of this model, and everything asked for that exists; so
\* nothing is left out of a read.
LEMMA RefsReadGroup ==
  ASSUME Refs!RefConstants, Refs!IInv, Refs!ReadGroup
  PROVE  Refs!IInv'
<1>1. PICK c \in reads :
       /\ reads' = reads \ {c}
       /\ asked' = Append(asked, c)
       /\ fetched' = [k \in DOMAIN fetched \cup {Refs!Key(r) : r \in Refs!Answer(c)} |->
            IF \E r \in Refs!Answer(c) : Refs!Key(r) = k
            THEN CHOOSE r \in Refs!Answer(c) : Refs!Key(r) = k
            ELSE fetched[k]]
  BY DEF Refs!ReadGroup
<1>2. refsPc = "reading" /\ UNCHANGED <<existing, refs, refsPc, refsResult>> /\ c \in Classes
  BY DEF Refs!ReadGroup, Refs!IInv, Refs!Collected
<1>3. DOMAIN fetched' = DOMAIN fetched \cup Refs!Answer(c)
        /\ \A k \in DOMAIN fetched' : fetched'[k] = k
  <2>1. {Refs!Key(r) : r \in Refs!Answer(c)} = Refs!Answer(c)
    BY DEF Refs!Key
  <2>2. \A k \in DOMAIN fetched : fetched[k] = k
    BY <1>2 DEF Refs!IInv, Refs!Collected
  <2> QED
    BY <1>1, <2>1, <2>2 DEF Refs!Key
<1>4. \A i \in DOMAIN refs : refs[i] \in existing /\ refs[i][1] = c => refs[i] \in Refs!Answer(c)
  <2> SUFFICES ASSUME NEW i \in DOMAIN refs, refs[i] \in existing, refs[i][1] = c
               PROVE  refs[i] \in Refs!Answer(c)
    OBVIOUS
  <2>1. refs[i] \in Refs!Refs
    BY DEF Refs!IInv, Refs!Collected
  <2>2. refs[i] = <<refs[i][1], refs[i][2]>>
    BY <2>1 DEF Refs!Refs
  <2>3. refs[i][2] \in Refs!IdsOf(c)
    BY DEF Refs!IdsOf
  <2> QED
    BY <2>2, <2>3 DEF Refs!Answer
<1>5. asked \in Seq(Classes) /\ \A i \in DOMAIN asked : asked[i] # c
  BY DEF Refs!IInv, Refs!TypeOK, Refs!Collected
<1>6. /\ asked' \in Seq(Classes) /\ DOMAIN asked' = 1..(Len(asked) + 1)
      /\ \A i \in DOMAIN asked : asked'[i] = asked[i]
      /\ asked'[Len(asked) + 1] = c /\ DOMAIN asked = 1..Len(asked) /\ Len(asked) \in Nat
  BY <1>1, <1>2, <1>5
<1>7. Refs!TypeOK'
  BY <1>2, <1>6 DEF Refs!IInv, Refs!TypeOK
<1>8. Refs!Collected'
  <2>1. \A d \in reads' : \A i \in DOMAIN asked' : asked'[i] # d
    BY <1>1, <1>6 DEF Refs!IInv, Refs!Collected
  <2>2. \A i \in DOMAIN refs :
          refs[i] \in existing => refs[i][1] \in reads' \/ refs[i] \in DOMAIN fetched'
    BY <1>1, <1>2, <1>3, <1>4 DEF Refs!IInv, Refs!Collected
  <2> QED
    BY <1>1, <1>2, <1>3, <2>1, <2>2 DEF Refs!IInv, Refs!Collected
<1>9. Refs!RefsResolved'
  <2>1. \A i, j \in DOMAIN asked' : asked'[i] = asked'[j] => i = j
    BY <1>5, <1>6 DEF Refs!IInv, Refs!RefsResolved
  <2> QED
    BY <1>2, <2>1 DEF Refs!RefsResolved
<1> QED
  BY <1>7, <1>8, <1>9 DEF Refs!IInv

\* With every model read, a reference to what still exists has its record.
LEMMA RefsStitch ==
  ASSUME Refs!RefConstants, Refs!IInv, Refs!Stitch
  PROVE  Refs!IInv'
<1>1. /\ UNCHANGED <<existing, refs, reads, fetched, asked>> /\ refsPc = "reading" /\ reads = {}
      /\ \A k \in DOMAIN fetched : fetched[k] = k
      /\ \A i \in DOMAIN refs : refs[i] \in existing => refs[i] \in DOMAIN fetched
  BY DEF Refs!Stitch, Refs!IInv, Refs!Collected
<1>2. CASE \E i \in DOMAIN refs : refs[i] \notin DOMAIN fetched
  <2>1. refsPc' = "missing" /\ UNCHANGED refsResult
    BY <1>2 DEF Refs!Stitch, Refs!Key
  <2> QED
    BY <1>1, <1>2, <2>1 DEF Refs!IInv, Refs!TypeOK, Refs!Collected, Refs!RefsResolved
<1>3. CASE ~ \E i \in DOMAIN refs : refs[i] \notin DOMAIN fetched
  <2>1. refsPc' = "done" /\ refsResult' = [i \in DOMAIN refs |-> fetched[refs[i]]]
    BY <1>3 DEF Refs!Stitch, Refs!Key
  <2>2. refsResult' = refs
    <3>1. refsResult' = [i \in DOMAIN refs |-> refs[i]]
      BY <1>1, <1>3, <2>1
    <3>2. refs = [i \in DOMAIN refs |-> refs[i]]
      BY DEF Refs!IInv, Refs!Collected
    <3> QED
      BY <3>1, <3>2
  <2> QED
    BY <1>1, <2>1, <2>2 DEF Refs!IInv, Refs!TypeOK, Refs!Collected, Refs!RefsResolved
<1> QED
  BY <1>2, <1>3

\* Every step keeps the invariant of a read of references.
LEMMA RefsStep ==
  ASSUME Refs!RefConstants, Refs!IInv, [Refs!Next]_(Refs!vars)
  PROVE  Refs!IInv'
<1>1. ASSUME Refs!ReadFails PROVE Refs!IInv'
  BY <1>1 DEF Refs!IInv, Refs!TypeOK, Refs!Collected, Refs!RefsResolved, Refs!ReadFails
<1>2. ASSUME NEW r \in existing, Refs!Delete(r) PROVE Refs!IInv'
  BY <1>2 DEF Refs!IInv, Refs!TypeOK, Refs!Collected, Refs!RefsResolved, Refs!Delete
<1>same. CASE UNCHANGED Refs!vars
  <2>1. Refs!TypeOK'
    BY <1>same DEF Refs!vars, Refs!IInv, Refs!TypeOK
  <2>2. Refs!Collected'
    BY <1>same DEF Refs!vars, Refs!IInv, Refs!Collected
  <2>3. Refs!RefsResolved'
    BY <1>same DEF Refs!vars, Refs!IInv, Refs!RefsResolved
  <2> QED
    BY <2>1, <2>2, <2>3 DEF Refs!IInv
<1> QED
  BY <1>same, <1>1, <1>2, RefsGroup, RefsReadGroup, RefsStitch DEF Refs!Next

-----------------------------------------------------------------------------
(***************************************************************************)
(* TimeTracking.                                                           *)
(***************************************************************************)

\* Its variables.
clock == v1
attendances == v2
sheets == v3
timesPc == v4
request == v5
overlapped == v6
USE DEF clock, attendances, sheets, timesPc, request, overlapped

\* Elements of a sequence.
LEMMA ElementOf ==
  ASSUME NEW S, NEW s \in Seq(S), NEW i \in DOMAIN s
  PROVE  s[i] \in S
OBVIOUS

\* Nobody has clocked in.
LEMMA TimesInit ==
  ASSUME Times!TimeConstants, Times!Init
  PROVE  Times!IInv
<1>1. attendances = <<>> /\ sheets = <<>> /\ DOMAIN attendances = {} /\ DOMAIN sheets = {}
  BY DEF Times!Init
<1>t. Times!TypeOK
  <2>0. clock = 0 /\ overlapped = FALSE
    BY DEF Times!Init
  <2>1. clock \in 0..MaxTime
    BY <2>0 DEF Times!TimeConstants
  <2>o. overlapped \in BOOLEAN
    BY <2>0
  <2>2. \A t \in TimeTasks : request[t].kind = "none"
    BY DEF Times!Init, Times!NoRequest
  <2> QED
    BY <1>1, <2>1, <2>o, <2>2 DEF Times!TypeOK
<1>s. Times!Shape
  <2>1. attendances \in Seq([in : 0..MaxTime, out : Nat \cup {Nil}])
        /\ sheets \in Seq([created : Int, hours : Nat, timer : BOOLEAN])
    BY <1>1
  <2>2. /\ timesPc \in [TimeTasks -> [op : {"none", "asked", "clock_in", "clock_out",
                                            "start_timer", "log_time",
                            "stop_timer"}, id : Nat]]
        /\ request \in [TimeTasks -> [kind : {"none", "check_in", "check_out", "sheet", "hours"},
                            id : Nat, value : Nat]]
    BY DEF Times!Init, Times!Idle, Times!NoRequest
  <2> QED
    BY <1>1, <2>1, <2>2 DEF Times!Shape
<1>2. Times!Requests /\ Times!InTurn /\ Times!OneOpen /\ Times!TimersRunUntilStopped
  BY DEF Times!TimeConstants, Times!Init, Times!Requests, Times!InTurn, Times!Busy, Times!OneOpen,
     Times!TimersRunUntilStopped,
     Times!RunningTimers, Times!Idle, Times!NoRequest
<1> QED
  BY <1>t, <1>s, <1>2 DEF Times!IInv

\* The operations, what a task may be at, and the requests it may send.
Operations == {"none", "asked", "clock_in", "clock_out", "start_timer", "log_time", "stop_timer"}
Processes == [op : Operations, id : Nat]
AllRequests == [kind : {"none", "check_in", "check_out", "sheet", "hours"}, id : Nat, value : Nat]

\* max(elapsed, 0.01) is positive, whatever the clocks say.
LEMMA ElapsedPositive ==
  ASSUME NEW n \in Int
  PROVE  Times!Elapsed(n) \in Nat /\ Times!Elapsed(n) > 0
BY DEF Times!Elapsed

\* A step of a task that leaves Odoo's records alone: it goes on, or asks.
LEMMA TimesTask ==
  ASSUME Times!TimeConstants, Times!IInv, NEW t \in TimeTasks, NEW p \in Processes,
         NEW r \in AllRequests,
         timesPc' = [timesPc EXCEPT ![t] = p], request' = [request EXCEPT ![t] = r],
         UNCHANGED <<clock, attendances, sheets>>, overlapped' \in BOOLEAN,
         overlapped => overlapped',
         ~overlapped' => Times!Busy(t) \/ \A u \in TimeTasks : ~Times!Busy(u),
         p.op \notin {"none", "asked"} => r = Times!NoRequest,
         p.op = "stop_timer" => p.id \in DOMAIN sheets,
         r.kind = "none" => r = Times!NoRequest,
         r.kind = "check_in" => r.value \in 0..clock,
         r.kind = "check_out" => r.id \in DOMAIN attendances,
         r.kind = "sheet" => r.value \in {0, 1},
         r.kind = "hours" => r.id \in DOMAIN sheets /\ r.value > 0,
         ~overlapped' /\ r.kind = "check_in" => \A i \in DOMAIN attendances :
           attendances[i].in <= r.value /\ (~Times!ClockedIn(i) \/ ~Times!DistinctTimes)
  PROVE  Times!IInv'
<1>1. /\ timesPc' \in [TimeTasks -> Processes] /\ timesPc'[t] = p
         /\ \A u \in TimeTasks \ {t} : timesPc'[u] = timesPc[u]
      /\ request' \in [TimeTasks -> AllRequests] /\ request'[t] = r
      /\ \A u \in TimeTasks \ {t} : request'[u] = request[u]
  BY DEF Times!IInv, Times!Shape, Processes, Operations, AllRequests
<1>2. Times!TypeOK'
  BY <1>1 DEF Times!IInv, Times!TypeOK, AllRequests
<1>3. Times!Shape'
  BY <1>1 DEF Times!IInv, Times!Shape, Processes, Operations, AllRequests
<1>4. Times!Requests'
  BY <1>1 DEF Times!IInv, Times!Requests
<1>5. \A u \in TimeTasks \ {t} : Times!Busy(u)' = Times!Busy(u)
  BY <1>1 DEF Times!Busy, Times!Idle, Times!NoRequest
<1>6. Times!DistinctTimes' = Times!DistinctTimes /\ \A i : Times!ClockedIn(i)' = Times!ClockedIn(i)
  BY DEF Times!DistinctTimes, Times!ClockedIn
<1>7. Times!InTurn'
  <2> SUFFICES ASSUME ~overlapped'
               PROVE  /\ \A u, v \in TimeTasks : Times!Busy(u)' /\ Times!Busy(v)' => u = v
                      /\ \A i, j \in DOMAIN attendances :
                         i <= j => attendances[i].in <= attendances[j].in
                      /\ \A u \in TimeTasks, i \in DOMAIN attendances :
                           request'[u].kind = "check_in" =>
                             /\ attendances[i].in <= request'[u].value
                             /\ ~Times!ClockedIn(i) \/ ~Times!DistinctTimes
    BY <1>6 DEF Times!InTurn
  <2>1. ~overlapped
    OBVIOUS
  <2>2. \A u \in TimeTasks \ {t} : ~Times!Busy(u)
    BY <2>1 DEF Times!IInv, Times!InTurn
  <2>3. \A u, v \in TimeTasks : Times!Busy(u)' /\ Times!Busy(v)' => u = v
    BY <1>5, <2>2
  <2>4. \A u \in TimeTasks, i \in DOMAIN attendances :
          request'[u].kind = "check_in" =>
            /\ attendances[i].in <= request'[u].value
            /\ ~Times!ClockedIn(i) \/ ~Times!DistinctTimes
    <3> SUFFICES ASSUME NEW u \in TimeTasks, NEW i \in DOMAIN attendances,
                        request'[u].kind = "check_in"
                 PROVE  attendances[i].in <= request'[u].value
                        /\ (~Times!ClockedIn(i) \/ ~Times!DistinctTimes)
      OBVIOUS
    <3>1. CASE u = t
      BY <1>1, <3>1
    <3>2. CASE u # t
      BY <1>1, <2>1, <3>2 DEF Times!IInv, Times!InTurn
    <3> QED
      BY <3>1, <3>2
  <2> QED
    BY <2>1, <2>3, <2>4 DEF Times!IInv, Times!InTurn
<1>8. Times!OneOpen' /\ Times!TimersRunUntilStopped'
  BY <1>6 DEF Times!IInv, Times!OneOpen, Times!TimersRunUntilStopped, Times!RunningTimers
<1> QED
  BY <1>2, <1>3, <1>4, <1>7, <1>8 DEF Times!IInv

\* The request and the process of a task are such.
LEMMA TimesTaskTypes ==
  ASSUME Times!IInv, NEW t \in TimeTasks
  PROVE  /\ timesPc[t] \in Processes /\ request[t] \in AllRequests
         /\ timesPc = [timesPc EXCEPT ![t] = timesPc[t]]
         /\ request = [request EXCEPT ![t] = request[t]]
         /\ Times!Idle \in Processes /\ Times!NoRequest \in AllRequests /\ overlapped \in BOOLEAN
         /\ Times!Idle.op = "none" /\ Times!NoRequest.kind = "none"
BY DEF Times!IInv, Times!Shape, Times!TypeOK, Processes, Operations, AllRequests, Times!Idle,
   Times!NoRequest

\* A call that begins while another task is busy makes them overlap.
LEMMA TimesBegin ==
  ASSUME Times!TimeConstants, Times!IInv, NEW t \in TimeTasks, NEW id \in Nat,
         NEW op \in {"clock_in", "clock_out", "start_timer", "log_time", "stop_timer"},
         op = "stop_timer" => id \in DOMAIN sheets, Times!Begin(t, op, id)
  PROVE  Times!IInv'
<1> DEFINE p == [op |-> op, id |-> id]
<1>1. p \in Processes /\ p.op = op /\ p.id = id
  BY DEF Processes, Operations
<1>2. /\ timesPc' = [timesPc EXCEPT ![t] = p]
      /\ request' = request
      /\ UNCHANGED <<clock, attendances, sheets>>
      /\ request[t] = Times!NoRequest
      /\ overlapped' = (overlapped \/ \E u \in TimeTasks : Times!Busy(u))
  BY DEF Times!Begin, Times!Busy
<1> HIDE DEF p
<1> QED
  BY <1>1, <1>2, TimesTaskTypes, TimesTask

\* An attendance that is open is the latest, as long as operations take turns and
\* the times are distinct.
LEMMA LatestIsLast ==
  ASSUME Times!TimeConstants, Times!IInv, ~overlapped, Times!DistinctTimes, NEW i \in Times!Latest
  PROVE  i = Len(attendances)
<1>1. attendances \in Seq([in : 0..MaxTime, out : Nat \cup {Nil}]) /\ i \in DOMAIN attendances
  BY DEF Times!IInv, Times!Shape, Times!Latest
<1>2. Len(attendances) \in DOMAIN attendances /\ i <= Len(attendances)
  BY <1>1
<1>3. attendances[i].in <= attendances[Len(attendances)].in
  BY <1>1, <1>2 DEF Times!IInv, Times!InTurn
<1>4. attendances[i].in >= attendances[Len(attendances)].in
  BY <1>2 DEF Times!Latest
<1>5. attendances[i].in \in Int /\ attendances[Len(attendances)].in \in Int
  BY <1>1, <1>2 DEF Times!IInv, Times!TypeOK, Times!TimeConstants
<1> QED
  BY <1>1, <1>2, <1>3, <1>4, <1>5 DEF Times!DistinctTimes

\* A check-in is asked for when the latest attendance is closed, and so they all are.
LEMMA TimesClockIn ==
  ASSUME Times!TimeConstants, Times!IInv, NEW t \in TimeTasks, Times!ClockIn(t)
  PROVE  Times!IInv'
<1>1. /\ UNCHANGED <<clock, attendances, sheets, overlapped>> /\ Times!Busy(t)
      /\ request[t] = Times!NoRequest
  BY DEF Times!ClockIn, Times!Busy, Times!Idle
<1>2. CASE Times!Return(t) /\ UNCHANGED request
  BY <1>1, <1>2, TimesTaskTypes, TimesTask DEF Times!Return
<1>3. CASE /\ attendances = <<>> \/ \E i \in Times!Latest : ~Times!ClockedIn(i)
           /\ Times!Ask(t, "check_in", 0, clock)
           /\ timesPc' = [timesPc EXCEPT ![t].op = "asked"]
  <2> DEFINE p == [timesPc[t] EXCEPT !.op = "asked"]
             r == [kind |-> "check_in", id |-> 0, value |-> clock]
  <2>1. p \in Processes /\ p.op = "asked" /\ timesPc' = [timesPc EXCEPT ![t] = p]
    BY <1>3, TimesTaskTypes DEF Processes, Operations
  <2>2. /\ r \in AllRequests /\ r.kind = "check_in" /\ r.value = clock /\ clock \in 0..clock
        /\ request' = [request EXCEPT ![t] = r]
    BY <1>3 DEF Times!IInv, Times!TypeOK, AllRequests, Times!Ask, Times!TimeConstants
  <2>3. \A i \in DOMAIN attendances : attendances[i].in <= clock
    BY DEF Times!IInv, Times!Shape
  <2>4. ~overlapped /\ Times!DistinctTimes => \A i \in DOMAIN attendances : ~Times!ClockedIn(i)
    <3> SUFFICES ASSUME ~overlapped, Times!DistinctTimes, NEW i \in DOMAIN attendances,
                        Times!ClockedIn(i)
                 PROVE  FALSE
      OBVIOUS
    <3>1. i = Len(attendances)
      BY DEF Times!IInv, Times!OneOpen
    <3>2. PICK j \in Times!Latest : ~Times!ClockedIn(j)
      BY <1>3
    <3> QED
      BY <3>1, <3>2, LatestIsLast
  <2> HIDE DEF p, r
  <2> QED
    BY <1>1, <2>1, <2>2, <2>3, <2>4, TimesTaskTypes, TimesTask
<1> QED
  BY <1>2, <1>3 DEF Times!ClockIn

\* Clocking out asks to close the attendance that it read as the latest, or returns.
LEMMA TimesClockOut ==
  ASSUME Times!TimeConstants, Times!IInv, NEW t \in TimeTasks, Times!ClockOut(t)
  PROVE  Times!IInv'
<1>1. /\ UNCHANGED <<clock, attendances, sheets, overlapped>> /\ Times!Busy(t)
      /\ request[t] = Times!NoRequest
  BY DEF Times!ClockOut, Times!Busy, Times!Idle
<1>2. CASE Times!Return(t) /\ UNCHANGED request
  BY <1>1, <1>2, TimesTaskTypes, TimesTask DEF Times!Return
<1>3. ASSUME NEW i \in Times!Latest, Times!Ask(t, "check_out", i, clock),
             timesPc' = [timesPc EXCEPT ![t].op = "asked"]
      PROVE  Times!IInv'
  <2> DEFINE p == [timesPc[t] EXCEPT !.op = "asked"]
             r == [kind |-> "check_out", id |-> i, value |-> clock]
  <2>1. p \in Processes /\ p.op = "asked" /\ timesPc' = [timesPc EXCEPT ![t] = p]
    BY <1>3, TimesTaskTypes DEF Processes, Operations
  <2>2. i \in DOMAIN attendances /\ i \in Nat
    BY DEF Times!Latest, Times!IInv, Times!Shape
  <2>3. /\ r \in AllRequests /\ r.kind = "check_out" /\ r.id = i
        /\ request' = [request EXCEPT ![t] = r]
    BY <1>3, <2>2 DEF Times!IInv, Times!TypeOK, AllRequests, Times!Ask, Times!TimeConstants
  <2> HIDE DEF p, r
  <2> QED
    BY <1>1, <2>1, <2>2, <2>3, TimesTaskTypes, TimesTask
<1> QED
  BY <1>2, <1>3 DEF Times!ClockOut

\* What is asked for is a timesheet of no hours, or of some.
LEMMA TimesLogTime ==
  ASSUME Times!TimeConstants, Times!IInv, NEW t \in TimeTasks, Times!LogTime(t)
  PROVE  Times!IInv'
<1> DEFINE p == [timesPc[t] EXCEPT !.op = "asked"]
           v == IF timesPc[t].op = "start_timer" THEN 0 ELSE 1
           r == [kind |-> "sheet", id |-> 0, value |-> v]
<1>1. /\ UNCHANGED <<clock, attendances, sheets, overlapped>> /\ Times!Busy(t)
  BY DEF Times!LogTime, Times!Busy, Times!Idle
<1>2. p \in Processes /\ p.op = "asked" /\ timesPc' = [timesPc EXCEPT ![t] = p]
  BY TimesTaskTypes DEF Processes, Operations, Times!LogTime
<1>3. v \in {0, 1}
  OBVIOUS
<1>4. r.value = v /\ r.kind = "sheet" /\ request' = [request EXCEPT ![t] = r]
  BY DEF Times!Ask, Times!LogTime
<1>5. r \in AllRequests
  BY <1>3 DEF AllRequests
<1> HIDE DEF p, r, v
<1> QED
  BY <1>1, <1>2, <1>3, <1>4, <1>5, TimesTaskTypes, TimesTask

\* The hours of a stopped timer are positive.
LEMMA TimesStopTimer ==
  ASSUME Times!TimeConstants, Times!IInv, NEW t \in TimeTasks, Times!StopTimer(t)
  PROVE  Times!IInv'
<1> DEFINE p == [timesPc[t] EXCEPT !.op = "asked"]
           v == Times!Elapsed(clock - sheets[timesPc[t].id].created)
           r == [kind |-> "hours", id |-> timesPc[t].id, value |-> v]
<1>1. /\ UNCHANGED <<clock, attendances, sheets, overlapped>> /\ Times!Busy(t)
  BY DEF Times!StopTimer, Times!Busy, Times!Idle
<1>2. p \in Processes /\ p.op = "asked" /\ timesPc' = [timesPc EXCEPT ![t] = p]
  BY TimesTaskTypes DEF Processes, Operations, Times!StopTimer
<1>3. /\ timesPc[t].id \in DOMAIN sheets
      /\ timesPc[t].id \in Nat
      /\ sheets[timesPc[t].id].created \in Int
  <2>1. timesPc[t].id \in DOMAIN sheets /\ timesPc[t].id \in Nat
    BY TimesTaskTypes DEF Times!StopTimer, Times!IInv, Times!Requests, Processes
  <2>2. sheets \in Seq([created : Int, hours : Nat, timer : BOOLEAN])
    BY DEF Times!IInv, Times!Shape
  <2>3. sheets[timesPc[t].id] \in [created : Int, hours : Nat, timer : BOOLEAN]
    BY <2>1, <2>2, ElementOf
  <2> QED
    BY <2>1, <2>3
<1>4. v \in Nat /\ v > 0
  BY <1>3, ElapsedPositive DEF Times!IInv, Times!TypeOK, Times!TimeConstants
<1>5. /\ r.value = v
      /\ r.kind = "hours"
      /\ r.id = timesPc[t].id
      /\ request' = [request EXCEPT ![t] = r]
  BY DEF Times!Ask, Times!StopTimer
<1> HIDE DEF v
<1>6. r \in AllRequests
  BY <1>3, <1>4 DEF AllRequests
<1> HIDE DEF p, r
<1> QED
  BY <1>1, <1>2, <1>3, <1>4, <1>5, <1>6, TimesTaskTypes, TimesTask

\* An operation ends; its request may still be carried out.
LEMMA TimesEnds ==
  ASSUME Times!TimeConstants, Times!IInv, NEW t \in TimeTasks, Times!Ends(t)
  PROVE  Times!IInv'
<1>1. UNCHANGED <<clock, attendances, sheets, request, overlapped>> /\ Times!Busy(t)
      /\ timesPc' = [timesPc EXCEPT ![t] = Times!Idle]
  BY DEF Times!Ends, Times!Busy, Times!Return
<1>2. /\ request[t].kind = "none" => request[t] = Times!NoRequest
      /\ request[t].kind = "check_in" => request[t].value \in 0..clock
      /\ request[t].kind = "check_out" => request[t].id \in DOMAIN attendances
      /\ request[t].kind = "sheet" => request[t].value \in {0, 1}
      /\ request[t].kind = "hours" => request[t].id \in DOMAIN sheets /\ request[t].value > 0
  BY DEF Times!IInv, Times!Requests
<1>3. ~overlapped /\ request[t].kind = "check_in" => \A i \in DOMAIN attendances :
        attendances[i].in <= request[t].value /\ (~Times!ClockedIn(i) \/ ~Times!DistinctTimes)
  BY DEF Times!IInv, Times!InTurn
<1> QED
  BY <1>1, <1>2, <1>3, TimesTaskTypes, TimesTask

\* A request that is refused leaves the records as they are.
LEMMA TimesRefuse ==
  ASSUME Times!TimeConstants, Times!IInv, NEW t \in TimeTasks, Times!Refuse(t)
  PROVE  Times!IInv'
<1>1. UNCHANGED <<clock, attendances, sheets, timesPc, overlapped>> /\ Times!Busy(t)
      /\ request' = [request EXCEPT ![t] = Times!NoRequest]
  BY DEF Times!Refuse, Times!Busy
<1>2. timesPc[t].op = "stop_timer" => timesPc[t].id \in DOMAIN sheets
  BY DEF Times!IInv, Times!Requests
<1> QED
  BY <1>1, <1>2, TimesTaskTypes, TimesTask

\* Time passes.
LEMMA TimesTick ==
  ASSUME Times!TimeConstants, Times!IInv, Times!Tick
  PROVE  Times!IInv'
<1>1. /\ UNCHANGED <<attendances, sheets, timesPc, request, overlapped>>
      /\ clock' = clock + 1 /\ clock \in Nat /\ clock' \in 0..MaxTime
  BY DEF Times!Tick, Times!IInv, Times!TypeOK, Times!TimeConstants
<1>2. Times!TypeOK'
  BY <1>1 DEF Times!IInv, Times!TypeOK
<1>3. Times!Shape'
  BY <1>1 DEF Times!IInv, Times!TypeOK, Times!Shape, Times!TimeConstants
<1>4. Times!Requests'
  BY <1>1 DEF Times!IInv, Times!Requests
<1>5. Times!InTurn' /\ Times!OneOpen' /\ Times!TimersRunUntilStopped'
  BY <1>1 DEF Times!IInv, Times!InTurn, Times!OneOpen, Times!TimersRunUntilStopped,
     Times!RunningTimers, Times!Busy, Times!ClockedIn,
     Times!DistinctTimes
<1> QED
  BY <1>2, <1>3, <1>4, <1>5 DEF Times!IInv

\* A request is carried out: only its task was busy, if operations take turns.
LEMMA TimesApplyAny ==
  ASSUME Times!TimeConstants, Times!IInv, NEW t \in TimeTasks, request[t].kind # "none",
         request' = [request EXCEPT ![t] = Times!NoRequest],
           UNCHANGED <<clock, timesPc, overlapped>>,
         attendances' \in Seq([in : 0..MaxTime, out : Nat \cup {Nil}]),
         sheets' \in Seq([created : Int, hours : Nat, timer : BOOLEAN]),
         DOMAIN attendances \subseteq DOMAIN attendances', DOMAIN sheets \subseteq DOMAIN sheets',
         \A i \in DOMAIN attendances' : attendances'[i].in <= clock,
         ~overlapped => \A i, j \in DOMAIN attendances' :
           i <= j => attendances'[i].in <= attendances'[j].in,
         Times!OneOpen',
         \A i \in DOMAIN sheets' : sheets'[i].hours = 0 <=> sheets'[i].timer
  PROVE  Times!IInv'
<1>1. /\ request' \in [TimeTasks -> AllRequests] /\ request'[t] = Times!NoRequest
      /\ \A u \in TimeTasks \ {t} : request'[u] = request[u]
  BY TimesTaskTypes DEF Times!IInv, Times!Shape, AllRequests
<1>2. Times!TypeOK'
  <2>1. \A i \in DOMAIN attendances' : attendances'[i] \in [in : 0..MaxTime, out : Nat \cup {Nil}]
    BY ElementOf
  <2>2. \A i \in DOMAIN sheets' : sheets'[i] \in [created : Int, hours : Nat, timer : BOOLEAN]
    BY ElementOf
  <2>3. \A u \in TimeTasks : request'[u].value >= 0
    BY <1>1 DEF AllRequests
  <2> QED
    BY <2>1, <2>2, <2>3 DEF Times!IInv, Times!TypeOK
<1>3. Times!Shape'
  BY <1>1 DEF Times!IInv, Times!Shape, AllRequests
<1>4. Times!Requests'
  <2> SUFFICES ASSUME NEW u \in TimeTasks
               PROVE  /\ timesPc[u].op \notin {"none", "asked"} => request'[u] = Times!NoRequest
                      /\ timesPc[u].op = "stop_timer" => timesPc[u].id \in DOMAIN sheets'
                      /\ request'[u].kind = "none" => request'[u] = Times!NoRequest
                      /\ request'[u].kind = "check_in" => request'[u].value \in 0..clock
                      /\ request'[u].kind = "check_out" => request'[u].id \in DOMAIN attendances'
                      /\ request'[u].kind = "sheet" => request'[u].value \in {0, 1}
                      /\ request'[u].kind = "hours" =>
                           request'[u].id \in DOMAIN sheets' /\ request'[u].value > 0
    BY DEF Times!Requests
  <2>1. CASE u = t
    BY <1>1, <2>1, TimesTaskTypes DEF Times!IInv, Times!Requests
  <2>2. CASE u # t
    BY <1>1, <2>2 DEF Times!IInv, Times!Requests
  <2> QED
    BY <2>1, <2>2
<1>5. Times!InTurn'
  <2> SUFFICES ASSUME ~overlapped
               PROVE  /\ \A u, v \in TimeTasks : Times!Busy(u)' /\ Times!Busy(v)' => u = v
                      /\ \A u \in TimeTasks : request'[u].kind # "check_in"
    BY DEF Times!InTurn
  <2>1. Times!Busy(t) /\ \A u \in TimeTasks \ {t} : ~Times!Busy(u)
    BY DEF Times!IInv, Times!InTurn, Times!Busy, Times!NoRequest
  <2>2. \A u \in TimeTasks \ {t} : ~Times!Busy(u)' /\ request'[u] = Times!NoRequest
    BY <1>1, <2>1 DEF Times!Busy
  <2> QED
    BY <1>1, <2>2 DEF Times!NoRequest
<1>6. Times!TimersRunUntilStopped'
  BY DEF Times!TimersRunUntilStopped, Times!RunningTimers
<1> QED
  BY <1>2, <1>3, <1>4, <1>5, <1>6 DEF Times!IInv

\* Records are added, changed and never taken away.
LEMMA TimesApply ==
  ASSUME Times!TimeConstants, Times!IInv, NEW t \in TimeTasks, Times!Apply(t)
  PROVE  Times!IInv'
<1> DEFINE r == request[t]
           A == [in : 0..MaxTime, out : Nat \cup {Nil}]
           S == [created : Int, hours : Nat, timer : BOOLEAN]
<1>1. request' = [request EXCEPT ![t] = Times!NoRequest] /\ UNCHANGED <<clock, timesPc, overlapped>>
  BY DEF Times!Apply
<1>2. /\ attendances \in Seq(A) /\ sheets \in Seq(S) /\ clock \in Nat /\ clock <= MaxTime
      /\ MaxTime \in Nat /\ \A i \in DOMAIN attendances : attendances[i].in <= clock
      /\ Times!OneOpen /\ r \in AllRequests
      /\ ~overlapped => \A i, j \in DOMAIN attendances :
           i <= j => attendances[i].in <= attendances[j].in
  BY TimesTaskTypes DEF Times!IInv, Times!Shape, Times!TypeOK, Times!InTurn, Times!TimeConstants
<1>3. \A i \in DOMAIN sheets : sheets[i].hours = 0 <=> sheets[i].timer
  BY DEF Times!IInv, Times!TimersRunUntilStopped, Times!RunningTimers, Times!Shape
<1>4. CASE r.kind = "check_in"
  <2> DEFINE a == [in |-> r.value, out |-> Nil]
  <2>1. attendances' = Append(attendances, a) /\ UNCHANGED sheets
    BY <1>4 DEF Times!Apply
  <2>2. r.value \in 0..clock /\ a \in A /\ a.in = r.value
    BY <1>2, <1>4 DEF Times!IInv, Times!Requests
  <2>3. ~overlapped => \A i \in DOMAIN attendances :
          attendances[i].in <= a.in /\ (~Times!ClockedIn(i) \/ ~Times!DistinctTimes)
    BY <1>4, <2>2 DEF Times!IInv, Times!InTurn
  <2> HIDE DEF a, A
  <2>4. /\ attendances' \in Seq(A) /\ DOMAIN attendances = 1..Len(attendances)
        /\ DOMAIN attendances' = 1..(Len(attendances) + 1) /\ Len(attendances) \in Nat
        /\ Len(attendances') = Len(attendances) + 1
        /\ \A i \in DOMAIN attendances : attendances'[i] = attendances[i]
        /\ attendances'[Len(attendances) + 1] = a
    BY <1>2, <2>1, <2>2
  <2>5. \A i \in DOMAIN attendances' : attendances'[i].in <= clock
    <3>1. \A i \in DOMAIN attendances : attendances'[i].in <= clock
      BY <1>2, <2>4
    <3>2. attendances'[Len(attendances) + 1].in <= clock
      BY <1>2, <2>2, <2>4
    <3>3. \A i \in DOMAIN attendances' : i \in DOMAIN attendances \/ i = Len(attendances) + 1
      BY <2>4
    <3> QED
      BY <3>1, <3>2, <3>3
  <2>6. ~overlapped => \A i, j \in DOMAIN attendances' :
          i <= j => attendances'[i].in <= attendances'[j].in
    <3> SUFFICES ASSUME ~overlapped, NEW i \in DOMAIN attendances', NEW j \in DOMAIN attendances',
                        i <= j
                 PROVE  attendances'[i].in <= attendances'[j].in
      OBVIOUS
    <3>1. CASE j \in DOMAIN attendances
      <4>1. i \in DOMAIN attendances
        BY <2>4, <3>1
      <4>2. attendances[i].in <= attendances[j].in
        BY <1>2, <3>1, <4>1
      <4> QED
        BY <2>4, <3>1, <4>1, <4>2
    <3>2. CASE j \notin DOMAIN attendances /\ i \in DOMAIN attendances
      <4>1. j = Len(attendances) + 1
        BY <2>4, <3>2
      <4>2. attendances[i].in <= a.in
        BY <2>3, <3>2
      <4> QED
        BY <2>4, <3>2, <4>1, <4>2
    <3>3. CASE i \notin DOMAIN attendances
      <4>1. i = Len(attendances) + 1 /\ j = Len(attendances) + 1
        BY <2>4, <3>3
      <4> QED
        BY <2>2, <2>4, <4>1
    <3> QED
      BY <3>1, <3>2, <3>3
  <2>7. Times!OneOpen'
    <3> SUFFICES ASSUME ~overlapped, Times!DistinctTimes', NEW i \in DOMAIN attendances',
                        Times!ClockedIn(i)'
                 PROVE  i = Len(attendances')
      BY <1>1 DEF Times!OneOpen
    <3>1. Times!DistinctTimes
      BY <2>4 DEF Times!DistinctTimes
    <3>2. CASE i \in DOMAIN attendances
      BY <2>3, <2>4, <3>1, <3>2 DEF Times!ClockedIn
    <3>3. CASE i \notin DOMAIN attendances
      BY <2>4, <3>3
    <3> QED
      BY <3>2, <3>3
  <2>8. /\ attendances' \in Seq([in : 0..MaxTime, out : Nat \cup {Nil}])
        /\ DOMAIN attendances \subseteq DOMAIN attendances'
        /\ DOMAIN sheets \subseteq DOMAIN sheets'
        /\ sheets' \in Seq([created : Int, hours : Nat, timer : BOOLEAN])
        /\ \A i \in DOMAIN sheets' : sheets'[i].hours = 0 <=> sheets'[i].timer
        /\ request[t].kind # "none"
    BY <1>2, <1>3, <1>4, <2>1, <2>4 DEF A
  <2> QED
    BY <1>1, <2>5, <2>6, <2>7, <2>8, TimesApplyAny
<1>5. CASE r.kind = "check_out"
  <2>1. attendances' = [attendances EXCEPT ![r.id].out = r.value] /\ UNCHANGED sheets
    BY <1>5 DEF Times!Apply
  <2>2. r.id \in DOMAIN attendances /\ r.value \in Nat /\ r.value # Nil
    BY <1>2, <1>5 DEF Times!IInv, Times!Requests, AllRequests, Times!TimeConstants
  <2>3. \A i \in DOMAIN attendances : attendances[i] \in A
    BY <1>2, ElementOf
  <2> DEFINE c == [attendances[r.id] EXCEPT !.out = r.value]
  <2>c. c \in A /\ c.in = attendances[r.id].in /\ c.out # Nil
    BY <2>2, <2>3
  <2>s. attendances' = [attendances EXCEPT ![r.id] = c]
    BY <2>1
  <2> HIDE DEF c, A
  <2>q. /\ attendances' \in Seq(A) /\ DOMAIN attendances' = DOMAIN attendances
        /\ Len(attendances') = Len(attendances)
    BY <1>2, <2>2, <2>c, <2>s
  <2>4. \A i \in DOMAIN attendances :
          attendances'[i].in = attendances[i].in /\ (Times!ClockedIn(i)' => Times!ClockedIn(i))
    BY <1>2, <2>2, <2>c, <2>s DEF Times!ClockedIn
  <2>5. Times!OneOpen'
    BY <1>1, <1>2, <2>q, <2>4 DEF Times!OneOpen, Times!DistinctTimes
  <2>6. /\ attendances' \in Seq([in : 0..MaxTime, out : Nat \cup {Nil}])
        /\ sheets' \in Seq([created : Int, hours : Nat, timer : BOOLEAN])
        /\ DOMAIN attendances \subseteq DOMAIN attendances'
        /\ DOMAIN sheets \subseteq DOMAIN sheets'
        /\ \A i \in DOMAIN attendances' : attendances'[i].in <= clock
        /\ ~overlapped => \A i, j \in DOMAIN attendances' :
             i <= j => attendances'[i].in <= attendances'[j].in
        /\ \A i \in DOMAIN sheets' : sheets'[i].hours = 0 <=> sheets'[i].timer
        /\ request[t].kind # "none"
    BY <1>2, <1>3, <1>5, <2>1, <2>q, <2>4 DEF A
  <2> QED
    BY <1>1, <2>5, <2>6, TimesApplyAny
<1>6. CASE r.kind = "sheet"
  <2> DEFINE a == [created |-> clock + Skew, hours |-> r.value, timer |-> r.value = 0]
  <2>1. sheets' = Append(sheets, a) /\ UNCHANGED attendances
    BY <1>6 DEF Times!Apply
  <2>2. a \in S /\ (a.hours = 0 <=> a.timer)
    <3>1. r.value \in Nat /\ clock + Skew \in Int
      BY <1>2 DEF AllRequests, Times!TimeConstants
    <3>2. CASE r.value = 0
      <4>1. a = [created |-> clock + Skew, hours |-> 0, timer |-> TRUE]
        BY <3>2
      <4> HIDE DEF a
      <4> QED
        BY <3>1, <4>1
    <3>3. CASE r.value # 0
      <4>1. a = [created |-> clock + Skew, hours |-> r.value, timer |-> FALSE]
        BY <3>3
      <4> HIDE DEF a
      <4> QED
        BY <3>1, <3>3, <4>1
    <3> QED
      BY <3>2, <3>3
  <2> HIDE DEF a, S
  <2>3. /\ sheets' \in Seq(S) /\ DOMAIN sheets = 1..Len(sheets)
        /\ DOMAIN sheets' = 1..(Len(sheets) + 1) /\ Len(sheets) \in Nat
        /\ \A i \in DOMAIN sheets : sheets'[i] = sheets[i]
        /\ sheets'[Len(sheets) + 1] = a
    BY <1>2, <2>1, <2>2
  <2>4. \A i \in DOMAIN sheets' : sheets'[i].hours = 0 <=> sheets'[i].timer
    BY <1>3, <2>2, <2>3
  <2>5. Times!OneOpen'
    BY <1>1, <1>2, <2>1 DEF Times!OneOpen, Times!DistinctTimes, Times!ClockedIn
  <2>6. /\ attendances' \in Seq([in : 0..MaxTime, out : Nat \cup {Nil}])
        /\ sheets' \in Seq([created : Int, hours : Nat, timer : BOOLEAN])
        /\ DOMAIN attendances \subseteq DOMAIN attendances'
        /\ DOMAIN sheets \subseteq DOMAIN sheets'
        /\ \A i \in DOMAIN attendances' : attendances'[i].in <= clock
        /\ ~overlapped => \A i, j \in DOMAIN attendances' :
             i <= j => attendances'[i].in <= attendances'[j].in
        /\ request[t].kind # "none"
    BY <1>2, <1>6, <2>1, <2>3 DEF S
  <2> QED
    BY <1>1, <2>4, <2>5, <2>6, TimesApplyAny
<1>7. CASE r.kind = "hours"
  <2>1. /\ sheets' = [sheets EXCEPT ![r.id].hours = r.value, ![r.id].timer = FALSE]
        /\ UNCHANGED attendances
    BY <1>7 DEF Times!Apply
  <2>2. r.id \in DOMAIN sheets /\ r.value \in Nat /\ r.value # 0
    BY <1>2, <1>7 DEF Times!IInv, Times!Requests, AllRequests
  <2>3. \A i \in DOMAIN sheets : sheets[i] \in S
    BY <1>2, ElementOf
  <2> DEFINE c == [sheets[r.id] EXCEPT !.hours = r.value, !.timer = FALSE]
  <2>c. c \in S /\ c.hours # 0 /\ ~c.timer
    BY <2>2, <2>3
  <2>s. sheets' = [sheets EXCEPT ![r.id] = c]
    BY <2>1, <2>2
  <2> HIDE DEF c, S
  <2>q. sheets' \in Seq(S) /\ DOMAIN sheets' = DOMAIN sheets
    BY <1>2, <2>2, <2>c, <2>s
  <2>4. \A i \in DOMAIN sheets : sheets'[i].hours = 0 <=> sheets'[i].timer
    BY <1>2, <1>3, <2>2, <2>c, <2>s
  <2>5. Times!OneOpen'
    BY <1>1, <1>2, <2>1 DEF Times!OneOpen, Times!DistinctTimes, Times!ClockedIn
  <2>6. /\ attendances' \in Seq([in : 0..MaxTime, out : Nat \cup {Nil}])
        /\ sheets' \in Seq([created : Int, hours : Nat, timer : BOOLEAN])
        /\ DOMAIN attendances \subseteq DOMAIN attendances'
        /\ DOMAIN sheets \subseteq DOMAIN sheets'
        /\ \A i \in DOMAIN attendances' : attendances'[i].in <= clock
        /\ ~overlapped => \A i, j \in DOMAIN attendances' :
             i <= j => attendances'[i].in <= attendances'[j].in
        /\ \A i \in DOMAIN sheets' : sheets'[i].hours = 0 <=> sheets'[i].timer
        /\ request[t].kind # "none"
    BY <1>2, <1>7, <2>1, <2>q, <2>4 DEF S
  <2> QED
    BY <1>1, <2>5, <2>6, TimesApplyAny
<1> QED
  BY <1>4, <1>5, <1>6, <1>7 DEF Times!Apply

\* Every step keeps the invariant of attendances and timesheets.
LEMMA TimesStep ==
  ASSUME Times!TimeConstants, Times!IInv, [Times!Next]_(Times!vars)
  PROVE  Times!IInv'
<1>1. ASSUME NEW t \in TimeTasks, NEW op \in {"clock_in", "clock_out", "start_timer", "log_time"},
             Times!Begin(t, op, 0)
      PROVE  Times!IInv'
  BY <1>1, TimesBegin
<1>2. ASSUME NEW t \in TimeTasks, NEW i \in DOMAIN sheets, Times!Begin(t, "stop_timer", i)
      PROVE  Times!IInv'
  <2>1. i \in Nat
    BY DEF Times!IInv, Times!Shape
  <2> QED
    BY <1>2, <2>1, TimesBegin
<1>same. CASE UNCHANGED Times!vars
  <2>1. Times!TypeOK'
    BY <1>same DEF Times!vars, Times!IInv, Times!TypeOK
  <2>2. Times!Shape'
    BY <1>same DEF Times!vars, Times!IInv, Times!Shape
  <2>3. Times!Requests'
    BY <1>same DEF Times!vars, Times!IInv, Times!Requests
  <2>4. Times!InTurn'
    BY <1>same DEF Times!vars, Times!IInv, Times!InTurn, Times!Busy, Times!ClockedIn,
       Times!DistinctTimes
  <2>5. Times!OneOpen'
    BY <1>same DEF Times!vars, Times!IInv, Times!OneOpen, Times!ClockedIn, Times!DistinctTimes
  <2>6. Times!TimersRunUntilStopped'
    BY <1>same DEF Times!vars, Times!IInv, Times!TimersRunUntilStopped, Times!RunningTimers
  <2> QED
    BY <2>1, <2>2, <2>3, <2>4, <2>5, <2>6 DEF Times!IInv
<1> QED
  BY <1>same, <1>1, <1>2, TimesTick, TimesClockIn, TimesClockOut, TimesLogTime, TimesStopTimer,
     TimesEnds,
     TimesApply, TimesRefuse DEF Times!Next

-----------------------------------------------------------------------------
(***************************************************************************)
(* UrlCache.                                                               *)
(***************************************************************************)

\* Its variables.
url == v1
address == v2
born == v3
urlCache == v4
urlCall == v5
informed == v6
USE DEF url, address, born, urlCache, urlCall, informed

\* No client lives yet, and no call is under way.
LEMMA UrlsInit ==
  ASSUME Urls!UrlConstants, Urls!Init
  PROVE  Urls!IInv
BY DEF Urls!UrlConstants, Urls!Init, Urls!NoCall, Urls!InFlight, Urls!Alive, Urls!Own, Urls!IInv,
   Urls!TypeOK, Urls!Lives, Urls!Waiting, Urls!Told,
       Urls!OwnOnceAsked

\* A new client has asked for nothing, whatever stands under its id.
LEMMA UrlsCreate ==
  ASSUME Urls!UrlConstants, Urls!IInv, NEW c \in UrlClients, NEW a \in Addresses, Urls!Create(c, a)
  PROVE  Urls!IInv'
<1>1. /\ address' \in [UrlClients -> Addresses \cup {Nil, "collected"}]
      /\ address'[c] = a /\ \A d \in UrlClients \ {c} : address'[d] = address[d]
      /\ born'[c] = url[c] /\ \A d \in UrlClients \ {c} : born'[d] = born[d]
      /\ born' \in [UrlClients -> Nat] /\ url[c] \in Nat
      /\ UNCHANGED <<url, urlCache, urlCall, informed>>
      /\ c \notin Urls!Alive /\ c \notin informed
  BY DEF Urls!IInv, Urls!TypeOK, Urls!Lives, Urls!Create, Urls!Alive, Urls!UrlConstants
<1>2. Urls!Alive' = Urls!Alive \cup {c}
  BY <1>1 DEF Urls!Alive, Urls!UrlConstants
<1>3. Urls!TypeOK'
  BY <1>1 DEF Urls!IInv, Urls!TypeOK
<1>4. Urls!Lives'
  BY <1>1 DEF Urls!IInv, Urls!Lives, Urls!Create, Urls!UrlConstants
<1>5. Urls!Waiting'
  <2> SUFFICES ASSUME NEW k \in UrlCalls
               PROVE  /\ Urls!InFlight(k) =>
                           /\ urlCall[k].client \in Urls!Alive'
                           /\ urlCall[k].key = address'[urlCall[k].client]
                           /\ born'[urlCall[k].client] <= urlCall[k].since
                           /\ urlCall[k].since <= url[urlCall[k].client]
                      /\ urlCall[k].pc = "answered" =>
                           Urls!Own(urlCall[k].client, urlCall[k].url, urlCall[k].since)
    BY <1>1 DEF Urls!Waiting, Urls!InFlight, Urls!Own
  <2>1. Urls!InFlight(k) => urlCall[k].client \in UrlClients \ {c}
          /\ urlCall[k].client \in Urls!Alive
    BY <1>1 DEF Urls!IInv, Urls!Waiting, Urls!Alive
  <2> QED
    BY <1>1, <1>2, <2>1 DEF Urls!IInv, Urls!Waiting
<1>6. Urls!Told'
  <2> SUFFICES ASSUME NEW d \in Urls!Alive \cap informed
               PROVE  Urls!Own(d, urlCache[address'[d]], born'[d])
    BY <1>1, <1>2 DEF Urls!Told, Urls!Own
  <2>1. d \in UrlClients \ {c}
    BY <1>1 DEF Urls!Alive
  <2> QED
    BY <1>1, <2>1 DEF Urls!IInv, Urls!Told
<1>7. Urls!OwnOnceAsked'
  BY <1>1 DEF Urls!IInv, Urls!OwnOnceAsked, Urls!Own
<1> QED
  BY <1>3, <1>4, <1>5, <1>6, <1>7 DEF Urls!IInv

\* A client that is gone waits for nothing.
LEMMA UrlsCollect ==
  ASSUME Urls!UrlConstants, Urls!IInv, NEW c \in UrlClients, Urls!Collect(c)
  PROVE  Urls!IInv'
<1>1. /\ Urls!Alive' = Urls!Alive \ {c} /\ \A d \in UrlClients \ {c} : address'[d] = address[d]
      /\ address'[c] = "collected" /\ UNCHANGED <<url, born, urlCache, urlCall, informed>>
      /\ address' \in [UrlClients -> Addresses \cup {Nil, "collected"}]
  BY DEF Urls!Alive, Urls!Collect, Urls!UrlConstants, Urls!IInv, Urls!TypeOK
<1>2. Urls!TypeOK'
  BY <1>1 DEF Urls!IInv, Urls!TypeOK
<1>3. Urls!Lives'
  <2>1. \A d, e \in UrlClients : d # e /\ address'[d] = address'[e] => address'[d] \notin Addresses
    BY <1>1 DEF Urls!IInv, Urls!Lives, Urls!UrlConstants
  <2>2. \A d \in informed : address'[d] # Nil
    BY <1>1 DEF Urls!IInv, Urls!TypeOK, Urls!Lives, Urls!UrlConstants
  <2> QED
    BY <1>1, <2>1, <2>2 DEF Urls!IInv, Urls!Lives
<1>4. Urls!Waiting'
  BY <1>1 DEF Urls!IInv, Urls!Waiting, Urls!InFlight, Urls!Own, Urls!Collect
<1>5. Urls!Told'
  BY <1>1 DEF Urls!IInv, Urls!Told, Urls!Own, Urls!Alive
<1>6. Urls!OwnOnceAsked'
  BY <1>1 DEF Urls!IInv, Urls!OwnOnceAsked, Urls!Own
<1> QED
  BY <1>2, <1>3, <1>4, <1>5, <1>6 DEF Urls!IInv

\* A call returns what is there, or goes to ask; its client lives, and what stands
\* under the id of a client that was answered is its own.
LEMMA UrlsGet ==
  ASSUME Urls!UrlConstants, Urls!IInv, NEW k \in UrlCalls, NEW c \in UrlClients,
         NEW refresh \in BOOLEAN,
         Urls!Get(k, c, refresh)
  PROVE  Urls!IInv'
<1> DEFINE hit == ~refresh /\ urlCache[address[c]] # Nil
           since == IF refresh THEN url[c] ELSE born[c]
           called == [pc |-> IF hit THEN "returned" ELSE "asked", client |-> c,
                      key |-> address[c], url |-> IF hit THEN urlCache[address[c]] ELSE Nil,
                      sure |-> ~hit \/ c \in informed, since |-> since]
<1>1. /\ c \in Urls!Alive
      /\ Urls!Alive' = Urls!Alive
      /\ UNCHANGED <<url, address, born, urlCache, informed>>
      /\ address[c] \in Addresses /\ urlCall' = [urlCall EXCEPT ![k] = called]
  BY DEF Urls!Get, Urls!Key, Urls!Alive
<1>2. born[c] \in Nat /\ url[c] \in Nat /\ born[c] <= url[c]
  BY DEF Urls!IInv, Urls!TypeOK, Urls!Lives
<1>3. since \in Nat /\ born[c] <= since /\ since <= url[c] /\ (hit => since = born[c])
  BY <1>2
<1> HIDE DEF since
<1>4. /\ called \in [pc : {"idle", "asked", "answered", "returned"},
                     client : UrlClients \cup {Nil}, key : Addresses \cup {Nil},
                     url : Urls!Urls \cup {Nil}, sure : BOOLEAN, since : Nat]
  <2>1. (IF hit THEN urlCache[address[c]] ELSE Nil) \in Urls!Urls \cup {Nil}
    BY <1>1 DEF Urls!IInv, Urls!TypeOK
  <2> HIDE DEF hit
  <2> QED
    BY <1>1, <1>3, <2>1
<1>5. /\ called.client = c /\ called.key = address[c] /\ called.since = since
      /\ called.pc \in {"asked", "returned"}
      /\ called.pc = "returned" /\ called.sure =>
           hit /\ c \in informed /\ called.url = urlCache[address[c]]
  OBVIOUS
<1> HIDE DEF hit, called
<1>6. /\ urlCall'[k] = called /\ \A j \in UrlCalls \ {k} : urlCall'[j] = urlCall[j]
  BY <1>1 DEF Urls!IInv, Urls!TypeOK
<1>7. Urls!TypeOK'
  BY <1>1, <1>4 DEF Urls!IInv, Urls!TypeOK
<1>8. Urls!Lives' /\ Urls!Told'
  BY <1>1 DEF Urls!IInv, Urls!Lives, Urls!Told, Urls!Own
<1>9. Urls!Waiting'
  BY <1>1, <1>3, <1>5, <1>6 DEF Urls!IInv, Urls!Waiting, Urls!InFlight, Urls!Own
<1>10. Urls!OwnOnceAsked'
  <2>1. \A j \in UrlCalls \ {k} :
          urlCall'[j].pc = "returned" /\ urlCall'[j].sure
            => Urls!Own(urlCall'[j].client, urlCall'[j].url, urlCall'[j].since)
    BY <1>6 DEF Urls!IInv, Urls!OwnOnceAsked
  <2>2. c \in informed => Urls!Own(c, urlCache[address[c]], born[c])
    BY <1>1 DEF Urls!IInv, Urls!Told
  <2>3. urlCall'[k].pc = "returned" /\ urlCall'[k].sure
            => Urls!Own(urlCall'[k].client, urlCall'[k].url, urlCall'[k].since)
    BY <1>3, <1>5, <1>6, <2>2
  <2> QED
    BY <1>1, <2>1, <2>3 DEF Urls!OwnOnceAsked, Urls!Own
<1> QED
  BY <1>7, <1>8, <1>9, <1>10 DEF Urls!IInv

\* Odoo answers with what its parameter is now.
LEMMA UrlsAnswer ==
  ASSUME Urls!UrlConstants, Urls!IInv, NEW k \in UrlCalls, Urls!Answer(k)
  PROVE  Urls!IInv'
<1> DEFINE c == urlCall[k].client
           u == [of |-> c, version |-> url[c]]
           answered == [[urlCall[k] EXCEPT !.pc = "answered"] EXCEPT !.url = u]
<1>1. /\ Urls!Alive' = Urls!Alive /\ UNCHANGED <<url, address, born, urlCache, informed>>
      /\ urlCall' = [urlCall EXCEPT ![k] = answered] /\ urlCall[k].pc = "asked"
  BY DEF Urls!Answer, Urls!Alive
<1>2. urlCall[k] \in [pc : {"idle", "asked", "answered", "returned"},
                   client : UrlClients \cup {Nil}, key : Addresses \cup {Nil},
                   url : Urls!Urls \cup {Nil}, sure : BOOLEAN, since : Nat]
  BY DEF Urls!IInv, Urls!TypeOK
<1>3. /\ c \in Urls!Alive /\ urlCall[k].key = address[c] /\ born[c] <= urlCall[k].since
      /\ urlCall[k].since <= url[c] /\ url[c] \in Nat
  BY <1>1 DEF Urls!IInv, Urls!Waiting, Urls!InFlight, Urls!Alive, Urls!TypeOK
<1>4. u \in Urls!Urls /\ u # Nil /\ u.of = c /\ u.version = url[c]
  BY <1>3 DEF Urls!Urls, Urls!Alive, Urls!UrlConstants
<1>5. /\ answered \in [pc : {"idle", "asked", "answered", "returned"},
                       client : UrlClients \cup {Nil}, key : Addresses \cup {Nil},
                       url : Urls!Urls \cup {Nil}, sure : BOOLEAN, since : Nat]
      /\ answered.pc = "answered" /\ answered.client = c /\ answered.key = urlCall[k].key
      /\ answered.url = u /\ answered.since = urlCall[k].since
  BY <1>2, <1>4
<1> HIDE DEF answered, u
<1>6. Urls!Own(c, u, urlCall[k].since)
  BY <1>3, <1>4 DEF Urls!Own
<1>7. urlCall'[k] = answered /\ \A j \in UrlCalls \ {k} : urlCall'[j] = urlCall[j]
  BY <1>1 DEF Urls!IInv, Urls!TypeOK
<1>8. Urls!TypeOK'
  BY <1>1, <1>5 DEF Urls!IInv, Urls!TypeOK
<1>9. Urls!Lives' /\ Urls!Told'
  BY <1>1 DEF Urls!IInv, Urls!Lives, Urls!Told, Urls!Own
<1>10. Urls!Waiting'
  <2>1. ASSUME NEW j \in UrlCalls \ {k}
        PROVE  /\ Urls!InFlight(j)' =>
                    /\ urlCall'[j].client \in Urls!Alive
                    /\ urlCall'[j].key = address[urlCall'[j].client]
                    /\ born[urlCall'[j].client] <= urlCall'[j].since
                    /\ urlCall'[j].since <= url[urlCall'[j].client]
               /\ urlCall'[j].pc = "answered"
                    => Urls!Own(urlCall'[j].client, urlCall'[j].url, urlCall'[j].since)
    BY <1>7 DEF Urls!IInv, Urls!Waiting, Urls!InFlight
  <2>2. /\ urlCall'[k].client \in Urls!Alive /\ urlCall'[k].key = address[urlCall'[k].client]
        /\ born[urlCall'[k].client] <= urlCall'[k].since
        /\ urlCall'[k].since <= url[urlCall'[k].client]
        /\ Urls!Own(urlCall'[k].client, urlCall'[k].url, urlCall'[k].since)
    BY <1>3, <1>5, <1>6, <1>7
  <2> QED
    BY <1>1, <2>1, <2>2 DEF Urls!Waiting, Urls!Own
<1>11. Urls!OwnOnceAsked'
  BY <1>1, <1>5, <1>7 DEF Urls!IInv, Urls!OwnOnceAsked, Urls!Own
<1> QED
  BY <1>8, <1>9, <1>10, <1>11 DEF Urls!IInv

\* An answer is stored under the id of a client that lives, and returned to it;
\* nobody else that lives has this id.
LEMMA UrlsGot ==
  ASSUME Urls!UrlConstants, Urls!IInv, NEW k \in UrlCalls, Urls!Got(k)
  PROVE  Urls!IInv'
<1> DEFINE c == urlCall[k].client
           returned == [urlCall[k] EXCEPT !.pc = "returned"]
<1>1. /\ Urls!Alive' = Urls!Alive /\ UNCHANGED <<url, address, born>>
      /\ urlCall' = [urlCall EXCEPT ![k] = returned] /\ urlCall[k].pc = "answered"
      /\ urlCache' = [urlCache EXCEPT ![urlCall[k].key] = urlCall[k].url]
      /\ informed' = informed \cup {c}
  BY DEF Urls!Got, Urls!Alive
<1>2. urlCall[k] \in [pc : {"idle", "asked", "answered", "returned"},
                   client : UrlClients \cup {Nil}, key : Addresses \cup {Nil},
                   url : Urls!Urls \cup {Nil}, sure : BOOLEAN, since : Nat]
  BY DEF Urls!IInv, Urls!TypeOK
<1>3. /\ c \in Urls!Alive /\ urlCall[k].key = address[c] /\ address[c] \in Addresses
      /\ born[c] \in Nat /\ urlCall[k].since \in Nat /\ born[c] <= urlCall[k].since
      /\ Urls!Own(c, urlCall[k].url, urlCall[k].since)
  BY <1>1, <1>2 DEF Urls!IInv, Urls!Waiting, Urls!InFlight, Urls!Alive, Urls!TypeOK
<1>4. urlCall[k].url \in Urls!Urls /\ urlCall[k].url.version \in Nat
  BY <1>2, <1>3 DEF Urls!Own, Urls!Urls
<1>5. /\ returned \in [pc : {"idle", "asked", "answered", "returned"},
                       client : UrlClients \cup {Nil}, key : Addresses \cup {Nil},
                       url : Urls!Urls \cup {Nil}, sure : BOOLEAN, since : Nat]
      /\ returned.pc = "returned" /\ returned.client = c /\ returned.url = urlCall[k].url
      /\ returned.since = urlCall[k].since
  BY <1>2
<1> HIDE DEF returned
<1>6. /\ urlCall'[k] = returned /\ \A j \in UrlCalls \ {k} : urlCall'[j] = urlCall[j]
      /\ urlCache'[address[c]] = urlCall[k].url
      /\ \A a \in Addresses \ {address[c]} : urlCache'[a] = urlCache[a]
  BY <1>1, <1>3 DEF Urls!IInv, Urls!TypeOK
<1>7. Urls!TypeOK'
  <2>1. urlCache' \in [Addresses -> Urls!Urls \cup {Nil}]
    BY <1>1, <1>4 DEF Urls!IInv, Urls!TypeOK
  <2>2. informed' \in SUBSET UrlClients
    BY <1>1, <1>3 DEF Urls!IInv, Urls!TypeOK, Urls!Alive
  <2> QED
    BY <1>1, <1>5, <2>1, <2>2 DEF Urls!IInv, Urls!TypeOK
<1>8. Urls!Lives'
  BY <1>1, <1>3 DEF Urls!IInv, Urls!Lives, Urls!UrlConstants
<1>9. Urls!Waiting'
  <2>1. ASSUME NEW j \in UrlCalls \ {k}
        PROVE  /\ Urls!InFlight(j)' =>
                    /\ urlCall'[j].client \in Urls!Alive
                    /\ urlCall'[j].key = address[urlCall'[j].client]
                    /\ born[urlCall'[j].client] <= urlCall'[j].since
                    /\ urlCall'[j].since <= url[urlCall'[j].client]
               /\ urlCall'[j].pc = "answered"
                    => Urls!Own(urlCall'[j].client, urlCall'[j].url, urlCall'[j].since)
    BY <1>6 DEF Urls!IInv, Urls!Waiting, Urls!InFlight
  <2>2. urlCall'[k].pc = "returned"
    BY <1>5, <1>6
  <2> QED
    BY <1>1, <2>1, <2>2 DEF Urls!Waiting, Urls!Own, Urls!InFlight
<1>10. Urls!Told'
  <2> SUFFICES ASSUME NEW d \in Urls!Alive, d \in informed \cup {c}
               PROVE  Urls!Own(d, urlCache'[address[d]], born[d])
    BY <1>1 DEF Urls!Told, Urls!Own
  <2>1. CASE d = c
    BY <1>3, <1>4, <1>6, <2>1 DEF Urls!Own
  <2>2. CASE d # c
    <3>1. address[d] # address[c] /\ address[d] \in Addresses
      BY <1>3, <2>2 DEF Urls!IInv, Urls!Lives, Urls!Alive
    <3> QED
      BY <1>6, <2>2, <3>1 DEF Urls!IInv, Urls!Told
  <2> QED
    BY <2>1, <2>2
<1>11. Urls!OwnOnceAsked'
  <2>1. \A j \in UrlCalls \ {k} :
          urlCall'[j].pc = "returned" /\ urlCall'[j].sure
            => Urls!Own(urlCall'[j].client, urlCall'[j].url, urlCall'[j].since)
    BY <1>6 DEF Urls!IInv, Urls!OwnOnceAsked
  <2>2. Urls!Own(urlCall'[k].client, urlCall'[k].url, urlCall'[k].since)
    BY <1>3, <1>5, <1>6
  <2> QED
    BY <1>1, <2>1, <2>2 DEF Urls!OwnOnceAsked, Urls!Own
<1> QED
  BY <1>7, <1>8, <1>9, <1>10, <1>11 DEF Urls!IInv

\* A call that fails returns nothing.
LEMMA UrlsReadFails ==
  ASSUME Urls!UrlConstants, Urls!IInv, NEW k \in UrlCalls, Urls!ReadFails(k)
  PROVE  Urls!IInv'
<1>1. /\ Urls!Alive' = Urls!Alive /\ UNCHANGED <<url, address, born, urlCache, informed>>
      /\ urlCall' = [urlCall EXCEPT ![k] = Urls!NoCall]
  BY DEF Urls!ReadFails, Urls!Alive
<1>2. /\ Urls!NoCall \in [pc : {"idle", "asked", "answered", "returned"},
                     client : UrlClients \cup {Nil}, key : Addresses \cup {Nil},
                     url : Urls!Urls \cup {Nil}, sure : BOOLEAN, since : Nat]
      /\ Urls!NoCall.pc = "idle"
  BY DEF Urls!NoCall
<1>3. urlCall'[k] = Urls!NoCall /\ \A j \in UrlCalls \ {k} : urlCall'[j] = urlCall[j]
  BY <1>1 DEF Urls!IInv, Urls!TypeOK
<1>4. Urls!TypeOK'
  BY <1>1, <1>2 DEF Urls!IInv, Urls!TypeOK
<1>5. Urls!Lives' /\ Urls!Told'
  BY <1>1 DEF Urls!IInv, Urls!Lives, Urls!Told, Urls!Own
<1>6. Urls!Waiting' /\ Urls!OwnOnceAsked'
  BY <1>1, <1>2, <1>3 DEF Urls!IInv, Urls!Waiting, Urls!OwnOnceAsked, Urls!InFlight, Urls!Own
<1> QED
  BY <1>4, <1>5, <1>6 DEF Urls!IInv

\* A base URL changes: the earlier ones were had too.
LEMMA UrlsChangeUrl ==
  ASSUME Urls!UrlConstants, Urls!IInv, NEW c \in UrlClients, Urls!ChangeUrl(c)
  PROVE  Urls!IInv'
<1>1. /\ url' \in [UrlClients -> Nat] /\ \A d \in UrlClients : url[d] \in Nat /\ url[d] <= url'[d]
      /\ UNCHANGED <<address, born, urlCache, urlCall, informed>> /\ Urls!Alive' = Urls!Alive
  BY DEF Urls!IInv, Urls!TypeOK, Urls!ChangeUrl, Urls!Alive
<1>2. ASSUME NEW d \in UrlClients, NEW u \in Urls!Urls \cup {Nil}, NEW since \in Nat,
             Urls!Own(d, u, since)
      PROVE  Urls!Own(d, u, since)'
  BY <1>1, <1>2 DEF Urls!Own, Urls!Urls, Urls!UrlConstants
<1>3. Urls!TypeOK'
  BY <1>1 DEF Urls!IInv, Urls!TypeOK
<1>4. Urls!Lives'
  BY <1>1 DEF Urls!IInv, Urls!Lives, Urls!TypeOK
<1>5. Urls!Waiting'
  <2> SUFFICES ASSUME NEW k \in UrlCalls, Urls!InFlight(k)
               PROVE  /\ urlCall[k].client \in Urls!Alive
                         /\ urlCall[k].key = address[urlCall[k].client]
                      /\ born[urlCall[k].client] <= urlCall[k].since
                      /\ urlCall[k].since <= url'[urlCall[k].client]
                      /\ urlCall[k].pc = "answered" =>
                           Urls!Own(urlCall[k].client, urlCall[k].url, urlCall[k].since)'
    BY <1>1 DEF Urls!Waiting, Urls!InFlight
  <2>1. /\ urlCall[k].client \in Urls!Alive /\ urlCall[k].key = address[urlCall[k].client]
        /\ born[urlCall[k].client] <= urlCall[k].since /\ urlCall[k].since <= url[urlCall[k].client]
        /\ urlCall[k].client \in UrlClients
        /\ urlCall[k].since \in Nat
        /\ urlCall[k].url \in Urls!Urls \cup {Nil}
        /\ urlCall[k].pc = "answered"
           => Urls!Own(urlCall[k].client, urlCall[k].url, urlCall[k].since)
    BY DEF Urls!IInv, Urls!Waiting, Urls!TypeOK, Urls!Alive
  <2>2. urlCall[k].since <= url'[urlCall[k].client]
    BY <1>1, <2>1
  <2>3. urlCall[k].pc = "answered" => Urls!Own(urlCall[k].client, urlCall[k].url, urlCall[k].since)'
    BY <1>1, <1>2, <2>1
  <2> QED
    BY <2>1, <2>2, <2>3
<1>6. Urls!Told'
  <2> SUFFICES ASSUME NEW d \in Urls!Alive \cap informed
               PROVE  Urls!Own(d, urlCache[address[d]], born[d])'
    BY <1>1 DEF Urls!Told
  <2>1. /\ d \in UrlClients /\ urlCache[address[d]] \in Urls!Urls \cup {Nil} /\ born[d] \in Nat
        /\ Urls!Own(d, urlCache[address[d]], born[d])
    BY DEF Urls!IInv, Urls!TypeOK, Urls!Told, Urls!Alive
  <2> QED
    BY <1>1, <1>2, <2>1
<1>7. Urls!OwnOnceAsked'
  <2> SUFFICES ASSUME NEW k \in UrlCalls, urlCall[k].pc = "returned", urlCall[k].sure
               PROVE  Urls!Own(urlCall[k].client, urlCall[k].url, urlCall[k].since)'
    BY <1>1 DEF Urls!OwnOnceAsked
  <2>1. /\ urlCall[k].client \in UrlClients \cup {Nil} /\ urlCall[k].since \in Nat
        /\ urlCall[k].url \in Urls!Urls \cup {Nil}
        /\ Urls!Own(urlCall[k].client, urlCall[k].url, urlCall[k].since)
    BY DEF Urls!IInv, Urls!TypeOK, Urls!OwnOnceAsked
  <2>2. urlCall[k].client \in UrlClients
    BY <2>1 DEF Urls!Own, Urls!Urls
  <2> QED
    BY <1>1, <1>2, <2>1, <2>2
<1> QED
  BY <1>3, <1>4, <1>5, <1>6, <1>7 DEF Urls!IInv

\* Every step keeps the invariant of the URL cache.
LEMMA UrlsStep ==
  ASSUME Urls!UrlConstants, Urls!IInv, [Urls!Next]_(Urls!vars)
  PROVE  Urls!IInv'
<1>same. CASE UNCHANGED Urls!vars
  <2>1. Urls!TypeOK'
    BY <1>same DEF Urls!vars, Urls!IInv, Urls!TypeOK
  <2>2. Urls!Lives'
    BY <1>same DEF Urls!vars, Urls!IInv, Urls!Lives
  <2>3. Urls!Waiting'
    BY <1>same DEF Urls!vars, Urls!IInv, Urls!Waiting, Urls!InFlight, Urls!Own, Urls!Alive
  <2>4. Urls!Told' /\ Urls!OwnOnceAsked'
    BY <1>same DEF Urls!vars, Urls!IInv, Urls!Told, Urls!OwnOnceAsked, Urls!Own, Urls!Alive
  <2> QED
    BY <2>1, <2>2, <2>3, <2>4 DEF Urls!IInv
<1> QED
  BY <1>same, UrlsCreate, UrlsCollect, UrlsGet, UrlsAnswer, UrlsGot, UrlsReadFails, UrlsChangeUrl
  DEF Urls!Next

-----------------------------------------------------------------------------
(***************************************************************************)
(* FieldCache.                                                             *)
(***************************************************************************)

\* Its variables.
ttype == v1
told == v2
changes == v3
_cache == v4
typesPc == v5
typesResult == v6
missing == v7
records == v8
USE DEF ttype, told, changes, _cache, typesPc, typesResult, missing, records

\* Nothing is cached and nobody has asked.
LEMMA TypesInit ==
  ASSUME Types!FieldConstants, Types!Init
  PROVE  Types!IInv
<1>1. Types!TypeOK
  BY DEF Types!FieldConstants, Types!Init, Types!Nothing, Types!TypeOK
<1>2. Types!Answers /\ Types!OwnAnswers
  BY DEF Types!FieldConstants, Types!Init, Types!Nothing, Types!Answers, Types!OwnAnswers
<1> QED
  BY <1>1, <1>2 DEF Types!IInv

\* What a database has told only grows: what a call has had from it stays heard.
LEMMA HeardGrows ==
  ASSUME Types!FieldConstants, Types!OwnAnswers,
         \A c \in FieldClients, f \in FieldNames : told[c][f] \subseteq told'[c][f],
         \A k \in FieldCalls : missing'[k] \subseteq FieldNames,
         \A k \in FieldCalls : typesPc'[k] = "done" => \A f \in missing'[k] :
           \/ typesPc[k] = "done" /\ f \in missing[k] /\ typesResult'[k] = typesResult[k]
           \/ f \in DOMAIN typesResult'[k] /\ typesResult'[k][f] \in Types!Heard(ClientOf[k], f)'
  PROVE  Types!OwnAnswers'
<1>1. \A c \in FieldClients, f \in FieldNames : Types!Heard(c, f) \subseteq Types!Heard(c, f)'
  BY DEF Types!Heard
<1> SUFFICES ASSUME NEW k \in FieldCalls, typesPc'[k] = "done", NEW f \in missing'[k]
             PROVE  f \in DOMAIN typesResult'[k]
                    /\ typesResult'[k][f] \in Types!Heard(ClientOf[k], f)'
  BY DEF Types!OwnAnswers
<1>2. ClientOf[k] \in FieldClients /\ f \in FieldNames
  BY DEF Types!FieldConstants
<1>3. CASE typesPc[k] = "done" /\ f \in missing[k] /\ typesResult'[k] = typesResult[k]
  BY <1>1, <1>2, <1>3 DEF Types!OwnAnswers
<1> QED
  BY <1>3

\* A field's type changes: the new one is told, and the answers on their way stay.
LEMMA TypesAlter ==
  ASSUME Types!FieldConstants, Types!IInv,
         NEW c \in FieldClients, NEW f \in FieldNames, NEW t \in FieldTypes \cup {NoField},
         Types!Alter(c, f, t)
  PROVE  Types!IInv'
<1>1. /\ ttype' \in [FieldClients -> [FieldNames -> FieldTypes \cup {NoField}]]
      /\ told' \in [FieldClients -> [FieldNames -> SUBSET (FieldTypes \cup {NoField})]]
      /\ changes' \in Nat
      /\ \A d \in FieldClients, g \in FieldNames : told[d][g] \subseteq told'[d][g]
      /\ \A d \in FieldClients, g \in FieldNames : ttype'[d][g] \in told'[d][g]
  BY DEF Types!IInv, Types!TypeOK, Types!Answers, Types!Alter
<1>2. Types!TypeOK'
  BY <1>1 DEF Types!IInv, Types!TypeOK, Types!Alter
<1>3. Types!Answers'
  BY <1>1 DEF Types!IInv, Types!TypeOK, Types!Answers, Types!Alter, Types!FieldConstants
<1>4. Types!OwnAnswers'
  BY <1>1, HeardGrows DEF Types!IInv, Types!TypeOK, Types!Alter, Types!FieldConstants
<1> QED
  BY <1>2, <1>3, <1>4 DEF Types!IInv

\* A call reads the cache, which has been heard.
LEMMA TypesLookUp ==
  ASSUME Types!FieldConstants, Types!IInv, NEW k \in FieldCalls, Types!LookUp(k)
  PROVE  Types!IInv'
<1>1. Types!TypeOK'
  <2>1. /\ missing' \in [FieldCalls -> SUBSET FieldNames]
        /\ typesPc' \in [FieldCalls -> {"idle", "fetching", "answered", "done", "failed"}]
    BY DEF Types!IInv, Types!TypeOK, Types!LookUp, Types!FieldConstants
  <2>2. \A j \in FieldCalls : DOMAIN typesResult'[j] \subseteq Names[j]
    BY DEF Types!IInv, Types!TypeOK, Types!Answers, Types!LookUp
  <2>3. \A j \in FieldCalls : DOMAIN records'[j] \subseteq missing'[j]
    BY DEF Types!IInv, Types!TypeOK, Types!Answers, Types!LookUp
  <2> QED
    BY <2>1, <2>2, <2>3 DEF Types!IInv, Types!TypeOK, Types!LookUp
<1>2. Types!Answers'
  BY DEF Types!IInv, Types!TypeOK, Types!Answers, Types!LookUp, Types!FieldConstants
<1>3. Types!OwnAnswers'
  BY HeardGrows DEF Types!IInv, Types!TypeOK, Types!Answers, Types!LookUp, Types!FieldConstants
<1> QED
  BY <1>1, <1>2, <1>3 DEF Types!IInv

\* A server answers with the types it has, which it has told.
LEMMA TypesServe ==
  ASSUME Types!FieldConstants, Types!IInv, NEW k \in FieldCalls, Types!Serve(k)
  PROVE  Types!IInv'
<1>1. Types!TypeOK'
  BY DEF Types!IInv, Types!TypeOK, Types!Answers, Types!Serve, Types!FieldConstants
<1>2. Types!Answers'
  BY DEF Types!IInv, Types!TypeOK, Types!Answers, Types!Serve, Types!FieldConstants
<1>3. Types!OwnAnswers'
  BY HeardGrows DEF Types!IInv, Types!TypeOK, Types!Serve, Types!FieldConstants
<1> QED
  BY <1>1, <1>2, <1>3 DEF Types!IInv

\* What is put into the cache and the result is the answer, and "char" for what
\* the answer lacks, which the database was without.
LEMMA TypesFetched ==
  ASSUME Types!FieldConstants, Types!IInv, NEW k \in FieldCalls, Types!Fetched(k)
  PROVE  Types!IInv'
<1>1. /\ DOMAIN Types!Filled(k) = missing[k]
      /\ missing[k] \subseteq Names[k]
      /\ Names[k] \subseteq FieldNames
      /\ ClientOf[k] \in FieldClients
      /\ \A f \in missing[k] : Types!Filled(k)[f] \in Types!Heard(ClientOf[k], f)
  BY DEF Types!IInv, Types!TypeOK, Types!Answers, Types!Fetched, Types!FieldConstants,
     Types!Filled, Types!Heard
<1>2. \A f \in missing[k] : Types!Filled(k)[f] \in FieldTypes
  BY <1>1 DEF Types!Heard
<1>3. /\ DOMAIN _cache' = DOMAIN _cache \cup missing[k]
      /\ \A f \in DOMAIN _cache' :
           _cache'[f] = IF f \in missing[k] THEN Types!Filled(k)[f] ELSE _cache[f]
  BY <1>1 DEF Types!Fetched, Types!Update
<1>4. /\ DOMAIN typesResult' = FieldCalls
      /\ DOMAIN typesResult'[k] = DOMAIN typesResult[k] \cup missing[k]
      /\ \A f \in DOMAIN typesResult'[k] :
           typesResult'[k][f] = IF f \in missing[k] THEN Types!Filled(k)[f] ELSE typesResult[k][f]
      /\ \A j \in FieldCalls \ {k} : typesResult'[j] = typesResult[j]
  BY <1>1 DEF Types!IInv, Types!Answers, Types!Fetched, Types!Update
<1>5. Types!TypeOK'
  <2>1. DOMAIN _cache' \subseteq FieldNames /\ \A f \in DOMAIN _cache' : _cache'[f] \in FieldTypes
    BY <1>1, <1>2, <1>3 DEF Types!IInv, Types!TypeOK
  <2>2. \A j \in FieldCalls : DOMAIN typesResult'[j] \subseteq Names[j]
    BY <1>1, <1>4 DEF Types!IInv, Types!TypeOK
  <2>3. typesPc' \in [FieldCalls -> {"idle", "fetching", "answered", "done", "failed"}]
    BY DEF Types!IInv, Types!TypeOK, Types!Fetched
  <2> QED
    BY <2>1, <2>2, <2>3 DEF Types!IInv, Types!TypeOK, Types!Fetched
<1>6. Types!Answers'
  BY <1>4 DEF Types!IInv, Types!TypeOK, Types!Answers, Types!Fetched
<1>7. Types!OwnAnswers'
  <2>1. \A c \in FieldClients, f \in FieldNames : Types!Heard(c, f)' = Types!Heard(c, f)
    BY DEF Types!Heard, Types!Fetched
  <2>2. \A f \in missing[k] :
          f \in DOMAIN typesResult'[k] /\ typesResult'[k][f] \in Types!Heard(ClientOf[k], f)'
    BY <1>1, <1>4, <2>1
  <2>3. /\ missing' = missing /\ told' = told
           /\ \A j \in FieldCalls : missing[j] \subseteq FieldNames
        /\ \A j \in FieldCalls \ {k} : typesPc'[j] = typesPc[j] /\ typesResult'[j] = typesResult[j]
    BY <1>4 DEF Types!IInv, Types!TypeOK, Types!Fetched
  <2> QED
    BY <2>2, <2>3, HeardGrows DEF Types!IInv
<1> QED
  BY <1>5, <1>6, <1>7 DEF Types!IInv

\* Every step of the field cache keeps its invariant.
LEMMA TypesStep ==
  ASSUME Types!FieldConstants, Types!IInv, [Types!Next]_(Types!vars)
  PROVE  Types!IInv'
<1>1. CASE \E c \in FieldClients, f \in FieldNames,
        t \in FieldTypes \cup {NoField} : Types!Alter(c, f, t)
  BY <1>1, TypesAlter
<1>2. CASE Types!ClearCache
  <2>1. Types!TypeOK' /\ Types!Answers'
    BY <1>2 DEF Types!IInv, Types!TypeOK, Types!Answers, Types!ClearCache, Types!Nothing
  <2>2. Types!OwnAnswers'
    BY <1>2, HeardGrows DEF Types!IInv, Types!TypeOK, Types!ClearCache, Types!Nothing,
       Types!FieldConstants
  <2> QED
    BY <2>1, <2>2 DEF Types!IInv
<1>3. CASE \E k \in FieldCalls : Types!LookUp(k)
  BY <1>3, TypesLookUp
<1>4. CASE \E k \in FieldCalls : Types!Serve(k)
  BY <1>4, TypesServe
<1>5. CASE \E k \in FieldCalls : Types!FetchFails(k)
  <2>1. Types!TypeOK' /\ Types!Answers'
    BY <1>5 DEF Types!IInv, Types!TypeOK, Types!Answers, Types!FetchFails
  <2>2. Types!OwnAnswers'
    BY <1>5 DEF Types!IInv, Types!OwnAnswers, Types!Heard, Types!FetchFails
  <2> QED
    BY <2>1, <2>2 DEF Types!IInv
<1>6. CASE \E k \in FieldCalls : Types!Fetched(k)
  BY <1>6, TypesFetched
<1>same. CASE UNCHANGED Types!vars
  <2>1. Types!TypeOK'
    BY <1>same DEF Types!vars, Types!IInv, Types!TypeOK
  <2>2. Types!Answers'
    BY <1>same DEF Types!vars, Types!IInv, Types!Answers
  <2>3. Types!OwnAnswers'
    BY <1>same DEF Types!vars, Types!IInv, Types!OwnAnswers, Types!Heard
  <2> QED
    BY <2>1, <2>2, <2>3 DEF Types!IInv
<1> QED
  BY <1>same, <1>1, <1>2, <1>3, <1>4, <1>5, <1>6 DEF Types!Next
=============================================================================
