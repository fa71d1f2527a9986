------------------------ MODULE PropertyPatchProofs ------------------------
(***************************************************************************)
(* Read-merge-write is right for any operations, records, definitions and  *)
(* patches, and any number of changes by others.                           *)
(***************************************************************************)
EXTENDS PropertyPatch, TLAPS

\* Nothing has happened yet.
LEMMA InitIInv == Init => IInv
<1> SUFFICES ASSUME Init PROVE IInv
  OBVIOUS
<1>1. PICK s \in InitialServers :
        defs = s.defs /\ parent = s.parent /\ stored = s.stored /\ binding = s.defs[Home]
  BY DEF Init
<1>2. /\ defs \in [Parents -> Definitions] /\ binding \in Definitions
      /\ parent \in [Records -> Parents \cup {None, Gone}]
      /\ stored \in [Records -> [Props -> Values]]
      /\ ~Drifted(binding)
  BY <1>1, ServersAssumption, PatchAssumption
<1>3. program \in Programs /\ edits \in 0..MaxEdits /\ version \in [Records -> Nat]
  BY PatchAssumption DEF Init, MaxEdits
<1>4. DOMAIN input = Ops /\ \A o \in Ops : input[o] \in Inputs[o]
  BY DEF Init
<1>5. TypeOK
  BY <1>2, <1>3, <1>4 DEF Init, TypeOK, NoRows, Waiting
<1>6. \A o \in Ops : OpInv(o)
  BY DEF Init, OpInv, Answered, Vetted, WritesPrepared, Wrote, Waiting
<1> QED
  BY <1>2, <1>5, <1>6 DEF IInv

\* The records have not changed, or their versions have.
Advances ==
  \A r \in Records : /\ version'[r] \in Nat /\ version[r] <= version'[r]
                     /\ version'[r] = version[r] => stored'[r] = stored[r]

\* A step leaves what operation u holds as it is; only the mapping it was passed may
\* change while it waits for a read.
Keeps(u) ==
  /\ \/ input'[u] = input[u]
     \/ pc[u] \in Waiting /\ (Style[u] = "single" => DOMAIN input'[u] = DOMAIN input[u])
  /\ pc'[u] = pc[u] /\ asked'[u] = asked[u] /\ patches'[u] = patches[u]
  /\ snapshot'[u] = snapshot[u] /\ reply'[u] = reply[u] /\ rows'[u] = rows[u] /\ payloads'[u] = payloads[u]
  /\ fate'[u] = fate[u]

\* What was read of a record stays what the record was.
LEMMA RowStays ==
  ASSUME Advances, NEW row, NEW r \in Records, RowOnce(row, r), version[r] \in Nat
  PROVE  RowOnce(row, r)'
BY DEF Advances, RowOnce

\* A step that keeps what an operation holds keeps its invariant.
LEMMA OpStays ==
  ASSUME IInv, NEW u \in Ops, Keeps(u), Advances, program' = program
  PROVE  OpInv(u)'
<1> USE DEF Keeps
<1>0. \A r \in Records : version[r] \in Nat
  BY DEF IInv, TypeOK
<1>1. Style' = Style /\ Inputs' = Inputs
  BY DEF Style, Inputs
<1>2. patches[u] \in Inputs[u] => DOMAIN patches[u] \subseteq Records
  BY PatchAssumption DEF IInv, TypeOK, Inputs, IsInput
<1>3. Answered(u)'
  <2>1. pc[u] = "reading" => patches[u] \in Inputs[u]
    BY DEF IInv, OpInv, Vetted, Waiting
  <2>2. \A r \in Records : \A row : RowOnce(row, r) => RowOnce(row, r)'
    BY <1>0, RowStays
  <2> QED
    BY <1>2, <2>1, <2>2 DEF IInv, OpInv, Answered
<1>4. Vetted(u)'
  <2>1. pc[u] = "loading" =>
          \A r \in DOMAIN rows[u] : RowOnce(rows[u][r], r)' /\ rows[u][r].parent \in Parents
    <3> SUFFICES ASSUME pc[u] = "loading", NEW r \in DOMAIN rows[u]
                 PROVE  RowOnce(rows[u][r], r)' /\ rows[u][r].parent \in Parents
      OBVIOUS
    <3>1. r \in Records /\ RowOnce(rows[u][r], r) /\ rows[u][r].parent \in Parents
      BY <1>2 DEF IInv, OpInv, Vetted, Waiting
    <3> QED
      BY <3>1, <1>0, RowStays
  <2>2. (pc[u] = "reading" /\ Style[u] \in {"bound", "retained"} =>
           /\ snapshot[u] \in Definitions /\ ~Drifted(snapshot[u])
           /\ \A r \in DOMAIN patches[u] : Acceptable(patches[u][r], snapshot[u]))'
    BY <1>1 DEF IInv, OpInv, Vetted
  <2>3. (pc[u] \in Waiting =>
           /\ patches[u] \in Inputs[u] /\ asked[u] = patches[u]
           /\ Style[u] = "single" => DOMAIN input[u] = DOMAIN patches[u]
           /\ Style[u] = "direct" => \A r \in DOMAIN patches[u] : DOMAIN patches[u][r] # {})'
    BY <1>1 DEF IInv, OpInv, Vetted
  <2> QED
    BY <1>1, <2>1, <2>2, <2>3 DEF IInv, OpInv, Vetted
<1>5. Wrote(u)' = Wrote(u)
  BY DEF Wrote
<1>6. Prepared(u) /\ input'[u] = input[u] => Prepared(u)'
  <2>2. \A r \in Records : \A row : RowOnce(row, r) => RowOnce(row, r)'
    BY <1>0, RowStays
  <2> QED
    BY <1>1, <1>2, <2>2 DEF Prepared, Payload, Sources
<1>7. WritesPrepared(u)'
  BY <1>5, <1>6 DEF IInv, OpInv, WritesPrepared, Waiting
<1> QED
  BY <1>3, <1>4, <1>7 DEF OpInv

\* What a step of operation o that changes nothing on the server has to show.
LEMMA ClientStep ==
  ASSUME IInv, NEW o \in Ops, UNCHANGED <<program, server, edits>>,
         TypeOK', ~Drifted(binding)', OpInv(o)',
         \A u \in Ops \ {o} : Keeps(u)
  PROVE  IInv'
<1>1. Advances
  BY DEF Advances, server, IInv, TypeOK
<1>2. \A u \in Ops \ {o} : OpInv(u)'
  BY <1>1, OpStays
<1> QED
  BY <1>2 DEF IInv

\* An operation that fails has written nothing.
LEMMA LeaveIInv ==
  ASSUME IInv, NEW o \in Ops, Leave(o), pc[o] \in Waiting \cup {"idle"},
         binding' \in Definitions, ~Drifted(binding'),
         UNCHANGED <<program, server, edits, input, fate>>
  PROVE  IInv'
<1>1. Inputs' = Inputs /\ MaxEdits' = MaxEdits
  BY DEF Inputs, MaxEdits
<1>2. TypeOK'
  BY <1>1 DEF IInv, TypeOK, Leave, server, NoRows
<1>3. ~Wrote(o)
  BY DEF IInv, OpInv, WritesPrepared, Waiting
<1>4. pc'[o] = "failed" /\ reply'[o] = None /\ ~Wrote(o)'
  BY <1>3 DEF Leave, IInv, TypeOK, Wrote
<1>5. OpInv(o)'
  BY <1>4 DEF OpInv, Answered, Vetted, WritesPrepared, Wrote, Waiting
<1>6. \A u \in Ops \ {o} : Keeps(u)
  BY DEF Keeps, Leave, IInv, TypeOK
<1> QED
  BY <1>2, <1>5, <1>6, ClientStep

\* The caller's mapping is copied, and vetted against what the binding retains.
LEMMA CallIInv ==
  ASSUME IInv, NEW o \in Ops, Call(o), UNCHANGED program
  PROVE  IInv'
<1>0. /\ pc[o] = "idle" /\ UNCHANGED <<reply, rows, payloads, server, edits, input, fate>>
      /\ reply[o] = None /\ ~Wrote(o)
  BY DEF Call, IInv, OpInv, Answered, WritesPrepared, Waiting
<1>1. Inputs' = Inputs /\ MaxEdits' = MaxEdits /\ Style' = Style
  BY DEF Inputs, MaxEdits, Style
<1>2. input[o] \in Inputs[o] /\ Takes(Style[o], input[o])
  BY PatchAssumption DEF IInv, TypeOK, Inputs, Style
<1>w. ~Wrote(o)' /\ \A r \in Records : fate'[o][r] = "unsent"
  BY <1>0 DEF Wrote
<1>3. CASE /\ NothingToDo(o) /\ pc' = [pc EXCEPT ![o] = "done"]
           /\ UNCHANGED <<asked, patches, snapshot, binding>>
  <2>1. TypeOK'
    BY <1>0, <1>1, <1>3 DEF IInv, TypeOK, server
  <2>2. pc'[o] = "done" /\ reply'[o] = None
    BY <1>0, <1>3 DEF IInv, TypeOK
  <2>3. OpInv(o)'
    BY <1>w, <2>2 DEF OpInv, Answered, Vetted, WritesPrepared, Waiting
  <2>4. \A u \in Ops \ {o} : Keeps(u)
    BY <1>0, <1>3 DEF Keeps, IInv, TypeOK
  <2>5. ~Drifted(binding)'
    BY <1>3 DEF IInv
  <2> QED
    BY <1>0, <2>1, <2>3, <2>4, <2>5, ClientStep
<1>4. CASE /\ ~NothingToDo(o)
           /\ Style[o] = "retained" =>
                \A r \in DOMAIN input[o] : Acceptable(input[o][r], binding)
           /\ pc' = [pc EXCEPT ![o] = IF Style[o] = "bound" THEN "refreshing" ELSE "reading"]
           /\ asked' = [asked EXCEPT ![o] = input[o]]
           /\ patches' = [patches EXCEPT ![o] = input[o]]
           /\ snapshot' = [snapshot EXCEPT ![o] = IF Style[o] = "retained" THEN binding ELSE None]
           /\ UNCHANGED binding
  <2>1. TypeOK'
    BY <1>0, <1>1, <1>2, <1>4 DEF IInv, TypeOK, server, Waiting
  <2>2. /\ pc'[o] = IF Style[o] = "bound" THEN "refreshing" ELSE "reading"
        /\ patches'[o] = input[o] /\ asked'[o] = input[o] /\ input'[o] = input[o]
        /\ reply'[o] = None
        /\ Style[o] = "retained" => snapshot'[o] = binding
    BY <1>0, <1>4 DEF IInv, TypeOK
  <2>3. Style[o] = "direct" => \A r \in DOMAIN input[o] : DOMAIN input[o][r] # {}
    BY <1>2, <1>4 DEF NothingToDo, Takes, Legacy
  <2>4. Vetted(o)'
    BY <1>1, <1>2, <1>4, <2>2, <2>3 DEF Vetted, IInv, TypeOK
  <2>5. Answered(o)' /\ WritesPrepared(o)'
    BY <1>w, <2>2 DEF Answered, WritesPrepared, Waiting
  <2>6. \A u \in Ops \ {o} : Keeps(u)
    BY <1>0, <1>4 DEF Keeps, IInv, TypeOK
  <2>7. ~Drifted(binding)'
    BY <1>4 DEF IInv
  <2> QED
    BY <1>0, <2>1, <2>4, <2>5, <2>6, <2>7, ClientStep DEF OpInv
<1>5. CASE Fail(o)
  BY <1>0, <1>5, LeaveIInv DEF Fail, IInv, TypeOK
<1> QED
  BY <1>3, <1>4, <1>5 DEF Call

\* What a read returns is what is there.
LEMMA RowNow ==
  ASSUME IInv, NEW r \in Records PROVE RowOnce(RowOf(r), r)
BY DEF IInv, TypeOK, RowOf, RowOnce, Undefined, Definitions

LEMMA ServeIInv ==
  ASSUME IInv, NEW o \in Ops, Serve(o), UNCHANGED program
  PROVE  IInv'
<1>0. /\ reply[o] = None /\ pc[o] \in Waiting
      /\ UNCHANGED <<server, edits, input, pc, asked, patches, binding, snapshot, rows, payloads,
                     fate>>
  BY DEF Serve, Waiting
<1>1. Inputs' = Inputs /\ MaxEdits' = MaxEdits /\ Style' = Style
  BY DEF Inputs, MaxEdits, Style
<1>2. DOMAIN reply' = Ops /\ \A u \in Ops \ {o} : reply'[u] = reply[u]
  BY DEF Serve, IInv, TypeOK
<1>3. TypeOK'
  BY <1>0, <1>1, <1>2 DEF IInv, TypeOK, server
<1>4. \A row, r : RowOnce(row, r)' = RowOnce(row, r)
  BY <1>0 DEF RowOnce, server
<1>5. Vetted(o)'
  BY <1>0, <1>1, <1>4 DEF IInv, OpInv, Vetted
<1>6. WritesPrepared(o)'
  BY <1>0, <1>1, <1>4 DEF IInv, OpInv, WritesPrepared, Wrote, Prepared, Payload, Sources
<1>7. Answered(o)'
  <2>1. CASE pc[o] = "refreshing" /\ reply' = [reply EXCEPT ![o] = defs[Home]]
    BY <1>0, <2>1, PatchAssumption DEF IInv, TypeOK, Answered, Waiting
  <2>2. CASE pc[o] = "loading" /\ \E r \in DOMAIN rows[o] :
               reply' = [reply EXCEPT ![o] = defs[rows[o][r].parent]]
    BY <1>0, <2>2 DEF IInv, TypeOK, Answered, Waiting, OpInv, Vetted
  <2>3. CASE /\ pc[o] = "reading"
             /\ reply' = [reply EXCEPT ![o] =
                            [r \in {q \in DOMAIN patches[o] : parent[q] # Gone} |-> RowOf(r)]]
    <3>1. reply'[o] = [r \in {q \in DOMAIN patches[o] : parent[q] # Gone} |-> RowOf(r)]
      BY <2>3 DEF IInv, TypeOK
    <3>2. DOMAIN patches[o] \subseteq Records
      BY <2>3, PatchAssumption DEF IInv, TypeOK, OpInv, Vetted, Waiting, Inputs, IsInput
    <3>3. /\ DOMAIN reply'[o] \subseteq DOMAIN patches[o]
          /\ \A r \in DOMAIN reply'[o] : RowOnce(reply'[o][r], r)
      BY <3>1, <3>2, RowNow
    <3> QED
      BY <1>0, <1>4, <2>3, <3>3 DEF Answered, Waiting
  <2> QED
    BY <2>1, <2>2, <2>3 DEF Serve
<1>8. \A u \in Ops \ {o} : Keeps(u)
  BY <1>0, <1>2 DEF Keeps
<1>9. ~Drifted(binding)'
  BY <1>0 DEF IInv
<1> QED
  BY <1>0, <1>3, <1>5, <1>6, <1>7, <1>8, <1>9, ClientStep DEF OpInv

\* The binding takes only definitions without a drifted alias.
LEMMA RefreshedIInv ==
  ASSUME IInv, NEW o \in Ops, Refreshed(o), UNCHANGED program
  PROVE  IInv'
<1>0. /\ pc[o] = "refreshing" /\ reply[o] # None
      /\ binding' = IF Drifted(reply[o]) THEN binding ELSE reply[o]
      /\ UNCHANGED <<server, edits, input, fate>>
      /\ reply[o] \in Definitions /\ ~Wrote(o)
  BY DEF Refreshed, IInv, OpInv, Answered, WritesPrepared
<1>1. Inputs' = Inputs /\ MaxEdits' = MaxEdits /\ Style' = Style
  BY DEF Inputs, MaxEdits, Style
<1>2. binding' \in Definitions /\ ~Drifted(binding')
  BY <1>0 DEF IInv, TypeOK
<1>3. CASE Leave(o)
  BY <1>0, <1>2, <1>3, LeaveIInv DEF Waiting
<1>4. CASE /\ ~Drifted(reply[o]) /\ ReadNext(o)
           /\ \A r \in DOMAIN patches[o] : Acceptable(patches[o][r], reply[o])
  <2>1. /\ pc'[o] = "reading" /\ reply'[o] = None /\ snapshot'[o] = reply[o]
        /\ UNCHANGED <<asked, patches, rows, payloads>>
    BY <1>4 DEF ReadNext, IInv, TypeOK
  <2>2. TypeOK'
    BY <1>0, <1>1, <1>2, <1>4 DEF ReadNext, IInv, TypeOK, server, Waiting
  <2>3. Vetted(o)'
    BY <1>0, <1>1, <1>4, <2>1 DEF IInv, OpInv, Vetted, Waiting
  <2>4. Answered(o)' /\ WritesPrepared(o)'
    BY <1>0, <2>1 DEF IInv, OpInv, Answered, WritesPrepared, Wrote, Waiting
  <2>5. \A u \in Ops \ {o} : Keeps(u)
    BY <1>0, <1>4 DEF Keeps, ReadNext, IInv, TypeOK
  <2> QED
    BY <1>0, <1>2, <2>2, <2>3, <2>4, <2>5, ClientStep DEF OpInv
<1> QED
  BY <1>3, <1>4 DEF Refreshed

\* Payloads are computed from rows that were vetted: the operation may write.
LEMMA StartWritesIInv ==
  ASSUME IInv, NEW o \in Ops, NEW new, StartWrites(o, new),
         pc[o] \in {"reading", "loading"},
         DOMAIN patches' = Ops, patches'[o] \in Inputs[o], patches'[o] \in Sources(o),
         DOMAIN patches'[o] = DOMAIN patches[o],
         \A u \in Ops \ {o} : patches'[u] = patches[u],
         DOMAIN rows' = Ops, \A u \in Ops \ {o} : rows'[u] = rows[u],
         snapshot' \in [Ops -> Definitions \cup {None}],
         \A u \in Ops \ {o} : snapshot'[u] = snapshot[u],
         DOMAIN rows'[o] = DOMAIN patches[o],
         \A r \in DOMAIN rows'[o] : RowOnce(rows'[o][r], r),
         Style[o] \notin Legacy =>
           \A r \in DOMAIN patches[o] : Decodable(rows'[o][r], snapshot'[o]),
         Style[o] \in {"bound", "retained"} =>
           /\ ~Drifted(snapshot'[o])
           /\ \A r \in DOMAIN patches[o] : rows'[o][r].parent = Home,
         \A r \in DOMAIN new :
           /\ r \in DOMAIN patches[o]
           /\ Style[o] \notin Legacy => DOMAIN patches'[o][r] # {}
           /\ DOMAIN new[r] = Defined(rows'[o][r].meta) \cup DOMAIN patches'[o][r]
           /\ \A p \in DOMAIN new[r] :
                new[r][p] = IF p \in DOMAIN patches'[o][r] THEN patches'[o][r][p]
                                                          ELSE rows'[o][r].values[p],
         UNCHANGED <<program, server, edits, input, fate, binding>>
  PROVE  IInv'
<1>1. Inputs' = Inputs /\ MaxEdits' = MaxEdits /\ Style' = Style
  BY DEF Inputs, MaxEdits, Style
<1>2. /\ pc'[o] = "writing" /\ payloads'[o] = new /\ reply'[o] = None
      /\ asked' = asked /\ asked[o] = patches[o]
      /\ pc' = [pc EXCEPT ![o] = "writing"] /\ payloads' = [payloads EXCEPT ![o] = new]
      /\ reply' = [reply EXCEPT ![o] = None]
  BY DEF StartWrites, IInv, TypeOK, OpInv, Vetted, Waiting
<1>3. patches[o] \in Inputs[o] /\ DOMAIN patches[o] \subseteq Records
  BY PatchAssumption DEF IInv, TypeOK, OpInv, Vetted, Waiting, Inputs, IsInput
<1>4. DOMAIN new \subseteq Records
  BY <1>3
<1>5. ~Wrote(o)
  BY DEF IInv, OpInv, WritesPrepared
<1>p. \A u \in Ops : patches'[u] \in Inputs[u] \cup {NoRows}
  BY DEF IInv, TypeOK
<1>6. TypeOK'
  BY <1>1, <1>2, <1>3, <1>4, <1>p DEF IInv, TypeOK, server
<1>7. \A row, r : RowOnce(row, r)' = RowOnce(row, r)
  BY DEF RowOnce, server
<1>s. /\ (patches[o] \in Inputs[o] /\ patches[o] \in Sources(o))'
      /\ (DOMAIN asked[o] = DOMAIN patches[o] /\ DOMAIN rows[o] = DOMAIN patches[o])'
  BY <1>1, <1>2 DEF Sources
<1>r. (\A r \in DOMAIN rows[o] : RowOnce(rows[o][r], r))'
  BY <1>7
<1>o. (\A r \in DOMAIN payloads[o] : Payload(o, r))'
  BY <1>1, <1>2 DEF Payload
<1>8. Prepared(o)'
  BY <1>1, <1>2, <1>s, <1>r, <1>o DEF Prepared
<1>9. WritesPrepared(o)'
  BY <1>2, <1>5, <1>8 DEF WritesPrepared, Wrote
<1>10. Answered(o)' /\ Vetted(o)'
  BY <1>2 DEF Answered, Vetted, Waiting
<1>11. \A u \in Ops \ {o} : Keeps(u)
  BY <1>2 DEF Keeps, IInv, TypeOK
<1>12. ~Drifted(binding)'
  BY DEF IInv
<1> QED
  BY <1>6, <1>9, <1>10, <1>11, <1>12, ClientStep DEF OpInv

\* The rows of the answer are vetted as a whole.
LEMMA RowsReadIInv ==
  ASSUME IInv, NEW o \in Ops, RowsRead(o), UNCHANGED program
  PROVE  IInv'
<1> DEFINE got == reply[o]
<1>0. /\ pc[o] = "reading" /\ got # None
      /\ UNCHANGED <<server, edits, input, fate>>
  BY DEF RowsRead
<1>1. /\ DOMAIN got \subseteq DOMAIN patches[o]
      /\ \A r \in DOMAIN got : RowOnce(got[r], r)
      /\ patches[o] \in Inputs[o]
      /\ Style[o] = "direct" => \A r \in DOMAIN patches[o] : DOMAIN patches[o][r] # {}
      /\ Style[o] \in {"bound", "retained"} =>
           /\ snapshot[o] \in Definitions /\ ~Drifted(snapshot[o])
           /\ \A r \in DOMAIN patches[o] : Acceptable(patches[o][r], snapshot[o])
  BY <1>0 DEF IInv, OpInv, Answered, Vetted, Waiting
<1>2. /\ DOMAIN patches[o] \subseteq Records
      /\ \A r \in DOMAIN patches[o] : DOMAIN patches[o][r] \subseteq Props
  BY <1>1, PatchAssumption DEF IInv, TypeOK, Inputs, IsInput
<1>3. Missing(o, got) = {} => DOMAIN got = DOMAIN patches[o]
  BY <1>1 DEF Missing
<1>4. ASSUME rows' = [rows EXCEPT ![o] = got], Missing(o, got) = {}
      PROVE  /\ DOMAIN rows' = Ops /\ \A u \in Ops \ {o} : rows'[u] = rows[u]
             /\ rows'[o] = got /\ DOMAIN rows'[o] = DOMAIN patches[o]
             /\ \A r \in DOMAIN rows'[o] : RowOnce(rows'[o][r], r)
  BY <1>1, <1>3, <1>4 DEF IInv, TypeOK
<1>f. CASE Fail(o)
  BY <1>0, <1>f, LeaveIInv DEF Fail, IInv, TypeOK, Waiting
<1>5. CASE /\ Style[o] \in {"bound", "retained"}
           /\ Missing(o, got) = {}
           /\ \A r \in DOMAIN patches[o] \cap DOMAIN got :
                got[r].parent = Home /\ Decodable(got[r], snapshot[o])
           /\ StartWrites(o, [r \in Changed(o) |-> Merge(got[r], Taken(o)[r], snapshot[o])])
           /\ rows' = [rows EXCEPT ![o] = got]
           /\ UNCHANGED <<patches, binding, snapshot>>
  <2> DEFINE new == [r \in Changed(o) |-> Merge(got[r], patches[o][r], snapshot[o])]
  <2>1. \A r \in DOMAIN patches[o] :
          /\ got[r].parent = Home /\ Decodable(got[r], snapshot[o])
          /\ Defined(got[r].meta) = Defined(snapshot[o])
          /\ DOMAIN patches[o][r] \subseteq Defined(snapshot[o])
    BY <1>1, <1>3, <1>5 DEF Decodable, Acceptable
  <2>2. \A r \in DOMAIN new :
          /\ r \in DOMAIN patches[o]
          /\ DOMAIN patches[o][r] # {}
          /\ DOMAIN new[r] = Defined(got[r].meta) \cup DOMAIN patches[o][r]
          /\ \A p \in DOMAIN new[r] :
               new[r][p] = IF p \in DOMAIN patches[o][r] THEN patches[o][r][p] ELSE got[r].values[p]
    BY <2>1 DEF Changed, Merge
  <2> HIDE DEF new
  <2>3. StartWrites(o, new)
    BY <1>5 DEF new, Taken
  <2> QED
    <3>1. /\ rows'[o] = got /\ DOMAIN rows' = Ops /\ DOMAIN rows'[o] = DOMAIN patches[o]
          /\ \A u \in Ops \ {o} : rows'[u] = rows[u]
          /\ \A r \in DOMAIN rows'[o] : RowOnce(rows'[o][r], r)
      BY <1>4, <1>5
    <3>2. /\ snapshot' = snapshot /\ binding' = binding
          /\ snapshot \in [Ops -> Definitions \cup {None}]
          /\ patches' = patches /\ DOMAIN patches = Ops
      BY <1>5 DEF IInv, TypeOK
    <3>3. Style[o] \notin Legacy /\ patches[o] \in Sources(o)
      BY <1>0, <1>5 DEF Legacy, Sources, IInv, OpInv, Vetted, Waiting
    <3> HIDE DEF got
    <3> QED
      BY <1>0, <1>1, <2>1, <2>2, <2>3, <3>1, <3>2, <3>3, StartWritesIInv
<1>6. CASE /\ Style[o] = "direct"
           /\ Missing(o, got) = {}
           /\ \A r \in DOMAIN patches[o] : got[r].parent \in Parents
           /\ pc' = [pc EXCEPT ![o] = "loading"]
           /\ rows' = [rows EXCEPT ![o] = got]
           /\ reply' = [reply EXCEPT ![o] = None]
           /\ UNCHANGED <<asked, patches, binding, snapshot, payloads>>
  <2>1. Inputs' = Inputs /\ MaxEdits' = MaxEdits /\ Style' = Style
    BY DEF Inputs, MaxEdits, Style
  <2>2. /\ pc'[o] = "loading" /\ reply'[o] = None
        /\ rows'[o] = got /\ DOMAIN got = DOMAIN patches[o]
        /\ DOMAIN rows' = Ops /\ \A u \in Ops \ {o} : rows'[u] = rows[u]
    BY <1>3, <1>6 DEF IInv, TypeOK
  <2>3. TypeOK'
    BY <1>0, <1>2, <1>6, <2>1, <2>2 DEF IInv, TypeOK, server, Waiting
  <2>4. \A row, r : RowOnce(row, r)' = RowOnce(row, r)
    BY <1>0 DEF RowOnce, server
  <2>w. /\ asked' = asked /\ patches' = patches /\ input' = input
        /\ asked[o] = patches[o] /\ patches[o] \in Inputs[o]
    BY <1>0, <1>6 DEF IInv, OpInv, Vetted, Waiting
  <2>5. Vetted(o)'
    BY <1>1, <1>6, <2>1, <2>2, <2>4, <2>w DEF Vetted
  <2>6. Answered(o)' /\ WritesPrepared(o)'
    BY <1>0, <2>2 DEF IInv, OpInv, Answered, WritesPrepared, Wrote, Waiting
  <2>7. \A u \in Ops \ {o} : Keeps(u)
    BY <1>0, <1>6 DEF Keeps, IInv, TypeOK
  <2>8. ~Drifted(binding)'
    BY <1>6 DEF IInv
  <2> QED
    BY <1>0, <2>3, <2>5, <2>6, <2>7, <2>8, ClientStep DEF OpInv
<1>7. CASE /\ Style[o] \in Legacy
           /\ Missing(o, got) = {}
           /\ StartWrites(o, [r \in DOMAIN patches[o] |-> LegacyMerge(got[r], Taken(o)[r])])
           /\ patches' = [patches EXCEPT ![o] = Taken(o)]
           /\ rows' = [rows EXCEPT ![o] = got]
           /\ UNCHANGED <<binding, snapshot>>
  <2> DEFINE took == Taken(o)
             new == [r \in DOMAIN patches[o] |-> LegacyMerge(got[r], took[r])]
  <2>1. \A r \in DOMAIN new :
          /\ r \in DOMAIN patches[o]
          /\ DOMAIN new[r] = Defined(got[r].meta) \cup DOMAIN took[r]
          /\ \A p \in DOMAIN new[r] :
               new[r][p] = IF p \in DOMAIN took[r] THEN took[r][p] ELSE got[r].values[p]
    BY DEF LegacyMerge
  <2> HIDE DEF new
  <2>2. StartWrites(o, new) /\ patches' = [patches EXCEPT ![o] = took]
    BY <1>7 DEF new
  <2>3. took \in Inputs[o] /\ took \in Sources(o) /\ DOMAIN took = DOMAIN patches[o]
    <3>1. /\ asked[o] = patches[o] /\ input[o] \in Inputs[o]
          /\ Style[o] = "single" => DOMAIN input[o] = DOMAIN patches[o]
      BY <1>0 DEF IInv, TypeOK, OpInv, Vetted, Waiting
    <3> QED
      BY <1>1, <3>1 DEF Taken, Sources
  <2> HIDE DEF took
  <2> QED
    <3>1. /\ rows'[o] = got /\ DOMAIN rows' = Ops /\ DOMAIN rows'[o] = DOMAIN patches[o]
          /\ \A u \in Ops \ {o} : rows'[u] = rows[u]
          /\ \A r \in DOMAIN rows'[o] : RowOnce(rows'[o][r], r)
      BY <1>4, <1>7
    <3>2. /\ snapshot' = snapshot /\ binding' = binding
          /\ snapshot \in [Ops -> Definitions \cup {None}]
          /\ patches'[o] = took /\ DOMAIN patches' = Ops
          /\ \A u \in Ops \ {o} : patches'[u] = patches[u]
      BY <1>7, <2>2 DEF IInv, TypeOK
    <3>3. Style[o] \in Legacy /\ Style[o] \notin {"bound", "retained"}
      BY <1>7 DEF Legacy
    <3> HIDE DEF got
    <3> QED
      BY <1>0, <2>1, <2>2, <2>3, <3>1, <3>2, <3>3, StartWritesIInv
<1> QED
  BY <1>f, <1>5, <1>6, <1>7 DEF RowsRead

\* The definitions of the parent the row named.
LEMMA LoadedIInv ==
  ASSUME IInv, NEW o \in Ops, Loaded(o), UNCHANGED program
  PROVE  IInv'
<1> DEFINE d == reply[o]
           new == [r \in DOMAIN patches[o] |-> Merge(rows[o][r], patches[o][r], d)]
<1>0. /\ pc[o] = "loading" /\ d # None
      /\ UNCHANGED <<server, edits, input, fate>>
  BY DEF Loaded
<1>1. /\ d \in Definitions /\ Style[o] = "direct"
      /\ \A r \in DOMAIN patches[o] : DOMAIN patches[o][r] # {}
      /\ DOMAIN rows[o] = DOMAIN patches[o]
      /\ \A r \in DOMAIN rows[o] : RowOnce(rows[o][r], r)
  BY <1>0 DEF IInv, OpInv, Answered, Vetted, Waiting
<1>2. CASE Fail(o)
  BY <1>0, <1>2, LeaveIInv DEF Fail, IInv, TypeOK, Waiting
<1>3. CASE /\ \A r \in DOMAIN patches[o] : Decodable(rows[o][r], d) /\ Acceptable(patches[o][r], d)
           /\ StartWrites(o, new)
           /\ snapshot' = [snapshot EXCEPT ![o] = d]
           /\ UNCHANGED <<patches, binding, rows>>
  <2>1. \A r \in DOMAIN patches[o] :
          /\ Defined(rows[o][r].meta) = Defined(d)
          /\ DOMAIN patches[o][r] \subseteq Defined(d)
    BY <1>3 DEF Decodable, Acceptable
  <2>2. \A r \in DOMAIN new :
          /\ r \in DOMAIN patches[o]
          /\ DOMAIN patches[o][r] # {}
          /\ DOMAIN new[r] = Defined(rows[o][r].meta) \cup DOMAIN patches[o][r]
          /\ \A p \in DOMAIN new[r] :
               new[r][p] = IF p \in DOMAIN patches[o][r] THEN patches[o][r][p]
                                                         ELSE rows[o][r].values[p]
    BY <1>1, <2>1 DEF Merge
  <2> HIDE DEF new
  <2>3. /\ snapshot' \in [Ops -> Definitions \cup {None}] /\ snapshot'[o] = d
        /\ \A u \in Ops \ {o} : snapshot'[u] = snapshot[u]
        /\ patches' = patches /\ DOMAIN patches = Ops
    BY <1>1, <1>3 DEF IInv, TypeOK
  <2>4. patches[o] \in Inputs[o] /\ patches[o] \in Sources(o) /\ Style[o] \notin Legacy
    BY <1>0, <1>1 DEF IInv, OpInv, Vetted, Waiting, Sources, Legacy
  <2>5. /\ StartWrites(o, new) /\ UNCHANGED <<rows, binding>> /\ DOMAIN rows = Ops
        /\ \A r \in DOMAIN patches[o] : Decodable(rows[o][r], snapshot'[o])
    BY <1>3, <2>3 DEF new, IInv, TypeOK
  <2>6. Style[o] \notin {"bound", "retained"}
    BY <1>1
  <2> HIDE DEF d
  <2> QED
    BY <1>0, <1>1, <2>2, <2>3, <2>4, <2>5, <2>6, StartWritesIInv
<1> QED
  BY <1>2, <1>3 DEF Loaded

\* Only payloads are sent.
LEMMA FateIInv ==
  ASSUME IInv, NEW o \in Ops, NEW r \in Records, NEW f \in {"open", "applied", "rejected"},
         fate[o][r] # "unsent" \/ (pc[o] = "writing" /\ r \in DOMAIN payloads[o]),
         fate' = [fate EXCEPT ![o][r] = f],
         UNCHANGED <<program, edits, input, client>>,
         TypeOK', Advances
  PROVE  IInv'
<1>1. UNCHANGED <<pc, asked, patches, binding, snapshot, reply, rows, payloads>>
  BY DEF client
<1>2. \A u \in Ops \ {o} : OpInv(u)'
  <2>1. \A u \in Ops \ {o} : Keeps(u)
    BY <1>1 DEF Keeps, IInv, TypeOK
  <2> QED
    BY <2>1, OpStays
<1>3. /\ \A q \in Records \ {r} : fate'[o][q] = fate[o][q]
      /\ fate'[o][r] = f
  BY DEF IInv, TypeOK
<1>4. Style' = Style /\ Inputs' = Inputs
  BY DEF Style, Inputs
<1>5. pc[o] \in {"writing", "done"} /\ Prepared(o) /\ r \in DOMAIN payloads[o]
  BY DEF IInv, OpInv, WritesPrepared, Wrote
<1>6. Prepared(o)'
  <2>1. DOMAIN patches[o] \subseteq Records
    BY <1>5, PatchAssumption DEF IInv, TypeOK, Inputs, IsInput, Prepared
  <2>2. \A q \in Records : \A row : RowOnce(row, q) => RowOnce(row, q)'
    BY RowStays DEF IInv, TypeOK
  <2> QED
    BY <1>1, <1>4, <1>5, <2>1, <2>2 DEF Prepared, Payload, Sources
<1>7. OpInv(o)'
  BY <1>1, <1>3, <1>5, <1>6 DEF IInv, OpInv, Answered, Vetted, WritesPrepared, Waiting
<1>8. ~Drifted(binding)'
  BY <1>1 DEF IInv
<1> QED
  BY <1>2, <1>7, <1>8 DEF IInv

\* What is sent was asked for, and names a property in its patch or in its row.
LEMMA SentPayload ==
  ASSUME IInv, NEW o \in Ops, NEW r \in Records, fate[o][r] # "unsent"
  PROVE  /\ Prepared(o) /\ Payload(o, r) /\ r \in DOMAIN rows[o] /\ RowOnce(rows[o][r], r)
         /\ \A p \in DOMAIN payloads[o][r] : payloads[o][r][p] \in Values
<1>1. Prepared(o) /\ r \in DOMAIN payloads[o]
  BY DEF IInv, OpInv, WritesPrepared, Wrote
<1>2. Payload(o, r) /\ r \in DOMAIN rows[o] /\ r \in DOMAIN patches[o] /\ RowOnce(rows[o][r], r)
  BY <1>1 DEF Prepared, Payload
<1>3. \A p \in DOMAIN patches[o][r] : patches[o][r][p] \in Values
  BY <1>1, <1>2, PatchAssumption DEF Prepared, IInv, TypeOK, Inputs, IsInput
<1>4. \A p \in Defined(rows[o][r].meta) : rows[o][r].values[p] \in Values
  BY <1>2 DEF RowOnce, Defined
<1>5. \A p \in DOMAIN payloads[o][r] : payloads[o][r][p] \in Values
  BY <1>2, <1>3, <1>4 DEF Payload
<1> QED
  BY <1>1, <1>2, <1>5

\* Steps of the operations.
LEMMA OpIInv ==
  ASSUME IInv, NEW o \in Ops, OpStep(o), UNCHANGED program
  PROVE  IInv'
<1>1. CASE ReadFails(o)
  BY <1>1, LeaveIInv DEF ReadFails, Fail, IInv, TypeOK
<1>2. CASE Finish(o)
  <2>1. /\ pc[o] = "writing" /\ pc' = [pc EXCEPT ![o] = "done"]
        /\ UNCHANGED <<server, edits, input, asked, patches, binding, snapshot, reply, rows,
                       payloads, fate>>
    BY <1>2 DEF Finish
  <2>2. Inputs' = Inputs /\ MaxEdits' = MaxEdits /\ Style' = Style
    BY DEF Inputs, MaxEdits, Style
  <2>3. TypeOK'
    BY <2>1, <2>2 DEF IInv, TypeOK, server
  <2>4. \A row, r : RowOnce(row, r)' = RowOnce(row, r)
    BY <2>1 DEF RowOnce, server
  <2>5. Prepared(o) /\ reply[o] = None /\ pc'[o] = "done"
    BY <2>1 DEF IInv, TypeOK, OpInv, WritesPrepared, Answered, Waiting
  <2>6. Prepared(o)'
    BY <2>1, <2>2, <2>4, <2>5 DEF Prepared, Payload, Sources
  <2>7. OpInv(o)'
    BY <2>1, <2>5, <2>6 DEF IInv, OpInv, Answered, Vetted, WritesPrepared, Waiting, Wrote
  <2>8. (\A u \in Ops \ {o} : Keeps(u)) /\ ~Drifted(binding)'
    BY <2>1 DEF Keeps, IInv, TypeOK
  <2> QED
    BY <2>1, <2>3, <2>7, <2>8, ClientStep
<1>3. ASSUME NEW r \in Records, Send(o, r) \/ Reject(o, r) PROVE IInv'
  <2>1. PICK f \in {"open", "rejected"} : fate' = [fate EXCEPT ![o][r] = f]
    BY <1>3 DEF Send, Reject
  <2>2. UNCHANGED <<server, edits, input, client>>
    BY <1>3 DEF Send, Reject
  <2>3. Inputs' = Inputs /\ MaxEdits' = MaxEdits
    BY DEF Inputs, MaxEdits
  <2>4. TypeOK'
    BY <2>1, <2>2, <2>3 DEF IInv, TypeOK, server, client
  <2>5. Advances
    BY <2>2 DEF Advances, server, IInv, TypeOK
  <2>6. fate[o][r] # "unsent" \/ (pc[o] = "writing" /\ r \in DOMAIN payloads[o])
    BY <1>3 DEF Send, Reject
  <2> QED
    BY <2>1, <2>2, <2>4, <2>5, <2>6, FateIInv
<1>4. ASSUME NEW r \in Records, Apply(o, r) PROVE IInv'
  <2> DEFINE after == [p \in Props |->
                         IF p \in DOMAIN payloads[o][r] THEN payloads[o][r][p] ELSE Unset]
  <2>1. /\ fate[o][r] = "open" /\ fate' = [fate EXCEPT ![o][r] = "applied"]
        /\ stored' = [stored EXCEPT ![r] = after]
        /\ version' = [version EXCEPT ![r] = @ + 1]
        /\ UNCHANGED <<defs, parent, edits, input, client>>
    BY <1>4 DEF Apply
  <2>2. after \in [Props -> Values]
    BY <2>1, SentPayload, PatchAssumption
  <2> HIDE DEF after
  <2>3. Inputs' = Inputs /\ MaxEdits' = MaxEdits
    BY DEF Inputs, MaxEdits
  <2>4. TypeOK'
    BY <2>1, <2>2, <2>3 DEF IInv, TypeOK, client
  <2>5. Advances
    BY <2>1 DEF Advances, IInv, TypeOK
  <2> QED
    BY <2>1, <2>4, <2>5, FateIInv
<1> QED
  BY <1>1, <1>2, <1>3, <1>4, CallIInv, ServeIInv, RefreshedIInv, RowsReadIInv, LoadedIInv DEF OpStep

\* What others do changes nothing an operation holds.
LEMMA ElsewhereIInv ==
  ASSUME IInv, Elsewhere, UNCHANGED program
  PROVE  IInv'
<1>0. Inputs' = Inputs /\ MaxEdits' = MaxEdits /\ MaxEdits \in Nat
  BY PatchAssumption DEF IInv, TypeOK, Inputs, MaxEdits
<1>1. UNCHANGED <<client, fate>>
  BY DEF Elsewhere, CallerMutates, Redefine, WriteElsewhere, Move, Edit
<1>2. TypeOK' /\ Advances
  <2>1. CASE \E o \in Ops : \E i \in Inputs[o] : CallerMutates(o, i)
    BY <1>0, <2>1 DEF IInv, TypeOK, CallerMutates, server, client, Advances
  <2>2. CASE \E h \in Parents, p \in Props, k \in Kinds \cup {Absent} : Redefine(h, p, k)
    <3>1. PICK h \in Parents, p \in Props, k \in Kinds \cup {Absent} : Redefine(h, p, k)
      BY <2>2
    <3>2. defs' \in [Parents -> Definitions]
      BY <3>1 DEF Redefine, IInv, TypeOK, Definitions
    <3> QED
      BY <1>0, <3>1, <3>2 DEF IInv, TypeOK, Redefine, Edit, client, Advances
  <2>3. CASE \E r \in Records, p \in Props, v \in Values : WriteElsewhere(r, p, v)
    BY <1>0, <2>3 DEF IInv, TypeOK, WriteElsewhere, Edit, client, Advances
  <2>4. CASE \E r \in Records, h \in Parents \cup {None, Gone} : Move(r, h)
    BY <1>0, <2>4 DEF IInv, TypeOK, Move, Edit, client, Advances
  <2> QED
    BY <2>1, <2>2, <2>3, <2>4 DEF Elsewhere
<1>3. \A o \in Ops : Keeps(o)
  <2>1. CASE \E o \in Ops : \E i \in Inputs[o] : CallerMutates(o, i)
    BY <1>1, <2>1 DEF Keeps, client, CallerMutates, IInv, TypeOK
  <2>2. CASE UNCHANGED input
    BY <1>1, <2>2 DEF Keeps, client
  <2> QED
    BY <2>1, <2>2 DEF Elsewhere, Redefine, WriteElsewhere, Move, Edit
<1>4. ~Drifted(binding)'
  BY <1>1 DEF IInv, client
<1> QED
  BY <1>2, <1>3, <1>4, OpStays DEF IInv

\* The invariant is inductive.
LEMMA StepIInv == IInv /\ [Next]_vars => IInv'
<1> SUFFICES ASSUME IInv, [Next]_vars PROVE IInv'
  OBVIOUS
<1>1. CASE Next
  BY <1>1, OpIInv, ElsewhereIInv DEF Next
<1>2. CASE UNCHANGED vars
  <2>1. UNCHANGED <<program, server, edits, input, client, fate>>
    BY <1>2 DEF vars
  <2>2. TypeOK'
    BY <2>1 DEF IInv, TypeOK, server, client, Inputs, MaxEdits
  <2>3. Advances /\ (\A o \in Ops : Keeps(o)) /\ ~Drifted(binding)'
    BY <2>1 DEF IInv, TypeOK, Advances, Keeps, server, client
  <2> QED
    BY <2>1, <2>2, <2>3, OpStays DEF IInv
<1> QED
  BY <1>1, <1>2

\* The inductive invariant holds in every reachable state.
THEOREM Invariance == Spec => []IInv
BY InitIInv, StepIInv, PTL DEF Spec

\* The types.
THEOREM TypeCorrect == Spec => []TypeOK
<1>1. IInv => TypeOK
  BY DEF IInv
<1> QED
  BY <1>1, Invariance, PTL

\* A batch of any size is read and vetted as a whole before any of it is written.
THEOREM ReadBeforeWritten == Spec => []PreflightComplete
<1>1. IInv => PreflightComplete
  BY DEF IInv, OpInv, WritesPrepared, Prepared, PreflightComplete, Legacy
<1> QED
  BY <1>1, Invariance, PTL

\* Whatever the caller does with its mapping, only the records of the call are written,
\* with the values of one mapping: that of the call, or the one update_safely found
\* when its read returned.
THEOREM NothingElseWritten == Spec => []OnlyAsked
<1>1. IInv => OnlyAsked
  <2> SUFFICES ASSUME IInv, NEW o \in Ops, NEW r \in Records, fate[o][r] # "unsent"
               PROVE  /\ r \in DOMAIN asked[o]
                      /\ Style[o] \notin Legacy => DOMAIN asked[o][r] # {}
                      /\ \E i \in Sources(o) : \A p \in DOMAIN payloads[o][r] :
                           payloads[o][r][p] = IF p \in DOMAIN i[r] THEN i[r][p]
                                                                 ELSE rows[o][r].values[p]
    BY DEF OnlyAsked
  <2>1. Payload(o, r) /\ patches[o] \in Sources(o) /\ DOMAIN asked[o] = DOMAIN patches[o]
    BY SentPayload DEF Prepared
  <2>2. Style[o] \notin Legacy => asked[o] = patches[o]
    BY <2>1 DEF Sources, Legacy
  <2> QED
    BY <2>1, <2>2 DEF Payload
<1> QED
  BY <1>1, Invariance, PTL

\* However refreshes overtake one another, the binding is sound, and what is written
\* under it.
THEOREM NeverDrifted == Spec => []BindingSound
<1>1. IInv => BindingSound
  BY DEF IInv, OpInv, WritesPrepared, Prepared, BindingSound
<1> QED
  BY <1>1, Invariance, PTL

\* A write that lands on the version that was read changes what the patch names and
\* nothing else the row listed.
THEOREM MergeKeepsTheRest == Spec => MergedAsRead
<1>1. ASSUME IInv, [Next]_vars
      PROVE  [\A o \in Ops : \A r \in Records :
                (fate[o][r] = "open" /\ fate'[o][r] = "applied"
                   /\ version[r] = rows[o][r].version) =>
                  \A p \in Defined(rows[o][r].meta) :
                    stored'[r][p] = IF p \in DOMAIN patches[o][r]
                                    THEN patches[o][r][p] ELSE stored[r][p]]_vars
  <2> SUFFICES ASSUME NEW o \in Ops, NEW r \in Records, NEW p \in Defined(rows[o][r].meta),
                      fate[o][r] = "open", fate'[o][r] = "applied",
                      version[r] = rows[o][r].version
               PROVE  stored'[r][p] = IF p \in DOMAIN patches[o][r]
                                      THEN patches[o][r][p] ELSE stored[r][p]
    OBVIOUS
  <2>1. Apply(o, r)
    <3>1. \E u \in Ops : OpStep(u)
      BY <1>1 DEF Next, vars, Elsewhere, CallerMutates, Redefine, WriteElsewhere, Move, Edit
    <3>2. PICK u \in Ops : OpStep(u)
      BY <3>1
    <3>3. PICK q \in Records : Send(u, q) \/ Apply(u, q) \/ Reject(u, q)
      BY <3>2 DEF OpStep, Call, Serve, ReadFails, Refreshed, RowsRead, Loaded, Finish
    <3>4. PICK f \in {"open", "applied", "rejected"} : fate' = [fate EXCEPT ![u][q] = f]
      BY <3>3 DEF Send, Apply, Reject
    <3>5. fate \in [Ops -> [Records -> {"unsent", "open", "applied", "rejected"}]]
      BY <1>1 DEF IInv, TypeOK
    <3>6. u = o /\ q = r
      BY <3>4, <3>5
    <3>7. ~Send(o, r) /\ ~Reject(o, r)
      BY <3>5 DEF Send, Reject
    <3> QED
      BY <3>3, <3>6, <3>7
  <2>2. /\ Payload(o, r) /\ RowOnce(rows[o][r], r)
    BY <1>1, SentPayload
  <2>3. p \in DOMAIN payloads[o][r] /\ p \in Props
    BY <2>2 DEF Payload, Defined
  <2>4. stored'[r][p] = payloads[o][r][p]
    BY <1>1, <2>1, <2>3 DEF Apply, IInv, TypeOK
  <2> QED
    BY <2>2, <2>3, <2>4 DEF Payload, RowOnce
<1> QED
  BY <1>1, Invariance, PTL DEF Spec, MergedAsRead
=============================================================================
