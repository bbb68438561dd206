---------------------------- MODULE SettingsProofs ----------------------------
(***************************************************************************)
(* Proofs about Settings, for any ids, names, defaults and number of       *)
(* requests.  OneRowPerName is not inductive: a request may be about to    *)
(* save a row that another has deleted, so the invariant also says that    *)
(* pending rows of one id agree on the name and that an id once used is    *)
(* never unused again.                                                     *)
(***************************************************************************)
EXTENDS Settings, FiniteSetTheorems, TLAPS

Pending(w) == req[w].pc \in {"save", "resave"}

\* A name belongs to one id.
Unique == \A u, v \in Uuids : Present(u) /\ rows[u].name = rows[v].name => u = v

\* Pending rows keep the name of their id, and their id in use.
Agree ==
  \A w \in Workers : Pending(w) =>
    /\ rows[req[w].id] # Unused
    /\ Present(req[w].id) => rows[req[w].id].name = req[w].row.name
    /\ \A x \in Workers : Pending(x) /\ req[x].id = req[w].id =>
         req[x].row.name = req[w].row.name

IInv == TypeOK /\ TypeMatches /\ Unique /\ Agree

-----------------------------------------------------------------------------
\* A row is present exactly if it is a real one.
LEMMA PresentRow ==
  ASSUME TypeOK, NEW u \in Uuids
  PROVE  /\ Present(u) <=> rows[u] \in Row
         /\ rows[u] \in Row \cup {Unused, Deleted}
<1>1. rows[u] \in Row \cup {Unused, Deleted}
  BY DEF TypeOK
<1>2. Unused.name = None /\ Deleted.name = None
  BY DEF Unused, Deleted
<1>3. rows[u] \in Row => rows[u].name # None
  BY SettingsAssumption DEF Row
<1>. QED
  BY <1>1, <1>2, <1>3 DEF Present

\* Unused and deleted rows have no name and are told apart.
LEMMA Blank == /\ Unused.name = None /\ Deleted.name = None /\ Unused # Deleted
               /\ Unused \notin Row /\ Deleted \notin Row
  BY SettingsAssumption DEF Unused, Deleted, Row

\* Rows built by a handler that has validated them are rows.
LEMMA MadeRow ==
  ASSUME NEW n \in Names, NEW t, NEW k, Valid(Lower(t), k)
  PROVE  /\ Made(n, t, k) \in Row /\ Made(n, t, k).name = n
         /\ Valid(Made(n, t, k).type, Made(n, t, k).val)
  BY DEF Made, Row, Valid, Kinds

\* So are rows changed by a handler that has validated the change.
LEMMA ChangedRow ==
  ASSUME NEW r \in Row, NEW t, NEW k, Valid(TypeFor(r, t), k)
  PROVE  /\ Changed(r, t, k) \in Row /\ Changed(r, t, k).name = r.name
         /\ Valid(Changed(r, t, k).type, Changed(r, t, k).val)
  BY DEF Changed, Valid, Kinds, Row

ReqType == [Workers -> [pc : {"idle", "insert", "save", "resave"},
                        id : Uuids \cup {None}, row : Row \cup {Unused}]]

\* Requests only end.
Ends == req' \in ReqType /\ \A x \in Workers : req'[x] = req[x] \/ req'[x] = AtRest

\* So it is when one finishes, or none does anything.
LEMMA FinishEnds ==
  ASSUME TypeOK, (\E w \in Workers : Finish(w)) \/ UNCHANGED req
  PROVE  Ends
  BY DEF TypeOK, Ends, ReqType, Finish, AtRest

\* Requests that end keep what holds of the others.
LEMMA EndsType ==
  ASSUME TypeOK, Ends
  PROVE  /\ \A w \in Workers : /\ req'[w].pc = "idle" <=> req'[w].row = Unused
                               /\ req'[w].pc \in {"save", "resave"} <=> req'[w].id # None
         /\ \A w \in Workers : Pending(w)' => req'[w] = req[w] /\ Pending(w)
         /\ \A w \in Workers : req'[w].pc # "idle" => req'[w] = req[w]
         /\ \A w \in Workers : Pending(w) => req[w].id \in Uuids
<1>1. AtRest.pc = "idle" /\ AtRest.id = None /\ AtRest.row = Unused
  BY DEF AtRest
<1>. QED
  BY <1>1, SettingsAssumption DEF TypeOK, Ends, Pending

\* One row is written: whatever else there is, the invariant is kept if the
\* name is free, or was that row's, and pending rows of that id have it too.
LEMMA WriteRow ==
  ASSUME IInv, Ends, NEW u \in Uuids, NEW r \in Row, Valid(r.type, r.val),
         rows' = [rows EXCEPT ![u] = r], Fits(u, r.name),
         \A w \in Workers : Pending(w) /\ req[w].id = u => req[w].row.name = r.name
  PROVE  IInv'
<1>1. \A v \in Uuids : rows'[v] = IF v = u THEN r ELSE rows[v]
  BY DEF IInv, TypeOK
<1>2. r.name \in Names /\ r.name # None
  BY SettingsAssumption DEF Row
<1>3. TypeOK'
  BY <1>1, EndsType DEF IInv, TypeOK, Ends, ReqType
<1>4. TypeMatches'
  BY <1>1, EndsType DEF IInv, TypeMatches, Present
<1>5. Unique'
  BY <1>1, <1>2 DEF IInv, Unique, Present, Fits, Named
<1>6. Agree'
  <2> SUFFICES ASSUME NEW w \in Workers, Pending(w)'
               PROVE  /\ rows'[req'[w].id] # Unused
                      /\ Present(req[w].id)' => rows'[req'[w].id].name = req'[w].row.name
                      /\ \A x \in Workers : Pending(x)' /\ req'[x].id = req'[w].id =>
                           req'[x].row.name = req'[w].row.name
    BY DEF Agree
  <2>1. req'[w] = req[w] /\ Pending(w) /\ req[w].id \in Uuids
    BY EndsType DEF IInv
  <2>2. \A x \in Workers : Pending(x)' => req'[x] = req[x] /\ Pending(x)
    BY EndsType DEF IInv
  <2>3. r # Unused
    BY Blank
  <2>. QED
    BY <1>1, <2>1, <2>2, <2>3 DEF IInv, Agree, Present
<1>. QED
  BY <1>3, <1>4, <1>5, <1>6 DEF IInv

\* A row is deleted: its name is free, pending rows of that id wait for it.
LEMMA DeleteRow ==
  ASSUME IInv, NEW u \in Uuids, rows' = [rows EXCEPT ![u] = Deleted], UNCHANGED req
  PROVE  IInv'
<1>1. \A v \in Uuids : rows'[v] = IF v = u THEN Deleted ELSE rows[v]
  BY DEF IInv, TypeOK
<1>2. TypeOK' /\ TypeMatches'
  BY <1>1, Blank DEF IInv, TypeOK, TypeMatches, Present
<1>3. Unique'
  BY <1>1, Blank DEF IInv, Unique, Present
<1>4. \A w \in Workers : Pending(w) => req[w].id \in Uuids
  BY SettingsAssumption DEF IInv, TypeOK, Pending
<1>5. Agree'
  BY <1>1, <1>4, Blank DEF IInv, Agree, Present, Pending
<1>. QED
  BY <1>2, <1>3, <1>5 DEF IInv

\* A request ends and writes nothing.
LEMMA FinishKeeps ==
  ASSUME IInv, Ends, UNCHANGED rows
  PROVE  IInv'
<1>1. TypeOK'
  BY EndsType DEF IInv, TypeOK, Ends, ReqType
<1>2. TypeMatches' /\ Unique'
  BY EndsType DEF IInv, TypeMatches, Unique, Present
<1>3. \A x \in Workers : Pending(x)' => req'[x] = req[x] /\ Pending(x)
  BY EndsType DEF IInv
<1>4. Agree'
  BY <1>3 DEF IInv, Agree, Present
<1>. QED
  BY <1>1, <1>2, <1>4 DEF IInv

\* A request is about to write a row it has validated: a new one, or one of
\* an id that has a row of that name.
LEMMA HoldKeeps ==
  ASSUME IInv, NEW w \in Workers, UNCHANGED rows, NEW r \in Row, Valid(r.type, r.val),
         NEW pc \in {"insert", "save"}, NEW u \in Uuids \cup {None},
         Hold(w, pc, u, r), pc = "insert" <=> u = None,
         u # None => u \in Uuids /\ Present(u) /\ rows[u].name = r.name
  PROVE  IInv'
<1> DEFINE held == [pc |-> pc, id |-> u, row |-> r]
<1>1. \A x \in Workers : req'[x] = IF x = w THEN held ELSE req[x]
  BY DEF Hold, IInv, TypeOK
<1>2. r # Unused
  BY Blank
<1>3. TypeOK'
  <2>1. req' \in [Workers -> [pc : {"idle", "insert", "save", "resave"},
                              id : Uuids \cup {None}, row : Row \cup {Unused}]]
    BY DEF Hold, IInv, TypeOK
  <2>. QED
    BY <1>1, <1>2, <2>1, SettingsAssumption DEF IInv, TypeOK
<1>4. TypeMatches' /\ Unique'
  BY <1>1 DEF IInv, TypeMatches, Unique, Present
<1>5. Agree'
  <2>1. u # None => rows[u] # Unused
    BY Blank DEF Present
  <2>. QED
    BY <1>1, <2>1 DEF IInv, Agree, Pending, Present
<1>. QED
  BY <1>3, <1>4, <1>5 DEF IInv

-----------------------------------------------------------------------------
\* The transaction of the seed: new rows of distinct, missing names.
LEMMA SeedKeeps == IInv /\ SeedDefaultSettings => IInv'
<1> SUFFICES ASSUME IInv, SeedDefaultSettings PROVE IInv'
  OBVIOUS
<1>1. PICK id \in [Missing -> {u \in Uuids : rows[u] = Unused}], t \in Types :
        /\ \A m, n \in Missing : id[m] = id[n] => m = n
        /\ rows' = [u \in Uuids |-> IF \E n \in Missing : id[n] = u
                      THEN Made(CHOOSE n \in Missing : id[n] = u, t, t) ELSE rows[u]]
  BY DEF SeedDefaultSettings
<1>2. \A u \in Uuids :
        \/ \E n \in Missing : id[n] = u /\ rows[u] = Unused /\ rows'[u] = Made(n, t, t)
        \/ rows'[u] = rows[u]
  <2> SUFFICES ASSUME NEW u \in Uuids, NEW m \in Missing, id[m] = u
               PROVE  rows[u] = Unused /\ rows'[u] = Made(m, t, t)
    BY <1>1
  <2>1. (CHOOSE n \in Missing : id[n] = u) = m
    BY <1>1
  <2>. QED
    BY <1>1, <2>1
<1>3. \A n \in Missing : /\ Made(n, t, t) \in Row /\ Made(n, t, t).name = n /\ n # None
                         /\ Valid(Made(n, t, t).type, Made(n, t, t).val)
                         /\ \A u \in Uuids : rows[u].name # n
  <2>1. t = Lower(t) /\ Valid(Lower(t), t)
    BY DEF Types, Lower, Valid
  <2>2. Missing \subseteq Names /\ None \notin Names
    BY SettingsAssumption DEF Missing
  <2>. QED
    BY <2>1, <2>2, MadeRow DEF Missing, Named
<1>4. req' = req
  BY DEF SeedDefaultSettings
<1>5. TypeOK'
  <2>1. \A u \in Uuids : rows'[u] \in Row \cup {Unused, Deleted}
    BY <1>2, <1>3 DEF IInv, TypeOK
  <2>2. rows' \in [Uuids -> Row \cup {Unused, Deleted}]
    BY <1>1, <2>1
  <2>. QED
    BY <1>4, <2>2 DEF IInv, TypeOK
<1>6. TypeMatches'
  BY <1>2, <1>3, <1>4 DEF IInv, TypeMatches, Present
<1>7. Unique'
  BY <1>1, <1>2, <1>3 DEF IInv, Unique, Present
<1>8. \A w \in Workers : Pending(w) => req[w].id \in Uuids
  BY SettingsAssumption DEF IInv, TypeOK, Pending
<1>9. Agree'
  BY <1>2, <1>4, <1>8 DEF IInv, Agree, Pending, Present
<1>. QED
  BY <1>5, <1>6, <1>7, <1>9 DEF IInv

\* A patch whose row is gone is about to insert it again.
LEMMA ResaveKeeps ==
  ASSUME IInv, NEW w \in Workers, req[w].pc = "save", UNCHANGED rows,
         req' = [req EXCEPT ![w].pc = "resave"]
  PROVE  IInv'
<1>1. /\ \A x \in Workers : x # w => req'[x] = req[x]
      /\ req'[w].pc = "resave" /\ req'[w].id = req[w].id /\ req'[w].row = req[w].row
      /\ req' \in ReqType
  BY DEF IInv, TypeOK, ReqType
<1>2. TypeOK'
  BY <1>1 DEF IInv, TypeOK, ReqType
<1>3. \A x \in Workers : /\ (req'[x].pc = "idle" <=> req[x].pc = "idle")
                         /\ (Pending(x)' <=> Pending(x))
                         /\ req'[x].id = req[x].id /\ req'[x].row = req[x].row
  BY <1>1 DEF Pending
<1>4. TypeMatches' /\ Unique' /\ Agree'
  BY <1>3 DEF IInv, TypeMatches, Unique, Agree, Present
<1>. QED
  BY <1>2, <1>4 DEF IInv

\* Every step keeps the invariant.
LEMMA NextKeeps == IInv /\ [Next]_vars => IInv'
<1> SUFFICES ASSUME IInv, [Next]_vars PROVE IInv'
  OBVIOUS
<1>0. CASE UNCHANGED vars
  BY <1>0 DEF vars, IInv, TypeOK, TypeMatches, Unique, Agree, Pending, Present
<1>1. CASE SeedDefaultSettings
  BY <1>1, SeedKeeps
<1>2. ASSUME NEW w \in Workers, NEW n \in Names, NEW t \in Spellings, NEW k \in Kinds,
             CreateSetting(w, n, t, k)
      PROVE  IInv'
  BY <1>2, MadeRow, HoldKeeps DEF CreateSetting
<1>3. ASSUME NEW w \in Workers, NEW n \in Names, NEW t \in Spellings, NEW k \in Kinds,
             UpsertSettingValueByName(w, n, t, k)
      PROVE  IInv'
  <2>0. Ends
    BY <1>3, FinishEnds DEF UpsertSettingValueByName, IInv
  <2>1. ASSUME NEW u \in Named(n), Valid(TypeFor(rows[u], t), k),
               rows' = [rows EXCEPT ![u] = Changed(@, t, k)]
        PROVE  IInv'
    <3>1. u \in Uuids /\ rows[u] \in Row /\ rows[u].name = n
      BY <2>1, PresentRow, SettingsAssumption DEF Named, IInv, Present
    <3>2. rows' = [rows EXCEPT ![u] = Changed(rows[u], t, k)]
      BY <2>1
    <3>3. /\ Changed(rows[u], t, k) \in Row /\ Changed(rows[u], t, k).name = n
          /\ Valid(Changed(rows[u], t, k).type, Changed(rows[u], t, k).val)
      BY <2>1, <3>1, ChangedRow
    <3>4. Fits(u, n) /\ Present(u)
      BY <3>1, SettingsAssumption DEF IInv, Unique, Fits, Named, Present
    <3>5. \A x \in Workers : Pending(x) /\ req[x].id = u => req[x].row.name = n
      BY <3>1, <3>4 DEF IInv, Agree
    <3> DEFINE r == Changed(rows[u], t, k)
    <3>6. /\ u \in Uuids /\ r \in Row /\ Valid(r.type, r.val) /\ Fits(u, r.name)
          /\ rows' = [rows EXCEPT ![u] = r]
          /\ \A x \in Workers : Pending(x) /\ req[x].id = u => req[x].row.name = r.name
      BY <3>1, <3>2, <3>3, <3>4, <3>5
    <3> HIDE DEF r
    <3>. QED
      BY <2>0, <3>6, WriteRow
  <2>2. ASSUME NEW u \in Uuids, Named(n) = {}, rows[u] = Unused, Valid(Lower(t), k),
               rows' = [rows EXCEPT ![u] = Made(n, t, k)]
        PROVE  IInv'
    <3>1. Fits(u, n) /\ \A x \in Workers : ~(Pending(x) /\ req[x].id = u)
      BY <2>2 DEF Fits, IInv, Agree
    <3> DEFINE r == Made(n, t, k)
    <3>2. /\ r \in Row /\ Valid(r.type, r.val) /\ Fits(u, r.name)
          /\ rows' = [rows EXCEPT ![u] = r]
      BY <2>2, <3>1, MadeRow
    <3> HIDE DEF r
    <3>. QED
      BY <2>0, <3>1, <3>2, WriteRow
  <2>. QED
    BY <1>3, <2>1, <2>2 DEF UpsertSettingValueByName
<1>4. ASSUME NEW w \in Workers, NEW u \in Uuids, NEW t \in Spellings, NEW k \in Kinds,
             UpdateSettingByID(w, u, t, k)
      PROVE  IInv'
  <2>1. rows[u] \in Row /\ Present(u) /\ UNCHANGED rows
    BY <1>4, PresentRow DEF UpdateSettingByID, IInv
  <2>2. CASE Valid(TypeFor(rows[u], t), k) /\ Hold(w, "save", u, Changed(rows[u], t, k))
    BY <2>1, <2>2, ChangedRow, HoldKeeps, SettingsAssumption
  <2>3. CASE Hold(w, "save", u, rows[u])
    <3>1. Valid(rows[u].type, rows[u].val)
      BY <2>1 DEF IInv, TypeMatches
    <3>. QED
      BY <2>1, <2>3, <3>1, HoldKeeps, SettingsAssumption
  <2>. QED
    BY <1>4, <2>2, <2>3 DEF UpdateSettingByID
<1>5. ASSUME NEW w \in Workers, NEW u \in Uuids, DeleteSettingByID(w, u) PROVE IInv'
  BY <1>5, DeleteRow DEF DeleteSettingByID
<1>6. ASSUME NEW w \in Workers, Insert(w) PROVE IInv'
  <2>1. PICK u \in Uuids : /\ rows[u] = Unused /\ Fits(u, req[w].row.name)
                           /\ rows' = [rows EXCEPT ![u] = req[w].row]
    BY <1>6 DEF Insert
  <2>2. req[w].row \in Row /\ Valid(req[w].row.type, req[w].row.val)
    BY <1>6 DEF Insert, IInv, TypeOK, TypeMatches
  <2>3. \A x \in Workers : ~(Pending(x) /\ req[x].id = u)
    BY <2>1 DEF IInv, Agree
  <2>4. Ends
    BY <1>6, FinishEnds DEF Insert, IInv
  <2>. QED
    BY <2>1, <2>2, <2>3, <2>4, WriteRow
<1>7. ASSUME NEW w \in Workers, Save(w) \/ SaveInsert(w) PROVE IInv'
  <2>1. /\ Pending(w) /\ req[w].id \in Uuids /\ req[w].row \in Row
        /\ Valid(req[w].row.type, req[w].row.val)
    BY <1>7, SettingsAssumption DEF Save, SaveInsert, IInv, TypeOK, TypeMatches, Pending
  <2>2. \A x \in Workers : Pending(x) /\ req[x].id = req[w].id =>
                           req[x].row.name = req[w].row.name
    BY <2>1 DEF IInv, Agree
  <2>3. CASE Save(w) /\ Present(req[w].id)
    <3>1. rows[req[w].id].name = req[w].row.name
      BY <2>1, <2>3 DEF IInv, Agree
    <3>2. Fits(req[w].id, req[w].row.name)
      BY <2>1, <2>3, <3>1 DEF IInv, Unique, Fits, Named
    <3>3. Ends /\ rows' = [rows EXCEPT ![req[w].id] = req[w].row]
      BY <2>3, FinishEnds DEF Save, Saved, IInv
    <3>. QED
      BY <2>1, <2>2, <3>2, <3>3, WriteRow
  <2>4. CASE Save(w) /\ ~Present(req[w].id)
    BY <2>4, ResaveKeeps DEF Save
  <2>5. CASE SaveInsert(w)
    <3>1. Ends /\ rows' = [rows EXCEPT ![req[w].id] = req[w].row]
      BY <2>5, FinishEnds DEF SaveInsert, IInv
    <3>. QED
      BY <2>1, <2>2, <2>5, <3>1, WriteRow DEF SaveInsert
  <2>. QED
    BY <1>7, <2>3, <2>4, <2>5
<1>8. ASSUME NEW w \in Workers, Fail(w) PROVE IInv'
  BY <1>8, FinishEnds, FinishKeeps DEF Fail, IInv
<1>. QED
  BY <1>0, <1>1, <1>2, <1>3, <1>4, <1>5, <1>6, <1>7, <1>8 DEF Next, Request

\* An empty table satisfies it.
LEMMA InitIInv == Init => IInv
<1> SUFFICES ASSUME Init PROVE IInv
  OBVIOUS
<1>1. TypeOK
  BY DEF Init, TypeOK, AtRest, Unused
<1>2. TypeMatches /\ Unique /\ Agree
  BY Blank DEF Init, TypeMatches, Unique, Agree, Pending, Present, AtRest
<1>. QED
  BY <1>1, <1>2 DEF IInv

\* The inductive invariant holds in every reachable state.
THEOREM Invariance == Spec => []IInv
  BY InitIInv, NextKeeps, PTL DEF Spec

\* The table and the requests keep their types, however requests interleave.
THEOREM TypeCorrect == Spec => []TypeOK
  BY Invariance, PTL DEF IInv

\* No row, stored or about to be stored, has a value of another type than its
\* value_type.
THEOREM TypeMatchesAlways == Spec => []TypeMatches
  BY Invariance, PTL DEF IInv

\* At most one row for a name, and no pending update renames a row.
THEOREM OneRowPerNameAlways == Spec => []OneRowPerName
<1>1. IInv => OneRowPerName
  <2> SUFFICES ASSUME IInv PROVE OneRowPerName
    OBVIOUS
  <2>1. ASSUME NEW n \in Names PROVE Cardinality(Named(n)) <= 1
    <3>1. CASE Named(n) = {}
      BY <3>1, FS_EmptySet
    <3>2. ASSUME NEW u \in Named(n) PROVE Cardinality(Named(n)) = 1
      <4>1. Named(n) = {u}
        BY <3>2, SettingsAssumption DEF Named, IInv, Unique, Present
      <4>. QED
        BY <4>1, FS_Singleton
    <3>. QED
      BY <3>1, <3>2
  <2>. QED
    BY <2>1 DEF OneRowPerName, IInv, Agree, Pending
<1>. QED
  BY <1>1, Invariance, PTL

-----------------------------------------------------------------------------
(* An id and the name of its row.                                          *)

\* The id was given to a row of this name, and requests about to write a row
\* of the id write one of the name.
NamedForGood(u, n) ==
  /\ rows[u] # Unused /\ rows[u].name \in {n, None}
  /\ \A w \in Workers : Pending(w) /\ req[w].id = u => req[w].row.name = n

\* A step that gives the id no row, or one of the name, and starts no request
\* on it, or one that holds such a row, keeps that.
LEMMA RowKeepsName ==
  ASSUME IInv, NEW u \in Uuids, NEW n \in Names, NamedForGood(u, n),
         rows'[u] = rows[u] \/ rows'[u] = Deleted \/ (rows'[u] \in Row /\ rows'[u].name = n),
         \A w \in Workers : Pending(w)' /\ req'[w].id = u =>
           \/ Pending(w) /\ req'[w].id = req[w].id /\ req'[w].row = req[w].row
           \/ req'[w].row.name = n
  PROVE  NamedForGood(u, n)'
  BY Blank DEF NamedForGood

\* Every step does: whoever updates or deletes a row, and whoever inserts it
\* again after another has deleted it, found it under that name.
LEMMA StepKeepsName ==
  ASSUME IInv, [Next]_vars, NEW u \in Uuids, NEW n \in Names, NamedForGood(u, n)
  PROVE  NamedForGood(u, n)'
<1>0. CASE UNCHANGED vars
  BY <1>0 DEF vars, NamedForGood, Pending
<1> DEFINE Held == \A w \in Workers : Pending(w)' /\ req'[w].id = u =>
                     \/ Pending(w) /\ req'[w].id = req[w].id /\ req'[w].row = req[w].row
                     \/ req'[w].row.name = n
<1>a. Ends => Held
  BY EndsType DEF IInv
<1>b. UNCHANGED req => Held
  BY DEF Pending
<1>c. rows[u] # Unused
  BY DEF NamedForGood
<1>1. CASE SeedDefaultSettings
  <2>1. PICK id \in [Missing -> {v \in Uuids : rows[v] = Unused}], t \in Types :
        rows' = [v \in Uuids |-> IF \E m \in Missing : id[m] = v
                   THEN Made(CHOOSE m \in Missing : id[m] = v, t, t) ELSE rows[v]]
    BY <1>1 DEF SeedDefaultSettings
  <2>2. rows'[u] = rows[u]
    BY <2>1, <1>c
  <2>3. UNCHANGED req
    BY <1>1 DEF SeedDefaultSettings
  <2>. QED
    BY <2>2, <2>3, <1>b, RowKeepsName
<1>2. ASSUME NEW w \in Workers, UNCHANGED rows, NEW pc, NEW v \in Uuids \cup {None},
             NEW r, Hold(w, pc, v, r), v = u => r.name = n
      PROVE  NamedForGood(u, n)'
  <2>1. \A x \in Workers : req'[x] = IF x = w THEN [pc |-> pc, id |-> v, row |-> r] ELSE req[x]
    BY <1>2 DEF Hold, IInv, TypeOK
  <2>2. Held
    BY <1>2, <2>1 DEF Pending
  <2>. QED
    BY <1>2, <2>2, RowKeepsName
<1>3. ASSUME NEW w \in Workers, NEW m \in Names, NEW t \in Spellings, NEW k \in Kinds,
             CreateSetting(w, m, t, k)
      PROVE  NamedForGood(u, n)'
  BY <1>2, <1>3, SettingsAssumption DEF CreateSetting
<1>4. ASSUME NEW w \in Workers, NEW m \in Names, NEW t \in Spellings, NEW k \in Kinds,
             UpsertSettingValueByName(w, m, t, k)
      PROVE  NamedForGood(u, n)'
  <2>1. UNCHANGED req
    BY <1>4 DEF UpsertSettingValueByName
  <2>2. ASSUME NEW v \in Named(m), Valid(TypeFor(rows[v], t), k),
               rows' = [rows EXCEPT ![v] = Changed(@, t, k)]
        PROVE  NamedForGood(u, n)'
    <3>1. v \in Uuids /\ rows[v] \in Row
      BY <2>2, PresentRow, SettingsAssumption DEF Named, IInv, Present
    <3>2. Changed(rows[v], t, k) \in Row /\ Changed(rows[v], t, k).name = rows[v].name
      BY <2>2, <3>1, ChangedRow
    <3>3. rows'[v] = Changed(rows[v], t, k) /\ (v # u => rows'[u] = rows[u])
      BY <2>2, <3>1 DEF IInv, TypeOK
    <3>4. v = u => rows[v].name = n
      BY <3>1, SettingsAssumption DEF NamedForGood, Row
    <3>. QED
      BY <2>1, <3>2, <3>3, <3>4, <1>b, RowKeepsName
  <2>3. ASSUME NEW v \in Uuids, rows[v] = Unused, rows' = [rows EXCEPT ![v] = Made(m, t, k)]
        PROVE  NamedForGood(u, n)'
    <3>1. rows'[u] = rows[u]
      BY <2>3, <1>c DEF IInv, TypeOK
    <3>. QED
      BY <2>1, <3>1, <1>b, RowKeepsName
  <2>. QED
    BY <1>4, <2>2, <2>3 DEF UpsertSettingValueByName
<1>5. ASSUME NEW w \in Workers, NEW v \in Uuids, NEW t \in Spellings, NEW k \in Kinds,
             UpdateSettingByID(w, v, t, k)
      PROVE  NamedForGood(u, n)'
  <2>1. UNCHANGED rows /\ Present(v)
    BY <1>5 DEF UpdateSettingByID
  <2>2. v = u => rows[v].name = n
    BY <2>1 DEF Present, NamedForGood
  <2>3. Changed(rows[v], t, k).name = rows[v].name
    BY DEF Changed
  <2>. QED
    BY <1>2, <1>5, <2>1, <2>2, <2>3 DEF UpdateSettingByID
<1>6. ASSUME NEW w \in Workers, NEW v \in Uuids, DeleteSettingByID(w, v)
      PROVE  NamedForGood(u, n)'
  <2>1. rows'[u] = rows[u] \/ rows'[u] = Deleted
    BY <1>6 DEF DeleteSettingByID, IInv, TypeOK
  <2>. QED
    BY <1>6, <2>1, <1>b, RowKeepsName DEF DeleteSettingByID
<1>7. ASSUME NEW w \in Workers, Insert(w) PROVE NamedForGood(u, n)'
  <2>1. rows'[u] = rows[u]
    BY <1>7, <1>c DEF Insert, IInv, TypeOK
  <2>2. Ends
    BY <1>7, FinishEnds DEF Insert, IInv
  <2>. QED
    BY <2>1, <2>2, <1>a, RowKeepsName
<1>8. ASSUME NEW w \in Workers, Save(w) \/ SaveInsert(w) PROVE NamedForGood(u, n)'
  <2>1. Pending(w) /\ req[w].row \in Row
    BY <1>8 DEF Save, SaveInsert, IInv, TypeOK, Pending
  <2>2. CASE rows' = [rows EXCEPT ![req[w].id] = req[w].row] /\ Ends
    <3>1. rows'[u] = IF req[w].id = u THEN req[w].row ELSE rows[u]
      BY <2>2 DEF IInv, TypeOK
    <3>2. req[w].id = u => req[w].row.name = n
      BY <2>1 DEF NamedForGood
    <3>. QED
      BY <2>1, <2>2, <3>1, <3>2, <1>a, RowKeepsName
  <2>3. CASE UNCHANGED rows /\ req' = [req EXCEPT ![w].pc = "resave"]
    <3>1. \A x \in Workers : req'[x].id = req[x].id /\ req'[x].row = req[x].row
                             /\ (x # w => req'[x] = req[x])
      BY <2>3 DEF IInv, TypeOK
    <3>2. Held
      BY <2>1, <3>1 DEF Pending
    <3>. QED
      BY <2>3, <3>2, RowKeepsName
  <2>. QED
    BY <1>8, <2>2, <2>3, FinishEnds DEF Save, SaveInsert, Saved, IInv
<1>9. ASSUME NEW w \in Workers, Fail(w) PROVE NamedForGood(u, n)'
  BY <1>9, <1>a, FinishEnds, RowKeepsName DEF Fail, IInv
<1>. QED
  BY <1>0, <1>1, <1>3, <1>4, <1>5, <1>6, <1>7, <1>8, <1>9 DEF Next, Request

\* An id is the id of one setting for ever: an update that another's delete has
\* overtaken may bring the row back, under its own name, and no other setting is
\* ever reached by the id.
THEOREM IdKeepsName ==
  ASSUME NEW u \in Uuids, NEW n \in Names
  PROVE  Spec => [](rows[u].name = n => [](rows[u].name \in {n, None}))
<1>1. IInv /\ rows[u].name = n => NamedForGood(u, n)
  <2>1. n # None
    BY SettingsAssumption
  <2>. QED
    BY <2>1, Blank DEF NamedForGood, IInv, Agree, Present
<1>2. IInv /\ NamedForGood(u, n) /\ [Next]_vars => NamedForGood(u, n)'
  BY StepKeepsName
<1>3. NamedForGood(u, n) => rows[u].name \in {n, None}
  BY DEF NamedForGood
<1>. QED
  BY <1>1, <1>2, <1>3, Invariance, PTL DEF Spec

-----------------------------------------------------------------------------
(* The refinement of SettingsTable.                                        *)

\* A name's entry is that of its row.
Entries ==
  \A n \in Names :
    /\ Named(n) = {} => EntryOf(n) = None
    /\ \A u \in Uuids : rows[u].name = n =>
         /\ EntryOf(n) = [type |-> rows[u].type, val |-> rows[u].val]
         /\ EntryOf(n) \in Table!Entry

\* Which row is chosen does not matter: there is one.
LEMMA EntryIs == IInv => Entries
<1> SUFFICES ASSUME IInv, NEW n \in Names, NEW u \in Uuids, rows[u].name = n
             PROVE  /\ EntryOf(n) = [type |-> rows[u].type, val |-> rows[u].val]
                    /\ EntryOf(n) \in Table!Entry
  BY DEF Entries, EntryOf
<1>1. Named(n) = {u} /\ Present(u)
  BY SettingsAssumption DEF Named, IInv, Unique, Present
<1>2. (CHOOSE v \in Named(n) : TRUE) = u
  BY <1>1
<1>3. EntryOf(n) = [type |-> rows[u].type, val |-> rows[u].val]
  BY <1>1, <1>2 DEF EntryOf
<1>4. Valid(rows[u].type, rows[u].val)
  BY <1>1 DEF IInv, TypeMatches
<1>. QED
  BY <1>3, <1>4 DEF Valid, Table!Entry

\* The same of the next state.
LEMMA EntryIsNext == IInv' => Entries'
  BY EntryIs, PTL

tableOf == [n \in Names |-> EntryOf(n)]

\* Writing a row sets the entry of its name.
LEMMA WriteSets ==
  ASSUME IInv, IInv', NEW u \in Uuids, NEW r \in Row,
         rows' = [rows EXCEPT ![u] = r], Present(u) => rows[u].name = r.name
  PROVE  Table!Set(r.name)
<1>1. \A v \in Uuids : rows'[v] = IF v = u THEN r ELSE rows[v]
  BY DEF IInv, TypeOK
<1>2. Entries /\ Entries'
  BY EntryIs, EntryIsNext
<1>3. r.name \in Names /\ r.name # None
  BY SettingsAssumption DEF Row
<1>4. EntryOf(r.name)' \in Table!Entry
  BY <1>1, <1>2, <1>3 DEF Entries
<1>5. ASSUME NEW n \in Names, n # r.name PROVE EntryOf(n)' = EntryOf(n)
  <2>1. n # None
    BY SettingsAssumption
  <2>2. \A v \in Uuids : rows'[v].name = n <=> rows[v].name = n
    BY <1>1, <1>5, <2>1 DEF Present
  <2>3. CASE Named(n) = {}
    <3>1. Named(n)' = {}
      BY <2>2, <2>3 DEF Named
    <3>. QED
      BY <1>2, <2>3, <3>1 DEF Entries
  <2>4. ASSUME NEW v \in Uuids, rows[v].name = n PROVE EntryOf(n)' = EntryOf(n)
    <3>1. rows'[v] = rows[v]
      BY <1>1, <1>5, <2>1, <2>4 DEF Present
    <3>. QED
      BY <1>2, <2>4, <3>1 DEF Entries
  <2>. QED
    BY <2>3, <2>4 DEF Named
<1>6. tableOf' = [tableOf EXCEPT ![r.name] = EntryOf(r.name)']
  BY <1>3, <1>5 DEF tableOf
<1>. QED
  BY <1>4, <1>6 DEF Table!Set, tableOf

\* Deleting a row removes the entry of its name.
LEMMA DeleteRemoves ==
  ASSUME IInv, IInv', NEW u \in Uuids, Present(u), rows' = [rows EXCEPT ![u] = Deleted]
  PROVE  rows[u].name \in Names /\ Table!Remove(rows[u].name)
<1>0. None \notin Names
  BY SettingsAssumption
<1>1. \A v \in Uuids : rows'[v] = IF v = u THEN Deleted ELSE rows[v]
  BY DEF IInv, TypeOK
<1>2. Entries /\ Entries'
  BY EntryIs, EntryIsNext
<1>3. PICK name \in Names : name = rows[u].name
  BY PresentRow DEF IInv, Row
<1>4. Named(name)' = {}
  BY <1>0, <1>1, <1>3, Blank DEF Named, IInv, Unique, Present
<1>5. EntryOf(name)' = None
  BY <1>2, <1>3, <1>4 DEF EntryOf
<1>6. ASSUME NEW n \in Names, n # name PROVE EntryOf(n)' = EntryOf(n)
  <2>1. \A v \in Uuids : rows'[v].name = n <=> rows[v].name = n
    BY <1>0, <1>1, <1>3, <1>6, Blank
  <2>2. CASE Named(n) = {}
    <3>1. Named(n)' = {}
      BY <2>1, <2>2 DEF Named
    <3>. QED
      BY <1>2, <2>2, <3>1 DEF Entries
  <2>3. ASSUME NEW v \in Uuids, rows[v].name = n PROVE EntryOf(n)' = EntryOf(n)
    <3>1. rows'[v] = rows[v]
      BY <1>1, <1>3, <1>6, <2>3
    <3>. QED
      BY <1>2, <2>3, <3>1 DEF Entries
  <2>. QED
    BY <2>2, <2>3 DEF Named
<1>7. tableOf' = [tableOf EXCEPT ![name] = None]
  BY <1>3, <1>5, <1>6 DEF tableOf
<1>. QED
  BY <1>3, <1>7 DEF Table!Remove, tableOf

\* The seed adds what is missing.
LEMMA SeedSeeds == IInv /\ IInv' /\ SeedDefaultSettings => Table!Seed
<1> SUFFICES ASSUME IInv, IInv', SeedDefaultSettings PROVE Table!Seed
  OBVIOUS
<1>1. PICK id \in [Missing -> {u \in Uuids : rows[u] = Unused}], t \in Types :
        /\ \A m, n \in Missing : id[m] = id[n] => m = n
        /\ rows' = [u \in Uuids |-> IF \E n \in Missing : id[n] = u
                      THEN Made(CHOOSE n \in Missing : id[n] = u, t, t) ELSE rows[u]]
  BY DEF SeedDefaultSettings
<1>2. Entries /\ Entries'
  BY EntryIs, EntryIsNext
<1>3. \A n \in Missing : /\ id[n] \in Uuids /\ rows[id[n]] = Unused
                         /\ rows'[id[n]] = Made(n, t, t)
  <2> SUFFICES ASSUME NEW m \in Missing
               PROVE  /\ id[m] \in Uuids /\ rows[id[m]] = Unused
                      /\ rows'[id[m]] = Made(m, t, t)
    OBVIOUS
  <2>1. (CHOOSE n \in Missing : id[n] = id[m]) = m
    BY <1>1
  <2>2. id[m] \in Uuids /\ rows[id[m]] = Unused
    BY <1>1
  <2>. QED
    BY <1>1, <2>1, <2>2
<1>4. \A u \in Uuids : (\A n \in Missing : id[n] # u) => rows'[u] = rows[u]
  BY <1>1
<1>5. \A n, t1, k : Made(n, t1, k).name = n
  BY DEF Made
<1>6. None \notin Names /\ Missing \subseteq Names /\ Defaults \subseteq Names
  BY SettingsAssumption DEF Missing
<1>7. ASSUME NEW n \in Missing PROVE EntryOf(n)' \in Table!Entry
  BY <1>2, <1>3, <1>5, <1>6, <1>7 DEF Entries
<1>8. ASSUME NEW n \in Names \ Missing PROVE EntryOf(n)' = EntryOf(n)
  <2>1. \A v \in Uuids : rows'[v].name = n <=> rows[v].name = n
    BY <1>3, <1>4, <1>5, <1>6, Blank
  <2>2. CASE Named(n) = {}
    <3>1. Named(n)' = {}
      BY <2>1, <2>2 DEF Named
    <3>. QED
      BY <1>2, <2>2, <3>1 DEF Entries
  <2>3. ASSUME NEW v \in Uuids, rows[v].name = n PROVE EntryOf(n)' = EntryOf(n)
    <3>1. rows'[v] = rows[v]
      BY <1>3, <1>4, <1>6, <2>3, Blank
    <3>. QED
      BY <1>2, <2>3, <3>1 DEF Entries
  <2>. QED
    BY <2>2, <2>3 DEF Named
<1>9. ASSUME NEW n \in Defaults \ Missing PROVE EntryOf(n) \in Table!Entry
  <2>1. PICK u \in Uuids : rows[u].name = n
    BY <1>9 DEF Missing, Named
  <2>. QED
    BY <1>2, <1>6, <2>1 DEF Entries
<1>10. \A n \in Missing : EntryOf(n) = None
  BY <1>2, <1>6 DEF Missing, Entries
<1>11. /\ \A n \in Names \ Defaults : tableOf'[n] = tableOf[n]
       /\ \A n \in Defaults : IF tableOf[n] = None THEN tableOf'[n] \in Table!Entry
                              ELSE tableOf'[n] = tableOf[n]
       /\ tableOf' = [n \in Names |-> tableOf'[n]]
  BY <1>6, <1>7, <1>8, <1>9, <1>10 DEF tableOf, Missing
<1>. QED
  BY <1>11 DEF Table!Seed, tableOf

\* Every step of the handlers is a step of the table, or none.
LEMMA StepRefines == IInv /\ IInv' /\ [Next]_vars => [Table!Next]_tableOf
<1> SUFFICES ASSUME IInv, IInv', [Next]_vars PROVE Table!Next \/ tableOf' = tableOf
  OBVIOUS
<1>0. ASSUME UNCHANGED rows PROVE tableOf' = tableOf
  BY <1>0 DEF tableOf, EntryOf, Named
<1>1. ASSUME NEW u \in Uuids, NEW r \in Row, rows' = [rows EXCEPT ![u] = r],
             Present(u) => rows[u].name = r.name
      PROVE  Table!Next
  BY <1>1, WriteSets DEF Table!Next, Row
<1>2. CASE SeedDefaultSettings
  BY <1>2, SeedSeeds DEF Table!Next
<1>3. ASSUME NEW w \in Workers, NEW n \in Names, NEW t \in Spellings, NEW k \in Kinds,
             UpsertSettingValueByName(w, n, t, k)
      PROVE  Table!Next
  <2>1. ASSUME NEW u \in Named(n), Valid(TypeFor(rows[u], t), k),
               rows' = [rows EXCEPT ![u] = Changed(@, t, k)]
        PROVE  Table!Next
    <3>1. u \in Uuids /\ rows[u] \in Row
      BY <2>1, PresentRow, SettingsAssumption DEF Named, IInv, Present
    <3> DEFINE r == Changed(rows[u], t, k)
    <3>2. r \in Row /\ r.name = rows[u].name /\ rows' = [rows EXCEPT ![u] = r]
      BY <2>1, <3>1, ChangedRow
    <3> HIDE DEF r
    <3>. QED
      BY <1>1, <3>1, <3>2
  <2>2. ASSUME NEW u \in Uuids, rows[u] = Unused, Valid(Lower(t), k),
               rows' = [rows EXCEPT ![u] = Made(n, t, k)]
        PROVE  Table!Next
    <3> DEFINE r == Made(n, t, k)
    <3>1. r \in Row /\ rows' = [rows EXCEPT ![u] = r] /\ ~Present(u)
      BY <2>2, MadeRow, Blank DEF Present
    <3> HIDE DEF r
    <3>. QED
      BY <1>1, <3>1
  <2>. QED
    BY <1>3, <2>1, <2>2 DEF UpsertSettingValueByName
<1>4. ASSUME NEW w \in Workers, NEW u \in Uuids, DeleteSettingByID(w, u) PROVE Table!Next
  BY <1>4, DeleteRemoves DEF DeleteSettingByID, Table!Next
<1>5. ASSUME NEW w \in Workers, Insert(w) PROVE Table!Next
  <2>1. PICK u \in Uuids : rows[u] = Unused /\ rows' = [rows EXCEPT ![u] = req[w].row]
    BY <1>5 DEF Insert
  <2>2. req[w].row \in Row /\ ~Present(u)
    BY <1>5, <2>1, Blank DEF Insert, IInv, TypeOK, Present
  <2>. QED
    BY <1>1, <2>1, <2>2
<1>6. ASSUME NEW w \in Workers, Save(w) \/ SaveInsert(w) PROVE Table!Next \/ UNCHANGED rows
  <2>1. Pending(w) /\ req[w].id \in Uuids /\ req[w].row \in Row
    BY <1>6, SettingsAssumption DEF Save, SaveInsert, IInv, TypeOK, Pending
  <2>2. Present(req[w].id) => rows[req[w].id].name = req[w].row.name
    BY <2>1 DEF IInv, Agree
  <2>3. rows' = [rows EXCEPT ![req[w].id] = req[w].row] \/ UNCHANGED rows
    BY <1>6 DEF Save, SaveInsert, Saved
  <2>. QED
    BY <1>1, <2>1, <2>2, <2>3
<1>7. ASSUME NEW w \in Workers,
             \/ \E n \in Names, t \in Spellings, k \in Kinds : CreateSetting(w, n, t, k)
             \/ \E u \in Uuids, t \in Spellings, k \in Kinds : UpdateSettingByID(w, u, t, k)
             \/ Fail(w)
      PROVE  UNCHANGED rows
  BY <1>7 DEF CreateSetting, UpdateSettingByID, Fail
<1>8. CASE UNCHANGED vars
  BY <1>0, <1>8 DEF vars
<1>. QED
  BY <1>0, <1>2, <1>3, <1>4, <1>5, <1>6, <1>7, <1>8 DEF Next, Request

\* The property TableSound: the two before, of the table and of what is about to
\* be written to it.
THEOREM TableSoundAlways == Spec => []TableSound
  BY TypeMatchesAlways, OneRowPerNameAlways, PTL DEF TableSound

\* The handlers and the seed implement the table callers rely on: the property
\* TableSpec.
THEOREM RefinesTable == Spec => TableSpec
<1>1. Init => Table!Init
  <2> SUFFICES ASSUME Init PROVE Table!Init
    OBVIOUS
  <2>1. \A n \in Names : Named(n) = {}
    BY SettingsAssumption, Blank DEF Init, Named
  <2>. QED
    BY <2>1 DEF Table!Init, EntryOf
<1>2. IInv /\ IInv' /\ [Next]_vars => [Table!Next]_[n \in Names |-> EntryOf(n)]
  BY StepRefines DEF tableOf
<1>. QED
  BY <1>1, <1>2, Invariance, PTL DEF Spec, TableSpec, Table!Spec
=============================================================================
