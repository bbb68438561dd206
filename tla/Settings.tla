------------------------------- MODULE Settings -------------------------------
(***************************************************************************)
(* The table setting: the handlers of internal/api/handler_setting.go and  *)
(* SeedDefaultSettings, which every starting server runs, also one that is *)
(* then refused because another is running.                                *)
(*                                                                         *)
(* A handler is a sequence of SQL statements; other requests run between   *)
(* them, and each may fail.  UpsertSettingValueByName and the seed are one *)
(* serializable transaction each.  A JSON value is the type it decodes to. *)
(***************************************************************************)
EXTENDS Naturals, FiniteSets

CONSTANTS Uuids,    \* row ids
          Names,    \* setting names, trimmed
          Defaults, \* the names SeedDefaultSettings knows
          Workers,  \* requests being served at a time
          None

ASSUME SettingsAssumption ==
  Defaults \subseteq Names /\ None \notin Names \cup Uuids

Types == {"int", "string", "bool"}
Kinds == Types \cup {"other"}  \* other: null, a list, an object, 1.5

\* The spellings of value_type in a request, and what TrimSpace and ToLower
\* make of them; "" is a missing one.
Spellings == Types \cup {"Bool", "float", ""}
Lower(t)  == IF t = "Bool" THEN "bool" ELSE t

Valid(t, k) == t \in Types /\ k = t

VARIABLES rows,  \* the table, by id
          req    \* each worker's request: the row it is about to write

vars == <<rows, req>>

Row      == [name : Names, type : Types, val : Kinds]
Unused   == [name |-> None, type |-> "", val |-> "other"]
Deleted  == [name |-> None, type |-> "deleted", val |-> "other"]
AtRest   == [pc |-> "idle", id |-> None, row |-> Unused]

TypeOK ==
  /\ rows \in [Uuids -> Row \cup {Unused, Deleted}]
  /\ req \in [Workers -> [pc : {"idle", "insert", "save", "resave"},
                          id : Uuids \cup {None}, row : Row \cup {Unused}]]
  /\ \A w \in Workers : /\ req[w].pc = "idle" <=> req[w].row = Unused
                        /\ req[w].pc \in {"save", "resave"} <=> req[w].id # None

Init == rows = [u \in Uuids |-> Unused] /\ req = [w \in Workers |-> AtRest]

Present(u) == rows[u].name # None
Named(n)   == {u \in Uuids : rows[u].name = n}

\* The unique index on name, for a row that is to have this id.
Fits(u, n) == Named(n) \subseteq {u}

Finish(w) == req' = [req EXCEPT ![w] = AtRest]
Hold(w, pc, u, row) ==
  /\ req[w].pc = "idle"
  /\ req' = [req EXCEPT ![w] = [pc |-> pc, id |-> u, row |-> row]]
\* bug: value_type is stored as it was spelled
MutantMade(n, t, k) == [name |-> n, type |-> t, val |-> k]
Made(n, t, k) == [name |-> n, type |-> Lower(t), val |-> k]

-----------------------------------------------------------------------------
\* Create: the name is counted first and inserted later, with a new id.
CreateSetting(w, n, t, k) ==
  /\ Valid(Lower(t), k) /\ Named(n) = {}
  /\ Hold(w, "insert", None, Made(n, t, k)) /\ UNCHANGED rows

Insert(w) ==
  /\ req[w].pc = "insert" /\ Finish(w)
  /\ \E u \in Uuids : /\ rows[u] = Unused /\ Fits(u, req[w].row.name)
                      /\ rows' = [rows EXCEPT ![u] = req[w].row]

\* The type of a request that names none is the type the row has.
TypeFor(row, t) == IF t = "" THEN row.type ELSE Lower(t)
\* bug: a new type is checked and then forgotten
MutantChanged(row, t, k) == [row EXCEPT !.val = k]
Changed(row, t, k) == [name |-> row.name, type |-> TypeFor(row, t), val |-> k]

(***************************************************************************)
(* Patch: the row is read, a value checked against the new or the old type *)
(* and the whole row saved later.  A body without a value and a type saves *)
(* the row as it was read.                                                 *)
(***************************************************************************)
UpdateSettingByID(w, u, t, k) ==
  /\ Present(u)
  /\ \/ Valid(TypeFor(rows[u], t), k) /\ Hold(w, "save", u, Changed(rows[u], t, k))
     \/ Hold(w, "save", u, rows[u])
  /\ UNCHANGED rows

\* bug: only the value is written
MutantSaved(w) == [rows[req[w].id] EXCEPT !.val = req[w].row.val]
Saved(w) == req[w].row

\* gorm's Save: an UPDATE of all columns and, if there is no such row, an
\* INSERT that overwrites a row of the same id.
Save(w) ==
  /\ req[w].pc = "save"
  /\ IF Present(req[w].id)
     THEN Finish(w) /\ rows' = [rows EXCEPT ![req[w].id] = Saved(w)]
     ELSE req' = [req EXCEPT ![w].pc = "resave"] /\ UNCHANGED rows

SaveInsert(w) ==
  /\ req[w].pc = "resave" /\ Finish(w) /\ Fits(req[w].id, req[w].row.name)
  /\ rows' = [rows EXCEPT ![req[w].id] = req[w].row]

UpsertSettingValueByName(w, n, t, k) ==
  /\ req[w].pc = "idle" /\ UNCHANGED req
  /\ \/ \E u \in Named(n) : /\ Valid(TypeFor(rows[u], t), k)
                            /\ rows' = [rows EXCEPT ![u] = Changed(@, t, k)]
     \/ \E u \in Uuids : /\ Named(n) = {} /\ rows[u] = Unused
                         /\ t # "" /\ Valid(Lower(t), k)
                         /\ rows' = [rows EXCEPT ![u] = Made(n, t, k)]

DeleteSettingByID(w, u) ==
  /\ req[w].pc = "idle" /\ Present(u)
  /\ rows' = [rows EXCEPT ![u] = Deleted] /\ UNCHANGED req

\* A statement fails, or the body or the request is refused.
Fail(w) == req[w].pc # "idle" /\ Finish(w) /\ UNCHANGED rows

(***************************************************************************)
(* SeedDefaultSettings: the defaults that are missing, in one transaction. *)
(***************************************************************************)
Missing == {n \in Defaults : Named(n) = {}}

SeedDefaultSettings ==
  /\ \E id \in [Missing -> {u \in Uuids : rows[u] = Unused}], t \in Types :
       /\ \A m, n \in Missing : id[m] = id[n] => m = n
       /\ rows' = [u \in Uuids |-> IF \E n \in Missing : id[n] = u
                     THEN Made(CHOOSE n \in Missing : id[n] = u, t, t) ELSE rows[u]]
  /\ UNCHANGED req

-----------------------------------------------------------------------------
Request(w) ==
  \/ \E n \in Names, t \in Spellings, k \in Kinds :
       CreateSetting(w, n, t, k) \/ UpsertSettingValueByName(w, n, t, k)
  \/ \E u \in Uuids, t \in Spellings, k \in Kinds : UpdateSettingByID(w, u, t, k)
  \/ \E u \in Uuids : DeleteSettingByID(w, u)
  \/ Insert(w) \/ Save(w) \/ SaveInsert(w) \/ Fail(w)

Next == SeedDefaultSettings \/ \E w \in Workers : Request(w)
Spec == Init /\ [][Next]_vars

-----------------------------------------------------------------------------
(***************************************************************************)
(* value_type is one of the three types and the type of the value, in      *)
(* every row and in every row about to be written, although updates write  *)
(* rows they read before others changed or deleted them.                   *)
(***************************************************************************)
TypeMatches ==
  /\ \A u \in Uuids : Present(u) => Valid(rows[u].type, rows[u].val)
  /\ \A w \in Workers : req[w].pc # "idle" => Valid(req[w].row.type, req[w].row.val)

(***************************************************************************)
(* A name has one row at most, and a pending update of a row never renames *)
(* what has that id by the time it is written.                             *)
(***************************************************************************)
OneRowPerName ==
  /\ \A n \in Names : Cardinality(Named(n)) <= 1
  /\ \A w \in Workers : req[w].pc \in {"save", "resave"} /\ Present(req[w].id) =>
       rows[req[w].id].name = req[w].row.name

(***************************************************************************)
(* What every reader of the table relies on, and every pending write too.  *)
(***************************************************************************)
TableSound == TypeMatches /\ OneRowPerName

\* The table by name, as callers see it.
EntryOf(n) == IF Named(n) = {} THEN None
              ELSE LET row == rows[CHOOSE u \in Named(n) : TRUE]
                   IN  [type |-> row.type, val |-> row.val]
Table == INSTANCE SettingsTable
         WITH table <- [n \in Names |-> EntryOf(n)], Absent <- None

(***************************************************************************)
(* Refinement: whatever the handlers interleave, each of their steps sets  *)
(* or removes one well-typed entry, and a seed fills in what is missing,   *)
(* all of it at once, and leaves the rest alone.                           *)
(***************************************************************************)
TableSpec == Table!Spec

=============================================================================
