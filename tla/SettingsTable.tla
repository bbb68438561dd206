---------------------------- MODULE SettingsTable ----------------------------
(***************************************************************************)
(* What the settings API promises to its callers: a table with at most one *)
(* entry a name, each of a type and a value of that type.  A step sets one *)
(* entry or removes one, or a starting server adds the defaults that are   *)
(* missing, all of them at once.                                           *)
(***************************************************************************)
CONSTANTS Names, Types, Defaults, Absent

VARIABLE table  \* the type and the type of the value of each name

Entry == {[type |-> t, val |-> t] : t \in Types}

Init == table = [n \in Names |-> Absent]

Set(n)    == \E e \in Entry : table' = [table EXCEPT ![n] = e]
Remove(n) == table' = [table EXCEPT ![n] = Absent]
Seed ==
  /\ \A n \in Names \ Defaults : table'[n] = table[n]
  /\ \A n \in Defaults : IF table[n] = Absent THEN table'[n] \in Entry
                         ELSE table'[n] = table[n]
  /\ table' = [n \in Names |-> table'[n]]

Next == Seed \/ \E n \in Names : Set(n) \/ Remove(n)
Spec == Init /\ [][Next]_table
=============================================================================
