------------------------------- MODULE Database -------------------------------
(***************************************************************************)
(* What class database promises (database.cc): a map from keys to data,    *)
(* where data added to a key that is there is put after what it has.  This *)
(* is the database of type DB_MAP; a string of data is the sequence of the *)
(* items that blanks separate in it.                                       *)
(***************************************************************************)
EXTENDS Sequences

CONSTANTS Keys, Data

VARIABLE db

access(d, key) == IF key \in DOMAIN d THEN d[key] ELSE <<>>

replaced(d, key, data) == [k \in DOMAIN d \cup {key} |-> IF k = key THEN data ELSE d[k]]
added(d, key, data)    == replaced(d, key, access(d, key) \o data)
removed(d, key)        == [k \in DOMAIN d \ {key} |-> d[k]]

Init == db = [k \in {} |-> <<>>]

add_database    == \E key \in Keys, data \in Data : db' = added(db, key, data)
remove_database == \E key \in Keys : db' = removed(db, key)

\* What the two types have in common: replace_database is for DB_MAP alone.
Next == add_database \/ remove_database

Spec == Init /\ [][Next]_db
=============================================================================
