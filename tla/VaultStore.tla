----------------------------- MODULE VaultStore ----------------------------
(***************************************************************************)
(* internal/server/storage/postgres/vault.go: the vault_items table of one *)
(* user, as a set of rows, and the statements that read and change it.     *)
(* Every statement is one transaction.  An id is a UUID: an arbitrary      *)
(* number, unrelated to the time of creation; 0 stands for the empty       *)
(* cursor.  A payload is not looked at by the server and is left out.      *)
(***************************************************************************)
EXTENDS Naturals, FiniteSets, Sequences

CONSTANTS
    ItemIds,        \* the UUIDs that can be drawn, as positive numbers
    ItemTypes,      \* the types the CHECK constraint allows
    ListMax,        \* largest limit List honours (200)
    ListDefault     \* limit used for any other request (50)

ASSUME StoreAssumption ==
    /\ ItemIds \subseteq Nat \ {0} /\ IsFiniteSet(ItemIds)      \* UUIDs have 128 bits
    /\ "" \notin ItemTypes
    /\ ListMax \in Nat \ {0}
    /\ ListDefault \in 1..ListMax

NoCursor == 0

Row == [id : ItemIds, type : ItemTypes, ver : Nat \ {0}, at : Nat]

Ids(rows) == {r.id : r \in rows}

(* The types of a message by number, 0 being unspecified, and by the name  *)
(* the table has for them.                                                 *)
TypeNames == <<"credential", "text", "binary", "card", "otp">>

itemTypeName(n) == IF n \in DOMAIN TypeNames THEN TypeNames[n] ELSE ""

toProtoItemType(s) ==
    IF \E n \in DOMAIN TypeNames : TypeNames[n] = s
    THEN CHOOSE n \in DOMAIN TypeNames : TypeNames[n] = s
    ELSE 0

(* A row as the handlers send it.                                          *)
toProtoItem(r) == [r EXCEPT !.type = toProtoItemType(@)]

RowOf(rows, i) == CHOOSE r \in rows : r.id = i

(* INSERT: a fresh id, version 1.                                          *)
Inserted(rows, i, t, now) ==
    rows \cup {[id |-> i, type |-> t, ver |-> 1, at |-> now]}

(* Mutant: the version is written back as it was read.                     *)
Updated_SameVersion(rows, i, now) ==
    {IF r.id = i THEN [r EXCEPT !.at = now] ELSE r : r \in rows}

(* UPDATE ... SET version = version + 1, updated_at = now().               *)
Updated(rows, i, now) ==
    {IF r.id = i THEN [r EXCEPT !.ver = @ + 1, !.at = now] ELSE r : r \in rows}

Deleted(rows, i) == {r \in rows : r.id # i}

----------------------------------------------------------------------------
(* SELECT ... ORDER BY updated_at DESC, id LIMIT limit + 1                 *)

Limit(l) == IF l <= 0 \/ l > ListMax THEN ListDefault ELSE l

Matching(rows, f) ==
    {r \in rows : /\ f.type # "" => r.type = f.type
                  /\ f.cursor # NoCursor => r.id > f.cursor}

Precedes(r, s) == r.at > s.at \/ (r.at = s.at /\ r.id < s.id)

Rank(rows, r) == Cardinality({s \in rows : Precedes(s, r)})

(* The page, and the id of the first row behind it as the next cursor.     *)
List(rows, f) ==
    LET R == Matching(rows, f)
        n == Limit(f.limit)
    IN  [items |-> {r \in R : Rank(R, r) < n},
         next  |-> IF Cardinality(R) > n
                   THEN (CHOOSE r \in R : Rank(R, r) = n).id
                   ELSE NoCursor]

(* A connection that fails while the rows arrive ends the loop over them   *)
(* like the last row, since rows.Err is not read: any beginning of the     *)
(* page may be returned as the whole answer.                               *)
ListOrPart(rows, f) ==
    LET R == Matching(rows, f)
    IN  {List(rows, f)} \cup
        {[items |-> {r \in R : Rank(R, r) < k}, next |-> NoCursor] : k \in 0..Limit(f.limit)}
=============================================================================
