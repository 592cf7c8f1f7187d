---------------------------- MODULE VaultPaging ----------------------------
(***************************************************************************)
(* A client that follows next_cursor from page to page (ListItems in       *)
(* internal/server/handler/vault.go) while other requests of the same user *)
(* update the table.                                                       *)
(***************************************************************************)
EXTENDS VaultStore

CONSTANTS
    PageLimit,      \* the limit the client asks for
    TypeFilter,     \* the type it asks for, "" for every type
    MaxWrites       \* bound: writes while it is paging

ASSUME PagingAssumption ==
    /\ PageLimit \in Nat
    /\ TypeFilter \in ItemTypes \cup {""}
    /\ MaxWrites \in Nat

VARIABLES
    rows,       \* the table
    cursor,     \* the cursor of the next request
    seen,       \* the ids returned so far
    pages,      \* how many pages the client has read
    done,       \* the last page had an empty next_cursor
    writes      \* how many writes happened meanwhile

vars == <<rows, cursor, seen, pages, done, writes>>

(* The counter of pages stops here, above what TypeOK allows.              *)
MaxPages == Cardinality(ItemIds) + 2

Wanted == {r \in rows : TypeFilter # "" => r.type = TypeFilter}

(* Any table: rows created and updated in any order.                       *)
Init ==
    /\ \E I \in SUBSET ItemIds :
         \E t \in [I -> ItemTypes], at \in [I -> 1..Cardinality(ItemIds)] :
            rows = {[id |-> i, type |-> t[i], ver |-> 1, at |-> at[i]] : i \in I}
    /\ cursor = NoCursor
    /\ seen = {}
    /\ pages = 0
    /\ done = FALSE
    /\ writes = 0

ListItems ==
    /\ ~done
    /\ LET page == List(rows, [type |-> TypeFilter, limit |-> PageLimit, cursor |-> cursor])
       IN  /\ seen' = seen \cup Ids(page.items)
           /\ cursor' = page.next
           /\ done' = (page.next = NoCursor)
    /\ pages' = IF pages < MaxPages THEN pages + 1 ELSE pages
    /\ UNCHANGED <<rows, writes>>

(* A type that has no name fails the CHECK constraint: Internal.           *)
CreateItem(i, n) ==
    /\ writes < MaxWrites
    /\ i \notin Ids(rows)
    /\ itemTypeName(n) \in ItemTypes
    /\ rows' = Inserted(rows, i, itemTypeName(n), Cardinality(ItemIds) + writes + 1)
    /\ writes' = writes + 1
    /\ UNCHANGED <<cursor, seen, pages, done>>

UpdateItem(i) ==
    /\ writes < MaxWrites
    /\ i \in Ids(rows)
    /\ rows' = Updated(rows, i, Cardinality(ItemIds) + writes + 1)
    /\ writes' = writes + 1
    /\ UNCHANGED <<cursor, seen, pages, done>>

DeleteItem(i) ==
    /\ writes < MaxWrites
    /\ i \in Ids(rows)
    /\ rows' = Deleted(rows, i)
    /\ writes' = writes + 1
    /\ UNCHANGED <<cursor, seen, pages, done>>

Next ==
    \/ ListItems
    \/ \E i \in ItemIds : UpdateItem(i) \/ DeleteItem(i) \/ \E n \in 0..Len(TypeNames) : CreateItem(i, n)

(* The client keeps asking while there is a next cursor.                   *)
Spec == Init /\ [][Next]_vars /\ WF_vars(ListItems)

----------------------------------------------------------------------------
(* Types, and no more pages than there can be items.                       *)
TypeOK ==
    /\ rows \subseteq [id : ItemIds, type : ItemTypes, ver : Nat, at : Nat]
    /\ cursor \in ItemIds \cup {NoCursor}
    /\ seen \subseteq ItemIds
    /\ pages <= Cardinality(ItemIds) + 1
    /\ done \in BOOLEAN
    /\ writes \in 0..MaxWrites

(* Following next_cursor ends, whatever is written meanwhile: the cursors  *)
(* grow although the rows are not ordered by id.                           *)
PagingEnds == <>done

(* "ListItems returns a paginated list of vault items": the pages of a     *)
(* table nobody writes to contain every item.                              *)
PagesCoverAll == done /\ writes = 0 => seen = Ids(Wanted)
=============================================================================
