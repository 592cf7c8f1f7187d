--------------------------- MODULE CredentialCmd ---------------------------
(***************************************************************************)
(* The credential and otp commands (internal/client/cmd/credential and     *)
(* .../otpcmd): add, list, get and delete.  A credential is named by its   *)
(* id or by a part of its name, which is looked for in one page of the     *)
(* list; delete is a second call, and other clients write in between.      *)
(*                                                                         *)
(* A name is the set of the words that find it.                            *)
(***************************************************************************)
EXTENDS VaultStore

CONSTANTS
    Words,      \* what the user may type for a name
    Names,      \* the names items have
    MaxEdits,   \* bound on the writes of other clients
    NoItem      \* no item found

ASSUME CredAssumption ==
    /\ Names \subseteq SUBSET Words /\ MaxEdits \in Nat
    /\ {"credential", "otp"} \subseteq ItemTypes /\ NoItem \notin ItemIds

VARIABLES
    items,      \* the table
    name,       \* the metadata of each item
    run,        \* the command that runs
    edits,      \* writes of other clients so far
    \* history, read by the properties only
    at          \* the items and their names when the command looked

credVars == <<items, name, run, edits, at>>

NoRun == [op |-> "none", pc |-> "idle", q |-> NoItem, by |-> "none", found |-> NoItem, n |-> 0]

CredInit ==
    /\ \E I \in SUBSET ItemIds : \E t \in [I -> {"credential", "otp"}], nm \in [I -> Names] :
          /\ items = {[id |-> i, type |-> t[i], ver |-> 1, at |-> i] : i \in I}
          /\ name = nm
    /\ run = NoRun /\ edits = 0 /\ at = {}

----------------------------------------------------------------------------
(* The items with their names, as the server sends them.                   *)
Named == {[id |-> r.id, type |-> toProtoItem(r).type, words |-> name[r.id]] : r \in items}

(* CreateItem of a command, with the number of the type it is for.         *)
Create(i, n, nm) ==
    /\ run.pc = "idle" /\ i \notin Ids(items) /\ edits < MaxEdits
    /\ edits' = edits + 1
    /\ items' = Inserted(items, i, itemTypeName(n), Cardinality(ItemIds) + edits + 1)
    /\ name' = [j \in Ids(items') |-> IF j = i THEN nm ELSE name[j]]
    /\ UNCHANGED <<run, at>>

newAddCmd(i, nm)    == Create(i, 1, nm)
newOTPAddCmd(i, nm) == Create(i, 5, nm)

(* get, delete and otp code, named by an id: GetItem, of whatever type.    *)
LookById(op, i) ==
    /\ run.pc = "idle"
    /\ run' = [op |-> op, pc |-> IF i \in Ids(items) THEN "found" ELSE "missing",
               q |-> NoItem, by |-> "id", found |-> i, n |-> 1]
    /\ at' = Named
    /\ UNCHANGED <<items, name, edits>>

(* The first page of the credentials: no limit and no cursor is given.     *)
FirstPage(n) == List(items, [type |-> itemTypeName(n), limit |-> 0, cursor |-> NoCursor])

Matches(q) == {r \in FirstPage(1).items : q \in name[r.id]}

(* Mutant: the first of several matches is taken.                          *)
findCredential_First(op, q) ==
    /\ run.pc = "idle"
    /\ run' = [op |-> op, q |-> q, by |-> "name", n |-> Cardinality(Matches(q)),
               pc |-> IF Matches(q) = {} THEN "missing" ELSE "found",
               found |-> IF Matches(q) = {} THEN NoItem ELSE (CHOOSE r \in Matches(q) : TRUE).id]
    /\ at' = Named
    /\ UNCHANGED <<items, name, edits>>

(* findCredential with a name: exactly one match, or an error.             *)
findCredential(op, q) ==
    LET m == Matches(q)
        one == Cardinality(m) = 1
    IN  /\ run.pc = "idle"
        /\ run' = [op |-> op, q |-> q, by |-> "name", n |-> Cardinality(m),
                   pc |-> CASE one -> "found" [] m = {} -> "missing" [] OTHER -> "many",
                   found |-> IF one THEN (CHOOSE r \in m : TRUE).id ELSE NoItem]
        /\ at' = Named
        /\ UNCHANGED <<items, name, edits>>

Find(op) ==
    (\E i \in ItemIds : LookById(op, i)) \/ (\E q \in Words : findCredential(op, q))

(* get has what it prints, or copies, with the item it finds.              *)
newGetCmd == Find("get")

(* delete only begins with the item.                                       *)
newDeleteCmd == Find("delete")

(* A list command prints one page.                                         *)
OnePage(n) ==
    /\ run.pc = "idle"
    /\ run' = [NoRun EXCEPT !.op = "list", !.pc = "listed",
                            !.n = Cardinality(FirstPage(n).items)]
    /\ at' = Named
    /\ UNCHANGED <<items, name, edits>>

newListCmd    == OnePage(1)
newOTPListCmd == OnePage(5)

(* otp code takes whatever item has the id: without a secret in it there   *)
(* is an error instead of a code.                                          *)
newOTPCodeCmd(i) == LookById("code", i)

(* The names of the items that are left.                                   *)
Left(rows) == [i \in Ids(rows) |-> name[i]]

(* Mutant: the name is looked up once more.                                *)
DeleteFound_Again ==
    LET now == {r.id : r \in {s \in items : run.q \in name[s.id]}}
        ids == IF run.by = "id" THEN {run.found} ELSE now
    IN  /\ run.op = "delete" /\ run.pc = "found"
        /\ items' = {r \in items : r.id \notin ids}
        /\ run' = [run EXCEPT !.pc = IF ids \cap Ids(items) # {} THEN "deleted" ELSE "missing"]
        /\ name' = Left(items')
        /\ UNCHANGED <<edits, at>>

(* The second call of delete; the item may be gone, or renamed, by now.    *)
DeleteFound ==
    /\ run.op = "delete" /\ run.pc = "found"
    /\ items' = Deleted(items, run.found)
    /\ run' = [run EXCEPT !.pc = IF run.found \in Ids(items) THEN "deleted" ELSE "missing"]
    /\ name' = Left(items')
    /\ UNCHANGED <<edits, at>>

(* The command has printed what it has and ends.                           *)
CmdEnds ==
    /\ run.pc # "idle" /\ ~(run.op = "delete" /\ run.pc = "found")
    /\ run' = NoRun /\ at' = {}
    /\ UNCHANGED <<items, name, edits>>

(* Other clients of the user.                                              *)
EditElsewhere(i, nm) ==
    /\ edits < MaxEdits /\ i \in Ids(items)
    /\ edits' = edits + 1
    /\ \/ items' = Updated(items, i, Cardinality(ItemIds) + edits + 1)
          /\ name' = [name EXCEPT ![i] = nm]
       \/ items' = Deleted(items, i) /\ name' = Left(items')
    /\ UNCHANGED <<run, at>>

CredNext ==
    \/ DeleteFound \/ CmdEnds
    \/ newListCmd \/ newOTPListCmd
    \/ \E i \in ItemIds : newOTPCodeCmd(i)
    \/ \E i \in ItemIds : \E nm \in Names : newAddCmd(i, nm) \/ newOTPAddCmd(i, nm)
    \/ newGetCmd \/ newDeleteCmd
    \/ \E i \in ItemIds : \E nm \in Names : EditElsewhere(i, nm)

CredSpec == CredInit /\ [][CredNext]_credVars

----------------------------------------------------------------------------
Credentials(rows) == {r \in rows : r.type = 1}

(* The page of the commands leaves some credentials out.                   *)
Overflows == Cardinality(Credentials(at)) > ListDefault

(* Types.                                                                  *)
CredTypeOK ==
    /\ items \subseteq Row /\ edits \in 0..MaxEdits
    /\ run.found \in ItemIds \cup {NoItem} /\ run.n \in 0..ListDefault

(* A name stands for one credential: when a command goes on with an item   *)
(* found by name, that was the only credential the name fitted when it was *)
(* looked up, unless there were more credentials than a page holds.        *)
NameIsUnique ==
    run.by = "name" /\ run.pc \in {"found", "deleted"} =>
        LET fits == {r \in Credentials(at) : run.q \in r.words}
        IN  run.found \in Ids(fits) /\ (Overflows \/ Cardinality(fits) = 1)

(* A name is reported as not found, or as ambiguous, only when it is: again *)
(* unless there were more credentials than a page holds.                   *)
CountIsTrue ==
    run.by = "name" /\ ~Overflows =>
        run.n = Cardinality({r \in Credentials(at) : run.q \in r.words})

(* What delete removes is the item that was looked up, whoever writes in   *)
(* between, and nothing else.                                              *)
DeletesWhatWasFound ==
    [][run'.pc = "deleted" /\ run.pc # "deleted" =>
          Ids(items) \ Ids(items') = {run.found} /\ run.found \in Ids(at)]_credVars

(* A name stands for one credential and is reported as unknown or as       *)
(* ambiguous only when it is, unless a page does not hold them all.        *)
NameMeansOne == NameIsUnique /\ CountIsTrue
=============================================================================
