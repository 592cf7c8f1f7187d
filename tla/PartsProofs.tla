--------------------------- MODULE PartsProofs -----------------------------
(***************************************************************************)
(* Proofs about the parts of the server and of the client that share no    *)
(* state: paging through the vault (VaultPaging), the credential commands  *)
(* (CredentialCmd), the rate limiter (RateLimiter), the life of the server *)
(* process (ServerLife), the local files (LocalFiles) and the two          *)
(* derivations of the generate command (Derivation).  Each part has its    *)
(* specification, its inductive invariant, one lemma per action and its    *)
(* theorems; the parts on paging and on the credential commands share the  *)
(* lemmas on ordered pages.  The last section puts the parts together,     *)
(* with ClientSession and its own proofs, as MCParts does for TLC.         *)
(*                                                                         *)
(* The theorems hold for every size of a page, every rate and burst, every *)
(* width of the words of a stream and any number of rows, peers, calls,    *)
(* saves and runs.                                                         *)
(***************************************************************************)
EXTENDS MCParts, ClientSessionProofs, DataLemmas, FiniteSetTheorems, TLAPS

-----------------------------------------------------------------------------
(* The vault table and the credential commands: CredSpec of CredentialCmd. *)

(* The library's facts on surjections and bijections, for a function given *)
(* by name.                                                                *)
LEMMA OntoIsFinite ==
    ASSUME NEW S, NEW T, IsFiniteSet(S), NEW f \in [S -> T], \A t \in T : \E s \in S : f[s] = t
    PROVE  IsFiniteSet(T)
<1>1. f \in Surjection(S, T)
  BY DEF Surjection
<1> QED BY <1>1, FS_Surjection

(* Sets that a function maps one to one have the same size.                *)
LEMMA OneToOneSameSize ==
    ASSUME NEW S, NEW T, IsFiniteSet(S), NEW f \in [S -> T],
           \A t \in T : \E s \in S : f[s] = t,
           \A a, b \in S : f[a] = f[b] => a = b
    PROVE  IsFiniteSet(T) /\ Cardinality(T) = Cardinality(S)
<1>1. f \in Bijection(S, T)
  BY DEF Bijection, Surjection, Injection, IsInjective
<1> QED BY <1>1, FS_Bijection DEF ExistsBijection

(* What StoreAssumption says of the ids and the page sizes.                *)
LEMMA StoreNumbers ==
    /\ ItemIds \subseteq Nat \ {0} /\ IsFiniteSet(ItemIds) /\ Cardinality(ItemIds) \in Nat
    /\ ListMax \in Nat \ {0} /\ ListDefault \in 1..ListMax
    /\ ListDefault \in Nat /\ 1 \in 0..ListDefault /\ 0 \in 0..ListDefault
<1>1. /\ ItemIds \subseteq Nat \ {0} /\ IsFiniteSet(ItemIds)
      /\ ListMax \in Nat \ {0} /\ ListDefault \in 1..ListMax
  BY StoreAssumption, Zenon
<1> QED BY <1>1, FS_CardinalityType

(* A vault table: finitely many rows, one for an id.                       *)
Rows(R) == /\ R \subseteq Row /\ IsFiniteSet(R)
           /\ \A r, s \in R : r.id = s.id => r = s

(* Some rows of a table are a table.                                       *)
LEMMA SomeRows ==
    ASSUME NEW R, Rows(R), NEW S, S \subseteq R
    PROVE  Rows(S)
BY FS_Subset DEF Rows

(* INSERT with a new id.                                                   *)
LEMMA InsertedRows ==
    ASSUME NEW R, Rows(R), NEW i \in ItemIds, i \notin Ids(R), NEW t \in ItemTypes, NEW n \in Nat
    PROVE  Rows(Inserted(R, i, t, n))
<1>1. PICK x : x = [id |-> i, type |-> t, ver |-> 1, at |-> n]
  OBVIOUS
<1>2. x \in Row /\ x.id = i /\ \A r \in R : r.id # i
  BY <1>1 DEF Row, Ids
<1>3. IsFiniteSet(R \cup {x})
  BY FS_AddElement DEF Rows
<1>4. Rows(R \cup {x})
  BY <1>2, <1>3 DEF Rows
<1> QED BY <1>1, <1>4 DEF Inserted

(* UPDATE keeps the ids.                                                   *)
LEMMA UpdatedRows ==
    ASSUME NEW R, Rows(R), NEW i, NEW n \in Nat
    PROVE  Rows(Updated(R, i, n)) /\ Ids(Updated(R, i, n)) = Ids(R)
<1> DEFINE F(r) == IF r.id = i THEN [r EXCEPT !.ver = @ + 1, !.at = n] ELSE r
           U    == Updated(R, i, n)
<1>1. U = {F(r) : r \in R}
  BY DEF Updated
<1>2. \A r \in R : F(r) \in Row /\ F(r).id = r.id
  <2> SUFFICES ASSUME NEW r \in R PROVE F(r) \in Row /\ F(r).id = r.id
    OBVIOUS
  <2>1. r \in Row /\ r.ver + 1 \in Nat \ {0}
    BY DEF Rows, Row
  <2>2. PICK x : x = [r EXCEPT !.ver = r.ver + 1, !.at = n]
    OBVIOUS
  <2>3. x \in Row /\ x.id = r.id
    BY <2>1, <2>2 DEF Row
  <2> QED BY <2>1, <2>2, <2>3
<1>3. PICK f : f = [r \in R |-> F(r)]
  OBVIOUS
<1>4. f \in [R -> U] /\ \A t \in U : \E s \in R : f[s] = t
  BY <1>1, <1>3
<1>5. IsFiniteSet(U)
  BY <1>4, OntoIsFinite DEF Rows
<1>6. U \subseteq Row
  BY <1>1, <1>2
<1>7. \A r, s \in U : r.id = s.id => r = s
  <2> SUFFICES ASSUME NEW r \in U, NEW s \in U, r.id = s.id PROVE r = s
    OBVIOUS
  <2>1. PICK a \in R : r = F(a)
    BY <1>1
  <2>2. PICK b \in R : s = F(b)
    BY <1>1
  <2>3. a.id = b.id
    BY <1>2, <2>1, <2>2
  <2>4. a = b
    BY <2>3 DEF Rows
  <2> QED BY <2>1, <2>2, <2>4
<1>8. Ids(U) = Ids(R)
  BY ZenonT(30), <1>1, <1>2 DEF Ids
<1> QED BY <1>5, <1>6, <1>7, <1>8 DEF Rows

(* DELETE takes one id out.                                                *)
LEMMA DeletedRows ==
    ASSUME NEW R, Rows(R), NEW i
    PROVE  Rows(Deleted(R, i)) /\ Ids(Deleted(R, i)) = Ids(R) \ {i}
BY SomeRows DEF Deleted, Ids

(* ORDER BY updated_at DESC, id is a strict total order of a table.        *)
LEMMA PrecedesOrder ==
    ASSUME NEW R, Rows(R), NEW r \in R, NEW s \in R
    PROVE  /\ ~Precedes(r, r)
           /\ Precedes(r, s) \/ Precedes(s, r) \/ r = s
           /\ \A t \in R : Precedes(t, r) /\ Precedes(r, s) => Precedes(t, s)
<1>1. \A t \in R : t.id \in Nat /\ t.at \in Nat
  BY StoreNumbers DEF Rows, Row
<1> QED BY <1>1 DEF Rows, Precedes

(* The rank of a row is a number below the size of the table, and grows    *)
(* along the order.                                                        *)
LEMMA RankGrows ==
    ASSUME NEW R, Rows(R), NEW r \in R
    PROVE  /\ Rank(R, r) \in Nat /\ Rank(R, r) < Cardinality(R)
           /\ \A s \in R : Precedes(s, r) => Rank(R, s) < Rank(R, r)
<1> DEFINE Before(x) == {t \in R : Precedes(t, x)}
<1>1. \A x \in R : IsFiniteSet(Before(x)) /\ Cardinality(Before(x)) \in Nat
                     /\ Rank(R, x) = Cardinality(Before(x))
  BY FS_Subset, FS_CardinalityType DEF Rows, Rank
<1>2. ASSUME NEW x \in R, NEW S, IsFiniteSet(S), x \in S, Before(x) \subseteq S
      PROVE  Rank(R, x) < Cardinality(S)
  <2>1. x \notin Before(x)
    BY PrecedesOrder
  <2>2. Before(x) \in SUBSET S /\ S # Before(x)
    BY <1>2, <2>1
  <2>3. Cardinality(Before(x)) <= Cardinality(S) /\ Cardinality(S) # Cardinality(Before(x))
    BY <1>2, <2>2, FS_Subset
  <2>4. Cardinality(S) \in Nat
    BY <1>2, FS_CardinalityType
  <2> QED BY <1>1, <2>3, <2>4
<1>3. Rank(R, r) < Cardinality(R)
  BY <1>2 DEF Rows
<1>4. ASSUME NEW s \in R, Precedes(s, r) PROVE Rank(R, s) < Rank(R, r)
  <2>1. s \in Before(r) /\ Before(s) \subseteq Before(r)
    BY <1>4, PrecedesOrder
  <2> QED BY <1>1, <1>2, <2>1
<1> QED BY <1>1, <1>3, <1>4

(* No two rows have the same rank.                                         *)
LEMMA RanksDiffer ==
    ASSUME NEW R, Rows(R), NEW a \in R, NEW b \in R, Rank(R, a) = Rank(R, b)
    PROVE  a = b
<1>1. Rank(R, a) \in Nat /\ Rank(R, b) \in Nat
  BY RankGrows
<1>2. ~Precedes(a, b)
  <2> SUFFICES ASSUME Precedes(a, b) PROVE FALSE
    OBVIOUS
  <2>1. Rank(R, a) < Rank(R, b)
    BY RankGrows
  <2> QED BY <1>1, <2>1
<1>3. ~Precedes(b, a)
  <2> SUFFICES ASSUME Precedes(b, a) PROVE FALSE
    OBVIOUS
  <2>1. Rank(R, b) < Rank(R, a)
    BY RankGrows
  <2> QED BY <1>1, <2>1
<1> QED BY <1>2, <1>3, PrecedesOrder

(* Counting from zero.                                                     *)
LEMMA FirstNumbers ==
    ASSUME NEW n \in Nat
    PROVE  IsFiniteSet(0..(n - 1)) /\ Cardinality(0..(n - 1)) = n
<1>1. 0 \in Int /\ n - 1 \in Int
  OBVIOUS
<1>2. /\ IsFiniteSet(0..(n - 1))
      /\ Cardinality(0..(n - 1)) = IF 0 > n - 1 THEN 0 ELSE (n - 1) - 0 + 1
  BY <1>1, FS_Interval
<1> QED BY <1>2

(* LIMIT n: no more than n rows.                                           *)
LEMMA PageIsBounded ==
    ASSUME NEW R, Rows(R), NEW n \in Nat
    PROVE  LET page == {r \in R : Rank(R, r) < n}
           IN  IsFiniteSet(page) /\ Cardinality(page) \in 0..n
<1> DEFINE page == {r \in R : Rank(R, r) < n}
<1>1. PICK f : f = [r \in page |-> Rank(R, r)]
  OBVIOUS
<1>2. f \in [page -> 0..(n - 1)]
  BY <1>1, RankGrows
<1>3. \A a, b \in page : f[a] = f[b] => a = b
  BY <1>1, RanksDiffer
<1>4. f \in Injection(page, 0..(n - 1))
  BY <1>2, <1>3 DEF Injection, IsInjective
<1>5. IsFiniteSet(page) /\ Cardinality(page) <= n
  BY <1>4, FirstNumbers, FS_Injection
<1> QED BY <1>5, FS_CardinalityType

(* Every number below the size of the table is the rank of a row: there is *)
(* no gap in the order that a LIMIT could fall into.                       *)
LEMMA RanksAreAll ==
    ASSUME NEW R, Rows(R), NEW n \in Nat, n < Cardinality(R)
    PROVE  \E r \in R : Rank(R, r) = n
<1>1. PICK k \in Nat : k = Cardinality(R)
  BY FS_CardinalityType DEF Rows
<1>2. PICK f : f = [r \in R |-> Rank(R, r)]
  OBVIOUS
<1>3. f \in [R -> 0..(k - 1)]
  <2>1. \A r \in R : Rank(R, r) \in Nat /\ Rank(R, r) < k
    BY <1>1, RankGrows
  <2>2. \A r \in R : Rank(R, r) \in 0..(k - 1)
    BY <2>1
  <2> QED BY <1>2, <2>2
<1>4. \A a, b \in R : f[a] = f[b] => a = b
  BY <1>2, RanksDiffer
<1>5. f \in Injection(R, 0..(k - 1))
  BY <1>3, <1>4 DEF Injection, IsInjective
<1>6. f \in Surjection(R, 0..(k - 1))
  BY <1>1, <1>5, FirstNumbers, FS_Injection
<1>7. n \in 0..(k - 1)
  BY <1>1
<1> QED BY <1>2, <1>6, <1>7 DEF Surjection

(* LIMIT n takes a whole table of no more than n rows.                     *)
LEMMA PageHoldsAll ==
    ASSUME NEW R, Rows(R), NEW n \in Nat, Cardinality(R) <= n
    PROVE  {r \in R : Rank(R, r) < n} = R
<1>1. Cardinality(R) \in Nat
  BY FS_CardinalityType DEF Rows
<1>2. \A r \in R : Rank(R, r) \in Nat /\ Rank(R, r) < Cardinality(R)
  BY RankGrows
<1>3. \A r \in R : Rank(R, r) < n
  BY <1>1, <1>2
<1> QED BY <1>3

(* The number 1 is the type of credentials, both ways, and of nothing      *)
(* else.                                                                   *)
LEMMA TypesByNumber ==
    /\ itemTypeName(1) = "credential" /\ itemTypeName(5) = "otp"
    /\ \A t : toProtoItemType(t) = 1 <=> t = "credential"
<1>1. /\ DOMAIN TypeNames = 1..5
      /\ TypeNames[1] = "credential" /\ TypeNames[2] = "text" /\ TypeNames[3] = "binary"
      /\ TypeNames[4] = "card" /\ TypeNames[5] = "otp"
  BY DEF TypeNames
<1>2. 1 \in 1..5 /\ 5 \in 1..5 /\ 0 # 1
  OBVIOUS
<1>3. \A k \in 1..5 : TypeNames[k] = "credential" <=> k = 1
  <2>1. \A k \in 1..5 : k = 1 \/ k = 2 \/ k = 3 \/ k = 4 \/ k = 5
    OBVIOUS
  <2> QED BY <1>1, <2>1
<1>4. ASSUME NEW t PROVE toProtoItemType(t) = 1 <=> t = "credential"
  <2>1. CASE \E n \in 1..5 : TypeNames[n] = t
    <3>1. PICK k : k = CHOOSE n \in 1..5 : TypeNames[n] = t
      OBVIOUS
    <3>2. k \in 1..5 /\ TypeNames[k] = t
      BY <2>1, <3>1
    <3>3. toProtoItemType(t) = k
      BY <1>1, <2>1, <3>1 DEF toProtoItemType
    <3> QED BY <1>3, <3>2, <3>3
  <2>2. CASE ~\E n \in 1..5 : TypeNames[n] = t
    <3>1. toProtoItemType(t) = 0
      BY <1>1, <2>2 DEF toProtoItemType
    <3> QED BY <1>1, <1>2, <2>2, <3>1
  <2> QED BY <2>1, <2>2
<1> QED BY <1>1, <1>2, <1>4 DEF itemTypeName

(* The rows of one type.                                                   *)
OfType(t) == {r \in items : r.type = t}

(* The one page a command asks for: the rows of its type that rank below   *)
(* the server's default page size.                                         *)
LEMMA FirstPageIs ==
    ASSUME NEW n \in {1, 5}, Rows(items)
    PROVE  /\ Rows(OfType(itemTypeName(n)))
           /\ FirstPage(n).items =
                {r \in OfType(itemTypeName(n)) : Rank(OfType(itemTypeName(n)), r) < ListDefault}
<1>1. PICK t : t = itemTypeName(n)
  OBVIOUS
<1>2. t # "" /\ t \in {"credential", "otp"}
  BY <1>1, TypesByNumber
<1>3. PICK f : f = [type |-> t, limit |-> 0, cursor |-> NoCursor]
  OBVIOUS
<1>4. f.type = t /\ f.cursor = NoCursor /\ f.limit = 0
  BY <1>3
<1>5. Matching(items, f) = OfType(t)
  BY <1>2, <1>4 DEF Matching, OfType
<1>6. Limit(f.limit) = ListDefault
  BY <1>4 DEF Limit
<1>7. FirstPage(n) = List(items, f)
  BY <1>1, <1>3 DEF FirstPage
<1>8. List(items, f).items = {r \in OfType(t) : Rank(OfType(t), r) < ListDefault}
  BY <1>5, <1>6 DEF List
<1>9. Rows(OfType(t))
  BY SomeRows DEF OfType
<1> QED BY <1>1, <1>7, <1>8, <1>9

(* The page has no more rows than the default size, and all the rows of    *)
(* the type when there are no more than that.                              *)
LEMMA PageCounts ==
    ASSUME NEW n \in {1, 5}, Rows(items)
    PROVE  /\ Rows(FirstPage(n).items) /\ FirstPage(n).items \subseteq OfType(itemTypeName(n))
           /\ Cardinality(FirstPage(n).items) \in 0..ListDefault
           /\ Cardinality(OfType(itemTypeName(n))) <= ListDefault
                => FirstPage(n).items = OfType(itemTypeName(n))
<1>1. PICK R : R = OfType(itemTypeName(n))
  OBVIOUS
<1>2. Rows(R) /\ FirstPage(n).items = {r \in R : Rank(R, r) < ListDefault}
  BY <1>1, FirstPageIs
<1>3. ListDefault \in Nat
  BY StoreNumbers
<1> QED BY <1>1, <1>2, <1>3, PageIsBounded, PageHoldsAll, SomeRows

(* The credentials whose name matches a query.                             *)
Fitting(q) == {r \in OfType("credential") : q \in name[r.id]}

(* Decoding a list of items as credentials keeps their number, their       *)
(* matches and their ids.                                                  *)
LEMMA ListedAll ==
    ASSUME Rows(items), NEW q
    PROVE  /\ Cardinality(Credentials(Named)) = Cardinality(OfType("credential"))
           /\ Cardinality({x \in Credentials(Named) : q \in x.words}) = Cardinality(Fitting(q))
           /\ Ids({x \in Credentials(Named) : q \in x.words}) = Ids(Fitting(q))
           /\ Ids(Named) = Ids(items)
<1> DEFINE Sent(r) == [id |-> r.id, type |-> toProtoItem(r).type, words |-> name[r.id]]
<1>1. \A r \in items : toProtoItem(r).type = toProtoItemType(r.type)
  <2> SUFFICES ASSUME NEW r \in items PROVE toProtoItem(r).type = toProtoItemType(r.type)
    OBVIOUS
  <2>1. PICK p : p = toProtoItemType(r.type)
    OBVIOUS
  <2>2. r \in Row /\ toProtoItem(r) = [r EXCEPT !.type = p]
    BY <2>1 DEF Rows, toProtoItem
  <2> QED BY <2>1, <2>2 DEF Row
<1>2. \A r \in items : /\ Sent(r).id = r.id /\ Sent(r).words = name[r.id]
                       /\ Sent(r).type = 1 <=> r.type = "credential"
  BY <1>1, TypesByNumber
<1>3. Named = {Sent(r) : r \in items}
  BY DEF Named
<1> HIDE DEF Sent
<1>4. Credentials(Named) = {Sent(r) : r \in OfType("credential")}
  BY <1>2, <1>3 DEF Credentials, OfType
<1>5. {x \in Credentials(Named) : q \in x.words} = {Sent(r) : r \in Fitting(q)}
  BY <1>2, <1>4 DEF Fitting, OfType
<1>6. ASSUME NEW S, S \subseteq items
      PROVE  Cardinality({Sent(r) : r \in S}) = Cardinality(S) /\ Ids({Sent(r) : r \in S}) = Ids(S)
  <2>1. PICK f : f = [r \in S |-> Sent(r)]
    OBVIOUS
  <2>2. PICK T : T = {Sent(r) : r \in S}
    OBVIOUS
  <2>3. f \in [S -> T] /\ \A t \in T : \E s \in S : f[s] = t
    BY <2>1, <2>2
  <2>4. \A a, b \in S : f[a] = f[b] => a = b
    BY <1>2, <1>6, <2>1 DEF Rows
  <2>5. IsFiniteSet(S)
    BY <1>6, FS_Subset DEF Rows
  <2>6. Cardinality(T) = Cardinality(S)
    BY <2>3, <2>4, <2>5, OneToOneSameSize
  <2>7. Ids(T) = Ids(S)
    BY <1>2, <1>6, <2>2 DEF Ids
  <2> QED BY <2>2, <2>6, <2>7
<1>7. OfType("credential") \subseteq items /\ Fitting(q) \subseteq items
  BY DEF OfType, Fitting
<1> QED BY <1>3, <1>4, <1>5, <1>6, <1>7

----

(* The command under way, and what it has found.                           *)
Runs ==
    [op : {"none", "get", "delete", "list", "code"},
     pc : {"idle", "found", "missing", "many", "listed", "deleted"},
     q : Words \cup {NoItem}, by : {"none", "id", "name"},
     found : ItemIds \cup {NoItem}, n : 0..ListDefault]

(* The inductive invariant of the credential commands.  The table behind   *)
(* NameMeansOne changes while a command runs, so the command's answer is   *)
(* compared with the table it was read from.                               *)
CredInv ==
    /\ Rows(items) /\ edits \in 0..MaxEdits
    /\ run \in Runs
    /\ run.pc \in {"found", "deleted"} => run.found \in Ids(at)
    /\ NameMeansOne

(* A table, and no command under way.                                      *)
LEMMA CredInitial == CredInit => CredInv
<1> SUFFICES ASSUME CredInit PROVE CredInv
  OBVIOUS
<1>1. PICK I \in SUBSET ItemIds : \E t \in [I -> {"credential", "otp"}] :
          items = {[id |-> i, type |-> t[i], ver |-> 1, at |-> i] : i \in I}
  BY DEF CredInit
<1>2. PICK t \in [I -> {"credential", "otp"}] :
          items = {[id |-> i, type |-> t[i], ver |-> 1, at |-> i] : i \in I}
  BY <1>1
<1>3. PICK f : f = [i \in I |-> [id |-> i, type |-> t[i], ver |-> 1, at |-> i]]
  OBVIOUS
<1>4. f \in [I -> items] /\ \A r \in items : \E i \in I : f[i] = r
  BY <1>2, <1>3
<1>5. IsFiniteSet(items)
  <2>1. IsFiniteSet(I)
    BY StoreNumbers, FS_Subset
  <2> QED BY <1>4, <2>1, OntoIsFinite
<1>6. \A i \in I : f[i] \in Row /\ f[i].id = i
  BY <1>3, StoreNumbers, CredAssumption DEF Row
<1>7. Rows(items)
  BY <1>4, <1>5, <1>6 DEF Rows
<1>8. /\ run \in Runs /\ run.pc = "idle" /\ run.by = "none"
  <2>1. run = NoRun
    BY DEF CredInit
  <2>2. ListDefault \in Nat
    BY StoreNumbers
  <2> QED BY <2>1, <2>2 DEF NoRun, Runs
<1>9. edits \in 0..MaxEdits
  BY CredAssumption DEF CredInit
<1> QED BY <1>7, <1>8, <1>9 DEF CredInv, NameMeansOne, NameIsUnique, CountIsTrue

(* A step that writes the table and leaves the command alone.              *)
LEMMA TableStep ==
    ASSUME CredInv, Rows(items)', edits' \in 0..MaxEdits, UNCHANGED <<run, at>>
    PROVE  CredInv'
BY DEF CredInv, NameMeansOne, NameIsUnique, CountIsTrue, Overflows

(* The add commands insert an item.                                        *)
LEMMA CreateStep ==
    ASSUME CredInv, NEW i \in ItemIds, NEW n \in {1, 5}, NEW nm, Create(i, n, nm)
    PROVE  CredInv'
<1>1. itemTypeName(n) \in ItemTypes
  BY TypesByNumber, CredAssumption
<1>2. /\ i \notin Ids(items) /\ edits < MaxEdits /\ edits' = edits + 1
      /\ items' = Inserted(items, i, itemTypeName(n), Cardinality(ItemIds) + edits + 1)
      /\ UNCHANGED <<run, at>>
  BY DEF Create
<1>3. Cardinality(ItemIds) \in Nat
  BY StoreNumbers
<1>4. edits \in Nat /\ edits' \in 0..MaxEdits
  BY <1>2, CredAssumption DEF CredInv
<1>5. PICK k \in Nat : k = Cardinality(ItemIds) + edits + 1
  BY <1>3, <1>4
<1>6. Rows(Inserted(items, i, itemTypeName(n), k))
  BY <1>1, <1>2, InsertedRows DEF CredInv
<1>7. Rows(items)'
  BY <1>2, <1>5, <1>6 DEF Rows
<1> QED BY <1>2, <1>4, <1>7, TableStep

(* Another client renames or deletes an item.                              *)
LEMMA EditStep ==
    ASSUME CredInv, NEW i \in ItemIds, NEW nm, EditElsewhere(i, nm)
    PROVE  CredInv'
<1>1. Cardinality(ItemIds) \in Nat
  BY StoreNumbers
<1>2. edits \in Nat /\ edits' \in 0..MaxEdits
  BY CredAssumption DEF CredInv, EditElsewhere
<1>3. PICK k \in Nat : k = Cardinality(ItemIds) + edits + 1
  BY <1>1, <1>2
<1>4. items' = Updated(items, i, k) \/ items' = Deleted(items, i)
  BY <1>3 DEF EditElsewhere
<1>5. Rows(Updated(items, i, k)) /\ Rows(Deleted(items, i))
  BY UpdatedRows, DeletedRows DEF CredInv
<1>6. Rows(items)'
  BY <1>4, <1>5 DEF Rows
<1>7. UNCHANGED <<run, at>>
  BY DEF EditElsewhere
<1> QED BY <1>2, <1>6, <1>7, TableStep

(* A command that is given an id.                                          *)
LEMMA LookByIdStep ==
    ASSUME CredInv, NEW op \in {"get", "delete", "code"}, NEW i \in ItemIds, LookById(op, i)
    PROVE  CredInv'
<1>1. PICK p \in {"found", "missing"} : p = IF i \in Ids(items) THEN "found" ELSE "missing"
  OBVIOUS
<1>2. /\ run' = [op |-> op, pc |-> p, q |-> NoItem, by |-> "id", found |-> i, n |-> 1]
      /\ at' = Named /\ UNCHANGED <<items, edits>>
  BY <1>1 DEF LookById
<1>3. /\ run' \in Runs /\ run'.by = "id" /\ run'.pc = p /\ run'.found = i
  <2>1. 1 \in 0..ListDefault
    BY StoreNumbers
  <2> QED BY <1>2, <2>1 DEF Runs
<1>4. Ids(Named) = Ids(items)
  BY ListedAll DEF CredInv
<1>5. run'.pc \in {"found", "deleted"} => run'.found \in Ids(at')
  BY <1>1, <1>2, <1>3, <1>4
<1>6. Rows(items)' /\ edits' \in 0..MaxEdits
  BY <1>2 DEF CredInv, Rows
<1>7. NameMeansOne'
  BY <1>3 DEF NameMeansOne, NameIsUnique, CountIsTrue
<1> QED BY <1>3, <1>5, <1>6, <1>7 DEF CredInv, Ids

(* The list commands read one page.                                        *)
LEMMA OnePageStep ==
    ASSUME CredInv, NEW n \in {1, 5}, OnePage(n)
    PROVE  CredInv'
<1>1. PICK k \in 0..ListDefault : k = Cardinality(FirstPage(n).items)
  BY PageCounts DEF CredInv
<1>2. run' = [NoRun EXCEPT !.op = "list", !.pc = "listed", !.n = k] /\ UNCHANGED <<items, edits>>
  BY <1>1 DEF OnePage
<1>3. run' \in Runs /\ run'.by = "none" /\ run'.pc = "listed"
  BY <1>2 DEF Runs, NoRun
<1>4. Rows(items)' /\ edits' \in 0..MaxEdits
  BY <1>2 DEF CredInv, Rows
<1> QED BY <1>3, <1>4 DEF CredInv, NameMeansOne, NameIsUnique, CountIsTrue

(* A command that is given a name looks at one page.                       *)
LEMMA findCredentialStep ==
    ASSUME CredInv, NEW op \in {"get", "delete"}, NEW q \in Words, findCredential(op, q)
    PROVE  CredInv'
<1>1. Rows(items)
  BY DEF CredInv
<1>2. PICK M : M = Matches(q)
  OBVIOUS
<1>3. PICK C : C = OfType("credential")
  OBVIOUS
<1>4. PICK F : F = {x \in Credentials(Named) : q \in x.words}
  OBVIOUS
<1>5. PICK P : P = FirstPage(1).items
  OBVIOUS
<1>6. /\ Rows(P) /\ P \subseteq C /\ Cardinality(P) \in 0..ListDefault
      /\ Cardinality(C) <= ListDefault => P = C
  BY <1>1, <1>3, <1>5, PageCounts, TypesByNumber
<1>7. M = {r \in P : q \in name[r.id]}
  BY <1>2, <1>5 DEF Matches
<1>8. /\ Cardinality(Credentials(Named)) = Cardinality(C)
      /\ Cardinality(F) = Cardinality(Fitting(q)) /\ Ids(F) = Ids(Fitting(q))
      /\ Ids(Named) = Ids(items)
  BY <1>1, <1>3, <1>4, ListedAll
<1>9. M \subseteq Fitting(q) /\ (P = C => M = Fitting(q)) /\ Fitting(q) \subseteq items
  BY <1>3, <1>6, <1>7 DEF Fitting, OfType
<1>10. IsFiniteSet(M) /\ Cardinality(M) \in 0..ListDefault
  <2>1. IsFiniteSet(P) /\ M \in SUBSET P
    BY <1>6, <1>7 DEF Rows
  <2>2. IsFiniteSet(M) /\ Cardinality(M) <= Cardinality(P)
    BY <2>1, FS_Subset
  <2>3. Cardinality(M) \in Nat /\ ListDefault \in Nat
    BY <2>2, FS_CardinalityType, StoreNumbers
  <2> QED BY <1>6, <2>2, <2>3
<1>11. PICK n \in 0..ListDefault : n = Cardinality(M)
  BY <1>10
<1>12. PICK p \in {"found", "missing", "many"} :
           p = CASE n = 1 -> "found" [] M = {} -> "missing" [] OTHER -> "many"
  <2>1. n = 1 => M # {}
    <3>1. M = {} => Cardinality(M) = 0
      BY FS_EmptySet, Zenon
    <3> QED BY <1>11, <3>1
  <2>2. CASE n = 1
    BY <2>1, <2>2
  <2>3. CASE n # 1 /\ M = {}
    BY <2>3
  <2>4. CASE n # 1 /\ M # {}
    BY <2>4
  <2> QED BY <2>2, <2>3, <2>4
<1>c. PICK c : c = CHOOSE r \in M : TRUE
  OBVIOUS
<1>13. PICK i : i = IF n = 1 THEN c.id ELSE NoItem
  OBVIOUS
<1>14. /\ run' = [op |-> op, q |-> q, by |-> "name", n |-> n, pc |-> p, found |-> i]
       /\ at' = Named /\ UNCHANGED <<items, name, edits>>
  BY <1>2, <1>11, <1>12, <1>c, <1>13 DEF findCredential
<1>15. p = "found" => n = 1
  BY <1>12
<1>16. n = 1 => i \in Ids(F) /\ i \in ItemIds /\ i \in Ids(Named)
  <2> SUFFICES ASSUME n = 1 PROVE i \in Ids(F) /\ i \in ItemIds /\ i \in Ids(Named)
    OBVIOUS
  <2>1. M # {}
    BY <1>11, FS_EmptySet
  <2>2. PICK r \in M : i = r.id
    BY <1>c, <1>13, <2>1
  <2>3. r \in Fitting(q) /\ r \in items /\ r \in Row
    BY <1>1, <1>9 DEF Rows
  <2> QED BY <1>8, <2>2, <2>3 DEF Ids, Row
<1>17. /\ run' \in Runs /\ run'.q = q /\ run'.by = "name" /\ run'.n = n
       /\ run'.pc = p /\ run'.found = i
  <2>1. i \in ItemIds \cup {NoItem}
    BY <1>13, <1>16
  <2> QED BY <1>14, <2>1 DEF Runs
<1>18. ~Overflows' => n = Cardinality(F)
  <2> SUFFICES ASSUME ~Overflows' PROVE n = Cardinality(F)
    OBVIOUS
  <2>1. ~(Cardinality(C) > ListDefault)
    BY <1>8, <1>14 DEF Overflows, Credentials
  <2>2. Cardinality(C) \in Nat /\ ListDefault \in Nat
    <3>1. IsFiniteSet(C)
      BY <1>1, <1>3, FS_Subset DEF Rows, OfType
    <3> QED BY <3>1, FS_CardinalityType, StoreNumbers
  <2> QED BY <1>6, <1>8, <1>9, <1>11, <2>1, <2>2
<1>19. {r \in Credentials(at)' : run'.q \in r.words} = F
  BY <1>4, <1>14, <1>17 DEF Credentials
<1>20. NameIsUnique'
  <2>1. p \notin {"found", "deleted"} \/ n = 1
    BY <1>12, <1>15
  <2> QED BY <1>16, <1>17, <1>18, <1>19, <2>1 DEF NameIsUnique, Ids
<1>21. CountIsTrue'
  BY <1>17, <1>18, <1>19 DEF CountIsTrue
<1>22. run'.pc \in {"found", "deleted"} => run'.found \in Ids(at)'
  BY <1>12, <1>14, <1>15, <1>16, <1>17 DEF Ids
<1>23. Rows(items)' /\ edits' \in 0..MaxEdits
  BY <1>14 DEF CredInv, Rows
<1> QED BY <1>17, <1>20, <1>21, <1>22, <1>23 DEF CredInv, NameMeansOne

(* The delete command deletes what it has found.                           *)
LEMMA DeleteFoundStep ==
    ASSUME CredInv, DeleteFound
    PROVE  CredInv'
<1>1. PICK p \in {"deleted", "missing"} : p = IF run.found \in Ids(items) THEN "deleted" ELSE "missing"
  OBVIOUS
<1>2. /\ run' = [run EXCEPT !.pc = p] /\ run.pc = "found"
      /\ items' = Deleted(items, run.found) /\ UNCHANGED <<edits, at>>
  BY <1>1 DEF DeleteFound
<1>3. /\ run' \in Runs /\ run'.pc = p /\ run'.q = run.q /\ run'.by = run.by
      /\ run'.found = run.found /\ run'.n = run.n
  BY <1>2 DEF CredInv, Runs
<1>4. Rows(items)' /\ edits' \in 0..MaxEdits
  BY <1>2, DeletedRows DEF CredInv, Rows
<1>5. NameMeansOne'
  BY <1>2, <1>3 DEF CredInv, NameMeansOne, NameIsUnique, CountIsTrue, Overflows
<1> QED BY <1>2, <1>3, <1>4, <1>5 DEF CredInv

(* Every step of the commands and of other clients keeps the invariant.    *)
LEMMA CredStep == CredInv /\ [CredNext]_credVars => CredInv'
<1> SUFFICES ASSUME CredInv, [CredNext]_credVars PROVE CredInv'
  OBVIOUS
<1>1. CASE UNCHANGED credVars
  <2>1. UNCHANGED <<items, run, at, edits>>
    BY <1>1 DEF credVars
  <2>2. Rows(items)' /\ edits' \in 0..MaxEdits
    BY <2>1 DEF CredInv, Rows
  <2> QED BY <2>1, <2>2, TableStep
<1>2. CASE DeleteFound
  BY <1>2, DeleteFoundStep
<1>3. CASE CmdEnds
  <2>1. run' = NoRun /\ UNCHANGED <<items, edits>>
    BY <1>3 DEF CmdEnds
  <2>2. run' \in Runs /\ run'.pc = "idle" /\ run'.by = "none"
    BY <2>1, StoreNumbers DEF NoRun, Runs
  <2>3. Rows(items)' /\ edits' \in 0..MaxEdits
    BY <2>1 DEF CredInv, Rows
  <2> QED BY <2>2, <2>3 DEF CredInv, NameMeansOne, NameIsUnique, CountIsTrue
<1>4. CASE newListCmd \/ newOTPListCmd
  BY <1>4, OnePageStep DEF newListCmd, newOTPListCmd
<1>5. CASE \E i \in ItemIds : newOTPCodeCmd(i)
  BY <1>5, LookByIdStep DEF newOTPCodeCmd
<1>6. CASE \E i \in ItemIds : \E nm \in Names : newAddCmd(i, nm) \/ newOTPAddCmd(i, nm)
  BY <1>6, CreateStep DEF newAddCmd, newOTPAddCmd
<1>7. CASE newGetCmd \/ newDeleteCmd
  BY <1>7, LookByIdStep, findCredentialStep DEF newGetCmd, newDeleteCmd, Find
<1>8. CASE \E i \in ItemIds : \E nm \in Names : EditElsewhere(i, nm)
  BY <1>8, EditStep
<1> QED BY <1>1, <1>2, <1>3, <1>4, <1>5, <1>6, <1>7, <1>8 DEF CredNext

(* The credential commands keep their invariant.                           *)
THEOREM CredInductive == CredSpec => []CredInv
BY CredInitial, CredStep, PTL DEF CredSpec

(* A name finds an item only when it was the one credential of that name,  *)
(* as long as the credentials fit on one page; and more than one is        *)
(* reported, never guessed at (findCredential of the client's commands).   *)
(* For every page size, every set of names and any edits by other clients. *)
THEOREM NamesMeanOne == CredSpec => []NameMeansOne
<1>1. CredInv => NameMeansOne
  BY DEF CredInv
<1> QED BY <1>1, CredInductive, PTL

(* The types of the commands follow.                                       *)
LEMMA CredTypes == CredInv => CredTypeOK
BY DEF CredInv, CredTypeOK, Rows, Runs

(* The delete command deletes the item it found and no other, although     *)
(* other clients write the table between the two calls (findCredential,    *)
(* then DeleteItem).                                                       *)
THEOREM FoundIsDeleted == CredSpec => DeletesWhatWasFound
<1>1. CredInv /\ [CredNext]_credVars =>
        [run'.pc = "deleted" /\ run.pc # "deleted" =>
            Ids(items) \ Ids(items') = {run.found} /\ run.found \in Ids(at)]_credVars
  <2> SUFFICES ASSUME CredInv, CredNext, run'.pc = "deleted", run.pc # "deleted"
               PROVE  Ids(items) \ Ids(items') = {run.found} /\ run.found \in Ids(at)
    OBVIOUS
  <2>1. DeleteFound
    <3>1. CmdEnds => run'.pc = "idle"
      BY DEF CmdEnds, NoRun
    <3>2. newListCmd \/ newOTPListCmd => run'.pc = "listed"
      BY DEF newListCmd, newOTPListCmd, OnePage, NoRun
    <3>3. \A op, i : LookById(op, i) => run'.pc # "deleted"
      BY DEF LookById
    <3>4. \A op, q : findCredential(op, q) => run'.pc # "deleted"
      BY DEF findCredential
    <3>5. \A i, nm : newAddCmd(i, nm) \/ newOTPAddCmd(i, nm) \/ EditElsewhere(i, nm) => run' = run
      BY DEF newAddCmd, newOTPAddCmd, Create, EditElsewhere
    <3> QED BY <3>1, <3>2, <3>3, <3>4, <3>5 DEF CredNext, newOTPCodeCmd, newGetCmd, newDeleteCmd, Find
  <2>2. run.found \in Ids(items)
    BY <2>1 DEF DeleteFound, CredInv, Runs
  <2>3. Ids(items') = Ids(items) \ {run.found}
    BY <2>1, DeletedRows DEF DeleteFound, CredInv
  <2>4. run.found \in Ids(at)
    BY <2>1 DEF DeleteFound, CredInv
  <2> QED BY <2>2, <2>3, <2>4
<1> QED BY <1>1, CredInductive, PTL DEF CredSpec, DeletesWhatWasFound

-----------------------------------------------------------------------------
(* Reading a vault page by page: Spec of VaultPaging.                      *)

(* The row of a rank.                                                      *)
NextOf(R, n) == CHOOSE r \in R : Rank(R, r) = n

(* The next cursor of a page is the id of a row of the table, later than   *)
(* the cursor the page was asked with.                                     *)
LEMMA NextIsLater ==
    ASSUME NEW R, Rows(R), NEW f, f.limit \in Nat
    PROVE  \/ List(R, f).next = NoCursor
           \/ /\ List(R, f).next \in Ids(Matching(R, f))
              /\ List(R, f).next \in ItemIds
              /\ f.cursor # NoCursor => List(R, f).next > f.cursor
<1>1. PICK M : M = Matching(R, f)
  OBVIOUS
<1>2. Rows(M) /\ M \subseteq R
  BY <1>1, SomeRows DEF Matching
<1>3. PICK n \in Nat : n = Limit(f.limit)
  BY StoreNumbers DEF Limit
<1>4. List(R, f).next = IF Cardinality(M) > n THEN NextOf(M, n).id ELSE NoCursor
  BY <1>1, <1>3 DEF List, NextOf
<1>5. ASSUME Cardinality(M) > n PROVE NextOf(M, n) \in M
  <2>1. n < Cardinality(M)
    <3>1. Cardinality(M) \in Nat
      BY <1>2, FS_CardinalityType DEF Rows
    <3> QED BY <1>5, <3>1
  <2>2. \E r \in M : Rank(M, r) = n
    BY <1>2, <1>5, <2>1, RanksAreAll
  <2> QED BY <2>2 DEF NextOf
<1>6. CASE Cardinality(M) > n
  <2>1. PICK r \in M : List(R, f).next = r.id
    BY <1>4, <1>5, <1>6
  <2>2. r.id \in ItemIds /\ (f.cursor # NoCursor => r.id > f.cursor)
    BY <1>1, <1>2, <2>1 DEF Rows, Row, Matching
  <2> QED BY <1>1, <2>1, <2>2 DEF Ids
<1> QED BY <1>4, <1>6

(* How far a cursor is.                                                    *)
IdsUpTo(c) == {i \in ItemIds : i <= c}

(* A later cursor is further.                                              *)
LEMMA IdsUpToGrow ==
    ASSUME NEW c \in Nat, NEW d \in ItemIds, c < d
    PROVE  /\ Cardinality(IdsUpTo(c)) \in Nat /\ Cardinality(IdsUpTo(d)) \in Nat
           /\ Cardinality(IdsUpTo(c)) + 1 <= Cardinality(IdsUpTo(d))
<1>1. \A x : IsFiniteSet(IdsUpTo(x)) /\ Cardinality(IdsUpTo(x)) \in Nat
  BY StoreNumbers, FS_Subset, FS_CardinalityType DEF IdsUpTo
<1>2. IdsUpTo(c) \in SUBSET IdsUpTo(d) /\ IdsUpTo(c) # IdsUpTo(d)
  <2>1. ItemIds \subseteq Nat
    BY StoreNumbers
  <2>2. d \in IdsUpTo(d) /\ d \notin IdsUpTo(c)
    BY <2>1 DEF IdsUpTo
  <2>3. \A i \in ItemIds : i <= c => i <= d
    BY <2>1
  <2> QED BY <2>2, <2>3 DEF IdsUpTo
<1>3. Cardinality(IdsUpTo(c)) <= Cardinality(IdsUpTo(d)) /\ Cardinality(IdsUpTo(d)) # Cardinality(IdsUpTo(c))
  BY <1>1, <1>2, FS_Subset
<1> QED BY <1>1, <1>3

(* The inductive invariant of paging.  The bound on the pages counts ids,  *)
(* not rows: rows come and go between two pages, and the cursor only       *)
(* grows.                                                                  *)
PageInv ==
    /\ Rows(rows) /\ seen \subseteq ItemIds /\ done \in BOOLEAN
    /\ cursor \in ItemIds \cup {NoCursor} /\ writes \in 0..MaxWrites /\ pages \in Nat
    /\ pages <= Cardinality(ItemIds) + 1
    /\ ~done => pages <= Cardinality(IdsUpTo(cursor))

(* The first page is asked for without a cursor.                           *)
LEMMA PagingInitial == Init => PageInv
<1> SUFFICES ASSUME Init PROVE PageInv
  OBVIOUS
<1>1. PICK I \in SUBSET ItemIds : \E t \in [I -> ItemTypes], times \in [I -> 1..Cardinality(ItemIds)] :
          rows = {[id |-> i, type |-> t[i], ver |-> 1, at |-> times[i]] : i \in I}
  BY DEF Init
<1>2. PICK t \in [I -> ItemTypes], times \in [I -> 1..Cardinality(ItemIds)] :
          rows = {[id |-> i, type |-> t[i], ver |-> 1, at |-> times[i]] : i \in I}
  BY <1>1
<1>3. PICK f : f = [i \in I |-> [id |-> i, type |-> t[i], ver |-> 1, at |-> times[i]]]
  OBVIOUS
<1>4. f \in [I -> rows] /\ \A r \in rows : \E i \in I : f[i] = r
  BY <1>2, <1>3
<1>5. IsFiniteSet(rows)
  <2>1. IsFiniteSet(I)
    BY StoreNumbers, FS_Subset
  <2> QED BY <1>4, <2>1, OntoIsFinite
<1>6. \A i \in I : f[i] \in Row /\ f[i].id = i
  BY <1>3, StoreNumbers DEF Row
<1>7. Rows(rows)
  BY <1>4, <1>5, <1>6 DEF Rows
<1>8. pages = 0 /\ seen = {} /\ done = FALSE /\ cursor = NoCursor /\ writes = 0
  BY DEF Init
<1>9. Cardinality(IdsUpTo(cursor)) \in Nat
  BY StoreNumbers, FS_Subset, FS_CardinalityType DEF IdsUpTo
<1>10. /\ pages \in Nat /\ pages <= Cardinality(ItemIds) + 1 /\ pages <= Cardinality(IdsUpTo(cursor))
       /\ writes \in 0..MaxWrites
  <2>1. MaxWrites \in Nat
    BY PagingAssumption, Zenon
  <2> QED BY <1>8, <1>9, <2>1, StoreNumbers
<1> QED BY <1>7, <1>8, <1>10 DEF PageInv

(* A write between two pages leaves the reader alone.                      *)
LEMMA WriteKeeps ==
    ASSUME PageInv, Rows(rows)', writes' \in 0..MaxWrites, UNCHANGED <<cursor, seen, pages, done>>
    PROVE  PageInv'
BY DEF PageInv, IdsUpTo

(* The writes between two pages.                                           *)
LEMMA WritesStep ==
    ASSUME PageInv, NEW i \in ItemIds, NEW n,
           UpdateItem(i) \/ DeleteItem(i) \/ CreateItem(i, n)
    PROVE  PageInv'
<1>0. MaxWrites \in Nat
  BY PagingAssumption, Zenon
<1>1. writes \in Nat /\ writes' \in 0..MaxWrites
  BY <1>0 DEF PageInv, UpdateItem, DeleteItem, CreateItem
<1>2. PICK k \in Nat : k = Cardinality(ItemIds) + writes + 1
  BY <1>1, StoreNumbers
<1>3. \/ rows' = Updated(rows, i, k) \/ rows' = Deleted(rows, i)
      \/ i \notin Ids(rows) /\ itemTypeName(n) \in ItemTypes /\ rows' = Inserted(rows, i, itemTypeName(n), k)
  BY <1>2 DEF UpdateItem, DeleteItem, CreateItem
<1>4. Rows(rows)'
  <2>1. CASE rows' = Updated(rows, i, k) \/ rows' = Deleted(rows, i)
    <3>1. Rows(Updated(rows, i, k)) /\ Rows(Deleted(rows, i))
      BY UpdatedRows, DeletedRows DEF PageInv
    <3> QED BY <2>1, <3>1 DEF Rows
  <2>2. CASE /\ i \notin Ids(rows) /\ itemTypeName(n) \in ItemTypes
             /\ rows' = Inserted(rows, i, itemTypeName(n), k)
    <3>1. Rows(Inserted(rows, i, itemTypeName(n), k))
      BY <2>2, InsertedRows DEF PageInv
    <3> QED BY <2>2, <3>1 DEF Rows
  <2> QED BY <1>3, <2>1, <2>2
<1>5. UNCHANGED <<cursor, seen, pages, done>>
  BY DEF UpdateItem, DeleteItem, CreateItem
<1> QED BY <1>1, <1>4, <1>5, WriteKeeps

(* The next page.                                                          *)
LEMMA ListItemsStep ==
    ASSUME PageInv, ListItems
    PROVE  PageInv'
<1>1. PICK f : f = [type |-> TypeFilter, limit |-> PageLimit, cursor |-> cursor]
  OBVIOUS
<1>2. f.limit \in Nat /\ f.cursor = cursor
  <2>1. PageLimit \in Nat
    BY PagingAssumption, Zenon
  <2> QED BY <1>1, <2>1
<1>3. PICK page : page = List(rows, f)
  OBVIOUS
<1>4. /\ ~done /\ seen' = seen \cup Ids(page.items) /\ cursor' = page.next
      /\ done' = (page.next = NoCursor)
      /\ pages' = pages + 1 \/ pages' = pages
      /\ UNCHANGED <<rows, writes>>
  BY <1>1, <1>3 DEF ListItems
<1>5. Ids(page.items) \subseteq ItemIds
  <2>1. page.items \subseteq rows
    BY <1>3 DEF List, Matching
  <2> QED BY <2>1 DEF PageInv, Rows, Row, Ids
<1>6. /\ Rows(rows) /\ pages \in Nat /\ cursor \in Nat /\ cursor \in ItemIds \cup {NoCursor}
      /\ pages <= Cardinality(IdsUpTo(cursor))
  BY <1>4, StoreNumbers DEF PageInv, NoCursor
<1>7. \/ page.next = NoCursor
      \/ page.next \in ItemIds /\ cursor < page.next
  <2>1. CASE page.next = NoCursor
    BY <2>1
  <2>2. CASE page.next # NoCursor
    <3>1. page.next \in ItemIds /\ (cursor # NoCursor => page.next > cursor)
      <4>1. List(rows, f).next \in ItemIds /\ (f.cursor # NoCursor => List(rows, f).next > f.cursor)
        BY <1>2, <1>3, <1>6, <2>2, NextIsLater
      <4> QED BY <1>2, <1>3, <4>1
    <3>2. PICK d \in ItemIds : d = page.next
      BY <3>1
    <3>3. d \in Nat /\ d > 0
      <4>1. d \in Nat \ {0}
        BY StoreNumbers
      <4> QED BY <4>1
    <3>4. cursor < d
      BY <1>6, <3>1, <3>2, <3>3 DEF NoCursor
    <3> QED BY <3>2, <3>4
  <2> QED BY <2>1, <2>2
<1>8. /\ IsFiniteSet(IdsUpTo(cursor)) /\ Cardinality(IdsUpTo(cursor)) \in Nat
      /\ Cardinality(IdsUpTo(cursor)) <= Cardinality(ItemIds)
  BY StoreNumbers, FS_Subset, FS_CardinalityType DEF IdsUpTo
<1>9. pages' \in Nat /\ pages' <= Cardinality(ItemIds) + 1 /\ pages' <= Cardinality(IdsUpTo(cursor)) + 1
  BY <1>4, <1>6, <1>8, StoreNumbers
<1>10. done' \in BOOLEAN
  BY <1>4
<1>11. ~done' => pages' <= Cardinality(IdsUpTo(cursor)')
  <2> SUFFICES ASSUME ~done' PROVE pages' <= Cardinality(IdsUpTo(cursor'))
    BY DEF IdsUpTo
  <2>1. cursor' \in ItemIds /\ cursor < cursor'
    BY <1>4, <1>7
  <2>2. PICK d \in ItemIds : d = cursor' /\ cursor < d
    BY <2>1
  <2>3. Cardinality(IdsUpTo(cursor)) + 1 <= Cardinality(IdsUpTo(d)) /\ Cardinality(IdsUpTo(d)) \in Nat
    BY <1>6, <2>2, IdsUpToGrow
  <2> QED BY <1>8, <1>9, <2>2, <2>3
<1>12. cursor' \in ItemIds \cup {NoCursor}
  BY <1>4, <1>7
<1>13. Rows(rows)'
  BY <1>4, <1>6 DEF Rows
<1>14. seen' \subseteq ItemIds /\ writes' \in 0..MaxWrites
  BY <1>4, <1>5 DEF PageInv
<1> QED BY <1>9, <1>10, <1>11, <1>12, <1>13, <1>14 DEF PageInv

(* Every step of paging keeps the invariant.                               *)
LEMMA PagingStep == PageInv /\ [Next]_vars => PageInv'
<1> SUFFICES ASSUME PageInv, [Next]_vars PROVE PageInv'
  OBVIOUS
<1>1. CASE UNCHANGED vars
  <2>1. UNCHANGED <<rows, cursor, seen, pages, done, writes>>
    BY <1>1 DEF vars
  <2>2. Rows(rows)' /\ writes' \in 0..MaxWrites
    BY <2>1 DEF PageInv, Rows
  <2> QED BY <2>1, <2>2, WriteKeeps
<1> QED BY <1>1, ListItemsStep, WritesStep DEF Next

(* Paging keeps its invariant.                                             *)
THEOREM PagingInductive == Spec => []PageInv
BY PagingInitial, PagingStep, PTL DEF Spec

(* The types of paging, with the bound on its pages, follow.               *)
LEMMA PageTypes == PageInv => TypeOK
<1> SUFFICES ASSUME PageInv PROVE TypeOK
  OBVIOUS
<1>1. rows \subseteq [id : ItemIds, type : ItemTypes, ver : Nat, at : Nat]
  BY DEF PageInv, Rows, Row
<1> QED BY <1>1 DEF PageInv, TypeOK

(* Reading a vault page by page takes at most one page more than there are *)
(* ids, whatever is written between two pages: each cursor is greater than *)
(* the one before (List of the vault repository, ListItems of the client). *)
(* For every page size.                                                    *)
THEOREM PagesAreFew == Spec => []TypeOK
BY PageTypes, PagingInductive, PTL

-----------------------------------------------------------------------------
(* The rate limiter: LimSpec of RateLimiter.                               *)

(* The entries of the map of limiters, and the requests between getLimiter *)
(* and Allow.                                                              *)
Entries  == [b : Nat, seen : Nat]

(* A request between getLimiter and Allow.                                 *)
Arrivals == [peer : Peers, b : Nat, at : Nat]

(* How many buckets have ever been made.                                   *)
Made == Cardinality(DOMAIN bucket)

(* The types of the limiter.                                               *)
LimTyped ==
    /\ Made \in Nat /\ bucket \in [1..Made -> 0..Burst]
    /\ limiters \in [Peers -> Entries \cup {NoLimiter}]
    /\ req \in [Requests -> Arrivals \cup {NoLimiter}]
    /\ now \in 0..MaxTicks
    /\ passed \in [Peers -> Nat] /\ over \in [Peers -> Nat] /\ held \subseteq Peers

(* Every bucket in use was made, and no clock reading is ahead of the      *)
(* clock.                                                                  *)
BucketsMade ==
    /\ \A p \in Peers : limiters[p] # NoLimiter =>
          limiters[p].b \in 1..Made /\ limiters[p].seen <= now
    /\ \A r \in Requests : req[r] # NoLimiter => req[r].b \in 1..Made /\ req[r].at <= now

(* A bucket has one peer, and the map has seen every request that holds    *)
(* it.                                                                     *)
BucketsOwned ==
    /\ \A p, q \in Peers :
          limiters[p] # NoLimiter /\ limiters[q] # NoLimiter /\ limiters[p].b = limiters[q].b => p = q
    /\ \A r \in Requests, p \in Peers :
          req[r] # NoLimiter /\ limiters[p] # NoLimiter /\ req[r].b = limiters[p].b =>
             req[r].peer = p /\ req[r].at <= limiters[p].seen

(* The request holds the bucket that the map has for its peer.             *)
Current(r) == limiters[req[r].peer] # NoLimiter /\ limiters[req[r].peer].b = req[r].b

(* A request whose bucket is no longer in the map was held up for longer   *)
(* than an entry stays.                                                    *)
LateIsOld == \A r \in Requests : req[r] # NoLimiter /\ ~Current(r) => now - req[r].at > StaleAge

(* What a peer is over its rate is taken out of its bucket.                *)
WithinBucket ==
    \A p \in Peers \ held :
       /\ limiters[p] = NoLimiter => over[p] = 0
       /\ limiters[p] # NoLimiter => over[p] + bucket[limiters[p].b] <= Burst

(* By the time cleanup may drop an entry, the peer is not over its rate:   *)
(* so a new, full bucket gives it no more than it had.                     *)
FullWhenStale ==
    \A p \in Peers \ held :
       limiters[p] # NoLimiter => over[p] <= Rate * Less(limiters[p].seen + StaleAge + 1, now)

(* The inductive invariant of the limiter.  BurstIsTheMost counts          *)
(* requests; that dropping a bucket and making a new one gives nothing     *)
(* away needs FullWhenStale and, for the requests under way, LateIsOld.    *)
LimInv == LimTyped /\ BucketsMade /\ BucketsOwned /\ LateIsOld /\ WithinBucket /\ FullWhenStale

(* What LimiterAssumption says.                                            *)
LEMMA LimConstants ==
    /\ Rate \in Nat /\ Rate > 0 /\ Burst \in Nat /\ Burst > 0 /\ StaleAge \in Nat
    /\ MaxTicks \in Nat
    /\ NoLimiter \notin Entries /\ NoLimiter \notin Arrivals
BY LimiterAssumption DEF Entries, Arrivals

(* Subtraction that stops at zero.                                         *)
LEMMA LessIs ==
    ASSUME NEW n \in Nat, NEW m \in Nat
    PROVE  Less(n, m) \in Nat /\ (n >= m => Less(n, m) = n - m) /\ (n <= m => Less(n, m) = 0)
BY DEF Less

(* Multiplication by Rate, for the prover's linear arithmetic.             *)
LEMMA RateTimes ==
    /\ \A k \in Nat : Rate * k \in Nat
    /\ Rate * 0 = 0
    /\ \A k \in Nat : Rate * (k + 1) = Rate * k + Rate
    /\ \A k, m \in Nat : k <= m => Rate * k <= Rate * m
<1>1. Rate \in Nat
  BY LimConstants
<1>2. \A k \in Nat : Rate * k \in Nat
  BY <1>1
<1>3. Rate * 0 = 0
  BY <1>1
<1>4. \A k \in Nat : Rate * (k + 1) = Rate * k + Rate
  BY <1>1
<1>5. ASSUME NEW k \in Nat, NEW m \in Nat, k <= m PROVE Rate * k <= Rate * m
  <2>1. PICK d \in Nat : d = m - k
    BY <1>5
  <2>2. Rate * m = Rate * k + Rate * d
    <3>1. m = k + d
      BY <2>1
    <3> QED BY <1>1, <3>1
  <2>3. Rate * k \in Nat /\ Rate * d \in Nat
    BY <1>2
  <2> QED BY <2>2, <2>3
<1> QED BY <1>2, <1>3, <1>4, <1>5

(* Counting from one.                                                      *)
LEMMA CountTo ==
    ASSUME NEW n \in Nat PROVE Cardinality(1..n) = n
<1>1. 1 \in Int /\ n \in Int
  OBVIOUS
<1>2. Cardinality(1..n) = IF 1 > n THEN 0 ELSE n - 1 + 1
  BY <1>1, FS_Interval
<1> QED BY <1>2

(* No bucket, no request.                                                  *)
LEMMA LimInitial == LimInit => LimInv
<1> SUFFICES ASSUME LimInit PROVE LimInv
  OBVIOUS
<1>1. bucket \in [1..0 -> 0..Burst] /\ DOMAIN bucket = 1..0
  BY DEF LimInit
<1>2. Made = 0
  BY <1>1, CountTo DEF Made
<1>3. LimTyped
  BY <1>1, <1>2, LimConstants DEF LimInit, LimTyped
<1>4. \A p \in Peers : limiters[p] = NoLimiter /\ over[p] = 0
  BY DEF LimInit
<1>5. \A r \in Requests : req[r] = NoLimiter
  BY DEF LimInit
<1> QED BY <1>3, <1>4, <1>5 DEF LimInv, BucketsMade, BucketsOwned, LateIsOld, WithinBucket, FullWhenStale

(* A request takes the bucket of its peer, or a new one.                   *)
LEMMA getLimiterStep ==
    ASSUME LimInv, NEW r \in Requests, NEW p \in Peers, getLimiter(r, p)
    PROVE  LimInv'
<1>0. LimTyped /\ BucketsMade /\ BucketsOwned /\ LateIsOld /\ WithinBucket /\ FullWhenStale
  BY DEF LimInv
<1>n. PICK n \in Nat : n = Made
  BY <1>0 DEF LimTyped
<1>b. PICK b : b = IF limiters[p] = NoLimiter THEN n + 1 ELSE limiters[p].b
  OBVIOUS
<1>e. PICK e : e = [b |-> b, seen |-> now]
  OBVIOUS
<1>a. PICK a : a = [peer |-> p, b |-> b, at |-> now]
  OBVIOUS
<1>1. /\ req[r] = NoLimiter
      /\ bucket' = [c \in 1..(IF b = n + 1 THEN b ELSE n) |->
                      IF c \in DOMAIN bucket THEN bucket[c] ELSE Burst]
      /\ limiters' = [limiters EXCEPT ![p] = e] /\ req' = [req EXCEPT ![r] = a]
      /\ UNCHANGED <<now, passed, over, held>>
  <2>1. n + 1 - 1 = n /\ NewLimiter = n + 1
    BY <1>n DEF NewLimiter, Made
  <2> QED BY <1>b, <1>e, <1>a, <2>1 DEF getLimiter
<1>2. /\ limiters[p] = NoLimiter => b = n + 1
      /\ limiters[p] # NoLimiter => b = limiters[p].b /\ b \in 1..n
      /\ b \in Nat /\ now \in Nat
  BY <1>0, <1>n, <1>b, LimConstants DEF BucketsMade, LimTyped
<1>3. PICK m \in Nat : m = IF b = n + 1 THEN n + 1 ELSE n
  OBVIOUS
<1>4. /\ bucket' \in [1..m -> 0..Burst] /\ Made' = m
      /\ n <= m /\ b \in 1..m
      /\ \A c \in 1..n : bucket'[c] = bucket[c]
      /\ limiters[p] = NoLimiter => bucket'[b] = Burst
  <2>1. DOMAIN bucket = 1..n /\ \A c \in 1..n : bucket[c] \in 0..Burst
    BY <1>0, <1>n DEF LimTyped
  <2>2. bucket' = [c \in 1..m |-> IF c \in 1..n THEN bucket[c] ELSE Burst]
    BY <1>1, <1>3, <2>1
  <2>3. Burst \in 0..Burst
    BY LimConstants
  <2>4. bucket' \in [1..m -> 0..Burst]
    BY <2>1, <2>2, <2>3
  <2>5. Made' = m
    BY <2>4, CountTo DEF Made
  <2>6. n <= m /\ b \in 1..m
    BY <1>2, <1>3
  <2>7. \A c \in 1..n : bucket'[c] = bucket[c]
    BY <2>2, <2>6
  <2>8. limiters[p] = NoLimiter => bucket'[b] = Burst
    BY <1>2, <2>2, <2>6
  <2> QED BY <2>4, <2>5, <2>6, <2>7, <2>8
<1>5. e \in Entries /\ e # NoLimiter /\ e.b = b /\ e.seen = now
  BY <1>2, <1>e, LimConstants DEF Entries
<1>6. a \in Arrivals /\ a # NoLimiter /\ a.peer = p /\ a.b = b /\ a.at = now
  BY <1>2, <1>a, LimConstants DEF Arrivals
<1>7. LimTyped'
  BY <1>0, <1>1, <1>4, <1>5, <1>6 DEF LimTyped
<1>8. /\ limiters'[p] = e /\ \A q \in Peers \ {p} : limiters'[q] = limiters[q]
      /\ req'[r] = a /\ \A s \in Requests \ {r} : req'[s] = req[s]
  BY <1>0, <1>1 DEF LimTyped
<1>9. BucketsMade'
  <2>1. \A c \in 1..n : c \in 1..m
    BY <1>4
  <2>2. now <= now
    BY <1>2
  <2>3. \A q \in Peers : limiters'[q] # NoLimiter =>
             limiters'[q].b \in 1..m /\ limiters'[q].seen <= now
    BY <1>0, <1>n, <1>4, <1>5, <1>8, <2>1, <2>2 DEF BucketsMade
  <2>4. \A s \in Requests : req'[s] # NoLimiter => req'[s].b \in 1..m /\ req'[s].at <= now
    BY <1>0, <1>n, <1>4, <1>6, <1>8, <2>1, <2>2 DEF BucketsMade
  <2> QED BY <1>1, <1>4, <2>3, <2>4 DEF BucketsMade
<1>10. \A q \in Peers \ {p} : limiters[q] # NoLimiter => limiters[q].b # b /\ limiters[q].b \in 1..n
  <2> SUFFICES ASSUME NEW q \in Peers \ {p}, limiters[q] # NoLimiter
               PROVE  limiters[q].b # b /\ limiters[q].b \in 1..n
    OBVIOUS
  <2>1. limiters[q].b \in 1..n
    BY <1>0, <1>n DEF BucketsMade
  <2> QED BY <1>0, <1>2, <2>1 DEF BucketsOwned
<1>11. \A s \in Requests : req[s] # NoLimiter /\ req[s].b = b => req[s].peer = p /\ req[s].at <= now
  <2> SUFFICES ASSUME NEW s \in Requests, req[s] # NoLimiter, req[s].b = b
               PROVE  req[s].peer = p /\ req[s].at <= now
    OBVIOUS
  <2>1. req[s].b \in 1..n /\ req[s].at <= now
    BY <1>0, <1>n DEF BucketsMade
  <2>2. limiters[p] # NoLimiter
    BY <1>2, <2>1
  <2> QED BY <1>0, <1>2, <2>1, <2>2 DEF BucketsOwned
<1>12. BucketsOwned'
  <2>1. \A q, x \in Peers :
           limiters'[q] # NoLimiter /\ limiters'[x] # NoLimiter /\ limiters'[q].b = limiters'[x].b => q = x
    BY <1>0, <1>5, <1>8, <1>10 DEF BucketsOwned
  <2>2. ASSUME NEW s \in Requests, NEW q \in Peers,
               req'[s] # NoLimiter, limiters'[q] # NoLimiter, req'[s].b = limiters'[q].b
        PROVE  req'[s].peer = q /\ req'[s].at <= limiters'[q].seen
    <3>1. CASE s = r
      <4>1. q = p
        BY <1>6, <1>8, <1>10, <2>2, <3>1
      <4> QED BY <1>2, <1>5, <1>6, <1>8, <3>1, <4>1
    <3>2. CASE s # r /\ q = p
      BY <1>5, <1>8, <1>11, <2>2, <3>2
    <3>3. CASE s # r /\ q # p
      BY <1>0, <1>8, <2>2, <3>3 DEF BucketsOwned
    <3> QED BY <3>1, <3>2, <3>3
  <2> QED BY <2>1, <2>2 DEF BucketsOwned
<1>13. LateIsOld'
  <2> SUFFICES ASSUME NEW s \in Requests, req'[s] # NoLimiter, ~Current(s)'
               PROVE  now' - req'[s].at > StaleAge
    BY DEF LateIsOld
  <2>1. s # r
    BY <1>5, <1>6, <1>8 DEF Current
  <2>2. req'[s] = req[s] /\ req[s] # NoLimiter /\ req[s].peer \in Peers
    BY <1>0, <1>8, <2>1 DEF LimTyped, Arrivals
  <2>3. ~Current(s)
    <3>1. CASE req[s].peer = p
      BY <1>2, <1>5, <1>8, <2>2, <3>1 DEF Current
    <3>2. CASE req[s].peer # p
      BY <1>8, <2>2, <3>2 DEF Current
    <3> QED BY <3>1, <3>2
  <2> QED BY <1>0, <1>1, <2>2, <2>3 DEF LateIsOld
<1>14. WithinBucket'
  <2> SUFFICES ASSUME NEW q \in Peers \ held
               PROVE  /\ limiters'[q] = NoLimiter => over[q] = 0
                      /\ limiters'[q] # NoLimiter => over[q] + bucket'[limiters'[q].b] <= Burst
    BY <1>1 DEF WithinBucket
  <2>1. CASE q # p
    BY <1>0, <1>4, <1>8, <1>10, <2>1 DEF WithinBucket
  <2>2. CASE q = p /\ limiters[p] = NoLimiter
    <3>1. over[p] = 0 /\ bucket'[b] = Burst
      BY <1>0, <1>4, <2>2 DEF WithinBucket
    <3> QED BY <1>5, <1>8, <2>2, <3>1, LimConstants
  <2>3. CASE q = p /\ limiters[p] # NoLimiter
    <3>1. bucket'[b] = bucket[limiters[p].b]
      BY <1>2, <1>4, <2>3
    <3> QED BY <1>0, <1>5, <1>8, <2>3, <3>1 DEF WithinBucket
  <2> QED BY <2>1, <2>2, <2>3
<1>15. FullWhenStale'
  <2> SUFFICES ASSUME NEW q \in Peers \ held, limiters'[q] # NoLimiter
               PROVE  over[q] <= Rate * Less(limiters'[q].seen + StaleAge + 1, now)
    BY <1>1 DEF FullWhenStale
  <2>1. CASE q # p
    BY <1>0, <1>8, <2>1 DEF FullWhenStale
  <2>2. CASE q = p
    <3>1. over[p] \in Nat /\ limiters'[p].seen = now
      BY <1>0, <1>5, <1>8 DEF LimTyped
    <3>2. Less(now + StaleAge + 1, now) = StaleAge + 1
      <4>1. now + StaleAge + 1 \in Nat /\ now + StaleAge + 1 >= now
            /\ (now + StaleAge + 1) - now = StaleAge + 1
        BY <1>2, LimConstants
      <4> QED BY <1>2, <4>1, LessIs
    <3>3. over[p] <= Burst
      <4>1. CASE limiters[p] = NoLimiter
        BY <1>0, <2>2, <4>1, LimConstants DEF WithinBucket
      <4>2. CASE limiters[p] # NoLimiter
        <5>1. over[p] + bucket[limiters[p].b] <= Burst
          BY <1>0, <2>2, <4>2 DEF WithinBucket
        <5>2. bucket[limiters[p].b] \in Nat
          BY <1>0, <1>n, <1>2, <4>2, LimConstants DEF LimTyped
        <5> QED BY <3>1, <5>1, <5>2, LimConstants
      <4> QED BY <4>1, <4>2
    <3>4. Burst <= Rate * (StaleAge + 1)
      <4>1. Rate * StaleAge <= Rate * (StaleAge + 1)
        BY RateTimes, LimConstants
      <4>2. Rate * StaleAge \in Nat /\ Rate * (StaleAge + 1) \in Nat
        BY RateTimes, LimConstants
      <4>3. Burst <= Rate * StaleAge
        BY LimiterAssumption
      <4> QED BY <4>1, <4>2, <4>3, LimConstants
    <3>5. Rate * (StaleAge + 1) \in Nat
      BY RateTimes, LimConstants
    <3> QED BY <2>2, <3>1, <3>2, <3>3, <3>4, <3>5, LimConstants
  <2> QED BY <2>1, <2>2
<1> QED BY <1>7, <1>9, <1>12, <1>13, <1>14, <1>15 DEF LimInv

(* A request that was not held up holds its peer's current bucket.         *)
LEMMA OnTime ==
    ASSUME LimInv, NEW r \in Requests, req[r] # NoLimiter, ~HeldUp(r)
    PROVE  /\ Current(r)
           /\ Burst <= Rate * Less(limiters[req[r].peer].seen + StaleAge + 1, now)
<1>0. LimTyped /\ BucketsMade /\ BucketsOwned /\ LateIsOld
  BY DEF LimInv
<1>1. req[r] \in Arrivals
  BY <1>0 DEF LimTyped
<1>2. PICK t \in Nat, p \in Peers : t = req[r].at /\ p = req[r].peer
  BY <1>1 DEF Arrivals
<1>3. now \in Nat /\ t <= now /\ StaleAge \in Nat /\ Burst \in Nat /\ Burst > 0
  BY <1>0, <1>2, LimConstants DEF LimTyped, BucketsMade
<1>4. PICK k \in Nat : k = Less(StaleAge + 1, now - t)
  BY <1>3, LessIs
<1>5. Rate * k >= Burst
  <2>1. ~(Rate * k < Burst)
    BY <1>2, <1>4 DEF HeldUp
  <2>2. Rate * k \in Nat
    BY RateTimes
  <2> QED BY <1>3, <2>1, <2>2
<1>6. k # 0
  BY <1>3, <1>5, RateTimes
<1>7. now - t < StaleAge + 1 /\ k = StaleAge + 1 - (now - t)
  BY <1>3, <1>4, <1>6, LessIs
<1>8. Current(r)
  BY <1>0, <1>2, <1>3, <1>7 DEF LateIsOld
<1>9. PICK s \in Nat : s = limiters[p].seen /\ t <= s /\ s <= now
  <2>1. limiters[p] \in Entries /\ limiters[p].b = req[r].b /\ limiters[p] # NoLimiter
    BY <1>0, <1>2, <1>8 DEF Current, LimTyped
  <2> QED BY <1>0, <1>2, <2>1 DEF BucketsOwned, BucketsMade, Entries
<1>10. PICK m \in Nat : m = Less(s + StaleAge + 1, now)
  BY <1>3, LessIs
<1>11. k <= m
  <2>1. s + StaleAge + 1 \in Nat /\ s + StaleAge + 1 >= now
    BY <1>3, <1>7, <1>9
  <2>2. m = s + StaleAge + 1 - now
    BY <1>3, <1>10, <2>1, LessIs
  <2> QED BY <1>3, <1>7, <1>9, <2>2
<1>12. Rate * k <= Rate * m /\ Rate * k \in Nat /\ Rate * m \in Nat
  BY <1>11, RateTimes
<1>13. Burst <= Rate * m
  BY <1>3, <1>5, <1>12
<1> QED BY <1>2, <1>8, <1>9, <1>10, <1>13

(* Allow takes a token, if there is one.                                   *)
LEMMA AllowStep ==
    ASSUME LimInv, NEW r \in Requests, Allow(r)
    PROVE  LimInv'
<1>0. LimTyped /\ BucketsMade /\ BucketsOwned /\ LateIsOld /\ WithinBucket /\ FullWhenStale
  BY DEF LimInv
<1>n. PICK n \in Nat : n = Made /\ bucket \in [1..n -> 0..Burst]
  BY <1>0 DEF LimTyped
<1>1. req[r] # NoLimiter /\ req[r] \in Arrivals
  BY <1>0 DEF Allow, LimTyped
<1>2. PICK p \in Peers, b \in 1..n : p = req[r].peer /\ b = req[r].b
  BY <1>0, <1>n, <1>1 DEF Arrivals, BucketsMade
<1>3. /\ req' = [req EXCEPT ![r] = NoLimiter] /\ UNCHANGED <<limiters, now>>
      /\ held' = IF HeldUp(r) THEN held \cup {p} ELSE held
  BY <1>2 DEF Allow
<1>4. \/ /\ bucket[b] > 0 /\ bucket' = [bucket EXCEPT ![b] = bucket[b] - 1]
         /\ passed' = [passed EXCEPT ![p] = passed[p] + 1]
         /\ over' = [over EXCEPT ![p] = over[p] + 1]
      \/ UNCHANGED <<bucket, passed, over>>
  BY <1>2 DEF Allow
<1>5. /\ bucket' \in [1..n -> 0..Burst] /\ Made' = n
      /\ passed' \in [Peers -> Nat] /\ over' \in [Peers -> Nat]
      /\ \A c \in 1..n : c # b => bucket'[c] = bucket[c]
      /\ \A q \in Peers : q # p => over'[q] = over[q]
      /\ \/ bucket'[b] = bucket[b] /\ over'[p] = over[p]
         \/ bucket[b] > 0 /\ bucket'[b] = bucket[b] - 1 /\ over'[p] = over[p] + 1
  <2>1. CASE UNCHANGED <<bucket, passed, over>>
    <3>1. bucket' = bucket /\ Made' = Made
      BY <2>1 DEF Made
    <3>2. over' = over /\ passed' = passed
      BY <2>1
    <3>3. passed' \in [Peers -> Nat] /\ over' \in [Peers -> Nat]
      BY <1>0, <3>2 DEF LimTyped
    <3>4. bucket' \in [1..n -> 0..Burst] /\ Made' = n
      BY <1>n, <3>1
    <3> QED BY <3>1, <3>2, <3>3, <3>4
  <2>2. CASE /\ bucket[b] > 0 /\ bucket' = [bucket EXCEPT ![b] = bucket[b] - 1]
             /\ passed' = [passed EXCEPT ![p] = passed[p] + 1]
             /\ over' = [over EXCEPT ![p] = over[p] + 1]
    <3>1. bucket[b] - 1 \in 0..Burst
      BY <1>n, <2>2, LimConstants
    <3>2. bucket' \in [1..n -> 0..Burst]
      BY <1>n, <2>2, <3>1
    <3>3. Made' = n
      BY <3>2, CountTo DEF Made
    <3>4. passed' \in [Peers -> Nat] /\ over' \in [Peers -> Nat]
      BY <1>0, <2>2 DEF LimTyped
    <3> QED BY <1>0, <1>n, <2>2, <3>2, <3>3, <3>4 DEF LimTyped
  <2> QED BY <1>4, <2>1, <2>2
<1>6. \A s \in Requests : req'[s] # NoLimiter => s # r /\ req'[s] = req[s]
  BY <1>0, <1>3 DEF LimTyped
<1>7. LimTyped'
  BY <1>0, <1>3, <1>5 DEF LimTyped
<1>8. BucketsMade'
  BY <1>0, <1>n, <1>3, <1>5, <1>6 DEF BucketsMade
<1>9. BucketsOwned'
  BY <1>0, <1>3, <1>6 DEF BucketsOwned
<1>10. LateIsOld'
  BY <1>0, <1>3, <1>6 DEF LateIsOld, Current
<1>11. ASSUME NEW q \in Peers \ held', q # p
       PROVE  /\ over'[q] = over[q] /\ q \in Peers \ held
              /\ limiters[q] # NoLimiter => bucket'[limiters[q].b] = bucket[limiters[q].b]
  <2>1. q \in Peers \ held /\ over'[q] = over[q]
    BY <1>3, <1>5, <1>11
  <2>2. ASSUME limiters[q] # NoLimiter PROVE bucket'[limiters[q].b] = bucket[limiters[q].b]
    <3>1. limiters[q].b # b /\ limiters[q].b \in 1..n
      BY <1>0, <1>n, <1>1, <1>2, <1>11, <2>2 DEF BucketsOwned, BucketsMade
    <3> QED BY <1>5, <3>1
  <2> QED BY <2>1, <2>2
<1>12. ASSUME p \in Peers \ held'
       PROVE  /\ p \in Peers \ held /\ limiters[p] # NoLimiter /\ limiters[p].b = b
              /\ Burst <= Rate * Less(limiters[p].seen + StaleAge + 1, now)
  BY <1>1, <1>2, <1>3, <1>12, OnTime DEF Current
<1>13. p \in Peers \ held' => over'[p] + bucket'[b] <= Burst /\ over'[p] <= Burst
  <2> SUFFICES ASSUME p \in Peers \ held' PROVE over'[p] + bucket'[b] <= Burst /\ over'[p] <= Burst
    OBVIOUS
  <2>1. over[p] + bucket[b] <= Burst
    BY <1>0, <1>12 DEF WithinBucket
  <2>2. over[p] \in Nat /\ bucket[b] \in Nat /\ bucket'[b] \in Nat /\ over'[p] \in Nat
    BY <1>0, <1>n, <1>5, LimConstants DEF LimTyped
  <2> QED BY SMTT(30), <1>5, <2>1, <2>2, LimConstants
<1>14. WithinBucket'
  <2> SUFFICES ASSUME NEW q \in Peers \ held'
               PROVE  /\ limiters[q] = NoLimiter => over'[q] = 0
                      /\ limiters[q] # NoLimiter => over'[q] + bucket'[limiters[q].b] <= Burst
    BY <1>3 DEF WithinBucket
  <2>1. CASE q = p
    BY <1>12, <1>13, <2>1
  <2>2. CASE q # p
    BY <1>0, <1>11, <2>2 DEF WithinBucket
  <2> QED BY <2>1, <2>2
<1>15. FullWhenStale'
  <2> SUFFICES ASSUME NEW q \in Peers \ held', limiters[q] # NoLimiter
               PROVE  over'[q] <= Rate * Less(limiters[q].seen + StaleAge + 1, now)
    BY <1>3 DEF FullWhenStale
  <2>1. CASE q = p
    <3>1. PICK k \in Nat : k = Rate * Less(limiters[p].seen + StaleAge + 1, now)
      <4>1. limiters[p].seen \in Nat /\ now \in Nat
        BY <1>0, <2>1, LimConstants DEF LimTyped, Entries
      <4>2. Less(limiters[p].seen + StaleAge + 1, now) \in Nat
        <5>1. limiters[p].seen + StaleAge + 1 \in Nat
          BY <4>1, LimConstants
        <5> QED BY <4>1, <5>1, LessIs
      <4> QED BY <4>2, RateTimes
    <3>2. Burst <= k /\ over'[p] <= Burst /\ over'[p] \in Nat
      BY <1>5, <1>12, <1>13, <2>1, <3>1
    <3> QED BY <2>1, <3>1, <3>2, LimConstants
  <2>2. CASE q # p
    BY <1>0, <1>11, <2>2 DEF FullWhenStale
  <2> QED BY <2>1, <2>2
<1> QED BY <1>7, <1>8, <1>9, <1>10, <1>14, <1>15 DEF LimInv

(* A bucket is refilled up to Burst.                                       *)
LEMMA RefilledIs ==
    ASSUME NEW n \in 0..Burst PROVE Refilled(n) \in 0..Burst /\ Refilled(n) >= n
                                    /\ Refilled(n) <= n + Rate
BY LimConstants DEF Refilled

(* Time passes and every bucket is refilled.                               *)
LEMMA TickStep ==
    ASSUME LimInv, Tick
    PROVE  LimInv'
<1>0. LimTyped /\ BucketsMade /\ BucketsOwned /\ LateIsOld /\ WithinBucket /\ FullWhenStale
  BY DEF LimInv
<1>n. PICK n \in Nat : n = Made /\ bucket \in [1..n -> 0..Burst]
  BY <1>0 DEF LimTyped
<1>1. /\ now < MaxTicks /\ now' = now + 1 /\ UNCHANGED <<limiters, req, passed, held>>
      /\ bucket' = [b \in 1..n |-> Refilled(bucket[b])]
      /\ over' = [p \in Peers |-> Less(over[p], Rate)]
  BY <1>n DEF Tick
<1>2. now \in Nat /\ now' \in 0..MaxTicks
  BY <1>0, <1>1, LimConstants DEF LimTyped
<1>3. bucket' \in [1..n -> 0..Burst] /\ Made' = n
  <2>1. bucket' \in [1..n -> 0..Burst]
    BY <1>n, <1>1, RefilledIs
  <2> QED BY <2>1, CountTo DEF Made
<1>4. over' \in [Peers -> Nat] /\ \A p \in Peers : over[p] \in Nat
  BY <1>0, <1>1, LessIs, LimConstants DEF LimTyped
<1>5. LimTyped'
  BY <1>0, <1>1, <1>2, <1>3, <1>4 DEF LimTyped
<1>6. BucketsMade'
  <2>1. \A p \in Peers : limiters[p] # NoLimiter => limiters[p].b \in 1..n /\ limiters[p].seen <= now + 1
    <3> SUFFICES ASSUME NEW p \in Peers, limiters[p] # NoLimiter
                 PROVE  limiters[p].b \in 1..n /\ limiters[p].seen <= now + 1
      OBVIOUS
    <3>1. limiters[p].seen \in Nat
      BY <1>0 DEF LimTyped, Entries
    <3> QED BY <1>0, <1>n, <1>2, <3>1 DEF BucketsMade
  <2>2. \A r \in Requests : req[r] # NoLimiter => req[r].b \in 1..n /\ req[r].at <= now + 1
    <3> SUFFICES ASSUME NEW r \in Requests, req[r] # NoLimiter
                 PROVE  req[r].b \in 1..n /\ req[r].at <= now + 1
      OBVIOUS
    <3>1. req[r].at \in Nat
      BY <1>0 DEF LimTyped, Arrivals
    <3> QED BY <1>0, <1>n, <1>2, <3>1 DEF BucketsMade
  <2> QED BY <1>1, <1>3, <2>1, <2>2 DEF BucketsMade
<1>7. BucketsOwned'
  BY <1>0, <1>1 DEF BucketsOwned
<1>8. LateIsOld'
  <2> SUFFICES ASSUME NEW r \in Requests, req'[r] # NoLimiter, ~Current(r)'
               PROVE  now' - req'[r].at > StaleAge
    BY DEF LateIsOld
  <2>1. req'[r] = req[r] /\ ~Current(r)
    BY <1>1 DEF Current
  <2>2. req[r].at \in Nat
    BY <1>0, <2>1 DEF LimTyped, Arrivals
  <2>3. now - req[r].at > StaleAge
    BY <1>0, <2>1 DEF LateIsOld
  <2> QED BY <1>1, <1>2, <2>1, <2>2, <2>3, LimConstants
<1>9. WithinBucket'
  <2> SUFFICES ASSUME NEW p \in Peers \ held
               PROVE  /\ limiters[p] = NoLimiter => over'[p] = 0
                      /\ limiters[p] # NoLimiter => over'[p] + bucket'[limiters[p].b] <= Burst
    BY <1>1 DEF WithinBucket
  <2>1. over'[p] = Less(over[p], Rate) /\ over[p] \in Nat
    BY <1>1, <1>4
  <2>2. CASE limiters[p] = NoLimiter
    <3>1. over[p] = 0
      BY <1>0, <2>2 DEF WithinBucket
    <3>2. Less(0, Rate) = 0
      BY LessIs, LimConstants
    <3> QED BY <2>1, <2>2, <3>1, <3>2
  <2>3. CASE limiters[p] # NoLimiter
    <3>1. PICK b \in 1..n : b = limiters[p].b
      BY <1>0, <1>n, <2>3 DEF BucketsMade
    <3>2. over[p] + bucket[b] <= Burst /\ bucket[b] \in 0..Burst
      BY <1>0, <1>n, <2>3, <3>1 DEF WithinBucket
    <3>3. bucket'[b] = Refilled(bucket[b])
      BY <1>1
    <3>4. Refilled(bucket[b]) \in 0..Burst /\ Refilled(bucket[b]) <= bucket[b] + Rate
      BY <3>2, RefilledIs
    <3>5. over'[p] = 0 \/ over'[p] = over[p] - Rate
      BY <2>1 DEF Less
    <3>6. over'[p] + bucket'[b] <= Burst
      BY <2>1, <3>2, <3>3, <3>4, <3>5, LimConstants
    <3> QED BY <2>3, <3>1, <3>6
  <2> QED BY <2>2, <2>3
<1>10. FullWhenStale'
  <2> SUFFICES ASSUME NEW p \in Peers \ held, limiters[p] # NoLimiter
               PROVE  over'[p] <= Rate * Less(limiters[p].seen + StaleAge + 1, now + 1)
    BY <1>1 DEF FullWhenStale
  <2>1. PICK e \in Nat : e = limiters[p].seen + StaleAge + 1
    BY <1>0, LimConstants DEF LimTyped, Entries
  <2>2. over'[p] = Less(over[p], Rate) /\ over[p] \in Nat /\ over'[p] \in Nat
    BY <1>1, <1>4
  <2>3. over[p] <= Rate * Less(e, now)
    BY <1>0, <2>1 DEF FullWhenStale
  <2>4. CASE e <= now
    <3>1. Less(e, now) = 0 /\ Less(e, now + 1) = 0
      BY SMTT(30), <1>2, <2>4, LessIs
    <3>2. over[p] = 0
      BY <2>2, <2>3, <3>1, RateTimes
    <3>3. Less(0, Rate) = 0
      BY LessIs, LimConstants
    <3> QED BY <2>1, <2>2, <3>1, <3>2, <3>3, RateTimes
  <2>5. CASE e > now
    <3>1. PICK k \in Nat : k = e - (now + 1)
      BY <1>2, <2>5
    <3>2. Less(e, now) = k + 1 /\ Less(e, now + 1) = k
      <4>1. e >= now /\ e >= now + 1 /\ e - now = k + 1
        BY <1>2, <2>5, <3>1
      <4> QED BY SMTT(30), <1>2, <3>1, <4>1, LessIs
    <3>3. over[p] <= Rate * k + Rate /\ Rate * k \in Nat
      BY <2>3, <3>2, RateTimes
    <3>4. over'[p] = 0 \/ over'[p] = over[p] - Rate
      BY <2>2 DEF Less
    <3>5. over'[p] <= Rate * k
      BY <2>2, <3>3, <3>4, LimConstants
    <3> QED BY <2>1, <3>2, <3>5
  <2> QED BY <1>2, <2>4, <2>5
<1> QED BY <1>5, <1>6, <1>7, <1>8, <1>9, <1>10 DEF LimInv

(* cleanup drops the entries not seen for StaleAge.                        *)
LEMMA CleanupStep ==
    ASSUME LimInv, Cleanup
    PROVE  LimInv'
<1>0. LimTyped /\ BucketsMade /\ BucketsOwned /\ LateIsOld /\ WithinBucket /\ FullWhenStale
  BY DEF LimInv
<1>1. /\ limiters' = [p \in Peers |-> IF p \in Stale THEN NoLimiter ELSE limiters[p]]
      /\ UNCHANGED <<bucket, req, now, passed, over, held>>
  BY DEF Cleanup
<1>2. /\ \A p \in Peers : limiters'[p] # NoLimiter => limiters'[p] = limiters[p]
      /\ \A p \in Peers : limiters'[p] = NoLimiter => limiters[p] = NoLimiter \/ p \in Stale
  BY <1>1
<1>3. \A p \in Stale : /\ p \in Peers /\ limiters[p] # NoLimiter /\ limiters[p].seen \in Nat
                       /\ now - limiters[p].seen > StaleAge
  BY <1>0 DEF Stale, LimTyped, Entries
<1>4. now \in Nat /\ StaleAge \in Nat
  BY <1>0, LimConstants DEF LimTyped
<1>5. LimTyped'
  BY <1>0, <1>1 DEF LimTyped, Made
<1>6. BucketsMade' /\ BucketsOwned'
  BY <1>0, <1>1, <1>2 DEF BucketsMade, BucketsOwned, Made
<1>7. LateIsOld'
  <2> SUFFICES ASSUME NEW r \in Requests, req[r] # NoLimiter, ~Current(r)'
               PROVE  now - req[r].at > StaleAge
    BY <1>1 DEF LateIsOld
  <2>1. req[r].at \in Nat /\ req[r].peer \in Peers
    BY <1>0 DEF LimTyped, Arrivals
  <2>2. CASE ~Current(r)
    BY <1>0, <2>2 DEF LateIsOld
  <2>3. CASE Current(r)
    <3>1. req[r].peer \in Stale
      BY <1>1, <2>1, <2>3 DEF Current
    <3>2. req[r].at <= limiters[req[r].peer].seen
      BY <1>0, <2>1, <2>3 DEF Current, BucketsOwned
    <3> QED BY <1>3, <1>4, <2>1, <3>1, <3>2
  <2> QED BY <2>2, <2>3
<1>8. WithinBucket'
  <2> SUFFICES ASSUME NEW p \in Peers \ held
               PROVE  /\ limiters'[p] = NoLimiter => over[p] = 0
                      /\ limiters'[p] # NoLimiter => over[p] + bucket[limiters'[p].b] <= Burst
    BY <1>1 DEF WithinBucket
  <2>1. limiters'[p] # NoLimiter => over[p] + bucket[limiters'[p].b] <= Burst
    BY <1>0, <1>2 DEF WithinBucket
  <2>2. ASSUME p \in Stale PROVE over[p] = 0
    <3>1. PICK e \in Nat : e = limiters[p].seen + StaleAge + 1 /\ e <= now
      BY <1>3, <1>4, <2>2
    <3>2. Less(e, now) = 0
      BY <1>4, <3>1, LessIs
    <3>3. over[p] <= Rate * Less(e, now)
      BY <1>0, <1>3, <2>2, <3>1 DEF FullWhenStale
    <3>4. over[p] \in Nat
      BY <1>0 DEF LimTyped
    <3> QED BY <3>2, <3>3, <3>4, RateTimes
  <2> QED BY <1>0, <1>2, <2>1, <2>2 DEF WithinBucket
<1>9. FullWhenStale'
  BY <1>0, <1>1, <1>2 DEF FullWhenStale
<1> QED BY <1>5, <1>6, <1>7, <1>8, <1>9 DEF LimInv

(* Every step of the limiter keeps the invariant.                          *)
LEMMA LimStep == LimInv /\ [LimNext]_limVars => LimInv'
<1> SUFFICES ASSUME LimInv, [LimNext]_limVars PROVE LimInv'
  OBVIOUS
<1>1. CASE UNCHANGED limVars
  <2>1. UNCHANGED <<limiters, bucket, req, now, passed, over, held>>
    BY <1>1 DEF limVars
  <2> QED BY <2>1 DEF LimInv, LimTyped, Made, BucketsMade, BucketsOwned, LateIsOld, Current,
                      WithinBucket, FullWhenStale
<1> QED BY <1>1, TickStep, CleanupStep, AllowStep, getLimiterStep DEF LimNext

(* The limiter keeps its invariant.                                        *)
THEOREM LimInductive == LimSpec => []LimInv
BY LimInitial, LimStep, PTL DEF LimSpec

(* No peer is ever served more than Burst requests above its rate, unless  *)
(* a request of it is held up between getLimiter and Allow for longer than *)
(* an entry lives: cleanup drops a bucket only once it is full again       *)
(* (internal/server/middleware).  For every rate and burst whose bucket    *)
(* fills up within StaleAge, and any number of peers and requests.         *)
THEOREM BurstBound == LimSpec => []BurstIsTheMost
<1>1. LimInv => BurstIsTheMost
  <2> SUFFICES ASSUME LimInv, NEW p \in Peers \ held PROVE over[p] <= Burst
    BY DEF BurstIsTheMost
  <2>1. over[p] \in Nat
    BY DEF LimInv, LimTyped
  <2>2. CASE limiters[p] = NoLimiter
    BY <2>2, LimConstants DEF LimInv, WithinBucket
  <2>3. CASE limiters[p] # NoLimiter
    <3>1. over[p] + bucket[limiters[p].b] <= Burst
      BY <2>3 DEF LimInv, WithinBucket
    <3>2. bucket[limiters[p].b] \in 0..Burst
      BY <2>3 DEF LimInv, LimTyped, BucketsMade
    <3> QED BY <2>1, <3>1, <3>2, LimConstants
  <2> QED BY <2>2, <2>3
<1> QED BY <1>1, LimInductive, PTL

(* The types of the limiter follow.                                        *)
LEMMA LimTypes == LimInv => LimTypeOK
BY DEF LimInv, LimTyped, BucketsMade, LimTypeOK

-----------------------------------------------------------------------------
(* The life of the server process: LifeSpec of ServerLife.                 *)

(* The types of the server process.                                        *)
LifeTyped ==
    /\ phase \in {"off", "migrate", "init", "listen", "serve", "drain", "ran", "end"}
    /\ quitter \in {"none", "wait", "stop", "done"} /\ quit \in {0, 1}
    /\ pool \in {"none", "open", "closed"} /\ applied \in 0..Migrations
    /\ rpc \in [Calls -> {"none", "limit", "token", "handler"}]

(* What each phase of main finds done, and that no call is under way       *)
(* outside of serve and drain.                                             *)
LifeOrder ==
    /\ phase \in {"off", "migrate", "init"} => quitter = "none"
    /\ phase \in {"listen", "serve", "drain", "ran"} => pool = "open"
    /\ phase \in {"init", "listen", "serve", "drain", "ran"} => applied = Migrations
    /\ phase = "serve" => quitter = "wait"
    /\ phase = "drain" => quitter = "stop"
    /\ phase \notin {"serve", "drain"} => \A c \in Calls : rpc[c] = "none"

(* The inductive invariant of the server's life.                           *)
LifeInv == LifeTyped /\ LifeOrder

(* The process has not started.                                            *)
LEMMA LifeInitial == LifeInit => LifeInv
BY LifeAssumption DEF LifeInit, Idle_, LifeInv, LifeTyped, LifeOrder

(* The statements of main and Run.                                         *)
LEMMA MainStepKeeps == ASSUME LifeInv, MainStep PROVE LifeInv'
<1>1. LifeTyped /\ LifeOrder
  BY DEF LifeInv
<1>2. CASE LoadConfig
  BY <1>1, <1>2 DEF LoadConfig, LifeInv, LifeTyped, LifeOrder
<1>3. CASE MigrateOne
  BY <1>1, <1>3, LifeAssumption DEF MigrateOne, LifeInv, LifeTyped, LifeOrder
<1>4. CASE MigrateEnds
  BY <1>1, <1>4 DEF MigrateEnds, LifeInv, LifeTyped, LifeOrder
<1>5. CASE NewApp
  BY <1>1, <1>5 DEF NewApp, Connected, LifeInv, LifeTyped, LifeOrder
<1>6. CASE Listen
  BY <1>1, <1>6 DEF Listen, LifeInv, LifeTyped, LifeOrder
<1>7. CASE Close
  BY <1>1, <1>7 DEF Close, LifeInv, LifeTyped, LifeOrder
<1>8. CASE Exit_
  BY <1>1, <1>8 DEF Exit_, Dead, Idle_, LifeInv, LifeTyped, LifeOrder
<1> QED BY <1>2, <1>3, <1>4, <1>5, <1>6, <1>7, <1>8 DEF MainStep

(* Signals and the goroutine that waits for them.                          *)
LEMMA SignalKeeps == ASSUME LifeInv, Signal \/ StopBegin \/ StopEnds PROVE LifeInv'
<1>1. LifeTyped /\ LifeOrder
  BY DEF LifeInv
<1>2. CASE Signal
  <2>1. CASE quitter = "none"
    BY <1>1, <1>2, <2>1 DEF Signal, Dead, Idle_, LifeInv, LifeTyped, LifeOrder
  <2>2. CASE quitter # "none"
    BY <1>1, <1>2, <2>2 DEF Signal, LifeInv, LifeTyped, LifeOrder
  <2> QED BY <2>1, <2>2
<1>3. CASE StopBegin
  BY <1>1, <1>3 DEF StopBegin, LifeInv, LifeTyped, LifeOrder
<1>4. CASE StopEnds
  BY <1>1, <1>4 DEF StopEnds, LifeInv, LifeTyped, LifeOrder
<1> QED BY <1>2, <1>3, <1>4

(* The calls being served.                                                 *)
LEMMA CallKeeps ==
    ASSUME LifeInv, NEW c \in Calls,
           Accept(c) \/ Intercept(c) \/ HandlerEnds(c) \/ StreamEnds(c)
    PROVE  LifeInv'
<1>1. LifeTyped /\ LifeOrder
  BY DEF LifeInv
<1>2. PICK s \in {"none", "limit", "token", "handler"} : rpc' = [rpc EXCEPT ![c] = s]
  BY DEF Accept, First, Intercept, HandlerEnds, StreamEnds
<1>3. UNCHANGED <<phase, quitter, quit, pool, applied>>
  BY DEF Accept, Intercept, HandlerEnds, StreamEnds
<1>4. phase \in {"serve", "drain"}
  BY <1>1 DEF LifeOrder, Accept, Intercept, HandlerEnds, StreamEnds
<1> QED BY <1>1, <1>2, <1>3, <1>4 DEF LifeInv, LifeTyped, LifeOrder

(* Every step of the server process keeps the invariant.                   *)
LEMMA LifeStep == LifeInv /\ [LifeNext]_lifeVars => LifeInv'
<1> SUFFICES ASSUME LifeInv, [LifeNext]_lifeVars PROVE LifeInv'
  OBVIOUS
<1>1. CASE UNCHANGED lifeVars
  BY <1>1 DEF lifeVars, LifeInv, LifeTyped, LifeOrder
<1> QED BY <1>1, MainStepKeeps, SignalKeeps, CallKeeps DEF LifeNext

(* The server process keeps its invariant.                                 *)
THEOREM LifeInductive == LifeSpec => []LifeInv
BY LifeInitial, LifeStep, PTL DEF LifeSpec

(* The types of the server process follow, with what a served call needs.  *)
LEMMA LifeTypes == LifeInv => LifeTypeOK
BY DEF LifeInv, LifeTyped, LifeOrder, LifeTypeOK

(* A call is served only with an open pool and a fully migrated database,  *)
(* through any number of failed starts, signals and restarts (cmd/server   *)
(* and app.Run): the deferred Close comes after GracefulStop.              *)
THEOREM ServedWithOpenPool == LifeSpec => []LifeTypeOK
BY LifeTypes, LifeInductive, PTL

-----------------------------------------------------------------------------
(* The local database and the keyfile: FilesSpec of LocalFiles.            *)

(* Who can open a save, and whether it is too large.                       *)
SaveRecords == [pw : Passwords, kf : Nat, big : BOOLEAN]

(* The Load call.                                                          *)
LoadRecords ==
    [pc : {"idle", "head", "check", "body", "data", "wrong", "invalid", "missing"},
     pw : Passwords \cup {NoLoad.pw}, kf : Nat, salt : Nat, began : Nat,
     whole : BOOLEAN, data : Nat, torn : BOOLEAN]

(* The types of the local files.                                           *)
FilesTyped ==
    /\ db \in [save : Nat, cut : 0..11] /\ db.save = Len(saves)
    /\ saves \in Seq(SaveRecords) /\ Len(saves) <= MaxSaves
    /\ writer \in {"idle", "run", "ok", "failed"}
    /\ reader \in LoadRecords
    /\ keyfile \in 0..MaxKeyfiles

(* What is in the file while Save writes it, and after.                    *)
FileWritten ==
    /\ writer = "run" => db.save > 0 /\ db.cut < 11
    /\ writer = "ok" => db.save > 0 /\ db.cut = 11
    /\ db.save > 0 /\ saves[db.save].big => db.cut <= 2

(* What a Load has read so far.  A file that was whole when it was opened  *)
(* and has not been written since is whole.                                *)
LoadUnderWay ==
    /\ reader.began <= Len(saves)
    /\ reader.pc \in {"head", "check", "body", "wrong", "invalid"} => reader.began > 0
    /\ reader.pc \in {"check", "body"} => reader.began <= reader.salt /\ reader.salt <= Len(saves)
    /\ reader.pc = "data" => reader.data > 0 /\ reader.data <= Len(saves)
    /\ reader.whole /\ db.save = reader.began => writer = "ok"

(* The inductive invariant of the local database.  LoadTellsTheTruth is    *)
(* about the result; LoadUnderWay is about the reads before it, between    *)
(* which Save may write the file again.                                    *)
FilesInv == FilesTyped /\ FileWritten /\ LoadUnderWay /\ LoadTellsTheTruth

(* No file.                                                                *)
LEMMA FilesInitial == FilesInit => FilesInv
<1> SUFFICES ASSUME FilesInit PROVE FilesInv
  OBVIOUS
<1>1. /\ db.save = 0 /\ db.cut = 0 /\ saves = <<>> /\ writer = "idle" /\ reader = NoLoad /\ keyfile = 0
      /\ db \in [save : Nat, cut : 0..11]
  BY DEF FilesInit
<1>2. /\ NoLoad \in LoadRecords /\ NoLoad.pc = "idle" /\ NoLoad.began = 0 /\ NoLoad.whole = FALSE
  BY DEF NoLoad, LoadRecords
<1>3. FilesTyped
  BY <1>1, <1>2, FilesAssumption DEF FilesTyped
<1>4. FileWritten /\ LoadUnderWay
  BY <1>1, <1>2 DEF FileWritten, LoadUnderWay
<1>5. LoadTellsTheTruth
  BY <1>1, <1>2 DEF LoadTellsTheTruth, LoadIsOneSave, WrongMeansWrong, SavedCanBeLoaded
<1> QED BY <1>3, <1>4, <1>5 DEF FilesInv

(* Save truncates the file.                                                *)
LEMMA SaveBeginStep ==
    ASSUME FilesInv, NEW pw \in Passwords, NEW kf \in Nat, NEW big \in BOOLEAN, SaveBegin(pw, kf, big)
    PROVE  FilesInv'
<1>0. FilesTyped /\ FileWritten /\ LoadUnderWay /\ LoadTellsTheTruth
  BY DEF FilesInv
<1>1. PICK n \in Nat : n = Len(saves)
  BY <1>0 DEF FilesTyped
<1>2. PICK s \in SaveRecords : s = [pw |-> pw, kf |-> kf, big |-> big]
  BY DEF SaveRecords
<1>3. /\ saves' = Append(saves, s) /\ n < MaxSaves /\ writer' = "run"
      /\ db' = [save |-> n + 1, cut |-> 0]
      /\ UNCHANGED <<reader, keyfile, loadsDone>>
  BY <1>1, <1>2 DEF SaveBegin
<1>4. /\ saves' \in Seq(SaveRecords) /\ Len(saves') = n + 1
      /\ \A k \in 1..n : saves'[k] = saves[k]
  BY <1>0, <1>1, <1>3 DEF FilesTyped
<1>5. db' \in [save : Nat, cut : 0..11] /\ db'.save = n + 1 /\ db'.cut = 0
  BY <1>3
<1>6. FilesTyped'
  BY <1>0, <1>1, <1>3, <1>4, <1>5, FilesAssumption DEF FilesTyped
<1>7. FileWritten'
  BY <1>3, <1>5 DEF FileWritten
<1>t. reader \in LoadRecords
  BY <1>0 DEF FilesTyped
<1>8. reader.began \in 0..n /\ reader.salt \in Nat /\ reader.data \in Nat
  BY <1>0, <1>1, <1>t DEF LoadUnderWay, LoadRecords
<1>9. LoadUnderWay'
  BY <1>0, <1>1, <1>3, <1>4, <1>5, <1>8 DEF LoadUnderWay
<1>10. LoadIsOneSave'
  <2> SUFFICES ASSUME reader.pc = "data" PROVE LoadIsOneSave'
    BY <1>3 DEF LoadIsOneSave
  <2>1. reader.data \in 1..n
    BY <1>0, <1>1, <1>8 DEF LoadUnderWay
  <2> QED BY <1>0, <1>3, <1>4, <2>1 DEF LoadIsOneSave, LoadTellsTheTruth
<1>11. WrongMeansWrong'
  <2> SUFFICES ASSUME reader.pc = "wrong" PROVE WrongMeansWrong'
    BY <1>3 DEF WrongMeansWrong
  <2>1. reader.began \in 1..n
    BY <1>0, <1>8 DEF LoadUnderWay
  <2> QED BY <1>0, <1>3, <1>4, <2>1 DEF WrongMeansWrong, LoadTellsTheTruth
<1>12. SavedCanBeLoaded'
  BY <1>3, <1>5, <1>8 DEF SavedCanBeLoaded
<1> QED BY <1>6, <1>7, <1>9, <1>10, <1>11, <1>12 DEF FilesInv, LoadTellsTheTruth

(* Save writes on, fails or is cut off by a crash; a keyfile is made.      *)
LEMMA WriterStep ==
    ASSUME FilesInv, GenerateKeyfile \/ SavePiece \/ SaveError \/ SaveCrash
    PROVE  FilesInv'
<1>0. FilesTyped /\ FileWritten /\ LoadUnderWay /\ LoadTellsTheTruth
  BY DEF FilesInv
<1>1. UNCHANGED <<saves, reader>>
  BY DEF GenerateKeyfile, SavePiece, SaveError, SaveCrash
<1>d. db \in [save : Nat, cut : 0..11] /\ db.save = Len(saves) /\ db.save \in Nat /\ db.cut \in 0..11
  BY <1>0 DEF FilesTyped
<1>2. /\ db' \in [save : Nat, cut : 0..11] /\ db'.save = db.save
      /\ writer' \in {"idle", "run", "ok", "failed"}
      /\ keyfile' \in 0..MaxKeyfiles
      /\ FileWritten'
      /\ writer = "ok" => writer' = "ok"
  <2>1. CASE SavePiece
    <3>1. /\ writer = "run" /\ ~(saves[db.save].big /\ db.cut = 2)
          /\ db' = [db EXCEPT !.cut = db.cut + 1]
          /\ writer' = IF db.cut + 1 = 11 THEN "ok" ELSE "run"
          /\ keyfile' = keyfile
      BY <2>1 DEF SavePiece, End
    <3>2. db.save > 0 /\ db.cut < 11 /\ (saves[db.save].big => db.cut < 2)
      BY <1>0, <1>d, <3>1 DEF FileWritten
    <3>3. db.cut + 1 \in 0..11
      BY <1>d, <3>2
    <3>4. db' \in [save : Nat, cut : 0..11] /\ db'.save = db.save /\ db'.cut = db.cut + 1
      BY <1>d, <3>1, <3>3
    <3>5. FileWritten'
      BY <1>1, <1>d, <3>1, <3>2, <3>4 DEF FileWritten
    <3> QED BY <1>0, <3>1, <3>4, <3>5 DEF FilesTyped
  <2>2. CASE SaveError \/ SaveCrash
    <3>1. db' = db /\ writer = "run" /\ writer' \in {"idle", "failed"} /\ keyfile' = keyfile
      BY <2>2 DEF SaveError, SaveCrash
    <3> QED BY <1>0, <1>1, <3>1 DEF FilesTyped, FileWritten
  <2>3. CASE GenerateKeyfile
    <3>1. db' = db /\ writer' = writer /\ keyfile' \in 0..MaxKeyfiles
      BY <1>0, <2>3, FilesAssumption DEF GenerateKeyfile, FilesTyped
    <3> QED BY <1>0, <1>1, <3>1 DEF FilesTyped, FileWritten
  <2> QED BY <2>1, <2>2, <2>3
<1>3. FilesTyped'
  BY <1>0, <1>1, <1>2 DEF FilesTyped
<1>4. LoadUnderWay'
  BY <1>0, <1>1, <1>2 DEF LoadUnderWay
<1>5. LoadTellsTheTruth'
  BY <1>0, <1>1, <1>2 DEF LoadTellsTheTruth, LoadIsOneSave, WrongMeansWrong, SavedCanBeLoaded
<1> QED BY <1>2, <1>3, <1>4, <1>5 DEF FilesInv

(* Load opens the file.                                                    *)
LEMMA LoadBeginStep ==
    ASSUME FilesInv, NEW pw \in Passwords, NEW kf \in Nat, LoadBegin(pw, kf)
    PROVE  FilesInv'
<1>0. FilesTyped /\ FileWritten
  BY DEF FilesInv
<1>1. PICK p \in {"missing", "head"} : p = IF db.save = 0 THEN "missing" ELSE "head"
  OBVIOUS
<1>2. PICK w \in BOOLEAN : w = (writer = "ok")
  OBVIOUS
<1>3. PICK n \in Nat : n = db.save
  BY <1>0 DEF FilesTyped
<1>4. /\ reader' = [NoLoad EXCEPT !.pc = p, !.pw = pw, !.kf = kf, !.began = n, !.whole = w]
      /\ UNCHANGED <<db, saves, writer, keyfile>>
  BY <1>1, <1>2, <1>3 DEF LoadBegin
<1>5. /\ reader' \in LoadRecords
      /\ reader'.pc = p /\ reader'.began = n /\ reader'.whole = w
  <2>1. NoLoad \in LoadRecords
    BY DEF NoLoad, LoadRecords
  <2> QED BY <1>4, <2>1 DEF LoadRecords
<1>6. FilesTyped' /\ FileWritten'
  BY <1>0, <1>4, <1>5 DEF FilesTyped, FileWritten
<1>7. /\ reader'.began = Len(saves') /\ (reader'.pc = "head" => reader'.began > 0)
      /\ reader'.pc \in {"missing", "head"}
      /\ reader'.whole => writer' = "ok" /\ reader'.pc # "missing"
  <2>1. n = Len(saves) /\ (p = "head" => n > 0)
    BY <1>0, <1>1, <1>3 DEF FilesTyped
  <2>2. w => writer = "ok" /\ p # "missing"
    <3>1. writer = "ok" => n > 0
      BY <1>0, <1>3 DEF FileWritten
    <3>2. n > 0 => p # "missing"
      BY <1>1, <1>3
    <3>3. w => writer = "ok"
      BY <1>2
    <3> QED BY <3>1, <3>2, <3>3
  <2> QED BY <1>4, <1>5, <2>1, <2>2
<1>8. LoadUnderWay'
  <2>1. Len(saves') \in Nat
    BY <1>6 DEF FilesTyped
  <2> QED BY <1>7, <2>1 DEF LoadUnderWay
<1>9. LoadTellsTheTruth'
  BY <1>7 DEF LoadTellsTheTruth, LoadIsOneSave, WrongMeansWrong, SavedCanBeLoaded
<1> QED BY <1>6, <1>8, <1>9 DEF FilesInv

(* GCM opens a box that was sealed with the same key, and no other.        *)
LEMMA OpensWhenRight ==
    ASSUME reader.salt = db.save
    PROVE  Opens <=> saves[db.save].pw = reader.pw /\ saves[db.save].kf = reader.kf
BY DEF Opens, CompositeKey, DeriveKey

(* What is left to show of a read, once its result is known.               *)
LEMMA ResultStep ==
    ASSUME FilesInv, NEW r \in LoadRecords, Result(r),
           r.began = reader.began, r.whole = reader.whole, r.pw = reader.pw, r.kf = reader.kf,
           reader.pc \in {"head", "check", "body"},
           r.pc \in {"check", "body"} => r.began <= r.salt /\ r.salt <= Len(saves),
           r.pc \in {"check", "body", "data", "wrong", "invalid"},
           r.pc = "data" => /\ r.data > 0 /\ r.data <= Len(saves)
                            /\ saves[r.data].pw = r.pw /\ saves[r.data].kf = r.kf /\ ~saves[r.data].big,
           r.pc = "wrong" /\ ~r.torn => <<r.pw, r.kf>> # <<saves[r.began].pw, saves[r.began].kf>>,
           r.whole /\ db.save = r.began /\ saves[r.began].pw = r.pw /\ saves[r.began].kf = r.kf
              => r.pc \notin {"wrong", "invalid"}
    PROVE  FilesInv'
<1>0. FilesTyped /\ FileWritten /\ LoadUnderWay
  BY DEF FilesInv
<1>1. reader' = r /\ UNCHANGED <<db, saves, writer, keyfile>>
  BY DEF Result
<1>2. FilesTyped' /\ FileWritten'
  BY <1>0, <1>1 DEF FilesTyped, FileWritten
<1>3. LoadUnderWay'
  BY <1>0, <1>1 DEF LoadUnderWay
<1>4. LoadTellsTheTruth'
  BY <1>1 DEF LoadTellsTheTruth, LoadIsOneSave, WrongMeansWrong, SavedCanBeLoaded
<1> QED BY <1>2, <1>3, <1>4 DEF FilesInv

(* Load reads the header.                                                  *)
LEMMA LoadHeadStep ==
    ASSUME FilesInv, LoadHead
    PROVE  FilesInv'
<1>0. FilesTyped /\ FileWritten /\ LoadUnderWay
  BY DEF FilesInv
<1>1. reader.pc = "head" /\ reader \in LoadRecords /\ db.save \in Nat /\ db.cut \in 0..11 /\ db.save = Len(saves)
  BY <1>0 DEF LoadHead, FilesTyped
<1>2. reader.began \in Nat /\ reader.began <= Len(saves)
  BY <1>0, <1>1 DEF LoadUnderWay, LoadRecords
<1>3. CASE db.cut < 5
  <2>1. PICK r : r = [reader EXCEPT !.pc = "invalid"]
    OBVIOUS
  <2>2. Result(r)
    BY <1>3, <2>1 DEF LoadHead, End
  <2>3. /\ r \in LoadRecords /\ r.pc = "invalid" /\ r.began = reader.began /\ r.whole = reader.whole
        /\ r.pw = reader.pw /\ r.kf = reader.kf
    BY <1>1, <2>1 DEF LoadRecords
  <2>4. ~(r.whole /\ db.save = r.began)
    BY <1>0, <1>1, <1>3, <2>3 DEF LoadUnderWay, FileWritten
  <2> QED BY <1>1, <2>2, <2>3, <2>4, ResultStep
<1>4. CASE ~(db.cut < 5)
  <2>1. PICK n \in Nat : n = db.save
    BY <1>1
  <2>2. PICK r : r = [reader EXCEPT !.pc = "check", !.salt = n]
    OBVIOUS
  <2>3. Result(r)
    BY <1>4, <2>1, <2>2 DEF LoadHead, End
  <2>4. /\ r \in LoadRecords /\ r.pc = "check" /\ r.began = reader.began /\ r.whole = reader.whole
        /\ r.pw = reader.pw /\ r.kf = reader.kf /\ r.salt = n
    BY <1>1, <2>2 DEF LoadRecords
  <2>5. r.began <= r.salt /\ r.salt <= Len(saves)
    BY <1>1, <1>2, <2>1, <2>4
  <2> QED BY <1>1, <2>3, <2>4, <2>5, ResultStep
<1> QED BY <1>3, <1>4

(* Load reads the check value or the body, and opens it.                   *)
LEMMA LoadSealedStep ==
    ASSUME FilesInv, reader.pc \in {"check", "body"}, NEW end \in {8, 11}, NEW r,
           \/ end = 8 /\ reader.pc = "check" /\ r = [reader EXCEPT !.pc = "body"]
           \/ end = 11 /\ r = [reader EXCEPT !.pc = "data", !.data = db.save],
           LoadSealed(end, r)
    PROVE  FilesInv'
<1>0. FilesTyped /\ FileWritten /\ LoadUnderWay
  BY DEF FilesInv
<1>1. reader \in LoadRecords /\ db.save \in Nat /\ db.cut \in 0..11 /\ db.save = Len(saves)
  BY <1>0 DEF FilesTyped
<1>2. /\ reader.began \in Nat /\ reader.salt \in Nat /\ reader.began > 0
      /\ reader.began <= reader.salt /\ reader.salt <= db.save
  BY <1>0, <1>1 DEF LoadUnderWay, LoadRecords
<1>3. reader.whole /\ db.save = reader.began => db.cut = 11
  BY <1>0 DEF LoadUnderWay, FileWritten
<1>4. db.save = reader.began => reader.salt = db.save
  BY <1>1, <1>2
<1>5. CASE db.cut < end - 1
  <2>1. PICK x : x = [reader EXCEPT !.pc = "invalid"]
    OBVIOUS
  <2>2. Result(x)
    BY <1>5, <2>1 DEF LoadSealed
  <2>3. /\ x \in LoadRecords /\ x.pc = "invalid" /\ x.began = reader.began /\ x.whole = reader.whole
        /\ x.pw = reader.pw /\ x.kf = reader.kf
    BY <1>1, <2>1 DEF LoadRecords
  <2>4. ~(x.whole /\ db.save = x.began)
    BY <1>1, <1>3, <1>5, <2>3
  <2> QED BY <2>2, <2>3, <2>4, ResultStep
<1>6. CASE ~(db.cut < end - 1) /\ (db.cut < end \/ ~Opens)
  <2>1. PICK w \in BOOLEAN : w = Torn(end - 1)
    BY DEF Torn
  <2>2. PICK x : x = [reader EXCEPT !.pc = "wrong", !.torn = w]
    OBVIOUS
  <2>3. Result(x)
    BY <1>6, <2>1, <2>2 DEF LoadSealed
  <2>4. /\ x \in LoadRecords /\ x.pc = "wrong" /\ x.began = reader.began /\ x.whole = reader.whole
        /\ x.pw = reader.pw /\ x.kf = reader.kf /\ x.torn = w
    BY <1>1, <2>2 DEF LoadRecords
  <2>5. ~w => db.save = reader.began /\ db.cut >= end
    <3>1. ~w => db.cut # end - 1 /\ db.save = reader.began
      BY <2>1, Zenon DEF Torn
    <3> QED BY <1>1, <1>6, <3>1
  <2>6. db.save = reader.began /\ db.cut >= end => ~Opens
    BY <1>1, <1>6
  <2>7. db.save = reader.began /\ ~Opens
          => ~(saves[reader.began].pw = reader.pw /\ saves[reader.began].kf = reader.kf)
    BY <1>4, OpensWhenRight
  <2>8. ~x.torn => <<x.pw, x.kf>> # <<saves[x.began].pw, saves[x.began].kf>>
    BY <2>4, <2>5, <2>6, <2>7
  <2>9. ~(x.whole /\ db.save = x.began /\ saves[x.began].pw = x.pw /\ saves[x.began].kf = x.kf)
    BY <1>1, <1>3, <2>4, <2>6, <2>7
  <2> QED BY <2>3, <2>4, <2>8, <2>9, ResultStep
<1>7. CASE ~(db.cut < end - 1) /\ ~(db.cut < end \/ ~Opens)
  <2>1. Result(r) /\ Opens /\ db.cut >= end
    BY <1>1, <1>7 DEF LoadSealed
  <2>2. CASE end = 8 /\ reader.pc = "check" /\ r = [reader EXCEPT !.pc = "body"]
    <3>1. /\ r \in LoadRecords /\ r.pc = "body" /\ r.began = reader.began /\ r.whole = reader.whole
          /\ r.pw = reader.pw /\ r.kf = reader.kf /\ r.salt = reader.salt
      BY <1>1, <2>2 DEF LoadRecords
    <3> QED BY <1>1, <1>2, <2>1, <3>1, ResultStep
  <2>3. CASE end = 11 /\ r = [reader EXCEPT !.pc = "data", !.data = db.save]
    <3>1. /\ r \in LoadRecords /\ r.pc = "data" /\ r.began = reader.began /\ r.whole = reader.whole
          /\ r.pw = reader.pw /\ r.kf = reader.kf /\ r.data = db.save
      BY <1>1, <2>3 DEF LoadRecords
    <3>2. saves[db.save].pw = reader.pw /\ saves[db.save].kf = reader.kf
      BY <2>1 DEF Opens, CompositeKey, DeriveKey
    <3>3. db.save > 0 /\ db.save <= Len(saves) /\ ~saves[db.save].big
      BY <1>0, <1>1, <1>2, <2>1, <2>3 DEF FileWritten
    <3> QED BY <2>1, <3>1, <3>2, <3>3, ResultStep
  <2> QED BY <2>2, <2>3
<1> QED BY <1>5, <1>6, <1>7

(* Every step on the local files keeps the invariant.                      *)
LEMMA FilesStep == FilesInv /\ [FilesNext]_fileVars => FilesInv'
<1> SUFFICES ASSUME FilesInv, [FilesNext]_fileVars PROVE FilesInv'
  OBVIOUS
<1>1. CASE UNCHANGED fileVars
  BY <1>1 DEF fileVars, FilesInv, FilesTyped, FileWritten, LoadUnderWay, LoadTellsTheTruth,
     LoadIsOneSave, WrongMeansWrong, SavedCanBeLoaded
<1>2. CASE GenerateKeyfile \/ SavePiece \/ SaveError \/ SaveCrash
  BY <1>2, WriterStep
<1>3. CASE LoadHead
  BY <1>3, LoadHeadStep
<1>4. CASE LoadCheck
  <2>1. PICK r : r = [reader EXCEPT !.pc = "body"]
    OBVIOUS
  <2>2. reader.pc = "check" /\ LoadSealed(8, r)
    BY <1>4, <2>1 DEF LoadCheck, End
  <2> QED BY <2>1, <2>2, LoadSealedStep
<1>5. CASE LoadBody
  <2>1. PICK r : r = [reader EXCEPT !.pc = "data", !.data = db.save]
    OBVIOUS
  <2>2. reader.pc = "body" /\ LoadSealed(11, r)
    BY <1>5, <2>1 DEF LoadBody, End
  <2> QED BY <2>1, <2>2, LoadSealedStep
<1>6. CASE \E pw \in Passwords : \E kf \in 0..MaxKeyfiles :
             LoadBegin(pw, kf) \/ \E big \in BOOLEAN : SaveBegin(pw, kf, big)
  <2>1. PICK pw \in Passwords, kf \in 0..MaxKeyfiles :
             LoadBegin(pw, kf) \/ \E big \in BOOLEAN : SaveBegin(pw, kf, big)
    BY <1>6
  <2>2. kf \in Nat
    BY FilesAssumption
  <2> QED BY <2>1, <2>2, LoadBeginStep, SaveBeginStep
<1> QED BY <1>1, <1>2, <1>3, <1>4, <1>5, <1>6 DEF FilesNext

(* The local files keep their invariant.                                   *)
THEOREM FilesInductive == FilesSpec => []FilesInv
BY FilesInitial, FilesStep, PTL DEF FilesSpec

(* Load returns the data of one finished save, opened with the password    *)
(* and the keyfile of that save, or an error: never a mixture of two       *)
(* saves, even when the file is rewritten while it is read.  A wrong       *)
(* password is reported only of one that is wrong, unless the file was     *)
(* torn, and a file that was saved whole and left alone opens with its     *)
(* password (Save and Load of the local database).  For every number of    *)
(* saves, passwords and keyfiles.                                          *)
THEOREM LoadsAreTrue == FilesSpec => []LoadTellsTheTruth
<1>1. FilesInv => LoadTellsTheTruth
  BY DEF FilesInv
<1> QED BY <1>1, FilesInductive, PTL

(* The types of the local files follow.                                    *)
LEMMA FilesTypes == FilesInv => FilesTypeOK
BY DEF FilesInv, FilesTyped, FilesTypeOK, LoadRecords, End

-----------------------------------------------------------------------------
(* Deriving a password: DeriveSpec of Derivation.                          *)

(* A word has more values than the largest alphabet has letters.           *)
LEMMA WordsType == 2 ^ Bits \in Nat /\ 2 ^ Bits > 88
BY DeriveAssumption

(* The values below T, out of 0..M, with remainder j.                      *)
Below(T, M, n, j) == {v \in 0..M : v < T /\ v % n = j}

(* There are k of them: j, n + j, ..., n * (k - 1) + j.                    *)
InSteps(T, n, j, k) ==
    /\ \A i \in 0..(k - 1) : n * i + j < T
    /\ \A v \in Nat : v < T /\ v % n = j => v \div n < k

(* Counting them, by the bijection from 0..(k - 1).                        *)
LEMMA Selecting ==
    ASSUME NEW n \in Nat \ {0}, NEW M \in Nat, NEW T \in Nat, T <= M + 1, NEW j \in 0..(n - 1), NEW k \in Nat,
           InSteps(T, n, j, k)
    PROVE  Cardinality(Below(T, M, n, j)) = k
<1>0. /\ \A i \in 0..(k - 1) : n * i + j < T
      /\ \A v \in Nat : v < T /\ v % n = j => v \div n < k
  BY DEF InSteps
<1>1. PICK S : S = Below(T, M, n, j)
  OBVIOUS
<1>2. PICK f : f = [i \in 0..(k - 1) |-> n * i + j]
  OBVIOUS
<1>3. \A i \in 0..(k - 1) : i \in Nat /\ n * i + j \in S /\ f[i] = n * i + j
  <2> SUFFICES ASSUME NEW i \in 0..(k - 1) PROVE i \in Nat /\ n * i + j \in S /\ f[i] = n * i + j
    OBVIOUS
  <2>1. i \in Nat /\ n * i + j \in Nat /\ n * i + j < T
    BY <1>0, Monotone
  <2>2. PICK v \in Nat : v = n * i + j
    BY <2>1
  <2>3. v % n = j
    <3>1. i \in Nat
      BY <2>1
    <3> QED BY <2>2, <3>1, RemainderIs
  <2>4. v \in 0..M /\ v < T
    BY <2>1, <2>2
  <2> QED BY <1>1, <1>2, <2>1, <2>2, <2>3, <2>4 DEF Below
<1>4. f \in [0..(k - 1) -> S]
  BY <1>2, <1>3
<1>5. \A v \in S : \E i \in 0..(k - 1) : f[i] = v
  <2> SUFFICES ASSUME NEW v \in S PROVE \E i \in 0..(k - 1) : f[i] = v
    OBVIOUS
  <2>1. v \in Nat /\ v < T /\ v % n = j
    BY <1>1 DEF Below
  <2>2. PICK i \in Nat : i = v \div n /\ i < k
    <3>1. v \div n \in Nat
      BY <2>1, Division
    <3>2. v \div n < k
      BY <1>0, <2>1
    <3> QED BY <3>1, <3>2
  <2>3. v = n * i + j
    <3>1. j \in Nat
      OBVIOUS
    <3> QED BY <2>1, <2>2, <3>1, Division, Zenon
  <2>4. i \in 0..(k - 1)
    BY <2>2
  <2>5. f[i] = v
    BY <1>3, <2>3, <2>4
  <2> QED BY <2>4, <2>5
<1>6. \A a, b \in 0..(k - 1) : f[a] = f[b] => a = b
  <2> SUFFICES ASSUME NEW a \in 0..(k - 1), NEW b \in 0..(k - 1), f[a] = f[b] PROVE a = b
    OBVIOUS
  <2>1. PICK v \in Nat : v = n * a + j /\ v = n * b + j
    BY <1>1, <1>3 DEF Below
  <2>2. a \in Nat /\ b \in Nat
    BY <1>3
  <2>3. v \div n = a
    BY <2>1, <2>2, QuotientIs
  <2>4. v \div n = b
    BY <2>1, <2>2, QuotientIs
  <2> QED BY <2>3, <2>4
<1>7. f \in Bijection(0..(k - 1), S)
  BY <1>4, <1>5, <1>6 DEF Bijection, Surjection, Injection, IsInjective
<1>8. IsFiniteSet(0..(k - 1)) /\ Cardinality(0..(k - 1)) = k
  <2>1. 0 \in Int /\ k - 1 \in Int
    OBVIOUS
  <2>2. /\ IsFiniteSet(0..(k - 1))
        /\ Cardinality(0..(k - 1)) = IF 0 > k - 1 THEN 0 ELSE (k - 1) - 0 + 1
    BY <2>1, FS_Interval
  <2> QED BY <2>2
<1>9. Cardinality(S) = Cardinality(0..(k - 1))
  BY <1>7, <1>8, FS_Bijection DEF ExistsBijection
<1> QED BY <1>1, <1>8, <1>9

(* The bound below which DerivePassword accepts a word: zero, which        *)
(* accepts every word, or one above a multiple of n.                       *)
LEMMA ThresholdIs ==
    ASSUME NEW n \in 1..88
    PROVE  \/ Threshold(n) = 0
           \/ \E q \in Nat : Threshold(n) = n * q + 1 /\ n * q + 1 <= MaxWord
<1>1. PICK W \in Nat : W = 2 ^ Bits /\ W > 88
  BY WordsType
<1>2. PICK M \in Nat : M = W - 1 /\ M = MaxWord
  BY <1>1 DEF MaxWord
<1>3. PICK q \in Nat, r \in 0..(n - 1) : q = M \div n /\ r = M % n /\ M = n * q + r
  BY Division
<1>4. PICK p \in Nat : p = n * q
  BY Monotone
<1>5. Threshold(n) = ((M - r) + 1) % W
  BY <1>1, <1>2, <1>3 DEF Threshold
<1>6. (M - r) + 1 = p + 1
  BY <1>3, <1>4
<1>7. CASE r = 0
  <2>1. p + 1 = W
    BY <1>1, <1>2, <1>3, <1>4, <1>7
  <2>2. W % W = 0
    <3>1. W = W * 1 + 0 /\ W \in Nat \ {0} /\ 0 \in 0..(W - 1) /\ 1 \in Nat
      BY <1>1
    <3> QED BY <3>1, RemainderIs
  <2> QED BY <1>5, <1>6, <2>1, <2>2
<1>8. CASE r # 0
  <2>1. p + 1 <= M /\ p + 1 < W
    BY <1>2, <1>3, <1>4, <1>8
  <2>2. (p + 1) % W = p + 1
    <3>1. p + 1 = W * 0 + (p + 1) /\ W \in Nat \ {0} /\ p + 1 \in 0..(W - 1) /\ 0 \in Nat
      BY <1>1, <2>1
    <3> QED BY <3>1, RemainderIs
  <2> QED BY <1>2, <1>4, <1>5, <1>6, <2>1, <2>2
<1> QED BY <1>7, <1>8

(* Of the accepted words equally many select each letter, but for the      *)
(* first letter, which may have one more.                                  *)
LEMMA FairSampling ==
    ASSUME NEW n \in 1..88
    PROVE  /\ \A j \in 1..(n - 1) : Preimages(n, j) = Preimages(n, n - 1)
           /\ Preimages(n, 0) \in {Preimages(n, n - 1), Preimages(n, n - 1) + 1}
<1>1. PICK M \in Nat : M = MaxWord
  BY WordsType DEF MaxWord
<1>2. PICK T : T = Threshold(n)
  OBVIOUS
<1>3. \A j \in 0..(n - 1) : Preimages(n, j) = Cardinality(Below(T, M, n, j))
  BY <1>1, <1>2 DEF Below, Preimages, Accepts, Letter
<1>4. n \in Nat \ {0} /\ 0 \in 0..(n - 1) /\ n - 1 \in 0..(n - 1)
  OBVIOUS
<1>5. CASE T = 0
  <2>1. ASSUME NEW j \in 0..(n - 1) PROVE Preimages(n, j) = 0
    <3>1. Below(T, M, n, j) = {}
      BY <1>5 DEF Below
    <3> QED BY <1>3, <3>1, FS_EmptySet
  <2>2. \A j \in 1..(n - 1) : j \in 0..(n - 1)
    OBVIOUS
  <2> QED BY <1>4, <2>1, <2>2
<1>6. ASSUME NEW q \in Nat, T = n * q + 1, n * q + 1 <= M
      PROVE  /\ \A j \in 1..(n - 1) : Preimages(n, j) = q
             /\ Preimages(n, 0) = q + 1
  <2>0. PICK p \in Nat : p = n * q
    BY <1>4, Monotone
  <2>1. T \in Nat /\ T <= M + 1 /\ T = p + 1
    BY <1>6, <2>0
  <2>2. ASSUME NEW j \in 1..(n - 1) PROVE Preimages(n, j) = q
    <3>0. j \in 0..(n - 1)
      OBVIOUS
    <3>1. \A i \in 0..(q - 1) : n * i + j < T
      <4> SUFFICES ASSUME NEW i \in 0..(q - 1) PROVE n * i + j < T
        OBVIOUS
      <4>1. i \in Nat /\ n * i \in Nat /\ n * i + n <= n * q
        BY <1>4, Monotone
      <4> QED BY <2>0, <2>1, <4>1
    <3>2. \A v \in Nat : v < T /\ v % n = j => v \div n < q
      <4> SUFFICES ASSUME NEW v \in Nat, v < T, v % n = j, ~(v \div n < q) PROVE FALSE
        OBVIOUS
      <4>1. PICK d \in Nat : d = v \div n
        BY <1>4, Division
      <4>3. v = n * d + j
        BY <1>4, <4>1, Division
      <4>2. n * q <= n * d /\ n * d \in Nat
        BY <1>4, <4>1, Monotone
      <4> QED BY <2>0, <2>1, <4>1, <4>2, <4>3
    <3>3. InSteps(T, n, j, q)
      BY <3>1, <3>2 DEF InSteps
    <3>4. Cardinality(Below(T, M, n, j)) = q
      BY <1>4, <2>1, <3>0, <3>3, Selecting
    <3> QED BY <1>3, <3>0, <3>4
  <2>3. Preimages(n, 0) = q + 1
    <3>1. \A i \in 0..((q + 1) - 1) : n * i + 0 < T
      <4> SUFFICES ASSUME NEW i \in 0..((q + 1) - 1) PROVE n * i + 0 < T
        OBVIOUS
      <4>1. i \in Nat /\ n * i \in Nat /\ n * i <= n * q
        BY <1>4, Monotone
      <4> QED BY <2>0, <2>1, <4>1
    <3>2. \A v \in Nat : v < T /\ v % n = 0 => v \div n < q + 1
      <4> SUFFICES ASSUME NEW v \in Nat, v < T, v % n = 0, ~(v \div n < q + 1) PROVE FALSE
        OBVIOUS
      <4>1. PICK d \in Nat : d = v \div n
        BY <1>4, Division
      <4>3. v = n * d + 0
        BY <1>4, <4>1, Division
      <4>2. n * q + n <= n * d /\ n * d \in Nat
        BY <1>4, <4>1, Monotone
      <4> QED BY <1>4, <2>0, <2>1, <4>1, <4>2, <4>3
    <3>3. q + 1 \in Nat
      OBVIOUS
    <3>4. InSteps(T, n, 0, q + 1)
      BY <3>1, <3>2 DEF InSteps
    <3>5. Cardinality(Below(T, M, n, 0)) = q + 1
      BY <1>4, <2>1, <3>3, <3>4, Selecting
    <3> QED BY <1>3, <1>4, <3>5
  <2> QED BY <2>2, <2>3
<1>7. CASE T # 0
  <2>1. PICK q \in Nat : T = n * q + 1 /\ n * q + 1 <= M
    BY <1>1, <1>2, <1>7, ThresholdIs
  <2>2. /\ \A j \in 1..(n - 1) : Preimages(n, j) = q
        /\ Preimages(n, 0) = q + 1
    BY <1>6, <2>1
  <2>3. CASE n = 1
    <3>1. n - 1 = 0
      BY <2>3
    <3> QED BY <2>2, <2>3, <3>1
  <2>4. CASE n # 1
    <3>1. n - 1 \in 1..(n - 1)
      BY <2>4
    <3> QED BY <2>2, <3>1
  <2> QED BY <2>3, <2>4
<1> QED BY <1>5, <1>7

(* No alphabet is empty and none has more than 88 letters.                 *)
LEMMA CharsetSizes == \A a \in Alphabets : CharsetLen(a) \in 1..88
<1> SUFFICES ASSUME NEW a \in Alphabets PROVE CharsetLen(a) \in 1..88
  OBVIOUS
<1>1. PICK u \in {0, 26} : u = IF a.upper THEN 26 ELSE 0
  OBVIOUS
<1>2. PICK d \in {0, 10} : d = IF a.digits THEN 10 ELSE 0
  OBVIOUS
<1>3. PICK s \in {0, 26} : s = IF a.symbols THEN 26 ELSE 0
  OBVIOUS
<1>4. PICK u2 \in {0, 2} : u2 = IF a.upper THEN 2 ELSE 0
  OBVIOUS
<1>5. PICK d2 \in {0, 2} : d2 = IF a.digits THEN 2 ELSE 0
  OBVIOUS
<1>6. PICK x \in 0..5 : x = IF a.noAmbiguous THEN 1 + u2 + d2 ELSE 0
  OBVIOUS
<1>7. CharsetLen(a) = 26 + u + d + s - x
  BY <1>1, <1>2, <1>3, <1>4, <1>5, <1>6 DEF CharsetLen
<1> QED BY <1>7

(* The words read from the two streams.                                    *)
WordStreams(length) == [{"base", "refill"} -> [0..(length - 1) -> Nat \cup {Unread}]]

(* A DerivePassword call.                                                  *)
DeriveCalls ==
    [pc : {"loop", "done"}, n : 1..88, length : Nat \ {0}, i : Nat,
     from : {"base", "refill"}, result : Seq(Nat)]

(* The inductive invariant of DerivePassword.                              *)
DpInv ==
    /\ dp \in DeriveCalls \cup {NoCall, [pc |-> "error"]}
    /\ dp.pc \in {"loop", "done"} =>
          /\ dp.i \in 0..dp.length
          /\ stream \in WordStreams(dp.length)
          /\ dp.result \in Seq(0..(dp.n - 1)) /\ Len(dp.result) <= dp.length
    /\ dp.pc = "loop" => Len(dp.result) < dp.length

(* No call.                                                                *)
LEMMA DpInitial == DeriveInit => DpInv
BY DEF DeriveInit, DpInv, NoCall

(* DerivePassword begins, or refuses its arguments.                        *)
LEMMA DeriveStartStep ==
    ASSUME DpInv, NEW a \in Alphabets, NEW length \in DeriveLengths, NEW realm \in BOOLEAN,
           DeriveStart(a, length, realm)
    PROVE  DpInv'
<1>1. CASE ~realm \/ length < MinDerive \/ length > MaxDerive
  <2>1. dp' = [pc |-> "error"]
    BY <1>1 DEF DeriveStart
  <2> QED BY <2>1 DEF DpInv
<1>2. CASE ~(~realm \/ length < MinDerive \/ length > MaxDerive)
  <2>1. length \in Nat \ {0}
    BY <1>2, DeriveAssumption
  <2>2. PICK n \in 1..88 : n = CharsetLen(a)
    BY CharsetSizes
  <2>e. PICK e : e = <<>>
    OBVIOUS
  <2>3. e \in Seq(Nat) /\ e \in Seq(0..(n - 1)) /\ Len(e) = 0
    BY <2>e
  <2>4. dp' = [pc |-> "loop", n |-> n, length |-> length, i |-> 0, from |-> "base", result |-> e]
    BY <1>2, <2>2, <2>e DEF DeriveStart
  <2>5. /\ dp' \in DeriveCalls /\ dp'.pc = "loop" /\ dp'.i = 0 /\ dp'.length = length
        /\ dp'.n = n /\ dp'.result = e
    BY <2>1, <2>3, <2>4 DEF DeriveCalls
  <2>6. stream' \in WordStreams(length)
    BY <1>2 DEF DeriveStart, WordStreams
  <2>7. 0 \in 0..length /\ 0 < length
    BY <2>1
  <2> QED BY <2>3, <2>5, <2>6, <2>7 DEF DpInv
<1> QED BY <1>1, <1>2

(* A call in its loop.                                                     *)
LEMMA LoopCall ==
    ASSUME DpInv, dp.pc = "loop" PROVE dp \in DeriveCalls
BY DEF DpInv, NoCall

(* One word of the stream.                                                 *)
LEMMA DeriveWordStep ==
    ASSUME DpInv, DeriveWord
    PROVE  DpInv'
<1>1. dp.pc = "loop" /\ dp \in DeriveCalls
  BY LoopCall DEF DeriveWord
<1>l. PICK length \in Nat \ {0} : length = dp.length
  BY <1>1 DEF DeriveCalls
<1>2. PICK n \in 1..88, i \in 0..length, f \in {"base", "refill"} :
          n = dp.n /\ i = dp.i /\ f = dp.from
  BY <1>1, <1>l DEF DpInv, DeriveCalls
<1>3. PICK g \in {"base", "refill"}, k \in 0..(length - 1) : g = At(dp).from /\ k = At(dp).i
  <2>1. CASE i >= length
    <3>1. At(dp) = [from |-> "refill", i |-> 0]
      BY <1>l, <1>2, <2>1 DEF At
    <3>2. 0 \in 0..(length - 1)
      OBVIOUS
    <3> QED BY <3>1, <3>2
  <2>2. CASE ~(i >= length)
    <3>1. At(dp) = [from |-> f, i |-> i]
      BY <1>l, <1>2, <2>2 DEF At
    <3>2. i \in 0..(length - 1)
      BY <2>2
    <3> QED BY <3>1, <3>2
  <2> QED BY <2>1, <2>2
<1>4. PICK s : s = dp.result
  OBVIOUS
<1>5. s \in Seq(Nat) /\ s \in Seq(0..(n - 1)) /\ Len(s) \in Nat /\ Len(s) < length
  BY <1>1, <1>l, <1>2, <1>4 DEF DpInv, DeriveCalls
<1>6. stream \in WordStreams(length)
  BY <1>1, <1>l DEF DpInv
<1>7. PICK v : /\ v \in IF stream[g][k] = Unread THEN Edges(n) ELSE {stream[g][k]}
               /\ stream' = [stream EXCEPT ![g][k] = v]
               /\ dp' = [dp EXCEPT !.i = k + 1, !.from = g,
                           !.result = IF Accepts(n, v) THEN Append(s, Letter(n, v)) ELSE s,
                           !.pc = IF Len(IF Accepts(n, v) THEN Append(s, Letter(n, v)) ELSE s) = length
                                  THEN "done" ELSE "loop"]
  BY <1>l, <1>2, <1>3, <1>4 DEF DeriveWord
<1>8. v \in Nat
  <2>1. Edges(n) \subseteq Nat
    BY WordsType DEF Edges, MaxWord
  <2>2. stream[g][k] \in Nat \cup {Unread}
    BY <1>6 DEF WordStreams
  <2> QED BY <1>7, <2>1, <2>2
<1>9. PICK t : t = IF Accepts(n, v) THEN Append(s, Letter(n, v)) ELSE s
  OBVIOUS
<1>10. t \in Seq(Nat) /\ t \in Seq(0..(n - 1)) /\ Len(t) \in Nat /\ Len(t) <= length
  <2>1. PICK c \in 0..(n - 1) : c = Letter(n, v)
    BY <1>8, Division DEF Letter
  <2>2. c \in Nat
    BY <2>1
  <2>3. t = Append(s, c) \/ t = s
    BY <1>9, <2>1
  <2>4. Append(s, c) \in Seq(Nat) /\ Append(s, c) \in Seq(0..(n - 1)) /\ Len(Append(s, c)) = Len(s) + 1
    BY <1>5, <2>2
  <2>5. CASE t = Append(s, c)
    <3>1. Len(t) = Len(s) + 1 /\ Len(s) + 1 \in Nat /\ Len(s) + 1 <= length
      BY <1>5, <2>4, <2>5
    <3> QED BY <2>4, <2>5, <3>1
  <2>6. CASE t = s
    <3>1. Len(s) <= length
      BY <1>5
    <3> QED BY <1>5, <2>6, <3>1
  <2> QED BY <2>3, <2>5, <2>6
<1>11. PICK p \in {"loop", "done"} : p = IF Len(t) = length THEN "done" ELSE "loop"
  OBVIOUS
<1>12. dp' = [dp EXCEPT !.i = k + 1, !.from = g, !.result = t, !.pc = p]
  BY <1>7, <1>9, <1>11
<1>13. /\ dp' \in DeriveCalls /\ dp'.pc = p /\ dp'.n = n /\ dp'.length = length
       /\ dp'.i = k + 1 /\ dp'.result = t
  <2>1. k + 1 \in Nat
    OBVIOUS
  <2> QED BY <1>1, <1>l, <1>2, <1>10, <1>12, <2>1 DEF DeriveCalls
<1>14. stream' \in WordStreams(length)
  <2>1. PICK h \in [0..(length - 1) -> Nat \cup {Unread}] : h = [stream[g] EXCEPT ![k] = v]
    BY <1>6, <1>8 DEF WordStreams
  <2>2. stream' = [stream EXCEPT ![g] = h]
    BY <1>6, <1>7, <2>1 DEF WordStreams
  <2> QED BY <1>6, <2>1, <2>2 DEF WordStreams
<1>15. k + 1 \in 0..length
  OBVIOUS
<1>16. p = "loop" => Len(t) < length
  BY <1>10, <1>11
<1> QED BY <1>10, <1>13, <1>14, <1>15, <1>16 DEF DpInv

(* Every step of the password derivation keeps the invariant.              *)
LEMMA DpStep == DpInv /\ [DeriveNext]_deriveVars => DpInv'
<1> SUFFICES ASSUME DpInv, [DeriveNext]_deriveVars PROVE DpInv'
  OBVIOUS
<1>1. CASE UNCHANGED deriveVars
  BY <1>1 DEF deriveVars, dpVars, DpInv
<1>2. CASE newDetermPasswordCmd
  BY <1>2, DeriveStartStep DEF newDetermPasswordCmd
<1>3. CASE DeriveWord
  BY <1>3, DeriveWordStep
<1> QED BY <1>1, <1>2, <1>3 DEF DeriveNext

(* The password derivation keeps its invariant.                            *)
THEOREM DpInductive == DeriveSpec => []DpInv
BY DpInitial, DpStep, PTL DEF DeriveSpec

(* For every alphabet and every width of the words, the code's 32 bits     *)
(* among them, the rejection sampling of DerivePassword selects all        *)
(* letters with equally many words, but for one word more for the first    *)
(* letter.  By counting, where TLC can only enumerate small widths.        *)
THEOREM SamplingIsFair == DeriveSpec => []FairButForOneWord
<1>1. DpInv => FairButForOneWord
  <2> SUFFICES ASSUME DpInv, dp.pc = "loop" PROVE FairButForOneWord
    BY DEF FairButForOneWord
  <2>1. dp.n \in 1..88
    BY LoopCall DEF DeriveCalls
  <2> QED BY <2>1, FairSampling DEF FairButForOneWord
<1> QED BY <1>1, DpInductive, PTL

-----------------------------------------------------------------------------
(* Deriving a key: KeySpec of Derivation.                                  *)

(* A run of the key command.                                               *)
KeyCalls ==
    [pc : {"make", "private", "public"}, type : KeyTypes, seed : Seeds \cup {NoSeed},
     out : BOOLEAN, pubOut : BOOLEAN, block : Nat, key : Keys \cup {NoFile}]

(* The types of the key command.                                           *)
KeyTyped ==
    /\ kc \in KeyCalls \cup {NoCall}
    /\ priv \in Keys \cup {NoFile, Broken} /\ pub \in Keys \cup {NoFile, Broken}
    /\ saidPriv \in Reports \cup {NoReport} /\ saidPub \in Reports \cup {NoReport}
    /\ keyRuns \in 0..MaxKeyRuns /\ rejected \in [Seeds -> Nat]

(* A derived key of a type that does not depend on the runtime comes from  *)
(* one place of the stream of its seed.                                    *)
FromTheStream(k) ==
    k.seed # NoSeed /\ k.type \in Stable => k.at = IF k.type = "p256" THEN rejected[k.seed] ELSE 0

AllFromTheStream ==
    /\ FromTheStream(priv) /\ FromTheStream(pub)
    /\ kc.pc # "idle" => FromTheStream(kc.key)

(* The key a run has made is the one it was asked for.                     *)
KeyAsAsked ==
    kc.pc \in {"private", "public"} =>
        kc.key \in Keys /\ kc.key.type = kc.type /\ kc.key.seed = kc.seed

(* A file reported written holds a key of the type and the seed reported.  *)
Holds(f, said) ==
    said # NoReport => f \in Keys /\ f.type = said.type /\ f.seed = said.seed

(* The reports are of past runs until the run under way has made its own.  *)
ReportsPast ==
    /\ saidPriv.run <= keyRuns /\ saidPub.run <= keyRuns
    /\ kc.pc \in {"make", "private"} => saidPriv.run < keyRuns
    /\ kc.pc # "idle" => saidPub.run < keyRuns

(* Files reported by one run hold its key.                                 *)
RunsPair ==
    /\ kc.pc = "public" /\ saidPriv.run = keyRuns => priv = kc.key
    /\ saidPriv # NoReport /\ saidPub # NoReport /\ saidPriv.run = saidPub.run => pub = priv

(* The inductive invariant of the key command.                             *)
KeyInv ==
    /\ KeyTyped /\ AllFromTheStream /\ KeyAsAsked
    /\ Holds(priv, saidPriv) /\ Holds(pub, saidPub)
    /\ ReportsPast /\ RunsPair

(* A file that is not there, or broken, is no key.                         *)
LEMMA Placeholders ==
    /\ FromTheStream(NoFile) /\ FromTheStream(Broken)
    /\ NoCall.pc = "idle" /\ NoReport.run = 0
BY DEF FromTheStream, NoFile, Broken, NoCall, NoReport

(* A run under way.                                                        *)
LEMMA CallFields ==
    ASSUME KeyTyped, kc.pc # "idle" PROVE kc \in KeyCalls
BY Placeholders DEF KeyTyped

(* The numbers of the runs.                                                *)
LEMMA RunNumbers ==
    ASSUME KeyTyped PROVE keyRuns \in Nat /\ saidPriv.run \in Nat /\ saidPub.run \in Nat
BY Placeholders, DeriveAssumption DEF KeyTyped, Reports

(* Two files that are not there.                                           *)
LEMMA KeyInitial == DeriveInit => KeyInv
<1> SUFFICES ASSUME DeriveInit PROVE KeyInv
  OBVIOUS
<1>1. /\ kc = NoCall /\ priv = NoFile /\ pub = NoFile /\ keyRuns = 0
      /\ saidPriv = NoReport /\ saidPub = NoReport /\ rejected \in [Seeds -> 0..MaxBlocks]
  BY DEF DeriveInit
<1>2. KeyTyped
  <2>1. rejected \in [Seeds -> Nat]
    BY <1>1, DeriveAssumption
  <2> QED BY <1>1, <2>1, DeriveAssumption DEF KeyTyped
<1>3. AllFromTheStream /\ KeyAsAsked
  BY <1>1, Placeholders DEF AllFromTheStream, KeyAsAsked
<1>4. Holds(priv, saidPriv) /\ Holds(pub, saidPub) /\ ReportsPast /\ RunsPair
  BY <1>1, Placeholders DEF Holds, ReportsPast, RunsPair
<1> QED BY <1>2, <1>3, <1>4 DEF KeyInv

(* The command begins.                                                     *)
LEMMA KeyStartStep ==
    ASSUME KeyInv, NEW t \in KeyTypes, NEW d \in BOOLEAN, NEW s \in Seeds \cup {NoSeed},
           NEW o \in BOOLEAN, NEW p \in BOOLEAN, KeyStart(t, d, s, o, p)
    PROVE  KeyInv'
<1>s. PICK s2 \in Seeds \cup {NoSeed} : s2 = IF d THEN s ELSE NoSeed
  OBVIOUS
<1>1. PICK c : c = [pc |-> "make", type |-> t, seed |-> s2, out |-> o,
                    pubOut |-> p, block |-> 0, key |-> NoFile]
  OBVIOUS
<1>2. c \in KeyCalls /\ c.key = NoFile /\ c.pc = "make"
  BY <1>1 DEF KeyCalls
<1>3. /\ kc' = NoCall \/ kc' = c
      /\ keyRuns' = keyRuns + 1 /\ keyRuns < MaxKeyRuns
      /\ UNCHANGED <<rejected, priv, pub, saidPriv, saidPub>>
  BY <1>s, <1>1 DEF KeyStart
<1>4. KeyTyped'
  BY <1>2, <1>3, DeriveAssumption DEF KeyInv, KeyTyped
<1>5. AllFromTheStream'
  BY <1>2, <1>3, Placeholders DEF KeyInv, AllFromTheStream, FromTheStream, NoFile
<1>6. KeyAsAsked' /\ Holds(priv, saidPriv)' /\ Holds(pub, saidPub)'
  BY <1>2, <1>3, Placeholders DEF KeyInv, KeyAsAsked, Holds
<1>7. keyRuns \in Nat /\ saidPriv.run \in Nat /\ saidPub.run \in Nat
  BY RunNumbers DEF KeyInv
<1>8. ReportsPast' /\ RunsPair'
  BY <1>2, <1>3, <1>7, Placeholders DEF KeyInv, ReportsPast, RunsPair
<1> QED BY <1>4, <1>5, <1>6, <1>8 DEF KeyInv

(* The next block, after one that is no P-256 scalar.                      *)
LEMMA KeyNextBlockStep == ASSUME KeyInv, KeyNextBlock PROVE KeyInv'
<1>1. kc \in KeyCalls
  BY CallFields DEF KeyNextBlock, KeyInv
<1>2. PICK c : c = [kc EXCEPT !.block = kc.block + 1]
  OBVIOUS
<1>3. c \in KeyCalls /\ c.key = kc.key /\ c.pc = kc.pc
  BY <1>1, <1>2 DEF KeyCalls
<1>4. /\ (kc' = c \/ kc' = NoCall) /\ kc.pc = "make"
      /\ UNCHANGED <<rejected, priv, pub, saidPriv, saidPub, keyRuns>>
  BY <1>2 DEF KeyNextBlock
<1>5. KeyTyped'
  BY <1>3, <1>4 DEF KeyInv, KeyTyped
<1>6. AllFromTheStream'
  BY <1>3, <1>4, Placeholders DEF KeyInv, AllFromTheStream, FromTheStream
<1>7. KeyAsAsked' /\ Holds(priv, saidPriv)' /\ Holds(pub, saidPub)' /\ ReportsPast' /\ RunsPair'
  BY <1>3, <1>4, Placeholders DEF KeyInv, KeyAsAsked, Holds, ReportsPast, RunsPair
<1> QED BY <1>5, <1>6, <1>7 DEF KeyInv

(* The key is made.                                                        *)
LEMMA KeyMakeStep == ASSUME KeyInv, KeyMake PROVE KeyInv'
<1>1. /\ kc \in KeyCalls /\ kc.type \in KeyTypes /\ kc.seed \in Seeds \cup {NoSeed}
      /\ keyRuns \in Nat /\ rejected \in [Seeds -> Nat] /\ kc.pc = "make"
  <2>1. kc \in KeyCalls
    BY CallFields DEF KeyMake, KeyInv
  <2> QED BY <2>1, RunNumbers DEF KeyInv, KeyTyped, KeyCalls, KeyMake
<1>2. UNCHANGED <<rejected, priv, pub, saidPriv, saidPub, keyRuns>>
  BY DEF KeyMake
<1>3. CASE Known(kc.type, Derives)
  <2>1. PICK k : /\ k \in IF Derives THEN DeriveKeyFromMaster(kc.type, kc.seed) ELSE GenerateKey(kc.type)
                 /\ kc' = [kc EXCEPT !.pc = "private", !.key = k]
    BY <1>3 DEF KeyMake
  <2>2. k \in Keys /\ FromTheStream(k) /\ k.type = kc.type /\ k.seed = kc.seed
    <3>1. CASE Derives
      <4>1. kc.seed \in Seeds /\ rejected[kc.seed] \in Nat
        BY <1>1, <3>1 DEF Derives
      <4>2. PICK n \in Nat : /\ n \in IF kc.type \in Rsa THEN {0, keyRuns}
                                      ELSE IF kc.type = "p256" THEN {rejected[kc.seed]} ELSE {0}
                             /\ k = [type |-> kc.type, seed |-> kc.seed, at |-> n]
        BY <1>1, <2>1, <3>1, <4>1 DEF DeriveKeyFromMaster
      <4> QED BY <1>1, <4>1, <4>2 DEF Keys, FromTheStream, Stable, Rsa
    <3>2. CASE ~Derives
      <4>1. k = [type |-> kc.type, seed |-> NoSeed, at |-> keyRuns] /\ kc.seed = NoSeed
        BY <2>1, <3>2 DEF GenerateKey, Derives
      <4> QED BY <1>1, <4>1 DEF Keys, FromTheStream
    <3> QED BY <3>1, <3>2
  <2>3. kc' \in KeyCalls /\ kc'.key = k /\ kc'.pc = "private" /\ kc'.type = kc.type /\ kc'.seed = kc.seed
    BY <1>1, <2>1, <2>2 DEF KeyCalls
  <2>4. KeyTyped'
    BY <1>2, <2>3 DEF KeyInv, KeyTyped
  <2>5. AllFromTheStream'
    BY <1>2, <2>2, <2>3 DEF KeyInv, AllFromTheStream, FromTheStream
  <2>6. KeyAsAsked' /\ Holds(priv, saidPriv)' /\ Holds(pub, saidPub)' /\ ReportsPast' /\ RunsPair'
    BY <1>1, <1>2, <2>2, <2>3 DEF KeyInv, KeyAsAsked, Holds, ReportsPast, RunsPair
  <2> QED BY <2>4, <2>5, <2>6 DEF KeyInv
<1>4. CASE ~Known(kc.type, Derives)
  <2>1. kc' = NoCall
    BY <1>4 DEF KeyMake
  <2>2. KeyTyped' /\ AllFromTheStream'
    BY <1>2, <2>1, Placeholders DEF KeyInv, KeyTyped, AllFromTheStream, FromTheStream
  <2>3. KeyAsAsked' /\ Holds(priv, saidPriv)' /\ Holds(pub, saidPub)' /\ ReportsPast' /\ RunsPair'
    BY <1>2, <2>1, Placeholders DEF KeyInv, KeyAsAsked, Holds, ReportsPast, RunsPair
  <2> QED BY <2>2, <2>3 DEF KeyInv
<1> QED BY <1>3, <1>4

(* What is left in a file, and what is said of it, after a write.          *)
LEMMA WrittenIs ==
    ASSUME KeyInv, kc.pc \in {"private", "public"}, NEW old \in Keys \cup {NoFile, Broken},
           FromTheStream(old), NEW ok \in BOOLEAN, NEW f \in Written(old, kc.key, ok)
    PROVE  /\ f \in Keys \cup {NoFile, Broken} /\ FromTheStream(f)
           /\ Report(ok) \in Reports \cup {NoReport} /\ Holds(f, Report(ok))
           /\ Report(ok) # NoReport => f = kc.key /\ Report(ok).run = keyRuns
           /\ Report(ok).run <= keyRuns
<1>1. /\ kc \in KeyCalls /\ kc.key \in Keys /\ FromTheStream(kc.key)
      /\ kc.key.type = kc.type /\ kc.key.seed = kc.seed /\ keyRuns \in Nat
  BY CallFields, RunNumbers DEF KeyInv, KeyAsAsked, AllFromTheStream
<1>2. PICK r : r = [run |-> keyRuns, type |-> kc.type, seed |-> kc.seed]
  OBVIOUS
<1>3. r \in Reports /\ r.run = keyRuns /\ r.type = kc.type /\ r.seed = kc.seed
  BY <1>1, <1>2 DEF Reports, KeyCalls
<1>4. CASE ok
  <2>1. f = kc.key /\ Report(ok) = r
    BY <1>2, <1>4 DEF Written, Report
  <2> QED BY <1>1, <1>3, <2>1 DEF Holds
<1>5. CASE ~ok
  <2>1. f \in {old, Broken} /\ Report(ok) = NoReport
    BY <1>5 DEF Written, Report
  <2> QED BY <1>1, <2>1, Placeholders DEF Holds
<1> QED BY <1>4, <1>5

(* The private key is written, or printed.                                 *)
LEMMA WritePrivateStep ==
    ASSUME KeyInv, NEW ok \in BOOLEAN, KeyWritePrivate(ok) PROVE KeyInv'
<1>1. kc.pc = "private" /\ kc \in KeyCalls /\ UNCHANGED <<rejected, pub, saidPub, keyRuns>>
  BY CallFields DEF KeyWritePrivate, KeyInv
<1>2. PICK c : c = [kc EXCEPT !.pc = "public"]
  OBVIOUS
<1>3. /\ c \in KeyCalls /\ c.key = kc.key /\ c.pc = "public" /\ c.type = kc.type /\ c.seed = kc.seed
  BY <1>1, <1>2 DEF KeyCalls
<1>4. kc' = NoCall \/ kc' = c
  BY <1>2 DEF KeyWritePrivate
<1>5. keyRuns \in Nat /\ saidPriv.run \in Nat /\ saidPub.run \in Nat
  BY RunNumbers DEF KeyInv
<1>6. /\ priv' \in Keys \cup {NoFile, Broken} /\ FromTheStream(priv')
      /\ saidPriv' \in Reports \cup {NoReport} /\ Holds(priv', saidPriv')
      /\ saidPriv'.run <= keyRuns
      /\ saidPriv'.run = keyRuns => priv' = kc.key
  <2>1. CASE kc.out
    <3>1. priv' \in Written(priv, kc.key, ok) /\ saidPriv' = Report(ok)
      BY <2>1 DEF KeyWritePrivate
    <3>2. priv \in Keys \cup {NoFile, Broken} /\ FromTheStream(priv)
      BY DEF KeyInv, KeyTyped, AllFromTheStream
    <3>3. /\ priv' \in Keys \cup {NoFile, Broken} /\ FromTheStream(priv')
          /\ Report(ok) \in Reports \cup {NoReport} /\ Holds(priv', Report(ok))
          /\ Report(ok) # NoReport => priv' = kc.key
          /\ Report(ok).run <= keyRuns
      BY <1>1, <3>1, <3>2, WrittenIs
    <3>4. keyRuns # 0
      BY <1>1, <1>5 DEF KeyInv, ReportsPast
    <3> QED BY <3>1, <3>3, <3>4, Placeholders
  <2>2. CASE ~kc.out
    <3>1. UNCHANGED <<priv, saidPriv>>
      BY <2>2 DEF KeyWritePrivate
    <3> QED BY <1>1, <1>5, <3>1 DEF KeyInv, KeyTyped, AllFromTheStream, ReportsPast
  <2> QED BY <2>1, <2>2
<1>7. KeyTyped'
  BY <1>1, <1>3, <1>4, <1>6 DEF KeyInv, KeyTyped
<1>8. AllFromTheStream'
  BY <1>1, <1>3, <1>4, <1>6, Placeholders DEF KeyInv, AllFromTheStream, FromTheStream
<1>9. KeyAsAsked' /\ Holds(priv, saidPriv)' /\ Holds(pub, saidPub)'
  BY <1>1, <1>3, <1>4, <1>6, Placeholders DEF KeyInv, KeyAsAsked, Holds
<1>10. ReportsPast'
  BY <1>1, <1>3, <1>4, <1>5, <1>6, Placeholders DEF KeyInv, ReportsPast
<1>11. RunsPair'
  <2>1. (kc.pc = "public" /\ saidPriv.run = keyRuns => priv = kc.key)'
    BY <1>1, <1>3, <1>4, <1>6, Placeholders
  <2>2. CASE saidPriv'.run = keyRuns
    <3>1. saidPub'.run < keyRuns
      BY <1>1 DEF KeyInv, ReportsPast
    <3> QED BY <1>1, <1>5, <2>1, <2>2, <3>1 DEF RunsPair
  <2>3. CASE saidPriv'.run # keyRuns
    <3>1. saidPriv' = NoReport \/ UNCHANGED <<priv, saidPriv>>
      BY <2>3 DEF KeyWritePrivate, Report
    <3> QED BY <1>1, <2>1, <3>1 DEF KeyInv, RunsPair
  <2> QED BY <2>2, <2>3
<1> QED BY <1>7, <1>8, <1>9, <1>10, <1>11 DEF KeyInv

(* The public key is written, printed, or there is none.                   *)
LEMMA WritePublicStep ==
    ASSUME KeyInv, NEW ok \in BOOLEAN, KeyWritePublic(ok) PROVE KeyInv'
<1>1. /\ kc.pc = "public" /\ kc' = NoCall /\ kc'.pc = "idle"
      /\ UNCHANGED <<rejected, priv, saidPriv, keyRuns>>
  BY Placeholders DEF KeyWritePublic
<1>2. keyRuns \in Nat /\ saidPriv.run \in Nat /\ saidPub.run \in Nat
  BY RunNumbers DEF KeyInv
<1>3. /\ pub' \in Keys \cup {NoFile, Broken} /\ FromTheStream(pub')
      /\ saidPub' \in Reports \cup {NoReport} /\ Holds(pub', saidPub')
      /\ saidPub'.run <= keyRuns
      /\ saidPriv # NoReport /\ saidPub' # NoReport /\ saidPriv.run = saidPub'.run => pub' = priv
  <2>1. CASE kc.type # "raw" /\ kc.pubOut
    <3>1. pub' \in Written(pub, kc.key, ok) /\ saidPub' = Report(ok)
      BY <2>1 DEF KeyWritePublic
    <3>2. pub \in Keys \cup {NoFile, Broken} /\ FromTheStream(pub)
      BY DEF KeyInv, KeyTyped, AllFromTheStream
    <3>3. /\ pub' \in Keys \cup {NoFile, Broken} /\ FromTheStream(pub')
          /\ Report(ok) \in Reports \cup {NoReport} /\ Holds(pub', Report(ok))
          /\ Report(ok) # NoReport => pub' = kc.key /\ Report(ok).run = keyRuns
          /\ Report(ok).run <= keyRuns
      BY <1>1, <3>1, <3>2, WrittenIs
    <3>4. saidPriv.run = keyRuns => priv = kc.key
      BY <1>1 DEF KeyInv, RunsPair
    <3> QED BY <3>1, <3>3, <3>4
  <2>2. CASE ~(kc.type # "raw" /\ kc.pubOut)
    <3>1. UNCHANGED <<pub, saidPub>>
      BY <2>2 DEF KeyWritePublic
    <3> QED BY <1>2, <3>1 DEF KeyInv, KeyTyped, AllFromTheStream, ReportsPast, RunsPair
  <2> QED BY <2>1, <2>2
<1>4. KeyTyped'
  BY <1>1, <1>3 DEF KeyInv, KeyTyped
<1>5. AllFromTheStream' /\ KeyAsAsked'
  BY <1>1, <1>3 DEF KeyInv, AllFromTheStream, FromTheStream, KeyAsAsked
<1>6. Holds(priv, saidPriv)' /\ Holds(pub, saidPub)' /\ ReportsPast' /\ RunsPair'
  BY <1>1, <1>2, <1>3 DEF KeyInv, Holds, ReportsPast, RunsPair
<1> QED BY <1>4, <1>5, <1>6 DEF KeyInv

(* Nothing happens to the key command.                                     *)
LEMMA KeyStutter == KeyInv /\ UNCHANGED kcVars => KeyInv'
<1> SUFFICES ASSUME KeyInv, UNCHANGED kcVars PROVE KeyInv'
  OBVIOUS
<1>1. UNCHANGED <<kc, rejected, priv, pub, saidPriv, saidPub, keyRuns>>
  BY DEF kcVars
<1>2. KeyTyped' /\ AllFromTheStream' /\ KeyAsAsked'
  BY <1>1 DEF KeyInv, KeyTyped, AllFromTheStream, FromTheStream, KeyAsAsked
<1>3. Holds(priv, saidPriv)' /\ Holds(pub, saidPub)' /\ ReportsPast' /\ RunsPair'
  BY <1>1 DEF KeyInv, Holds, ReportsPast, RunsPair
<1> QED BY <1>2, <1>3 DEF KeyInv

(* Every step of the key command keeps the invariant.                      *)
LEMMA KeyCommandStep == KeyInv /\ [KeyNext]_deriveVars => KeyInv'
<1> SUFFICES ASSUME KeyInv, [KeyNext]_deriveVars PROVE KeyInv'
  OBVIOUS
<1>1. CASE UNCHANGED deriveVars
  BY <1>1, KeyStutter DEF deriveVars
<1>2. CASE KeyNext
  <2>1. CASE KeyNextBlock \/ KeyMake
    BY <2>1, KeyNextBlockStep, KeyMakeStep
  <2>2. CASE \E ok \in BOOLEAN : KeyWritePrivate(ok) \/ KeyWritePublic(ok)
    BY <2>2, WritePrivateStep, WritePublicStep
  <2>3. CASE \E t \in KeyTypes, s \in Seeds \cup {NoSeed}, d, o, p \in BOOLEAN : KeyStart(t, d, s, o, p)
    BY <2>3, KeyStartStep
  <2> QED BY <1>2, <2>1, <2>2, <2>3 DEF KeyNext
<1> QED BY <1>1, <1>2

(* The key command keeps its invariant.                                    *)
THEOREM KeyInductive == KeySpec => []KeyInv
BY KeyInitial, KeyCommandStep, PTL DEF KeySpec

(* Whatever runs of generate key failed between the two files, for         *)
(* whichever seeds and types: two files last reported written by one run,  *)
(* or by different runs for the same seed and a stable type, hold one key. *)
THEOREM ReportedPairs == KeySpec => []ReportedPairMatches
<1>1. KeyInv => ReportedPairMatches
  <2> SUFFICES ASSUME KeyInv, ToldOfOneKey PROVE priv \in Keys /\ pub = priv
    BY DEF ReportedPairMatches
  <2>1. /\ priv \in Keys /\ priv.type = saidPriv.type /\ priv.seed = saidPriv.seed
        /\ pub \in Keys /\ pub.type = saidPub.type /\ pub.seed = saidPub.seed
    BY DEF KeyInv, Holds, ToldOfOneKey
  <2>2. CASE saidPriv.run = saidPub.run
    BY <2>1, <2>2 DEF KeyInv, RunsPair, ToldOfOneKey
  <2>3. CASE saidPriv.run # saidPub.run
    <3>1. /\ priv.type = pub.type /\ priv.type \in Stable
          /\ priv.seed = pub.seed /\ priv.seed # NoSeed
      BY <2>1, <2>3 DEF ToldOfOneKey
    <3>2. priv.at = pub.at
      BY <3>1 DEF KeyInv, AllFromTheStream, FromTheStream
    <3> QED BY <2>1, <3>1, <3>2 DEF Keys
  <2> QED BY <2>2, <2>3
<1> QED BY <1>1, KeyInductive, PTL

(* The two derivations share no variable, so each keeps the other's        *)
(* invariant.                                                              *)
LEMMA DerivationsApart ==
    /\ DpInv /\ KeyInv /\ [DeriveNext]_deriveVars => DpInv' /\ KeyInv'
    /\ DpInv /\ KeyInv /\ [KeyNext]_deriveVars => DpInv' /\ KeyInv'
<1>1. ASSUME KeyInv, [DeriveNext]_deriveVars PROVE KeyInv'
  <2>1. UNCHANGED kcVars
    BY <1>1 DEF DeriveNext, newDetermPasswordCmd, DeriveStart, DeriveWord, deriveVars
  <2> QED BY <1>1, <2>1, KeyStutter
<1>2. ASSUME DpInv, [KeyNext]_deriveVars PROVE DpInv'
  <2>1. UNCHANGED dpVars
    BY <1>2 DEF KeyNext, KeyStart, KeyNextBlock, KeyMake, KeyWritePrivate, KeyWritePublic, deriveVars
  <2> QED BY <1>2, <2>1 DEF dpVars, DpInv
<1> QED BY <1>1, <1>2, DpStep, KeyCommandStep

(* The types of both derivations: the loop never reads past its stream and *)
(* every character is one of the alphabet.                                 *)
LEMMA DerivationTypes == DpInv /\ KeyInv => DeriveTypeOK
<1> SUFFICES ASSUME DpInv, KeyInv PROVE DeriveTypeOK
  OBVIOUS
<1>1. dp.pc \in {"idle", "error", "loop", "done"}
  BY DEF DpInv, DeriveCalls, NoCall
<1>2. kc.pc \in {"idle", "make", "private", "public"}
  BY DEF KeyInv, KeyTyped, KeyCalls, NoCall
<1>3. ASSUME dp.pc \in {"loop", "done"}, NEW b \in {"base", "refill"}
      PROVE  DOMAIN stream[b] = 0..(dp.length - 1)
  BY <1>3 DEF DpInv, WordStreams
<1>4. /\ {priv, pub} \subseteq Keys \cup {NoFile, Broken} /\ keyRuns \in 0..MaxKeyRuns
      /\ {saidPriv, saidPub} \subseteq Reports \cup {NoReport}
  BY DEF KeyInv, KeyTyped
<1> QED BY <1>1, <1>2, <1>3, <1>4 DEF DpInv, DeriveTypeOK

-----------------------------------------------------------------------------
(* The composition of MCParts, in which each behaviour runs one part.      *)

(* The invariants of all the parts.                                        *)
PartsInv ==
    PageInv /\ CredInv /\ LimInv /\ LifeInv /\ SInv /\ FilesInv /\ DpInv /\ KeyInv

(* A part begins in one of its initial states or at rest.                  *)
LEMMA PartsInitial == MCInit => PartsInv
<1> SUFFICES ASSUME MCInit PROVE PartsInv
  OBVIOUS
<1>1. Rows({})
  BY FS_EmptySet DEF Rows
<1>2. PageInv
  <2>1. CASE Init
    BY <2>1, PagingInitial
  <2>2. CASE PagingAtRest
    <3>1. rows = {} /\ seen = {} /\ cursor = NoCursor /\ pages = 1 /\ done = TRUE /\ writes = 0
      BY <2>2, Zenon DEF PagingAtRest
    <3>2. MaxWrites \in Nat
      BY Zenon, PagingAssumption
    <3> QED BY <1>1, <3>1, <3>2, StoreNumbers DEF PageInv
  <2> QED BY <2>1, <2>2 DEF MCInit
<1>3. CredInv
  <2>1. CASE CredInit
    BY <2>1, CredInitial
  <2>2. CASE CredAtRest
    <3>1. items = {} /\ run = NoRun /\ edits = 0 /\ at = {}
      BY <2>2 DEF CredAtRest
    <3>2. NoRun \in Runs /\ NoRun.pc = "idle"
      BY StoreNumbers DEF NoRun, Runs
    <3>3. edits \in 0..MaxEdits
      BY <3>1, CredAssumption
    <3>4. NameMeansOne
      BY <3>1 DEF NameMeansOne, NameIsUnique, CountIsTrue, NoRun
    <3> QED BY <1>1, <3>1, <3>2, <3>3, <3>4 DEF CredInv
  <2> QED BY <2>1, <2>2 DEF MCInit
<1>4. LimInv /\ LifeInv /\ SInv /\ FilesInv
  BY LimInitial, LifeInitial, InitSInv, FilesInitial DEF MCInit
<1>5. DpInv /\ KeyInv
  BY DpInitial, KeyInitial DEF MCInit
<1> QED BY <1>2, <1>3, <1>4, <1>5 DEF PartsInv

(* A step is a step of one part, and leaves the others alone.              *)
LEMMA PartsStep == PartsInv /\ [MCNext]_partVars => PartsInv'
<1> SUFFICES ASSUME PartsInv, [MCNext]_partVars PROVE PartsInv'
  OBVIOUS
<1>1. /\ [Next]_vars /\ [CredNext]_credVars /\ [LimNext]_limVars /\ [LifeNext]_lifeVars
      /\ [SessNext]_sessVars /\ [FilesNext]_fileVars
      /\ [DeriveNext]_deriveVars \/ [KeyNext]_deriveVars
  BY Zenon DEF MCNext, partVars
<1> QED
  BY <1>1, PagingStep, CredStep, LimStep, LifeStep, NextKeeps, FilesStep, DerivationsApart DEF PartsInv

(* In every part the types are kept: with the pages of a vault bounded by  *)
(* its ids, a bucket by Burst, a derived password by its length, and calls *)
(* served with an open pool only.                                          *)
THEOREM PartsTypes == MCSpec => []PartsTypeOK
<1>1. PartsInv => PartsTypeOK
  <2> SUFFICES ASSUME PartsInv PROVE PartsTypeOK
    OBVIOUS
  <2> QED
    BY PageTypes, CredTypes, LimTypes, LifeTypes, SessionTypes, FilesTypes, DerivationTypes
       DEF PartsInv, PartsTypeOK
<1> QED BY <1>1, PartsInitial, PartsStep, PTL DEF MCSpec

=============================================================================
