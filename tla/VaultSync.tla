----------------------------- MODULE VaultSync -----------------------------
(***************************************************************************)
(* The vault and its sync stream: mutations (service/vault.go over         *)
(* storage/postgres/vault.go) commit to the table and then notify the      *)
(* SyncService; a stream (handler/sync.go, Subscribe) lists the table,     *)
(* sends what its client lacks, registers a channel and forwards its       *)
(* events.  One user; every request and every stream is a goroutine.       *)
(*                                                                         *)
(* A member of Notes is one mutation request with the notify call it makes *)
(* and a member of Chans one stream with the channel it registers.         *)
(***************************************************************************)
EXTENDS SyncService, VaultStore

CONSTANT CatchUpLimit       \* the limit Subscribe passes to List (1000)

ASSUME CatchUpAssumption == CatchUpLimit \in Nat

VARIABLES
    rows,       \* vault_items of the user
    top,        \* the last version each id has had, 0 before its creation
    clock,      \* now(), counting commits
    evt,        \* the event of a committed mutation, <<>> before
    hpc,        \* stream: "idle" | "listed" | "caught" | "ended"
    known,      \* stream: known_versions of the request, 0 if not listed
    pend,       \* stream: the listed rows its client lacks
    streamed,   \* stream: the events sent to the client, in order
    \* history, read by the properties only
    unlisted,   \* stream: the rows its List left out
    gap,        \* stream: mutations committed between List and Subscribe
    liveAt      \* mutation: streams registered when it committed

dbVars     == <<rows, top, clock, evt, liveAt>>
streamVars == <<hpc, known, pend, streamed, unlisted>>
allVars    == <<vars, dbVars, streamVars, gap>>

Upsert(i, v) == [kind |-> "upsert", item |-> i, ver |-> v]
Delete(i)    == [kind |-> "delete", item |-> i, ver |-> 0]

VSInit ==
    /\ Init
    /\ rows = {}
    /\ top = [i \in ItemIds |-> 0]
    /\ clock = 0
    /\ evt = [n \in Notes |-> <<>>]
    /\ hpc = [c \in Chans |-> "idle"]
    /\ known = [c \in Chans |-> [i \in ItemIds |-> 0]]
    /\ pend = [c \in Chans |-> {}]
    /\ streamed = [c \in Chans |-> <<>>]
    /\ unlisted = [c \in Chans |-> {}]
    /\ gap = [c \in Chans |-> {}]
    /\ liveAt = [n \in Notes |-> {}]

----------------------------------------------------------------------------
(* The commit of mutation n; its notify follows as steps of its own.       *)
Committed(n, e) ==
    /\ ~panicked
    /\ evt[n] = <<>>
    /\ evt' = [evt EXCEPT ![n] = e]
    /\ clock' = clock + 1
    /\ liveAt' = [liveAt EXCEPT ![n] = {c \in Open : lock # c}]
    /\ gap' = [c \in Chans |-> IF hpc[c] \in {"listed", "caught"} /\ chan[c] = "none"
                               THEN gap[c] \cup {n} ELSE gap[c]]
    /\ UNCHANGED <<vars, streamVars>>

VaultCreate(n) ==
    \E i \in ItemIds, t \in ItemTypes :
        /\ top[i] = 0
        /\ rows' = Inserted(rows, i, t, clock + 1)
        /\ top' = [top EXCEPT ![i] = 1]
        /\ Committed(n, Upsert(i, 1))

(* An update or deletion of a row that is not there is answered NotFound   *)
(* and changes nothing.                                                    *)
VaultUpdate(n) ==
    \E i \in Ids(rows) :
        /\ rows' = Updated(rows, i, clock + 1)
        /\ top' = [top EXCEPT ![i] = RowOf(rows', i).ver]
        /\ Committed(n, Upsert(i, RowOf(rows', i).ver))

VaultDelete(n) ==
    \E i \in Ids(rows) :
        /\ rows' = Deleted(rows, i)
        /\ UNCHANGED top
        /\ Committed(n, Delete(i))

(* Mutant: deletions are not announced.                                    *)
VaultNotify_UpsertsOnly(n) ==
    /\ evt[n] # <<>>
    /\ evt[n].kind = "upsert"
    /\ Notify(n)
    /\ UNCHANGED <<dbVars, streamVars, gap>>

VaultNotify(n) ==
    /\ evt[n] # <<>>
    /\ Notify(n)
    /\ UNCHANGED <<dbVars, streamVars, gap>>

----------------------------------------------------------------------------
(* Subscribe of handler/sync.go.  The client may know any version an item  *)
(* has had.                                                                *)

(* Mutant: a version is only compared for items the client does not know.  *)
Lacks_OnlyUnknown(k, r) == k[r.id] = 0

Lacks(k, r) == k[r.id] = 0 \/ r.ver > k[r.id]

StreamList(c) ==
    /\ ~panicked
    /\ hpc[c] = "idle"
    /\ \E page \in ListOrPart(rows, [type |-> "", limit |-> CatchUpLimit, cursor |-> NoCursor]) :
       \E k \in [ItemIds -> 0..clock] :
              /\ \A i \in ItemIds : k[i] <= top[i]
              /\ known' = [known EXCEPT ![c] = k]
              /\ pend' = [pend EXCEPT ![c] = {r \in page.items : Lacks(k, r)}]
              /\ unlisted' = [unlisted EXCEPT ![c] = rows \ page.items]
    /\ hpc' = [hpc EXCEPT ![c] = "listed"]
    /\ UNCHANGED <<vars, dbVars, streamed, gap>>

(* The missing items go out one Send after another; nothing else looks at  *)
(* the stream before the last one.                                         *)
StreamSendMissing(c) ==
    /\ ~panicked
    /\ hpc[c] = "listed"
    /\ \E order \in [1..Cardinality(pend[c]) -> pend[c]] :
          /\ {order[k] : k \in DOMAIN order} = pend[c]
          /\ \A j, k \in DOMAIN order : j < k => Precedes(order[j], order[k])
          /\ streamed' = [streamed EXCEPT ![c] =
                 [k \in DOMAIN order |-> Upsert(order[k].id, order[k].ver)]]
    /\ hpc' = [hpc EXCEPT ![c] = "caught"]
    /\ UNCHANGED <<vars, dbVars, known, pend, unlisted, gap>>

(* The client hangs up while it is being caught up: Send fails.            *)
StreamAbort(c) ==
    /\ ~panicked
    /\ hpc[c] = "listed"
    /\ hpc' = [hpc EXCEPT ![c] = "ended"]
    /\ UNCHANGED <<vars, dbVars, known, pend, streamed, unlisted, gap>>

StreamSubscribe(c) ==
    /\ hpc[c] = "caught"
    /\ Subscribe(c)
    /\ UNCHANGED <<dbVars, streamVars, gap>>

StreamForward(c) ==
    /\ Receive(c)
    /\ streamed' = [streamed EXCEPT ![c] = Append(@, evt[log[c][taken[c] + 1]])]
    /\ UNCHANGED <<dbVars, hpc, known, pend, unlisted, gap>>

(* ctx.Done(): the deferred cancel runs.                                   *)
StreamCancel(c) ==
    /\ Cancel(c)
    /\ UNCHANGED <<dbVars, streamVars, gap>>

VSNext ==
    \/ \E n \in Notes : VaultCreate(n) \/ VaultUpdate(n) \/ VaultDelete(n) \/ VaultNotify(n)
    \/ \E c \in Chans : \/ StreamList(c) \/ StreamSendMissing(c) \/ StreamAbort(c)
                        \/ StreamSubscribe(c) \/ StreamForward(c) \/ StreamCancel(c)

VSSpec == VSInit /\ [][VSNext]_allVars

(* A request that has committed announces it and a cleanup that has begun  *)
(* ends.  Nothing is said of the streams: Send waits for a client that     *)
(* does not read.                                                          *)
VSFairSpec ==
    /\ VSSpec
    /\ \A n \in Notes : WF_allVars(VaultNotify(n))
    /\ \A c \in Chans :
          WF_allVars((CancelShift(c) \/ CancelClose(c)) /\ UNCHANGED <<dbVars, streamVars, gap>>)

(* The clients read what is sent to them.                                  *)
ClientsRead == \A c \in Chans : WF_allVars(StreamForward(c))

----------------------------------------------------------------------------
(* A registered stream with nothing left in its channel.                   *)
Quiet(c) == chan[c] = "open" /\ lock # c /\ Buffered(c) = 0

(* The client of stream c has seen version v of item i or a later one.     *)
Told(c, i, v) ==
    \/ known[c][i] >= v
    \/ \E k \in DOMAIN streamed[c] :
          /\ streamed[c][k].kind = "upsert"
          /\ streamed[c][k].item = i
          /\ streamed[c][k].ver >= v

(* The event of n reached c's channel undisturbed.                         *)
Undisturbed(n, c) == npc[n] = "done" /\ ~overlap[n] /\ c \notin full[n]

IsUpsert(n) == evt[n] # <<>> /\ evt[n].kind = "upsert"

(* Two mutations of one item never produce the same version: the number a  *)
(* client compares tells them apart although nothing is locked between the *)
(* client's read and its write.                                            *)
VersionsDistinct ==
    \A n, m \in Notes :
        IsUpsert(n) /\ IsUpsert(m) /\ n # m /\ evt[n].item = evt[m].item
            => evt[n].ver # evt[m].ver

(* What a caught-up stream can miss is exactly what was committed between  *)
(* its List and its Subscribe: every other version of an item that still   *)
(* exists has reached the client, through the list or through the channel, *)
(* unless it is in a row the list left out (for its limit, or for a        *)
(* connection lost half way), the buffer was full or the notify overlapped *)
OnlyTheGapIsLost ==
    \A c \in Chans, n \in Notes :
        /\ Quiet(c)
        /\ IsUpsert(n) /\ Undisturbed(n, c) /\ n \notin gap[c]
        /\ ~\E r \in unlisted[c] : r.id = evt[n].item /\ r.ver >= evt[n].ver
        /\ evt[n].item \in Ids(rows)
        => Told(c, evt[n].item, evt[n].ver)

(* If the clients read, a mutation committed while a stream is registered  *)
(* is sent down that stream, unless the stream ends, its buffer is full    *)
(* when the event arrives, or a cancel overlaps the notify call.           *)
LiveUpdateStreamed ==
    ClientsRead => \A n \in Notes, c \in Chans :
        (c \in liveAt[n]) ~>
            \/ \E k \in 1..taken[c] : log[c][k] = n
            \/ c \in full[n] \/ overlap[n]
            \/ chan[c] = "closed" \/ lock = c \/ panicked

(* "The server immediately streams any missing or updated items, then      *)
(* keeps the stream open for future changes": once everything committed    *)
(* has been announced, undisturbed, a quiet stream has told its client the *)
(* current version of every item.                                          *)
CatchUpMissesNothing ==
    \A c \in Chans :
        /\ Quiet(c) /\ unlisted[c] = {}
        /\ \A n \in Notes : evt[n] # <<>> => Undisturbed(n, c)
        => \A r \in rows : Told(c, r.id, r.ver)
=============================================================================
