---------------------------- MODULE SyncService ----------------------------
(***************************************************************************)
(* internal/server/service/sync.go: the per-user registry of subscriber    *)
(* channels and the broadcast of vault events to it.                       *)
(*                                                                         *)
(* The registry of one user is the Go slice s.subscribers[userID].  The    *)
(* map keeps one slice per user with a backing array of its own, and no    *)
(* operation touches two keys, so one entry is modelled.  A slice is a     *)
(* header (array, len, cap) over a backing array in the heap; append       *)
(* writes in place while len < cap and otherwise copies to a new array of  *)
(* twice the capacity; the removal append(subs[:i], subs[i+1:]...) always  *)
(* writes in place.  notify copies the header under the read lock and      *)
(* walks the array after the lock is released, so the writes of a          *)
(* concurrent Subscribe or cancel are visible to it word by word: this is  *)
(* a data race, and the interleaving of single-word reads and writes below *)
(* is the set of outcomes it has.                                          *)
(***************************************************************************)
EXTENDS Naturals, Sequences, FiniteSets

CONSTANTS
    Chans,      \* the channels, one for each call of Subscribe
    Notes,      \* the events, one for each call of NotifyUpsert/NotifyDelete
    Nil,        \* the zero word of a fresh backing array
    BufCap,     \* capacity of a subscriber channel (32 in the code)
    MaxSubs     \* bound: most subscribers one user has at a time

ASSUME SyncAssumption ==
    /\ BufCap \in Nat \ {0}
    /\ MaxSubs \in Nat
    /\ Nil \notin Chans

VARIABLES
    heap,       \* the backing arrays, in order of allocation
    subs,       \* the slice header s.subscribers[userID]
    lock,       \* holder of s.mu for writing: a channel's cancel, or Nil
    pos,        \* slot the removal under way has still to fill
    chan,       \* state of each channel: "none" | "open" | "closed"
    log,        \* every event ever put into the channel, in order
    taken,      \* how many of them the stream handler has received
    npc,        \* notify: "new" | "range" | "send" | "done"
    snap,       \* notify: the header it copied
    idx,        \* notify: range index
    cur,        \* notify: the channel read from slot idx
    panicked,   \* send on a closed channel: the process is gone
    \* history, read by the properties only
    present,    \* subscribers registered when notify copied the header
    gone,       \* channels already closed at that moment
    earlier,    \* notify calls already finished at that moment
    full,       \* subscribers whose buffer was full when notify got to them
    overlap     \* has a cancel begun while notify was under way?

regVars   == <<heap, subs, lock, pos, chan>>
chanVars  == <<log, taken>>
callVars  == <<npc, snap, idx, cur>>
histVars  == <<present, gone, earlier, full, overlap>>
vars == <<regVars, chanVars, callVars, panicked, histVars>>

Slots == 1..MaxSubs
Word  == Chans \cup {Nil}
Array == [Slots -> Word]
Header == [arr : Nat, len : 0..MaxSubs, cap : Nat]

NilSlice == [arr |-> 0, len |-> 0, cap |-> 0]

----------------------------------------------------------------------------
(* Registered channels, as the registry stores them.  While a removal is   *)
(* under way the slot pos is a hole: its word is a copy of its neighbour   *)
(* (or the channel being removed).                                         *)

Open == {c \in Chans : chan[c] = "open"}

Hole == IF lock = Nil THEN {} ELSE {pos}

LiveSlots == (1..subs.len) \ Hole

Listed == {heap[subs.arr][k] : k \in LiveSlots}

Active(n) == npc[n] \in {"range", "send"}

Buffered(c) == Len(log[c]) - taken[c]

NewArray(old, len, c) ==
    [k \in Slots |-> IF k <= len THEN old[k] ELSE IF k = len + 1 THEN c ELSE Nil]

Grown(cap) == IF cap = 0 THEN 1 ELSE 2 * cap

----------------------------------------------------------------------------
Init ==
    /\ heap = <<>>
    /\ subs = NilSlice
    /\ lock = Nil
    /\ pos = 0
    /\ chan = [c \in Chans |-> "none"]
    /\ log = [c \in Chans |-> <<>>]
    /\ taken = [c \in Chans |-> 0]
    /\ npc = [n \in Notes |-> "new"]
    /\ snap = [n \in Notes |-> NilSlice]
    /\ idx = [n \in Notes |-> 0]
    /\ cur = [n \in Notes |-> Nil]
    /\ panicked = FALSE
    /\ present = [n \in Notes |-> {}]
    /\ gone = [n \in Notes |-> {}]
    /\ earlier = [n \in Notes |-> {}]
    /\ full = [n \in Notes |-> {}]
    /\ overlap = [n \in Notes |-> FALSE]

(* Subscribe: make the channel and append it, under the write lock.        *)
AppendInPlace(c) ==
    /\ subs.len < subs.cap
    /\ heap' = [heap EXCEPT ![subs.arr][subs.len + 1] = c]
    /\ subs' = [subs EXCEPT !.len = subs.len + 1]

AppendGrowing(c) ==
    /\ subs.len = subs.cap
    /\ heap' = Append(heap, IF subs.arr = 0
                            THEN NewArray([k \in Slots |-> Nil], 0, c)
                            ELSE NewArray(heap[subs.arr], subs.len, c))
    /\ subs' = [arr |-> Len(heap) + 1, len |-> subs.len + 1, cap |-> Grown(subs.cap)]

Subscribe(c) ==
    /\ ~panicked
    /\ lock = Nil
    /\ chan[c] = "none"
    /\ subs.len < MaxSubs
    /\ AppendInPlace(c) \/ AppendGrowing(c)
    /\ chan' = [chan EXCEPT ![c] = "open"]
    /\ UNCHANGED <<lock, pos, chanVars, callVars, panicked, histVars>>

(* The cleanup function: find the channel under the write lock ...         *)
CancelFind(c) ==
    /\ ~panicked
    /\ lock = Nil
    /\ chan[c] = "open"
    /\ \E i \in 1..subs.len :
          /\ heap[subs.arr][i] = c
          /\ \A j \in 1..(i - 1) : heap[subs.arr][j] # c
          /\ pos' = i
    /\ lock' = c
    /\ overlap' = [n \in Notes |-> overlap[n] \/ Active(n)]
    /\ UNCHANGED <<heap, subs, chan, chanVars, callVars, panicked,
                   present, gone, earlier, full>>

(* ... move the words behind it one slot down, one at a time ...           *)
CancelShift(c) ==
    /\ ~panicked
    /\ lock = c
    /\ pos < subs.len
    /\ heap' = [heap EXCEPT ![subs.arr][pos] = heap[subs.arr][pos + 1]]
    /\ pos' = pos + 1
    /\ UNCHANGED <<subs, lock, chan, chanVars, callVars, panicked, histVars>>

(* Mutant: the shorter slice is computed but not stored back in the map.   *)
CancelClose_HeaderNotStored(c) ==
    /\ ~panicked
    /\ lock = c
    /\ pos = subs.len
    /\ chan' = [chan EXCEPT ![c] = "closed"]
    /\ lock' = Nil
    /\ pos' = 0
    /\ UNCHANGED <<heap, subs, chanVars, callVars, panicked, histVars>>

(* ... store the shorter header, close the channel and unlock.             *)
CancelClose(c) ==
    /\ ~panicked
    /\ lock = c
    /\ pos = subs.len
    /\ subs' = [subs EXCEPT !.len = subs.len - 1]
    /\ chan' = [chan EXCEPT ![c] = "closed"]
    /\ lock' = Nil
    /\ pos' = 0
    /\ UNCHANGED <<heap, chanVars, callVars, panicked, histVars>>

(* notify: copy the header between RLock and RUnlock ...                   *)
NotifyBegin(n) ==
    /\ ~panicked
    /\ npc[n] = "new"
    /\ lock = Nil
    /\ npc' = [npc EXCEPT ![n] = "range"]
    /\ snap' = [snap EXCEPT ![n] = subs]
    /\ idx' = [idx EXCEPT ![n] = 1]
    /\ present' = [present EXCEPT ![n] = Open]
    /\ gone' = [gone EXCEPT ![n] = {c \in Chans : chan[c] = "closed"}]
    /\ earlier' = [earlier EXCEPT ![n] = {m \in Notes : npc[m] = "done"}]
    /\ UNCHANGED <<regVars, chanVars, cur, panicked, full, overlap>>

(* ... read the next slot of the array, without the lock ...               *)
NotifyRead(n) ==
    /\ ~panicked
    /\ npc[n] = "range"
    /\ idx[n] <= snap[n].len
    /\ cur' = [cur EXCEPT ![n] = heap[snap[n].arr][idx[n]]]
    /\ npc' = [npc EXCEPT ![n] = "send"]
    /\ UNCHANGED <<regVars, chanVars, snap, idx, panicked, histVars>>

(* Mutants of the send: one slot too many in the buffer; waiting for room  *)
(* instead of dropping.                                                    *)
Enqueue_OverCapacity(n) ==
    /\ chan[cur[n]] # "closed"
    /\ Buffered(cur[n]) <= BufCap
    /\ log' = [log EXCEPT ![cur[n]] = Append(@, n)]
    /\ UNCHANGED <<full, panicked>>

Drop_Waits(n) ==
    /\ chan[cur[n]] # "closed"
    /\ Buffered(cur[n]) >= BufCap
    /\ FALSE
    /\ UNCHANGED <<log, full, panicked>>

(* ... and send without blocking: the event is enqueued, or dropped when   *)
(* the buffer is full; sending on a closed channel ends the process.       *)
Enqueue(n) ==
    /\ chan[cur[n]] # "closed"
    /\ Buffered(cur[n]) < BufCap
    /\ log' = [log EXCEPT ![cur[n]] = Append(@, n)]
    /\ UNCHANGED <<full, panicked>>

Drop(n) ==
    /\ chan[cur[n]] # "closed"
    /\ Buffered(cur[n]) >= BufCap
    /\ full' = [full EXCEPT ![n] = @ \cup {cur[n]}]
    /\ UNCHANGED <<log, panicked>>

Panic(n) ==
    /\ chan[cur[n]] = "closed"
    /\ panicked' = TRUE
    /\ UNCHANGED <<log, full>>

NotifySend(n) ==
    /\ ~panicked
    /\ npc[n] = "send"
    /\ Enqueue(n) \/ Drop(n) \/ Panic(n)
    /\ npc' = [npc EXCEPT ![n] = "range"]
    /\ idx' = [idx EXCEPT ![n] = @ + 1]
    /\ UNCHANGED <<regVars, taken, snap, cur, present, gone, earlier, overlap>>

(* Mutant: the range stops one subscriber short.                           *)
NotifyEnd_OneShort(n) ==
    /\ ~panicked
    /\ npc[n] = "range"
    /\ idx[n] >= snap[n].len
    /\ npc' = [npc EXCEPT ![n] = "done"]
    /\ UNCHANGED <<regVars, chanVars, snap, idx, cur, panicked, histVars>>

NotifyEnd(n) ==
    /\ ~panicked
    /\ npc[n] = "range"
    /\ idx[n] > snap[n].len
    /\ npc' = [npc EXCEPT ![n] = "done"]
    /\ UNCHANGED <<regVars, chanVars, snap, idx, cur, panicked, histVars>>

(* Mutant: the handler puts an event back that it could not send to the    *)
(* client; it comes behind those queued since.                             *)
Receive_PutsBack(c) ==
    /\ ~panicked
    /\ chan[c] = "open"
    /\ lock # c
    /\ Buffered(c) > 0
    /\ taken' = [taken EXCEPT ![c] = @ + 1]
    /\ log' = [log EXCEPT ![c] = Append(@, @[taken[c] + 1])]
    /\ Len(log[c]) < Cardinality(Notes)
    /\ UNCHANGED <<regVars, callVars, panicked, histVars>>

(* The stream handler's loop takes the next event off its channel.         *)
Receive(c) ==
    /\ ~panicked
    /\ chan[c] = "open"
    /\ lock # c
    /\ Buffered(c) > 0
    /\ taken' = [taken EXCEPT ![c] = @ + 1]
    /\ UNCHANGED <<regVars, log, callVars, panicked, histVars>>

Notify(n) == NotifyBegin(n) \/ NotifyRead(n) \/ NotifySend(n) \/ NotifyEnd(n)

Cancel(c) == CancelFind(c) \/ CancelShift(c) \/ CancelClose(c)

Next ==
    \/ \E c \in Chans : Subscribe(c) \/ Cancel(c) \/ Receive(c)
    \/ \E n \in Notes : Notify(n)

Spec == Init /\ [][Next]_vars

----------------------------------------------------------------------------
(* Types, and the capacity of the channels.                                *)
TypeOK ==
    /\ heap \in Seq(Array)
    /\ subs \in Header
    /\ subs.arr \in 0..Len(heap)
    /\ lock \in Word
    /\ pos \in 0..MaxSubs
    /\ chan \in [Chans -> {"none", "open", "closed"}]
    /\ log \in [Chans -> Seq(Notes)]
    /\ taken \in [Chans -> Nat]
    /\ \A c \in Chans : Buffered(c) \in 0..BufCap
    /\ npc \in [Notes -> {"new", "range", "send", "done"}]
    /\ snap \in [Notes -> Header]
    /\ idx \in [Notes -> Nat]
    /\ cur \in [Notes -> Word]
    /\ panicked \in BOOLEAN
    /\ present \in [Notes -> SUBSET Chans]
    /\ gone \in [Notes -> SUBSET Chans]
    /\ earlier \in [Notes -> SUBSET Notes]
    /\ full \in [Notes -> SUBSET Chans]
    /\ overlap \in [Notes -> BOOLEAN]

(* The registry lists every subscriber exactly once, and nobody else,      *)
(* through every interleaving of append and in-place removal; while a      *)
(* removal is under way, with the hole left out and without the leaver.    *)
RegistryExact ==
    /\ Listed = Open \ {lock}
    /\ \A j, k \in LiveSlots :
          heap[subs.arr][j] = heap[subs.arr][k] => j = k

(* A notify call never sends to a channel whose cancel had returned before *)
(* the call copied the header, whatever later Subscribe and cancel calls   *)
(* write into the array it is walking.                                     *)
NeverTouchesGone ==
    \A n \in Notes : npc[n] = "send" => cur[n] \in Chans \ gone[n]

(* The server can only die of a send on a closed channel when some cancel  *)
(* began while a notify call was walking the array.                        *)
PanicOnlyFromOverlap ==
    panicked => \E n \in Notes : overlap[n] /\ Active(n)

(* A closed channel is left alone by every call that begins after its      *)
(* cleanup; only a cleanup that begins during a call can end the process.  *)
ClosedIsLeftAlone == NeverTouchesGone /\ PanicOnlyFromOverlap

Deliveries(n, c) == Cardinality({i \in DOMAIN log[c] : log[c][i] = n})

(* A notify call that no cancel overlapped puts its event exactly once     *)
(* into every channel registered when it began, except those that were     *)
(* full, and into no other; concurrent Subscribe calls do not disturb it.  *)
ExactlyOnceUnlessOverlapped ==
    \A n \in Notes : npc[n] = "done" /\ ~overlap[n] =>
        \A c \in Chans :
            Deliveries(n, c) = IF c \in present[n] \ full[n] THEN 1 ELSE 0

(* Every channel carries the events of calls that followed one another in  *)
(* the order of the calls.                                                 *)
CallOrderKept ==
    \A c \in Chans : \A i, j \in DOMAIN log[c] :
        i < j => log[c][j] \notin earlier[log[c][i]]

(* A notify call ends however slow its subscribers are: it never waits     *)
(* for room in a channel.                                                  *)
NotifyEnds == \A n \in Notes : Active(n) ~> (npc[n] = "done" \/ panicked)

(* A removal that has taken the lock ends and releases it.                 *)
CancelEnds == \A c \in Chans : (lock = c) ~> (lock # c \/ panicked)

(* A cancelled subscriber is removed: no notify call is about to send to a *)
(* closed channel.                                                         *)
CancelRemovesSubscriber ==
    \A n \in Notes : npc[n] = "send" => chan[cur[n]] # "closed"

----------------------------------------------------------------------------
(* Whom a call has still to reach: those present when it began, without    *)
(* the ones it has found full and the ones that have its event.            *)
Delivered(n, c) == \E i \in DOMAIN log[c] : log[c][i] = n

Owed(n) == {c \in present[n] \ full[n] : ~Delivered(n, c)}

CallState == [n \in Notes |-> IF Active(n) THEN "open" ELSE npc[n]]

OwedBy == [n \in Notes |-> Owed(n)]

Promise == INSTANCE Broadcast WITH
    member <- chan, call <- CallState, owed <- OwedBy, shaken <- overlap, dead <- panicked

(* The registry with its slices, its lock and its unlocked walks keeps the *)
(* promise of Broadcast: a call that no cancel overlaps reaches each       *)
(* subscriber present at its beginning once, ends with nobody left out,    *)
(* and cannot end the process.                                             *)
KeepsPromise == Promise!Spec

(* A notify call and a cleanup end whatever the others do: neither waits   *)
(* for a subscriber to read, and the lock is always given back.            *)
CallsEnd == NotifyEnds /\ CancelEnds
=============================================================================
