----------------------------- MODULE SyncProofs -----------------------------
(***************************************************************************)
(* Proofs about the registry of subscribers and about the server that      *)
(* uses it, in three parts.                                                *)
(*                                                                         *)
(* SyncService, the registry: it stays exact, and a notify call only ever  *)
(* touches channels that were not closed before it began.                  *)
(*                                                                         *)
(* SyncService, what it delivers: a call that no cancel overlaps reaches   *)
(* everyone it found registered exactly once, calls that follow one        *)
(* another arrive in that order, and the registry with its slices and      *)
(* unlocked walks implements Broadcast.                                    *)
(*                                                                         *)
(* VaultSync: versions tell mutations of an item apart, and a caught-up    *)
(* stream misses nothing but what was committed between its List and its   *)
(* Subscribe.  The composition takes only steps of SyncService, so what is *)
(* proved of the registry holds here and is used.                          *)
(***************************************************************************)
EXTENDS VaultSync, FiniteSetTheorems, TLAPS

-----------------------------------------------------------------------------
(* The registry: Spec of SyncService.                                      *)

(* The header and the removal under way agree with the heap.               *)
HeaderOK ==
    /\ subs.len <= subs.cap
    /\ subs.arr = 0 => subs.cap = 0
    /\ lock # Nil => /\ lock \in Open
                     /\ pos \in 1..subs.len
    /\ \A k \in 1..subs.len : heap[subs.arr][k] \in Open

(* What a notify call can still read: every slot of the array it walks     *)
(* holds a channel that was not closed when the call began, and, as long   *)
(* as no cancel has overlapped the call, one that is not closed now.       *)
Walk(n) ==
    /\ snap[n].arr \in 0..Len(heap)
    /\ snap[n].len > 0 => snap[n].arr # 0
    /\ idx[n] >= 1
    /\ \A c \in gone[n] : chan[c] = "closed"
    /\ \A k \in 1..snap[n].len : heap[snap[n].arr][k] \in Chans \ gone[n]
    /\ npc[n] = "send" => cur[n] \in Chans \ gone[n]
    /\ ~overlap[n] => lock = Nil
    /\ ~overlap[n] => \A k \in 1..snap[n].len : heap[snap[n].arr][k] \in Open
    /\ ~overlap[n] /\ npc[n] = "send" => cur[n] \in Open

WalkOK == \A n \in Notes : Active(n) => Walk(n)

(* A panic is the step of a notify call that a cancel overlapped.          *)
IInv ==
    /\ TypeOK
    /\ HeaderOK
    /\ RegistryExact
    /\ WalkOK
    /\ PanicOnlyFromOverlap

----------------------------------------------------------------------------
(* A write of one word into one backing array leaves every other word of   *)
(* the heap as it was.                                                     *)
HeapSet(h, a, k, w) == [h EXCEPT ![a][k] = w]

LEMMA HeapWrite ==
    ASSUME NEW h \in Seq(Array), NEW a \in 1..Len(h), NEW k \in Slots, NEW w \in Word
    PROVE  /\ HeapSet(h, a, k, w) \in Seq(Array)
           /\ Len(HeapSet(h, a, k, w)) = Len(h)
           /\ \A b \in 1..Len(h), j \in Slots :
                 HeapSet(h, a, k, w)[b][j] = IF b = a /\ j = k THEN w ELSE h[b][j]
<1> DEFINE h2 == HeapSet(h, a, k, w)
<1>1. h \in [1..Len(h) -> Array] /\ Len(h) \in Nat
  OBVIOUS
<1>2. [h[a] EXCEPT ![k] = w] \in Array
  BY <1>1 DEF Array
<1>3. h2 \in [1..Len(h) -> Array]
  BY <1>1, <1>2 DEF HeapSet
<1>4. h2 \in Seq(Array) /\ Len(h2) = Len(h)
  BY <1>1, <1>3
<1>5. \A b \in 1..Len(h), j \in Slots :
          h2[b][j] = IF b = a /\ j = k THEN w ELSE h[b][j]
  BY <1>1 DEF Array, HeapSet
<1> QED
  BY <1>4, <1>5

(* A new backing array holds the old words and the new channel; the older  *)
(* arrays stay where they are.                                             *)
LEMMA HeapGrow ==
    ASSUME NEW h \in Seq(Array), NEW old \in Array, NEW len \in 0..MaxSubs,
           NEW c \in Chans, NEW h2, h2 = Append(h, NewArray(old, len, c))
    PROVE  /\ h2 \in Seq(Array)
           /\ Len(h2) = Len(h) + 1
           /\ \A b \in 1..Len(h) : h2[b] = h[b]
           /\ \A j \in Slots : j <= len => h2[Len(h) + 1][j] = old[j]
           /\ len + 1 \in Slots => h2[Len(h) + 1][len + 1] = c
<1>1. NewArray(old, len, c) \in Array
  BY SyncAssumption DEF NewArray, Array, Word, Slots
<1>2. \A j \in Slots : NewArray(old, len, c)[j] =
          IF j <= len THEN old[j] ELSE IF j = len + 1 THEN c ELSE Nil
  BY DEF NewArray
<1>3. len + 1 \in Slots => ~(len + 1 <= len)
  BY DEF Slots
<1> QED
  BY <1>1, <1>2, <1>3

----------------------------------------------------------------------------
(* The initial state: no array, no channel, no call.                       *)
LEMMA InitIInv == Init => IInv
<1> SUFFICES ASSUME Init PROVE IInv
  OBVIOUS
<1> USE SyncAssumption DEF Init, NilSlice
<1>1. TypeOK
  <2>1. heap \in Seq(Array) /\ Len(heap) = 0
    OBVIOUS
  <2>2. subs \in Header /\ subs.arr = 0
    BY DEF Header
  <2>3. \A n \in Notes : snap[n] \in Header
    BY DEF Header
  <2>4. \A c \in Chans : log[c] \in Seq(Notes) /\ Len(log[c]) = 0 /\ taken[c] = 0
    OBVIOUS
  <2>5. \A c \in Chans : Buffered(c) \in 0..BufCap
    BY <2>4 DEF Buffered
  <2>6. /\ chan \in [Chans -> {"none", "open", "closed"}]
        /\ log \in [Chans -> Seq(Notes)]
        /\ taken \in [Chans -> Nat]
    OBVIOUS
  <2>7. /\ npc \in [Notes -> {"new", "range", "send", "done"}]
        /\ snap \in [Notes -> Header]
        /\ idx \in [Notes -> Nat]
        /\ cur \in [Notes -> Word]
        /\ overlap \in [Notes -> BOOLEAN]
    BY <2>3 DEF Word
  <2>8. /\ present \in [Notes -> SUBSET Chans]
        /\ gone \in [Notes -> SUBSET Chans]
        /\ earlier \in [Notes -> SUBSET Notes]
        /\ full \in [Notes -> SUBSET Chans]
    OBVIOUS
  <2>9. lock \in Word /\ pos \in 0..MaxSubs
    BY DEF Word
  <2>10. panicked \in BOOLEAN
    BY Zenon
  <2> QED
    BY <2>1, <2>2, <2>5, <2>6, <2>7, <2>8, <2>9, <2>10 DEF TypeOK
<1>2. HeaderOK
  BY DEF HeaderOK
<1>3. RegistryExact
  BY DEF RegistryExact, Listed, LiveSlots, Hole, Open
<1>4. WalkOK /\ PanicOnlyFromOverlap
  BY DEF WalkOK, Active, PanicOnlyFromOverlap
<1> QED
  BY <1>1, <1>2, <1>3, <1>4 DEF IInv

(* Appending in place writes the free slot behind the list, which no walk  *)
(* reads as a closed channel and no other slot of which changes.           *)
LEMMA SubscribeStep ==
    ASSUME IInv, NEW c \in Chans, Subscribe(c)
    PROVE  IInv'
<1> USE SyncAssumption
<1> DEFINE a2 == subs'.arr
<1>0. /\ TypeOK /\ HeaderOK /\ RegistryExact /\ WalkOK
      /\ lock = Nil /\ lock' = Nil /\ pos' = pos
      /\ chan[c] = "none" /\ chan' = [chan EXCEPT ![c] = "open"]
      /\ ~panicked /\ panicked' = panicked
      /\ UNCHANGED <<log, taken, npc, snap, idx, cur, present, gone, earlier, full, overlap>>
  BY DEF IInv, Subscribe, chanVars, callVars, histVars
<1>1. /\ subs.len \in 0..MaxSubs /\ subs.len < MaxSubs
      /\ subs.arr \in 0..Len(heap) /\ subs.cap \in Nat /\ Len(heap) \in Nat
      /\ heap \in Seq(Array)
  BY DEF IInv, TypeOK, Header, Subscribe
<1>2. /\ heap' \in Seq(Array)
      /\ Len(heap') >= Len(heap)
      /\ subs' \in Header
      /\ subs'.len = subs.len + 1
      /\ a2 \in 1..Len(heap')
      /\ subs'.len <= subs'.cap
      /\ heap'[a2][subs.len + 1] = c
      /\ \A k \in 1..subs.len : heap'[a2][k] = heap[subs.arr][k]
      /\ \A b \in 1..Len(heap), j \in Slots :
            \/ heap'[b][j] = heap[b][j]
            \/ heap'[b][j] = c
  <2>1. CASE AppendInPlace(c)
    <3>1. subs.arr \in 1..Len(heap) /\ subs.len + 1 \in Slots /\ c \in Word
      BY <1>0, <1>1, <2>1 DEF AppendInPlace, HeaderOK, Slots, Word
    <3>2. heap' = [heap EXCEPT ![subs.arr][subs.len + 1] = c]
      BY <2>1 DEF AppendInPlace
    <3>3. /\ heap' \in Seq(Array)
          /\ Len(heap') = Len(heap)
          /\ \A b \in 1..Len(heap), j \in Slots :
               heap'[b][j] = IF b = subs.arr /\ j = subs.len + 1 THEN c ELSE heap[b][j]
      <4>1. heap' = HeapSet(heap, subs.arr, subs.len + 1, c)
        BY <3>2 DEF HeapSet
      <4> QED
        BY SMTT(30), <1>1, <3>1, <4>1, HeapWrite
    <3>4. subs' = [subs EXCEPT !.len = subs.len + 1] /\ subs \in Header
      BY <1>0, <2>1 DEF AppendInPlace, TypeOK
    <3>5. /\ subs' \in Header /\ subs'.len = subs.len + 1
          /\ subs'.arr = subs.arr /\ subs'.cap = subs.cap
      BY <3>4, <1>1 DEF Header
    <3>6. subs.len < subs.cap
      BY <2>1 DEF AppendInPlace
    <3>7. \A k \in 1..subs.len : k \in Slots /\ k # subs.len + 1
      BY <1>1 DEF Slots
    <3>8. \A k \in 1..subs.len : heap'[a2][k] = heap[subs.arr][k]
      BY <3>1, <3>3, <3>5, <3>7
    <3>9. heap'[a2][subs.len + 1] = c
      BY <3>1, <3>3, <3>5
    <3> QED
      BY <1>1, <3>1, <3>3, <3>5, <3>6, <3>8, <3>9
  <2>2. CASE AppendGrowing(c)
    <3> DEFINE old == IF subs.arr = 0 THEN [k \in Slots |-> Nil] ELSE heap[subs.arr]
               l == IF subs.arr = 0 THEN 0 ELSE subs.len
    <3>1. subs.arr = 0 => subs.len = 0
      BY <1>0, <1>1 DEF HeaderOK
    <3>2. old \in Array /\ l = subs.len
      BY <1>1, <3>1 DEF Array, Word
    <3>3. heap' = Append(heap, NewArray(old, l, c))
      BY <2>2, <3>1, <3>2 DEF AppendGrowing
    <3>4. /\ heap' \in Seq(Array)
          /\ Len(heap') = Len(heap) + 1
          /\ \A b \in 1..Len(heap) : heap'[b] = heap[b]
          /\ \A j \in Slots : j <= l => heap'[Len(heap) + 1][j] = old[j]
          /\ l + 1 \in Slots => heap'[Len(heap) + 1][l + 1] = c
      <4> HIDE DEF old, l
      <4> QED BY <1>1, <3>2, <3>3, HeapGrow
    <3>5. subs' = [arr |-> Len(heap) + 1, len |-> subs.len + 1, cap |-> Grown(subs.cap)]
      BY <2>2 DEF AppendGrowing
    <3>6. Grown(subs.cap) \in Nat /\ subs.len + 1 <= Grown(subs.cap)
      BY <1>0, <1>1, <2>2 DEF Grown, AppendGrowing
    <3>7. subs' \in Header /\ subs'.len = subs.len + 1 /\ a2 = Len(heap) + 1
      BY <1>1, <3>5, <3>6 DEF Header
    <3>8. \A k \in 1..subs.len : subs.arr # 0 /\ k \in Slots /\ k <= l
      BY <1>1, <3>1, <3>2 DEF Slots
    <3>9. \A k \in 1..subs.len : heap'[a2][k] = heap[subs.arr][k]
      BY <3>4, <3>7, <3>8
    <3>10. subs.len + 1 \in Slots
      BY <1>1 DEF Slots
    <3>11. a2 \in 1..Len(heap') /\ subs'.len <= subs'.cap
      BY <1>1, <3>4, <3>5, <3>6, <3>7
    <3>12. heap'[a2][subs.len + 1] = c
      BY <3>2, <3>4, <3>7, <3>10
    <3> QED
      BY <1>1, <3>4, <3>7, <3>9, <3>11, <3>12
  <2> QED
    BY <2>1, <2>2 DEF Subscribe
<1>3. Open' = Open \cup {c} /\ c \notin Open
  BY <1>0 DEF Open, TypeOK
<1>4. TypeOK'
  <2>1. subs'.arr \in 0..Len(heap')
    BY <1>2
  <2>2. \A d \in Chans : Buffered(d)' = Buffered(d)
    BY <1>0 DEF Buffered
  <2> QED
    BY <1>0, <1>2, <2>1, <2>2 DEF TypeOK
<1>5. HeaderOK'
  <2>1. \A k \in 1..(subs.len + 1) : k \in 1..subs.len \/ k = subs.len + 1
    BY <1>1
  <2>2. \A k \in 1..subs'.len : heap'[a2][k] \in Open'
    BY <1>0, <1>1, <1>2, <1>3, <2>1 DEF HeaderOK
  <2>3. a2 # 0
    BY <1>1, <1>2
  <2> QED
    BY <1>0, <1>2, <2>2, <2>3 DEF HeaderOK
<1>6. RegistryExact'
  <2>1. LiveSlots = 1..subs.len /\ LiveSlots' = 1..(subs.len + 1)
    BY <1>0, <1>2 DEF LiveSlots, Hole
  <2>6. \A k : k \in LiveSlots' <=> k \in LiveSlots \/ k = subs.len + 1
    BY <1>1, <2>1
  <2>7. \A k \in LiveSlots : heap'[a2][k] = heap[subs.arr][k] /\ k # subs.len + 1
    BY <1>1, <1>2, <2>1
  <2>2. Listed' = Listed \cup {c}
    BY <1>2, <2>6, <2>7 DEF Listed
  <2>3. Listed' = Open' \ {lock'}
    BY <1>0, <1>3, <2>2 DEF RegistryExact, Word, Open
  <2>4. \A k \in 1..subs.len : heap[subs.arr][k] # c
    BY <1>0, <1>3 DEF HeaderOK
  <2>5. \A j, k \in LiveSlots' : heap'[a2][j] = heap'[a2][k] => j = k
    BY SMTT(30), <1>0, <1>2, <2>1, <2>6, <2>7, <2>4 DEF RegistryExact
  <2> QED
    BY <2>3, <2>5 DEF RegistryExact
<1>7. WalkOK'
  <2> SUFFICES ASSUME NEW n \in Notes, Active(n)'
               PROVE  Walk(n)'
    BY DEF WalkOK
  <2>1. Walk(n) /\ snap[n].len \in 0..MaxSubs /\ gone[n] \subseteq Chans
    BY <1>0 DEF WalkOK, Active, TypeOK, Header
  <2>2. c \notin gone[n]
    BY <1>0, <2>1 DEF Walk
  <2>3. \A k \in 1..snap[n].len :
            /\ heap'[snap[n].arr][k] \in Chans \ gone[n]
            /\ ~overlap[n] => heap'[snap[n].arr][k] \in Open'
    <3> TAKE k \in 1..snap[n].len
    <3>1. snap[n].arr \in 1..Len(heap) /\ k \in Slots
      BY <1>1, <2>1 DEF Walk, Slots
    <3> QED
      BY <1>2, <1>3, <2>1, <2>2, <3>1 DEF Walk
  <2> QED
    BY <1>0, <1>1, <1>2, <1>3, <2>1, <2>2, <2>3 DEF Walk, TypeOK
<1>8. PanicOnlyFromOverlap'
  BY <1>0 DEF PanicOnlyFromOverlap
<1> QED
  BY <1>4, <1>5, <1>6, <1>7, <1>8 DEF IInv

(* Finding the leaver opens the hole at its slot and marks every call      *)
(* under way as overlapped.                                                *)
LEMMA CancelFindStep ==
    ASSUME IInv, NEW c \in Chans, CancelFind(c)
    PROVE  IInv'
<1> USE SyncAssumption
<1>0. /\ TypeOK /\ HeaderOK /\ RegistryExact /\ WalkOK
      /\ lock = Nil /\ lock' = c /\ chan[c] = "open"
      /\ overlap' = [n \in Notes |-> overlap[n] \/ Active(n)]
      /\ ~panicked
      /\ UNCHANGED <<heap, subs, chan, log, taken, npc, snap, idx, cur, panicked,
                     present, gone, earlier, full>>
  BY DEF IInv, CancelFind, chanVars, callVars
<1>1. PICK i \in 1..subs.len : heap[subs.arr][i] = c /\ pos' = i
  BY DEF CancelFind
<1>2. Open' = Open /\ c \in Open
  BY <1>0 DEF Open
<1>3. subs.len \in 0..MaxSubs
  BY <1>0 DEF TypeOK, Header
<1>4. TypeOK'
  <2>1. overlap' \in [Notes -> BOOLEAN]
    BY <1>0 DEF Active, TypeOK
  <2>2. lock' \in Word /\ pos' \in 0..MaxSubs
    BY <1>0, <1>1, <1>3 DEF Word
  <2>3. \A d \in Chans : Buffered(d)' = Buffered(d)
    BY <1>0 DEF Buffered
  <2> QED
    BY <1>0, <2>1, <2>2, <2>3 DEF TypeOK
<1>5. HeaderOK'
  BY <1>0, <1>1, <1>2 DEF HeaderOK
<1>6. RegistryExact'
  <2>1. LiveSlots = 1..subs.len /\ LiveSlots' = (1..subs.len) \ {i}
    BY <1>0, <1>1 DEF LiveSlots, Hole
  <2>2. Listed = Open
    BY <1>0 DEF RegistryExact, Open
  <2>3. Listed' = Open \ {c}
    <3>1. \A k \in LiveSlots' : heap[subs.arr][k] \in Open \ {c}
      BY <1>0, <1>1, <2>1 DEF RegistryExact, HeaderOK
    <3>2. \A d \in Open \ {c} : \E k \in LiveSlots' : heap[subs.arr][k] = d
      BY <1>1, <2>1, <2>2 DEF Listed
    <3> QED
      BY <1>0, <3>1, <3>2 DEF Listed
  <2> QED
    BY <1>0, <1>2, <2>1, <2>3 DEF RegistryExact
<1>7. WalkOK'
  <2> SUFFICES ASSUME NEW n \in Notes, Active(n)'
               PROVE  Walk(n)'
    BY DEF WalkOK
  <2>1. Active(n) /\ overlap'[n]
    BY <1>0 DEF Active
  <2> QED
    BY <1>0, <1>2, <2>1 DEF WalkOK, Walk
<1>8. PanicOnlyFromOverlap'
  BY <1>0 DEF PanicOnlyFromOverlap
<1> QED
  BY <1>4, <1>5, <1>6, <1>7, <1>8 DEF IInv

(* Moving one word down moves the hole up: the slots outside the hole hold *)
(* the same channels as before.                                            *)
LEMMA CancelShiftStep ==
    ASSUME IInv, NEW c \in Chans, CancelShift(c)
    PROVE  IInv'
<1> USE SyncAssumption
<1>0. /\ TypeOK /\ HeaderOK /\ RegistryExact /\ WalkOK
      /\ lock = c /\ lock' = c /\ lock # Nil
      /\ pos < subs.len /\ pos' = pos + 1
      /\ ~panicked
      /\ UNCHANGED <<subs, chan, log, taken, npc, snap, idx, cur, panicked,
                     present, gone, earlier, full, overlap>>
  BY DEF IInv, CancelShift, chanVars, callVars, histVars
<1>1. /\ subs.len \in 0..MaxSubs /\ pos \in 1..subs.len /\ heap \in Seq(Array)
      /\ subs.arr \in 1..Len(heap) /\ Len(heap) \in Nat /\ subs.cap \in Nat
      /\ pos \in Slots /\ pos + 1 \in Slots
  BY <1>0 DEF TypeOK, Header, HeaderOK, Slots
<1> DEFINE w == heap[subs.arr][pos + 1]
<1>2. w \in Open /\ w \in Word /\ Open' = Open
  BY <1>0, <1>1 DEF HeaderOK, Open, Word
<1>3. heap' = HeapSet(heap, subs.arr, pos, w)
  BY DEF CancelShift, HeapSet
<1>4. /\ heap' \in Seq(Array)
      /\ Len(heap') = Len(heap)
      /\ \A b \in 1..Len(heap), j \in Slots :
           heap'[b][j] = IF b = subs.arr /\ j = pos THEN w ELSE heap[b][j]
  <2>1. /\ heap \in Seq(Array) /\ subs.arr \in 1..Len(heap)
        /\ pos \in Slots /\ w \in Word
    BY <1>1, <1>2
  <2> HIDE DEF w
  <2>2. /\ HeapSet(heap, subs.arr, pos, w) \in Seq(Array)
        /\ Len(HeapSet(heap, subs.arr, pos, w)) = Len(heap)
        /\ \A b \in 1..Len(heap), j \in Slots :
             HeapSet(heap, subs.arr, pos, w)[b][j] =
               IF b = subs.arr /\ j = pos THEN w ELSE heap[b][j]
    BY <2>1, HeapWrite
  <2> QED
    BY <1>3, <2>2
<1>5. \A k \in 1..subs.len : k \in Slots
  BY <1>1 DEF Slots
<1>6. TypeOK'
  <2>1. \A d \in Chans : Buffered(d)' = Buffered(d)
    BY <1>0 DEF Buffered
  <2>2. pos' \in 0..MaxSubs
    BY <1>0, <1>1
  <2> QED
    BY <1>0, <1>4, <2>1, <2>2 DEF TypeOK
<1>7. HeaderOK'
  <2>1. \A k \in 1..subs.len : heap'[subs.arr][k] \in Open
    BY <1>0, <1>1, <1>2, <1>4, <1>5 DEF HeaderOK
  <2>2. pos' \in 1..subs.len
    BY <1>0, <1>1
  <2> QED
    BY <1>0, <1>2, <2>1, <2>2 DEF HeaderOK
<1>8. RegistryExact'
  <2>1. LiveSlots = (1..subs.len) \ {pos} /\ LiveSlots' = (1..subs.len) \ {pos + 1}
    BY <1>0 DEF LiveSlots, Hole
  <2>2. /\ pos \in LiveSlots' /\ pos + 1 \in LiveSlots /\ pos # pos + 1
        /\ \A k : k # pos /\ k # pos + 1 => (k \in LiveSlots <=> k \in LiveSlots')
    BY <1>0, <1>1, <2>1
  <2>3. heap'[subs.arr][pos] = heap[subs.arr][pos + 1]
    BY <1>1, <1>4
  <2>4. \A k \in LiveSlots' : k # pos => heap'[subs.arr][k] = heap[subs.arr][k] /\ k \in LiveSlots
    BY <1>1, <1>4, <1>5, <2>1, <2>2
  <2>5. Listed' \subseteq Listed
    BY <1>0, <2>2, <2>3, <2>4 DEF Listed
  <2>6. Listed \subseteq Listed'
    <3> SUFFICES ASSUME NEW k \in LiveSlots
                 PROVE  \E j \in LiveSlots' : heap'[subs.arr][j] = heap[subs.arr][k]
      BY <1>0 DEF Listed
    <3>1. CASE k = pos + 1
      BY <2>2, <2>3, <3>1
    <3>2. CASE k # pos + 1
      BY <2>1, <2>2, <2>4, <3>2
    <3> QED
      BY <3>1, <3>2
  <2>7. \A j, k \in LiveSlots' : heap'[subs.arr][j] = heap'[subs.arr][k] => j = k
    <3> TAKE j, k \in LiveSlots'
    <3> DEFINE f(x) == IF x = pos THEN pos + 1 ELSE x
    <3>1. \A x \in LiveSlots' : f(x) \in LiveSlots /\ heap'[subs.arr][x] = heap[subs.arr][f(x)]
      BY <2>2, <2>3, <2>4
    <3>2. f(j) = f(k) => j = k
      BY <2>1, <2>2
    <3> HIDE DEF f
    <3> QED
      BY <1>0, <3>1, <3>2 DEF RegistryExact
  <2> QED
    BY <1>0, <1>2, <2>5, <2>6, <2>7 DEF RegistryExact
<1>9. WalkOK'
  <2> SUFFICES ASSUME NEW n \in Notes, Active(n)'
               PROVE  Walk(n)'
    BY DEF WalkOK
  <2>1. /\ Walk(n) /\ overlap[n]
        /\ snap[n].len \in 0..MaxSubs /\ gone[n] \subseteq Chans
    BY <1>0 DEF WalkOK, Active, TypeOK, Header, Walk
  <2>2. w \in Chans \ gone[n]
    BY <1>2, <2>1 DEF Walk, Open
  <2>3. \A k \in 1..snap[n].len : heap'[snap[n].arr][k] \in Chans \ gone[n]
    <3> TAKE k \in 1..snap[n].len
    <3>1. snap[n].arr \in 1..Len(heap) /\ k \in Slots
      BY <1>1, <2>1 DEF Walk, Slots
    <3> QED
      BY <1>4, <2>1, <2>2, <3>1 DEF Walk
  <2> QED
    BY <1>0, <1>4, <2>1, <2>3 DEF Walk
<1>10. PanicOnlyFromOverlap'
  BY <1>0 DEF PanicOnlyFromOverlap
<1> QED
  BY <1>6, <1>7, <1>8, <1>9, <1>10 DEF IInv

(* Storing the shorter header drops the hole; the channel it belonged to   *)
(* is in no slot of the list any more when it is closed.                   *)
LEMMA CancelCloseStep ==
    ASSUME IInv, NEW c \in Chans, CancelClose(c)
    PROVE  IInv'
<1> USE SyncAssumption
<1>0. /\ TypeOK /\ HeaderOK /\ RegistryExact /\ WalkOK
      /\ lock = c /\ lock' = Nil /\ lock # Nil
      /\ pos = subs.len /\ pos' = 0
      /\ subs' = [subs EXCEPT !.len = subs.len - 1]
      /\ chan' = [chan EXCEPT ![c] = "closed"]
      /\ ~panicked
      /\ UNCHANGED <<heap, log, taken, npc, snap, idx, cur, panicked,
                     present, gone, earlier, full, overlap>>
  BY DEF IInv, CancelClose, chanVars, callVars, histVars
<1>1. /\ subs.len \in 0..MaxSubs /\ pos \in 1..subs.len /\ subs \in Header
      /\ subs.cap \in Nat /\ subs.arr \in Nat
  BY <1>0 DEF TypeOK, Header, HeaderOK
<1>2. /\ subs' \in Header /\ subs'.len = subs.len - 1
      /\ subs'.arr = subs.arr /\ subs'.cap = subs.cap
  BY <1>0, <1>1 DEF Header
<1>3. Open' = Open \ {c} /\ c \in Open
  BY <1>0 DEF Open, TypeOK, HeaderOK
<1>4. LiveSlots = 1..(subs.len - 1) /\ LiveSlots' = 1..(subs.len - 1)
  BY <1>0, <1>1, <1>2 DEF LiveSlots, Hole
<1>5. Listed' = Listed /\ Listed = Open'
  BY <1>0, <1>2, <1>3, <1>4 DEF Listed, RegistryExact
<1>6. TypeOK'
  <2>1. \A d \in Chans : Buffered(d)' = Buffered(d)
    BY <1>0 DEF Buffered
  <2>2. lock' \in Word /\ pos' \in 0..MaxSubs /\ subs'.arr \in 0..Len(heap')
    BY <1>0, <1>2 DEF Word, TypeOK
  <2> QED
    BY <1>0, <1>2, <2>1, <2>2 DEF TypeOK
<1>7. HeaderOK'
  <2>1. \A k \in 1..subs'.len : heap'[subs'.arr][k] \in Open'
    BY <1>0, <1>2, <1>4, <1>5 DEF Listed
  <2>2. subs'.len <= subs'.cap /\ (subs'.arr = 0 => subs'.cap = 0)
    BY <1>0, <1>1, <1>2 DEF HeaderOK
  <2> QED
    BY <1>0, <2>1, <2>2 DEF HeaderOK
<1>8. RegistryExact'
  BY <1>0, <1>2, <1>3, <1>4, <1>5 DEF RegistryExact, Open
<1>9. WalkOK'
  <2> SUFFICES ASSUME NEW n \in Notes, Active(n)'
               PROVE  Walk(n)'
    BY DEF WalkOK
  <2>1. Walk(n) /\ overlap[n] /\ gone[n] \subseteq Chans
    BY <1>0 DEF WalkOK, Active, TypeOK, Walk
  <2>2. \A d \in gone[n] : chan'[d] = "closed"
    BY <1>0, <2>1 DEF Walk, TypeOK
  <2> QED
    BY <1>0, <2>1, <2>2 DEF Walk
<1>10. PanicOnlyFromOverlap'
  BY <1>0 DEF PanicOnlyFromOverlap
<1> QED
  BY <1>6, <1>7, <1>8, <1>9, <1>10 DEF IInv

(* A call begins with the list as it stands: all of it open, none of it    *)
(* closed before.                                                          *)
LEMMA NotifyBeginStep ==
    ASSUME IInv, NEW n \in Notes, NotifyBegin(n)
    PROVE  IInv'
<1> USE SyncAssumption
<1>0. /\ TypeOK /\ HeaderOK /\ RegistryExact /\ WalkOK
      /\ lock = Nil /\ ~panicked /\ npc[n] = "new"
      /\ npc' = [npc EXCEPT ![n] = "range"]
      /\ snap' = [snap EXCEPT ![n] = subs]
      /\ idx' = [idx EXCEPT ![n] = 1]
      /\ present' = [present EXCEPT ![n] = Open]
      /\ gone' = [gone EXCEPT ![n] = {c \in Chans : chan[c] = "closed"}]
      /\ earlier' = [earlier EXCEPT ![n] = {m \in Notes : npc[m] = "done"}]
      /\ UNCHANGED <<heap, subs, lock, pos, chan, log, taken, cur, panicked, full, overlap>>
  BY DEF IInv, NotifyBegin, regVars, chanVars
<1>1. Open' = Open
  BY <1>0 DEF Open
<1>2. TypeOK'
  <2>1. \A d \in Chans : Buffered(d)' = Buffered(d)
    BY <1>0 DEF Buffered
  <2>2. Open \in SUBSET Chans
    BY DEF Open
  <2> QED
    BY <1>0, <2>1, <2>2 DEF TypeOK
<1>3. HeaderOK' /\ RegistryExact'
  BY <1>0, <1>1 DEF HeaderOK, RegistryExact, Listed, LiveSlots, Hole
<1>4. WalkOK'
  <2> SUFFICES ASSUME NEW m \in Notes, Active(m)'
               PROVE  Walk(m)'
    BY DEF WalkOK
  <2>1. CASE m = n
    <3>1. /\ snap'[n] = subs /\ idx'[n] = 1 /\ npc'[n] = "range"
          /\ gone'[n] = {c \in Chans : chan[c] = "closed"}
      BY <1>0 DEF TypeOK
    <3>2. /\ subs.arr \in 0..Len(heap) /\ subs.len \in 0..MaxSubs
          /\ subs.len > 0 => subs.arr # 0
      BY <1>0 DEF TypeOK, Header, HeaderOK
    <3>3. \A k \in 1..subs.len : heap[subs.arr][k] \in Open /\ heap[subs.arr][k] \in Chans \ gone'[n]
      BY <1>0, <3>1 DEF HeaderOK, Open
    <3>4. /\ snap'[n].arr \in 0..Len(heap') /\ idx'[n] >= 1
          /\ snap'[n].len > 0 => snap'[n].arr # 0
      BY <1>0, <3>1, <3>2
    <3>5. \A d \in gone'[n] : chan'[d] = "closed"
      BY <1>0, <3>1
    <3>6. \A k \in 1..snap'[n].len : heap'[snap'[n].arr][k] \in (Chans \ gone'[n]) \cap Open'
      BY <1>0, <1>1, <3>1, <3>3
    <3>7. lock' = Nil /\ npc'[n] # "send"
      BY <1>0, <3>1
    <3> QED
      BY <2>1, <3>4, <3>5, <3>6, <3>7 DEF Walk
  <2>2. CASE m # n
    <3>1. /\ snap'[m] = snap[m] /\ idx'[m] = idx[m] /\ npc'[m] = npc[m]
          /\ gone'[m] = gone[m]
      BY <1>0, <2>2 DEF TypeOK
    <3>2. Walk(m)
      BY <1>0, <3>1 DEF WalkOK, Active
    <3> QED
      BY <1>0, <1>1, <3>1, <3>2 DEF Walk
  <2> QED
    BY <2>1, <2>2
<1>5. PanicOnlyFromOverlap'
  BY <1>0 DEF PanicOnlyFromOverlap
<1> QED
  BY <1>2, <1>3, <1>4, <1>5 DEF IInv

(* Reading a slot hands its word to the send.                              *)
LEMMA NotifyReadStep ==
    ASSUME IInv, NEW n \in Notes, NotifyRead(n)
    PROVE  IInv'
<1> USE SyncAssumption
<1>0. /\ TypeOK /\ HeaderOK /\ RegistryExact /\ WalkOK
      /\ ~panicked /\ npc[n] = "range" /\ idx[n] <= snap[n].len
      /\ npc' = [npc EXCEPT ![n] = "send"]
      /\ cur' = [cur EXCEPT ![n] = heap[snap[n].arr][idx[n]]]
      /\ UNCHANGED <<heap, subs, lock, pos, chan, log, taken, snap, idx, panicked,
                     present, gone, earlier, full, overlap>>
  BY DEF IInv, NotifyRead, regVars, chanVars, histVars
<1>1. Walk(n) /\ idx[n] \in 1..snap[n].len
  BY <1>0 DEF WalkOK, Active, Walk, TypeOK, Header
<1>2. Open' = Open
  BY <1>0 DEF Open
<1>3. TypeOK'
  <2>1. \A d \in Chans : Buffered(d)' = Buffered(d)
    BY <1>0 DEF Buffered
  <2>2. heap[snap[n].arr][idx[n]] \in Word
    BY <1>1 DEF Walk, Word
  <2> QED
    BY <1>0, <2>1, <2>2 DEF TypeOK
<1>4. HeaderOK' /\ RegistryExact'
  BY <1>0, <1>2 DEF HeaderOK, RegistryExact, Listed, LiveSlots, Hole
<1>5. WalkOK'
  <2> SUFFICES ASSUME NEW m \in Notes, Active(m)'
               PROVE  Walk(m)'
    BY DEF WalkOK
  <2>1. CASE m = n
    <3>1. cur'[n] = heap[snap[n].arr][idx[n]]
      BY <1>0 DEF TypeOK
    <3> QED
      BY <1>0, <1>1, <1>2, <2>1, <3>1 DEF Walk
  <2>2. CASE m # n
    <3>1. cur'[m] = cur[m] /\ npc'[m] = npc[m]
      BY <1>0, <2>2 DEF TypeOK
    <3>2. Walk(m)
      BY <1>0, <3>1 DEF WalkOK, Active
    <3> QED
      BY <1>0, <1>2, <3>1, <3>2 DEF Walk
  <2> QED
    BY <2>1, <2>2
<1>6. PanicOnlyFromOverlap'
  BY <1>0 DEF PanicOnlyFromOverlap
<1> QED
  BY <1>3, <1>4, <1>5, <1>6 DEF IInv

(* A send changes the log or the set of full subscribers; it panics only   *)
(* in a call that was overlapped, because otherwise its channel is open.   *)
LEMMA NotifySendStep ==
    ASSUME IInv, NEW n \in Notes, NotifySend(n)
    PROVE  IInv'
<1> USE SyncAssumption
<1>0. /\ TypeOK /\ HeaderOK /\ RegistryExact /\ WalkOK
      /\ ~panicked /\ npc[n] = "send"
      /\ npc' = [npc EXCEPT ![n] = "range"]
      /\ idx' = [idx EXCEPT ![n] = @ + 1]
      /\ UNCHANGED <<heap, subs, lock, pos, chan, taken, snap, cur,
                     present, gone, earlier, overlap>>
  BY DEF IInv, NotifySend, regVars
<1>1. Walk(n) /\ cur[n] \in Chans
  BY <1>0 DEF WalkOK, Active, Walk
<1>2. Open' = Open
  BY <1>0 DEF Open
<1>3. TypeOK'
  <2>1. /\ idx' \in [Notes -> Nat]
        /\ npc' \in [Notes -> {"new", "range", "send", "done"}]
    BY <1>0 DEF TypeOK
  <2>2. /\ log' \in [Chans -> Seq(Notes)]
        /\ full' \in [Notes -> SUBSET Chans]
        /\ panicked' \in BOOLEAN
        /\ \A d \in Chans : Buffered(d)' \in 0..BufCap
    <3>1. CASE Enqueue(n)
      <4>1. /\ log' = [log EXCEPT ![cur[n]] = Append(@, n)]
            /\ full' = full /\ panicked' = panicked
        BY <3>1 DEF Enqueue
      <4>2. log \in [Chans -> Seq(Notes)] /\ taken \in [Chans -> Nat]
        BY <1>0 DEF TypeOK
      <4>3. /\ log'[cur[n]] = Append(log[cur[n]], n)
            /\ Len(log'[cur[n]]) = Len(log[cur[n]]) + 1
            /\ \A d \in Chans : d # cur[n] => log'[d] = log[d]
        BY <1>1, <4>1, <4>2
      <4>4. Buffered(cur[n])' \in 0..BufCap
        BY <1>0, <1>1, <3>1, <4>2, <4>3 DEF Enqueue, Buffered, TypeOK
      <4>5. \A d \in Chans : d # cur[n] => Buffered(d)' \in 0..BufCap
        BY <1>0, <4>3 DEF Buffered, TypeOK
      <4>6. log' \in [Chans -> Seq(Notes)]
        BY <1>1, <4>1, <4>2
      <4> QED
        BY <1>0, <4>1, <4>4, <4>5, <4>6 DEF TypeOK
    <3>2. CASE Drop(n)
      <4>1. \A d \in Chans : Buffered(d)' = Buffered(d)
        BY <1>0, <3>2 DEF Drop, Buffered
      <4>2. full' \in [Notes -> SUBSET Chans]
        BY <1>0, <1>1, <3>2 DEF Drop, TypeOK
      <4> QED
        BY <1>0, <3>2, <4>1, <4>2 DEF Drop, TypeOK
    <3>3. CASE Panic(n)
      <4>1. \A d \in Chans : Buffered(d)' = Buffered(d)
        BY <1>0, <3>3 DEF Panic, Buffered
      <4> QED
        BY <1>0, <3>3, <4>1 DEF Panic, TypeOK
    <3> QED
      BY <3>1, <3>2, <3>3 DEF NotifySend
  <2> QED
    BY <1>0, <2>1, <2>2 DEF TypeOK
<1>4. HeaderOK' /\ RegistryExact'
  BY <1>0, <1>2 DEF HeaderOK, RegistryExact, Listed, LiveSlots, Hole
<1>5. WalkOK'
  <2> SUFFICES ASSUME NEW m \in Notes, Active(m)'
               PROVE  Walk(m)'
    BY DEF WalkOK
  <2>1. /\ m = n => npc'[m] = "range" /\ idx'[m] = idx[m] + 1
        /\ m # n => npc'[m] = npc[m] /\ idx'[m] = idx[m]
        /\ idx[m] \in Nat
    BY <1>0 DEF TypeOK
  <2>2. Walk(m)
    BY <1>0, <2>1 DEF WalkOK, Active
  <2>3. idx'[m] >= 1
    BY <2>1, <2>2 DEF Walk
  <2> QED
    BY <1>0, <1>2, <2>1, <2>2, <2>3 DEF Walk
<1>6. PanicOnlyFromOverlap'
  <2>1. CASE Panic(n)
    <3>1. overlap[n]
      BY <1>0, <1>1, <2>1 DEF Panic, Walk, Open
    <3>2. npc'[n] = "range"
      BY <1>0 DEF TypeOK
    <3> QED
      BY <1>0, <3>1, <3>2 DEF PanicOnlyFromOverlap, Active
  <2>2. CASE Enqueue(n) \/ Drop(n)
    BY <1>0, <2>2 DEF Enqueue, Drop, PanicOnlyFromOverlap
  <2> QED
    BY <2>1, <2>2 DEF NotifySend
<1> QED
  BY <1>3, <1>4, <1>5, <1>6 DEF IInv

(* The end of a call and a receive touch neither the registry nor a walk.  *)
LEMMA NotifyEndStep ==
    ASSUME IInv, NEW n \in Notes, NotifyEnd(n)
    PROVE  IInv'
<1>0. /\ TypeOK /\ HeaderOK /\ RegistryExact /\ WalkOK /\ ~panicked
      /\ npc' = [npc EXCEPT ![n] = "done"]
      /\ UNCHANGED <<heap, subs, lock, pos, chan, log, taken, snap, idx, cur, panicked,
                     present, gone, earlier, full, overlap>>
  BY DEF IInv, NotifyEnd, regVars, chanVars, histVars
<1>1. Open' = Open
  BY <1>0 DEF Open
<1>2. TypeOK'
  <2>1. \A d \in Chans : Buffered(d)' = Buffered(d)
    BY <1>0 DEF Buffered
  <2> QED
    BY <1>0, <2>1 DEF TypeOK
<1>3. HeaderOK' /\ RegistryExact'
  BY <1>0, <1>1 DEF HeaderOK, RegistryExact, Listed, LiveSlots, Hole
<1>4. WalkOK'
  <2> SUFFICES ASSUME NEW m \in Notes, Active(m)'
               PROVE  Walk(m)'
    BY DEF WalkOK
  <2>1. npc'[m] = npc[m]
    BY <1>0 DEF TypeOK, Active
  <2> QED
    BY <1>0, <1>1, <2>1 DEF WalkOK, Active, Walk
<1>5. PanicOnlyFromOverlap'
  BY <1>0 DEF PanicOnlyFromOverlap
<1> QED
  BY <1>2, <1>3, <1>4, <1>5 DEF IInv

LEMMA ReceiveStep ==
    ASSUME IInv, NEW c \in Chans, Receive(c)
    PROVE  IInv'
<1>0. /\ TypeOK /\ HeaderOK /\ RegistryExact /\ WalkOK /\ ~panicked
      /\ Buffered(c) > 0
      /\ taken' = [taken EXCEPT ![c] = @ + 1]
      /\ UNCHANGED <<heap, subs, lock, pos, chan, log, npc, snap, idx, cur, panicked,
                     present, gone, earlier, full, overlap>>
  BY DEF IInv, Receive, regVars, callVars, histVars
<1>1. Open' = Open
  BY <1>0 DEF Open
<1>2. TypeOK'
  <2>1. taken' \in [Chans -> Nat] /\ log \in [Chans -> Seq(Notes)]
    BY <1>0 DEF TypeOK
  <2>2. \A d \in Chans : Len(log[d]) \in Nat
    BY <2>1
  <2>3. \A d \in Chans : Buffered(d)' \in 0..BufCap
    BY <1>0, <2>2, SyncAssumption DEF Buffered, TypeOK
  <2> QED
    BY <1>0, <2>1, <2>3 DEF TypeOK
<1>3. HeaderOK' /\ RegistryExact'
  BY <1>0, <1>1 DEF HeaderOK, RegistryExact, Listed, LiveSlots, Hole
<1>4. WalkOK'
  BY <1>0, <1>1 DEF WalkOK, Active, Walk
<1>5. PanicOnlyFromOverlap'
  BY <1>0 DEF PanicOnlyFromOverlap
<1> QED
  BY <1>2, <1>3, <1>4, <1>5 DEF IInv

----------------------------------------------------------------------------
(* The inductive invariant holds of every behaviour: types, an exact       *)
(* registry and walks over channels that were open when they began.        *)
THEOREM Invariance == Spec => []IInv
<1>1. Init => IInv
  BY InitIInv
<1>2. IInv /\ [Next]_vars => IInv'
  <2> SUFFICES ASSUME IInv, [Next]_vars PROVE IInv'
    OBVIOUS
  <2>1. CASE \E c \in Chans : Subscribe(c) \/ Cancel(c) \/ Receive(c)
    BY <2>1, SubscribeStep, CancelFindStep, CancelShiftStep, CancelCloseStep,
       ReceiveStep DEF Cancel
  <2>2. CASE \E n \in Notes : Notify(n)
    BY <2>2, NotifyBeginStep, NotifyReadStep, NotifySendStep, NotifyEndStep DEF Notify
  <2>3. CASE UNCHANGED vars
    <3>1. UNCHANGED <<heap, subs, lock, pos, chan, log, taken, npc, snap, idx, cur,
                      panicked, present, gone, earlier, full, overlap>>
      BY <2>3 DEF vars, regVars, chanVars, callVars, histVars
    <3>2. Open' = Open /\ Listed' = Listed /\ LiveSlots' = LiveSlots
      BY <3>1 DEF Open, Listed, LiveSlots, Hole
    <3>3. \A c \in Chans : Buffered(c)' = Buffered(c)
      BY <3>1 DEF Buffered
    <3>4. TypeOK'
      BY <3>1, <3>3 DEF IInv, TypeOK
    <3>5. HeaderOK' /\ RegistryExact'
      BY <3>1, <3>2 DEF IInv, HeaderOK, RegistryExact
    <3>6. WalkOK' /\ PanicOnlyFromOverlap'
      BY <3>1, <3>2 DEF IInv, WalkOK, Walk, Active, PanicOnlyFromOverlap
    <3> QED
      BY <3>4, <3>5, <3>6 DEF IInv
  <2> QED
    BY <2>1, <2>2, <2>3 DEF Next
<1> QED
  BY <1>1, <1>2, PTL DEF Spec

(* Type correctness, with every channel within its capacity.               *)
THEOREM TypeCorrect == Spec => []TypeOK
  BY Invariance, PTL DEF IInv

(* At every step of any number of concurrent Subscribe, cancel and notify  *)
(* calls the registry lists each subscriber exactly once.                  *)
THEOREM RegistryStaysExact == Spec => []RegistryExact
  BY Invariance, PTL DEF IInv

(* A notify call never sends to a channel closed before the call began,    *)
(* and the process only dies of a send on a closed channel if a cancel     *)
(* began while a notify call was under way.                                *)
THEOREM ClosedLeftAlone == Spec => []ClosedIsLeftAlone
<1>1. IInv => NeverTouchesGone
  BY DEF IInv, WalkOK, Walk, NeverTouchesGone, Active
<1>2. IInv => ClosedIsLeftAlone
  BY <1>1 DEF IInv, ClosedIsLeftAlone
<1> QED
  BY <1>2, Invariance, PTL

-----------------------------------------------------------------------------
(* What the registry delivers: Spec of SyncService.                        *)

(* Nothing has been delivered for a call that has not begun.               *)
Fresh ==
    \A n \in Notes : npc[n] = "new" =>
        full[n] = {} /\ \A c \in Chans : ~Delivered(n, c)

(* A call that was over when another began stays over.                     *)
Settled == \A n, m \in Notes : m \in earlier[n] => npc[m] = "done"

(* The array an undisturbed walk goes through: its words are distinct, the *)
(* ones from idx on are those the call owes its event, and appends happen  *)
(* behind its end.                                                         *)
Course(n) ==
    LET word(k) == heap[snap[n].arr][k] IN
    /\ snap[n].arr = subs.arr => snap[n].len <= subs.len
    /\ \A j, k \in 1..snap[n].len : word(j) = word(k) => j = k
    /\ \A k \in 1..snap[n].len : word(k) \in Owed(n) <=> idx[n] <= k
    /\ \A c \in Owed(n) : \E k \in 1..snap[n].len : word(k) = c
    /\ npc[n] = "send" => idx[n] <= snap[n].len /\ cur[n] = word(idx[n])

CourseOK == \A n \in Notes : Active(n) /\ ~overlap[n] => Course(n)

(* What an undisturbed call has delivered.                                 *)
Tally(n) ==
    \A c \in Chans :
        /\ Delivered(n, c) => c \in present[n] \ full[n]
        /\ \A i, j \in DOMAIN log[c] : log[c][i] = n /\ log[c][j] = n => i = j

TallyOK == \A n \in Notes : npc[n] # "new" /\ ~overlap[n] => Tally(n)

DoneOK == \A n \in Notes : npc[n] = "done" /\ ~overlap[n] => Owed(n) = {}

DInv ==
    /\ Fresh
    /\ Settled
    /\ CourseOK
    /\ TallyOK
    /\ DoneOK
    /\ CallOrderKept

----------------------------------------------------------------------------
(* A step that delivers nothing and begins no call leaves what the calls   *)
(* have delivered and owe as it was.                                       *)
LEMMA OwedFrame ==
    ASSUME UNCHANGED <<log, full, present>>
    PROVE  /\ \A n \in Notes : Owed(n)' = Owed(n)
           /\ \A n \in Notes, c \in Chans : Delivered(n, c)' = Delivered(n, c)
  BY DEF Owed, Delivered

(* The parts of DInv that only a begin, a send or an end can disturb.      *)
LEMMA RestFrame ==
    ASSUME DInv, UNCHANGED <<log, full, present, earlier, npc>>,
           \A n \in Notes : overlap[n] => overlap'[n]
    PROVE  /\ Fresh' /\ Settled' /\ TallyOK' /\ DoneOK' /\ CallOrderKept'
<1>1. /\ \A n \in Notes : Owed(n)' = Owed(n)
      /\ \A n \in Notes, c \in Chans : Delivered(n, c)' = Delivered(n, c)
  BY OwedFrame
<1>2. Fresh' /\ Settled' /\ DoneOK'
  BY <1>1 DEF DInv, Fresh, Settled, DoneOK
<1>3. TallyOK'
  BY <1>1 DEF DInv, TallyOK, Tally
<1>4. CallOrderKept'
  BY DEF DInv, CallOrderKept
<1> QED
  BY <1>2, <1>3, <1>4

----------------------------------------------------------------------------
LEMMA InitDInv == Init => DInv
<1> SUFFICES ASSUME Init PROVE DInv
  OBVIOUS
<1> USE DEF Init
<1>1. \A c \in Chans : DOMAIN log[c] = {}
  OBVIOUS
<1>2. Fresh
  BY <1>1 DEF Fresh, Delivered
<1>3. Settled /\ CourseOK /\ TallyOK /\ DoneOK
  BY DEF Settled, CourseOK, Active, TallyOK, DoneOK
<1>4. CallOrderKept
  BY <1>1 DEF CallOrderKept
<1> QED
  BY <1>2, <1>3, <1>4 DEF DInv

(* Subscribe writes one word: behind the list, or into a new array.        *)
LEMMA SubscribeWrites ==
    ASSUME IInv, NEW c \in Chans, Subscribe(c)
    PROVE  /\ subs'.len = subs.len + 1
           /\ subs'.arr = subs.arr \/ subs'.arr = Len(heap) + 1
           /\ \A b \in 1..Len(heap), j \in Slots :
                 heap'[b][j] = heap[b][j] \/ (b = subs.arr /\ j = subs.len + 1)
<1>0. /\ subs \in Header /\ subs.len \in 0..MaxSubs /\ subs.len < MaxSubs
      /\ subs.arr \in 0..Len(heap) /\ subs.cap \in Nat /\ Len(heap) \in Nat
      /\ heap \in Seq(Array) /\ HeaderOK
  BY DEF IInv, TypeOK, Header, Subscribe
<1>1. CASE AppendInPlace(c)
  <2>1. subs.arr \in 1..Len(heap) /\ subs.len + 1 \in Slots /\ c \in Word
    BY <1>0, <1>1, SyncAssumption DEF AppendInPlace, HeaderOK, Slots, Word
  <2>2. heap' = HeapSet(heap, subs.arr, subs.len + 1, c)
    BY <1>1 DEF AppendInPlace, HeapSet
  <2>3. \A b \in 1..Len(heap), j \in Slots :
            heap'[b][j] = IF b = subs.arr /\ j = subs.len + 1 THEN c ELSE heap[b][j]
    BY <1>0, <2>1, <2>2, HeapWrite
  <2>4. subs'.len = subs.len + 1 /\ subs'.arr = subs.arr
    BY <1>0, <1>1 DEF AppendInPlace, Header
  <2> QED
    BY <2>3, <2>4
<1>2. CASE AppendGrowing(c)
  <2>1. \E a : heap' = Append(heap, a)
    BY <1>2 DEF AppendGrowing
  <2>2. \A b \in 1..Len(heap) : heap'[b] = heap[b]
    BY <1>0, <2>1
  <2>3. subs'.len = subs.len + 1 /\ subs'.arr = Len(heap) + 1
    BY <1>2 DEF AppendGrowing
  <2> QED
    BY <2>2, <2>3
<1> QED
  BY <1>1, <1>2 DEF Subscribe

(* Subscribe appends behind the end of every undisturbed walk.             *)
LEMMA SubscribeDelivery ==
    ASSUME IInv, DInv, NEW c \in Chans, Subscribe(c)
    PROVE  DInv'
<1>0. UNCHANGED <<log, taken, npc, snap, idx, cur, present, gone, earlier, full, overlap>>
  BY DEF Subscribe, chanVars, callVars, histVars
<1>1. CourseOK'
  <2> SUFFICES ASSUME NEW n \in Notes, Active(n)', ~overlap'[n]
               PROVE  Course(n)'
    BY DEF CourseOK
  <2>1. Course(n) /\ Walk(n)
    BY <1>0 DEF DInv, IInv, CourseOK, WalkOK, Active
  <2>2. /\ snap[n].arr \in 0..Len(heap) /\ snap[n].len \in 0..MaxSubs
        /\ subs.len \in 0..MaxSubs /\ Len(heap) \in Nat
        /\ snap[n].len > 0 => snap[n].arr # 0
    BY <2>1 DEF Walk, IInv, TypeOK, Header
  <2>3. \A k \in 1..snap[n].len : heap'[snap[n].arr][k] = heap[snap[n].arr][k]
    <3> TAKE k \in 1..snap[n].len
    <3>1. snap[n].arr \in 1..Len(heap) /\ k \in Slots
      BY <2>2, SyncAssumption DEF Slots
    <3>2. snap[n].arr = subs.arr => k # subs.len + 1
      BY <2>1, <2>2 DEF Course
    <3> QED
      BY <3>1, <3>2, SubscribeWrites
  <2>4. snap[n].arr = subs'.arr => snap[n].len <= subs'.len
    BY <2>1, <2>2, SubscribeWrites DEF Course
  <2>5. Owed(n)' = Owed(n)
    BY <1>0, OwedFrame
  <2>6. idx[n] \in Nat /\ (npc[n] = "send" => idx[n] \in 1..snap[n].len)
    BY <2>1, <2>2 DEF Walk, Course, IInv, TypeOK
  <2> QED
    BY <1>0, <2>1, <2>3, <2>4, <2>5, <2>6 DEF Course
<1> QED
  BY <1>0, <1>1, RestFrame DEF DInv

(* From the moment a cancel holds the lock no call under way counts as     *)
(* undisturbed.                                                            *)
LEMMA CancelDelivery ==
    ASSUME IInv, DInv, NEW c \in Chans, Cancel(c)
    PROVE  DInv'
<1>1. CASE CancelFind(c)
  <2>0. /\ UNCHANGED <<log, npc, present, earlier, full>>
        /\ overlap' = [n \in Notes |-> overlap[n] \/ Active(n)]
    BY <1>1 DEF CancelFind, chanVars, callVars
  <2>1. CourseOK'
    BY <2>0 DEF CourseOK, Active
  <2>2. \A n \in Notes : overlap[n] => overlap'[n]
    BY <2>0
  <2> QED
    BY <2>0, <2>1, <2>2, RestFrame DEF DInv
<1>2. CASE CancelShift(c) \/ CancelClose(c)
  <2>0. UNCHANGED <<log, npc, present, earlier, full, overlap>> /\ lock = c
    BY <1>2 DEF CancelShift, CancelClose, chanVars, callVars, histVars
  <2>1. \A n \in Notes : Active(n) => overlap[n]
    BY <2>0, SyncAssumption DEF IInv, WalkOK, Walk
  <2>2. CourseOK'
    BY <2>0, <2>1 DEF CourseOK, Active
  <2> QED
    BY <2>0, <2>2, RestFrame DEF DInv
<1> QED
  BY <1>1, <1>2 DEF Cancel

(* A receive changes nothing a call looks at.                              *)
LEMMA ReceiveDelivery ==
    ASSUME IInv, DInv, NEW c \in Chans, Receive(c)
    PROVE  DInv'
<1>0. UNCHANGED <<heap, subs, log, npc, snap, idx, cur, present, earlier, full, overlap>>
  BY DEF Receive, regVars, callVars, histVars
<1>1. \A n \in Notes : Owed(n)' = Owed(n)
  BY <1>0, OwedFrame
<1>2. CourseOK'
  BY <1>0, <1>1 DEF DInv, CourseOK, Course, Active
<1> QED
  BY <1>0, <1>2, RestFrame DEF DInv

(* A call begins owing its event to the whole list, whose slots hold each  *)
(* subscriber once.                                                        *)
LEMMA BeginDelivery ==
    ASSUME IInv, DInv, NEW n \in Notes, NotifyBegin(n)
    PROVE  DInv'
<1>0. /\ lock = Nil /\ npc[n] = "new"
      /\ npc' = [npc EXCEPT ![n] = "range"]
      /\ snap' = [snap EXCEPT ![n] = subs]
      /\ idx' = [idx EXCEPT ![n] = 1]
      /\ present' = [present EXCEPT ![n] = Open]
      /\ earlier' = [earlier EXCEPT ![n] = {m \in Notes : npc[m] = "done"}]
      /\ UNCHANGED <<heap, subs, chan, log, cur, full, overlap>>
  BY DEF NotifyBegin, regVars, chanVars
<1>1. /\ TypeOK /\ RegistryExact
      /\ full[n] = {} /\ \A c \in Chans : ~Delivered(n, c)
  BY <1>0 DEF IInv, DInv, Fresh
<1>2. /\ npc'[n] = "range" /\ snap'[n] = subs /\ idx'[n] = 1 /\ present'[n] = Open
      /\ \A m \in Notes \ {n} : /\ npc'[m] = npc[m] /\ snap'[m] = snap[m]
                                /\ idx'[m] = idx[m] /\ present'[m] = present[m]
                                /\ earlier'[m] = earlier[m]
  BY <1>0, <1>1 DEF TypeOK
<1>3. \A m \in Notes, c \in Chans : Delivered(m, c)' = Delivered(m, c)
  BY <1>0 DEF Delivered
<1>4. \A m \in Notes \ {n} : Owed(m)' = Owed(m)
  BY <1>0, <1>2 DEF Owed, Delivered
<1>5. Owed(n)' = Open
  BY <1>0, <1>1, <1>2, <1>3 DEF Owed, Open
<1>6. Fresh'
  BY <1>0, <1>2, <1>3 DEF DInv, Fresh
<1>7. Settled'
  <2> SUFFICES ASSUME NEW m \in Notes, NEW k \in Notes, k \in earlier'[m]
               PROVE  npc'[k] = "done"
    BY DEF Settled
  <2>1. npc[k] = "done"
    BY <1>0, <1>1, <1>2 DEF DInv, Settled, TypeOK
  <2> QED
    BY <1>0, <1>2, <2>1
<1>8. Course(n)'
  <2>1. Listed = Open /\ LiveSlots = 1..subs.len
    BY <1>0, <1>1, SyncAssumption DEF RegistryExact, LiveSlots, Hole, Open
  <2>2. /\ \A j, k \in 1..subs.len : heap[subs.arr][j] = heap[subs.arr][k] => j = k
        /\ \A k \in 1..subs.len : heap[subs.arr][k] \in Open
        /\ \A c \in Open : \E k \in 1..subs.len : heap[subs.arr][k] = c
    BY <1>1, <2>1 DEF RegistryExact, Listed
  <2>3. subs.len \in Nat
    BY <1>1, SyncAssumption DEF TypeOK, Header
  <2> QED
    BY <1>0, <1>2, <1>5, <2>2, <2>3 DEF Course
<1>9. CourseOK'
  <2> SUFFICES ASSUME NEW m \in Notes, m # n, Active(m)', ~overlap'[m]
               PROVE  Course(m)'
    BY <1>8 DEF CourseOK
  <2>1. Course(m)
    BY <1>0, <1>2 DEF DInv, CourseOK, Active
  <2> QED
    BY <1>0, <1>2, <1>4, <2>1 DEF Course
<1>10. TallyOK'
  <2> SUFFICES ASSUME NEW m \in Notes, npc'[m] # "new", ~overlap'[m]
               PROVE  Tally(m)'
    BY DEF TallyOK
  <2>1. CASE m = n
    <3>1. \A c \in Chans : \A i \in DOMAIN log[c] : log[c][i] # n
      BY <1>1 DEF Delivered
    <3> QED
      BY <1>0, <1>1, <1>3, <2>1, <3>1 DEF Tally
  <2>2. CASE m # n
    BY <1>0, <1>2, <1>3, <2>2 DEF DInv, TallyOK, Tally
  <2> QED
    BY <2>1, <2>2
<1>11. DoneOK'
  BY <1>0, <1>2, <1>4 DEF DInv, DoneOK
<1>12. CallOrderKept'
  <2> SUFFICES ASSUME NEW c \in Chans, NEW i \in DOMAIN log[c], NEW j \in DOMAIN log[c], i < j
               PROVE  log[c][j] \notin earlier'[log[c][i]]
    BY <1>0 DEF CallOrderKept
  <2>1. log[c] \in Seq(Notes)
    BY <1>1 DEF TypeOK
  <2>2. log[c][i] \in Notes \ {n}
    BY <1>1, <2>1 DEF Delivered
  <2> QED
    BY <1>2, <2>2 DEF DInv, CallOrderKept
<1> QED
  BY <1>6, <1>7, <1>9, <1>10, <1>11, <1>12 DEF DInv

(* Reading the word at idx hands over one the call still owes.             *)
LEMMA ReadDelivery ==
    ASSUME IInv, DInv, NEW n \in Notes, NotifyRead(n)
    PROVE  DInv'
<1>0. /\ npc[n] = "range" /\ idx[n] <= snap[n].len
      /\ npc' = [npc EXCEPT ![n] = "send"]
      /\ cur' = [cur EXCEPT ![n] = heap[snap[n].arr][idx[n]]]
      /\ UNCHANGED <<heap, subs, log, snap, idx, present, earlier, full, overlap>>
  BY DEF NotifyRead, regVars, chanVars, histVars
<1>1. /\ npc'[n] = "send" /\ cur'[n] = heap[snap[n].arr][idx[n]]
      /\ \A m \in Notes \ {n} : npc'[m] = npc[m] /\ cur'[m] = cur[m]
  BY <1>0 DEF IInv, TypeOK
<1>2. /\ \A m \in Notes : Owed(m)' = Owed(m)
      /\ \A m \in Notes, c \in Chans : Delivered(m, c)' = Delivered(m, c)
  BY <1>0, OwedFrame
<1>3. Fresh' /\ Settled' /\ DoneOK'
  BY <1>0, <1>1, <1>2 DEF DInv, Fresh, Settled, DoneOK
<1>4. CourseOK'
  <2> SUFFICES ASSUME NEW m \in Notes, Active(m)', ~overlap'[m]
               PROVE  Course(m)'
    BY DEF CourseOK
  <2>1. Course(m)
    BY <1>0, <1>1 DEF DInv, CourseOK, Active
  <2> QED
    BY <1>0, <1>1, <1>2, <2>1 DEF Course
<1>5. TallyOK' /\ CallOrderKept'
  BY <1>0, <1>1, <1>2 DEF DInv, TallyOK, Tally, CallOrderKept
<1> QED
  BY <1>3, <1>4, <1>5 DEF DInv

(* The end of an undisturbed walk: idx is past the last slot, so nothing   *)
(* is owed.                                                                *)
LEMMA EndOwesNothing ==
    ASSUME IInv, DInv, NEW n \in Notes, NotifyEnd(n), ~overlap[n]
    PROVE  Owed(n) = {}
<1>1. Course(n) /\ idx[n] > snap[n].len
  BY DEF NotifyEnd, DInv, CourseOK, Active
<1>2. idx[n] \in Nat /\ snap[n].len \in Nat
  BY SyncAssumption DEF IInv, TypeOK, Header
<1> QED
  BY <1>1, <1>2 DEF Course

LEMMA EndDelivery ==
    ASSUME IInv, DInv, NEW n \in Notes, NotifyEnd(n)
    PROVE  DInv'
<1>0. /\ npc[n] = "range" /\ npc' = [npc EXCEPT ![n] = "done"]
      /\ UNCHANGED <<heap, subs, log, snap, idx, cur, present, earlier, full, overlap>>
  BY DEF NotifyEnd, regVars, chanVars, histVars
<1>1. npc'[n] = "done" /\ \A m \in Notes \ {n} : npc'[m] = npc[m]
  BY <1>0 DEF IInv, TypeOK
<1>2. /\ \A m \in Notes : Owed(m)' = Owed(m)
      /\ \A m \in Notes, c \in Chans : Delivered(m, c)' = Delivered(m, c)
  BY <1>0, OwedFrame
<1>3. Fresh' /\ Settled'
  BY <1>0, <1>1, <1>2 DEF DInv, Fresh, Settled
<1>4. CourseOK'
  BY <1>0, <1>1, <1>2 DEF DInv, CourseOK, Course, Active
<1>5. TallyOK' /\ CallOrderKept'
  BY <1>0, <1>1, <1>2 DEF DInv, TallyOK, Tally, CallOrderKept
<1>6. DoneOK'
  BY <1>0, <1>1, <1>2, EndOwesNothing DEF DInv, DoneOK
<1> QED
  BY <1>3, <1>4, <1>5, <1>6 DEF DInv

(* A send of an undisturbed call goes to a subscriber that is owed.        *)
LEMMA SendIsOwed ==
    ASSUME IInv, DInv, NEW n \in Notes, NotifySend(n), ~overlap[n]
    PROVE  cur[n] \in Owed(n)
<1>1. Course(n) /\ Walk(n) /\ npc[n] = "send"
  BY DEF NotifySend, DInv, IInv, CourseOK, WalkOK, Active
<1>2. idx[n] \in 1..snap[n].len
  BY <1>1, SyncAssumption DEF Course, Walk, IInv, TypeOK, Header
<1> QED
  BY <1>1, <1>2 DEF Course

(* What a send leaves owed: one subscriber less.                           *)
LEMMA SendSettles ==
    ASSUME IInv, DInv, NEW n \in Notes, NotifySend(n), ~panicked'
    PROVE  /\ Owed(n)' = Owed(n) \ {cur[n]}
           /\ \A m \in Notes \ {n} : Owed(m)' = Owed(m)
           /\ \A m \in Notes, c \in Chans :
                 Delivered(m, c)' => Delivered(m, c) \/ (m = n /\ c = cur[n])
           /\ \A c \in Chans : /\ Len(log[c]) \in Nat
                               /\ \A i \in DOMAIN log[c] : i \in DOMAIN log'[c] /\ log'[c][i] = log[c][i]
                               /\ \A i \in DOMAIN log'[c] \ DOMAIN log[c] :
                                     c = cur[n] /\ i = Len(log[c]) + 1 /\ log'[c][i] = n
<1>0. TypeOK /\ present' = present /\ cur[n] \in Chans
  BY DEF NotifySend, IInv, WalkOK, Walk, Active
<1>1. log \in [Chans -> Seq(Notes)] /\ full \in [Notes -> SUBSET Chans]
  BY <1>0 DEF TypeOK
<1>2. CASE Enqueue(n)
  <2>1. log' = [log EXCEPT ![cur[n]] = Append(@, n)] /\ full' = full
    BY <1>2 DEF Enqueue
  <2>2. /\ log'[cur[n]] = Append(log[cur[n]], n)
        /\ \A c \in Chans : c # cur[n] => log'[c] = log[c]
    BY <1>0, <1>1, <2>1
  <2>3. /\ DOMAIN log'[cur[n]] = 1..(Len(log[cur[n]]) + 1)
        /\ DOMAIN log[cur[n]] = 1..Len(log[cur[n]]) /\ Len(log[cur[n]]) \in Nat
        /\ \A i \in 1..Len(log[cur[n]]) : log'[cur[n]][i] = log[cur[n]][i]
        /\ log'[cur[n]][Len(log[cur[n]]) + 1] = n
    BY <1>0, <1>1, <2>2
  <2>4. \A c \in Chans : /\ Len(log[c]) \in Nat
                         /\ \A i \in DOMAIN log[c] : i \in DOMAIN log'[c] /\ log'[c][i] = log[c][i]
                         /\ \A i \in DOMAIN log'[c] \ DOMAIN log[c] :
                               c = cur[n] /\ i = Len(log[c]) + 1 /\ log'[c][i] = n
    <3> TAKE c \in Chans
    <3>1. CASE c = cur[n]
      BY <2>3, <3>1
    <3>2. CASE c # cur[n]
      BY <1>1, <2>2, <3>2
    <3> QED
      BY <3>1, <3>2
  <2>5. \A m \in Notes, c \in Chans :
           Delivered(m, c)' <=> Delivered(m, c) \/ (m = n /\ c = cur[n])
    <3> TAKE m \in Notes, c \in Chans
    <3>1. Delivered(m, c)' => Delivered(m, c) \/ (m = n /\ c = cur[n])
      BY <2>4 DEF Delivered
    <3>2. Delivered(m, c) => Delivered(m, c)'
      BY <2>4 DEF Delivered
    <3>3. c = cur[n] => Delivered(n, c)'
      <4>1. Len(log[cur[n]]) + 1 \in DOMAIN log'[cur[n]]
        BY <2>3
      <4> QED
        BY <2>3, <4>1 DEF Delivered
    <3> QED
      BY <3>1, <3>2, <3>3
  <2>6. \A m \in Notes : present[m] \subseteq Chans
    BY <1>0 DEF TypeOK
  <2>7. Owed(n)' = Owed(n) \ {cur[n]}
    BY <1>0, <2>1, <2>5, <2>6 DEF Owed
  <2>8. \A m \in Notes \ {n} : Owed(m)' = Owed(m)
    BY <1>0, <2>1, <2>5, <2>6 DEF Owed
  <2> QED
    BY <2>4, <2>5, <2>7, <2>8
<1>3. CASE Drop(n)
  <2>1. log' = log /\ full' = [full EXCEPT ![n] = @ \cup {cur[n]}]
    BY <1>3 DEF Drop
  <2>2. full'[n] = full[n] \cup {cur[n]} /\ \A m \in Notes \ {n} : full'[m] = full[m]
    BY <1>1, <2>1
  <2>3. \A m \in Notes, c \in Chans : Delivered(m, c)' = Delivered(m, c)
    BY <2>1 DEF Delivered
  <2>4. Owed(n)' = Owed(n) \ {cur[n]} /\ \A m \in Notes \ {n} : Owed(m)' = Owed(m)
    BY <1>0, <2>1, <2>2 DEF Owed, Delivered
  <2> QED
    BY <1>1, <2>1, <2>3, <2>4
<1>4. ~Panic(n)
  BY DEF Panic
<1> QED
  BY <1>2, <1>3, <1>4 DEF NotifySend

LEMMA SendDelivery ==
    ASSUME IInv, DInv, NEW n \in Notes, NotifySend(n)
    PROVE  DInv'
<1>0. /\ npc[n] = "send" /\ npc' = [npc EXCEPT ![n] = "range"]
      /\ idx' = [idx EXCEPT ![n] = @ + 1]
      /\ UNCHANGED <<heap, subs, lock, pos, chan, taken, snap, cur, present, gone, earlier, overlap>>
      /\ TypeOK /\ ~panicked
  BY DEF NotifySend, regVars, IInv
<1>1. /\ npc'[n] = "range" /\ idx'[n] = idx[n] + 1
      /\ \A m \in Notes \ {n} : npc'[m] = npc[m] /\ idx'[m] = idx[m]
  BY <1>0 DEF TypeOK
<1>2. CASE ~panicked'
  <2>1. /\ Owed(n)' = Owed(n) \ {cur[n]}
        /\ \A m \in Notes \ {n} : Owed(m)' = Owed(m)
        /\ \A m \in Notes, c \in Chans :
              Delivered(m, c)' => Delivered(m, c) \/ (m = n /\ c = cur[n])
        /\ \A c \in Chans : /\ Len(log[c]) \in Nat
                            /\ \A i \in DOMAIN log[c] : i \in DOMAIN log'[c] /\ log'[c][i] = log[c][i]
                            /\ \A i \in DOMAIN log'[c] \ DOMAIN log[c] :
                                  c = cur[n] /\ i = Len(log[c]) + 1 /\ log'[c][i] = n
    BY <1>2, SendSettles
  <2>2. /\ \A m \in Notes \ {n} : full'[m] = full[m]
        /\ full'[n] = full[n] \/ full'[n] = full[n] \cup {cur[n]}
    BY <1>0, <1>2 DEF NotifySend, Enqueue, Drop, Panic, TypeOK
  <2>3. Fresh'
    BY <1>1, <2>1, <2>2 DEF DInv, Fresh
  <2>4. Settled'
    BY <1>0, <1>1 DEF DInv, Settled
  <2>5. Course(n)' \/ overlap[n]
    <3> SUFFICES ASSUME ~overlap[n] PROVE Course(n)'
      OBVIOUS
    <3>1. Course(n) /\ Walk(n)
      BY <1>0 DEF DInv, IInv, CourseOK, WalkOK, Active
    <3>2. idx[n] \in 1..snap[n].len /\ snap[n].len \in Nat
      BY <1>0, <3>1, SyncAssumption DEF Course, Walk, TypeOK, Header
    <3>3. cur[n] = heap[snap[n].arr][idx[n]]
      BY <1>0, <3>1 DEF Course
    <3>4. \A k \in 1..snap[n].len : heap[snap[n].arr][k] \in Owed(n)' <=> idx[n] + 1 <= k
      <4> TAKE k \in 1..snap[n].len
      <4>1. heap[snap[n].arr][k] = cur[n] <=> k = idx[n]
        BY <3>1, <3>2, <3>3 DEF Course
      <4>2. idx[n] + 1 <= k <=> idx[n] <= k /\ k # idx[n]
        BY <3>2
      <4> QED
        BY <2>1, <3>1, <4>1, <4>2 DEF Course
    <3> QED
      BY <1>0, <1>1, <2>1, <3>1, <3>4 DEF Course
  <2>6. CourseOK'
    <3> SUFFICES ASSUME NEW m \in Notes, m # n, Active(m)', ~overlap'[m]
                 PROVE  Course(m)'
      BY <1>0, <2>5 DEF CourseOK
    <3>1. Course(m)
      BY <1>0, <1>1 DEF DInv, CourseOK, Active
    <3> QED
      BY <1>0, <1>1, <2>1, <3>1 DEF Course
  <2>7. TallyOK'
    <3> SUFFICES ASSUME NEW m \in Notes, npc'[m] # "new", ~overlap'[m], NEW c \in Chans
                 PROVE  /\ Delivered(m, c)' => c \in present[m] \ full'[m]
                        /\ \A i, j \in DOMAIN log'[c] : log'[c][i] = m /\ log'[c][j] = m => i = j
      BY <1>0 DEF TallyOK, Tally
    <3>1. Tally(m)
      BY <1>0, <1>1 DEF DInv, TallyOK
    <3>2. CASE m = n
      <4>1. cur[n] \in Owed(n)
        BY <1>0, <3>2, SendIsOwed
      <4>2. cur[n] \in present[n] \ full[n] /\ ~Delivered(n, cur[n])
        BY <4>1 DEF Owed
      <4>3. Delivered(n, c)' => c \in present[n] \ full'[n]
        <5>1. CASE Enqueue(n)
          BY <2>1, <3>1, <3>2, <4>2, <5>1 DEF Tally, Enqueue
        <5>2. CASE Drop(n)
          BY <2>1, <2>2, <3>1, <3>2, <4>2, <5>2 DEF Tally, Drop, Delivered
        <5> QED
          BY <1>2, <5>1, <5>2 DEF NotifySend, Panic
      <4>4. \A i, j \in DOMAIN log'[c] : log'[c][i] = n /\ log'[c][j] = n => i = j
        BY <2>1, <3>1, <3>2, <4>2 DEF Tally, Delivered
      <4> QED
        BY <3>2, <4>3, <4>4
    <3>3. CASE m # n
      <4>1. Delivered(m, c)' => c \in present[m] \ full'[m]
        BY <2>1, <2>2, <3>1, <3>3 DEF Tally
      <4>2. \A i \in DOMAIN log'[c] : log'[c][i] = m => i \in DOMAIN log[c] /\ log[c][i] = m
        BY <2>1, <3>3
      <4> QED
        BY <3>1, <4>1, <4>2 DEF Tally
    <3> QED
      BY <3>2, <3>3
  <2>8. DoneOK'
    BY <1>0, <1>1, <2>1 DEF DInv, DoneOK
  <2>9. CallOrderKept'
    <3> SUFFICES ASSUME NEW c \in Chans, NEW i \in DOMAIN log'[c], NEW j \in DOMAIN log'[c], i < j
                 PROVE  log'[c][j] \notin earlier[log'[c][i]]
      BY <1>0 DEF CallOrderKept
    <3>1. log[c] \in Seq(Notes) /\ DOMAIN log[c] = 1..Len(log[c]) /\ Len(log[c]) \in Nat
      BY <1>0 DEF TypeOK
    <3>2. CASE j \in DOMAIN log[c]
      <4>1. i \in DOMAIN log[c]
        BY <2>1, <3>1, <3>2
      <4> QED
        BY <2>1, <3>2, <4>1 DEF DInv, CallOrderKept
    <3>3. CASE j \notin DOMAIN log[c]
      <4>1. log'[c][j] = n
        BY <2>1, <3>3
      <4>2. log'[c][i] \in Notes
        BY <2>1, <3>1
      <4> QED
        BY <1>0, <4>1, <4>2 DEF DInv, Settled
    <3> QED
      BY <3>2, <3>3
  <2> QED
    BY <2>3, <2>4, <2>6, <2>7, <2>8, <2>9 DEF DInv
<1>3. CASE panicked'
  <2>1. Panic(n) /\ log' = log /\ full' = full
    BY <1>0, <1>3 DEF NotifySend, Enqueue, Drop, Panic
  <2>2. overlap[n]
    BY <1>0, <2>1 DEF Panic, IInv, WalkOK, Walk, Active, Open
  <2>3. /\ \A m \in Notes : Owed(m)' = Owed(m)
        /\ \A m \in Notes, c \in Chans : Delivered(m, c)' = Delivered(m, c)
    BY <1>0, <2>1, OwedFrame
  <2>4. Fresh' /\ Settled' /\ DoneOK'
    BY <1>0, <1>1, <2>1, <2>3 DEF DInv, Fresh, Settled, DoneOK
  <2>5. CourseOK'
    <3> SUFFICES ASSUME NEW m \in Notes, Active(m)', ~overlap'[m]
                 PROVE  Course(m)'
      BY DEF CourseOK
    <3>1. m # n
      BY <1>0, <2>2
    <3>2. Course(m)
      BY <1>0, <1>1, <3>1 DEF DInv, CourseOK, Active
    <3> QED
      BY <1>0, <1>1, <2>1, <2>3, <3>1, <3>2 DEF Course
  <2>6. TallyOK' /\ CallOrderKept'
    BY <1>0, <1>1, <2>1, <2>3 DEF DInv, TallyOK, Tally, CallOrderKept
  <2> QED
    BY <2>4, <2>5, <2>6 DEF DInv
<1> QED
  BY <1>2, <1>3

----------------------------------------------------------------------------
(* What the calls have delivered, owe and found settled, in every          *)
(* behaviour.                                                              *)
THEOREM DeliveryInvariance == Spec => []DInv
<1>1. Init => DInv
  BY InitDInv
<1>2. IInv /\ DInv /\ [Next]_vars => DInv'
  <2> SUFFICES ASSUME IInv, DInv, [Next]_vars PROVE DInv'
    OBVIOUS
  <2>1. CASE \E c \in Chans : Subscribe(c) \/ Cancel(c) \/ Receive(c)
    BY <2>1, SubscribeDelivery, CancelDelivery, ReceiveDelivery
  <2>2. CASE \E n \in Notes : Notify(n)
    BY <2>2, BeginDelivery, ReadDelivery, SendDelivery, EndDelivery DEF Notify
  <2>3. CASE UNCHANGED vars
    <3>1. UNCHANGED <<heap, subs, log, npc, snap, idx, cur, present, earlier, full, overlap>>
      BY <2>3 DEF vars, regVars, chanVars, callVars, histVars
    <3>2. \A n \in Notes : Owed(n)' = Owed(n)
      BY <3>1, OwedFrame
    <3>3. CourseOK'
      BY <3>1, <3>2 DEF DInv, CourseOK, Course, Active
    <3> QED
      BY <3>1, <3>3, RestFrame DEF DInv
  <2> QED
    BY <2>1, <2>2, <2>3 DEF Next
<1> QED
  BY <1>1, <1>2, Invariance, PTL DEF Spec

(* Calls that follow one another arrive in that order in every channel.    *)
THEOREM OrderKept == Spec => []CallOrderKept
  BY DeliveryInvariance, PTL DEF DInv

(* A call that no cancel overlapped has put its event exactly once into    *)
(* the channels it found registered, except those that were full.          *)
THEOREM ExactlyOnce == Spec => []ExactlyOnceUnlessOverlapped
<1>1. DInv => ExactlyOnceUnlessOverlapped
  <2> SUFFICES ASSUME DInv, NEW n \in Notes, npc[n] = "done", ~overlap[n], NEW c \in Chans
               PROVE  Deliveries(n, c) = IF c \in present[n] \ full[n] THEN 1 ELSE 0
    BY DEF ExactlyOnceUnlessOverlapped
  <2> DEFINE D == {i \in DOMAIN log[c] : log[c][i] = n}
  <2>1. Owed(n) = {} /\ Tally(n)
    BY DEF DInv, DoneOK, TallyOK
  <2>2. CASE c \in present[n] \ full[n]
    <3>1. Delivered(n, c)
      BY <2>1, <2>2 DEF Owed
    <3>2. PICK i \in DOMAIN log[c] : log[c][i] = n
      BY <3>1 DEF Delivered
    <3>3. D = {i}
      BY <2>1, <3>2 DEF Tally
    <3>4. Cardinality(D) = 1
      BY <3>3, FS_Singleton
    <3> QED
      BY <2>2, <3>4 DEF Deliveries
  <2>3. CASE c \notin present[n] \ full[n]
    <3>1. D = {}
      BY <2>1, <2>3 DEF Tally, Delivered
    <3>2. Cardinality(D) = 0
      BY <3>1, FS_EmptySet
    <3> QED
      BY <2>3, <3>2 DEF Deliveries
  <2> QED
    BY <2>2, <2>3
<1> QED
  BY <1>1, DeliveryInvariance, PTL

----------------------------------------------------------------------------
(* The refinement, step by step.  A call state changes only with npc.      *)
LEMMA CallFrame ==
    ASSUME npc' = npc
    PROVE  CallState' = CallState
  BY DEF CallState, Active

LEMMA OwedByFrame ==
    ASSUME UNCHANGED <<log, full, present>>
    PROVE  OwedBy' = OwedBy
  BY OwedFrame DEF OwedBy

LEMMA SubscribeJoins ==
    ASSUME IInv, NEW c \in Chans, Subscribe(c)
    PROVE  Promise!Next
<1>0. /\ ~panicked /\ chan[c] = "none" /\ chan' = [chan EXCEPT ![c] = "open"]
      /\ UNCHANGED <<log, taken, npc, present, full, overlap, panicked>>
  BY DEF Subscribe, chanVars, callVars, histVars
<1>1. CallState' = CallState /\ OwedBy' = OwedBy
  BY <1>0, CallFrame, OwedByFrame
<1>2. Promise!Join(c)
  BY <1>0, <1>1 DEF Promise!Join
<1> QED
  BY <1>0, <1>2 DEF Promise!Next

(* Finding the leaver shakes the calls under way, closing its channel is   *)
(* the leave; moving words is invisible.                                   *)
LEMMA CancelLeaves ==
    ASSUME IInv, NEW c \in Chans, Cancel(c)
    PROVE  [Promise!Next]_(Promise!vars)
<1>1. CASE CancelFind(c)
  <2>0. /\ ~panicked /\ chan[c] = "open"
        /\ overlap' = [n \in Notes |-> overlap[n] \/ Active(n)]
        /\ UNCHANGED <<chan, log, taken, npc, present, full, panicked>>
    BY <1>1 DEF CancelFind, chanVars, callVars
  <2>1. CallState' = CallState /\ OwedBy' = OwedBy
    BY <2>0, CallFrame, OwedByFrame
  <2>2. \A n \in Notes : CallState[n] = "open" <=> Active(n)
    BY DEF CallState, Active, IInv, TypeOK
  <2>3. overlap' = [n \in Notes |-> overlap[n] \/ CallState[n] = "open"]
    BY <2>0, <2>2
  <2>4. Promise!StartToLeave
    BY <2>0, <2>1, <2>3 DEF Promise!StartToLeave
  <2> QED
    BY <2>0, <2>4 DEF Promise!Next
<1>2. CASE CancelShift(c)
  <2>0. UNCHANGED <<chan, log, taken, npc, present, full, overlap, panicked>>
    BY <1>2 DEF CancelShift, chanVars, callVars, histVars
  <2>1. CallState' = CallState /\ OwedBy' = OwedBy
    BY <2>0, CallFrame, OwedByFrame
  <2> QED
    BY <2>0, <2>1 DEF Promise!vars
<1>3. CASE CancelClose(c)
  <2>0. /\ ~panicked /\ lock = c /\ chan' = [chan EXCEPT ![c] = "closed"]
        /\ UNCHANGED <<log, taken, npc, present, full, overlap, panicked>>
    BY <1>3 DEF CancelClose, chanVars, callVars, histVars
  <2>1. CallState' = CallState /\ OwedBy' = OwedBy
    BY <2>0, CallFrame, OwedByFrame
  <2>2. chan[c] = "open"
    BY <2>0, SyncAssumption DEF IInv, HeaderOK, Open
  <2>3. \A n \in Notes : CallState[n] = "open" => overlap[n]
    BY <2>0, SyncAssumption DEF CallState, Active, IInv, TypeOK, WalkOK, Walk
  <2>4. Promise!Leave(c)
    BY <2>0, <2>1, <2>2, <2>3 DEF Promise!Leave
  <2> QED
    BY <2>0, <2>4 DEF Promise!Next
<1> QED
  BY <1>1, <1>2, <1>3 DEF Cancel

LEMMA ReceiveTakes ==
    ASSUME IInv, NEW c \in Chans, Receive(c)
    PROVE  Promise!Next
<1>0. /\ ~panicked /\ chan[c] = "open" /\ Buffered(c) > 0
      /\ taken' = [taken EXCEPT ![c] = @ + 1]
      /\ UNCHANGED <<chan, log, npc, present, full, overlap, panicked>>
  BY DEF Receive, regVars, callVars, histVars
<1>1. CallState' = CallState /\ OwedBy' = OwedBy
  BY <1>0, CallFrame, OwedByFrame
<1>2. taken[c] < Len(log[c])
  <2>1. log[c] \in Seq(Notes) /\ taken[c] \in Nat
    BY DEF IInv, TypeOK
  <2> QED
    BY <1>0, <2>1 DEF Buffered
<1>3. Promise!Take(c)
  BY <1>0, <1>1, <1>2 DEF Promise!Take
<1> QED
  BY <1>0, <1>3 DEF Promise!Next

LEMMA BeginBegins ==
    ASSUME IInv, DInv, NEW n \in Notes, NotifyBegin(n)
    PROVE  Promise!Next
<1>0. /\ ~panicked /\ npc[n] = "new" /\ npc' = [npc EXCEPT ![n] = "range"]
      /\ present' = [present EXCEPT ![n] = Open]
      /\ UNCHANGED <<chan, log, taken, full, overlap, panicked>>
      /\ TypeOK
  BY DEF NotifyBegin, regVars, chanVars, IInv
<1>1. CallState[n] = "new" /\ CallState' = [CallState EXCEPT ![n] = "open"]
  BY <1>0 DEF CallState, Active, TypeOK
<1>2. OwedBy' = [OwedBy EXCEPT ![n] = {c \in Chans : chan[c] = "open"}]
  <2>1. \A m \in Notes, c \in Chans : Delivered(m, c)' = Delivered(m, c)
    BY <1>0 DEF Delivered
  <2>2. present'[n] = Open /\ \A m \in Notes \ {n} : present'[m] = present[m]
    BY <1>0 DEF TypeOK
  <2>3. \A m \in Notes \ {n} : Owed(m)' = Owed(m)
    BY <1>0, <2>2 DEF Owed, Delivered
  <2>4. full[n] = {} /\ \A c \in Chans : ~Delivered(n, c)
    BY <1>0 DEF DInv, Fresh
  <2>5. Owed(n)' = {c \in Chans : chan[c] = "open"}
    BY <1>0, <2>1, <2>2, <2>4 DEF Owed, Open
  <2> QED
    BY <2>3, <2>5 DEF OwedBy
<1>3. Promise!Begin(n)
  BY <1>0, <1>1, <1>2 DEF Promise!Begin
<1> QED
  BY <1>0, <1>3 DEF Promise!Next

LEMMA ReadStutters ==
    ASSUME IInv, NEW n \in Notes, NotifyRead(n)
    PROVE  UNCHANGED Promise!vars
<1>0. /\ npc[n] = "range" /\ npc' = [npc EXCEPT ![n] = "send"]
      /\ UNCHANGED <<chan, log, taken, present, full, overlap, panicked>>
      /\ TypeOK
  BY DEF NotifyRead, regVars, chanVars, histVars, IInv
<1>1. CallState' = CallState
  BY <1>0 DEF CallState, Active, TypeOK
<1>2. OwedBy' = OwedBy
  BY <1>0, OwedByFrame
<1> QED
  BY <1>0, <1>1, <1>2 DEF Promise!vars

(* A send is an offer to one who is owed, or, in a shaken call, to anyone, *)
(* or the end of the process.                                              *)
LEMMA SendOffers ==
    ASSUME IInv, DInv, NEW n \in Notes, NotifySend(n)
    PROVE  Promise!Next
<1>0. /\ ~panicked /\ npc[n] = "send" /\ npc' = [npc EXCEPT ![n] = "range"]
      /\ UNCHANGED <<chan, taken, present, overlap>>
      /\ TypeOK
  BY DEF NotifySend, regVars, IInv
<1>1. CallState[n] = "open" /\ CallState' = CallState
  BY <1>0 DEF CallState, Active, TypeOK
<1>2. cur[n] \in Chans
  BY <1>0 DEF IInv, WalkOK, Walk, Active
<1>3. CASE Panic(n)
  <2>1. panicked' = TRUE /\ UNCHANGED <<log, full>> /\ overlap[n]
    BY <1>0, <1>3 DEF Panic, IInv, WalkOK, Walk, Active, Open
  <2>2. OwedBy' = OwedBy
    BY <1>0, <2>1, OwedByFrame
  <2>3. Promise!Die
    BY <1>0, <1>1, <2>1, <2>2 DEF Promise!Die
  <2> QED
    BY <1>0, <2>3 DEF Promise!Next
<1>4. CASE Enqueue(n) \/ Drop(n)
  <2>1. panicked' = panicked /\ chan[cur[n]] # "closed"
    BY <1>4 DEF Enqueue, Drop
  <2>2. OwedBy' = [OwedBy EXCEPT ![n] = @ \ {cur[n]}]
    <3>1. Owed(n)' = Owed(n) \ {cur[n]} /\ \A m \in Notes \ {n} : Owed(m)' = Owed(m)
      BY <1>0, <2>1, SendSettles
    <3> QED
      BY <3>1 DEF OwedBy
  <2>3. cur[n] \in OwedBy[n] \/ overlap[n]
    BY SendIsOwed DEF OwedBy
  <2>4. IF Len(log[cur[n]]) - taken[cur[n]] < BufCap
        THEN log' = [log EXCEPT ![cur[n]] = Append(@, n)] ELSE UNCHANGED log
    <3>1. Len(log[cur[n]]) - taken[cur[n]] \in 0..BufCap /\ BufCap \in Nat
      BY <1>0, <1>2, SyncAssumption DEF TypeOK, Buffered
    <3> QED
      BY <1>4, <3>1 DEF Enqueue, Drop, Buffered
  <2>5. Promise!Offer(n, cur[n])
    BY <1>0, <1>1, <2>1, <2>2, <2>3, <2>4 DEF Promise!Offer
  <2> QED
    BY <1>0, <1>2, <2>5 DEF Promise!Next
<1> QED
  BY <1>3, <1>4 DEF NotifySend

LEMMA EndEnds ==
    ASSUME IInv, DInv, NEW n \in Notes, NotifyEnd(n)
    PROVE  Promise!Next
<1>0. /\ ~panicked /\ npc[n] = "range" /\ npc' = [npc EXCEPT ![n] = "done"]
      /\ UNCHANGED <<chan, log, taken, present, full, overlap, panicked>>
      /\ TypeOK
  BY DEF NotifyEnd, regVars, chanVars, histVars, IInv
<1>1. CallState[n] = "open" /\ CallState' = [CallState EXCEPT ![n] = "done"]
  BY <1>0 DEF CallState, Active, TypeOK
<1>2. OwedBy' = OwedBy /\ (OwedBy[n] = {} \/ overlap[n])
  BY <1>0, OwedByFrame, EndOwesNothing DEF OwedBy
<1>3. Promise!End(n)
  BY <1>0, <1>1, <1>2 DEF Promise!End
<1> QED
  BY <1>0, <1>3 DEF Promise!Next

(* The registry implements Broadcast, for any number of subscribers, calls *)
(* and any capacity.                                                       *)
THEOREM RegistryKeepsPromise == Spec => KeepsPromise
<1>1. Init => Promise!Init
  <2> SUFFICES ASSUME Init PROVE Promise!Init
    OBVIOUS
  <2>1. CallState = [n \in Notes |-> "new"]
    BY DEF Init, CallState, Active
  <2>2. OwedBy = [n \in Notes |-> {}]
    BY DEF Init, OwedBy, Owed
  <2> QED
    BY <2>1, <2>2 DEF Init, Promise!Init
<1>2. IInv /\ DInv /\ [Next]_vars => [Promise!Next]_(Promise!vars)
  <2> SUFFICES ASSUME IInv, DInv, [Next]_vars
               PROVE  [Promise!Next]_(Promise!vars)
    OBVIOUS
  <2>1. CASE \E c \in Chans : Subscribe(c) \/ Cancel(c) \/ Receive(c)
    BY <2>1, SubscribeJoins, CancelLeaves, ReceiveTakes
  <2>2. CASE \E n \in Notes : Notify(n)
    BY <2>2, BeginBegins, ReadStutters, SendOffers, EndEnds DEF Notify
  <2>3. CASE UNCHANGED vars
    <3>1. UNCHANGED <<chan, log, taken, npc, present, full, overlap, panicked>>
      BY <2>3 DEF vars, regVars, chanVars, callVars, histVars
    <3>2. CallState' = CallState /\ OwedBy' = OwedBy
      BY <3>1, CallFrame, OwedByFrame
    <3> QED
      BY <3>1, <3>2 DEF Promise!vars
  <2> QED
    BY <2>1, <2>2, <2>3 DEF Next
<1> QED
  BY <1>1, <1>2, Invariance, DeliveryInvariance, PTL DEF Spec, KeepsPromise, Promise!Spec

-----------------------------------------------------------------------------
(* Mutations, streams and the registry: VSSpec of VaultSync.               *)

Event == [kind : {"upsert", "delete"}, item : ItemIds, ver : Nat]

VTypes ==
    /\ rows \subseteq Row /\ IsFiniteSet(rows)
    /\ top \in [ItemIds -> Nat]
    /\ clock \in Nat
    /\ evt \in [Notes -> Event \cup {<<>>}]
    /\ hpc \in [Chans -> {"idle", "listed", "caught", "ended"}]
    /\ known \in [Chans -> [ItemIds -> Nat]]
    /\ pend \in [Chans -> SUBSET Row]
    /\ \A c \in Chans : IsFiniteSet(pend[c])
    /\ streamed \in [Chans -> Seq(Event)]
    /\ unlisted \in [Chans -> SUBSET Row]
    /\ gap \in [Chans -> SUBSET Notes]
    /\ liveAt \in [Notes -> SUBSET Chans]

(* The table holds one row per id, at the last version the id has had, and *)
(* no announced version is beyond it.                                      *)
TableOK ==
    /\ \A r, s \in rows : r.id = s.id => r = s
    /\ \A r \in rows : r.ver = top[r.id]
    /\ \A n \in Notes : IsUpsert(n) => 1 <= evt[n].ver /\ evt[n].ver <= top[evt[n].item]

(* The version every row has is the event of some mutation.                *)
RowsAnnounced ==
    \A r \in rows : \E n \in Notes :
        IsUpsert(n) /\ evt[n].item = r.id /\ evt[n].ver = r.ver

(* A mutation is announced after its commit, and a stream registered at    *)
(* the commit is among those the call finds, unless it has ended.          *)
AnnounceOK ==
    /\ \A n \in Notes : evt[n] = <<>> => npc[n] = "new"
    /\ \A n \in Notes : \A c \in liveAt[n] :
          /\ chan[c] # "none"
          /\ npc[n] # "new" => c \in present[n] \/ chan[c] = "closed"

(* A stream registers once it has caught up, and what it was to send and   *)
(* what it has received have gone out.                                     *)
StreamOK ==
    \A c \in Chans :
        /\ IF chan[c] = "none" THEN taken[c] = 0 ELSE hpc[c] = "caught"
        /\ hpc[c] = "caught" => \A r \in pend[c] :
              \E k \in DOMAIN streamed[c] : streamed[c][k] = Upsert(r.id, r.ver)
        /\ \A j \in 1..taken[c] :
              \E k \in DOMAIN streamed[c] : streamed[c][k] = evt[log[c][j]]

(* Where a committed version is, as seen from a stream that has listed.    *)
Accounted(c, n) ==
    LET i == evt[n].item
        v == evt[n].ver
    IN  \/ n \in gap[c]
        \/ i \notin Ids(rows)
        \/ \E r \in unlisted[c] : r.id = i /\ r.ver >= v
        \/ known[c][i] >= v
        \/ \E r \in pend[c] : r.id = i /\ r.ver >= v
        \/ c \in liveAt[n]
        \/ chan[c] = "closed" \/ lock = c

AllAccounted ==
    \A c \in Chans, n \in Notes :
        hpc[c] \in {"listed", "caught"} /\ IsUpsert(n) => Accounted(c, n)

VInv ==
    /\ VTypes
    /\ TableOK
    /\ RowsAnnounced
    /\ VersionsDistinct
    /\ AnnounceOK
    /\ StreamOK
    /\ AllAccounted
----------------------------------------------------------------------------
(* The composition takes only steps of the registry.                       *)
LEMMA InitRefines == VSInit => Init
  BY DEF VSInit

LEMMA StepRefines == [VSNext]_allVars => [Next]_vars
<1> SUFFICES ASSUME [VSNext]_allVars PROVE [Next]_vars
  OBVIOUS
<1>1. ASSUME NEW n \in Notes, VaultCreate(n) \/ VaultUpdate(n) \/ VaultDelete(n)
      PROVE  UNCHANGED vars
  BY <1>1 DEF VaultCreate, VaultUpdate, VaultDelete, Committed
<1>2. ASSUME NEW n \in Notes, VaultNotify(n)
      PROVE  Notify(n)
  BY <1>2 DEF VaultNotify
<1>3. ASSUME NEW c \in Chans, StreamList(c) \/ StreamSendMissing(c) \/ StreamAbort(c)
      PROVE  UNCHANGED vars
  BY <1>3 DEF StreamList, StreamSendMissing, StreamAbort
<1>4. ASSUME NEW c \in Chans, StreamSubscribe(c) \/ StreamForward(c) \/ StreamCancel(c)
      PROVE  Subscribe(c) \/ Receive(c) \/ Cancel(c)
  BY <1>4 DEF StreamSubscribe, StreamForward, StreamCancel
<1>5. UNCHANGED allVars => UNCHANGED vars
  BY DEF allVars
<1> QED
  BY <1>1, <1>2, <1>3, <1>4, <1>5 DEF VSNext, Next

(* Vault mutations and streams use the SyncService only through its own    *)
(* operations: every run of the composition is a run of the registry.      *)
THEOREM VaultSyncImplementsRegistry == VSSpec => Spec
  BY InitRefines, StepRefines, PTL DEF VSSpec, Spec

----------------------------------------------------------------------------
(* A commit: the table moves forward, the registry stands still, and the   *)
(* new event has a version no earlier one of its item has.                 *)
LEMMA CommitStep ==
    ASSUME IInv, DInv, VInv, NEW n \in Notes, NEW e \in Event, Committed(n, e),
           rows' \subseteq Row, IsFiniteSet(rows'), top' \in [ItemIds -> Nat],
           \A i \in ItemIds : top[i] <= top'[i],
           \A r, s \in rows' : r.id = s.id => r = s,
           \A r \in rows' : r.ver = top'[r.id],
           \A i \in Ids(rows') : i \in Ids(rows) \/ top[i] = 0,
           e.kind = "upsert" => top[e.item] < e.ver /\ e.ver <= top'[e.item],
           e # <<>>,
           \A r \in rows' : r \in rows \/ (e.kind = "upsert" /\ e.item = r.id /\ e.ver = r.ver)
    PROVE  VInv'
<1>0. /\ UNCHANGED <<lock, chan, log, taken, npc, present, hpc, known, pend, streamed, unlisted>>
      /\ evt[n] = <<>> /\ evt' = [evt EXCEPT ![n] = e] /\ clock' = clock + 1
      /\ liveAt' = [liveAt EXCEPT ![n] = {c \in Open : lock # c}]
      /\ gap' = [c \in Chans |-> IF hpc[c] \in {"listed", "caught"} /\ chan[c] = "none"
                                 THEN gap[c] \cup {n} ELSE gap[c]]
  BY DEF Committed, vars, regVars, chanVars, callVars, histVars, streamVars
<1>1. VTypes /\ TableOK /\ RowsAnnounced /\ VersionsDistinct /\ AnnounceOK /\ StreamOK /\ AllAccounted
  BY DEF VInv
<1>2. evt'[n] = e /\ (\A m \in Notes \ {n} : evt'[m] = evt[m])
      /\ \A m \in Notes : evt[m] # <<>> => evt'[m] = evt[m]
  BY <1>0, <1>1 DEF VTypes
<1>3. VTypes'
  <2>1. evt' \in [Notes -> Event \cup {<<>>}]
    BY <1>0, <1>1 DEF VTypes
  <2>2. gap' \in [Chans -> SUBSET Notes]
    BY <1>0, <1>1 DEF VTypes
  <2>3. liveAt' \in [Notes -> SUBSET Chans]
    BY <1>0, <1>1 DEF VTypes, Open
  <2>4. clock' \in Nat
    BY <1>0, <1>1 DEF VTypes
  <2> QED
    BY <1>0, <1>1, <2>1, <2>2, <2>3, <2>4 DEF VTypes
<1>4. ASSUME NEW m \in Notes, IsUpsert(m), m # n
      PROVE  /\ 1 <= evt[m].ver /\ evt[m].ver <= top[evt[m].item]
             /\ evt[m] \in Event /\ evt'[m] = evt[m]
  BY <1>1, <1>2, <1>4 DEF TableOK, IsUpsert, VTypes
<1>5. ASSUME NEW m \in Notes, IsUpsert(m)', m # n
      PROVE  IsUpsert(m)
  BY <1>2, <1>5 DEF IsUpsert
<1>6. TableOK'
  <2>1. ASSUME NEW m \in Notes, IsUpsert(m)'
        PROVE  1 <= evt'[m].ver /\ evt'[m].ver <= top'[evt'[m].item]
    <3>1. CASE m = n
      <4>1. e.kind = "upsert" /\ e.item \in ItemIds /\ e.ver \in Nat /\ top[e.item] \in Nat
        BY <1>1, <1>2, <2>1, <3>1 DEF IsUpsert, Event, VTypes
      <4> QED
        BY <1>2, <3>1, <4>1
    <3>2. CASE m # n
      <4>1. /\ 1 <= evt[m].ver /\ evt[m].ver <= top[evt[m].item]
            /\ evt[m] \in Event /\ evt'[m] = evt[m]
        BY <1>4, <1>5, <2>1, <3>2
      <4>2. /\ evt[m].item \in ItemIds /\ evt[m].ver \in Nat
            /\ top[evt[m].item] \in Nat /\ top'[evt[m].item] \in Nat
        BY <1>1, <4>1 DEF Event, VTypes
      <4> QED
        BY <4>1, <4>2
    <3> QED
      BY <3>1, <3>2
  <2> QED
    BY <2>1 DEF TableOK
<1>7. VersionsDistinct'
  <2>1. ASSUME NEW m \in Notes, IsUpsert(m)', IsUpsert(n)', m # n, evt'[m].item = evt'[n].item
        PROVE  evt'[m].ver # evt'[n].ver
    <3>1. /\ evt[m].ver <= top[evt[m].item]
          /\ evt[m] \in Event /\ evt'[m] = evt[m]
      BY <1>4, <1>5, <2>1
    <3>2. e.kind = "upsert" /\ evt[m].item = e.item
      BY <1>2, <2>1, <3>1 DEF IsUpsert
    <3>3. e.item \in ItemIds /\ e.ver \in Nat /\ evt[m].ver \in Nat /\ top[e.item] \in Nat
      BY <1>1, <3>1 DEF Event, VTypes
    <3> QED
      BY <1>2, <3>1, <3>2, <3>3
  <2>2. ASSUME NEW m \in Notes, NEW k \in Notes, m # n, k # n, m # k,
               IsUpsert(m)', IsUpsert(k)', evt'[m].item = evt'[k].item
        PROVE  evt'[m].ver # evt'[k].ver
    BY <1>1, <1>2, <1>5, <2>2 DEF VersionsDistinct
  <2> QED
    BY <2>1, <2>2 DEF VersionsDistinct
<1>8. AnnounceOK'
  <2>1. \A m \in Notes : evt'[m] = <<>> => npc'[m] = "new"
    BY <1>0, <1>1, <1>2 DEF AnnounceOK
  <2>2. ASSUME NEW m \in Notes, NEW c \in liveAt'[m]
        PROVE  chan'[c] # "none" /\ (npc'[m] # "new" => c \in present'[m] \/ chan'[c] = "closed")
    <3>1. CASE m = n
      <4>1. liveAt'[n] = {d \in Open : lock # d}
        BY <1>0, <1>1 DEF VTypes
      <4>2. chan[c] = "open" /\ npc[n] = "new"
        BY <1>0, <1>1, <2>2, <3>1, <4>1 DEF Open, AnnounceOK
      <4> QED
        BY <1>0, <3>1, <4>2
    <3>2. CASE m # n
      <4>1. liveAt'[m] = liveAt[m]
        BY <1>0, <1>1, <3>2 DEF VTypes
      <4> QED
        BY <1>0, <1>1, <2>2, <4>1 DEF AnnounceOK
    <3> QED
      BY <3>1, <3>2
  <2> QED
    BY <2>1, <2>2 DEF AnnounceOK
<1>9. StreamOK'
  <2>1. ASSUME NEW c \in Chans, NEW j \in 1..taken[c]
        PROVE  log[c][j] \in Notes /\ evt'[log[c][j]] = evt[log[c][j]]
    <3>1. /\ log[c] \in Seq(Notes) /\ taken[c] \in Nat /\ Len(log[c]) \in Nat
          /\ Len(log[c]) - taken[c] \in 0..BufCap
      BY DEF IInv, TypeOK, Buffered
    <3>2. j \in DOMAIN log[c] /\ log[c][j] \in Notes
      BY <3>1, SyncAssumption
    <3>3. Delivered(log[c][j], c)
      BY <3>2 DEF Delivered
    <3>4. npc[log[c][j]] # "new"
      BY <3>2, <3>3 DEF DInv, Fresh
    <3>5. evt[log[c][j]] # <<>>
      BY <1>1, <3>2, <3>4 DEF AnnounceOK
    <3> QED
      BY <1>2, <3>2, <3>5
  <2> QED
    BY <1>0, <1>1, <2>1 DEF StreamOK
<1>10. AllAccounted'
  <2> SUFFICES ASSUME NEW c \in Chans, NEW m \in Notes, hpc[c] \in {"listed", "caught"},
                      IsUpsert(m)'
               PROVE  Accounted(c, m)'
    BY <1>0 DEF AllAccounted
  <2>1. CASE m = n
    <3>1. chan[c] \in {"none", "open", "closed"}
      BY DEF IInv, TypeOK
    <3>2. CASE chan[c] = "none"
      BY <1>0, <2>1, <3>2 DEF Accounted
    <3>3. CASE chan[c] = "open" /\ lock # c
      <4>1. c \in liveAt'[m]
        BY <1>0, <1>1, <2>1, <3>3 DEF VTypes, Open
      <4> QED
        BY <4>1 DEF Accounted
    <3>4. CASE chan[c] = "closed" \/ lock = c
      BY <1>0, <3>4 DEF Accounted
    <3> QED
      BY <3>1, <3>2, <3>3, <3>4
  <2>2. CASE m # n
    <3>1. IsUpsert(m) /\ evt'[m] = evt[m] /\ evt[m] \in Event
          /\ 1 <= evt[m].ver /\ evt[m].ver <= top[evt[m].item]
      BY <1>4, <1>5, <2>2
    <3>2. Accounted(c, m)
      BY <1>1, <3>1 DEF AllAccounted
    <3>3. evt[m].item \notin Ids(rows) => evt[m].item \notin Ids(rows')
      <4>1. evt[m].item \in ItemIds /\ evt[m].ver \in Nat /\ top[evt[m].item] \in Nat
        BY <1>1, <3>1 DEF Event, VTypes
      <4>2. top[evt[m].item] # 0
        BY <3>1, <4>1
      <4> QED
        BY <4>2
    <3>4. liveAt'[m] = liveAt[m] /\ gap[c] \subseteq gap'[c]
      BY <1>0, <1>1, <2>2 DEF VTypes
    <3> QED
      BY <1>0, <3>1, <3>2, <3>3, <3>4 DEF Accounted
  <2> QED
    BY <2>1, <2>2
<1>11. RowsAnnounced'
  <2> SUFFICES ASSUME NEW r \in rows'
               PROVE  \E m \in Notes : IsUpsert(m)' /\ evt'[m].item = r.id /\ evt'[m].ver = r.ver
    BY DEF RowsAnnounced
  <2>1. CASE r \in rows
    <3>1. PICK m \in Notes : IsUpsert(m) /\ evt[m].item = r.id /\ evt[m].ver = r.ver
      BY <1>1, <2>1 DEF RowsAnnounced
    <3>2. evt'[m] = evt[m]
      BY <1>2, <3>1 DEF IsUpsert
    <3> QED
      BY <3>1, <3>2 DEF IsUpsert
  <2>2. CASE e.kind = "upsert" /\ e.item = r.id /\ e.ver = r.ver
    BY <1>2, <2>2 DEF IsUpsert
  <2> QED
    BY <2>1, <2>2
<1> QED
  BY <1>3, <1>6, <1>7, <1>8, <1>9, <1>10, <1>11 DEF VInv

LEMMA CreateStep ==
    ASSUME IInv, DInv, VInv, NEW n \in Notes, VaultCreate(n)
    PROVE  VInv'
<1>1. PICK i \in ItemIds, t \in ItemTypes :
        /\ top[i] = 0
        /\ rows' = rows \cup {[id |-> i, type |-> t, ver |-> 1, at |-> clock + 1]}
        /\ top' = [top EXCEPT ![i] = 1]
        /\ Committed(n, Upsert(i, 1))
  BY DEF VaultCreate, Inserted
<1>2. VTypes /\ TableOK
  BY DEF VInv
<1>3. PICK r : r = [id |-> i, type |-> t, ver |-> 1, at |-> clock + 1]
  OBVIOUS
<1>4. r \in Row /\ r.id = i /\ r.ver = 1
  <2>1. clock + 1 \in Nat /\ 1 \in Nat \ {0}
    BY <1>2 DEF VTypes
  <2> QED
    BY <1>3, <2>1 DEF Row
<1>5. Upsert(i, 1) \in Event /\ Upsert(i, 1).kind = "upsert"
      /\ Upsert(i, 1).item = i /\ Upsert(i, 1).ver = 1
  BY DEF Upsert, Event
<1>6. rows' = rows \cup {r}
  BY <1>1, <1>3
<1>7. rows' \subseteq Row /\ IsFiniteSet(rows')
  BY <1>2, <1>4, <1>6, FS_AddElement DEF VTypes
<1>8. top' \in [ItemIds -> Nat] /\ top'[i] = 1 /\ \A j \in ItemIds \ {i} : top'[j] = top[j]
  BY <1>1, <1>2 DEF VTypes
<1>9. \A j \in ItemIds : top[j] <= top'[j]
  BY <1>1, <1>2, <1>8 DEF VTypes
<1>10. \A s \in rows : s.id # i
  <2>1. ASSUME NEW s \in rows, s.id = i PROVE FALSE
    <3>1. s.ver \in Nat \ {0} /\ s.ver = top[i]
      BY <1>2, <2>1 DEF VTypes, Row, TableOK
    <3> QED
      BY <1>1, <3>1
  <2> QED
    BY <2>1
<1>11. \A s, u \in rows' : s.id = u.id => s = u
  BY <1>2, <1>4, <1>6, <1>10 DEF TableOK
<1>12. \A s \in rows' : s.ver = top'[s.id]
  <2>1. \A s \in rows : s.id \in ItemIds
    BY <1>2 DEF VTypes, Row
  <2> QED
    BY <1>2, <1>4, <1>6, <1>8, <1>10, <2>1 DEF TableOK
<1>13. \A j \in Ids(rows') : j \in Ids(rows) \/ top[j] = 0
  BY <1>1, <1>4, <1>6 DEF Ids
<1>14. top[i] < 1 /\ 1 <= top'[i]
  BY <1>1, <1>8
<1>15. PICK e \in Event : e = Upsert(i, 1)
  BY <1>5
<1>16. e # <<>>
  BY <1>15 DEF Upsert
<1>17. e.kind = "upsert" /\ e.item = i /\ e.ver = 1 /\ Committed(n, e)
  BY <1>1, <1>5, <1>15
<1>18. \A s \in rows' : s \in rows \/ (e.kind = "upsert" /\ e.item = s.id /\ e.ver = s.ver)
  BY <1>4, <1>6, <1>17
<1> QED
  BY <1>7, <1>8, <1>9, <1>11, <1>12, <1>13, <1>14, <1>16, <1>17, <1>18, CommitStep

LEMMA UpdateStep ==
    ASSUME IInv, DInv, VInv, NEW n \in Notes, VaultUpdate(n)
    PROVE  VInv'
<1>1. PICK i \in Ids(rows) :
        /\ rows' = Updated(rows, i, clock + 1)
        /\ top' = [top EXCEPT ![i] = RowOf(rows', i).ver]
        /\ Committed(n, Upsert(i, RowOf(rows', i).ver))
  BY DEF VaultUpdate
<1>2. VTypes /\ TableOK
  BY DEF VInv
<1>3. PICK old \in rows : old.id = i
  BY DEF Ids
<1>4. old \in Row /\ old.id \in ItemIds /\ old.ver \in Nat \ {0} /\ old.ver = top[i]
  BY <1>2, <1>3 DEF VTypes, Row, TableOK
<1>5. PICK r : r = [old EXCEPT !.ver = @ + 1, !.at = clock + 1]
  OBVIOUS
<1>6. r \in Row /\ r.id = i /\ r.ver = old.ver + 1
  <2>1. clock + 1 \in Nat /\ old.ver + 1 \in Nat \ {0}
    BY <1>2, <1>4 DEF VTypes
  <2> QED
    BY <1>3, <1>4, <1>5, <2>1 DEF Row
<1>7. rows' = (rows \ {old}) \cup {r}
  <2>1. \A s \in rows : s.id = i <=> s = old
    BY <1>2, <1>3 DEF TableOK
  <2>2. rows' = {IF s.id = i THEN [s EXCEPT !.ver = @ + 1, !.at = clock + 1] ELSE s : s \in rows}
    BY <1>1 DEF Updated
  <2>3. \A s \in rows : s = old => [s EXCEPT !.ver = @ + 1, !.at = clock + 1] = r
    BY <1>5
  <2>4. r \in rows'
    BY <1>3, <2>1, <2>2, <2>3
  <2>5. \A s \in rows : s # old => s \in rows'
    BY <2>1, <2>2
  <2>6. \A x \in rows' : x = r \/ (x \in rows /\ x # old)
    BY <2>1, <2>2, <2>3
  <2> QED
    BY <2>4, <2>5, <2>6
<1>8. IsFiniteSet(rows') /\ rows' \subseteq Row
  <2>1. IsFiniteSet(rows \ {old})
    BY <1>2, FS_RemoveElement DEF VTypes
  <2> QED
    BY <1>2, <1>6, <1>7, <2>1, FS_AddElement DEF VTypes
<1>9. \A s \in rows' : s.id = i <=> s = r
  BY <1>2, <1>3, <1>6, <1>7 DEF TableOK
<1>10. RowOf(rows', i) = r
  <2>1. r \in rows'
    BY <1>7
  <2> QED
    BY <1>6, <1>9, <2>1 DEF RowOf
<1>11. top' \in [ItemIds -> Nat] /\ top'[i] = r.ver /\ \A j \in ItemIds \ {i} : top'[j] = top[j]
  <2>1. r.ver \in Nat /\ i \in ItemIds
    BY <1>3, <1>4, <1>6
  <2> QED
    BY <1>1, <1>2, <1>10, <2>1 DEF VTypes
<1>12. \A j \in ItemIds : top[j] <= top'[j]
  <2>1. top[i] <= top'[i]
    BY <1>4, <1>6, <1>11
  <2>2. \A j \in ItemIds : top[j] \in Nat
    BY <1>2 DEF VTypes
  <2> QED
    BY <1>11, <2>1, <2>2
<1>13. \A s, u \in rows' : s.id = u.id => s = u
  <2>1. ASSUME NEW s \in rows', NEW u \in rows', s.id = u.id, s # r, u # r PROVE s = u
    BY <1>2, <1>7, <2>1 DEF TableOK
  <2> QED
    BY <1>6, <1>9, <2>1
<1>14. \A s \in rows' : s.ver = top'[s.id]
  <2>1. ASSUME NEW s \in rows', s # r PROVE s.ver = top'[s.id]
    <3>1. s \in rows /\ s.id # i /\ s.id \in ItemIds
      BY <1>7, <1>8, <1>9, <2>1 DEF Row
    <3> QED
      BY <1>2, <1>11, <3>1 DEF TableOK
  <2> QED
    BY <1>6, <1>11, <2>1
<1>15. \A j \in Ids(rows') : j \in Ids(rows)
  BY <1>3, <1>6, <1>7 DEF Ids
<1>16. PICK e : e = Upsert(i, r.ver)
  OBVIOUS
<1>17. e \in Event /\ e.kind = "upsert" /\ e.item = i /\ e.ver = r.ver
  <2>1. r.ver \in Nat /\ i \in ItemIds
    BY <1>3, <1>4, <1>6
  <2> QED
    BY <1>16, <2>1 DEF Upsert, Event
<1>18. Committed(n, e)
  BY <1>1, <1>10, <1>16
<1>19. top[i] < r.ver /\ r.ver <= top'[i]
  BY <1>4, <1>6, <1>11
<1>20. e # <<>>
  BY <1>16 DEF Upsert
<1>21. \A s \in rows' : s \in rows \/ (e.kind = "upsert" /\ e.item = s.id /\ e.ver = s.ver)
  BY <1>6, <1>7, <1>17
<1> QED
  BY <1>8, <1>11, <1>12, <1>13, <1>14, <1>15, <1>17, <1>18, <1>19, <1>20, <1>21, CommitStep

LEMMA DeleteStep ==
    ASSUME IInv, DInv, VInv, NEW n \in Notes, VaultDelete(n)
    PROVE  VInv'
<1>1. PICK i \in Ids(rows) :
        /\ rows' = {r \in rows : r.id # i}
        /\ top' = top
        /\ Committed(n, Delete(i))
  BY DEF VaultDelete, Deleted
<1>2. VTypes /\ TableOK
  BY DEF VInv
<1>3. PICK e : e = Delete(i)
  OBVIOUS
<1>4. e \in Event /\ e.kind # "upsert"
  <2>1. i \in ItemIds
    BY <1>2 DEF VTypes, Row, Ids
  <2> QED
    BY <1>3, <2>1 DEF Delete, Event
<1>5. rows' \subseteq rows /\ rows' \subseteq Row /\ IsFiniteSet(rows')
  BY <1>1, <1>2, FS_Subset DEF VTypes
<1>6. top' \in [ItemIds -> Nat] /\ \A j \in ItemIds : top[j] <= top'[j]
  BY <1>1, <1>2 DEF VTypes
<1>7. /\ \A s, u \in rows' : s.id = u.id => s = u
      /\ \A s \in rows' : s.ver = top'[s.id]
  BY <1>1, <1>2, <1>5 DEF TableOK
<1>8. \A j \in Ids(rows') : j \in Ids(rows)
  BY <1>5 DEF Ids
<1>9. Committed(n, e)
  BY <1>1, <1>3
<1>10. e # <<>>
  BY <1>3 DEF Delete
<1> QED
  BY <1>4, <1>5, <1>6, <1>7, <1>8, <1>9, <1>10, CommitStep

----------------------------------------------------------------------------
(* A page holds rows of the table.                                         *)
LEMMA PageOfRows ==
    ASSUME NEW R, NEW f, NEW page \in ListOrPart(R, f)
    PROVE  page.items \subseteq R
<1>1. Matching(R, f) \subseteq R
  BY DEF Matching
<1>2. List(R, f).items \subseteq Matching(R, f)
  BY DEF List
<1>3. CASE page = List(R, f)
  BY <1>1, <1>2, <1>3
<1>4. CASE \E k \in 0..Limit(f.limit) :
             page = [items |-> {r \in Matching(R, f) : Rank(Matching(R, f), r) < k},
                     next |-> NoCursor]
  BY <1>1, <1>4
<1> QED
  BY <1>3, <1>4 DEF ListOrPart

(* List: every committed version of a row is unlisted, known or pending.   *)
LEMMA ListStep ==
    ASSUME IInv, DInv, VInv, NEW c \in Chans, StreamList(c)
    PROVE  VInv'
<1>0. /\ UNCHANGED <<lock, chan, log, taken, npc, present, rows, top, clock, evt, liveAt,
                     streamed, gap>>
      /\ hpc[c] = "idle" /\ hpc' = [hpc EXCEPT ![c] = "listed"]
  BY DEF StreamList, vars, regVars, chanVars, callVars, histVars, dbVars
<1>1. VTypes /\ TableOK /\ RowsAnnounced /\ VersionsDistinct /\ AnnounceOK /\ StreamOK /\ AllAccounted
  BY DEF VInv
<1> DEFINE f == [type |-> "", limit |-> CatchUpLimit, cursor |-> NoCursor]
<1>2. PICK page \in ListOrPart(rows, f), k \in [ItemIds -> 0..clock] :
        /\ known' = [known EXCEPT ![c] = k]
        /\ pend' = [pend EXCEPT ![c] = {r \in page.items : Lacks(k, r)}]
        /\ unlisted' = [unlisted EXCEPT ![c] = rows \ page.items]
  BY DEF StreamList
<1> HIDE DEF f
<1>20. PICK items : items = page.items /\ items \subseteq rows
  BY PageOfRows
<1>3. k \in [ItemIds -> Nat]
  BY <1>1 DEF VTypes
<1>4. /\ known'[c] = k /\ pend'[c] = {r \in items : Lacks(k, r)} /\ unlisted'[c] = rows \ items
      /\ hpc'[c] = "listed"
      /\ \A d \in Chans \ {c} : /\ known'[d] = known[d] /\ pend'[d] = pend[d]
                                /\ unlisted'[d] = unlisted[d] /\ hpc'[d] = hpc[d]
  BY <1>0, <1>1, <1>2, <1>20 DEF VTypes
<1>5. VTypes'
  <2>1. known' \in [Chans -> [ItemIds -> Nat]]
    BY <1>1, <1>2, <1>3 DEF VTypes
  <2>2. pend' \in [Chans -> SUBSET Row] /\ unlisted' \in [Chans -> SUBSET Row]
    BY <1>1, <1>2, <1>20 DEF VTypes
  <2>3. hpc' \in [Chans -> {"idle", "listed", "caught", "ended"}]
    BY <1>0, <1>1 DEF VTypes
  <2>4. IsFiniteSet(pend'[c])
    BY <1>1, <1>4, <1>20, FS_Subset DEF VTypes
  <2>5. \A d \in Chans : IsFiniteSet(pend'[d])
    BY <1>1, <1>4, <2>4 DEF VTypes
  <2> QED
    BY <1>0, <1>1, <2>1, <2>2, <2>3, <2>5 DEF VTypes
<1>6. TableOK' /\ RowsAnnounced' /\ VersionsDistinct' /\ AnnounceOK'
  BY <1>0, <1>1 DEF TableOK, RowsAnnounced, VersionsDistinct, AnnounceOK, IsUpsert
<1>7. StreamOK'
  <2>1. chan[c] = "none"
    BY <1>0, <1>1 DEF StreamOK
  <2> QED
    BY <1>0, <1>1, <1>4, <2>1 DEF StreamOK
<1>8. AllAccounted'
  <2> SUFFICES ASSUME NEW d \in Chans, NEW n \in Notes, hpc'[d] \in {"listed", "caught"},
                      IsUpsert(n)
               PROVE  Accounted(d, n)'
    BY <1>0 DEF AllAccounted, IsUpsert
  <2>1. CASE d # c
    BY <1>0, <1>1, <1>4, <2>1 DEF AllAccounted, Accounted
  <2>2. CASE d = c /\ evt[n].item \in Ids(rows)
    <3>1. evt[n] \in Event /\ evt[n].ver \in Nat /\ evt[n].item \in ItemIds
      BY <1>1 DEF VTypes, IsUpsert, Event
    <3>2. PICK r \in rows : r.id = evt[n].item
      BY <2>2 DEF Ids
    <3>3. r.ver \in Nat /\ r.ver >= evt[n].ver
      BY <1>1, <3>1, <3>2 DEF TableOK, VTypes, Row
    <3>4. CASE r \notin items
      BY <1>4, <2>2, <3>2, <3>3, <3>4, <1>0 DEF Accounted
    <3>5. CASE r \in items /\ Lacks(k, r)
      BY <1>4, <2>2, <3>2, <3>3, <3>5, <1>0 DEF Accounted
    <3>6. CASE ~Lacks(k, r)
      <4>1. k[evt[n].item] >= evt[n].ver
        BY <1>3, <3>1, <3>2, <3>3, <3>6 DEF Lacks
      <4> QED
        BY <1>0, <1>4, <2>2, <4>1 DEF Accounted
    <3> QED
      BY <3>4, <3>5, <3>6
  <2>3. CASE evt[n].item \notin Ids(rows)
    BY <1>0, <2>3 DEF Accounted
  <2> QED
    BY <2>1, <2>2, <2>3
<1> QED
  BY <1>5, <1>6, <1>7, <1>8 DEF VInv

(* What was pending is sent.                                               *)
LEMMA SendMissingStep ==
    ASSUME IInv, DInv, VInv, NEW c \in Chans, StreamSendMissing(c)
    PROVE  VInv'
<1>0. /\ UNCHANGED <<lock, chan, log, taken, npc, present, rows, top, clock, evt, liveAt,
                     known, pend, unlisted, gap>>
      /\ hpc[c] = "listed" /\ hpc' = [hpc EXCEPT ![c] = "caught"]
  BY DEF StreamSendMissing, vars, regVars, chanVars, callVars, histVars, dbVars
<1>1. VTypes /\ TableOK /\ RowsAnnounced /\ VersionsDistinct /\ AnnounceOK /\ StreamOK /\ AllAccounted
  BY DEF VInv
<1>2. PICK order \in [1..Cardinality(pend[c]) -> pend[c]] :
          /\ {order[k] : k \in DOMAIN order} = pend[c]
          /\ streamed' = [streamed EXCEPT ![c] =
                 [k \in DOMAIN order |-> Upsert(order[k].id, order[k].ver)]]
  BY DEF StreamSendMissing
<1>3. Cardinality(pend[c]) \in Nat
  BY <1>1, FS_CardinalityType DEF VTypes
<1>4. PICK q : q = [k \in DOMAIN order |-> Upsert(order[k].id, order[k].ver)]
  OBVIOUS
<1>5. DOMAIN q = 1..Cardinality(pend[c]) /\ DOMAIN order = 1..Cardinality(pend[c])
  BY <1>4
<1>6. \A k \in DOMAIN q : q[k] = Upsert(order[k].id, order[k].ver) /\ q[k] \in Event
  <2>1. ASSUME NEW k \in DOMAIN q
        PROVE  q[k] = Upsert(order[k].id, order[k].ver) /\ q[k] \in Event
    <3>1. order[k] \in Row
      BY <1>1, <1>5 DEF VTypes
    <3>2. order[k].id \in ItemIds /\ order[k].ver \in Nat
      BY <3>1 DEF Row
    <3>3. q[k] = Upsert(order[k].id, order[k].ver)
      BY <1>4, <1>5
    <3> QED
      BY <3>2, <3>3 DEF Upsert, Event
  <2> QED
    BY <2>1
<1>7. q \in Seq(Event)
  <2>1. q \in [1..Cardinality(pend[c]) -> Event]
    BY <1>4, <1>5, <1>6
  <2> QED
    BY <1>3, <2>1
<1>8. streamed' = [streamed EXCEPT ![c] = q]
  BY <1>2, <1>4
<1>9. /\ streamed'[c] = q /\ hpc'[c] = "caught"
      /\ \A d \in Chans \ {c} : streamed'[d] = streamed[d] /\ hpc'[d] = hpc[d]
  BY <1>0, <1>1, <1>8 DEF VTypes
<1>10. VTypes'
  <2>1. streamed' \in [Chans -> Seq(Event)]
    BY <1>1, <1>7, <1>8 DEF VTypes
  <2>2. hpc' \in [Chans -> {"idle", "listed", "caught", "ended"}]
    BY <1>0, <1>1 DEF VTypes
  <2> QED
    BY <1>0, <1>1, <2>1, <2>2 DEF VTypes
<1>11. TableOK' /\ RowsAnnounced' /\ VersionsDistinct' /\ AnnounceOK'
  BY <1>0, <1>1 DEF TableOK, RowsAnnounced, VersionsDistinct, AnnounceOK, IsUpsert
<1>12. chan[c] = "none"
  BY <1>0, <1>1 DEF StreamOK
<1>13. taken[c] = 0
  BY <1>1, <1>12 DEF StreamOK
<1>14. StreamOK'
  <2>1. ASSUME NEW r \in pend[c]
        PROVE  \E k \in DOMAIN q : q[k] = Upsert(r.id, r.ver)
    <3>1. PICK k \in DOMAIN order : order[k] = r
      BY <1>2
    <3> QED
      BY <1>5, <1>6, <3>1
  <2>2. ASSUME NEW d \in Chans, d # c
        PROVE  /\ IF chan'[d] = "none" THEN taken'[d] = 0 ELSE hpc'[d] = "caught"
               /\ hpc'[d] = "caught" => \A r \in pend'[d] :
                     \E k \in DOMAIN streamed'[d] : streamed'[d][k] = Upsert(r.id, r.ver)
               /\ \A j \in 1..taken'[d] :
                     \E k \in DOMAIN streamed'[d] : streamed'[d][k] = evt'[log'[d][j]]
    BY <1>0, <1>1, <1>9, <2>2 DEF StreamOK
  <2>3. 1..taken'[c] = {}
    BY <1>0, <1>13
  <2>4. \A r \in pend'[c] : \E k \in DOMAIN streamed'[c] : streamed'[c][k] = Upsert(r.id, r.ver)
    BY <1>0, <1>9, <2>1
  <2> QED
    BY <1>0, <1>9, <1>12, <1>13, <2>2, <2>3, <2>4 DEF StreamOK
<1>15. AllAccounted'
  BY <1>0, <1>1, <1>9 DEF AllAccounted, Accounted, IsUpsert
<1> QED
  BY <1>10, <1>11, <1>14, <1>15 DEF VInv

(* A stream that is given up is no longer looked at.                       *)
LEMMA AbortStep ==
    ASSUME IInv, DInv, VInv, NEW c \in Chans, StreamAbort(c)
    PROVE  VInv'
<1>0. /\ UNCHANGED <<lock, chan, log, taken, npc, present, rows, top, clock, evt, liveAt,
                     known, pend, streamed, unlisted, gap>>
      /\ hpc[c] = "listed" /\ hpc' = [hpc EXCEPT ![c] = "ended"]
  BY DEF StreamAbort, vars, regVars, chanVars, callVars, histVars, dbVars
<1>1. VTypes /\ TableOK /\ RowsAnnounced /\ VersionsDistinct /\ AnnounceOK /\ StreamOK /\ AllAccounted
  BY DEF VInv
<1>2. VTypes'
  BY <1>0, <1>1 DEF VTypes
<1>3. TableOK' /\ RowsAnnounced' /\ VersionsDistinct' /\ AnnounceOK'
  BY <1>0, <1>1 DEF TableOK, RowsAnnounced, VersionsDistinct, AnnounceOK, IsUpsert
<1>4. hpc'[c] = "ended" /\ \A d \in Chans \ {c} : hpc'[d] = hpc[d]
  BY <1>0, <1>1 DEF VTypes
<1>5. StreamOK'
  BY <1>0, <1>1, <1>4 DEF StreamOK
<1>6. AllAccounted'
  BY <1>0, <1>1, <1>4 DEF AllAccounted, Accounted, IsUpsert
<1> QED
  BY <1>2, <1>3, <1>5, <1>6 DEF VInv

----------------------------------------------------------------------------
(* What the registry may do to the calls and the channels in one step.     *)
RegistryMoves ==
    /\ \A c \in Chans :
          /\ chan[c] # "none" => chan'[c] # "none"
          /\ chan[c] = "closed" => chan'[c] = "closed"
          /\ lock = c => lock' = c \/ chan'[c] = "closed"
          /\ chan'[c] # "none" => chan[c] # "none" \/ hpc[c] = "caught"
          /\ \A j \in 1..taken[c] : log'[c][j] = log[c][j]
    /\ \A n \in Notes :
          \/ npc[n] = "new" /\ npc'[n] = "new"
          \/ npc[n] # "new" /\ npc'[n] # "new" /\ present'[n] = present[n]
          \/ evt[n] # <<>> /\ npc'[n] # "new" /\ present'[n] = Open

LEMMA RegistryStep ==
    ASSUME IInv, VInv, RegistryMoves,
           UNCHANGED <<rows, top, clock, evt, liveAt, hpc, known, pend, streamed, unlisted, gap>>,
           UNCHANGED taken
    PROVE  VInv'
<1>1. VTypes /\ TableOK /\ RowsAnnounced /\ VersionsDistinct /\ AnnounceOK /\ StreamOK /\ AllAccounted
  BY DEF VInv
<1>2. VTypes'
  BY <1>1 DEF VTypes
<1>3. TableOK' /\ RowsAnnounced' /\ VersionsDistinct'
  BY <1>1 DEF TableOK, RowsAnnounced, VersionsDistinct, IsUpsert
<1>4. AnnounceOK'
  <2>1. ASSUME NEW n \in Notes, evt[n] = <<>>
        PROVE  npc'[n] = "new"
    BY <1>1, <2>1 DEF AnnounceOK, RegistryMoves
  <2>2. ASSUME NEW n \in Notes, NEW c \in liveAt[n]
        PROVE  chan'[c] # "none" /\ (npc'[n] # "new" => c \in present'[n] \/ chan'[c] = "closed")
    <3>1. c \in Chans /\ chan[c] # "none" /\ chan[c] \in {"none", "open", "closed"}
      BY <1>1 DEF VTypes, AnnounceOK, IInv, TypeOK
    <3>2. c \in Open \/ chan[c] = "closed"
      BY <3>1 DEF Open
    <3> QED
      BY <1>1, <3>1, <3>2 DEF AnnounceOK, RegistryMoves
  <2> QED
    BY <2>1, <2>2 DEF AnnounceOK
<1>5. StreamOK'
  BY <1>1 DEF StreamOK, RegistryMoves
<1>6. AllAccounted'
  BY <1>1 DEF AllAccounted, Accounted, IsUpsert, RegistryMoves
<1> QED
  BY <1>2, <1>3, <1>4, <1>5, <1>6 DEF VInv

(* The events taken from a channel are not moved by one that is added.     *)
LEMMA TakenStays ==
    ASSUME IInv, NEW c \in Chans, NEW n \in Notes, log'[c] = Append(log[c], n)
    PROVE  \A j \in 1..taken[c] : log'[c][j] = log[c][j]
<1>1. /\ log[c] \in Seq(Notes) /\ taken[c] \in Nat /\ Len(log[c]) \in Nat
      /\ Len(log[c]) - taken[c] \in 0..BufCap
  BY DEF IInv, TypeOK, Buffered
<1>2. \A j \in 1..taken[c] : j \in 1..Len(log[c])
  BY <1>1, SyncAssumption
<1> QED
  BY <1>1, <1>2

LEMMA NotifyKeeps ==
    ASSUME IInv, DInv, VInv, NEW n \in Notes, VaultNotify(n)
    PROVE  VInv'
<1>0. /\ UNCHANGED <<rows, top, clock, evt, liveAt, hpc, known, pend, streamed, unlisted, gap>>
      /\ evt[n] # <<>> /\ Notify(n)
  BY DEF VaultNotify, dbVars, streamVars
<1>1. UNCHANGED <<lock, chan, taken>>
  BY <1>0 DEF Notify, NotifyBegin, NotifyRead, NotifySend, NotifyEnd, regVars, chanVars
<1>2. npc \in [Notes -> {"new", "range", "send", "done"}] /\ present \in [Notes -> SUBSET Chans]
      /\ log \in [Chans -> Seq(Notes)] /\ cur \in [Notes -> Word]
  BY DEF IInv, TypeOK
<1>3. \A c \in Chans : \A j \in 1..taken[c] : log'[c][j] = log[c][j]
  <2>1. CASE UNCHANGED log
    BY <2>1
  <2>2. CASE NotifySend(n) /\ Enqueue(n)
    <3>1. log' = [log EXCEPT ![cur[n]] = Append(@, n)]
      BY <2>2 DEF Enqueue
    <3>2. ASSUME NEW c \in Chans
          PROVE  \A j \in 1..taken[c] : log'[c][j] = log[c][j]
      <4>1. CASE c = cur[n]
        <5>1. log'[c] = Append(log[c], n)
          BY <1>2, <3>1, <4>1
        <5> QED
          BY <5>1, TakenStays
      <4>2. CASE c # cur[n]
        BY <1>2, <3>1, <4>2
      <4> QED
        BY <4>1, <4>2
    <3> QED
      BY <3>2
  <2> QED
    BY <1>0, <2>1, <2>2 DEF Notify, NotifyBegin, NotifyRead, NotifySend, NotifyEnd, chanVars,
       Drop, Panic
<1>4. /\ \A m \in Notes \ {n} : npc'[m] = npc[m] /\ present'[m] = present[m]
      /\ npc'[n] # "new"
      /\ \/ npc[n] # "new" /\ present'[n] = present[n]
         \/ present'[n] = Open
  <2>1. CASE NotifyBegin(n)
    BY <1>2, <2>1 DEF NotifyBegin
  <2>2. CASE NotifyRead(n) \/ NotifySend(n) \/ NotifyEnd(n)
    BY <1>2, <2>2 DEF NotifyRead, NotifySend, NotifyEnd, histVars
  <2> QED
    BY <1>0, <2>1, <2>2 DEF Notify
<1>5. RegistryMoves
  <2>1. \A m \in Notes : npc[m] = "new" \/ npc[m] # "new"
    OBVIOUS
  <2> QED
    BY <1>0, <1>1, <1>3, <1>4 DEF RegistryMoves
<1> QED
  BY <1>0, <1>1, <1>5, RegistryStep

LEMMA SubscribeKeeps ==
    ASSUME IInv, DInv, VInv, NEW c \in Chans, StreamSubscribe(c)
    PROVE  VInv'
<1>0. /\ UNCHANGED <<rows, top, clock, evt, liveAt, hpc, known, pend, streamed, unlisted, gap>>
      /\ UNCHANGED <<lock, log, taken, npc, present>>
      /\ hpc[c] = "caught" /\ chan[c] = "none" /\ chan' = [chan EXCEPT ![c] = "open"]
  BY DEF StreamSubscribe, Subscribe, dbVars, streamVars, chanVars, callVars, histVars
<1>1. chan \in [Chans -> {"none", "open", "closed"}]
  BY DEF IInv, TypeOK
<1>2. RegistryMoves
  BY <1>0, <1>1 DEF RegistryMoves
<1> QED
  BY <1>0, <1>2, RegistryStep

LEMMA CancelKeeps ==
    ASSUME IInv, DInv, VInv, NEW c \in Chans, StreamCancel(c)
    PROVE  VInv'
<1>0. /\ UNCHANGED <<rows, top, clock, evt, liveAt, hpc, known, pend, streamed, unlisted, gap>>
      /\ UNCHANGED <<log, taken, npc, present>>
      /\ \/ UNCHANGED chan /\ lock = Nil /\ lock' = c
         \/ UNCHANGED <<chan, lock>>
         \/ lock = c /\ chan' = [chan EXCEPT ![c] = "closed"]
  BY DEF StreamCancel, Cancel, CancelFind, CancelShift, CancelClose, dbVars, streamVars,
     chanVars, callVars, histVars
<1>1. chan \in [Chans -> {"none", "open", "closed"}] /\ Nil \notin Chans
  BY SyncAssumption DEF IInv, TypeOK
<1>2. lock = c => chan[c] = "open"
  BY <1>1 DEF IInv, HeaderOK, Open
<1>3. RegistryMoves
  BY <1>0, <1>1, <1>2 DEF RegistryMoves
<1> QED
  BY <1>0, <1>3, RegistryStep

(* The event at the head of the channel goes out to the client.            *)
LEMMA ForwardKeeps ==
    ASSUME IInv, DInv, VInv, NEW c \in Chans, StreamForward(c)
    PROVE  VInv'
<1>0. /\ UNCHANGED <<rows, top, clock, evt, liveAt, hpc, known, pend, unlisted, gap>>
      /\ UNCHANGED <<lock, chan, log, npc, present>>
      /\ chan[c] = "open" /\ Buffered(c) > 0
      /\ taken' = [taken EXCEPT ![c] = @ + 1]
      /\ streamed' = [streamed EXCEPT ![c] = Append(@, evt[log[c][taken[c] + 1]])]
  BY DEF StreamForward, Receive, dbVars, regVars, callVars, histVars
<1>1. VTypes /\ TableOK /\ RowsAnnounced /\ VersionsDistinct /\ AnnounceOK /\ StreamOK /\ AllAccounted
  BY DEF VInv
<1>2. /\ log[c] \in Seq(Notes) /\ taken \in [Chans -> Nat] /\ taken[c] \in Nat
      /\ Len(log[c]) \in Nat
  BY DEF IInv, TypeOK
<1>3. PICK m : m = log[c][taken[c] + 1]
  OBVIOUS
<1>4. m \in Notes /\ Delivered(m, c)
  <2>1. Len(log[c]) - taken[c] > 0
    BY <1>0 DEF Buffered
  <2>2. taken[c] + 1 \in 1..Len(log[c])
    BY <1>2, <2>1
  <2> QED
    BY <1>2, <1>3, <2>2 DEF Delivered
<1>5. evt[m] \in Event
  <2>1. npc[m] # "new"
    BY <1>4 DEF DInv, Fresh
  <2>2. evt[m] # <<>>
    BY <1>1, <1>4, <2>1 DEF AnnounceOK
  <2> QED
    BY <1>1, <1>4, <2>2 DEF VTypes
<1>6. PICK q : q = Append(streamed[c], evt[m])
  OBVIOUS
<1>7. /\ q \in Seq(Event) /\ Len(q) = Len(streamed[c]) + 1
      /\ \A k \in DOMAIN streamed[c] : k \in DOMAIN q /\ q[k] = streamed[c][k]
      /\ Len(q) \in DOMAIN q /\ q[Len(q)] = evt[m]
  <2>1. streamed[c] \in Seq(Event)
    BY <1>1 DEF VTypes
  <2> QED
    BY <1>5, <1>6, <2>1
<1>8. /\ streamed'[c] = q /\ taken'[c] = taken[c] + 1
      /\ \A d \in Chans \ {c} : streamed'[d] = streamed[d] /\ taken'[d] = taken[d]
      /\ streamed' \in [Chans -> Seq(Event)]
  <2>1. streamed' = [streamed EXCEPT ![c] = q]
    BY <1>0, <1>3, <1>6
  <2> QED
    BY <1>0, <1>1, <1>2, <1>7, <2>1 DEF VTypes
<1>9. VTypes'
  BY <1>0, <1>1, <1>8 DEF VTypes
<1>10. TableOK' /\ RowsAnnounced' /\ VersionsDistinct' /\ AnnounceOK'
  BY <1>0, <1>1 DEF TableOK, RowsAnnounced, VersionsDistinct, AnnounceOK, IsUpsert
<1>11. StreamOK'
  <2>1. \A r \in pend[c] : \E k \in DOMAIN q : q[k] = Upsert(r.id, r.ver)
    BY <1>0, <1>1, <1>7 DEF StreamOK
  <2>2. ASSUME NEW j \in 1..(taken[c] + 1)
        PROVE  \E k \in DOMAIN q : q[k] = evt[log[c][j]]
    <3>1. CASE j = taken[c] + 1
      BY <1>3, <1>7, <3>1
    <3>2. CASE j # taken[c] + 1
      <4>1. j \in 1..taken[c]
        BY <1>2, <3>2
      <4> QED
        BY <1>1, <1>7, <4>1 DEF StreamOK
    <3> QED
      BY <3>1, <3>2
  <2>3. ASSUME NEW d \in Chans, d # c
        PROVE  /\ IF chan'[d] = "none" THEN taken'[d] = 0 ELSE hpc'[d] = "caught"
               /\ hpc'[d] = "caught" => \A r \in pend'[d] :
                     \E k \in DOMAIN streamed'[d] : streamed'[d][k] = Upsert(r.id, r.ver)
               /\ \A j \in 1..taken'[d] :
                     \E k \in DOMAIN streamed'[d] : streamed'[d][k] = evt'[log'[d][j]]
    BY <1>0, <1>1, <1>8, <2>3 DEF StreamOK
  <2>4. hpc[c] = "caught"
    BY <1>0, <1>1 DEF StreamOK
  <2>5. chan'[c] # "none" /\ hpc'[c] = "caught"
    BY <1>0, <2>4
  <2>6. \A r \in pend'[c] : \E k \in DOMAIN streamed'[c] : streamed'[c][k] = Upsert(r.id, r.ver)
    BY <1>0, <1>8, <2>1
  <2>7. \A j \in 1..taken'[c] : \E k \in DOMAIN streamed'[c] : streamed'[c][k] = evt'[log'[c][j]]
    BY <1>0, <1>8, <2>2
  <2> QED
    BY <2>3, <2>5, <2>6, <2>7 DEF StreamOK
<1>12. AllAccounted'
  BY <1>0, <1>1 DEF AllAccounted, Accounted, IsUpsert
<1> QED
  BY <1>9, <1>10, <1>11, <1>12 DEF VInv

----------------------------------------------------------------------------
LEMMA VInvInit == VSInit => VInv
<1> SUFFICES ASSUME VSInit PROVE VInv
  OBVIOUS
<1> USE DEF VSInit, Init
<1>1. VTypes
  BY FS_EmptySet DEF VTypes
<1>2. TableOK /\ RowsAnnounced /\ VersionsDistinct
  BY DEF TableOK, RowsAnnounced, VersionsDistinct, IsUpsert
<1>3. AnnounceOK /\ AllAccounted
  BY DEF AnnounceOK, AllAccounted
<1>4. StreamOK
  BY DEF StreamOK
<1> QED
  BY <1>1, <1>2, <1>3, <1>4 DEF VInv

LEMMA VInvStep == IInv /\ DInv /\ VInv /\ [VSNext]_allVars => VInv'
<1> SUFFICES ASSUME IInv, DInv, VInv, [VSNext]_allVars PROVE VInv'
  OBVIOUS
<1>1. ASSUME NEW n \in Notes, VaultCreate(n) \/ VaultUpdate(n) \/ VaultDelete(n) \/ VaultNotify(n)
      PROVE  VInv'
  BY <1>1, CreateStep, UpdateStep, DeleteStep, NotifyKeeps
<1>2. ASSUME NEW c \in Chans, \/ StreamList(c) \/ StreamSendMissing(c) \/ StreamAbort(c)
                             \/ StreamSubscribe(c) \/ StreamForward(c) \/ StreamCancel(c)
      PROVE  VInv'
  BY <1>2, ListStep, SendMissingStep, AbortStep, SubscribeKeeps, ForwardKeeps, CancelKeeps
<1>3. CASE UNCHANGED allVars
  <2>1. UNCHANGED <<lock, chan, log, taken, npc, present, rows, top, clock, evt, liveAt,
                    hpc, known, pend, streamed, unlisted, gap>>
    BY <1>3 DEF allVars, vars, regVars, chanVars, callVars, histVars, dbVars, streamVars
  <2>2. RegistryMoves
    BY <2>1 DEF RegistryMoves
  <2> QED
    BY <2>1, <2>2, RegistryStep
<1> QED
  BY <1>1, <1>2, <1>3 DEF VSNext

(* The invariant of the composition, on top of the registry's.             *)
THEOREM VaultSyncInvariance == VSSpec => [](IInv /\ DInv /\ VInv)
<1>1. VSSpec => []IInv /\ []DInv
  BY VaultSyncImplementsRegistry, Invariance, DeliveryInvariance, PTL
<1> QED
  BY <1>1, VInvInit, VInvStep, PTL DEF VSSpec

(* Updates of an item, however they interleave with each other and with    *)
(* streams, produce different versions: UPDATE increments in one           *)
(* statement.                                                              *)
THEOREM VersionsTellApart == VSSpec => []VersionsDistinct
<1>1. VInv => VersionsDistinct
  BY DEF VInv
<1> QED
  BY <1>1, VaultSyncInvariance, PTL

(* In a state of the invariant a quiet stream lacks nothing but its gap.   *)
LEMMA GapFromInvariant ==
    ASSUME IInv, DInv, VInv
    PROVE  OnlyTheGapIsLost
<1> SUFFICES ASSUME NEW c \in Chans, NEW n \in Notes,
                    Quiet(c), IsUpsert(n), Undisturbed(n, c), n \notin gap[c],
                    ~\E r \in unlisted[c] : r.id = evt[n].item /\ r.ver >= evt[n].ver,
                    evt[n].item \in Ids(rows)
             PROVE  Told(c, evt[n].item, evt[n].ver)
  BY DEF OnlyTheGapIsLost
<1>1. VTypes /\ StreamOK /\ AnnounceOK /\ AllAccounted
  BY DEF VInv
<1>2. chan[c] = "open" /\ lock # c /\ Buffered(c) = 0 /\ hpc[c] = "caught"
  BY <1>1 DEF Quiet, StreamOK
<1>3. \/ known[c][evt[n].item] >= evt[n].ver
      \/ \E r \in pend[c] : r.id = evt[n].item /\ r.ver >= evt[n].ver
      \/ c \in liveAt[n]
  BY <1>1, <1>2 DEF AllAccounted, Accounted
<1>4. CASE known[c][evt[n].item] >= evt[n].ver
  BY <1>4 DEF Told
<1>5. CASE \E r \in pend[c] : r.id = evt[n].item /\ r.ver >= evt[n].ver
  <2>1. PICK r \in pend[c] : r.id = evt[n].item /\ r.ver >= evt[n].ver
    BY <1>5
  <2>2. PICK k \in DOMAIN streamed[c] : streamed[c][k] = Upsert(r.id, r.ver)
    BY <1>1, <1>2 DEF StreamOK
  <2> QED
    BY <2>1, <2>2 DEF Told, Upsert
<1>6. CASE c \in liveAt[n]
  <2>1. c \in present[n] /\ c \notin full[n]
    BY <1>1, <1>2, <1>6 DEF AnnounceOK, Undisturbed
  <2>2. Owed(n) = {}
    BY DEF DInv, DoneOK, Undisturbed
  <2>3. Delivered(n, c)
    BY <2>1, <2>2 DEF Owed
  <2>4. PICK j \in DOMAIN log[c] : log[c][j] = n
    BY <2>3 DEF Delivered
  <2>5. j \in 1..taken[c]
    <3>1. log[c] \in Seq(Notes) /\ taken[c] \in Nat /\ Len(log[c]) - taken[c] = 0
      BY <1>2 DEF IInv, TypeOK, Buffered
    <3> QED
      BY <3>1
  <2>6. PICK k \in DOMAIN streamed[c] : streamed[c][k] = evt[n]
    BY <1>1, <2>4, <2>5 DEF StreamOK
  <2>7. evt[n].ver \in Nat
    BY <1>1 DEF IsUpsert, VTypes, Event
  <2> QED
    BY <2>6, <2>7 DEF Told, IsUpsert
<1> QED
  BY <1>3, <1>4, <1>5, <1>6

(* What a stream of Subscribe can miss of the items that still exist is    *)
(* what was committed between its List and its registration, and nothing   *)
(* else: for any number of streams, mutations, rows and any buffer size.   *)
THEOREM OnlyGapLost == VSSpec => []OnlyTheGapIsLost
<1>1. IInv /\ DInv /\ VInv => OnlyTheGapIsLost
  BY GapFromInvariant
<1> QED
  BY <1>1, VaultSyncInvariance, PTL

(* "The server immediately streams any missing or updated items", said of  *)
(* the streams between whose List and Subscribe nothing was committed.     *)
WithoutGapNothingMissed ==
    \A c \in Chans :
        /\ Quiet(c) /\ unlisted[c] = {} /\ gap[c] = {}
        /\ \A n \in Notes : evt[n] # <<>> => Undisturbed(n, c)
        => \A r \in rows : Told(c, r.id, r.ver)

(* Handler Subscribe tells such a stream the current version of every row: *)
(* the gap is all there is to the failure of CatchUpMissesNothing.         *)
THEOREM CaughtUpWithoutGap == VSSpec => []WithoutGapNothingMissed
<1>1. IInv /\ DInv /\ VInv => WithoutGapNothingMissed
  <2> SUFFICES ASSUME IInv, DInv, VInv, NEW c \in Chans, Quiet(c), unlisted[c] = {}, gap[c] = {},
                      \A n \in Notes : evt[n] # <<>> => Undisturbed(n, c),
                      NEW r \in rows
               PROVE  Told(c, r.id, r.ver)
    BY DEF WithoutGapNothingMissed
  <2>1. PICK n \in Notes : IsUpsert(n) /\ evt[n].item = r.id /\ evt[n].ver = r.ver
    BY DEF VInv, RowsAnnounced
  <2>2. Undisturbed(n, c) /\ n \notin gap[c] /\ evt[n].item \in Ids(rows)
    BY <2>1 DEF IsUpsert, Ids
  <2>3. OnlyTheGapIsLost
    BY GapFromInvariant
  <2>4. Told(c, evt[n].item, evt[n].ver)
    BY <2>1, <2>2, <2>3 DEF OnlyTheGapIsLost
  <2> QED
    BY <2>1, <2>4
<1> QED
  BY <1>1, VaultSyncInvariance, PTL
=============================================================================
