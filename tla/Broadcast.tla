------------------------------ MODULE Broadcast -----------------------------
(***************************************************************************)
(* What SyncService promises its callers, without slices, locks or loops:  *)
(* members come and go, each with a bounded queue; a call owes its event   *)
(* to everyone who is a member when it begins, offers it to each of them   *)
(* once, in any order, and ends when it owes nothing.  A full queue        *)
(* swallows an offer.  All bets on a call are off once a member starts to  *)
(* leave during it: the call is shaken, and may skip members, repeat its   *)
(* offer, make it to newcomers, or end the process.                        *)
(***************************************************************************)
EXTENDS Naturals, Sequences

CONSTANTS
    Chans,      \* the members
    Notes,      \* the calls, and their events
    BufCap      \* capacity of a queue

VARIABLES
    member,     \* "none" | "open" | "closed"
    log,        \* every event a member was ever given, in order
    taken,      \* how many of them it has taken
    call,       \* "new" | "open" | "done"
    owed,       \* members the call has still to offer its event to
    shaken,     \* has a member started to leave during the call?
    dead        \* the process has ended

vars == <<member, log, taken, call, owed, shaken, dead>>

Init ==
    /\ member = [c \in Chans |-> "none"]
    /\ log = [c \in Chans |-> <<>>]
    /\ taken = [c \in Chans |-> 0]
    /\ call = [n \in Notes |-> "new"]
    /\ owed = [n \in Notes |-> {}]
    /\ shaken = [n \in Notes |-> FALSE]
    /\ dead = FALSE

Join(c) ==
    /\ member[c] = "none"
    /\ member' = [member EXCEPT ![c] = "open"]
    /\ UNCHANGED <<log, taken, call, owed, shaken, dead>>

StartToLeave ==
    /\ \E c \in Chans : member[c] = "open"
    /\ shaken' = [n \in Notes |-> shaken[n] \/ call[n] = "open"]
    /\ UNCHANGED <<member, log, taken, call, owed, dead>>

Leave(c) ==
    /\ member[c] = "open"
    /\ \A n \in Notes : call[n] = "open" => shaken[n]
    /\ member' = [member EXCEPT ![c] = "closed"]
    /\ UNCHANGED <<log, taken, call, owed, shaken, dead>>

Begin(n) ==
    /\ call[n] = "new"
    /\ call' = [call EXCEPT ![n] = "open"]
    /\ owed' = [owed EXCEPT ![n] = {c \in Chans : member[c] = "open"}]
    /\ UNCHANGED <<member, log, taken, shaken, dead>>

Offer(n, c) ==
    /\ call[n] = "open"
    /\ c \in owed[n] \/ shaken[n]
    /\ member[c] # "closed"
    /\ IF Len(log[c]) - taken[c] < BufCap
       THEN log' = [log EXCEPT ![c] = Append(@, n)]
       ELSE UNCHANGED log
    /\ owed' = [owed EXCEPT ![n] = @ \ {c}]
    /\ UNCHANGED <<member, taken, call, shaken, dead>>

End(n) ==
    /\ call[n] = "open"
    /\ owed[n] = {} \/ shaken[n]
    /\ call' = [call EXCEPT ![n] = "done"]
    /\ UNCHANGED <<member, log, taken, owed, shaken, dead>>

Take(c) ==
    /\ member[c] = "open"
    /\ taken[c] < Len(log[c])
    /\ taken' = [taken EXCEPT ![c] = @ + 1]
    /\ UNCHANGED <<member, log, call, owed, shaken, dead>>

Die ==
    /\ \E n \in Notes : call[n] = "open" /\ shaken[n]
    /\ dead' = TRUE
    /\ UNCHANGED <<member, log, taken, call, owed, shaken>>

Next ==
    /\ ~dead
    /\ \/ StartToLeave \/ Die
       \/ \E c \in Chans : Join(c) \/ Leave(c) \/ Take(c)
       \/ \E n \in Notes : Begin(n) \/ End(n) \/ \E c \in Chans : Offer(n, c)

Spec == Init /\ [][Next]_vars
=============================================================================
