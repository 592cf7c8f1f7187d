---------------------------- MODULE RateLimiter ----------------------------
(***************************************************************************)
(* internal/server/middleware/ratelimit.go: a token bucket for each peer,  *)
(* handed out under the mutex and used after it is released, and a cleanup *)
(* goroutine that forgets peers.  Time passes in ticks; a peer is the      *)
(* x-forwarded-for header or the address and port of the connection.       *)
(* The bucket is golang.org/x/time/rate.Limiter.                           *)
(***************************************************************************)
EXTENDS Naturals, FiniteSets

CONSTANTS
    Peers,      \* the keys of rl.limiters
    Requests,   \* Register, Login and VerifyMFA requests; bounds how many there are at once
    Rate,       \* tokens a bucket gains in a tick
    Burst,      \* rl.b
    StaleAge,   \* ticks after which cleanup forgets a peer
    MaxTicks,   \* bound on the time
    MaxPassed,  \* bound on the requests of a peer that pass
    NoLimiter   \* a peer without an entry, a request that has not come

ASSUME LimiterAssumption ==
    /\ Rate \in Nat \ {0} /\ Burst \in Nat \ {0} /\ StaleAge \in Nat
    /\ MaxTicks \in Nat /\ MaxPassed \in Nat
    /\ Burst <= Rate * StaleAge     \* 10 tokens, 5 a second, 5 minutes
    /\ NoLimiter \notin [b : Nat, seen : Nat] \cup [peer : Peers, b : Nat, at : Nat]

VARIABLES
    limiters,   \* rl.limiters: the bucket of each peer and when it was seen
    bucket,     \* tokens in each bucket, numbered as they are made
    req,        \* the requests: the peer and the bucket they were handed
    now,        \* ticks so far
    passed,     \* requests of each peer that reached the next interceptor
    \* history, read by the properties only
    over,       \* what each peer is ahead of an ideal bucket
    held        \* peers with a request held up between getLimiter and Allow

limVars == <<limiters, bucket, req, now, passed, over, held>>

LimInit ==
    /\ limiters = [p \in Peers |-> NoLimiter]
    /\ bucket = <<>>
    /\ req = [r \in Requests |-> NoLimiter]
    /\ now = 0
    /\ passed = [p \in Peers |-> 0]
    /\ over = [p \in Peers |-> 0]
    /\ held = {}

(* rate.NewLimiter: a full bucket.                                         *)
NewLimiter == Cardinality(DOMAIN bucket) + 1

(* getLimiter, in one critical section.                                    *)
getLimiter(r, p) ==
    LET b == IF limiters[p] = NoLimiter THEN NewLimiter ELSE limiters[p].b
    IN  /\ req[r] = NoLimiter /\ passed[p] < MaxPassed
        /\ bucket' = [c \in 1..(IF b = NewLimiter THEN b ELSE NewLimiter - 1) |->
                        IF c \in DOMAIN bucket THEN bucket[c] ELSE Burst]
        /\ limiters' = [limiters EXCEPT ![p] = [b |-> b, seen |-> now]]
        /\ req' = [req EXCEPT ![r] = [peer |-> p, b |-> b, at |-> now]]
        /\ UNCHANGED <<now, passed, over, held>>

Less(n, m) == IF n < m THEN 0 ELSE n - m

(* So late that the bucket may not be full again when it is forgotten.     *)
HeldUp(r) == Rate * Less(StaleAge + 1, now - req[r].at) < Burst

(* Allow: a token is taken and the handler runs, or the request is refused *)
Allow(r) ==
    LET p == req[r].peer IN
    /\ req[r] # NoLimiter
    /\ IF bucket[req[r].b] > 0
       THEN /\ bucket' = [bucket EXCEPT ![req[r].b] = @ - 1]
            /\ passed' = [passed EXCEPT ![p] = @ + 1]
            /\ over' = [over EXCEPT ![p] = @ + 1]
       ELSE UNCHANGED <<bucket, passed, over>>
    /\ req' = [req EXCEPT ![r] = NoLimiter]
    /\ held' = IF HeldUp(r) THEN held \cup {p} ELSE held
    /\ UNCHANGED <<limiters, now>>

Refilled(n) == IF n + Rate > Burst THEN Burst ELSE n + Rate

Tick ==
    /\ now < MaxTicks
    /\ now' = now + 1
    /\ bucket' = [b \in DOMAIN bucket |-> Refilled(bucket[b])]
    /\ over' = [p \in Peers |-> Less(over[p], Rate)]
    /\ UNCHANGED <<limiters, req, passed, held>>

(* Mutant: every peer is forgotten.                                        *)
Stale_All == {p \in Peers : limiters[p] # NoLimiter}

(* The peers not seen for longer than StaleAge.                            *)
Stale == {p \in Peers : limiters[p] # NoLimiter /\ now - limiters[p].seen > StaleAge}

(* One round of cleanup, under the mutex.                                  *)
Cleanup ==
    /\ Stale # {}
    /\ limiters' = [p \in Peers |-> IF p \in Stale THEN NoLimiter ELSE limiters[p]]
    /\ UNCHANGED <<bucket, req, now, passed, over, held>>

LimNext ==
    \/ Tick \/ Cleanup
    \/ \E r \in Requests : Allow(r) \/ \E p \in Peers : getLimiter(r, p)

LimSpec == LimInit /\ [][LimNext]_limVars

----------------------------------------------------------------------------
(* Types; a bucket never holds more than the burst.                        *)
LimTypeOK ==
    /\ \A p \in Peers : limiters[p] # NoLimiter => limiters[p].b \in DOMAIN bucket
    /\ \A b \in DOMAIN bucket : bucket[b] \in 0..Burst
    /\ now \in 0..MaxTicks /\ held \subseteq Peers

(* A peer is never ahead of a single bucket by more than the burst, though *)
(* a bucket is used after the mutex is released and is thrown away by the  *)
(* cleanup: it is full again by then, unless a request was held up between *)
(* the two for nearly as long as a peer is remembered.                     *)
BurstIsTheMost == \A p \in Peers \ held : over[p] <= Burst
=============================================================================
