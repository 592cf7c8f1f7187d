----------------------------- MODULE ServerLife ----------------------------
(***************************************************************************)
(* The server process: cmd/server/main.go, App (internal/server/app) and   *)
(* the connection pool (storage/postgres/postgres.go), from the start to   *)
(* the end, with the calls it serves.  A signal before signal.Notify kills *)
(* the process; afterwards one goroutine takes the first signal and stops  *)
(* the gRPC server, which lets the calls in flight end before Serve        *)
(* returns and main closes the pool.  Serve and GracefulStop are           *)
(* google.golang.org/grpc.                                                 *)
(***************************************************************************)
EXTENDS Naturals, FiniteSets

CONSTANTS
    Unary,          \* unary calls
    Streams,        \* Subscribe calls
    Migrations,     \* how many migrations there are
    MaxSignals,     \* bound on the signals sent
    MaxStarts       \* bound on the starts of the process

Calls == Unary \cup Streams

ASSUME LifeAssumption ==
    /\ Unary \cap Streams = {} /\ Migrations \in Nat /\ MaxSignals \in Nat /\ MaxStarts \in Nat

VARIABLES
    phase,      \* where main is
    quitter,    \* the goroutine of the signal: "none" | "wait" | "stop" | "done"
    quit,       \* signals in the channel, which holds one
    pool,       \* "none" | "open" | "closed"
    applied,    \* migrations in the database, which outlives the process
    rpc,        \* the calls
    signals,    \* signals sent so far
    starts      \* starts of the process so far

lifeVars == <<phase, quitter, quit, pool, applied, rpc, signals, starts>>

Serving == phase \in {"serve", "drain"}

Idle_ == [c \in Calls |-> "none"]

LifeInit ==
    /\ phase = "off" /\ quitter = "none" /\ quit = 0 /\ pool = "none"
    /\ applied \in 0..Migrations
    /\ rpc = Idle_
    /\ signals = 0 /\ starts = 0

Dead == /\ phase' = "off" /\ quitter' = "none" /\ quit' = 0 /\ pool' = "none"
        /\ rpc' = Idle_

----------------------------------------------------------------------------
(* main, step by step.  logger.Fatal ends the process without a Close.     *)
LoadConfig ==
    /\ phase = "off" /\ starts < MaxStarts
    /\ starts' = starts + 1
    /\ phase' \in {"migrate", "off"}
    /\ UNCHANGED <<quitter, quit, pool, applied, rpc, signals>>

(* goose.Up: one transaction for each migration that is missing.           *)
MigrateOne ==
    /\ phase = "migrate" /\ applied < Migrations
    /\ applied' = applied + 1
    /\ UNCHANGED <<phase, quitter, quit, pool, rpc, signals, starts>>

MigrateEnds ==
    /\ phase = "migrate"
    /\ phase' = IF applied = Migrations THEN "init" ELSE "off"
    /\ UNCHANGED <<quitter, quit, pool, applied, rpc, signals, starts>>

(* postgres.New: the pool is there once the database has answered a ping.  *)
Connected == pool' = "open"

(* app.New and signal.Notify: no database, or no certificate, is fatal.    *)
NewApp ==
    /\ phase = "init"
    /\ \/ Connected /\ phase' = "listen" /\ quitter' = "wait"
       \/ phase' = "off" /\ UNCHANGED <<pool, quitter>>
    /\ UNCHANGED <<quit, applied, rpc, signals, starts>>

(* Run: the port may be taken, or the server may be stopped already.       *)
Listen ==
    /\ phase = "listen"
    /\ phase' \in IF quitter \in {"wait"} THEN {"serve", "ran"} ELSE {"ran"}
    /\ UNCHANGED <<quitter, quit, pool, applied, rpc, signals, starts>>

(* Close, the end of main.                                                 *)
Close ==
    /\ phase = "ran"
    /\ pool' = "closed" /\ phase' = "end"
    /\ UNCHANGED <<quitter, quit, applied, rpc, signals, starts>>

(* The process is gone, with goroutines and calls.                         *)
Exit_ ==
    /\ phase = "end"
    /\ Dead
    /\ UNCHANGED <<applied, signals, starts>>

----------------------------------------------------------------------------
(* SIGINT or SIGTERM.  Once Notify is set a second one is lost: the        *)
(* channel holds one signal and one goroutine reads it once.               *)
Signal ==
    /\ phase # "off" /\ signals < MaxSignals
    /\ signals' = signals + 1
    /\ IF quitter = "none" THEN Dead ELSE quit' = 1 /\ UNCHANGED <<phase, quitter, pool, rpc>>
    /\ UNCHANGED <<applied, starts>>

(* Mutant: the goroutine waits until Run has returned.                     *)
StopBegin_AfterRun ==
    /\ quitter = "wait" /\ quit = 1 /\ phase = "ran"
    /\ quit' = 0 /\ quitter' = "stop"
    /\ UNCHANGED <<phase, pool, applied, rpc, signals, starts>>

(* GracefulStop begins: no new calls, Serve waits for its end.             *)
StopBegin ==
    /\ quitter = "wait" /\ quit = 1 /\ phase \in {"listen", "serve", "ran"}
    /\ quit' = 0 /\ quitter' = "stop"
    /\ phase' = IF phase = "serve" THEN "drain" ELSE phase
    /\ UNCHANGED <<pool, applied, rpc, signals, starts>>

(* Mutant: GracefulStop does not wait for the calls.                       *)
StopEnds_AtOnce ==
    /\ quitter = "stop"
    /\ quitter' = "done"
    /\ phase' = IF phase = "drain" THEN "ran" ELSE phase
    /\ UNCHANGED <<quit, pool, applied, rpc, signals, starts>>

(* It ends when no call is left; Serve returns.                            *)
StopEnds ==
    /\ quitter = "stop" /\ \A c \in Calls : rpc[c] = "none"
    /\ quitter' = "done"
    /\ phase' = IF phase = "drain" THEN "ran" ELSE phase
    /\ UNCHANGED <<quit, pool, applied, rpc, signals, starts>>

----------------------------------------------------------------------------
(* The interceptors in their order: rate limiter and token for a unary     *)
(* call, the token alone for a stream; each may end the call.              *)
First(c) == IF c \in Unary THEN "limit" ELSE "token"

Accept(c) ==
    /\ phase = "serve" /\ rpc[c] = "none"
    /\ rpc' = [rpc EXCEPT ![c] = First(c)]
    /\ UNCHANGED <<phase, quitter, quit, pool, applied, signals, starts>>

Intercept(c) ==
    /\ phase \in {"serve", "drain", "ran"} /\ rpc[c] \in {"limit", "token"}
    /\ \E to \in {"none", IF rpc[c] = "limit" THEN "token" ELSE "handler"} :
          rpc' = [rpc EXCEPT ![c] = to]
    /\ UNCHANGED <<phase, quitter, quit, pool, applied, signals, starts>>

(* A handler that uses the pool and returns.                               *)
HandlerEnds(c) ==
    /\ c \in Unary /\ rpc[c] = "handler"
    /\ rpc' = [rpc EXCEPT ![c] = "none"]
    /\ UNCHANGED <<phase, quitter, quit, pool, applied, signals, starts>>

(* A stream ends when its client goes away; nothing in the server ends it. *)
StreamEnds(c) ==
    /\ c \in Streams /\ rpc[c] = "handler"
    /\ rpc' = [rpc EXCEPT ![c] = "none"]
    /\ UNCHANGED <<phase, quitter, quit, pool, applied, signals, starts>>

MainStep == LoadConfig \/ MigrateOne \/ MigrateEnds \/ NewApp \/ Listen \/ Close \/ Exit_

LifeNext ==
    \/ MainStep \/ Signal \/ StopBegin \/ StopEnds
    \/ \E c \in Calls : Accept(c) \/ Intercept(c) \/ HandlerEnds(c) \/ StreamEnds(c)

(* Goroutines run on, handlers end; clients need not hang up.              *)
LifeFairness ==
    /\ WF_lifeVars(MigrateOne \/ MigrateEnds \/ NewApp \/ Listen \/ Close \/ Exit_)
    /\ WF_lifeVars(StopBegin \/ StopEnds)
    /\ \A c \in Calls : WF_lifeVars(Intercept(c) \/ HandlerEnds(c))

LifeSpec == LifeInit /\ [][LifeNext]_lifeVars /\ LifeFairness

----------------------------------------------------------------------------
(* Types; and while a call is being served the pool is open and the        *)
(* database has every migration, whenever a signal comes.                  *)
LifeTypeOK ==
    /\ phase \in {"off", "migrate", "init", "listen", "serve", "drain", "ran", "end"}
    /\ quitter \in {"none", "wait", "stop", "done"} /\ quit \in {0, 1}
    /\ pool \in {"none", "open", "closed"} /\ applied \in 0..Migrations
    /\ \A c \in Calls : rpc[c] \in {"none", "limit", "token", "handler"}
    /\ (\E c \in Calls : rpc[c] # "none") => pool = "open" /\ applied = Migrations

(* A signal taken by the goroutine ends the process, unless a stream whose *)
(* client stays connected keeps GracefulStop waiting.                      *)
StopsUnlessStreamed ==
    (quit = 1 /\ quitter = "wait") ~> (phase = "off" \/ \E c \in Streams : rpc[c] = "handler")
=============================================================================
