------------------------------- MODULE MCParts ------------------------------
(***************************************************************************)
(* Parts of the server and of the client that share no state, for TLC:     *)
(* paging through the vault, the credential commands, the rate limiter,    *)
(* the life of the server process, client processes on one config file,    *)
(* the local files and the two derivations of the generate command.  Each  *)
(* behaviour runs one part while the others are at rest: interleaving      *)
(* independent parts only multiplies the states.                           *)
(***************************************************************************)
EXTENDS VaultPaging, CredentialCmd, RateLimiter, ServerLife, ClientSession, LocalFiles, Derivation

VARIABLE part

partVars == <<part, vars, credVars, limVars, lifeVars, sessVars, fileVars, deriveVars>>

(* An empty table, read.                                                   *)
PagingAtRest ==
    rows = {} /\ cursor = NoCursor /\ seen = {} /\ pages = 1 /\ done = TRUE /\ writes = 0

CredAtRest ==
    items = {} /\ name = [i \in {} |-> {}] /\ run = NoRun /\ edits = 0 /\ at = {}

MCInit ==
    /\ part \in {"paging", "credential", "limiter", "life", "session", "files", "derive", "key"}
    /\ IF part = "paging" THEN Init ELSE PagingAtRest
    /\ IF part = "credential" THEN CredInit ELSE CredAtRest
    /\ LimInit
    /\ LifeInit /\ (part # "life" => applied = 0)
    /\ SessInit /\ (part # "session" => owner = <<>>)
    /\ FilesInit
    /\ DeriveInit /\ (part # "key" => rejected = [s \in Seeds |-> 0])

MCNext ==
    /\ UNCHANGED part
    /\ \/ /\ part = "paging" /\ Next
          /\ UNCHANGED <<credVars, limVars, lifeVars, sessVars, fileVars, deriveVars>>
       \/ /\ part = "credential" /\ CredNext
          /\ UNCHANGED <<vars, limVars, lifeVars, sessVars, fileVars, deriveVars>>
       \/ /\ part = "limiter" /\ LimNext
          /\ UNCHANGED <<vars, credVars, lifeVars, sessVars, fileVars, deriveVars>>
       \/ /\ part = "life" /\ LifeNext
          /\ UNCHANGED <<vars, credVars, limVars, sessVars, fileVars, deriveVars>>
       \/ /\ part = "session" /\ SessNext
          /\ UNCHANGED <<vars, credVars, limVars, lifeVars, fileVars, deriveVars>>
       \/ /\ part = "files" /\ FilesNext
          /\ UNCHANGED <<vars, credVars, limVars, lifeVars, sessVars, deriveVars>>
       \/ /\ part = "derive" /\ DeriveNext
          /\ UNCHANGED <<vars, credVars, limVars, lifeVars, sessVars, fileVars>>
       \/ /\ part = "key" /\ KeyNext
          /\ UNCHANGED <<vars, credVars, limVars, lifeVars, sessVars, fileVars>>

(* No fair action of a part is enabled while the part is at rest.          *)
MCSpec ==
    /\ MCInit /\ [][MCNext]_partVars
    /\ WF_vars(ListItems) /\ LifeFairness /\ SessFairness /\ DeriveFairness

----------------------------------------------------------------------------
(* The type invariants of the parts; that of ServerLife says that a call   *)
(* being served has an open pool and a migrated database.                  *)
PartsTypeOK ==
    TypeOK /\ CredTypeOK /\ LimTypeOK /\ LifeTypeOK /\ SessTypeOK /\ FilesTypeOK /\ DeriveTypeOK

(* Nothing runs for ever but what the code lets run for ever: paging ends, *)
(* a signal stops the server unless a stream is open, a first call is      *)
(* answered or times out, DerivePassword returns unless its refill has no  *)
(* word it accepts.                                                        *)
PartsEnd == PagingEnds /\ StopsUnlessStreamed /\ CallEnds /\ DeriveEndsUnlessBarren
=============================================================================
