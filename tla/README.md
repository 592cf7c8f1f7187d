# GophKeeper: models and proofs

TLA+ models of GophKeeper (a password manager: gRPC server over PostgreSQL, terminal client), the TLC
runs that check them on small instances, and TLAPS proofs of nearly all their safety properties for
every value of the constants. Paths below are relative to `src/internal/` unless they start with
another directory.

## The system

| part | state | operations | talks to |
|---|---|---|---|
| SyncService `server/service/sync.go` | per user a slice of channels, an RWMutex | Subscribe, its cleanup function, NotifyUpsert/NotifyDelete | called by the vault service (notify) and by stream handlers (subscribe, receive, clean up), all in goroutines of their own |
| Vault table `server/storage/postgres/vault.go` | rows with id, type, version, updated_at | insert, update (version + 1), delete, paged list | PostgreSQL, one statement per transaction |
| Vault service and handlers `server/service/vault.go`, `server/handler/vault.go` | none | CreateItem, GetItem, UpdateItem, DeleteItem, ListItems | table first, then audit, then SyncService |
| Sync stream `server/handler/sync.go` | locals of the handler | list, send what the client lacks, register, forward until the client leaves | vault service, SyncService, the client's stream |
| Auth and MFA services `server/service/{auth,mfa}.go`, `server/handler/auth.go`, `server/middleware/auth.go`, `shared/jwt/jwt.go` | tables users, sessions, mfa_totp; tokens are stateless | Register, Login, Refresh, Logout, EnrollTOTP, ConfirmTOTP, VerifyMFA | several statements per request, no transaction around them |
| Audit log `shared/audit`, `server/storage/postgres/audit.go` | one table, never read | an entry at the end of an operation | called by the services, its error is ignored |
| Rate limiter `server/middleware/ratelimit.go` | token bucket per peer, a mutex | allow, forget idle peers | in front of the auth handlers |
| Server process `cmd/server/main.go`, `server/app/app.go`, `server/config`, `server/storage/postgres/postgres.go` | pool, gRPC server, a signal channel | start, migrate, serve, stop | the operating system, PostgreSQL |
| Sign-in screens `client/tui/{auth,launcher}.go` | step, inputs, focus, a package variable, the shared config | keys, messages of background commands | server, config file |
| Vault screens `client/tui/{app,payloads}.go` | modes, items, cursor, search, form, clipboard, offline flag | keys, messages, timers | server, offline cache |
| Generator screen `client/tui/passgen.go` | settings, a preview | keys, answers of background refreshes | `shared/crypto` |
| gRPC client `client/grpcclient`, config `client/config` | tokens in memory and in config.yaml | refresh and retry once, load, save | server; every client process |
| Offline cache `client/vault/localcache.go` | one encrypted file | save after a load, load when offline | vault screens |
| Local database `client/vault/localdb.go`, keyfile `shared/crypto/keyfile.go` | an encrypted file and its second factor | save, load | only its tests call it |
| Commands `client/cmd` | none | auth, credential, otp, generate, sync, tui | server, config file |
| Generators and encryption `shared/crypto` | none | derive, generate, seal | libraries |

What is hard in it: notify walks a slice outside the lock that protects it; a stream reads the table
and registers in two steps; commit and notification are two steps; the tokens of a request are read
and used in different statements; the screens keep accepting keys while commands are in flight and
take their answers in any order; several goroutines and several processes share one Config and one
file that is rewritten in place; a limiter is used after its lock is released; shutting down waits
for streams that nothing ends. `PROJECT.json` lists these hazards at their lines.

## Modules

### Server

**SyncService.** One user's entry of the map. `heap`, `subs` are the backing arrays and the slice
header; `append` writes in place while `len < cap` and copies to an array of twice the capacity
otherwise; the removal `append(subs[:i], subs[i+1:]...)` is one shift per step. `Subscribe(c)` is one
step under the lock. The cleanup function is `CancelFind` (lock, find), `CancelShift` (one word) and
`CancelClose` (store the header, close, unlock). `notify` is `NotifyBegin` (copy the header under the
read lock), then `NotifyRead`/`NotifySend` for each slot, without the lock, then `NotifyEnd`. The send
enqueues, drops when the buffer is full, or ends the process when the channel is closed. `Receive` is
the loop of the stream handler. The variables `present`, `gone`, `earlier`, `full`, `overlap` record
history for the properties and guard nothing.

**Broadcast** is what SyncService promises: members with bounded queues, calls that owe their event to
whoever was a member when they began, and no promise for a call during which a member starts to
leave. `SyncService!KeepsPromise` is the refinement (`INSTANCE Broadcast WITH`): the members are the
words below the length of the header, what a call owes is what is left of `present`, and reads,
shifts and lock steps are stutters.

**VaultStore.** The statements of the vault table as operators on a set of rows, the paged SELECT with
its order, limit rule and cursor. **VaultPaging** is a client that follows `next_cursor` while other
requests update and delete.

**VaultSync** composes SyncService and VaultStore: a member of `Notes` is a mutation request that
commits (`VaultCreate`, `VaultUpdate`, `VaultDelete`) and then takes the steps of its notify call; a
member of `Chans` is a stream: `StreamList`, `StreamSendMissing` (or `StreamAbort`),
`StreamSubscribe`, `StreamForward`, `StreamCancel`. The list of a stream may be cut by a connection
that fails while rows arrive, which `List` does not report (`ListOrPart`). `gap`, `unlisted` and
`liveAt` are history.

**AuthServer.** `acct` holds users and TOTP records, `sessions` the table, `access` and `handed` the
tokens clients hold. Every request is a member of `Reqs`; each database statement is a step, so
`Login` is `LoginRead`, `LoginCreate`, and `ConfirmTOTP` is `ConfirmRead`, `ConfirmWrite`,
`ConfirmRequire` with `ConfirmFails` between them. Tokens are their claims: whole seconds, nothing
random. The audit entry is written where the services write it, to a table whose `ip` column takes an
address and no port. `Intercepted` says whether `AuthInterceptor` runs in front (as
`server/app/app.go` installs it) or the handlers are called with `ContextWithUserID` (as the handler
tests do).

**RateLimiter.** `getLimiter` under the mutex and `Allow` after it are two steps of a request, `Tick`
is time, `Cleanup` the goroutine that forgets peers; the bucket is `golang.org/x/time/rate` (external).

**ServerLife.** `main` from the configuration over the migrations to `Serve`, the signal goroutine,
`GracefulStop`, the closing of the pool, and the calls being served, each through the interceptors
to its handler. `Serve` and `GracefulStop` are grpc-go (external): a stop waits for the open calls.

### Client

**AuthFlow.** `AuthModel` under the `Launcher`. A key or a message is one step and ends in `Show`,
which draws the screen and panics when a label is missing. A submit starts a command, whose call,
two token writes, save and message are separate steps. A form is the number of its inputs. Once a
refresh token is kept, a refused call goes through `refreshInterceptor`: `RefreshAsked`, `Renewed`,
`RenewedSave`, `SecondTry`. A token is the sign-in it belongs to.

**VaultTui.** `Model` of `client/tui/app.go`. The screen is `mode` with what its handlers dereference
(`form`, `gen` for `passGen`, `target` for `deleteTarget`, `export` for `exportItem`), the list is
`items` with `loading`, `offline` and `syncErr`. One action per key that writes, reloads or changes the
screen; a key that needs a row may be pressed on any row. A command is a goroutine in a slot:
`BuildPayload` (saveForm reads `m.items` when it runs), the call (`CallApplied`, with the answer
delivered or lost, or `CallFails`; `SecondTry` when the token has run out), for a reload `LoadListed`,
`LoadSaved` (the cache write may fail and leave the old file or an empty one) or `LoadFails` (the cache
is read instead), and at last one message (`LoadedArrives` ...). An item is its kind, password, history
and flags. Assumed: the vault fits one page; a call the client gave up has no effect after that; the
cache key does not change. `overlapped` and `clean` are history and guard nothing; `started` and
`failures` are bounds.

**VaultList.** The same model seen from the cursor: sidebar and its folders, `filteredItems` with its
filters and its exchange sort, search, the revealed password (a card number is masked when it has more
than four digits), the clipboard with a timer per copied item and none for a password copied in the
generator (`GeneratorCopy`), the widths of the panels. A write is only seen as another listing that a
reload brings.

**ItemForm.** One item through `buildForm`, the parsers of `payloads.go`, `saveForm` and `setItemFlag`,
with payloads written by the commands, by other clients and by earlier versions. A payload is a
function from JSON keys to texts, or the one key "raw". The inputs hold one line (`OneLine`), and a new
item starts with the folder selected in the sidebar.

**PassGen.** The generator overlay: every key that changes a setting starts `refreshCmd`, a goroutine
with a copy of the settings; its answer is taken whenever it comes. `GeneratePassword` is the set of
passwords it can return, as numbers of digits and symbols.

**Overlay.** `placeover` and `byteOffsetForCol` on rows of letters, wide characters and escape
sequences, and where `viewWithOverlay` puts a panel.

**ClientSession.** config.yaml, the processes that read and write it, and `refreshInterceptor`. A slot
is a goroutine of a terminal UI (two of them) or a command. A call goes `sent`, perhaps `refresh`,
`save`, `writing`, `resent`, `answered`; a sign-in goes `sent`, `save`, `writing`. `SaveOpen` empties the
file and `SaveWrite` fills it, so that another process, an exit or an error can come in between.
`Listed` stores the cache under the key of the refresh token held at that moment. The server is
reduced to what a client can tell apart: sessions, tokens issued, tokens lapsed.

**CredentialCmd.** `credential` and `otp` commands over VaultStore: `findCredential` in the first page,
then a second call, with other clients writing in between. **Derivation.** `DerivePassword` word by
word and the key command, run again and again on the same two files with any seed (a master password
with a realm), and what it reports of them; words have `Bits` bits, the alphabets their real sizes.
**LocalFiles.** The local database written piece by piece, read meanwhile by another process, with
crashes and full disks; encryption is symbolic.

### For TLC and for the prover

`MCSyncService`, `MCAuthServer` add symmetry. `MCParts` and `MCScreens` put components that share no
state side by side: a constant variable `part` picks the one that runs, the others stay as they begin.
Nothing is lost, since no action of one reads a variable of another, and interleaving them would only
multiply the states. `PartsTypeOK`, `PartsEnd`, `ScreensTypeOK` and `ScreensEnd` are the conjunctions of
the components' type invariants and liveness properties.

The theorems are in eight modules: `SyncProofs` (the registry, then table, registry and streams
together), `AuthServerProofs`, `VaultTuiProofs`, `ClientSessionProofs`, for the components that MCScreens
and MCParts put side by side `ScreensProofs` and `PartsProofs`, `RowsProofs` for the two components of
MCScreens whose operators are loops (VaultList and Overlay), and `DataLemmas`, the facts about numbers,
sequences and folds that the last three use.

## Runs

| run | bounds | shows |
|---|---|---|
| sync | 3 channels and 2 notify calls, and 2 channels and 3 calls, buffers of 2 | the registry is exact; closed channels are left alone and the process dies only from an overlap; exactly-once delivery unless a cleanup overlaps; of two calls one after the other the events keep their order in every channel; SyncService implements Broadcast |
| sync_cancel_race | 3 channels, 1 call | violated: a running notify still sends to a closed channel, which ends the server |
| vault_sync | 1 stream, 2 mutations, 2 items | only what is committed between list and registration, or left out of the list, is lost; live events are streamed; versions tell writes apart; notify calls and cleanups end |
| vault_sync_gap | 1 stream, 2 mutations | violated: that gap is not empty |
| auth | 1 user, 6 requests, 3 seconds | confirmed before required; tokens only from live sessions; verified only after a code |
| auth_verify | 1 user, 6 requests | violated: VerifyMFA never finds a user id behind the interceptor |
| auth_audit | 1 user, 6 requests | violated: no operation is recorded, the address column refuses a port |
| parts: paging | 4 ids, 2 types, pages of 2, 1 write | following the cursor ends |
| parts: credential | 4 ids, pages of 2, 2 names, 1 edit | a name means one credential and delete removes what was found, whoever writes in between |
| parts: limiter | 1 peer, 2 requests, 6 ticks | at most the burst more than one bucket would allow |
| parts: life | 2 calls, 1 stream, 2 migrations, 3 signals, 2 starts | a call has its database; a signal stops the server unless a stream is open |
| parts: session | 1 terminal UI with 2 goroutines, 1 command, 2 accounts, 2 sessions of 2 tokens, 3 calls | tokens and name fit; nothing is carried out twice; the file is whole; the cache is one's own; a first call ends |
| parts: files | 2 passwords, 1 keyfile, 2 saves, 1 load | a load returns one save, and an error that is true |
| parts: derive, key | words of 8 bits, lengths 2, 3 and 4 of which 3 is allowed; 2 seeds, 2 blocks of the stream, 2 runs of the key command | letters are equally likely but for one word; a password is found unless the refill has no good word; two files reported written, from one run or from one seed, hold the halves of one key |
| paging_cover | 3 ids, no writes | violated: following the cursor leaves items out |
| screens: signin | 2 commands, with refreshes and second tries | forms fit until an error arrives at another step; a sign-in is there as a whole; the spinner stops |
| screens: list | 2 listings of 3 rows, a long and a short card number, 2 reloads, 2 copies, 1 letter | the cursor stays in range; every item has one view; sorting loses none; a secret is in clear only where asked; the clipboard clears after an item was copied |
| screens: generator | 2 refreshes, opened twice, lengths 4 and 5 | the preview is as asked unless refreshes race; every refresh answers |
| screens: form | every payload of every writer, 2 texts typed, 2 saves, 2 flags | the kind is kept; what is saved is shown |
| screens: overlay | rows of up to 4 marks, panels of up to 2, 6 window sizes | a panel lies where it belongs and the screen keeps its shape |
| auth_flow_error | 2 commands | violated: the error of a refused code returns to the login form |
| vault_tui | 2 ids, 2 commands beside the first load, 1 failure, with or without an old cache | no handler finds its data gone; a list is what its header says and no update forgets a password, while commands do not overlap; the spinner stops unless a second try hangs |

Bounds. Three channels are the least with which a removal shifts a word, a slot is reused by an append
in place, and a third party is present; three calls are the least with which two events are queued at
once and a third meets a full buffer. `MaxActors` bounds channels and calls together, so both cases are
in the run and their product is not. In `vault_sync`, with a buffer of one, two events fill it. Four rows and pages of at
most two give three pages and a page that does not hold every match. Six requests are register, login,
enrol, confirm, login, verify; the interleavings of any two of them are included. Two submits are a
login and a code, or two logins in flight. In `vault_tui` two commands are a write and a second write
on what the first left behind, each with its reload, and one failure is a lost answer, a dead server or
a bad cache write in any place. In the session part three calls let two goroutines refresh at once
while one signs in, or a command sign in and save while the terminal UI does. Two listings have
different folders, so that a reload takes the category under the cursor away. Two refreshes and two
openings let an answer arrive in a later overlay. Eight-bit words keep what matters of 32: 255 like
2^32 - 1 is divided by the 51 letters of one alphabet. Channels, events and requests are symmetric
where symmetry is used (safety only): no definition names one of them.

Deadlock is not checked: every model ends when its requests are used up, or the process has died.

Fairness. A goroutine that can run does run (`Notify`, the rest of a cleanup that holds the lock, a
stream's loop, a refresh of the generator, a save under way, `main`); a database call returns; the
first try of an RPC of the terminal UI returns, since it has a deadline, and so does a token refresh;
timers fire; the Bubble Tea loop takes the messages that come. Nobody has to subscribe, hang up, sign
in or press a key. No answer has to come, so a second try, which has lost its deadline
(`client/grpcclient/client.go:109`), may wait for ever: it has no fairness anywhere, `CallEnds` and
`SyncingEnds` are said of first tries (`SyncingEnds` under `SecondTriesEnd`), and `ClipboardClears` and
`RefreshEnds` do not involve one. `LoadingEnds` needs no such condition: a second try of the sign-in
screens takes a refresh token, and the sign-in that left it opens the vault, which ends these screens,
or fails to. Subscribers need not read for `CallsEnd`; only `LiveUpdateStreamed` assumes that the
stream's loop goes on. A stream's client need not leave, which is why `StopsUnlessStreamed` has its
condition.

## Findings

The six violated properties are listed in `PROJECT.json` with the sentences of the repository they
contradict. What follows can be read off the same models, and is why some properties say "unless".

Server. The walk of notify can skip a subscriber that stays when a cleanup shifts the array under it.
The catch-up list asks for 1000 rows, which the limit rule turns into 50, and a connection lost half
way makes it shorter still, without an error (hence `unlisted` in `OnlyTheGapIsLost`). Two logins of
one user in one second produce equal refresh tokens, the second of which is refused by the unique
column. `Refresh` of a session whose code has not been verified gives an access token like any other,
and no handler asks for the verified claim. `Logout` deletes, and `VerifyMFA` marks, the session they
are given without comparing its owner with the caller (`server/service/auth.go:154`,
`server/service/mfa.go:100`). Several operations have no audit entry at all. A peer of the rate limiter
is an address with its port unless a proxy sets x-forwarded-for, so "per-IP" is per connection; a peer
gets a fresh bucket when a request is held up between the map and the bucket for as long as a peer is
remembered. A Subscribe stream keeps `GracefulStop` waiting until its client leaves, and a second
Ctrl-C is swallowed meanwhile.

Tokens on the client. A refresh that is answered after another sign-in in the same process puts the
access token of one session beside the refresh token of another. A sign-in with a code in the
terminal UI does not store the user name. Two processes that save at once can leave text that is no
YAML, and then no command starts; a save cut short leaves an empty file, which reads as signed out; a
process with an older Config writes the older session back. A listing on its way while another
account signs in is stored under that account's key. A wrong password or code is also answered with a
refresh and a second try when there is a refresh token. The second try uses `context.Background()`
and has no deadline, so a silent server leaves the list loading for as long as it is silent. A
registration whose login fails leaves the account behind, and a second try
finds the name taken (`client/tui/auth.go:419`).

Vault screens. Commands may overlap, and then an older listing can be shown as synced and a flag set
from it writes the older password back. An edit writes a payload without the flags, so a favourite or
archived item that is edited loses them, and the `label` of an otp item of the command line with them.
`D` is not guarded by `writeBlocked`, and a form opened online can be saved after the list has gone
offline, while `README.md:268` says "Write operations (new, edit, delete) are blocked with a **Read
Only Mode** toast". An error sends the user from a form to the list and the form cannot be reached
again. A revealed password stays revealed through a reload, a new order and a search, for whatever row
is then under the cursor. A search narrows the list and leaves the cursor behind its end. The timer of
one copy clears a later one. A password copied in the generator (`client/tui/passgen.go:300`) has no
timer and stays in the clipboard, as does what the commands copy with `--copy`. A card number of up to
four characters is never masked (`client/tui/app.go:1988`). The hints and `README.md:209` offer `c` for
more kinds of item than `copyField` (`client/tui/app.go:1367`) copies. A note saved empty is shown as
its own JSON; flagging a note that is no JSON replaces its text by the flag. The inputs of a form hold
one line, so an edit of a text of several lines joins them (`client/tui/app.go:692`). The picker of new
items offers no authenticator. Windows of 90 to 99 columns get a wider detail panel (60) than those of
100 to 129 (42). A wide character cut by a panel shifts the rest of its row by a column.

Generators. `DerivePassword` does not return for a 51-letter alphabet (lower case and symbols without
ambiguous letters): 51 divides 2^32 - 1, so the threshold wraps to 0 and no word is accepted, while
`shared/crypto/passgen.go:148` says "The same masterKey + realm always produce the same password". Also
for the others one word in 2^32 is given to the first letter, and a refill without an acceptable word
repeats for ever. In the generator screen `useLower` has no effect, the passphrase tab starts on a
focus that is no field, minimums may be unattainable (the loop then gives up after 30 tries and shows a
password that misses them), and the answer of an older refresh can replace that of a newer one.
`DeriveKeyFromMaster` gives `rsa.GenerateKey` the derived stream, and that need not read it in a fixed
way, so an RSA key cannot be derived again, while `shared/crypto/keygen.go:64` says "The same masterKey
+ realm always produce the same key; nothing is stored". The key command leaves the old public file
beside a new raw key, and after two runs for different realms, or a failed second write, the two files
may be of different keys; what it reported of them is true.

Commands and files. `credential list` ("List all credentials", `client/cmd/credential/credential.go:167`)
shows the first page of 50, and a name is looked for in that page only; by id, `get` and `delete` take
an item of any type. Load of the local database reports a sealed piece that is cut short as a wrong
password, and does not look at the version; Save checks the size of what it writes only after it has
emptied the file and written the magic. The local database and the `generate` and `otp` commands are not
reachable from the program's root command.

## Proofs

Each proof follows one pattern: an inductive invariant, a lemma per action that preserves it, and the
property as a consequence. The invariants were checked with TLC before they were proved.

`SyncProofs`, first part, for every set of channels and events, every capacity and every bound on
subscribers, under `SyncAssumption`:

- `TypeCorrect`: `Spec => []TypeOK`, with the buffer bound;
- `RegistryStaysExact`: `Spec => []RegistryExact`;
- `ClosedLeftAlone`: `Spec => []ClosedIsLeftAlone`.

All follow from `Invariance`, `Spec => []IInv`. `RegistryExact` alone is not inductive: the removal
needs to know that the slot `pos` is inside the slice and that the lock holder is open (`HeaderOK`),
and appends need that a header's length is within its array. What a notify call may read needs
`WalkOK`: every slot below the length of a header it has copied holds a channel that was not closed
before the copy, although later appends and shifts write into the same array; it holds because those
writes only store channels that are open at the time.

`SyncProofs`, second part, on top of it and under the same assumption:

- `OrderKept`: `Spec => []CallOrderKept`;
- `ExactlyOnce`: `Spec => []ExactlyOnceUnlessOverlapped`;
- `RegistryKeepsPromise`: `Spec => KeepsPromise`, the refinement of Broadcast.

They follow from `DInv`. Its core is `Course`: in the array that an undisturbed walk goes through the
words are distinct, those from `idx` on are exactly the ones the call still owes its event, and
appends happen behind its end. `Tally` says what has been delivered and `Settled` that a call that was
over stays over, which gives the order.

`VaultTuiProofs`, for every set of ids and slots, every limit of the history and every number of
commands and failures, under `TuiAssumption`:

- `TuiTypeCorrect`: `Spec => []TypeOK`;
- `ScreenNeverNil`: `Spec => []ScreenHasItsData`;
- `ListStaysAsAnnounced`: `Spec => []ListIsAsAnnounced`;
- `SerialWritesKeep`: `Spec => []SerialWritesForgetNothing`.

The first two follow from `TInv`, which adds to them `CommandsWhole`: a command about to write holds a
whole item, one about to save a whole listing, and a message that brings a list has one. The other
two follow from `FInv`: unless commands have overlapped, at most one slot is busy, and what its
command says about list, server and cache (`Current`) is right for the point it has reached. For
example, between the write and its answer the list may differ from the server, but then a message is
under way that reloads it or marks it as out of sync.

`ClientSessionProofs`, for every set of terminal UIs, commands and accounts and every number of
sessions, tokens and calls, under `SessionAssumption`:

- `ConfigsFit`: `SessSpec => []ConfigFits`;
- `NeverTwice`: `SessSpec => []CarriedOutOnce`;
- `ConfigStaysWhole`: `SessSpec => []ConfigWhole`;
- `CacheStaysOwn`: `SessSpec => []CacheIsOwn`.

They follow from `SInv`. A Config moves from a process into a save under way, from there into the
file and from the file into other processes, so `Fit` must be said of all three places at once, and
against the sessions of the server, which only grow (`FitMono`). `CallFit` says what the phase of a
call means: one being refreshed or answered has a session, and only an answered one has been carried
out. `BusyOK` (a process with a call under way has a Config) keeps a command's end from taking the
Config away under a goroutine, and uses that a command has one.

`SyncProofs`, third part, for every set of streams, mutations and ids and every buffer, page and list
limit, under `SyncAssumption`, `StoreAssumption` and `CatchUpAssumption`:

- `VaultSyncImplementsRegistry`: `VSSpec => Spec`, the composition takes only steps of SyncService;
- `VersionsTellApart`: `VSSpec => []VersionsDistinct`;
- `OnlyGapLost`: `VSSpec => []OnlyTheGapIsLost`;
- `CaughtUpWithoutGap`: `VSSpec => []WithoutGapNothingMissed`, which says of the sentence that
  `vault_sync_gap` refutes when it is true: a stream with an empty gap, a whole list and no disturbed
  call has been told the current version of every row.

By the first theorem `IInv` and `DInv` of the registry hold here too; `VInv` adds the table (one row
per id, at the last version, `TableOK`), that commit comes before notify (`AnnounceOK`) and what a
stream has sent (`StreamOK`). Its core is `Accounted`: from the list on, every committed version is in
the gap, left out, known to the client, about to be sent, superseded by a delete, or owed through the
channel. Delivery through the channel is `Tally` of `DInv`, so nothing about slices is proved again.

`AuthServerProofs`, for every set of users and requests and every lifetime of the tokens, under
`AuthAssumption`:

- `AuthTypes`: `Spec => []TypeOK`;
- `NoLockout`: `Spec => []RequiredImpliesConfirmed`;
- `LiveSessions`: `Spec => []TokensComeFromLiveSessions`;
- `CodeIsNeeded`: `Spec => []EnrolledNeedsCode`;
- `WiredNeverVerifies`: `Spec => []NeverVerifies`, the finding of `auth_verify` in general: behind the
  interceptor no session of an account with the second factor on is ever verified.

They follow from `AInv`. A request holds what it read while other requests write, so the properties
must be said of the request too: `RequestOK` says what each place between two statements has
established (a `ConfirmTOTP` about to require a code has confirmed it), and a refresh between its two
statements already satisfies `TokenOK`. `TablesOK` says that ids are given out in order, that a row
keeps what its client was told, and that no logged-out session has a row. `Grows` is how the tables
may change in a step; tokens and waiting requests are stable under it, which leaves one short lemma
per action.

`ScreensProofs`, for any number of commands and refreshes, every listing, width, query and text and
every bound of the sliders:

- sign-in: `FormsFit` (`FormFitsUntilStrayError`) and `SignInIsWhole` (`SignedInWhole`). `FlowInv` adds
  what is true of a command between its writes: `TokensWritten` (access token, refresh token, save,
  message, in this order) and `OneWriter` (until two have raced, the tokens in memory are those of the
  one sign-in that writes, as far as it has come; a refresh writes an access token of the pair that is
  there);
- generator: `PreviewsAsAsked` (`PreviewIsAsAsked`). `GenInv` adds that the one refresh under way works
  from the options still shown (`OneRefresh`), and that it gives up its minimums only when a password
  may miss them (`MissedHonestly`);
- list: `RevealedWhereAsked` (`ClearOnlyWhereAsked`), from `RevealedIsAsked`: a set `revealPwd` belongs to
  the selected row until something moves the rows, and `Masked` names what a row then hides, which is
  not the number of a short card; and `EveryItemIsShown` (`EveryItemHasOneView`, the
  first conjunct of `ViewIsRight`);
- forms: `SavedFormsAreShown` (`SavedIsShown`) and the action property `KindsAreKept` (`KindKept`).
  `FormInv` adds that a form has the fields of the item's kind (`FormShaped`), and the lemmas rest on
  the fact that no field of a form has the name of a mark or of the raw text (`Reserved`);
- `ScreensTypes`: `MCSpec => []ScreensTypeOK`.

`DataLemmas` has what the prover does not bring along. The induction theorems of its library take a
predicate as a parameter, which the provers cannot instantiate; `SetInduction` takes the set of the
numbers that have the property, and follows from `WFMin` (a well-founded relation has least elements),
which has no such parameter. `FoldLeft` is a recursive function chosen by `CHOOSE`, over sets of
positions; `FoldExists` says, by induction, that there is one to choose when its values stay in a set.
After that a fold over a sequence is a loop: a sequence of values, each made from the one before.

`RowsProofs`, for every listing, category, search text and order, and for rows, panels and windows of
every size:

- list: `ListShowsWhatItHas` (`ViewIsRight`). The fold of the sort goes through the pairs in the order
  of the two nested loops (`PairsNext`, with division and remainder); after each pair the rows are a
  permutation of those it began with and `OrderedBefore` holds: what is in front of `i` is in place, and
  the row at `i` is the least of those behind it up to `j` (`SortCorrect`). `BeforeStrict` and
  `BeforeTransitive` say that each order is one. `MatchingExact` says which rows come in. The cursor then
  needs the invariant `CursorInv`: every action that can make the list shorter sets it to 0, but for
  those that change the search text, and these set `typed`;
- list: `RowsAreTheMatches`, which says more than the second conjunct of `ViewIsRight`: the rows are a
  permutation of the matches, and an item is shown exactly when it is listed and matches;
- overlay: `PanelsLieOver` (`PanelLiesOver`). `ColumnsDrawn` says that `visColWidth` counts the columns that
  are drawn, and `RowsJoin` that two rows joined show the columns of the first and then of the second,
  when the first does not end inside an escape sequence. So it is enough to say what a cut leaves:
  `CutPlace` and `CutWidth`, byteOffsetForCol cuts at the column, or one behind it when the column is the
  second half of a wide character (`CutRow`). From these follow the two branches of `placeover`, behind the
  end of the row (`PlacedBehind`) and within it (`PlacedWithin`). `OverInv` has nothing but the shape of
  rows and panels: they are closed, and a panel's columns are all its own.

`PartsProofs`, for every page size, rate, burst and word width, and any number of rows, peers, calls,
saves and runs:

- credential: `NamesMeanOne` (`NameMeansOne`) and the action property `FoundIsDeleted`
  (`DeletesWhatWasFound`). What the paged SELECT returns is proved from its definition: the page holds
  every match when they are no more than the limit;
- paging: `PagesAreFew`, at most one page more than there are ids, whatever is written in between. The
  bound counts the ids up to the cursor (`IdsUpTo`), since rows come and go and the cursor only grows;
- limiter: `BurstBound` (`BurstIsTheMost`). That dropping a bucket and making a new one gives nothing
  away needs `FullWhenStale` (by the time an entry may be dropped its peer is not over its rate) and,
  for requests under way, `LateIsOld` (one whose bucket is no longer in the map was held up for
  longer than an entry lives);
- server: `ServedWithOpenPool` (`LifeTypeOK`), from what each phase of `main` finds done (`LifeOrder`);
- local database: `LoadsAreTrue` (`LoadTellsTheTruth`). `LoadUnderWay` says what the reads so far have
  seen while Save may rewrite the file between two of them;
- derivation: `SamplingIsFair` (`FairButForOneWord`) for every width, the code's 32 bits included, by an
  explicit bijection between the accepted words of two letters, where TLC enumerates 8 bits; and
  `ReportedPairs` (`ReportedPairMatches`), for every set of seeds: a report belongs to what the file
  holds, also through writes that failed and runs with other seeds in between;
- `PartsTypes`: `MCSpec => []PartsTypeOK`, with `SInv` of ClientSession.

Assumptions. All are named `ASSUME`s of the modules that declare the constants, TLC evaluates them on
every run, and they are sizes (a limit is a natural number, a burst is positive), distinctness of the
placeholder for "none" (`NoGen`, `NoLimiter`, `None`, `Nil`) from real values, and three facts about the
code: ids are finitely many (`IsFiniteSet(ItemIds)`: a UUID has 128 bits), a listing is a sequence of
entries (`Listings \subseteq Seq(Entries)`), and a bucket fills up within the age at which it is
dropped (`Burst <= Rate * StaleAge`: 10 tokens, 5 a second, 5 minutes). `MinLength >= 4` is the code's
lower end of the slider, and `2 ^ Bits > 88` that a word can select any letter.

Only model-checked. The five liveness properties (`LiveUpdateStreamed`, `CallsEnd`, `SyncingEnds`,
`PartsEnd` and `ScreensEnd`), because fairness and ENABLED are out of the prover's reach, and the six
violated properties, which are false. Every invariant and every action property of a passing run is
also a theorem.

## Not modelled

Styles and the drawing of the screens, except where it indexes, cuts or repeats; the text of export
paths and the size limit of files; prompts and output of the commands, and `auth register`, `auth mfa`
of the command line (their server side is in AuthServer); what HKDF, Argon2, the AEAD and the key
libraries compute, which is symbolic or free; generated code and test doubles; the WebAuthn tables,
`DeleteExpired` and `ParseRefreshToken` (no callers); failures of single statements, except in
ConfirmTOTP, and of a connection while rows are read, except in the catch-up of a stream; the ignored
error of `f.Close` in `client/vault/localdb.go:86` and a second process that writes the local database
at the same time; a refresh token sent as an access token, whose claims `shared/jwt/jwt.go:72` does not
tell apart (AuthServer says that clients send the token meant).

Worth adding: AuthFlow composed with AuthServer.
