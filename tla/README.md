# mdict-server in TLA+

mdict-server serves MDict dictionaries over HTTP: administrators upload `.mdx`
(and `.mdd` resource) files, the server parses them, keeps one row per
dictionary in SQLite, one entry per dictionary in memory and a global index of
headwords, and answers exact and prefix searches, which a page in the browser
asks. This directory holds a TLA+ model of the parts of it that change state, the
TLC runs that check the model on small instances, and TLAPS proofs of the most
important results for every value of the constants.

## 1. The system

| part | state it keeps | operations | hard behaviour | what makes it correct |
|---|---|---|---|---|
| dictionary engine, `internal/dict/engine.go` | `Engine.dicts`, `Engine.wordIndex`, one `sync.RWMutex` | `LoadAll`, `loadDict`, `Reload`, `Unload`, `SetEnabled`, `SetTitle`, `disableOrphans`; `Search`, `FuzzySearch` read | every method reads the directory and the table, which others change without its lock; any of its calls may fail half way | memory, row and index agree; nothing leaves the memory by accident; the lock is always released |
| dictionary table, `internal/store/dict_store.go` | the `dicts` rows | single SQL statements | the row read and the row written are two statements | no lost update |
| dictionary admin handlers, `internal/handlers/dict.go` | none | `UpdateStatus`, `UpdateTitle`, `Delete`, `Upload`, `Download` | several steps on three stores, with no lock around them | a deleted dictionary is gone, a disabled one stays disabled |
| chunked upload, same file | `uploads` (a `sync.Map` of sessions), part files under `.uploads` | `UploadInit`, `UploadChunk`, `UploadComplete`, `CleanupExpiredUploads` | repeated parts and completions, a shared directory, the hourly removal, a crash | a destination goes from one whole file to another; nothing is left behind but what could not be removed |
| accounts, `internal/handlers/user.go`, `auth.go`, `internal/store/user_store.go` | `users`, `refresh_tokens` | create, delete, permissions, password, login, refresh, logout, cleanup | each request is several statements without a transaction | there is always an administrator; a session ends when it should, and not before |
| configuration, `internal/config/config.go` | the environment of the process | `LoadDotEnv`, `Load`, `Validate`, generated values | what overrides what, and what changes between two starts | a restart keeps the administrator and the secret |
| boot and shutdown, `cmd/server/main.go` | none | configuration, default administrator, `LoadAll`, hourly jobs, graceful stop | restart on an old database, a stop in the middle of a request | comes up with what is there, and ends between requests |
| authentication middleware, `internal/auth` | the secret | token checks | reads a row that changes meanwhile | follows the row |
| rate limiter, `internal/middleware/ratelimit.go` | counters per address | `Allow`, `cleanup` | time, a cleanup goroutine | at most `rate` requests in any interval; whoever pauses is served (whoever asks steadily need not be) |
| word index, `internal/dict/word_index.go` | none (pure) | sort, prefix match, pages | boundaries of the bisection and of the pages | exactly the matches; the pages show all of them |
| web client, `templates/assets/app.js` | the page, `localStorage`, the calls under way | login, logout, search, suggestions, history, token refresh, list of dictionaries | answers that arrive after the page has moved on | the page shows what belongs to its user and its word; a login ends |
| admin page, CORS, logging, health, skill | none | forms, headers, text | none | |

They interact by calls: handlers call the engine and the stores, the engine calls
the dictionary store and reads the dictionary directory, the boot code calls the
configuration, the stores and the engine, the page calls the handlers. The shared
state is the directory, the tables, the memory of the engine and the upload
sessions; only the memory of the engine is protected by a lock.

## 2. The modules

| module | what it is |
|---|---|
| `DictEngine`, `MCDictEngine` | the engine, the dictionary table, the directory, and the handlers `UpdateStatus`, `UpdateTitle`, `Delete`, `Upload` |
| `Catalogue` | what the engine promises those who search; `DictEngine` implements it |
| `ChunkedUpload`, `MCChunkedUpload` | upload sessions, part files, assembly, expiry |
| `AtomicUpload` | what the chunked upload promises; `ChunkedUpload` implements it |
| `Config` | the configuration as a function of what a start finds |
| `Accounts`, `MCAccounts` | users, refresh tokens, administrators, start and stop; extends `Config` |
| `RateLimiter`, `MCRateLimiter` | the request counters |
| `WordIndex` | sorting, prefix matches and pages as pure functions |
| `WebClient`, `MCWebClient` | the search page, which asks `WordIndex`; extends it |
| `DictEngineProofs`, `DictEngineRowsProofs`, `ChunkedUploadProofs`, `AccountsProofs`, `RateLimiterProofs`, `WordIndexProofs`, `WebClientProofs`, `WebSuggestionsProofs` | the theorems |

`Catalogue` and `AtomicUpload` are abstract specifications, stated in terms of
what a user of the component sees. Everything else is translated from the code.
Definitions that begin with "Faulty variant" in their comment are not part of the
model: each is a plausible bug, kept to show that a property would notice it.

### DictEngine and Catalogue

A dictionary is known by its `.mdx` file. `disk[f]` is the version of the file in
the directory (0: none) and `mdd[f]` the resource file beside it; `db[f]` is its
row; `dicts[f]` its entry in `Engine.dicts`; `index` is `Engine.wordIndex` as a
set; `lock` is the process that holds `Engine.mu` for writing; `ld` holds the
locals of the method that holds it; `req[p]` the locals of handler `p`.

A step is one access to the directory, to the database or to the locked memory,
in the order of the code, so that everything another goroutine can do between
two such accesses is interleaved:

* `EnterLoadAll`, `ScanSkip`, `ScanLoad`, `ListRows`, `ListFails`, `OrphanStat`,
  `OrphanDisable`, `LeaveLoadAll` are `LoadAll` with `disableOrphans`;
* `LoadStat`, `LoadParse`, `LoadMdd`, `LoadExists`, `LoadGet`, `LoadUpdate`,
  `LoadCreate`, `LoadFails` are `loadDict`, called by `LoadAll`, `Reload` or
  `SetEnabled` (`ld.call`);
* `UpdateStatus`, `EnterSetEnabled`, `WriteStatus`, `WriteStatusFails` are
  `PATCH /dicts/:id/status`; `UpdateTitle`, `WriteTitle`, `SetTitle` are
  `PUT /dicts/:id/title`; `Delete`, `Unload`, `RemoveMdx`, `RemoveMdd`,
  `DeleteRow` are `DELETE /dicts/:id`; `Upload` to `UploadDone` are
  `POST /dicts/upload`;
* `Boot` is the load `main` does before it listens; `Crash` ends the process and
  empties what it holds in memory; `OperatorPuts` and `OperatorRemoves` are an
  operator who works on the directory directly.

What is abstracted:

* a dictionary's ID is a 32-bit hash of its filename; the model takes it to be
  the filename, so two files never share a row;
* a version stands for a file's content and for its size and modification time:
  the model assumes, as the engine does, that a changed file changes one of them;
* the directory walk of `LoadAll` and the parse of one file are one step each;
* requests that end without touching anything (404, bad input) are not actions;
* the row's description, size and counts are left out;
* a chunked upload that completes does to the engine what an `Upload` of one
  file does;
* `SavePart` of a plain upload writes to a `.tmp` file, copies and renames it in one
  step (`dict.go:291-321`), so two plain uploads that share a `.tmp` are not modelled;
  that race is shown where files are written in pieces, in `ChunkedUpload`
  (`UploadSharedTmp`), whose names are chosen the same way;
* the insert never meets an existing filename (`CreateNeverConflicts` is the
  reason), so the `UNIQUE` error is not an outcome; an update of a row that is
  gone changes no row and is no error, as in SQL.

`Catalogue` knows a shelf (what is read of each file, and whether it is enabled),
the words that are suggested, and whether readers are kept out; there is no table,
no directory and no request in it. Whenever readers are let in, either the
suggestions are new and exactly the words of the shelf, or the writer gave up and
they are still answered by it. A file that is read replaces what was found of it by
something at least as new that is no less enabled; only a request disables or removes
a dictionary, and only a death of the server empties the shelf. The refinement
(`Readers` in `DictEngine`) drops titles, resources and stamps from `dicts` (`Shelf`)
and takes readers to be kept out while `lock` is held. `ImplementsCatalogue` is
`Readers!Spec`: whatever the steps of a method, readers see all of it or nothing.

### ChunkedUpload and AtomicUpload

`open` is the `sync.Map` of sessions and `chunks[s]` the parts a session has
received; `file[s][i]` is the file of a part under `.uploads`, and `dir` that
directory; `tmp[d]` and `dst[d]` say which file stands at `<destination>.tmp` and at
the destination, and `data` what was written to it. A file is known by the session
that created it and not by its name, because a process that holds it open keeps
writing to it under any name.

`UploadInit`; `UploadChunk`, `MakeDir`, `CreateChunk`, `CopyChunk`, `RecordChunk`;
`UploadComplete`, `CheckParts`, `MakeTmp`, `ListParts`, `AppendPart`, `AppendFails`,
`CloseFile`, `Rename`; `FindExpired`, `RemoveExpired` (`CleanupExpiredUploads`) are
the handlers' file operations in the order of the code. Any of them may fail, a
removal too, which the code ignores (`dict.go:532`, `621`, `628`, `644`, `690`): `stuck`
and `stuckTmp` are history, the parts and `.tmp` files whose removal was tried and
failed. The content of a part is whole or partial; the checks of names and sizes in
`UploadInit` are left out.

Four constants state what clients do: `SerialChunks` (a client waits for the answer
to a part, and repeats a part that failed before it completes, or gives up, as the
upload loop of `admin.html` does), `SharedDest` (whether two
completions for one destination run at a time), `ActiveExpiry` (whether an upload
takes longer than the hour after which it expires), and `Target`. Repeated
completions are always allowed.

`AtomicUpload` knows uploads that are offered, published whole in one step, or
withdrawn, and nothing of parts, directories and requests. The refinement
(`Promise` in `ChunkedUpload`) maps a session to an offered upload while it may
still be completed, and the file at a destination to the upload whose parts it
holds; `ImplementsAtomicUpload` is `Promise!Spec`.

### Accounts and Config

`Config` is `internal/config/config.go` as a function: `LoadDotEnv` adds the lines of
`.env` to the environment of the process, `Load` gives the set of configurations a
start may have (more than one when values are generated, none when `Validate`
refuses). A text is opaque but for its length and the number it reads as. The length
of a password matters: bcrypt takes 72 bytes (`Hashable`), which the handlers check or
run into before they write, and which `Validate` does not check.

In `Accounts`, `rows` is the `users` table, `tokens[u]` the refresh tokens of a user,
each represented by the password that was in force when it was stored and the
secret it is signed with, `secret` the one the running server signs with, and
`status` the process: `down`, `up`, `draining` after a signal, `refused` when the
configuration is not valid, `unhashed` when the password of a new default administrator
cannot be hashed (`main.go:248`) and `dead` after any other `log.Fatal`. Each start
(`Boot`) finds any member of `Environments`, loads its configuration, and runs
`createDefaultAdmin`; `BootFails` is a database that cannot be opened. `Stop` and
`Exit` are a graceful shutdown, which waits for the requests under way (`Drained`);
`Crash` is any other end.

A request is a sequence of SQL statements, and each is a step that may fail:
`Login`, `LoginSave`; `ChangePassword` or `AdminResetPassword`, then
`UpdatePassword`, `Revoke`; `Delete`, `DeleteUserRefreshTokens`, `DeleteRow`;
`UpdatePermissions`, `CountAdmins`, `WritePermissions`; `Create`, `InsertUser`.
`Logout` and `CleanExpiredTokens` are single statements; a token may expire at any
time. The foreign key of `refresh_tokens` and the keys of `users` are part of the
statements. `SerialAdmin` says that deletions and changes of permissions do not
overlap.

### RateLimiter

`visitors` and `now` are the limiter's map and clock, `wake` the end of the sleep of
the cleanup goroutine, which may also come later. `log` and `last` are history: the
times of the requests that were allowed, and the last answer. `Allow` and `Cleanup`
are one step each because the code holds the mutex throughout.

`WindowBound` is the promise to the server: never more than `Rate` requests in an
interval. Of what it owes its clients two things are stated: `FairRejection` is what the
code grants, that whoever pauses for an interval is served; `RejectedAtLimit` is what
the comments and `docs/api.md` say, that only who made `Rate` requests in the last
interval is rejected, and is false.

### WordIndex and WebClient

A word is a sequence of characters, a character its place in the order of bytes.
`NewWordIndex`, `MatchStart`, `MatchEnd`, `PrefixMatches`, `PageStart`, `PageEnd` and
`FuzzySearch` follow `word_index.go`, `Engine.FuzzySearch` and the defaults of the
handler. `sort.Search` is modelled by what it promises, the first place where its
predicate holds; that it is only asked about predicates which stay true is the
theorem `BisectionIsSound`. `ToLower` works character by character, as it does
in Go.

`WebClient` is one tab. `page` holds the fields of `app()`, `calls` the call of each
kind that the page still wants (search, suggestions, list, login, refresh), `stale`
the lists that can no longer be wanted but cannot be aborted either, `stored` the
`localStorage`, and `issued` counts the tokens the server gave out, to bound them.
A handler of the page runs from one `await` to the next, and each answer is an
action: `SearchDone`, `FuzzySearchDone`, `ListDone`, `StaleListDone`, `LoginDone`,
`LoginFailed`, `RefreshDone`, `RefreshFailed`. What the server says is chosen when
the answer is delivered: found, refused, failed, or 401, after which `AwaitRefresh`
joins the refresh that is under way or starts one, and the call is sent once more.
`Type`, `Compose`, `Select`, `Dismiss`, `Submit`, `ChooseDict`, `Login`, `Logout`,
`Reload`, `RemoveFromHistory`, `ClearHistory` are what the user does, at any time.
`localStorage` may fail to give back or to store a history, which the page ignores
(`app.js:183`, `188`): `WithHistory` and `StoreHistory` have an alternative for it, and
`page.synced` is history, whether the last access succeeded. Two things are
assumed: the three small items of the session are kept (`LoginDone`, `app.js:294`), and
the list of the enabled dictionaries does not change while the page is open.
A result, a suggestion and a remembered word carry who asked for them, so that the
properties can tell users apart; the code has no such field.

## 3. The runs

| run | instance | checks |
|---|---|---|
| `EngineConcurrent` | 1 file, 2 handlers (symmetric), 3 versions of which one is unreadable, 1 fault, 1 crash, operator edits, all requests | `TypeOK`, `EnabledInSync`, `SkipIsSafe`, `SuggestionsResolve`, `NoWordMissing`, `CreateNeverConflicts`, `OnlyDeleteUnloads`, `DisabledSticks`, `ImplementsCatalogue` |
| `EngineSequential` | 2 files, 1 handler, 2 versions, good and bad resource files, 1 fault, 1 crash, operator edits, all requests, under `LiveSpec` | `MemoryMatchesRows`, `RequestsFinish`, `ServerComesUp` |
| `EngineTitleLost` | 1 file, 2 handlers, titles and uploads | violation: `LoaderKeepsTitle` |
| `UploadSerial` | 3 uploads of 2 parts, two of them of one file, 2 handlers (symmetric), 1 fault (a removal, too), 1 crash | `TypeOK`, `WholeFile`, `OneAssembly`, `PartsStay`, `NoLeftovers`, `ImplementsAtomicUpload` |
| `UploadSharedTmp` | 2 uploads of one file, completed at the same time | violation: `WholeFile` |
| `AccountsRequests` | 3 IDs, 2 names, 3 passwords of which bcrypt rejects one, 2 handlers (symmetric), 1 fault, 1 crash, any number of graceful restarts; each start finds `ADMIN_USER` and `JWT_SECRET` in the environment, or in `.env`, or a secret that is refused, or an `ADMIN_PASS` that is too long | `TypeOK`, `SomeAdmin`, `OldSessionsEnd`, `NoOrphanSessions`, `SessionsSurvive`, `BootSucceeds`, `AdminsStay` |
| `AccountsRestart` | as before with an `ADMIN_USER` that is empty, so that the name is generated; no fault | violation: `BootSucceeds` |
| `AccountsLastAdmin` | as before with overlapping administration, no fault or crash | violation: `SomeAdmin` |
| `RateLimit` | 2 addresses (symmetric), rate 2, interval 2, clock up to 7 | `TypeOK`, `WindowBound`, `FairRejection` |
| `RateLimitSteady` | 1 address, rate 2, interval 2, clock up to 7 | violation: `RejectedAtLimit` |
| `WebClient` | 2 users, 2 dictionaries, 3 words, 3 tokens, one suggestion at a time, under `FairSpec` | `TypeOK`, `SessionIsUsers`, `ResultsAreOwn`, `SuggestionsAreCurrent`, `HistoryStaysWithAccount`, `SignedOutIsClean`, `LoginEnds` |
| `WebShelf` | as before with 1 user, 2 tokens | violation: `EmptyShelfIsEmpty` |

### Bounds, and why they are enough

`MaxVersion` bounds the writes of `.mdx` files (the initial one included),
`MaxFaults` the failing calls, `MaxCrashes` the deaths of the process, `MaxTime` the
clock, `MaxTokens` the logins and refreshes of a tab, and the sets `Sessions` and
`Users` the uploads and accounts that are ever created.

Every property of the engine relates one file to its row and entry, and every
interleaving hazard is between two processes, so one file and two handlers meet them
all; three versions allow a replacement during the load of a replacement. The second
file is there for what `LoadAll` does with several files: going on after a failure,
disabling the rows of files it did not load. One handler is enough for the liveness
properties: a method takes the one lock once, and while it holds it needs nothing from
another request; more handlers only add waiting for the lock, which `LiveSpec` ends.

In the uploads the hazards are between two requests, or a request and the hourly job,
over one destination and over the shared directory: two handlers, two sessions of one
destination and one of another. Two parts make an assembly that is half done. The
accounts need the default administrator, a second user and a third that is created
meanwhile; two names, so that creations collide; two secrets, so that a restart could
change one. In the limiter an interval of 2 and a clock of 7 fit two bursts with a
pause, a sweep and a window across them. Of the passwords one is too long for bcrypt, so that a first start fails.
In the page three tokens are a login, its
refresh and a second login; one suggestion out of two matches tests their order; the
words are chosen so that the order of the bytes and the alphabetical order differ.
The theorems of section 4 cover all other sizes.

Deadlock is checked in the runs of the engine and of the page: there is always
something a user can do. The uploads, the accounts and the limiter stop when the
upload IDs, the user IDs or the clock run out, so their runs do not check it.

### Fairness

`LiveSpec` of the engine: a goroutine that can run runs (weak fairness of the step
of the method that holds the lock and of each handler's own steps), `sync.RWMutex`
hands the lock to every waiter (strong fairness of `LockStep`), and the process is
started again (weak fairness of `Boot`). Requests need not arrive.

`FairSpec` of the page: every request is answered or breaks, and the browser runs
what has arrived (weak fairness of the delivery of searches, lists, logins and
refreshes). The user need not do anything, and no answer need be a good one.

### What the violations mean

* `EngineTitleLost`: `loadDict` reads the row and writes all of it back;
  `UpdateTitle` writes the title in between without the engine lock, and it is lost;
* `UploadSharedTmp`: every upload of a file assembles into the same
  `<destination>.tmp`, and a second completion truncates what the first is about to
  rename;
* `AccountsRestart`: the default administrator is looked up by a name and inserted with
  a fixed ID. Without `ADMIN_USER` the name is random at each start, so the second
  start on the same database ends in `log.Fatal`. In the run `.env` does set a name,
  and an empty variable of the environment hides it;
* `RateLimitSteady`: `Allow` starts the count again after a pause only, and every request
  that is allowed moves the beginning of the pause. An address that logs in every
  20 seconds is allowed 5 times and then rejected for a minute, although it never asked
  more than 4 times in one; `docs/api.md:1020` says 5 per minute and
  `ratelimit.go:25` "maximum requests per interval";
* `AccountsLastAdmin`: the administrators are counted in one statement and the permission
  is written in another, so two demotions at a time leave none;
* `WebShelf`: `loadDicts` keeps its answer only if the access token is still the one it
  asked with, but `fetchWithAuth` replaces the token when it had to be refreshed, so
  the page of somebody who comes back after two hours shows an empty shelf.

With other values of the constants the models also show:

* `EngineSequential` with two handlers: `MemoryMatchesRows` fails, for `Delete` unloads
  first and removes the row last, and a status change in between loads the dictionary
  again, which then is in memory without a row;
* `UploadSerial` with `SerialChunks` or `ActiveExpiry` the other way: `WholeFile` and
  `NoLeftovers` fail (a late repetition of a part; a part that failed, could not be
  removed and was not repeated; an upload that takes more than an
  hour, whose parts may be removed between the check and the listing, so that an empty
  file is put in place);
* `AccountsRequests` with `SerialAdmin = FALSE`: `AdminsStay` fails (a promotion during a
  deletion);
* `disableOrphans` leaves every loaded dictionary alone, also when its file is gone:
  it stays enabled and searched until the next start.

They are listed as hazards in `PROJECT.json`, each at its line, with the assumption
under which the properties hold.

## 4. The proofs

Assumptions on the constants are the named `ASSUME`s of the modules: bounds are
naturals, null values are none of the values they stand beside (for the page, also no
word, token or call), sets that are counted are finite, what is typed and what
stands in a dictionary are trimmed words, `.env` is a sequence of lines, `SuggestSize` is a
page size the handler accepts, and lower case takes no character to a space or from one. TLC evaluates them in the
runs. Where a theorem needs more, it is a
hypothesis of the theorem and named below.

**`DictEngineProofs`**, for any number of files, handlers, versions, faults, crashes:

| theorem | states |
|---|---|
| `TypeCorrect` | `Spec => []TypeOK` |
| `FlagsAgree` | `Spec => []EnabledInSync` |
| `NoCreateConflict` | `Spec => []CreateNeverConflicts` |
| `SkippingIsSafe` | `Spec => []SkipIsSafe` |
| `IndexMatches`, `NothingMissing` | `Spec => []SuggestionsResolve`, `Spec => []NoWordMissing` |
| `OnlyDeletesUnload` | `Spec => OnlyDeleteUnloads` |
| `DisabledRowsStick` | `Spec => DisabledSticks` |
| `ReadersAreServed` | `Spec => ImplementsCatalogue` |

None of these is inductive. `IInv` adds: `LockInv`, which ties the lock to the
locals of the method and to the handler that called it; `LocalsInv`, that a local is
set before it is used; `FlagInv`, that the row `loadDict` is about to write back
still carries the flag of the table (everybody who changes a flag holds the lock) and
that what `disableOrphans` is about to disable is not in memory; `StampInv`, that a
dictionary was stamped before it was read and a file only gets newer, so equal stamps
mean equal contents; `IndexInv`, that memory and index differ only while `LoadAll`
runs or `SetEnabled` has loaded a dictionary it has not indexed yet. `IInv` is shown
to hold initially and to be kept by every action, component by component.

For the refinement `FreshInv` adds that what `loadDict` is about to install carries the
flag of the dictionary it replaces and a version that is no older: the flag comes from
a row that agreed with the memory (`EnabledInSync`) under a lock that is still held, and
the version from a file that only gets newer (`StampInv`). Then an install is a `Read`,
`WriteStatus` a `Switch`, `LeaveLoadAll` a `Finish`, a failure that returns a `GiveUp`
(the index holds no more than the live words, by `IndexInv`), `Unload` a `Remove`,
`Crash` a `Restart`; taking the lock is an `Enter`, and every other step changes nothing
that readers see. `ShelfWords` and `OnePlace` are the lemmas about the mapping.

**`DictEngineRowsProofs`**, for any number of files, versions, faults and crashes:

| theorem | states | under |
|---|---|---|
| `RowsMatch` | `Spec => []MemoryMatchesRows` | `OneRequest` |
| `TitlesAreKept` | `Spec => LoaderKeepsTitle` | `OneRequest` |
| `UploadsKeepRows` | `Spec => []AlwaysAgree` | `OnlyUnderLock` |

`OneRequest` says there is one handler, `OnlyUnderLock` that no title is changed and no
dictionary deleted, while any number of uploads and changes of status overlap. Without
either all three are false (`EngineTitleLost`, and the delete that section 3 describes).
`AlwaysAgree` is more than `MemoryMatchesRows`: every loaded dictionary has its row and
agrees with it at every moment, not only between requests. For the first two, `OneInv` says
that request and engine take turns, that a dictionary being deleted stays unloaded, and
that the row read is the row written; `RowsInv` that an entry and its row agree but for
a title about to be set. For the third, `LockedInv` says that no handler is where a row
is written without the lock, so a row that was read is still the one in the table when it
is written back, and a dictionary in memory keeps its row.

**`ChunkedUploadProofs`**, for any uploads, destinations, parts, handlers, faults and
crashes. `Careful` is `SerialChunks /\ ~SharedDest /\ ~ActiveExpiry`.

| theorem | states | under |
|---|---|---|
| `UploadTypes` | `Spec => []TypeOK` | |
| `AssembledOnce` | `Spec => []OneAssembly` | |
| `FilesAreWhole` | `Spec => []WholeFile` | `Careful` |
| `PartsAreThere` | `Spec => []PartsStay` | `Careful` |
| `NothingIsLeft` | `Spec => []NoLeftovers` | `Careful` |
| `UploadsAreAtomic` | `Spec => ImplementsAtomicUpload` | `Careful` |

The invariant says that a session is served by one request (`SoloInv`) and stays open
while a part of it is received (`BusyInv`), who writes which file (`FileInv`), which
files the names of a destination may stand for (`NamesInv`), and that the file being
assembled has in full every part that is not left to do (`DraftInv`); a part that could
not be removed is torn, and whoever left it repeats it before completing. `PartsInv` and
`LeftInv` add who still needs a file and who will remove it, unless its removal was
tried and failed (`stuck`, `stuckTmp`): `NothingIsLeft` says that every path on which an
upload ends tries to remove each of its files, not that the file system obeys. For the refinement every step is
shown to be an `Offer`, a `Publish` (only `Rename`), a `Withdraw` or a stutter.

**`AccountsProofs`**, for any accounts, environments, handlers, faults and crashes:

| theorem | states | under |
|---|---|---|
| `AccountTypes` | `Spec => []TypeOK` | |
| `NoTokenSurvivesItsUser` | `Spec => []NoOrphanSessions` | |
| `OldSessionsAreEnded` | `Spec => []OldSessionsEnd` | |
| `ConfiguredSessionsSurvive` | `Spec => []SessionsSurvive` | `OneSecret` |
| `ThereIsAnAdmin` | `Spec => []SomeAdmin` | `SerialAdmin` |
| `AdminsAreNotDeleted` | `Spec => AdminsStay` | `SerialAdmin` |
| `ServerStarts` | `Spec => []BootSucceeds` | `OneUser` |
| `SetSecretSurvives` | `Spec => []SessionsSurvive` | `Fixed("JWT_SECRET")` |
| `SetUserStarts` | `Spec => []BootSucceeds` | `Fixed("ADMIN_USER")` |

`BootSucceeds` says that a start ends in `log.Fatal` only after a failure, or because the
default administrator is not there yet and a start finds a password for him that
bcrypt rejects; `ServerStarts` and `SetUserStarts` therefore promise a start with a
working database once he exists, and before that with a password of at most 72 bytes.

`OneSecret` and `OneUser` say that every start loads the same secret, or the same name of
the administrator. `Fixed(key)` says it of what the operator writes: one and the same
value of the variable, not empty, stands in the environment of each start, or in `.env`
where the environment does not have it. That this is enough is a result about
`LoadDotEnv` and `Load`: the first line of `.env` for a key counts, none replaces a
variable that is set, and a value that is said is not generated (`SaidIsLoaded`,
`SaidIsConfigured`). `Base` joins the types, the locals of the requests, that
IDs are given out once, and where secrets come from; `AdminInv` says that only one
request administers, that whoever is about to be deleted is no administrator, and
that whoever is about to be demoted is not the only one; `NameInv` that the default
administrator keeps the configured name, which no request changes.

**`RateLimiterProofs`**, for every rate of at least 1, interval and set of addresses:
`LimiterInvariance` (the inductive invariant), `LimiterTypes` (`TypeOK`),
`NeverTooMany` (`WindowBound`), `RejectsOnlyBursts` (`FairRejection`), and
`OnePerInterval` (`RejectedAtLimit` under `Rate = 1`, the rate at which the documentation is
right). The invariant ties the entry of an
address to the history: the count is the length of the last burst, an interval
separates the burst from what came before, and an address the limiter forgot was
quiet for an interval (`History`). `WindowBound` then survives a granted request
because the request `Rate` places earlier lies before that pause.

**`WordIndexProofs`**, for every list of words, keyword, page and page size:

| theorem | states |
|---|---|
| `SortedIsSorted`, `NewWordIndexIsSorted` | `newWordIndex` puts the entries in order, each word that `TrimSpace` leaves once, with its lower case |
| `BisectionIsSound` | both predicates given to `sort.Search` are false before a place and true from it on |
| `PrefixMatchesExact` | the matches are the words that start with the keyword, no more and no fewer |
| `MatchesAreRanked` | each stands at the place its rank among the matches gives |
| `PagesWithinMatches`, `PagesShowAll` | a page lies within the matches, and the pages from 1 to `total_pages` show every one |
| `FuzzySearchExact` | all of it together: the total, and the words a page shows, in order |

The order of the code is strict and total, so the number of entries before one is
different for each; a map from n entries into n places that is one to one leaves no place
empty, and what stands there is decided without an induction over the index. That words
between two with a common prefix share it is the lemma behind the bisection.

**`WebClientProofs`** and **`WebSuggestionsProofs`**, for any users, dictionaries, words and
tokens:

| theorem | states |
|---|---|
| `SessionsAreUsers` | `Spec => []SessionIsUsers` |
| `OwnResults` | `Spec => []ResultsAreOwn` |
| `OwnHistory` | `Spec => []HistoryStaysWithAccount` |
| `CleanLogout` | `Spec => []SignedOutIsClean` |
| `TypeCorrect` | `Spec => []TypeOK` |
| `CurrentSuggestions` | `Spec => []SuggestionsAreCurrent` |
| `ShelfIsShown` | `Spec /\ [][RefreshDone => calls.list = None]_vars => []EmptyShelfIsEmpty` |

The promises of the first four are inductive together with `Asked`: a lookup under way was
made for the user of the page, a login for a page without one, and a refresh replaces a
token of the user whose refresh token it shows. That a search under
way is for the word in the box and the chosen dictionary (`Wanted`) is part of
`ResultsAreOwn`: whatever changes either gives up the search or starts it anew
(`cancelSearch`, `search`), so that `SearchDone` never shows an answer that is no longer
wanted. `OwnHistory` speaks of the stored history as long as `localStorage` works, and of
whose words are on the page in any case. `Shape` gives the types, but leaves open
what a list of suggestions contains. `BoxInv` adds that: suggestions on the page are the
answer to a lookup of the word, dictionary and user the page shows, and what such an
answer contains is `FuzzySearchExact`. `ShelfIsShown` is the reverse of the run
`WebShelf`: a page that calls a shelf empty which is not needs a refresh that is answered
while the list is under way, and nothing else leads there.

Every run that expects a violation thus has a theorem that says when the property does
hold: `TitlesAreKept`, `FilesAreWhole`, `ServerStarts`, `ThereIsAnAdmin`, `ShelfIsShown`,
`OnePerInterval`.

Only model-checked: the liveness properties (`RequestsFinish`, `ServerComesUp`,
`LoginEnds`), which are out of the prover's reach. Every other property of a passing run is
stated by a theorem.

## 5. Not modelled

* Parsing (a third-party library) is a success or a failure, and so are signing
  and checking tokens. HTML rewriting, assets and downloads only read.
* CORS, logging, the health, statistics and skill endpoints: output without state. The
  admin page is forms over the API; its upload loop is the constant `SerialChunks`.
* API tokens (`ResetToken`) and the permissions other than `is_user_admin`, which no
  modelled behaviour depends on.
* In the page: rendering, media, the keyboard, the order and the limit of fifty of the
  history, and a second tab that shares the `localStorage`.
* A rate of 0, which installs no limiter.

Known gaps between the code and what one might expect, which no property states:

* when `SetEnabled` has loaded a dictionary and then fails to write its status, it
  returns before the index is rebuilt (`NoWordMissing` is stated for runs without a
  failure because of it);
* `Delete` leaves an `.mdd` behind that the row did not know of;
* the tokens of a password change whose revocation fails stay good, and the change is
  reported as done (`OldSessionsEnd` is stated for runs without a failure);
* `docs/usage.md:533` offers a changed `ADMIN_PASS` as a way to reset the password, but
  `createDefaultAdmin` leaves an existing administrator alone;
* `Validate` does not check that `ADMIN_PASS` has at most 72 bytes, so a longer one passes
  the configuration and ends the first start in `log.Fatal` (`main.go:249`; the status
  `unhashed`);
* a part or `.tmp` file that could not be removed stays for ever, without a message
  (`stuck`, `stuckTmp`);
* a login that verified the old password before it was changed stores its token after all
  tokens were revoked, and its session outlives the change.
