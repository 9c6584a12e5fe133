# Specifications of the Jackal storage provider

TLA+ models of `jprovd`, the storage provider daemon, with TLC configurations and
proofs checked by TLAPS. Source paths are relative to `src/jprov/`.

## 1. The system

`jprovd start` is one process with many goroutines around two leveldb databases, a
directory tree and one in-memory queue, next to a chain it talks to by RPC.

| component | state | operations | who calls it |
|---|---|---|---|
| contract database (`archive/contract.go`) | records `cid -> fid` and `fid -> "cid,cid,...,"` | `SetContract`, `DeleteContract`, `GetFid`, `GetContracts`, iterator | upload handlers, stray hands, proof server, start-up, prune |
| downtime database (`archive/contract.go`) | `cid -> shifts missed` | `Get`, `Set`, `Delete`, iterator | upload handlers (reset to 0), proof server (increment, delete) |
| single-cell archive (`archive/archive.go`) | a directory per file with the file and its Merkle tree | `WriteTreeToDisk`, `WriteFileToDisk`, `GetPiece`, `Delete` | upload handlers, stray hands, proof server, prune |
| upload queue (`queue/queue.go`) | `Queue`, a slice of pointers to `Upload`; `Locked` | `Append`, `PrepareMessage`, `UpdateQueue`, `listenOnce` | handlers, proof server, reporter append; one listener sends |
| upload handler (`server/file_server.go`) | none of its own | `saveFile`: tree, file, queue and wait, downtime, contract | the http server, one goroutine per request |
| proof server (`server/proofs.go`) | none of its own | `startShift` = `CleanExpired`, then `handleContracts` | one goroutine, every `--interval` seconds |
| start-up, prune, reset (`server/file_server.go`, `server/prune.go`, `jprovd/provider_commands.go`) | - | `RecollectActiveDeals`, `PruneExpiredFiles`, removal of the storage and the contract database | the operator |
| stray manager and hands (`strays/`) | `Strays`, per hand `Stray` and `Busy` | `CollectStrays`, `Distribute`, `Process` | one loop; a goroutine per hand and loop |
| attestation (`server/attestation.go`, `proofs.go`) | a count of answers | `requestAttestation`, `handleAttestRequest` | proof server; other providers |
| transactions (`utils/tx.go`) | the account's sequence, on the chain | `SendTx` | the queue's listener, the reporter, the hands, commands of the operator |
| reporter (`server/report.go`) | a page of deals or of reports | `InitReporter`, `Report`, `AttestReport` | one loop |
| chain queries (`server/query.go`) | the key of the next page | pagination with retry | start-up, prune, migrate |
| migration (`utils/migrate.go`, `jprovd/provider_commands.go`) | the directory tree | glue, move the tree, check, mark, clean | the operator |
| hybrid archive (`archive/archive.go`) | the same tree, old layout and new | `GetPiece`, `RetrieveTree` | tests only |
| ipfs archive and upgrade (`archive/ipfs.go`, `server/ipfs_upgrade.go`) | a key-value store | copies every file under contract | the operator |
| Merkle trees, file ids (`utils/hash.go`) | - | pure functions | handlers, hands, migration |
| CLI, configuration, logging, read-only API, keys, port mapping | - | text and files | the operator |

How they interact. An upload writes the disk, appends to the queue, blocks until the
listener has sent its message, and writes both databases. A shift of the proof server
iterates over a snapshot of the downtime database and purges what is overdue
(downtime, contract, file), then over a snapshot of the contract database, where the
chain's answer clears, increments or leads to a proof, which again goes through the
queue. A proof is first offered to other providers for attestation, and posted only if
too few answer. The reporter sends forms from an account of its own and its
attestations through the queue. A migration rewrites the directories while the proof
server, started beside it, may purge them. Nothing holds a lock over more than one
database call, and the queue has none at all.

What is hard here: read-modify-write sequences without a lock (contract lists,
downtime counts, the queue slice), results handed out by position in a queue that
keeps changing, snapshots that are stale when acted on, uploads and purges of the same
file, and multi-step updates cut off by a failure, a crash or the end of a command.
Further: a counter incremented by several goroutines at once; a file system in two
layouts at a time; transactions whose outcome is unknown and that may come in late,
under a sequence several processes count for themselves. PROJECT.json lists each such
place at its line.

What makes each part correct:
- contract database: the two kinds of records agree; "purge" is answered exactly
  for the last contract of a file; callers see an atomic map;
- upload queue: messages are sent in order, once each; each caller gets the outcome
  of its own message, eventually; nothing panics;
- upload, proofs, prune: no file is erased that a contract needs, none stays that
  nothing needs, contracts go after enough missed shifts and not before, deals are
  proved, and no leftover of a failure stops the shifts;
- attestation: a proof is left out only when enough providers answered, posted only
  when too few did, and every attempt ends;
- reporter: what it tells the chain is true of whoever holds the deal, and what it can
  see is reported and attested in the end; its transactions disturb no others;
- migration: nothing that is complete is lost or set aside, whatever is cut off, and a
  reader finds every piece at any moment;
- stray hands: a hand works on one stray until it is done with it and then lets go
  of it, a contract is recorded only over the whole file, strays get claimed.

## 2. Modules

| module | models | state and actions against the code |
|---|---|---|
| `Contracts` | ids | which file each contract is about (`buildCid` hashes the file id into the contract id), with the assumptions all modules share |
| `ContractMap` | the promise of `ArchiveDB` | a set of contracts; `Set`, `Delete` atomic; `purge` is what `Delete` answers. Once calls overlapped on a file (`Overlap`), what is answered of that file, its list (`GetContracts`) and whether to purge it, is open; its contracts, and other files, are as exact as before |
| `ContractDB` | `DoubleRefArchiveDB` | `contracts` the cid records, `refs` the fid records (a list is how often it names each cid; its order is never used), per caller a program counter, argument and batch. `SetCheck`, `AddReference`, `SetWrite` are `SetContract`; `DeleteCheck`, `RemoveReference`, `DeleteWrite` are `DeleteContract`; `Fail` is every error return, `Crash` the end of the process |
| `ContractDB_proofs` | | theorems about `ContractDB` |
| `UploadQueue` | `queue/queue.go` and those who wait on it | `queue`, per upload its goroutine's place, WaitGroup and result fields; the listener's steps `Lock`, `PrepareMessage`, `SendTx`, `UpdateQueue`, `Answer` (one turn of its loop), `LoadToPop`, `Pop`. Appending and popping are a load and a store |
| `UploadQueue_proofs` | | theorems about `UploadQueue` |
| `FileServer` | `saveFile`, the proof server, start-up, prune, reset | both databases, the disk, each handler's and the proof server's place. A call on the contract database begins (`CheckContract`, `PurgeReadsList`), may overlap others there (`DB!Overlap`), and takes effect (`RecordContract` with `DB!Set`, `PurgeContract` with `DB!Delete`). A miss is the query (`HandleNotFound`), the read (`ReadDowntime`) and the write (`IncrementDowntime`) of its count. At start-up `ReadPage` collects the provider's deals page by page, `RecollectDeal` records them |
| `FileServer_proofs` | | theorems about `FileServer` |
| `Attestation` | `postProof`, `requestAttestation`, `handleAttestRequest` | the loop over the contracts, one attempt at a time: `FormGranted` or `FormRefused`, per provider in the form a goroutine (`FindProvider`, `Post`, `Answered`, then `count += 1` as `LoadCount` and `StoreCount`), `Skip` or `GiveUp`, and `ProofAnswered`. `Handled` is the handler of the provider that is asked, `AttestResults` its `attest` |
| `Attestation_proofs` | | theorems about `Attestation` |
| `Transactions` | `SendTx` of `utils/tx.go` and of `report.go` | per sender how far it is and whether the sequence it read is out of date; per account the pending transaction. `Prepare`, `NotBroadcast`, `Broadcast`, `Refuse`, `TimeOut` are its steps, `Include` and `Drop` the node's. A message the chain would reject (`Doomed`, in `Reporter`) may already be refused by the simulation, and is then never broadcast |
| `Reporter` | `report.go`, with `Transactions` | the chain's deals, reports and registered providers, the page in hand. `StartRound` with its two coins, `LookUpDeal` and `LookUpReport` (an entry, passed over if its holder is not registered), `Download`, `Answered`; `InitReporter` and `GrantAnswered` at every start. `ProviderChanges` is a provider that leaves the chain's list or comes back |
| `Reporter_proofs` | | theorems about `Reporter` and the `Transactions` under it |
| `Migration` | `utils/migrate.go`, `--prune-first`, `HybridCellArchive` | `dir` is what each directory holds (blocks, the one file, its tree), `step` and `at` the place of `Migrate`. `Start` with the deals it recollects, `FindMigratedFile`, `Combine` (a block), `MoveTree`, `Check` with `MarkCorrupted`, `CleanOld` (a block), and the failures `FindFails` and `DiskFails`; `PruneDir`, on contracts it finds, does not find or cannot look up, cut off or not; the proof server's `PurgeContract` and `PurgeFile`; what uploads and hands leave: `Store`, `StoreCutOff` and, of an answer that is not the file, `StoreUnchecked`; a reader with `TryLegacy` and `TrySingle` |
| `Migration_proofs` | | theorems about `Migration` |
| `Strays` | the stray manager and its hands, claims on the chain | `stray` and `busy` are each hand's `h.Stray` and `h.Busy`, `pile` is `m.Strays` (shuffled, so a set). The manager: `AddHand`, `HandsReady` (`Init`), `CollectStrays`, `Distribute` hand by hand, `StartHands`. Each goroutine of `Process`: `Enter`, `CheckBusy`, `TakeHand`, then `Search` and `Look` or `Fetch`/`Copy`, `ClaimStray`, `Record`, and `Leave` in two steps; `NilStray` is the nil pointer followed. `Recollect` and `Restart` are the start of the process |
| `Strays_proofs` | | theorems about `Strays` |
| `MC...` | | finite instances for TLC |

`FileServer` and `Strays` use `ContractMap` where the code uses `ContractDB`; the
refinement of section 4 justifies that. In `FileServer` the calls of handlers and proof
server overlap as they do in the code, and after that a list may name a contract twice
or not at all: a purge may then be told to erase the file or not, `DeleteContract` may
fail for want of a list, and prune may find none. `Strays` has no purge and does not
look at lists but to see whether there is one: it takes `raced` to be empty, and what
overlapping calls of its hands do is shown on `ContractDB`.

History variables, which no action reads:
- `raced` (`ContractDB`): files on which two calls ever overlapped. `raced`
  (`UploadQueue`): an access to `q.Queue` overlapped another goroutine's load and
  store, after which Go promises nothing. The model goes on with whole slice
  values; properties that need the queue intact are stated for runs not raced.
- `stored`, `sent`, `fate` (`UploadQueue`): order of appends and sends, and the
  outcome of the transaction that carried each upload.
- `misses` (`FileServer`): shifts that did not find the deal. `interrupted`: files
  whose upload or purge was cut off. `collided`: files on which an upload and a
  purge overlapped. `overlapped`: contracts uploaded again between a query that did
  not find the deal and the end of what came of it (the count, the purge). `misread`:
  files the prune under way erased on a look-up that failed. `skipped`: contracts whose
  proof was left out, since `calm`, on the answers of other providers. `calm`: the point
  after which the environment is quiet. (`raced` here is no history: it is part of
  `ContractMap`.)
- `raced` (`Strays`): a goroutine took a hand that had become busy or empty since it
  looked. `unchecked`: files a hand took in although they were not the whole file, from
  its disk or from another provider (read only by `Copy`, where such an answer may be
  longer than the file and so survive the file written over it). `calm` as above; it
  makes the environment better and is otherwise not read.
- `lapsed` (`FileServer`): contracts whose deal was not the provider's at some moment
  of a collection.
- `answered`, `overlapped` (`Attestation`): who answered 200 to this attempt; whether
  an increment fell between a load and its store.
- `moved` (`Reporter`): deals that changed hands since they were looked up or while a
  transaction about them was unfinished.
- `troubled` (`Migration`): files whose storing, glueing or removing was cut off, or
  that met a failed access to the disk, since they last arrived. `misjudged`: files
  marked corrupted although they were complete. `unbacked`: files under contract whose
  directory was erased all the same, is about to be, or never held them. `unchecked`:
  files stored from an answer that was not the file (read where the check is made, which
  such a file may pass).

Abstractions: ids are model values; a cid determines its fid because it is a hash over
it; a directory is the set of complete files in it (a partly written file counts as
absent); a message is its size; the result of a transaction is one of error, rejected,
accepted, simulated (`--dry-run`); the chain's deals step through none, unverified,
verified and elsewhere (held by another provider: `ContractState` does not look at the
provider). In `FileServer` a request for attestations and the posted proof are one
step, after which the deal is verified, or left as it is because the proof was left
out on answers that attest nothing (`Attestation` shows how); what a page of deals
covers is any part of what is unread. In `Attestation`
the queue answers in one step and the chain's window closes at any time. In
`Transactions` a sequence is current or out of date, a dry run is left to
`UploadQueue`; the hands' copy of `SendTx` has the same shape and accounts of its own,
and is one step of `Strays`. In `Reporter` a deal, its report and its file have one
number, and what the chain does with a message is its success or failure. In
`Migration` a file is its number of blocks, and blocks, file and tree are right when
they are there: an old file may lack blocks, not have wrong ones. In `Strays` a
collection is one step, so that a file recorded between two look-ups of it is one
whose look-up came earlier; the page the chain is asked for is any subset; whatever is
answered to a download and is not the file is one value, the same as a part of it or a
file without its tree; a claim is one
step whose answer may be lost; a hand that breaks off in the middle of writing has
opened, and perhaps created, the file and truncated nothing; the purge of a stray's
file by the proof server, the race `FileServer` shows for uploads, is left out.

## 3. Runs

| run | instance | shows |
|---|---|---|
| `contractdb` | 2 setters, the purger; 2 contracts of one file, 1 of another | `RefsMatchContracts`: the records agree on every file whose calls never overlapped, through failures, crashes and anything done to other files. `PurgeIffLast`. `ImplementsContractMap`: refinement of `ContractMap` |
| `uploadqueue` | 4 uploads, one of size 2, limit 3, all outcomes, one caller of `postProof` | `SentInOrder`, `QueueHoldsTheRest`, `AnswerIsOwn`, `NoPanic` |
| `uploadqueue_live` | 3 uploads, one above the limit | `EveryUploadAnswered` |
| `fileserver` | 2 handlers, 2 contracts of one file, `MaxMisses` 0 | `OverdueHasContract`, `NoOrphanFiles`, `RecollectsAll`, `EraseOnlyUnneeded`, `RecordedOverCompleteFile`, `RemovedAfterMisses` |
| `fileserver_live` | 1 handler, 1 contract, all deal states, `MaxMisses` 1 | `ExpiredIsRemoved`, `UnverifiedIsProved` |
| `fileserver_reset` | 1 handler, 2 contracts, `Reset` | violation of `OverdueHasContract`, below |
| `strays` | 2 hands, one with 2 goroutines, 1 stray, 1 other provider | `NoPanic`, `RecordedOverWholeFile` |
| `strays_live` | 1 hand with 2 goroutines, 1 stray | `HandIsFreed`, `StrayIsServed` |
| `migration` | 1 file of 2 blocks, the last one short; marked corrupted at most twice | `MarkedOnlyAfterTrouble`, `LastCopyKept`, `MigratedInTheEnd`, `HybridFinds` |
| `attestation` | 2 contracts, 4 providers, one of them mute, 3 answers needed | `SkippedOnAnswers`, `ProvedForWantOfAnswers`, `EveryAttemptEnds` |
| `attestation_skip` | the same | violation of `SkippedWhenAttested`, below |
| `reporter` | 3 reported deals of two other providers, pages of 2, files 1 and 3 or 2 and 3 lost, 1 disturbance | `SequenceIsOwn`, `ReportedForCause`, `AskedIsAttested`, `UnavailableIsReported` |

Bounds. Every hazard of the contract database is between two calls on a file, with a
third to see a non-empty list remain; `MaxCopies` 2 stops a list that two races in a
row make name a cid more and more often, and is not reached without one. Four uploads
of two sizes give batches of one, two and three, a batch split by the limit, and
appends at every step of the listener while others wait. In `fileserver` both handlers
may upload the same contract or different contracts of the same file, which is where
uploads, purges and prunes meet; files do not interact beyond the order of a snapshot,
so one file is enough. `MaxMisses` 0 keeps every value a count can have around the
limit (no entry, 0, 1); `fileserver_live` has 1, where a count grows over several
shifts. `DealStates` has the two states in which the proof server does something
different in `fileserver`, all four for liveness. In `strays` the one stray is what
both hands may hold at the same time, because it stays on the chain while a hand is at
work on it and is collected again; two more hands would repeat that. `Slots` is how
many goroutines of a hand live at a time: a third would meet the same two checks as
the second, and a loop that finds no slot starts none, as if it were late. `MaxLeft`
is how many providers are named for a file. `NotRaced` stops `strays` behind a race,
where its invariants claim nothing but the types; `strays_live` goes on. In
`migration` files do not interact (each has its directory, its tree and its
contracts), so one file is enough; of two blocks the first is full and the last is short, the
glueing can be cut off with none of them, one or both in the file, the removal with
either or both left; `MaxDepth` 2 lets a directory be marked corrupted, the file be
stored anew and marked again, so that a listing holds directories of both names.
`Checked` stops it behind a `StoreUnchecked`, of which its properties claim nothing;
the proofs do go on. In `attestation` three answers are needed: four providers
give forms with too few, just enough and one to spare, and two increments lost out of
four; the second contract shows what an attempt leaves to the next. In `reporter` the
third deal lies behind the first page from one end and on it from the other.
Two of its deals have one holder and the third another, so that either may leave the
chain's list and be passed over while the other's deals are still in reach.
`MaxFaults` 1 allows one disturbance of any kind (a failed look-up, a time-out, a
transaction that is dropped, a deal that moves, a provider that leaves, a command of
the operator, a restart) at any moment; the safety properties are proved for any number. Symmetry is over setters, over uploads of equal size,
and over contracts of one file and handlers, in runs without liveness. `uploadqueue`
and `uploadqueue_live` stop when every upload was answered (or a goroutine panicked),
`attestation` when the process panicked; there no deadlock is checked, everywhere else
it is.

Fairness. `UploadQueue`: weak fairness of the listener (`StartListener` loops for
ever, a transaction comes back) and of each goroutine that is ready; nobody has to
append. `FileServer`: weak fairness of the proof server's loop, of each upload under
way, of start-up (a page of the chain's deals is answered at some time), of the
restart of a process that is down (a service manager) and of a running prune.
`Strays`: weak fairness of the manager's loop, of each goroutine, of the recollection
and of the restart of a process that ended. That a download comes to an end is an
assumption on the other provider: `http.Client{}` has no timeout, and a hand whose
download hangs is busy for good. `Attestation`: weak fairness of the proof server, of
the goroutines, and of the answers of providers that are not `Mute`: `http.Post` has
no timeout either, so `EveryAttemptEnds` leaves out attempts that wait for mute
providers only. `Reporter`: weak fairness of a round under way, of its senders and of
the chain's blocks, and strong fairness of each outcome of the two coins a round
begins with (`math/rand`): no outcome fails to come up for ever. Its downloads are
assumed to end, as those of the hands. Liveness of `FileServer`, `Strays` and
`Reporter` is stated from the point `calm` on: no more failures, crashes, new uploads
or changes of deals by others. Without it nothing can be promised, since every shift
may fail.

### What the violations show

`fileserver_reset`. `jprovd reset` says it removes "the internal database" and leaves
the downtime database. A count left there has no contract; once above `--max-misses`
it makes `CleanExpired` return an error in every shift, and no contract is proved
again. `OverdueHasContract` holds without reset, through crashes and failed steps of a
purge: the order of `Purge` (downtime before contract) and of `saveToDatabase` (a
count of 0 before the contract) is what it depends on.

`attestation_skip`. `postProof` says "request attestation, if we get it, skip all the
posting". `handleAttestRequest` calls `attest` only inside the branch that reports an
error, where `err` is nil after a request was decoded, and answers 200 without having
attested anything. Three such answers make the asking provider leave its proof out,
and nothing vouches for the deal on the chain. `SkippedOnAnswers` and
`ProvedForWantOfAnswers` are what does hold of the count, whatever the answers mean.

### What the passing properties leave out

Each exception a property names is a behaviour of the code.

`raced` of `ContractDB`: two calls on one file that both read its list before either
writes. The second batch replaces the first list; a contract remains that the list
does not name, and deleting the other one answers "purge" for a file still under
contract; two calls that both set a contract leave a list that names it twice, and
deleting it never answers "purge". The run says precisely when this cannot happen: calls
on one file do not overlap. Nothing in the program sees to that. `raced` of `FileServer`
is the same: a file on which calls overlapped may stay on the disk for ever
(`NoOrphanFiles`, `ExpiredIsRemoved`) or be erased under a contract
(`EraseOnlyUnneeded`, `UnverifiedIsProved`).

`raced` of `UploadQueue`: appending to the slice and popping off it are a load and a
store, without a lock. An upload stored between the two of a pop is popped with the
batch, never sent, and its handler waits for ever. The window is narrow: the
transaction itself (seconds) is outside it, and `AnswerIsOwn` shows that appends
during the transaction are harmless.

`collided` of `FileServer`: a purge that deletes a file's last contract and then
removes the directory does not look again, so an upload in between is erased although
its contract is recorded. `overlapped`: a miss is counted in three steps, and an upload
that resets the count between the query and the end of them has it counted all the same
or its reset undone; so is a count acted on that was read before. `misread`:
`GetContracts` answers `ErrFidNotFound` for any error of the read, and prune takes that
for a file without contracts and erases it. `skipped`: a deal whose proof is left out
in every shift, on answers of providers that attested nothing, is never verified.
`interrupted`: what a failed upload, or a
purge cut off before its last step, leaves on the disk stays until `jprovd prune`; the
end of `jprovd prune` itself can cut off a purge. `lapsed`: a deal that changes hands
while the pages are read may fall between two of them. No other deal does, although
pages fail and are asked for again.

`raced` of `Strays`: `h.Busy` is tested and set in two steps, so that with two
goroutines between them (the loop's pause is seconds, the window instructions) both
work on one stray, and the first to leave sets `h.Stray` to nil under the other, which
ends the process. `HandIsFreed` holds all the same, since the process starts again.
`unchecked`: `Process` means to reclaim a stray "with the cached file from our
filesystem", but `FileExist` looks only for the name, and a download that broke off
leaves its part under that name; once the chain names no provider for the file, the
hand claims the stray over the part. And whatever another provider answers with status
200 is saved, a tree made of it, and the stray claimed, without a comparison with the
hash that is the file's name or with its size: a part of the file, which a provider
serves as readily as the whole, passes. `RecordedOverWholeFile` says that these two
are the only ways in a run that is not raced: concurrent writers, downloads that break
off and restarts are not. `hands \ funded`, in `StrayIsServed`: a hand whose allowance failed after it
was made a claimer is taken as authorised from the next start on, and a stray given to
it is never claimed by it; with another hand it may or may not be.

`troubled` and `misjudged` of `Migration`: glueing writes the file of the new layout
in place, a block at a time, and a migration that finds the file takes it as done. One
that was cut off, or met a failed access, leaves part of a file that the next run
checks, fails and marks corrupted with all its blocks; the next prune removes them,
since no contract has that name. An upload or a hand that is cut off while it writes
the file beside blocks not yet migrated does the same, and so may a removal that is cut
off. Elsewhere a crash does no harm. `unbacked`: prune erases a file it could not look
up; a purge that goes on while the file comes back, or that was told to purge by a list
that names too few, erases it under its contract; a deal recollected from the chain or
recorded over an answer that was not the file never had one. A purge removes the
directory and not the tree of the old layout beside it, which stays. A reader of the
old layout gets a short last block padded with zeros to the full size.

`moved` of `Reporter`: the page is a copy, and the deal in it may have changed hands
by the time its file is asked for or its transaction is in a block: then a provider is
accused of what another did. In `SequenceIsOwn`, a command of the operator in the
provider's account, and a sender's own earlier transaction that it gave up on, make
the next one fail. `ReportInReach` and `DealInReach`: a round sees one page from one
end and stops at the first report whose deal is gone, or after its first form; what
lies behind from both ends is never reached. `registered`: a provider that was removed from
the chain's list (`jprovd terminate`) has no address to download from, and every round
passes over its deals and reports: just its unavailable files are never reported or
attested. The two liveness properties claim it of registered holders, and that entries
of others do not hold up what is behind them.

## 4. Proofs

For all values of the constants under their assumptions (`FidOf` a function from
contracts to files, the "none" values outside their sets, the purger not a setter,
`MaxCopies` positive; sizes positive, the limit a number, outcomes among the four,
provers among the uploads; providers finite in number, `NoContract` no contract;
`MaxMisses` a number; a file of one block at least; deals finitely many numbers, the
reporter's messages among those that can be sent, its initial deals, reports and losses
what their names say). Every invariant and every action property a passing run checks
is proved; each inductive invariant below was model-checked on the run's instance
before it was proved.

`ContractDB_proofs`: `TypeCorrect`, `RefsAlwaysMatch` (`Spec =>
[]RefsMatchContracts`), `PurgeAnswersRight` (`Spec => PurgeIffLast`) and `Refinement`
(`Spec => ImplementsContractMap`). `RefsMatchContracts` is not inductive: a batch in
memory may be wrong although the records are right. `IInv` adds, for files that never
raced: `OneCallPerFid`, at most one call is under way on the file; `CidStillAsRead`,
what the caller read of its cid is still true (absent for `SetContract`, present for
`DeleteContract`); and `ListStillAsRead`, the batch is the present list plus or minus
the caller's cid. A step on another file keeps all of them, a second call on the same
file makes the file raced, and a write turns `ListStillAsRead` into `ListMatches`.
`LastContract` links the empty list to the set of contracts, which gives the purge
answer and the refinement step by step: `SetWrite` is
`Set` and `DeleteWrite` is `Delete`, on a raced file too, where the list and the purge
answer are open and the contracts are not; the check that makes a file raced is
`Overlap`; everything else stutters. `DeletesWhatIsThere`, which needs that there is one
caller that deletes, says that the contract is still there when it is deleted.

`UploadQueue_proofs`: `TypeCorrect`. Besides the types, `ListenerFields` says which
fields the listener's phase determines; without it `next` is not known to stay within
the batch, nor `result` to be an outcome when it is written to an upload.
`SendsInOrder` (`Spec => []SentInOrder`) and `NothingIsLost` (`Spec =>
[]QueueHoldsTheRest`) follow from the invariant `Order` of runs that are not raced:
`Alone`, at most one goroutine is between the load and the store of the queue;
`Snapshots`, what it loaded is still the queue; `BatchIsHead`, the batch is the head
of the queue until it is popped, however much was appended behind it; and
`StoredIsSentThenQueued`, what was appended is what was sent followed by what is
queued beyond the batch already sent. `SentInOrder` alone is not inductive: that the
next batch continues where the last one ended is what the other three say.
`AnswersOwn` (`Spec => []AnswerIsOwn`) and `NeverPanics` (`Spec => []NoPanic`) add
`Answers`: `AppendedOnce`, no upload is stored twice; `BatchWasSent`, while the listener
answers, the batch is the tail of what was sent; `AnsweredOnce`, the counter of a
WaitGroup is 0 exactly for what was sent before, or in that tail before the listener's
index, so that none is answered twice; `AnsweredRight`, those hold the outcome of the
transaction that carried them.

`Attestation_proofs`: `TypeCorrect`, `SkipsOnAnswers` (`Spec => SkippedOnAnswers`) and
`ProvesForWantOfAnswers` (`Spec => ProvedForWantOfAnswers`), for any number of contracts and
providers, finitely many named in a form, and any `Needed`. Both speak of a step, and
need what the count is worth at that moment. `CountedOnce`: the count, and what any goroutine
has loaded of it, is at most the number of goroutines that answered and are done
(`Finished`), since a store replaces a value of before by one more and finishes a
goroutine. `CountedAll`: without an overlap it is that number, and at most one goroutine
is between its load and its store. `AttemptFields` says that goroutines belong to the form
of the attempt, so that at its end those that answered are the finished ones.

`FileServer_proofs`: `TypeCorrect` rests on `Phases` (what the places of the process
and of the proof server say of each other), `WorksOnContracts` (what a shift has in
hand is recorded, since nobody else deletes) and `OverdueIsPurged`, without which a
count is not known to stop at one above the limit: `CleanExpired` leaves nothing
overdue to `handleContracts`. `OverdueIsRecorded` (`Spec => []OverdueHasContract`) adds
`PurgedIsNotCounted`, there is no count any more when `Purge` deletes the contract:
the order of its steps. `RemovalIsEarned` (`Spec => RemovedAfterMisses`): `CountedMisses`,
a count, in the database, in hand or about to be read, is at most the number of misses,
and what is being purged had more than the limit, unless an upload came in between
(`overlapped`), from the query on. `NoFileIsOrphaned` (`Spec => []NoOrphanFiles`),
`ErasesOnlyUnneeded` and `RecordsOverCompleteFile`: `CollisionsKnown`, an upload and a
purge of one file at a time make it `collided`; of the others, `UploadedSoFar`, what an
upload has written is there, and `PurgedIsUnneeded`, no contract needs what is about to
be erased, unless calls of the contract database overlapped on it: `DeleteContract`
answered for its last contract only elsewhere. The two theorems name the exceptions
`raced`, `collided` and `misread`. `RecollectsEveryDeal` (`Spec => RecollectsAll`): `Collected`, a deal that was
the provider's all the while is unread, collected or recorded already. `Reset` is not a
step of `Spec`, and what it does is the violation of section 3.

`Strays_proofs`: `TypeCorrect`; `HandsAreKept` (`Spec => []SInv`), and from it
`NoPanicUnraced` (`Spec => []NoPanic`) and `RecordsWholeFiles` (`Spec =>
[]RecordedOverWholeFile`). `SInv` claims nothing but types of a raced run. `OneAtWork`: at most one goroutine of a hand is between
`TakeHand` and the end of `Leave`, and the hand is busy all that time; `KeepsStray`: up
to the first step of `Leave` the hand holds a stray, and what is being copied is that
one, since `Distribute` gives only to an empty hand; `HoldsWhatItClaims`: what is
claimed, held on the chain or recorded is whole or was taken in unchecked, and other
whole files stay whole. The mutual exclusion needs that `Leave` empties the hand before it
frees it: a goroutine that finds the hand idle and not empty finds it refilled.

`Migration_proofs`: `TypeCorrect`, `MarksOnlyAfterTrouble` (`Spec =>
[]MarkedOnlyAfterTrouble`), `KeepsLastCopy` (`Spec => LastCopyKept`), `MigratesAll` (`Spec
=> MigratedInTheEnd`) and `HybridFindsAll` (`Spec => HybridFinds`), from one invariant:
`Layout`, what directories of plain and of marked names can hold; `Glueing`, the file
half made of a full set of blocks is the one in hand or had trouble, and both file and
tree are intact when blocks are removed, or no contract rests on them; `Copies`, a file
whose contract rests on its directory (is not `unbacked`) is not being purged, and a
complete copy of it under a marked name is not the only one unless it was wrongly
marked; `Visited`,
what the migration is through with is migrated; `NotInLegacy`, what a reader did not
find in the old layout is not there later, so that looking there first is right.

`Reporter_proofs`: `TypeCorrect`, `SequencesAreOwn` (`Spec => []SequenceIsOwn`) and
`ReportsForCause` (`Spec => ReportedForCause`). `OwnAccount`: who waits for a pending
transaction sent it to its own account and still waits, and a sequence is put out of
date, before it is used, by another sender of the account or by a transaction nobody
waits for. `OneSender` and `SentOfRound`: provider and reporter send only what the
reporter waits for, one at a time, and that is about the entry in hand, which is why
nothing is in flight about an old page when a new one is read. `Causes`: what the page,
the download under way and every pending transaction say of a deal that has not moved
is true of its holder. `InOrderIsPossible` shows that a page in the order of its deals
exists, by counting for each entry those before it.

Only model-checked, as out of the reach of the prover: liveness (`EveryUploadAnswered`,
`ExpiredIsRemoved`, `UnverifiedIsProved`, `HandIsFreed`, `StrayIsServed`,
`EveryAttemptEnds`, `AskedIsAttested`, `UnavailableIsReported`), anything with ENABLED,
and what recursive definitions compute by induction over data (`PrefixSize`).

## 5. Not modelled, and what is left to prove

Not modelled, and why:
- command line, configuration, logging, keys and addresses, port mapping: text, files and
  system calls that share no state with the rest;
- the read-only API: it changes nothing. `ListQueue` ranges over a queue that may have
  grown since it sized its slice; that costs the one response;
- hashes, Merkle trees, encodings of records and messages, the arithmetic of block
  sizes: pure functions whose result no property here tells apart but for being
  right or wrong. A `migrate` with another `--chunk-size` than the files were stored with
  is among them: it would find every tree wrong;
- the ipfs archive and its upgrade: the node and its store are libraries, and the upgrade
  copies, once, what the contract database names;
- code nothing calls: `QueryAllActiveDeals`, `QueryContractState`, `LastPiece`, and what
  becomes of an attestation in the handler that never starts one;
- the shutdown on a signal: the http server waits for its handlers, everything else ends
  where it is. The models have it as a crash, which cuts off more.

Worth proving next, each with TLC's agreement on a small instance:
- what the liveness properties rest on: that a state in which something is owed is left
  only by paying it (an upload appended stays queued or sent, a hand that holds a stray
  has a goroutine or gets one), as action properties;
- `Strays` and `FileServer` over `ContractDB` in place of `ContractMap`, step by step.
