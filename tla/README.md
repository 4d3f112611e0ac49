# Starrol: a TLA+ model of the root sequencer

Starrol takes credential roots from issuers, batches them into Merkle trees,
stores the trees and lets issuers replace roots later.  This directory holds
TLA+ modules for the parts that carry that logic, TLC configurations that check
them on small instances, and proofs checked by TLAPS.  Paths below are relative
to `src/`; `seq/` abbreviates `sequencer/src/`.

## 1. The system

| Component | Source | State | Operations |
|---|---|---|---|
| Batching engine (twice) | `seq/batcher/batcher.rs` | item channel, current batch, sleeper, batch channel | `run`, `flush` |
| gRPC handlers | `seq/rpc/service.rs`, `seq/rpc.rs` | one future and one oneshot per call | `submit_root`, `update_root` |
| Submission worker | `seq/rpc/worker.rs:22-66` | the batch in hand | receive, tree, `insert`, answers |
| Update worker | `seq/rpc/worker.rs:69-96, 117-196` | the batch in hand, loaded leaves, replacements | receive, load, match, write, answers |
| RocksDB store | `seq/store.rs`, `seq/store/rocks*` | counter, root, leaf and index records | `insert`, `get_by_leaf`, `get_leaves_set_by_seq_number`, `update_leaves_by_indices` |
| Merkle engine | `seq/crypto/merkle.rs` | none | `root`, `build_multi_proof`, `verify_multi_proof` |
| Process assembly | `seq/main.rs`, `seq/config.rs` | channels, tasks | start |
| Signature service | `seq/crypto/secp256k1.rs` | a key | `verify` |
| Postgres store | `seq/store/postgres*` | two tables, row locks | the same trait; `main.rs` connects RocksDB only |
| zkVM guests | `provers/methods/guest/`, `provers/common/` | loop variables | `insert.rs`, `update.rs` |
| zkVM host | `provers/host/` | none | an empty template |
| StateVerifier contract | `contracts/StateVerifier.sol` | image ids, list of roots, events | append, update, set the ids |
| Issuer registry contract | `contracts/issuer.sol` | mapping and list of issuers | register, approve, paged view |
| Demonstration client | `seq/bin/client.rs` | accepted roots and numbers | two rounds of concurrent calls |
| Desktop application, generated code, scratch | `client/`, `seq/pb/`, `temp.rs` | none | |

How they interact.  A handler checks a call, puts an item with a oneshot sender
into the item channel of its lane and waits for the oneshot.  The engine of the
lane groups items into vectors, flushing when the vector is full or when the
sleeper, re-armed by the first item of each vector, fires.  The worker of the
lane receives vectors, computes, calls the store and answers every oneshot.
The lanes are independent tasks on a multi-threaded runtime; they share the
store, which takes no lock and makes each write with one atomic `WriteBatch`
after unlocked reads.  The Postgres store is shared by connections instead and
locks rows.  The demonstration client calls the handlers, twenty tasks at a
time.  Guests and contracts do not talk to the sequencer in the code at this
commit: they meet it in what they compute (a tree, a multi-proof) and in what is
signed.

What is hard: back-pressure through two bounded channels per lane; the one
sleeper shared by all batches; an update computed from leaves loaded several
awaits earlier, while the other lane inserts; delete and put of index records in
one write when leaves are exchanged; handlers cancelled while their item is
under way; a crash between the write and the answers; a panic of the submission
worker at the end of the number range; alignment of leaves, flags and proof
nodes in multi-proofs; rows locked in the order of a `HashMap`, entries found by
their old value; provers that race for the same root; a list read page by page
while it grows.  `PROJECT.json` lists each at its line.

Correctness, per component:

* engine: sizes of batches, no loss, duplication or reordering while the worker
  lives, no stranded item, no early and no late flush;
* store: dense numbers, no lost write, an index that never lies, all or nothing;
* lanes: an accepted submission is in the store under the number returned; an
  error means no effect; nothing is stored twice; every call is answered;
* multi-proofs: what is built is accepted, other leaves are not, and the
  extracted layer holds the updated subtree roots;
* Postgres: calls that are atomic and act on current rows, numbers that can be
  loaded, an index that never lies, no call that waits for ever;
* guests: they would have to agree with the sequencer on roots and on proofs.
  They do not, since they take another digest of a pair; what is left, and
  checked, is exactly which of the sequencer's roots and proofs they prove;
* contracts: events that tell the roots, list and mapping in step, pages without
  gap or duplicate;
* client: what it reports as done is so.

## 2. Modules

| Module | Models | Role |
|---|---|---|
| `BatchPipe` | what an engine promises | abstract specification |
| `Batcher` | `batcher.rs` without time | detailed; implements `BatchPipe` |
| `TimedBatcher` | `batcher.rs` with the sleeper and a clock | extends `Batcher` |
| `BatcherProofs` | | theorems about `Batcher` and `TimedBatcher` |
| `LeafStore` | what the `Store` trait promises the workers | abstract specification |
| `RocksStore` | `store/rocks*` | detailed; implements `LeafStore` |
| `LeafIndex` | `get_by_leaf` beside the writers | extends `RocksStore` |
| `RocksStoreProofs`, `LeafIndexProofs` | | theorems about `RocksStore` and `LeafIndex` |
| `SharedLeafStore` | what `Store` promises several connections | abstract specification |
| `PostgresStore` | `store/postgres*` | detailed; implements `SharedLeafStore` |
| `PostgresStoreProofs` | | theorems about `PostgresStore` |
| `Merkle` | hash and tree root | operators |
| `UpdateBatch` | the computation of `process_update_batch` | operators |
| `MultiProof` | `build_multi_proof`, `verify_multi_proof` | extends `Merkle` |
| `ProverGuests` | `insert.rs`, `update.rs` in the zkVM | extends `MultiProof` |
| `MultiProofProofs` | | theorems about `Merkle`, `MultiProof` and `ProverGuests` |
| `Sequencer` | handlers, two `Batcher`s, workers, `RocksStore`, crash | composition by INSTANCE |
| `SequencerProofs` | | theorems about `Sequencer` |
| `DemoClient` | `bin/client.rs` | extends `Sequencer` |
| `DemoClientProofs` | | theorems about `DemoClient` |
| `ValidiumRoots`, `IssuerRegistry` | the two contracts | one module each |
| `ContractsProofs` | | theorems about both |
| `MC*` | | small sets of values for TLC |

### Batcher and TimedBatcher

`inq` and `outq` are the two channels, `batch` the vector of `run()`.  `engine`
tells where `run()` waits: in `select!`, in the `send` of `flush()` ("flush"),
in the last one after the senders left ("drain"), or nowhere ("stopped").
`Recv`, `RecvClosed` and `Timeout` are the arms of `select!`; `Flush` and
`FlushFails` the two ends of `send(full_batch).await`; while the engine waits
there it receives nothing, which is the back-pressure.  `max_batch_size` is
compared after the push, so `Limit` is 1 for a configured zero.  `TimedBatcher`
keeps the sleeper as the time since its last reset; `age`, the time since the
batch began, only serves the properties.

### RocksStore and LeafIndex

The four kinds of records are four functions.  `insert` is `InsertBegin` (read
the counter, add one) and `InsertWrite` or `InsertFails`; `update_leaves_by_
indices` is `UpdateBegin`, one `UpdateRead(s)` per batch in any order (the list
comes from a `HashMap`), and `UpdateWrite`, `UpdateFails` or `UpdateStops`.  A
`WriteBatch` is kept by its net effect: vectors to put, and per index key the
last operation (`upd.put`, `upd.del`).  Each of the two workers has at most one
call in progress (`ins`, `upd`), because each is one sequential task.
`CounterFaults` allows `get_latest_seq_internal` to answer zero, as its `_ => 0`
does for any error; `OverflowChecks` selects the build.  `LeafIndex` adds
`get_by_leaf` as its two reads, so that writes may come between them.

### PostgresStore

`rootOf`, `leavesOf` and `entries` are the committed tables; `entries[s]` are the
rows of `leaves` with number `s`.  Each session has at most one call, a
transaction: `InsertRow` draws from the SERIAL (which no rollback gives back),
`InsertCommit` makes the rows visible.  An update takes its rows one by one
(`UpdateNext`, any order), waits for the lock and copies the row (`UpdateLock`),
replaces one slot per statement (`UpdateSlot`, which also renames entries by
value) and commits or stops; `Deadlocked` is Postgres' own detection.  `Row` is
the conversion `as i32`.  The schema is not in the repository: a SERIAL and no
unique column in `leaves` are assumed, as the queries suggest.  That several
sessions update at once is what the pool permits; the sequencer has one update
worker.

### Sequencer

A request makes one call, carries a model value as root, and has the verdict of
the signature check as part of the call.  `stage`, `answer` and `reply` are the
handler, its oneshot and its response.  The lanes are `SubQ` and `UpdQ`,
instances of `Batcher`; the workers call the actions of `Store`, an instance of
`RocksStore`, so what is proved of the store's steps is what the workers do.
The worker's locals are `subWorker` and `updWorker`.  `Crash` keeps only the
records.  `committed`, `applied` and `faulted` are history variables.

The multi-proofs that `process_update_batch` builds are not part of its model:
it drops them.  What can go wrong while they are built, the assertion at
`merkle.rs:52`, is the property `TreeHasLeaf`.

### MultiProof

The prover's side is a set of operators on layers (`Flags`, `Proof`); the
verifier's side is the loop, one action per iteration.  The hash is ideal: the
digest of a pair is the unordered pair, except that two zero nodes give zero.
An initial state chooses the tree, zero slots included, the slots to replace,
the side (before or after), the slots whose leaves are handed over and the layer.
`Ascending`, the order in which the code takes slots, is by rank: the k-th
element is the one with k elements up to it.

### ProverGuests

`guest` says which program runs and how far it is.  The update guest runs the
loop of `MultiProof` twice, over the current and over the updated leaves; the
insert guest (`InsertItems`, `InsertLevel`, `InsertCompare`) keeps its two buffers.
`GuestNode` is their own `hash_node`: `Impl::hash_pair` is the compression
function of SHA-256 alone, `merkle.rs` takes the padded SHA-256 of the 64 bytes,
so a digest of a guest is the pair with the mark `Raw`, another value than the
pair.  Both leave two zeros zero.  Trees, roots and multi-proofs that a guest is
handed are those of `merkle.rs`.  Because of the digest the guest's copy of the
verifier's loop has two actions of its own (`GuestHashPair`, `GuestHashWithProof`)
beside the shared ones, and its tree has `GuestParents`.  `Carried` is what becomes
of the proof nodes: the guest reads `batch_size` of them.  A bad signature, like a proof that does not verify, ends in a panic
("aborted").

### DemoClient

The two rounds of `main`: all submissions at once, the numbers of the accepted
ones kept, then an update for each of the first `MaxUpdates` of them.  Its
server is the whole of `Sequencer`; `signature` keeps what each update signs.
Signatures are good in this model, so calls carry the verdict "valid".
`DemoCalls` are the calls it can make; `DemoAssumption` says that the server
knows them, that no request is used twice, and that the roots, drawn at random
by the code, differ.

### ValidiumRoots and IssuerRegistry

A transaction is an action whose guard is the conjunction of its `require`s.
The RISC Zero verifier, outside of `src/`, is the set `Receipts` of accepted
pairs of image id and journal.  `log` is the list of emitted events.  The reader
of pages (`collected`, `complete`) asks with the length of what it has as the
offset, while others register.  The contracts do not call each other; one run
interleaves them.

## 3. Runs

| Run | Instance | States | Question |
|---|---|---|---|
| `batcher` | `TimedBatcher`: 4 items, batch 3, capacities 2 and 1, wait 2 ticks | 5 193 | implements `BatchPipe`; strands nothing; neither early nor late; progress |
| `rocks_store` | `LeafIndex`: 3 batches, 6 change sets, numbers to 3 | 338 822 | lock-free writers and lookups; implements `LeafStore` |
| `sequencer` | 3 requests, 9 kinds of call, all faults but the counter's, 1 crash, numbers to 3 | 1 196 485 | what clients are told agrees with the store; only requested changes |
| `answered` | 3 requests, capacities 1, one number | 159 837 | every call is answered |
| `demo_client` | 4 issuers, up to 2 updated, numbers to 3, all faults, 1 crash | 1 706 244 | a reported update is in the store; numbers never skip |
| `multi_proof` | trees of 1 to 5 leaves, all zero patterns and targets; both guests | 217 816 | round trip, own leaves only, extracted layer; what the guests prove of the sequencer's roots and proofs |
| `postgres_store` | 2 sessions, 2 batches, 4 change sets, numbers to 3, failing statements | 45 872 | implements `SharedLeafStore`; loads; lookups; every call ends |
| `contracts` | 3 events, 6 receipts, 3 accounts and the zero address, pages of 0, 1, 2, 4, words to 4 | 440 296 | events, list and mapping, approvals, pages |
| `stale_root`, `lost_update`, `missing_batch` | 3 requests | | disagreements, section 6 |
| `signed_pair` | `DemoClient` without faults | | disagreement, section 6 |

States are distinct states.  Requests are symmetric in `sequencer`; no liveness
property is checked there.

The bounds.  The smallest instance in which a hazard shows was the guide.

* An engine of batch size 3 with a channel of two and one free place behind it
  can be full, waiting and interrupted at once, and a batch can be cut short of
  the limit at either size.
* In RocksDB one update and one lookup beside one insert is all that two workers
  and a reader can make; three batches and the change sets cover a swap within a
  batch, a chain in both directions, a move across batches, a duplicate leaf, a
  missing slot and a missing batch.
* `sequencer` needs two calls in one batch, a third in the other lane, and one
  crash (after a crash only the records count).  The database already holds a
  batch with two leaves (`Used`), so three calls are enough for crossing updates
  beside an insert; `LastSeq` is 3, so that there is room for two inserts and
  the third panics.  `answered` starts with a new or a full number range
  (`FreshOrFull`), which makes the worker die with calls behind it.
* `demo_client`: batches of two, four issuers, so that accepted roots lie in
  several batches and two updates meet in one batch or in two.
* `multi_proof`: five leaves give an odd tree of height three; claims of up to
  four slots are mixed up.
* `postgres_store`: two sessions are enough for a circle of locks, one of the
  change sets being over both batches; a number beyond `i32` is among them.
* `contracts`: two provers that start from the same root, one of whom comes
  second, and a step back; pages smaller and larger than the list, and offsets
  plus limits beyond `MaxWord`.

Crashes are bounded by `MaxCrashes`, transactions on roots by `MaxEvents`,
numbers by `LastSeq` and `LastSerial`, which are constants of the code (`u32`,
`i32`); nothing else is cut off: requests are used once.

Deadlock is not checked: all these systems may come to rest, with every request
made, the engine returned, the number range used up or the loop at its end.

Fairness.  `Batcher` assumes weak fairness of the engine and of the worker's
receive: tokio polls a task that was woken, and a pending `recv`, `send` or
timer wakes its task.  `TimedBatcher` adds that time passes.  `FairSpec` of
`Sequencer` has weak fairness of each handler, engine and worker.  `FairSpec` of
`PostgresStore` has strong fairness of each session's progress: Postgres queues
those that wait for a row lock, so that one that is free again and again is
got.  Nothing is assumed of clients (`Make`, `Cancel`, new calls) or of crashes,
and no fairness is assumed between the outcomes of a store call: a store that
always fails is allowed.

Every property of a passing run comes with a mutation of the code's model (the
definitions introduced as "Mutation of ...", listed under "mutants") under which
TLC finds it violated.

## 4. Proofs

All for every value of the constants; what is assumed is named.

`BatcherProofs`, from `BatcherAssumption`: `TypeCorrect`; `BatchesAreWellFormed`,
`FullBatchesNeverWait` and `NothingIsStranded`; and `PipeRefinement` (`Spec =>
PipeSpec`).  The invariant `IInv` ties the program counter to the buffer: in
"select" the buffer is below the limit, in "flush" and "drain" it has between
one and `Limit` items, "stopped" leaves it and the channel empty.  Without it a
flush could not be shown to send a non-empty batch.

The same module, about `TimedBatcher`: each timed step is a step of `Batcher` or a
stutter, so types and refinement carry over (`TimedTypeCorrect`, `TimedPipeRefinement`);
`FlushIsDueInTime` and `NoFlushIsEarly` follow from one more invariant: while the
batch is not empty the sleeper has run exactly as long as the batch is open.

`RocksStoreProofs`, from `StoreAssumption`: `TypeCorrect` without further
assumption; and, assuming `CounterReliable` (the counter's read does not fail,
and the build panics on overflow), `NumbersStayAligned`, `CopiesStayCurrent`,
`IndexStaysSound` and `StorePromise` (`Spec => PromiseSpec`).  The argument:
numbers handed out are new, so an insert never touches a batch that an update
has read; hence the update's copies stay current; hence the write is the
abstract update.  Soundness of the index needs one more part, `WritesSound`: each
index record an update is about to put names a batch among its copies that holds
the leaf, and each leaf that a copy lost is put elsewhere or deleted.  It needs
`CopiesCurrent` to speak of the store.  `NumbersStayDense` needs the overflow
checks only: with a counter that may be unreadable numbers are used again, but
none is skipped.

`LeafIndexProofs`, assuming `CounterReliable`: `LookupsNeverDangle` (batches are
added and rewritten, never removed), `IndexSoundBesideLookups`, and
`SingleLeavesStayFound`.  The last one needs the history made explicit: every
leaf in a slot has been seen, a leaf in two slots was written twice, and every
index deletion an update has prepared is of a leaf that it replaced or that was
written twice.

`PostgresStoreProofs`, from `PostgresAssumption`, for any number of sessions:
`TypeCorrect`, `NumbersLoad`, `LookupsStayRight` and `StorePromise`.  The
invariant: no row is in the hands of two sessions, no number is drawn twice, a
number being drawn is in no table, and the copy of a locked row is the committed
row with exactly those replacements made that are no longer in `todo`.  So a
commit is the abstract update of the current content.

`ContractsProofs`, from `RootsAssumption` and `RegistryAssumption`:
`EventsAlwaysTellRoots`, `ListIsAlwaysMapping`, `PagesAlwaysComplete` and
`IssuersAlwaysKeep`.  A new index has no event in the log, since events name
indices of the list; the pages read so far are the beginning of the list, which
only grows.

`SequencerProofs`, from `SequencerAssumption` and `CounterReliable`, for any
requests, calls, channel capacities, batch limits, initial content of the
database, signature verdicts, faults of reads and writes, cancelled calls and
crashes: `TypeCorrect`, `AcceptedIsCommitted`, `ErrorIsWithoutEffect`,
`NothingCommittedTwice`, `NeighboursHarmless` and `LoadedStaysCurrent`.  The
argument: in its lane a request is in one place at a time, in the call that is
sending it, in one of the two channels, in the engine's batch, in the worker's
hands, or answered.  One that had an effect has left the channels; it is with a
worker that is about to tell it so, or has been told.  So it is not taken a
second time, and whoever still waits elsewhere had no effect.  Numbers handed
out are new (the counter is at least every number in the database), so the batch
an insert wrote keeps the requests it was written for, and what the update worker
has loaded is still what is stored when it writes.  A worker is gone only when
the numbers are used up, and the calls it held then end in an error without
effect.  A crash takes the lanes and the workers away and leaves every open call
without an answer, so that nothing wrong can be told afterwards.

Its second part joins the two arguments.  It instantiates
`RocksStoreProofs` with every vector and every set of changes the workers could
ask for, shows that these meet `StoreAssumption` and that each step of the
process is a step of that store, a crash or a stutter; so the store's invariant
holds here too, from any database that inserts left behind, and gives
`StoreStaysSound`.  One more invariant (`HeldInv`: the worker has loaded every batch
its calls name, and the update being served is the one it computed) gives
`TreeAlwaysHasLeaf` and, with what a HashMap of pairs can contain, the action
property `SlotsChangeAsAsked`.  `NumbersStayDense` has an invariant of its own
(`DenseInv`) and assumes the overflow check only: the counter may be unreadable.

`DemoClientProofs`, from `DemoAssumption`, `SequencerAssumption` and
`CounterReliable`: `ClientIsClient` (`DemoSpec => Spec`, so what is proved of
`Sequencer` holds for this client) and `ReportsHold`, for any number of issuers
and updates.  Its invariant `DemoIInv` adds to the one of the server: which calls
there are, each update with the number its submission was answered with
(`CallsInv`); an insert in progress carries the roots of the calls it is for
(`InsHeld`); a slot that a submission filled holds its root or the replacement
(`SlotsInv`); and whoever was or will be told of success has the replacement in
the slot (`ToldInv`).  The step that matters is the write of an update: roots are
distinct, so the only pair that matches the slot is the issuer's own, and no
other update of the batch can take its place in the `HashMap`.

`MultiProofProofs`, from `MultiProofAssumption` and `GuestAssumption` (the mark is
neither zero nor a leaf), for trees of any number of leaves and any set of
replaced slots: all invariants of `MultiProof` and `ProverGuests`.  Three of the
theorems have hypotheses about the hashes.  `ZeroIsNoDigest`: no pair of nodes has
the all-zero digest.  `MarkTells`: the mark is no digest, so that no digest of a
guest is one of `merkle.rs`, nor zero.  In the runs both hold since `Zero` and `Raw`
are model values; of SHA-256 and of its compression function they are what ideal
hashes promise.

* Foundations.  The library's induction theorems take an operator and cannot be
  used; that every set of numbers has a least element can, and gives induction
  for a set of numbers (`Least`, `Induction`).  With it the functions that
  `Layers`, `TargetsAt` and `FlattenSeq` choose are shown to exist, so that their
  equations may be used; `2^(n + 1) = 2 * 2^n` comes from counting subsets.
* `InsertsUnhashed` (`ZeroIsNoDigest`, `MarkTells`): before each step the guest's
  first buffer is a layer of the guest's own tree (`GuestLayer`).  A node of it
  above the leaves is marked unless all leaves below are zero, while no root of
  `merkle.rs` is marked (`RootUnmarked`); so the guest meets the expected root with
  a single leaf, or with zeros only (`GuestRoot`).
* `ProofsAlwaysAgree`: a sibling in a proof has no target below it, so that
  no replacement changes it, layer by layer (`Unaffected`).
* `VerifierType`: `Take` never takes more than `Pending` has.
* The walk of the verifier, `WalkInv`: outside of the guests over any leaves, inside
  over zeros only, where both hashes give zero.  In the order in which the loop takes the
  flags, step k of layer h computes the k-th node above the targets.  `Reading`
  says where the three read positions and the digests are then: past all that
  belongs to the lower layers (offsets of flags and of proof nodes, `IsShape`), and
  in layer h past the children of the first k nodes (`Place`).  `Digests` says that what was
  computed are the nodes of the tree, `Extracts` what was extracted.  The order
  of children and of parents is the same (`NextNodes`), so the next pending
  node is always the next child, and a false flag meets a node whose sibling is
  the next proof node.  The proof of a step is for the flag at hand (`AtFlag`),
  with the turn from the last node of a layer to the next layer (`TurnOver`).
  `OwnProofIsAccepted` is the end of the walk; `UpdatedRootsExtracted` adds that
  the tree over the leaves below a node is the part of the tree below it
  (`SubtreeRoot`).
* `ZeroUpdates` (`ZeroIsNoDigest`, `MarkTells`), in two directions.  If all leaves are
  zero before and after, the walk applies in the guest, too, and a proof carried in
  one entry per item is the proof if it has that length, and otherwise leaves a
  node unused (`CarryInv`).  If some leaf is not, the expected root is not zero
  (`ZeroRoot`); every digest the guest made is zero or marked (`DigestInv`), so its
  last one is not that root (`GuestCompares`).
* `NoOtherLeavesAccepted`.  Of as many leaves as targets, whichever they are, the
  verifier computes the root of the tree with these leaves in the slots of
  the targets (`Filled`), so the same walk applies.  If that root is the expected
  one, then by induction from the root the two trees have each leaf
  equally often below equal nodes (`SameNodes`), so also in the slots.
  It assumes `ZeroIsNoDigest`.

All refinements map a step of the code to one abstract step or a stutter.

What stays with TLC is liveness (`EveryItemLeavesInTime`, `EveryCallAnswered`,
`CallsEnd`): the prover knows no fairness.  Each `FairSpec` implies its `Spec`, which
the theorems are about.  Two runs check more than their theorems assume:
`demo_client` allows an unreadable counter, which `ReportsHold` excludes with
`CounterReliable`, and in `multi_proof` what `ZeroIsNoDigest` and `MarkTells` say is
a fact about the model values.

## 5. Not modelled

* zkVM host: an empty template with a placeholder input.
* Configuration, logging, key loading, generated code, the desktop template, the
  scratch program `temp.rs`: no state of their own.
* The cryptography of signatures, proofs and hashes: verdicts are inputs, the
  hash is ideal.
* `get_root_by_seq_numbers`: nothing calls it and it changes nothing.

## 6. What the code does differently from what is said

The first four have a run of their own that shows them.

* `stale_root`: an update rewrites a batch's leaves and not its root record
  (`rocks_queries.rs:125`); README.md:66 proves membership against that root.
  The Postgres store does not rewrite it either (`queries.rs:175-180`).
* `lost_update`: an update whose old root is in none of the loaded batches is
  still answered Accepted (`worker.rs:91`), which `bin/client.rs:231` reports as
  done.
* `missing_batch`: the load fails as a whole when one number has no batch
  (`rocks_queries.rs:79`), unlike the query `store.rs:25` names as equivalent.  In
  the trace an update of batch 1, which is in the store, is answered with an
  error because an update of batch 2, which is not, was in its batch.
* `signed_pair`: the client signs the new root of an update alone
  (`client.rs:191`); `provers/common/src/lib.rs:23` and the guest (`update.rs:86`)
  want a signature over both.
* The guests and the sequencer hash differently.  `hash_node` of the guests
  (`insert.rs:87`, `update.rs:188`) takes `Impl::hash_pair` of the sorted pair, the
  compression function without padding; `merkle.rs:10-12` takes SHA-256 of the 64
  bytes, with padding.  So the insert guest refuses the root `MerkleTree::root`
  computes for any batch of two or more leaves that are not all zero, and the
  update guest every multi-proof of such a tree: no batch of real credentials
  larger than a single insertion can be proved.  Nothing in the repository hands
  the sequencer's output to a guest yet (the host is a template), and no doc says
  that the two hashes are one, so this is not a run that fails: it is what
  `OnlyUnhashedInsertsProven` and `OnlyZeroUpdatesProven` state, which `multi_proof`
  checks and `InsertsUnhashed` and `ZeroUpdates` prove.

Known limits of the code that the properties are worded around:

* A pair matches in every loaded batch, also in one that only a neighbour named
  (`worker.rs:126-143`); `OnlyRequestedChanges` says just that.
* A leaf stored in several slots has one index record; when one copy is replaced
  the record goes (`rocks_queries.rs:119`).  `SingleLeavesFound` is about
  leaves written once.
* Postgres finds the entry of a slot by its old value.  While two slots of a
  batch hold the same leaf, as between the halves of a swap, both entries are
  renamed and one leaf is no longer found.  `LookupsRight` leaves out batches
  where that happened (`merged`).
* With Postgres an update batch that names only unknown batches loads nothing,
  and the worker panics at `merkle.rs:52`.  RocksDB answers an error instead,
  which is why `TreeHasLeaf` holds.
* After an unreadable counter the next insert takes number one again
  (`rocks.rs:43`) and overwrites a batch; then `AcceptedMeansCommitted` does not
  hold.  `CounterReliable` excludes it from the other proofs, `CounterFaults` from
  most runs; `NumbersDense`, in `demo_client`, is what remains.
* `verify_multi_proof` does not ask that each digest was consumed
  (`merkle.rs:204`); `OnlyItsLeavesAccepted` speaks of as many leaves as slots.
  The order of the two nodes of a pair is not fixed either, for digests are of
  sorted pairs; the extracted layer has a target before its sibling.  Batches
  cut by the timer have trees of another height, so the layers of two batches
  need not correspond (`merkle.rs:137` speaks of identical shapes).
* The update guest reads as many proof nodes as there are items
  (`update.rs:24-35`), so it proves only batches whose multi-proof has that many;
  `OnlyZeroUpdatesProven` states that, too, of the batches its digests leave.  It commits nothing to its journal, while
  `StateVerifier.sol` decodes roots from the journal; the two are not joined yet.

## 7. What is left

When host and contracts are joined to the sequencer in the code, a
composition of `DemoClient`, `ProverGuests` and `ValidiumRoots` is the next model.

Proofs that would say more than the present ones: `TypeCorrect`,
`ErrorIsWithoutEffect`, `NothingCommittedTwice` and `ReportsHold` without
`CounterReliable`, with the numbering facts of the invariant (`StoreInv`, `Copies`)
required of a readable counter only; and a refinement of the whole process, with
its crashes, to a `LeafStore` that may forget the calls it is serving.
