# tap-ldk: verification of the asset-channel state machines

tap-ldk carries Taproot Assets over Lightning channels of a rust-lightning
fork. The crate `src/crates/tap-ldk-core` holds the program's own logic as a
set of stores, each a value in memory with operations, a `validate`, and a JSON
file that `save_atomic` replaces by writing a temporary file and renaming it.
`src/crates/tap-ldk-cli` exposes them as one-shot commands. This directory
models those stores in TLA+, checks them with TLC and proves the most important
facts with TLAPS.

## 1. The system

| Component (crate file) | State it keeps | Operations | What is hard |
|---|---|---|---|
| Asset commitment store (`asset_commitment.rs`) | per channel: balances, commitments by number, revoked numbers, used nonces, monitor blob, chain of proof-history outputs | `initialize_channel`, `build_commitment_update`, `apply_update`, `save_atomic`, `load` | stale and repeated requests, crashes before a save, checks after the point of acceptance |
| Proof-history replay (`proof.rs`) | none between calls; three maps during one | `ProofHistoryEngine::replay_with_anchor_policy` | order of records, three maps that must agree, conservation over a long history, anchors |
| RFQ quote store (`rfq_quote_store.rs`) | quotes, live aliases, used replay domains, real SCIDs | request, accept, reject, expire, authorize, register SCID, save, load | operations that fail after they changed the store, reuse of domains and aliases |
| CLI (`main.rs`) | none; every command loads, changes, saves and answers | `rfq-*`, `wallet-*`, `channel-*`, smoke commands | no lock, one temporary file for all, kills |
| Native payment (`asset_payment.rs`, `rfq_invoice.rs`) | payments by id | `send_native_asset_payment`, `record_payment` | four stores changed one after the other without a transaction |
| HTLC store (`asset_htlc.rs`) | HTLCs by id with status | add, settle, fail | duplicate ids after the commitment moved |
| Wallet (`wallet.rs`) | proofs, spendable outputs, anchors | imports, anchor updates, transfer, courier bundles | re-import of spent proofs, reorged anchors |
| Channel funding, negotiation (`asset_channel_funding.rs`, `asset_channel_negotiation.rs`, `asset_channel_boundary.rs`) | funded channels, spent funding proofs | fund, negotiate | an output spent twice through two stores |
| Close (`asset_close.rs`) and recovery (`asset_recovery.rs`) | closes; checkpoints | cooperative close, record, recover | close of a channel that goes on, stale checkpoints, lost branches |
| On-chain lifecycle (`onchain_lifecycle.rs`) | reports of events, observations, callbacks | build, observe, bind to a chain snapshot | three layers that refer to each other and repeat each other |
| Peer messages (`asset_peer_message.rs`, `tlv.rs`) | chunks received | encode, decode, `ProofReassembler::push` | lost, repeated and reordered chunks |
| Live peer (`live_peer.rs`) | two threads and a TCP connection | payment session, one-message smoke | timeouts, failures between any two frames |
| Proof files and courier (`proof.rs`, `proof_courier.rs`) | none | encode, decode, verify, bundle | what a courier does to a bundle on its way |
| Taproot Asset algebra (`mssmt.rs`, `taproot_commitment.rs`, `tap_vm.rs`) | trees | insert, delete, prove, compress; commit; validate a transition | empty and zero-sum nodes, x-only keys, order of witnesses |
| Lightning Labs interop (`lightning_labs_*.rs`) | funding states, payments in both directions | read blobs, exchange an RFQ request and accept, pay | a quote used up before the exchange is checked |
| Live harness | see `PROJECT.json` | | I/O |

How they interact: a channel that funding has stored enters the commitment
store (`initialize_channel`); the commitment store replays its own records
through the proof-history engine on every validation; a payment asks the RFQ
store for a quote, accepts and uses it, moves the commitment, adds and settles
an HTLC and records a payment; a close reads the commitment state; recovery
compares checkpoints with all of them. All calls are synchronous and each store
is owned by one process at a time, except that CLI commands share files.

## 2. Modules

| Module | Models | Role |
|---|---|---|
| `AssetCommitment` | `asset_commitment.rs` | the store, its requests in flight, its file and crashes |
| `CommitmentLog` | nothing in the code: what the store promises | abstract specification, implemented by `AssetCommitment` |
| `AssetCommitmentProofs` | | theorems about `AssetCommitment` |
| `ProofHistory` | one `replay_with_anchor_policy` call | component |
| `ProofReceiptProofs` | | theorems about `ProofHistory`, `ProofReassembler` and `TapVmCase`: what a receiver of proofs does |
| `FiniteSums` | | lemmas about sums over finite sets and lists, used by four modules of proofs |
| `RfqQuotes` | the operations of `RfqQuoteStore` on a store value | operators, used by the models below |
| `RfqQuotesProofs` | | lemmas about `RfqQuotes`, used by the proofs below |
| `RfqQuoteStore` | one process that holds the store | component |
| `RfqCli` | the `rfq-*` commands as processes over shared files | composition |
| `RfqProofs` | | theorems about `RfqCli` and about `LightningLabsPayment`, which extends `RfqQuoteStore` |
| `NativePayment` | `asset_payment.rs`, `asset_htlc.rs`, `rfq_invoice.rs` over instances of `RfqQuotes` and `AssetCommitment` | composition |
| `NativePaymentProofs` | | theorems about `NativePayment`, with the lemmas of `RfqQuotesProofs` and `AssetCommitmentProofs` |
| `ProofChunks` | `ProofChunk::split`, `ProofReassembler::push` on a reassembler value | operators, used by the next two |
| `ProofReassembler` | one reassembler and what arrives | component |
| `PeerMessages` | the messages of `asset_peer_message.rs` and their streams of records | operators |
| `ChannelNegotiation` | `asset_channel_negotiation.rs` | operators |
| `PeerSession` | the two sessions of `live_peer.rs`: two threads, one connection | composition |
| `ProofFiles` | proof files, their verification, courier bundles | operators |
| `Wallet` | `wallet.rs` and the `wallet-*` commands: several wallets that exchange proofs | component |
| `TapVm` | the transition and root that funding builds | operators |
| `ChannelFunding` | `asset_channel_funding.rs`, beside the wallets | composition, extends `Wallet` |
| `ChannelFundingProofs` | | theorems about `ChannelFunding` and its wallets |
| `AssetClose` | `asset_close.rs` over the commitment store | composition, extends `AssetCommitment` |
| `AssetRecovery` | `asset_recovery.rs` | extends `AssetClose` |
| `OnchainLifecycle` | the reports of `onchain_lifecycle.rs` | operators |
| `ChannelLifecycle` | the life of a channel to its last report | composition of the three above |
| `ChannelLifecycleProofs` | | theorems about `ChannelLifecycle`, with the lemmas of `AssetCommitmentProofs` and `FiniteSums` |
| `LightningLabsFunding` | the blobs and the state built from them | operators |
| `LightningLabsRfq` | RFQ request and accept, their encoding and checks | operators |
| `LightningLabsPayment` | payments over the quote store | composition, extends `RfqQuoteStore` |
| `Mssmt` | `mssmt.rs` | operators |
| `TapCommitment` | `taproot_commitment.rs`, and one tree that is changed | component |
| `TapVmCase` | the transition validation of `tap_vm.rs` | component, extends `TapCommitment` |
| `MC...` | | small instances for TLC; `MCProofReceipt` puts those of `ProofHistory`, `ProofReassembler` and `TapVmCase` side by side, a behaviour being one of the three |

### AssetCommitment

`mem` and `disk` are the store in the process and in the file; a BTreeMap is a
function on its present keys. `requests` holds every update request ever built:
nothing ties a request to the snapshot it was built on, so the model lets the
store receive any of them at any later time, again, or after a restart.
`saving` is the window between writing the temporary file and the rename; a
temporary file is never read, so its content needs no variable.

Actions are the public operations. `Valid` is `validate`, including the replay
of the channel's proof history (`HistoryExplains`: each commitment spends its
predecessor's output and the recorded latest output is the last one; the
replay engine itself is `ProofHistory`). `UpdateAccepted` is `validate_update`.
Digests, the virtual transaction and signatures are functions of the fields
they hash, so a signature check is the comparison of `signed`, what the builder
hashed, with what the store recomputes. `validate` runs on the changed copy and
the copy replaces the store only if it passes, which is why a refusal is simply
a step that is not taken.

### ProofHistory

One behaviour is one call. The caller's list of records is chosen step by step
from `Records`; `policy` is the anchor policy of the call. Field-level checks
(non-empty ids, syntax of an outpoint, the single-leaf root) depend on the
record alone and are its field `wellFormed`. An error returns nothing, so
`RefuseRecord` empties the maps. The call ends by returning, hence
`CHECK_DEADLOCK FALSE`.

### RfqQuotes, RfqQuoteStore, RfqCli

`RfqQuotes` splits every operation the way the code does: checks that return
before anything changed (`...Allowed`) and the change itself. The closing
`self.validate()?` does not undo the change, so `RfqQuoteStore` keeps the
changed store whether or not it is `Valid`, and `Save` alone insists on it.
A quote's id is what it binds; the oracle's price follows from the request.
`SeedOf` stands for the hash alias allocation starts from.

`RfqCli` gives each command a program counter: load, operation, open the
temporary file (which truncates it), write it, rename it, print. Paths are
inodes, so that what two writers of the same temporary file do to each other is
what a file system does. `Exit` is both an error exit and a kill at any point.
A command whose operation returns Err exits before it saves, so only valid
copies go on. `ReinitAllowed = FALSE` assumes that nobody runs
`rfq-store-init`, which overwrites whatever is there, on a store in use.

### NativePayment

`mem` and `disk` hold the four stores a payment touches. The quote store's
operations are those of `RfqQuotes` and the channel states and updates those of
`AssetCommitment`, by INSTANCE. A payment is one synchronous call on four `&mut`
stores, so it is one step; the `Send...` actions are told apart by where the
call ends, and each keeps what the call had changed by then. The failure modes
of `try_native_asset_payment_with_failure` are `Modes`. The timestamps inside a
call are its `now` plus fixed offsets, as in the code. `AddHtlc` and
`ResolveHtlc` are the HTLC store's own operations. No real SCIDs are registered,
so the quote store always validates.

Nothing in the code says in which order a caller saves the four files. If
`ordered`, it saves quotes, commitments, HTLCs and payments in this order and
makes no call between; a crash may fall between any two saves. Otherwise each
file is saved at any time. `Orders` says which kinds of callers a run has.

### ProofChunks, ProofReassembler, PeerSession

A proof is the sequence of its chunks' bytes and its own digest, so a digest
comparison is exact. `Pushed` keeps what `push` does before it returns an error:
a repeated chunk replaces the bytes and is then refused. `ProofReassembler`
pushes any chunk its peer sends at any time, which is one set of `Peers`;
`first` and `output` are history.

`PeerSession` has one action per blocking step of each thread and runs either
the one-message smoke or the payment session (`session`). Messages are encoded
to streams of records sorted by their types and decoded again. `toServer` and
`toClient` are the two directions of the TCP stream. `ClientFails` and
`ServerFails` are a read that gives up (timeout, or end of stream once the other
thread has returned) and a frame that is not the expected one. `ServerCannotWrite`
is a write to a client that has left. After its last write the server is in
`finish`: it builds its report and returns, and the client, which has read
everything by then, waits for it in a `join` without a timeout. `disturbed` is
history: some read gave up on a peer that was alive, or connecting failed. In
the hello the server negotiates with the feature bits the client sent. What the
fork adds to a negotiation is marked external in the map.

### ProofFiles, Wallet, ChannelFunding

A proof is the record of its fields and its own digest. `Wallet` has one action
per operation. An operation returns a wallet and whether it returned Ok
(`Return`, `Refuse`): an import that fails its last comparison has changed the
wallet, and the model keeps the change. `tlvs` are the proof files that leave a
wallet, which anybody may import or put into a channel at any later time;
`made` and `spends` are history. `Delivered` is what a courier may make of a
bundle: one with another anchor state, without its tapd file, with another
anchor under the digest it was sent with, or one written anew. The digest is a
plain hash that travels in the bundle, so a courier that writes a proof of its
own (`Rewritten`) and recomputes header, history and digest has written a valid
bundle; its proof counts as brought in from outside, like that of a tapd file.
`HeldWasMade` says what the digest does protect: a bundle altered without
recomputing it brings in no other proof.
`SendLocalTransfer` may crash after the receiver's proof is written and before
the wallet is saved. The input is then still spendable beside the proof that
spends it, although INVARIANTS.md:508-509 says that no such state is reachable:
the finding of `wallet_spent_spendable`.

`ChannelFunding` adds the channel store. Neither store knows of the other, as
in the code: a proof that funds a channel stays spendable in its wallet.
`FlowConserved` states, for every behaviour, what that costs: the excess of what
wallets present as spendable and channels hold over what was brought in is at
most `Reused`, the worth of the proofs used more than once (spendable although
transferred or in a channel, transferred and in a channel, transferred again).
No other path creates value. `ChannelsBacked` asks for two disjoint sets of
proofs, one for each side. The optional `expected_funding_root` of a request, an
additional refusal, is left out; only tests set it.

### AssetClose, AssetRecovery, OnchainLifecycle, ChannelLifecycle

The chain of modules extends `AssetCommitment`, so updates, saves and crashes of
the commitment store interleave with closes and checkpoints. A close is built
from the state in memory (`drafts`), recorded at any later time (`closes`) and
its proofs are imported by the sides' wallets (`claimed`), which survive a
restart; the close store is in memory only. A close recorded after the channel
has moved on pays what its own number held (`ClosePaysCommitted`);
INVARIANTS.md:249-250 asks for the latest commitment, which `record_close` does
not compare with: the finding of `channel_close_late`. `Replay` folds the
records of a close through the rules of the replay engine that these records
meet. A checkpoint carries, as history, whether its state had reached the file
(`safe`). The quote, HTLC and payment files are saved apart from the commitment
file, so a recovery may meet each of them absent, without the record the
checkpoint refers to, or with it (`Holdings`), and is refused with the name of
what is missing.

`RunLifecycle` is the last part of `run_onchain_lifecycle_smoke`: it needs all
that `require_lifecycle_evidence` asks for, and builds the event report. The
smoke takes its close and its recovery from two stores of their own; here the
close is any that is recorded and the recovery is of the memory or of the file,
which may stand at another commitment. `LifecycleReportsBuild` is stated for
recovered channels that have been updated: the stale ownership of a channel at
number 0 is at `saturating_sub(1)`, which is 0 again, and so is not refused. The
BTC-only restart is a state written and read back (`SkippedFields` are the
fields serde leaves out: none). `Observe` adds a watcher's observation in any
kind, source and anchor state to it if the observation report with it is
accepted. Callback reports are a function of the observations and a chain
snapshot and are evaluated in the properties; `LifecycleReportsBuild` asks for
an accepted one for every valid snapshot.

### LightningLabsFunding, LightningLabsRfq, LightningLabsPayment

A payment starts from a pair of blobs. If they decode and agree, their report
gives the channel's asset and balances; each payment is against that report, as
in the code. The quote store is the whole of `RfqQuoteStore`, whose operations
interleave with payments. `Settle` uses the quote first and keeps it used
whichever later check refuses. The rate is the integer the code computes;
`RateExact` is its refusal of a remainder.

### Mssmt, TapCommitment, TapVmCase

A tree keeps its levels as the code does, rebuilt by every change; a hash is
what is hashed, so a node's identity is its content. `Levels` stands for 256.
`KeyOf` stands for SHA-256 on the few values it is taken of and is an
injection. A script key has a parity, a group key is its x coordinate only.
`TapVmCase` builds a case piece by piece, in every order of
witnesses and inputs, and evaluates `validate` in the property. Signatures are
shapes, as in the code, which does not verify them.

## 3. Runs

| Run | Instance | Shows |
|---|---|---|
| `commitment_store` | 2 channels, 3 nonces, amounts to 3, 3 requests | stored balances are signed ones, in range and conserved; an accepted update always commits; the revocation chain; the file only grows; the store implements `CommitmentLog` |
| `proof_receipt` | one of: 2 proofs of 3 chunks that share pieces, every chunk with any one field wrong, or 1 clean proof of 6 chunks; trees of 3 levels and 3 leaves, lists of 3 of 7 assets, cases of 2 inputs, witnesses and splits; 21 records, 2 assets, 2 anchors, all policies | one output at most, the announced proof, and a clean proof eventually; proofs are exact, outputs bind their assets, accepted transitions are authorized and conserve; the replay's maps agree, linear histories conserve, ancestry is anchored and of one asset |
| `proof_history_double_spend` | the same records | finding: an output consumed by two records of a history |
| `rfq_cli` | 1 command at a time, killed anywhere | one authorization per quote, durable before it is printed |
| `payment` | 1 channel funded 2/1, quotes for 1 and 2 of its asset and 1 of another, 2 domains, hashes and nonces, 2 calls, both kinds of callers | no other terms than the quote's reach a store; with ordered saves, one HTLC per quote, every payment backed by its own commitment and a settled HTLC, every store saveable, a failed call moves nothing |
| `payment_retry` | the same, saves at any time | finding: a retried payment moves the balance, then fails |
| `session` | both sessions, 7 chunks per proof as in the smoke test, 19 messages, every timeout, failure and hang | an undisturbed session completes; the server ends even if the client hangs; the client ends unless the server hangs after its last write |
| `ll_payment` | 2 deals, 2 domains on one alias seed, a real SCID, times before, at and after the expiry, 9 pairs of blobs of which one is good | the quote store's indexes, aliases and used domains; the exchange and the quote agree but for one second; a request names its deal; no quote is burnt in time |
| `wallet_funding` | 2 wallets, 1 issued and 1 foreign asset, 3 proofs, 1 proof a courier writes, 2 channels, anchors that are reorged | stores stay loadable, an altered bundle brings in no other proof, a refused import changes no balance, channels are backed, the excess over what was brought in is what was used twice |
| `wallet_spent_spendable` | the same | finding: a spent proof that is still spendable after a crash |
| `channel_lifecycle` | 1 channel funded 2/1, 2 updates, crashes, 2 of closes, claims and checkpoints, 2 observations in 5 anchor states, 4 snapshots | see `ChannelLifecycle` and the properties' comments |
| `channel_close_late` | the same | finding: a close that pays a superseded commitment |

Further counterexamples, each from a cfg of the table with its properties replaced:

- `MCAssetCommitment.cfg` with `INVARIANT PersistedFlagTruthful`: the monitor
  blob says `persisted: true` for a commitment that is in no file, while
  INVARIANTS.md:203-204 asks for the blob to be written first;
- `MCLightningLabsPayment.cfg` with `INVARIANT ReleasedAliasRegistrable`: a
  terminal quote's alias, released according to docs/rfq-quote-store.md:48,
  cannot be registered as a real SCID without leaving a store that no longer
  validates;
- `MCRfqCli.cfg` with `Procs = {p1, p2}`, `INVARIANT AuthorizedOnce` and no
  deadlock check: two `rfq-authorize-htlc` commands at a time both print an
  authorization for one quote.

Why the bounds are enough. Two channels show that an update of one leaves the
other alone, and one channel with an empty side shows underflow at zero. Three
requests give a request that is applied, one that is stale, one that competes
for the same number, and one that comes back after a crash; commitments of
different numbers differ in nothing else. `U64Max = 3` is the total, so that
overflow is adjacent to ordinary balances (4, one more, in the payment runs).
Nonces are symmetric in `commitment_store` (no constant names one). The record
catalogue carries an asset through every transition kind on two competing
branches and adds one record for each way to be refused. For RFQ, two domains
and two probes give a collision of aliases and its resolution; the times are
before, at and after the expiry. Domains are symmetric in `ll_payment`. A
payment uses up a domain, a nonce and a hash, so two calls give a payment and
its retry, or two payments that compete for the balance, the nonce or the
domain; domains, hashes and nonces are interchangeable. Three proofs and two
wallets give an issuance and a transfer with change that meet again in one
wallet, and a proof that is both sent and put into a channel; issues of 0, transfers of 0, of
a part and, for the proof a courier wrote, of the whole, and `U64Max = 4` are the
edges of amounts. Two artifacts of a
channel are two closes of different commitments, a close and its claim, or a
checkpoint and a close, each with a crash between; the close keys include two
sides with the same key. Two observations are two of one event or of two. Three
levels give a tree in which a leaf has empty, single and full subtrees beside
it, and three leaves fill one of them.

Named bounds: `MaxRequests`, `U64Max` (`MaxSum` in the trees), `MaxProbes` (10
000 in the code), `MaxGrants` (printed authorizations counted), `MaxCalls`
(calls of a payment or HTLC operation), `MaxMade` (proofs), `MaxInputs` (proofs
per side of a funding), `MaxChannels`, `MaxArtifacts`, `MaxObservations`,
`MaxQuotes`, `MaxPayments`, `MaxOutputs` and `MaxHtlcs` (2048 and 483 in the
code), `Levels` (256), `MaxLeaves`, `MaxAssets`, `MaxVmItems`.

Fairness. The stores are passive: nothing in the code obliges a caller to save,
retry or expire, so no fairness and no liveness is stated for them. A
reassembler is fed by a sender that sends every chunk over a reliable stream:
weak fairness of each `Push` of the clean peer. The two threads of a session are
scheduled by the operating system; each liveness property of a session names, as
its premise, the threads that keep running (weak fairness of a thread's next
step), and `ThreadsEnd` names, for each thread whose end it claims, that thread
only. A server that hangs after its last write holds the client in `join` for
ever (`JoinsHungServer`); with both threads running the client always ends.
`accept` has no timeout, hence the server's part starts at the connection.
Sessions end, so deadlock is not checked there; that no wait is mutual is
`SessionCompletes`.

## 4. Proofs

A theorem holds for every value of the constants that satisfies the named
assumptions of its modules, and without the bounds of the runs. TLC checked the
inductive invariants on the small instances first. The proofs about the quote
store do not use the closing `validate` of its operations, since a failing one
undoes nothing and the process goes on with the changed store.

### The commitment store

`AssetCommitmentProofs`, from `FundingAssumption` and `UpdateAssumption` (u64
amounts, a checked and non-zero total, a reserved nonce for funding):

- `TypeCorrect`: `Spec => []TypeOK`;
- `RevocationChainInvariant`: `Spec => []RevocationChain`;
- `DurableAppendOnly`: `Spec => DurableHistoryAppendOnly`;
- `AcceptedUpdatesCommit`: `Spec => []AcceptedUpdateCommits`;
- `BalancesSigned`: `Spec => []SignedBalancesApplied`;
- `StoreImplementsLog`: `Spec => ImplementsLog`, the refinement of `CommitmentLog`.

The inductive invariant `IInv` says that every channel of both stores is *good*
(typed, balances add up, the chain of numbers and revocations has its shape),
that requests are typed, and that memory continues disk: it has every durable
channel, with every durable commitment, revocation and nonce unchanged. The last
part is what makes the action property provable: a rename then replaces the file
by a continuation of itself. Goodness is needed for it because appending at
number + 1 rewrites nothing only if the numbers below are exactly 1 .. number.
`Updated` preserves goodness (`UpdatedIsGood`) and continues its argument
(`PutContinues`, `ExtendsTransitive`).

`AcceptedUpdateCommits` adds that the memory has been validated (`MemoryValid`)
and that `validate` accepts what an accepted update makes of a valid state
(`UpdatedIsValid`): with the chain gapless, the last stored commitment is the
one at the latest number, so the replayed history stays explained.
`SignedBalancesApplied` needs the file to be signed too, because a restart makes
it the memory (`SignedInv`). The refinement maps a channel to the list of its
balances, funding first; each step opens, appends, persists, falls back or
stutters.

### Sums

`FiniteSums` proves what the other modules need of the fold that adds up the
values of a function over a finite set: sums of nothing, of one element more
or less (`SumEmpty`, `SumAdd`, `SumRemove`), of disjoint sets (`SumUnion`), of
equal or smaller terms (`SumAgrees`, `SumMonotone`), of the same terms at other
places (`SumReindex`) and of sums (`SumOfSums`). A fold is defined by recursion
on the size of the set; the value of the sum at each size is fixed by
`NumberInduction`, an induction over a set of numbers, which the provers can
instantiate and which is proved here from the well-foundedness of `<`.

### Receiving proofs: the replay engine and reassembly

`ProofReceiptProofs`, from `RecordAssumption`:

- `ReplayTypeCorrect`: `Spec => []TypeOK`;
- `ExplainsOnlyUnspent`: `Spec => []ExplainedIffUnspent`;
- `LineageAccepted`: `Spec => []AncestryAccepted`;
- `LinearReplayConserves`: `Spec => []LinearHistoryConserves`.

The type invariant is the strengthening: whatever a record consumes was made
before, so an output has no consumer when it is made (`ConsumersAfterRecord`)
and later gets one only in a step that takes it out of the explanations. The
finding about double spends does not contradict this: a record may consume an
output a second time, since its state as made is what is looked at, but that
does not make it spendable again. `LInv` adds for conservation that, while no
output has been consumed twice, what is explained of an asset adds up to what
was issued of it; an accepted record then consumes explained outputs only
(`LinearConsumesExplained`), and its balance check moves as much in as out
(`RecordConserves`).

From `ChunkAssumption` (a digest is not the empty one, indices and counts are
naturals):

- `ReassemblerTypeCorrect`: `ReassemblySpec => []ReassemblerTypeOK`;
- `ReturnsAnnouncedOnce`: `ReassemblySpec => []OutputIsAnnounced`.

`RInv` adds that a returned proof is the announced one and that the reassembler
then holds every index below the announced count. A set of that many indices
below it is all of them (`FullHoldsAll`), so no index is ever new again and
nothing is returned a second time.

### Receiving proofs: trees, outputs and transitions

`ProofReceiptProofs` again, from `MssmtAssumption`, `TapCommitmentAssumption`
(leaves are leaves with a u64 sum; the hash that makes keys, `KeyOf`, has no
collision), `AssetsAssumption` (the keys of an asset are keys, its amount is a
u64) and `TapVmCaseAssumption` (the asset of a case starts without witnesses):

- `ProofsStayExact`: `CaseSpec => []TreeProofsExact`;
- `OutputsStayBound`: `CaseSpec => []OutputsBindAssets`;
- `TransitionsConserve`: `CaseSpec => []AcceptedTransitionsConserve`.

The levels of a tree are a function defined by recursion; what it is at each
level follows from its defining equation, once such a function is shown to exist
(`LevelsExist`). A level leaves out what is the empty subtree's node, and
reading it puts that node back, so above the leaves every node is the branch of
its two children, stored or not (`NodeIsBranch`). Going up from a leaf, each
node that `root_for` makes is therefore the tree's node at that prefix
(`ProofVerifies`). A node's hash is of its children's hashes and sums, and the
sum of a node is in its own hash (`NodesAreNodes`), so equal roots go back, level by
level, to equal leaves (`RootBindsLeaf`, and `RootBindsLeaves` for whole trees).
`CompressionExact` shows that counting the clear bits finds each kept sibling
again; `NodeSums` that a node's sum is that of the leaves under its prefix.
`TreeInv`, the inductive invariant, says that the tree is the one of its leaves.

An output's root names the root of the tree of asset commitments, and each leaf
of that tree the root of one commitment; the leaf of an asset is at its own key,
so a list with the same root holds it too (`RootBindsAsset`), and lists of the
same assets have the same trees (`SameAssetsSameTrees`). The theorem is about
lists of any length and, as the property is, the lists that differ from it in
one asset or in their order.

For transitions, `InputsValid` asks for one valid witness of each input. Distinct
inputs have distinct witnesses, and there are as many of the one as of the other,
so every witness was checked (`AllWitnessesChecked`, the pigeonhole of
`FS_Injection`). `validate` compares the sum of the splits' keys with the inputs';
each split's asset has its key's amount (`OutputsWorthInputs`).

### Quotes, the commands that use them, and payments

`RfqQuotesProofs` holds the lemmas about the operations on one store value. It
calls a store *good* when it is well-formed, its indexes are exact, no live
alias is real and no live quote's domain is used, and shows that each
operation's early returns keep it good (`RegisteredIsGood`, `RequestedIsGood`,
`AcceptedIsGood`, `TerminatedIsGood`, `AuthorizedIsGood`). `AliasesAreNotReal` is
left out: it is the part of `Valid` that `register_real_local_scid` does break.
Open domains are what keeps `authorize_asset_htlc` from displacing an entry and
`request_quote` from turning a used quote into a requested one. That the probing
loop finds a least free alias (`LeastExists`) is by the well-foundedness of < on
the naturals.

`RfqProofs`, from `QuoteAssumption`:

- `QuoteStoreTypeCorrect`: `Spec => []TypeOK`;
- `IndexesStayExact`: `Spec => []IndexesExact`;
- `LiveAliasStaysDistinct`: `Spec => []LiveAliasNeverReal`;
- `UsedStaysFinal`: `Spec => UsedIsFinal`.

Both stores are good and memory continues the file's used domains, which
`UsedStaysFinal` needs at a save.

The same module, from `InodeAssumption` (an absent path is no inode) and three
hypotheses stated in each theorem: commands run one at a time (`OneAtATime`),
the content of a torn file is not a store (`TornIsNoStore`), and nobody runs
`rfq-store-init` on a store in use (`~ReinitAllowed`):

- `QuoteAuthorizedOnce`: `CliSpec => []AuthorizedOnce`;
- `GrantsAreDurable`: `CliSpec => []AnswersDurable`.

Section 3 names the counterexample that shows the first hypothesis is needed. `CliInv`
follows one command through load, operation, create, write, rename and print: the
temporary path never names the file's inode, so the file is whole at every
point where the command may be killed; the command's copy continues the file's
used domains; and a quote about to be granted is used in the file and has not
been granted.

Still `RfqProofs`, about the payments of `LightningLabsPayment`:

- `PaymentsKeepStore`: `LLSpec => []IndexesExact /\ []LiveAliasNeverReal /\
  UsedIsFinal`;
- `ExchangeWithinQuote`: `LLSpec => []HandshakeWithinQuote`;
- `RequestBindsDeal`: `LLSpec => []RequestNamesDeal`;
- `PaymentsInTimeAreRecorded`: `LLSpec => NoQuoteBurnt`.

The first rests on the invariant of the store, which a payment keeps since it
changes the quotes by `authorize_asset_htlc` alone. The others have hypotheses
on the instance, which `MCLightningLabsPayment` assumes and TLC evaluates:
`DealTerms` (amounts are positive and fit a u64), `WholeRates` (the deals have a
rate without remainder, the only ones the code does not refuse),
`NoBitcoinDeals`, `DealFields` (a deal is its fields), `BlobAmounts` (balances
in a blob are naturals), `AbsentIsNoValue` (a missing record is not a value).
The arithmetic is that of a whole rate: amount times rate gives the price back
exactly, so the exchange compares equal numbers and a request's maximum and rate
together determine both amounts.

`NativePaymentProofs`, from `FundedAssumption` (u64 amounts and checked totals at
funding), `PaymentAssumption` (quoted amounts are positive and fit a u64) and
`QuoteAssumption` (times and SCIDs are naturals, a seed for every request):

- `TermsAreTheQuotes`: `Spec => []TermsOfQuote`, whatever the order of the saves;
- `HtlcsUseTheirQuotes`: `Spec => []OneHtlcPerQuote`;
- `PaymentsStayBacked`: `Spec => []PaymentsBacked`;
- `FailureLeavesState`: `Spec => FailedCallLeavesState`.

The last three are about callers that save in order (`payment_retry` shows that
others break them). `OrderedInv` ties the four stores together: in memory and on
disk they are good and every HTLC's quote is used in the quotes beside it
(`StoresGood`), memory continues each file (`Continues`), and the files already
written in a round equal memory (`RoundInv`). So a quote taken afresh has no
HTLC and no payment, and the checks after the first change of a call cannot
fail; and a crash between two saves leaves files each of which was written no
later than what it depends on.

### Wallets and funding

`ChannelFundingProofs`:

- `HeldProofsWereMade`: `FlowSpec => []HeldWasMade`;
- `RefusedImportsLeaveBalances`: `FlowSpec => []RefusedImportLeavesBalances`;
- `StoresStayLoadable`: `FlowSpec => []StoresLoadable`;
- `ChannelsStayBacked`: `FlowSpec => []ChannelsBacked`;
- `FlowStaysConserved`: `FlowSpec => []FlowConserved`.

The inductive part (`WInv`) says that every proof a wallet holds, and every one
that left a wallet in a file, was made and that each wallet passes its own
validation (`GoodWallet`). A bundle under the digest it was sent with carries the
proof it was sent with (`ArrivingIsMade`); one that a courier wrote anew brings
in a proof, which `made` counts. `StoreValid` of the channel store is inductive
by itself.

The last two theorems are about values, and have one hypothesis, which TLC
evaluates on the instance: no asset is the absent value (`AssetsPresent`).
`ChannelInv` gives each side of a channel the list of made proofs that it put in,
each with an id of its own, and `StoreValid` keeps the two sides apart, hence
`ChannelsBacked`; a proof, not its id, is what is counted, so two files that name
one outpoint with different amounts do no harm to the statement.
For conservation `MadeInv` says that what was made and what was transferred is
finite, that a transfer is of made proofs into made proofs, and that the
offspring of all transfers are worth, asset by asset, no more than the transfers
took (`Transferred`). What is made is origins and offspring; so what wallets hold
and channels hold is at most the origins and what was transferred, and
each proof counted more than once on the way is a term of `Reused`.

### Closes, checkpoints and reports

`ChannelLifecycleProofs`, from the assumptions of the commitment store,
`CloseAssumption`, `AnchorAssumption` (the anchor outpoint of a close is neither
absent nor malformed) and `OwnershipAssumption` (a recovered ownership is not
the absent value):

- `ClosesPayCommitments`: `LifecycleSpec => []ClosePaysCommitted`;
- `ClosesClaimable`: `LifecycleSpec => []CloseClaimable`;
- `ObsoleteProofsRefused`: `LifecycleSpec => []ObsoleteProofRefused`;
- `SafeCheckpointsRecover`: `LifecycleSpec => []SafeCheckpointRecovers`;
- `ObservationsCount`: `LifecycleSpec => []ObservedCounts`;
- `CallbacksCover`: `LifecycleSpec => []CallbacksCoverObservations`;
- `ClosesNeverStuck`: `LifecycleSpec => []CloseNeverStuck`;
- `ReportsBuild`: `LifecycleSpec => []LifecycleReportsBuild`.

Every lifecycle step is a step of the commitment store or leaves it alone
(`LifecycleStepIsStoreStep`), so `IInv` and `SignedInv` hold here. A store that
continues another holds every balance the other held, at the same number
(`ContinuationHolds`). Memory only continues itself until a restart, and a
restart drops all closes, so a close keeps paying what its number holds
(`CloseInv`), which is what the code promises: the latest commitment is refuted
by `channel_close_late`. The file continues itself always and memory continues
the file, so a checkpoint of a durable state stays true of both
(`CheckpointInv`); whether it recovers is then up to the three other files
alone. Claims survive a restart: they are told apart by their anchors, which
carry all the parts of a close proof. The properties of reports follow from the
validity of the report accepted last (`ReportInv`) and the tables of kinds.

The replay of a close's records is a function defined by recursion on the
list's length. The lists have a fixed shape: the records of the channel and the
two of the close, or one more for recovery. So the tables after each record are
computed in turn (`PriorTurns`, `CloseReplays`, `RecoveryReplays`), once for
each of the transition kinds (`OneOutputTurn`, `TwoOutputTurn`), and no
induction is needed. `ReportsBuild` also needs that a recorded close stays
valid (`ClosesStayValid`), since its evidence is replayed again and its proofs
are read back by new wallets, and that the callbacks of a snapshot are one for
each observation of the derived report. It has one
hypothesis, `NoValueApart`: Rust's `None` is no id, digest or refusal. It
quantifies over all tuples, so TLC cannot evaluate it.

### What stays with TLC

- Liveness (`EventuallyComplete` of `proof_receipt`, all of `session`): the provers
  have no ENABLED.

The type invariants of proved modules are in no run: their theorems cover them.

## 5. Plan

Done: the models and runs of section 3, and the theorems of section 4, which
cover every invariant and every safety action property of the passing runs.
Left: the hazards that have no property (`PROJECT.json` says why) and the parts
of section 6.

## 6. Not modelled

- JSON, hexdumps, lengths and BigSize integers of TLV streams, hashing and
  signature schemes: a digest or signature is what it is taken of.
- The rust-lightning fork (an external submodule): its negotiation, funding
  hook and allocation checks appear as the code here uses them, marked external.
- `live_litd_peer.rs`, `live_tapd_proof.rs`, `regtest.rs`, `ldk_baseline.rs`,
  `ldk_fork.rs`, `demo_scope.rs`: network and process I/O around external
  daemons, configuration and reports of them.
- `address.rs`, `virtual_psbt.rs`, the HTLC blob and the reject message of the
  Lightning Labs peers, and the parsing of tapd proof files: codecs without
  state that no modelled operation depends on; the wallet reads a tapd file's
  summary.
- `run_..._smoke` drivers that call modelled operations once with fixed values
  and fill in a report; error enums and their display; Kani harnesses.

`PROJECT.json` lists every component with its reason, and with a note each hazard
that no property covers. Three assumptions limit what the properties say:
`rfq-store-init`, which overwrites whatever is there, is not
run on a store in use; `CloseNeverStuck` is stated for channels with two
non-empty sides, because the code refuses a cooperative close of a channel one
side of which is empty; and the RFQ commands run one at a time in `MCRfqCli`
(section 3 says what two at a time do).
