# json-joy-rs in TLA+

TLA+ models of json-joy-rs: the JSON CRDT (clocks, the replicated growable array,
the nodes of a document, patches, snapshots, logs, the WASM session layer), JSON
Patch and operational transformation beside it, and the two libraries below it,
the ordered trees of sonic-forest and the formats of json-pack. TLC checks the
models on small instances; TLAPS proves the theorems on patch exchange, replicated
text, the chunks that implement it, logs and editing sessions, for every number of
sessions, operations, chunks and ticks (section 5).

Paths below are relative to `src/crates/json-joy/src/` unless they begin with
`src/`.

## 1. The system

A *document* is held by several *replicas* ("sessions", each with a session id).
A replica edits its own copy, which issues a *patch*: a list of operations, named
by consecutive logical timestamps. The embedding application carries patches (as
bytes) to the other replicas, which apply them. Nothing in the library opens a
connection, runs a thread or sets a timer: all concurrency is between replicas,
and all of the difficulty is that patches arrive late, again, and in different
orders, that a replica is forked from or reloaded into another, and that every
replica must nonetheless end with the same document.

| component | source | state | operations | used by |
|---|---|---|---|---|
| logical clocks | `json_crdt_patch/clock/mod.rs` | `sid`, `time`, entry per peer | `tick`, `observe`, `fork`, `compare`, interval tests | everything |
| patch and builder | `json_crdt_patch/patch.rs`, `patch_builder.rs` | operations, the builder's clock | one method per operation, `pad`, `flush`, `rewrite_time`, `rebase` | `ModelApi`, diff, WASM layer |
| RGA | `json_crdt/nodes/rga.rs` | chunks, position tree, id tree, links of split runs | `insert`, `delete`, `find_by_id`, `find_interval`, `push_chunk` | str, bin and arr nodes |
| nodes | `json_crdt/nodes/mod.rs` | con, val, obj, vec, str, bin, arr, root register | `set`, `put`, `ins`, `upd`, `delete`, `view`, `child_ids` | `Model` |
| model | `json_crdt/model/mod.rs` | root, node index, clock | `apply_patch`, `apply_operation`, `gc_tree`, `view` | `ModelApi`, `Log`, WASM layer |
| model API | `json_crdt/model/api.rs` | a model and a builder | edits by path, `apply`, `flush`, `merge` | applications, `Log` |
| structural codec | `json_crdt/codec/structural/binary.rs`, `json_crdt_patch/codec/clock.rs` | clock table | encode, decode | save, load, clone |
| patch codec | `json_crdt_patch/codec/binary/` | none | encode, decode | WASM layer |
| patch algebra | `patch.rs`, `batch.rs`, `compaction.rs` | none | `rebase`, `combine`, `compact` | WASM `merge_patches` does without |
| log, draft | `json_crdt/log.rs`, `draft.rs` | start model, patches, end model | replay, advance, undo, `rebase_batch` | applications |
| diff | `json_crdt_diff/mod.rs` | a builder | `diff` per node kind | `diffApply`, `merge` |
| other snapshot formats | `json_crdt/codec/{indexed,sidecar,structural}/` | clock table | encode, decode | save, load |
| WASM session | `src/crates/json-joy-wasm/src/lib.rs` | a model, `local_changes` | `api*` edits, `apiFlush`, `apiApply`, `diffApply`, `applyPatch`, `fork`, `toBinary`, `fromBinary` | web pages |
| JSON Patch | `json_patch/`, `json_patch_diff/`, `json_crdt/json_patch_apply.rs` | none, or a model | apply, codecs, validate, diff | applications |
| OT types | `json_ot/`, `json_patch_ot/` | none | apply, compose, transform | applications |
| json-pack | `src/crates/json-joy-json-pack/`, `src/crates/json-joy-buffers/` | writer and reader buffers | 27 encoders and decoders, streams | codecs, CLI |
| sonic-forest | `src/crates/sonic-forest/` | arena of nodes, root, min, max, size | ordered maps and their iterators | `Rga`, `Log` |
| the rest | path, pointer, expression, type, random, hashing, printing, CLI | none | pure functions | |

How they interact. A page's edit goes through `with_builder`: a builder that
starts at the model's clock collects operations; the patch is applied to the model
(`apply_patch` → `apply_operation` → the node), which observes each operation on
the clock; it is appended to `local_changes`. `apiFlush` joins these patches and
encodes them. A peer's `applyPatch` decodes and applies. Replaced subtrees are
collected at once (`gc_tree`). A save walks the document from the root and writes
timestamps relative to a clock table; a load rebuilds nodes and clock from it.

What is hard, and what makes it correct:

- **clocks**: a timestamp is issued once, whatever was observed, forked or loaded
  in between; timestamps extend causality. Everything else relies on both.
- **RGA**: insertions at the same place end in one order everywhere; a deletion
  hides exactly what its author saw, though the runs it names were split, merged
  or reloaded; an operation that arrives twice changes nothing.
- **registers**: root, val, obj and arr slots keep the latest write, not the last
  to arrive; collection of a loser never takes a node another write still shows.
- **snapshots**: a load gives the document that was saved, under the same ids.
- **JSON Patch**: the two implementations, on values and on a model, accept the
  same operations; a diff leads to its target whatever script it picks.
- **transformation**: two sites that transform against each other end alike; an
  operation shifted behind others does what it was made to do.
- **trees**: links, balance, cached ends and iterators survive every rotation.
- **formats and streams**: what is decoded is what was encoded, at the limits of
  every width, however the bytes arrive and after an encoder refused a value.
- **sessions**: what peers decode is what was applied here; an edit is never held
  by a document without a way to its peers.

`PROJECT.json` lists each hazard at the line where it bites.

## 2. Modules

    Clock ─┬─ Replication ── Replication_proofs
           ├─ WasmSession ── WasmSession_proofs
           ├─ TextOps ─┬─ TextCrdt ── TextCrdt_proofs ────────────┐ (instance)
           │           └─ RgaText ── RgaText_proofs ──────────────┘
           └─ Rga ─┬─ RgaText   (implements TextCrdt)
                   ├─ Rga_proofs ── RgaDeletes_proofs ── RgaText_proofs
                   ├─ Log ── Log_proofs  (with an instance of RgaText_proofs)
                   └─ Nodes ─┬─ BinarySnapshots ── JsonSnapshots ── Document
                             ├─ PatchOps ──┐
                             └─ Diff ──────┼─ Authoring
                                           └─ JsonPatch ─┬─ Patching
                                                         └─ Ot (with OtText)
    TreeLinks ── AvlTree, RedBlackTree ── SonicForest  (implements SortedList)
    PackValues ── CborMsgPack, OtherFormats, JsonFormats, SchemaFormats ── Pack ─┬─ Channel
    Frames ──────────────────────────────────────────────────────────────────────┘
    Facts: lemmas the proof modules share

| module | models | state ↔ code |
|---|---|---|
| `Clock` | `Ts`, `compare`, `ClockVector` | `[sid, time, peers]`; an absent peer is `NoPeer` |
| `Replication` | clocks and root register of many replicas | `clock` ↔ `Model::clock`, `root` ↔ `RootNode::val`; `applied`, `issued` are history: what arrived, what is in transit |
| `TextOps` | the operations on a str node and the bounds on them | |
| `TextCrdt` | what an RGA promises of its items (abstract) | `text`: list of `(id, live)` |
| `Rga` | `rga.rs` on the sequence of its chunks | chunk = `id, span, deleted, link` (`link` is the field `s`) |
| `RgaText` | replicas of one str node | `rga`, `time`; `Op` and `Items` map it to `TextCrdt` |
| `Nodes` | a document as a value: root, con, val, obj, vec, str, bin, arr, collection, and the edits of `ModelApi` | `root`, `index` ↔ `Model::root`, `Model::index` |
| `BinarySnapshots`, `JsonSnapshots` | clock tables and the five formats a document is saved in | what is written is a record; the decoder rebuilds `Nodes` and clock |
| `Document` | replicas of a document, edits, patches, loads | `doc`, `clock` ↔ `Model`; `applied`, `issued` are history |
| `Log` | histories: replay, advance, undo of text edits | `start` ↔ what `start_fn` returns, `patches`, `end` ↔ the fields |
| `PatchOps` | patch formats, `rebase`, `Batch::rebase`, `combine`, `compact` | pure |
| `Diff` | `JsonCrdtDiff` over every script a text or line diff may pick | pure, set-valued |
| `Authoring` | one session that keeps a `ModelApi` (its builder has a clock of its own) and a `Draft` | `api` ↔ the builder, `doc` ↔ head of the draft, `base` ↔ its base |
| `JsonPatch` | JSON Patch on values, its predicates, its diff; its three codecs and `validate` | pure |
| `Patching` | JSON Patch on a model; a value and a model that get the same patches | `json`, `model` |
| `OtText`, `Ot` | `ot_string` and its irreversible kin; JSON Patch OT and `ot_json`; two sites at work | composed edits of each site |
| `TreeLinks`, `AvlTree`, `RedBlackTree`, `SonicForest` | the containers of sonic-forest, link by link | `kid`, `up`, `mark`, `root`, `min`, `max`, `size`, the iterator |
| `SortedList` | what they promise (abstract) | the list of keys |
| `PackValues`, `CborMsgPack`, `OtherFormats`, `JsonFormats`, `SchemaFormats`, `Pack` | `PackValue` and 27 encoders and decoders (CBOR and its DAG and stable forms, MessagePack, UBJSON, Bencode, Ion, SSH, compression tables, JSON, BSON, EJSON, Avro, XDR, ONC RPC, RESP) | pure |
| `Frames`, `Channel` | `Writer`, `StreamingReader`, `StreamingOctetReader`; RM records and WebSocket frames; values on their way | the sender's writer, what is on the wire, the receiver's buffer |
| `Facts`, `*_proofs` | lemmas and theorems | |

The actions carry the code's names: `StrIns`, `StrDel` (`ModelApi::str_ins`,
`str_del`), `ApiSet`, `ApiFlush`, `DiffApply`, `ForkTo`, ... `Receive` is
`apply_patch` of what the application delivers and `Reload` is a save and a load.
An operator named after an operation (`SetRoot`, `Put`, `UpdArr`, ...) is the arm
of `apply_operation` with the node's method. Halves of the code that mirror each
other (the trees) are written once with a side as parameter.

Abstractions:

- *Timestamps are numbers as in the code; session ids are small.* 64-bit overflow
  is out of reach (2^53 ticks) and not modelled.
- *Chunk and constant content is dropped* where an item is named by its timestamp.
  A character is one item: UTF-16 widths are not modelled.
- *`Rga` uses the sequence and the map* that the splay and red-black trees in
  `rga.rs` represent. Its loops (`delete_span`, `merge_tombstones2`) are functions
  from the number of turns to the state of the loop; the number of turns they are
  given is one after which a comment at the definition says nothing is left.
- *Patches carry their causes* (`deps`): the application is assumed to hand a
  replica a patch only after those its author had applied. The library keeps no
  queue of early patches (an operation on a missing node is dropped), so without
  this assumption no replica converges; json-joy asks it of its users. Within it
  patches may be delayed, reordered and duplicated, as often as TLC likes.
- *The view cache* of the WASM `Model` is left out: node views are computed on
  demand, and the cached one is dropped twice over (`tick` moves with every patch,
  and local edits and `applyPatch` clear the cache), so it cannot be stale.
- *Text and line diffs* may pick any script that leads from one sequence to the
  other, which contains the one Myers' algorithm finds.
- *Steps of JSON paths and numbers* are named by what they print: "1" is an
  integer, "1.0" a float.
- *json-pack*: a buffer is a sequence of tokens, one for each field that is written
  and read at once (a head byte, a number of a width, a byte of a text). `Limit`
  scales the bounds of the code (23, 255, 65535, ...) down, keeping their order, so
  that a handful of numbers and short texts reaches every branch. The numbers of JSON
  text are written and read one character at a time, so a chunk may end inside one.

## 3. Runs

Deadlock is checked in every run: a patch that was issued can always arrive again,
and modules whose behaviours do end say so with a last, stuttering action.

| run | instance | question | expected |
|---|---|---|---|
| `replication` | 1 session and a fork, 4 patches of 1–2 ticks, loads that drop any peers, fair delivery | ids disjoint, causal order, root keeps the latest of what is held and is lost only by a model that is outdated (finding 6), duplicates harmless, the inductive invariant, everything arrives and all agree | holds |
| `rga_chunks` | 3 sessions, an item, 3 operations, 1 load | links lead through all pieces, deletions reach all they cover, `RgaText` implements `TextCrdt`, lists never disagree, duplicates harmless | holds |
| `rga_reload` | 2 sessions, run of 2, 2 operations, 1 load | deletions cover after a load | **violated**, finding 1 |
| `document` | 2 sessions; 8 first patches, one per kind of node; 3 patches, or 2 and a load from any of 5 formats | views converge, snapshots whole, duplicates do not show | holds |
| `log` | 2 logs, run of 2, 3 patches (undo patches included), 1 advance | replay gives the end, undo of the newest patch restores | holds |
| `wasm_session` | 1 page and a fork, 2 values, 3 edits, 1 load, 1 careless call anywhere | nothing lost but what `apiApply` and a close throw away; patches keep ids up to the first clock move past what waits; views agree and snapshots keep ids until a page was careless | holds |
| `authoring` | 1 session with a builder of its own, a peer, a text or an object, up to 3 + 1 patches | ids fresh; combined, sent, compacted, rebased and merged edits keep their meaning | holds |
| `patching` | an object with a text and an array, all operations on 7 paths, patches of 2 operations, 2 targets of a diff | value and model agree, codecs agree, a failure leaves nothing, a diff reaches its target | holds |
| `ot` | text of 3 letters, 2 sites with 2 edits each; every operation behind up to 2 accepted ones; registers that move values | sites agree, deletions name what was there, operations do as meant, moves go back | holds |
| `sonic_forest` | each of 5 containers with 5–8 keys | links, order and balance, cached answers, iterators, refinement of `SortedList` | holds |
| `red_black` | 6 keys | removals finish | **violated**, finding 2 |
| `pack` | 27 formats, RESP, RM and WebSocket streams, chunks of up to 3 tokens, values at each limit, 1 refused value | what is decoded is what was sent, whole or in parts | holds |

**Why the bounds are enough to be interesting.** Three operations on three
sessions contain: two concurrent insertions behind one item and a third that sees
one or both; an insertion into a run that a concurrent deletion covers, followed
by one behind a deleted item; a write that loses its race, and a later write over
the winner; a deletion, a concurrent insertion into its run and the undo. A run
of two is the smallest that splits; runs grow by edits that continue each other
(`Continues`) and by merged tombstones, and are split in their turn. Session ids
are ordered (4 < 5 < 6) and both orders of author against editor occur, as 5 is
the first author. The red-black removal that fails needs six keys; AVL and LLRB
have all their cases with eight. `document` loads in two-patch scenarios only,
since formats multiply the states by five. Ids are ordered, so symmetry is used for
the values of `wasm_session` only (`ScalarSymmetry`), which are only compared.
Every property has a mutant in `PROJECT.json`: a plausible bug in a definition
that models code, which the run finds.

Bounds with names: `MaxPatches`, `MaxSpan`, `MaxOps`, `MaxRun`, `MaxReloads`,
`Savers`, `MaxAdvances`, `MaxEdits`, `MaxAccepts`, `MaxSteps`, `MaxSent`,
`MaxRefused`, `MaxChunk`, `MaxWaiting`, `AllocSize`, `Limit`, and the `patches`,
`reloads`, `mine`, `theirs` of a scenario. `MaxCareless` of `WasmSession` bounds how
often pages call something else while edits wait for a flush, or hand a patch over
again (findings 5 and 6). `OverflowChecks` of `OtherFormats` is the setting of the
build profile: TRUE stops at an overflow, FALSE wraps. `Ties` of `Ot` says whether
both sites may insert at the same place (the code has no tie-break for it).

**Fairness.** `FairSpec` of `Replication` has weak fairness of `Delivery(s)` for
each session: the application keeps handing a replica some patch that it still
misses and whose causes it has. The library itself promises no delivery; this is
the contract of the application. Edits, forks and loads have no fairness: the
system may always stop editing, and the bound on patches makes it.

What the weaker properties leave out: `AgreesWithValues` and `CodecsAgree` except
the departures that `Patching` lists at their definitions (a predicate with a path
that a codec drops, `Misread`; operations only one side knows); `CompactAgrees`
documents whose sessions used the same time; `UndoRestores` the newest patch only;
`Balanced` of the red-black and the sorted tree the colours and the black heights
once a removal has raised a red sibling (`skewed`, finding 2; calls that would panic
are excluded by a guard), after which links and order are still checked; splay trees
have no balance. `ViewsAgree` and `SnapshotKeepsIds` of `WasmSession` speak of pages
that flush before every other call and get each patch once (`Careful`): findings 5 and
6 say what others lose. `Transcodes`: a bare JSON number that is cut is read as the
digits that came, a message of RPC may end early, and a RESP integer of the least
value stops a build with overflow checks.

## 4. What the models found

Two have a run that shows them:

1. *A load loses links* (`rga_reload`). `push_chunk` (`rga.rs:1105`) builds chunks
   without the link `s` of a split run, which no codec stores. `delete_span` walks
   these links: a deletion that covers several pieces of a split run and arrives
   after a load hides only the first piece, so this replica shows text that the
   others do not. In arrays the values of the missed slots are collected all the
   same, and the slots that stay show nothing; `document` excuses both. A deletion
   that comes again may then do more than it did first (an insertion that comes
   again sets the link again), so `Idempotent` of `RgaText` speaks of deletions
   before loads only. `OrderAgreed` and `LinksLead` hold after loads too.
2. *Red-black removals* (`red_black`). `correct_double_black`
   (`src/crates/sonic-forest/src/red-black/util.rs:421`) rotates a red sibling up
   and goes on with it as if it were the sibling still: black heights differ, and a
   later removal panics at an `expect`.

Others, found while modelling, that the properties state around:

3. *Undo restores a part.* `span_view_str` (`log.rs:524`, and its twins for bin and
   arr) counts the first chunk twice, so undo of a deletion whose run a concurrent
   insertion split restores the first piece only. `UndoRestores` therefore speaks
   of a patch that follows all others.
4. *A batch is rebased patch by patch* (`log.rs:250`, `batch.rs:29`): references to
   ids of earlier patches of the batch are kept as they were, unless the batch has
   no gaps. `BatchKeepsMeaning` of `Authoring` states it and is not checked.
5. *Merged patches shift ids.* `merge_patches` (wasm `lib.rs:101`) concatenates
   patches without a `nop` between them; the binary codec stores the first id only.
   If a remote patch or `diffApply` moved the clock between two edits of one flush,
   peers give the later operations other ids. `PatchKeepsIds` says exactly which:
   those up to the first such move keep their ids (`overtaken`), every later one is
   decoded as an earlier id. The doc at `lib.rs:642` has no such condition.
6. *A fork can lose its document.* The wasm `fork` renames the clock without an entry
   for the old session. A duplicate of an old patch of that session then creates an
   entry below ids the document holds; the clock encoder refuses these
   (`json_crdt_patch/codec/clock.rs:164`), the error is dropped and the zero id is
   written (`binary.rs:251`). Where that is the root the reader finds no document at
   all. `Replication` has it: `Outdates` says which duplicates do this, `outdated`
   marks the models, `Reload` empties a refused root. `RootIsLatest` shows that no
   other model loses its root, and that even these hold the latest of the values they
   still hold, a duplicate that brings the root back included. `WasmSession` loads the
   same way, with whole nodes (`Loaded`).
7. `diffApply` returns an empty patch for a document that differs when the root, or
   only the target, is a constant (wasm `lib.rs:690`, against the doc at `:671`);
   `apiObjDel` leaves the key with null (`:353`, against `:336`); `api_arr_upd`
   passes the id of a value where `UpdArr` expects the slot's (`:603`).
8. *JSON Patch*: `test` on a model ignores `not`; path segments like "01" come back
   as "1" from the compact codec (`json_patch/codec/compact.rs:60`); `validate`
   accepts a `replace` without a value and split positions that `from_json` refuses.
9. *Sidecar snapshots* truncate lengths above 65535 to 16 bits and count characters
   by UTF-16 span (`sidecar/binary.rs:101-111`). The verbose patch codec turns
   undefined into null. `json_val_to_pack` makes floats of u64 above i64::MAX.

In json-pack (each stated at the operator that models it; `Transcodes` and
`StreamsAgree` compare with what the format can carry):

- RM `start_record` answers a position that a later `grow` makes stale
  (`rm/encoder.rs:79`); a non-final fragment answers nothing though the next one is
  buffered. The WebSocket reader loses the bytes of a header or a ping that is not
  complete. `StreamingOctetReader::u8` panics after an empty chunk.
- Avro, XDR and RPC encoders do not reset their writer when they refuse a value, so
  the next message starts with half of it. Avro writes two zero counts for an empty
  array and its reader takes one; its validator accepts a double for a long, and
  named references that then cannot be encoded. A Bool discriminant of an XDR union
  comes back as a number. RPC messages do not say where they end.
- RESP streaming `?` writes cannot be decoded. `read_int` negates after it counted the
  digits, so i64::MIN overflows: a panic in a profile with overflow checks, the right
  number without them (`RespInteger`).
- CBOR: the DAG decoder unwraps tags other than 42 at the top only, against the doc
  (`decoder_dag.rs:4`); `skip` accepts nested indefinite chunks that `read` refuses;
  big integers are clamped or wrap. MessagePack: integers above 32 bits become
  floats, an extension without bytes loses its tag.
- UBJSON unsigned integers above i64::MAX wrap, blobs become null; Bencode rounds
  floats; BSON cuts keys at NUL; Ion big integers beyond u64 become null; SSH name
  lists are masked to 7 bits and an empty name disappears.
- JSON: floats without a fraction become integers, floats from about 1.7e38 are
  printed as digits the decoder refuses, texts that look like data URIs become
  bytes. A number that is cut is read as the digits that are there: the partial
  decoder answers `[1]` for the beginning `[1` of `[12]` (`json/decoder.rs:110`).
  EJSON reads `$numberLong` as a float and writes every Decimal128 as "0".

## 5. Proofs

Everything here holds for every value of the constants that the assumptions admit:

- `SidsAssumption`: session ids are numbers above the reserved ones
  (`enums.rs`: 0–3 name the system, the server, the global and the local session);
- `ReplicationAssumption`, `TextAssumption`, `LogAssumption`, `WasmAssumption`: the bounds are numbers, the
  author is a session, runs are not empty, the names of the special values are
  not those of scalars.

The bounds that keep TLC finite (`MaxOps`, `MaxRun`, ...) are arbitrary numbers in the
proofs, so no theorem depends on them. No theorem assumes anything else of the
pages or of delivery: where a property is about careful pages only, the condition is a
conjunct of the property (`Careful`), over steps that the model takes either way.

| theorem | statement |
|---|---|
| **`Replication_proofs`** | |
| `Invariance`, `TypeCorrect` | `Spec => []IInv`, `Spec => []TypeOK` |
| `IdsStayDisjoint` | no timestamp is issued twice |
| `ClocksStayAhead` | a clock is ahead of all its model applied and of its peers' entries |
| `CausalityRespected` | a patch is later than every patch it may refer to |
| `RootAgreed` | the root is the latest value a model holds; all it applied is held unless it is outdated (finding 6) and was loaded; models that hold the same patches have the same root |
| `DuplicatesAreHarmless` | a patch that arrives again does not move the clock's time, nor the root of a model that still holds it |
| **`TextCrdt_proofs`** | |
| `TextInvariance` | `Spec => []IInv`: every list holds exactly the items of the operations applied, each behind its reference with only later items between |
| `TextConverges` | replicas that applied the same operations hold the same list |
| `OrdersAgree` | no two replicas ever disagree on the order of two items |
| `DeliveredTwice` | an operation that was applied changes nothing when it comes again |
| **`RgaText_proofs`** | |
| `RgaInvariance` | `Spec => []Inv`, the inductive invariant below |
| `LinksAreGood` | `LinksLead`, loads or not |
| `ReplicasAgree` | `Converged`: the same text until the first load, the same order always |
| `DeletionsReach` | `DeletesReach`: until the first load deletions hide all they cover |
| `AppliedOnce` | `Idempotent` |
| `ChunksImplementTheList` | `ImplementsTextCrdt`: the refinement |
| **`Log_proofs`** | |
| `HistoriesAreKept` | `Spec => []Inv`: every baseline holds what the patches baked into it make |
| `ReplaysReachTheEnd` | `ReplayIsEnd`: a replay in the order of ids gives the end model |
| **`WasmSession_proofs`** | |
| `SessionInvariance` | `Spec => []IInv` |
| `EditsAreNotLost` | `NothingLost`: an edit was sent, waits, or waited when `apiApply` or a reload emptied `local_changes` |
| `FlushedIdsSurvive` | `PatchKeepsIds`: operations keep their ids up to the first clock move past them, and no later one does |
| `PageInvariance` | `Spec => [](Careful => PageInv)` |
| `ViewsStayAgreed` | `ViewsAgree`, of careful pages |
| `SnapshotsComeBack` | `SnapshotKeepsIds`, of careful pages |

**Patch exchange.** None of the safety invariants is inductive alone. That a fresh
timestamp is new (`DisjointIds`) needs that the clock of a session is ahead of every
patch *it* issued (`IssuerAhead`), in its own model, also after a load; that a fork's
ids are new needs that a session without a model has issued nothing
(`IssuersActive`); that ids extend causality needs `ClockAhead` and that causes are
issued patches (`DepsIssued`); and a load that sets an unknown peer to `time - 1`
keeps its place only because no entry is at or past the clock (`PeersBehind`,
`TimesPositive`).

That the root stays the latest also after loads needs that the clock table refuses it
only in outdated models (`RootCovered`). An entry is behind the root only if it began at
a patch older than the one that wrote the root. A model has the causes of all it
applied, and of two patches of one session the earlier is a cause of the later
(`Causal`), so that older patch was there and came again, which is what `Outdates`
says; an entry that exists belongs to an active peer (`PeersActive`). `held` is what was applied since
a load lost the root, and equals `applied` in every other model.

`IInv` is the conjunction of all these; TLC checks it as an invariant of
`replication`, and the proof has one lemma for each action, over lemmas about
`compare`, `observe`, `fork` and the register.

**Replicated text.** The walk of `insert_after_ref` looks only at the items behind the
reference, and stops at the first earlier one. What it leaves behind is a property
of the list alone, whatever order the operations came in: every item stands behind
its reference, and all items between the two are later than it (`AllPlaced`).
Inserting keeps this, because an item that is passed is later than the new one, and
an item later than its reference's successor cannot lie across the place where the
walk stops. It also determines the list: suppose two such lists order two of their
common items differently, and take the pair with the smallest sum of times. The
later of the two can be replaced by its reference, which is earlier, and the pair
is still in different order (`NeverSwapped`). (Induction over numbers is done by the
least counterexample throughout, since the library's induction theorems take an
operator as parameter.) So equal sets of operations give equal lists (`ListsConverge`), and any
two lists are compatible on what they share (`ListsAgree`). `Contents` says that the items are
exactly those of the insertions applied, hidden exactly if a deletion applied
names them; `Causal` and `RefersToKnown` that operations only name what their
author had, which is why a replica that has the causes has the items.

**Chunks.** `Ideal` is the list each replica should hold: the items of its chunks,
hidden where a deletion it applied names them. The invariant is

    Inv == Typed /\ T!IInv /\ IdsAreUnique /\ DeletesRuns /\ LinksGood /\ ShowsIdeal

`T` is an instance of `TextCrdt_proofs` with `Ideal` for its text, so `T!IInv` is the
invariant of the specification, said of the chunks, and what was proved of lists is
reused. `DeletesRuns`: a deletion names runs of items its author had, each
behind the one before (what `find_interval` returns, `IntervalPicks`). `LinksGood`: a
link leads to the item that goes on with the run; and until the first load no link
is missing where the next item of the run exists in another chunk. `ShowsIdeal`:
until the first load the chunks hold the ideal list itself. Neither the first load
nor a deletion after it can break the order, which is why `Converged` and
`LinksLead` have parts that hold after loads and `DeletesReach` does not.

The work is in lemmas about the operators of `Rga`, for every list of chunks:

- *Insertion* (`Rga_proofs`). The walk over chunks passes what the walk over items
  passes: a chunk is passed as a whole, because the later items of its run are later
  still (`WalkPlace`). A new run is folded into the chunk before it only if that ends
  at the reference and the walk passed nothing (`WalkFacts`). An insertion into the
  middle of a chunk splits it without a walk, and the next item of the run is
  indeed earlier than the new one. The result holds the items of the specification
  and good links (`Inserts`), in each of the five ways out of the code.
- *Deletion* (`RgaDeletes_proofs`). `Cut` hides the items of one chunk between two
  ticks, in up to three linked pieces. A turn of the loop of `delete_span` hides a prefix
  of the span and goes on at the chunk that holds the next item (`TurnKeeps`); each
  turn starts at a later tick, so the bound in `DeleteWalk` is enough for it to end
  (`WalkCovers`). If no link is missing the walk ends only behind the span.
- *Merging.* `merge_tombstones` and the loop of `merge_tombstones2` change no item,
  whatever chunk they are called for, and keep links good, the link of the right
  chunk being kept (`MergeKeeps`, `MergeWalkKeeps`). How far the loop goes does not
  matter to any property, so its proof does not ask whether the bound in
  `MergeWalk` is enough.
- *Lookup.* `find_interval` returns spans that name exactly the visible items with
  the ranks asked for (`IntervalPicks`).

Recursive functions (`DeleteWalk`, `MergeWalk`, `Delete`, `FlattenSeq` of the community
modules) are shown to exist and to satisfy their equations by the least number of
turns for which they would not (`DeleteIsDefined`, `MergeIsDefined`,
`FlattenIsDefined`). Each action then has two lemmas: that it keeps `Inv`, and that it
is a step of `TextCrdt` (`InsertsAsSpecified`, `DeletesAsSpecified`,
`ReceivesAsSpecified`) or, for `Reload`, a stutter of the ideal list. `Inv` was
model-checked with the instance of `rga_chunks` before it was proved.

**Histories.** A log replays its patches in the order of their ids, the end model took
them in the order they came, and a baseline may hold some already. All three are
chunks that took a set of patches, each after its causes, and their cuts and splits
differ; what they have in common is their list. `Listed` (of lists, `TextCrdt_proofs`)
and `Built` (of chunks, `RgaText_proofs`) say of a list that it holds exactly what a
set of operations makes, in an order `AllPlaced` allows, with no link missing.
`BuiltGrows` and `BuiltHides` apply one more operation, whose causes are there;
`BuiltOnce` is the point of it: two lists of chunks built from the same operations
have the same items. The invariant of `Log` is

    Inv == R!Inv /\ Histories

`R` is an instance of `RgaText_proofs` whose replicas are the end models, whose operations
are the patches without their letters, and which never loads; `Histories` says that a
baseline is built from the patches baked into it. That a replay finds the causes of a
patch in front of it follows from ids that extend causality (`EarlierFirst`); that the
recursion takes each patch once, and that the first part of the patches is what
`advance_to` bakes, is `TurnReplays` and `ReplaysBuild`. Undo is a step like typing and
erasing: what it inserts refers to an item that is there, since `span_view_str`, whatever
it leaves out (finding 3), answers a list of timestamps (`SpanViewIsList`) and
`prev_id` an item of the replay.

**Sessions.** While nothing moved the clock past them, the operations that wait in a
session hold the last timestamps its clock has issued, one after the other
(`HoldLast`). A receipt or a diff while they wait leaves a gap behind the first
`overtaken` of them: what is appended then, and the clock, are later than their place
says (`LeaveGap`). `LastIssued` is the two cases. The codec numbers operations from
the first id on, so those before the gap keep their ids and those behind it do not. An
edit is in a patch sent, waits, or waited when `apiApply` or a reload emptied
`local_changes`, since nothing else does.

That sessions of careful pages which took part in the same edits show the same JSON,
and that their documents come back from a snapshot as they were, needs the whole page:

    PageInv == IInv /\ WireOK /\ KnownOK /\ \A s \in open : SessionOK(s)

(and that `known` is a function of the sessions). `Holds` describes a document without the order its
operations came in: the root and each key show the latest value among the operations,
a value stands where an operation put it, and a node is missing only if it was used,
since the code collects what a later value replaces. One operation keeps this if what
it puts in place was made right before it, for it alone (`Backed`), so that it is not
collected yet; `TakesPart` takes a whole patch, and `ClockAhead` says that the clock and
the entry of each peer are ahead of the operations. An entry stays ahead because
the patches of one author come in order (`InTurn`: the later one names the earlier
among its causes) and a session has the causes of what it has (`KnownOK`); this is
where a patch that comes again must be counted as careless. The edits a session counts name its operations
(`EditsNamed`), so the same edits are the same operations (`SameEdits`), and documents
with the same operations show the same JSON (`SameView`), although one may have
collected a node that the other still has. For the snapshot, no id that is kept is ahead
of its entry in the clock table, so relative ids lose nothing (`KeptIsEncoded`) and
what is loaded is what was saved (`LoadedIsTheSame`). `PageInv` was model-checked with
the instance of `wasm_session` too.

**Only model-checked**, and why:

- `EventuallyConverged`: liveness under fairness is beyond the prover.
- `DeletesAllCovered` after a load is false (finding 1).
- What the code does with a page that was careless beyond `NothingLost` and
  `PatchKeepsIds`: findings 5 and 6 say what such pages lose. TLC walks these states,
  with one careless call, and no view is claimed of them.
- `UndoRestores` of `Log`: which items the walk of `span_view_str` takes depends on how the
  replay split the run of the deletion into chunks, and `Inv` says nothing of that: two
  histories with the same list may be split differently.
- `Document`, `Authoring`, `Patching`, `Ot`, `SonicForest`, `Channel`: they walk documents,
  values, scripts, trees and token lists with RECURSIVE operators, which the prover
  does not support; what these compute for every input would need induction over data.

## 6. Not modelled

- *Of the RGA*: the trees that index the chunks (`rga.rs` keeps a splay tree and a
  red-black tree of its own; `SonicForest` has the same algorithms), the lengths they
  cache, characters wider than one UTF-16 unit, and the content of chunks.
- *Of the document*: `con_ref`, the limit of a vec's index, the paths of `find`.
  *Of the log*: undo of nodes other than str, `clone_log`, `reset`, its codec.
- *Server-clock documents* (one clock orders all edits), in every codec.
- *Byte layout* of numbers and strings in the binary codecs, and of patch metadata;
  the inline length 0 of the binary patch codec.
- *Of sonic-forest*: the radix and binary tries, `SortedMapNode` pointers kept by a caller
  across an erase, `Tree` with equal keys.
- *Of JSON Patch and OT*: `with_prefix` of the builder; in `json_ot` the phase of tests in
  front of the picks.
- *Of json-pack*: Ion symbol import (`ion/import.rs`) and `ion/ast.rs` (not compiled), Avro
  `write_any`, `msgpack/to_json.rs`, the registry of codecs (`Pack` lists the formats and
  `Channel` picks one, which the manifest marks as external), RESP streaming writes, RM
  `start_record`/`end_record`.
- *Extensions* (cnt, mval, peritext), *JSON type, path, expression, random, base64,
  json-equal, util, hashing, printing, the CLI, bindings and fixtures*: pure
  functions, interpreters or I/O without a state that these models would share.
- *Several nodes under one zero id* (finding 6): the documents of `WasmSession` have one
  node below the root, so only one can be saved so without the whole being lost.

## 7. Plan

Done: clocks and patch exchange, replicated text, the chunks that implement it and
sessions and logs, with proofs; documents, snapshots, patches and their algebra, diffs,
JSON Patch, transformation, ordered trees and json-pack, model-checked.

Next, in this order:

1. The register laws of `Document` (latest write per slot) as a specification like
   `TextCrdt`, and its refinement; for this its collection must be restated without
   RECURSIVE operators.
2. `Frames`: that `StreamingReader` keeps every byte that was pushed and not consumed.
3. Undo in `Log` over all nodes; JSON paths and expressions.
