# Verification of positional-index

The program is a positional inverted index over a log-structured merge tree,
in Go (`src/internal`, with a demonstration in `src/cmd/indexer`). This
directory holds TLA+ models of its storage engine and of the index on top of
it, the TLC configurations that check them, and proofs for TLAPS.

## 1. The system

```
 cmd/indexer            Index, Query, PhraseSearch, Rank..., TieredSearch
      |
 internal/index         InvertedIndex: mutex; tf, df, tiers, allDocs  ---- internal/roaring
      | Put(term+block, postings)   RangeScan(term ...)
 internal/lsm           Tree: RWMutex; memtable, levels of SSTables, MergeFn
      |             \
 internal/rbtree     internal/sstable (Writer, Iterator, Get) ---- internal/bloom
```

| Component | State | Operations | Modules |
|---|---|---|---|
| LSM tree, `lsm.go` | memtable, levels, write lock | Put, Delete, Get, flush, checkCompaction | `LsmTree`, `LsmHistory`, `KVStore`, `Places`, `LsmPlaces`, `LsmProofs`, `StoreProofs` |
| compaction, `compact.go` | heap of iterators, a pending pair, the writer | runCompaction | `Compaction`, `CompactionMerge`, `PartsProofs` |
| range scan, `range_scan.go` | copy of the memtable's pairs and of the table list | RangeScan | `TreeScan`, `ScanProofs` |
| SSTable, `sstable.go`, `iterator.go` | file, sparse index, key bounds; position in the file | Append, Close, Get, NextKey, ReadValue, SkipValue | `SSTable`, `Tables`, `SSTableProofs`, `TableProofs` |
| Bloom filter, `bloom.go` | bit array | Add, Check, OptimalParams | `Bloom`, `BloomParams`, `PartsProofs` |
| memtable, `rbtree.go` | tree, count, size | Put, Get, InOrder | `RBTree`, `PartsProofs` |
| posting lists, `posting.go` | none | Encode, Decode, Merge | `Postings`, `Phrases`, `PostingProofs`, `PartsProofs` |
| inverted index, `index.go` | tf, df, tiers, allDocs, mutex; the tree | Index, Lookup, Query, Rank, TieredSearch, BuildTieredIndex | `Statistics`, `InvertedIndex`, `Ranking`, `IndexProofs` |
| queries, `query.go`, `phrase.go` | none | evalExpr, PhraseSearch | `InvertedIndex`, `Postings`, `Phrases`, `PostingProofs`, `PartsProofs`, `IndexProofs` |
| analyzer, `analyzer.go` | none | Analyze, AnalyzeWithPositions | `Postings`, `Phrases` (in part) |
| bitmaps, `internal/roaring` | containers | Add, Contains, And, Or, AndNot, codec | `Roaring`, `PartsProofs` |
| demo, benchmark | none | | not modelled |

**How they interact.** Every Put or Delete takes the tree's write lock, and
keeps it while it flushes a full memtable and runs the cascade of compactions
that follows. Get holds the read lock throughout. RangeScan holds it only to
copy the memtable's pairs and the list of tables; it then opens file after
file by name without any lock, while compactions may remove them. The index
has a mutex of its own for its bitmap, its counters and its tiers, never held
across a call of the tree: Index takes it twice and then calls Put once per
term, a query takes it only to copy the bitmap for a NOT, and a ranking takes
it anew for every weight.

**What is hard.**

- Versions of a key are spread over memtable and tables, and which one wins is
  decided by places alone: no version carries a number. A table put in the
  wrong place, or a tombstone dropped too soon, brings an old value back.
- The MergeFn is applied in the memtable and in compactions, never by readers.
- Writer and iterator disagree on what a valid record is.
- Scans run beside compactions that remove files.
- A posting list is spread over the places of the tree, and the key range of a
  term covers the keys of longer terms.
- Index is not atomic, and a query reads the tree once per word, with anything
  in between; a scan that fails passes for a word without postings.
- Counts change between the weights of one ranking; tiers are a copy of what
  was once computed.
- Nothing is recovered after a crash: a tree made over an existing directory
  starts empty, so there is no recovery to model.

**What makes each component correct.**

- Tree: a key answers with its last Put; nothing put is lost to a merge;
  flushes and compactions do not show; the lock is given back.
- Compaction: it reads all of a table or reports an error; the loop computes
  the merge key by key; a failure leaves the level as it was; a level that
  reaches the limit is compacted; iterators are closed.
- Scan: the answer is that of one moment, sorted, within range and limit.
- SSTable: whatever is appended is found by offset through the sparse index.
- Bloom filter: no false negative, indexes in bounds, the size its rate needs.
- Memtable: a balanced sorted map whose size is the bytes it holds.
- Index and queries: a document is found by all its terms once Index returns,
  as far as the tree shows its postings; a phrase is found where its words
  are; counts and tree agree; frequencies agree with documents.
- Rankings: no negative weight, and the best documents first.
- Posting lists: the codec gives back what it was given, and the merge of two
  lists is the union the tree takes it for.
- Bitmaps: each is the set it was made to hold, in one form.

`PROJECT.json` lists the hazards with their lines and the properties aimed at
each.

## 2. Modules

Operators whose comment begins with `Fault:` are no part of the models. Each
is a plausible mistake in the definition that follows it, and makes one of the
properties fail.

**`KVStore`** is what a client of the tree is promised: a map. With a MergeFn
a Put adds to what the key has; without, it replaces. Delete forgets one of the
keys in `Deletable`.

**`Tables`** says what reading a table yields. A value is a set of pieces (the
entries of a posting list), a table a function from keys to values, `Tomb` or
`Absent`. Keys are numbers in byte order, 0 the empty string. `Readable` is
what `NextKey` accepts. `SSTGet`, `OpenReads`, `ScanReads` and
`CompactionReads` say which records each kind of reader gets to, and so what
an unreadable record hides.

**`Compaction`** says what a compaction makes of the tables of a level, key by
key (`Merged`), and which levels it can read (`CanCompact`).
**`CompactionMerge`** is `runCompaction` itself: `OpenInput` for each table,
`CreateOutput`, `MergeItem` for each turn of the loop, `Finish`, and for each
of them its failure. `iters` and `writer` say what is open. Its property
`MergeIsMerged` is what lets `LsmTree` take a compaction in one step.

**`LsmTree`** is `lsm.go` with `runCompaction`. `memTable` and `levels` are
the fields of `Tree`; `pc` is where the holder of the write lock stands
(`"idle"` when it is free), `level` the argument of `checkCompaction`,
`nextFile` the clock that names files.

| Action | Code |
|---|---|
| `Put`, `Delete` | `Tree.Put` up to the size check, the merge with the memtable's version included |
| `Flush`, `FlushFails` | `flush`; on any error the memtable stays |
| `Compact` | one `runCompaction`: merge, new table first in the next level, inputs removed |
| `CompactFails` | an input that cannot be read, or a file that cannot be written: logged, cascade ended |
| `CompactDone` | the next level is below `LLimit` |

**`LsmHistory`** adds the clients: `promised` is a `KVStore` that takes the
same Put and Delete, and `IsStore` instantiates `KVStore` over the tree's
contents for the keys nobody deletes (`Keys <- Kept, Deletable <- {},
store <- View`): an abstract store without Delete. `Serves` ties its steps to
the clients': a client's Put of such a key is that very abstract Put, and every
other step, be it a flush, a compaction, a failure of either, a Get or a write
of another key, leaves the abstract store as it is.

**`Places`** is the tree as the index needs it: a sequence of places, the
memtable and then the tables from the newest on, each with the pieces it holds
of a key. Put adds to the first, `Flush` puts an empty one before it,
`Compact` unites neighbours; `Newest` is what a reader gets. **`LsmPlaces`**
instantiates it over the levels of `LsmTree`, one level after the other
(`INSTANCE Places WITH places <- Rows`), and states that the tree implements it
(`IsPlaces`).

**`TreeScan`** is `RangeScan` beside other goroutines. `Snapshot` is the
read-locked part; then `SkipTable`, `OpenTable`, `OpenFails` or `OpenPanics`
for each table, and `MergeAll` or `MergeFails`. A file exists while its table
is in the tree; one that is open stays readable after it has been removed. The
fields `before`, `hidden` and `born` are history.

**`SSTable`** has the Writer and the loops of `Get`, `pushSST` and
`advanceAndPush`, and the pass of a compaction, by offset through the file. A
record of a key of length k and a value of length v takes 8 + k + v bytes; an
iterator off the start of a record reads lengths that are no lengths and
fails. Its properties are that the loops answer what `Tables` says, which is
what `LsmTree` and `TreeScan` take for granted.

**`RBTree`** is the left-leaning red-black tree with its rotations, its count
and its size, beside a map. What the code does by recursion (`put`, `Get`,
`inOrder`) is a function over the trees that are no higher than the tree has
keys (`Trees`), as no subtree is. **`Bloom`** is the filter for a freely chosen hash
function, size and number of positions; a 64-bit word is `Half * Half`.
**`BloomParams`** computes size and positions as `OptimalParams` does,
unsigned negation included.

**`Roaring`** has the bitmaps: a sequence of containers by high half, each a
sorted array or a set of bits, its operations and its codec as operators, and
two registers on which they are performed in any order beside the sets they
should hold.

**`Postings`** has, as operators, the analysis of a text (a sequence of words,
some of them stop words, each with a stem), the codec of posting lists in
32-bit words, their merge, and the matching of phrases. **`Phrases`** analyses
a text word by word, then a second one of the same document, and states what
the operators promise of every text and phrase.

**`Statistics`** has `tf` and `df` and the one critical section that changes
them (`Count`). `known` are the keys of the map `tf`; `times` is history. On
it are built two modules that do not share more than the counts:

**`InvertedIndex`** is Index and Query. A writer's call of Index goes through
`IndexBegin` (the bitmap), `IndexCount` (the counts) and `IndexPut` (one term,
in any order); `TreeStep` flushes and compacts the tree, an instance of
`Places`, at any moment. `reader` is a query in progress. An expression is
given in the order in which `evalExpr` finishes its nodes, the operands before
the operator; `EvalTerm`, `EvalPhraseWord` and `EvalPhraseMatch`, `EvalAnd`,
`EvalOr`, `EvalNot` and `EvalNil` are its nodes, and a stack holds the bitmaps.
`IsExpression` says which sequences come from an expression: each operation
finds the values of its operands, and one value is left
(`QueriesAreExpressions`).
A key of the tree is a term and a block; `Covers` says which other terms'
keys lie within the range a term's lookup scans, those that begin with it. A
lookup takes the newest version of each key, or nothing at all when the scan
fails.

**`Ranking`** is `RankTFIDF`, `RankVSM`, `TieredSearch` and `BuildTieredIndex`
beside calls that count. Each weight (`Weigh`), each frequency
(`ReadFrequency`) and each tier (`ReadTier`) is read in a step of its own.
Logarithms are any natural numbers that grow (`Logs`); TLC is given hundredths,
chosen so that equal ratios have equal logarithms; equal scores are sorted in any order, as `sort.Slice` may.

The `MC*` modules extend modules for TLC and define symmetry sets. `MCParts`
and `MCIndex` have several next-state relations in one run: a variable `part`,
chosen initially, says which of them a behaviour follows, and the variables of
the others keep their initial values. So nothing is multiplied, and each part
is explored as in a run of its own.

## 3. Runs

| Run | Shows | Bounds and why they are enough |
|---|---|---|
| `lsm_plain` | `LastPutWins`, `OnlyCompactionRevives`, `StuckForever`, `FullOnlyIfStuck`, `LockReleased` | 2 keys, limit 2, 9 files: three levels are reached and level 2 is compacted; tombstones over values in deeper levels, and a table without records, occur |
| `lsm_merge` | `HTypeOK`, `NoPieceLost`, `UnsplitKeyReadsWhole`, `IsStore`, `IsPlaces` | a MergeFn, limit 2, every file operation may fail; key 1 is deleted, key 2 never; 4 files: two flushes, their compaction and a third flush; or, after a compaction that failed, three tables in one, so that value, tombstone, value meet |
| `lsm_unreadable` | `MaintenanceInvisible`, `UnreadableStaysOnTop` | 3 keys, the least unreadable, values of two sizes, tables of two records, 3 files: two flushes and one compaction, with an unreadable record at the head of a table or after it; no tombstone meets a deeper version here. Unreadable records between readable ones are in `sstable` and `parts` |
| `lsm_deleted` | `DeletedStaysDeleted` is violated | 1 key |
| `scan_snapshot` | `ScanReadsSnapshot`, `MissingOnlyAfterCompaction` | 2 keys, the default limit, every range of them and of the empty key; two tables in a level, then a third flush and a compaction around the scan |
| `scan_levels` | `ScanReadsSnapshot`, `PanicsOnlyFromStart` | one value and tombstones, 5 flushes and compactions with two tables to a compaction: tables in two levels, some without records; limits 0 (the default) and 1 (which cuts an answer) |
| `scan_deleted` | `ScanHidesDeleted` is violated | 1 key |
| `sstable` | `IndexIsRight`, `GetIsRight`, `ScanIsRight`, `CompactionIsRight` | up to 6 records, blocks of 2: three blocks; an empty key, a key too long, values too long |
| `parts` | `InOrderIsWhatWasPut`, `GetIsWhatWasPut`, `Balanced`, `Accounted` | the memtable: all orders of 7 keys, black height 3, every rotation and flip; values shrink and grow |
| | `NoFalseNegative`, `InBounds` | the Bloom filter: all hash functions of 2 items into 4-bit words, up to 17 bits (three bytes, the last partial) and 3 positions |
| | `BitmapIsSet`, `OneFormPerSet` | bitmaps: two containers of four values with arrays of at most 2: both forms, both ways between them, empty containers |
| | `PhraseIsInText`, `MergeFnIsUnion`, `CodecRoundTrip` | texts of up to 5 words together, phrases of up to 3, a stop word among four words, two words to a stem, and a stem that is a stop word |
| | `MergeIsMerged`, `LeaksOnlyWhileOpening` | a compaction: all levels of 3 tables with 2 keys, values, values too long and tombstones; value, tombstone, value in one key occur |
| `bloom_params` | `SizedForRate` is violated | words of 8 bits, up to 3 elements |
| `index` | `DfCoversDocs`, `AnswerIsBetween`, `PostingsMatchCounts` | 3 documents in two blocks, 2 writers and 2 calls of Index, three texts with a term that is a prefix of another and a stop word, a tree of 3 places, four expressions with every kind of node |
| | `TieredIsTopK`, `RankedAreHits`, `NoNegativeScore` | 3 calls of Index with any builds and one search among them; tiers of 1, 2 and 3 documents, so that a search stops at each |
| `index_df` | `DfIsDocs` is violated | the same |

What some of them say, in words:

- `LastPutWins`: with no MergeFn, a key whose last write was a Put answers
  with it, wherever flushes and compactions have carried it.
- `NoPieceLost`: with a MergeFn, every piece put since the key's last deletion
  is in the tree and newer than any tombstone of the key. Not more: a
  compaction that meets value, tombstone, value merges the outer two.
- `IsStore`: for keys nobody deletes the tree as a whole, with what its places
  hold put together, is the abstract store: it changes when a client puts, by
  what the client puts, and never otherwise. A flush or compaction, failed or
  not, that lost such a key or brought back an older value of it would break
  it. A reader does not see the whole:
  `UnsplitKeyReadsWhole` is what Get gives.
- `OnlyCompactionRevives`: a key that had no answer gets one only by a Put, or
  by a compaction that drops its tombstone above a deeper version.
- `MaintenanceInvisible`: with no MergeFn a flush or compaction changes an
  answer only by that, or through a record that readers refuse.
- `IsPlaces`: the tree of `InvertedIndex` is the one `LsmTree` describes, file
  failures included.
- `AnswerIsBetween`: a query is judged on the documents whose calls of Index
  had returned when it began and that were not indexed again while it ran.
  Its answer lies between what the expression describes and what it describes
  when those words that were read in part (their list spread over places, or
  their scan failed) may miss documents. Through a NOT a miss becomes a hit.
- `PostingsMatchCounts`: bitmap, counts and tree agree about a document when
  no Index is at it.
- `TieredIsTopK`: a tiered search of one term answers with the best, also
  after later calls of Index have changed the weights, as all weights of a
  term change by one factor. Three things are left out because the code does
  not give them: documents indexed twice, a term every document had when its
  tiers were filled, and changes while the search runs.
- `RankedAreHits`: both rankings list the same documents.
- `OneFormPerSet`: equal sets are equal bitmaps, whatever was done to get them.
- `StuckForever`: a level with a table no compaction can read stays
  uncompacted and never shrinks. `FullOnlyIfStuck`: no other level stays full.

**Bounds.** `MaxFiles` bounds the files of a behaviour: clients stop writing
when it is reached. `MemTableSize`, `LLimit`, `IndexStep`, `MaxKeySize` and
`MaxValueSize` are the code's parameters made small. `MaxSize`,
`MaxHashCount`, `MaxElements` and `MaxAlloc` bound the choices of a filter,
`MaxWords` and `MaxPhrase` texts and phrases, `MaxCalls` and `MaxCounts` the
calls of Index, `MaxPlaces` the places of the tree. `BlockSize`, `TierSizes`
and `MaxArrayLen` are the code's parameters made small.

**Constraint.** The runs of scans do not follow a behaviour past the answer of
a scan, nor that of the index past the answer of a query or ranking
(`NoAnswerYet`): later steps do not change the answer, and the same steps are
explored with no scan or query at all.

**Deadlock** is checked where clients can always go on. It is not in
the runs of scans, where a panic ends the process, in
`sstable`, where a writer that failed is the end of its file, in `parts`,
where a compaction returns and texts are bounded, in `index`, where the calls
are bounded, and in `bloom_params`, where making the filter may panic.

**Fairness.** `LockReleased` assumes weak fairness of the steps of the
goroutine that holds the lock (`FairSpec`): it never waits for another
goroutine, so the scheduler keeps it running. Clients are under no fairness.

**Where the code departs from what is said of it.**

1. `lsm_deleted`: a compaction drops a tombstone although a deeper level
   holds the key; the deleted key comes back.
2. `scan_deleted`: RangeScan leaves the memtable's tombstones out and answers
   with the tables' version of a deleted key.
3. `bloom_params`: `float64(-numElements)` negates an unsigned number. On
   arm64 the size comes out 0 and every filter has 8 bits and one position,
   so that all lookups go to the file; on amd64 the size is 2^63 and making
   the array panics at the first flush. The models of the tree and the file
   describe a build on which the filter can be made.
4. `index_df`: `df` is said to be the number of documents of a term; it is the
   number of times documents with it have been indexed.

What the code nowhere denies, and the properties of passing runs therefore
allow: a term finds the documents of longer terms it is a prefix of; a term
misses documents while its posting list is spread over places; a failed scan
is an empty list, and a NOT over it answers with everything; the stem of a
phrase's word is stemmed again, and lost if it is a stop word; iterators stay
open when a compaction is refused a table; a cosine may be negative when
documents are counted while `RankVSM` runs.

## 4. Proofs

Proofs are kept by component, in modules that extend the component's.
`TableProofs` has what several of them need of `Tables`: least and greatest
keys, the blocks of a sparse index (`RankGrows`, `RankIsTaken`,
`BlockIsRead`), which records hide others, and sums over finite sets.

### The tree

`LsmProofs` proves for every number of keys, levels and tables, every limit
and every failure:

- `TypeCorrect`: `Spec => []HTypeOK`. The step that takes work is that
  prepending a table to a level, old or new, gives levels again, and that a
  merge of entries is an entry.
- `LastPutAlwaysWins`: from `~Merging` and `Fits`, `Spec => []LastPutWins`.
- `NoPieceEverLost`: from `Merging` and `Fits`, `Spec => []NoPieceLost`.

`Fits` says that every record a client may write can be read. It is needed: a
record that readers refuse does hide others (`lsm_unreadable`). Tombstones in
deeper levels, failures of files and deletions are all in.

Neither property is inductive. `LastPutWins` speaks of what Get finds, and Get
does not determine where versions are. The strengthening `LastPutHeld` is: for
each key whose last write was a Put some place holds that value and no newer
place holds any version. `PiecesHeld` is its counterpart for pieces, with no
newer tombstone. A flush and a compaction are then one kind of step: a level
(the memtable counting as level 0) is emptied into a new first place of the
next one, and the tables of that level move one place down. `Down` is this
movement; the lemmas `FlushMoves` and `CompactMoves` say that both actions are
of the kind, `DownKeepsOrder` that it keeps the order of places, and
`MovesKeepHeld` and `MovesKeepPieces` that a step of the kind keeps the
strengthened invariant, given what a merge keeps (`MergedOfNewest`,
`MergedKeepsPieces`).

It also proves what compactions make of the levels, whatever clients
write. Flush and Compact are again one kind of step, seen from the levels
(`Sinks`): one is emptied, the next one grows by a table, the others stay.

- `StuckStays`: `Spec => StuckForever`, with no assumption.
- `FullOnlyStuck`: if file operations do not fail, `Spec => []FullOnlyIfStuck`.
  The property is about a free lock; the invariant `FullIsStuck` allows, while
  the lock is held, the level the cascade looks at to be full, which a flush
  or a compaction has just added to.
- `UnreadableOnTop`: from `~Merging`, `Spec => []UnreadableStaysOnTop`; a
  merge of readable entries without a MergeFn is readable, a table with an
  unreadable one is discarded or refused. A MergeFn may make a value that is
  too long out of two that are not.

`StoreProofs` proves that the tree is the abstract store, for the keys no
client deletes, with a MergeFn and without:

- `NothingIsMadeUp`: `Spec => []NothingExtra`, with no assumption at all. It is
  the converse of the above: what a place holds for such a key is made of what
  was put. It is inductive; the work is in the merge of a level
  (`MergedAddsNothing`), and the step all flushes and compactions are
  (`MovesAddNothing`).
- `TreeIsStore`: from `Fits`, `Spec => IsStore`. `NoPieceLost` or
  `LastPutWins` on the one side and `NothingExtra` on the other make `Exact`:
  what the tree has is what the store has, always. With that before and after
  a step, a client's Put of a kept key is the abstract Put of the same value and
  any other step does not show (`StepServes`).
- `UnsplitReadsWhole`: from `Fits` and `Merging`,
  `Spec => []UnsplitKeyReadsWhole`.

- `TreeIsPlaces`: from `Fits` and `Merging`, `Spec => IsPlaces`, the second
  refinement, and with `Deletable = {}` the tree the inverted index is built
  on. Levels do not show in `Places`, only the order of all tables does, so a
  flush or compaction is followed through the list of the levels one after the
  other (`FlatShifts`): of three parts, the tables above, those of the level
  and those below, the middle one is replaced by one table. That table has of
  each key the pieces of all it replaces (`MergedIsUnion`), because
  `NothingExtra` leaves no tombstone among them; so `Rows` changes as
  `Places!Compact` says (`CompactRows`).

It also proves the two action properties about answers, from `Fits`:

- `RevivalNeedsCompaction`: `Spec => OnlyCompactionRevives`.
- `MaintenanceShowsNothing`: from `~Merging`, `Spec => MaintenanceInvisible`.

Under `Fits`, Get answers with the first version of a key, in the order of
places (`First`, `GetIsFirst`; that there is a first needs a least element in a
set of pairs, `FirstExists`). A movement keeps a first version outside the
level that is emptied (`OthersStayFirst`), makes the merged one first otherwise
(`MergedIsFirst`), and where the merge has none, a tombstone was dropped; if
something then comes to light it lies deeper (`SinkShows`). These are not
consequences of an invariant on promises: they hold of deleted keys too, to
which nothing is promised once a tombstone is dropped.

### The scan

`ScanProofs` proves of `SSpec`, for any tree, ranges and limits, with every
other operation of the tree in between:

- `AnswersOfSnapshot`: `[]ScanReadsSnapshot`. The scan has copied the
  memtable's pairs and a list of tables; what it will answer is fixed by these,
  whatever becomes of the tree. The invariant `AnswerAhead` says so: for every
  key the property speaks of, what Get answered at the snapshot is the
  memtable's pair or, where there is none, the first version in the tables
  pushed and those still to open, taken in the order of the list. It begins as
  a fact about the list of all levels, one after the other (`ListIsSlotted`,
  `NewestIs`), goes on as a table moves from one list to the other
  (`AheadNext`), also when a table out of range is skipped (`SkippedHasNone`),
  and ends as the answer (`NewestIsAnswer`). That a scan reads of a table what
  Get reads of it rests on `BlockIsRead` and `ScannedIsGot`.
- `FilesStay`: `[]MissingOnlyAfterCompaction`. A step takes a table out of the
  tree only by a compaction, whose output is numbered no lower than the
  snapshot and lies below the top level for good (`StaysOnDisk`).
- `PanicsFromStart`: `[]PanicsOnlyFromStart`.

`ScanInv` is the conjunction of these with the types. It takes `KeysAreFinite`,
without which the pairs of an answer could not be counted.

### A compaction, record by record

`PartsProofs` proves of `CSpec`, for any number of tables and of keys:

- `MergeComputesMerged`: `[]MergeIsMerged`. What the loop does turn by turn
  with a heap, an iterator for each table and one pending record is what
  `Merged` says key by key. The property speaks of the end; `MergeInv` says
  what holds in between. The heap has the next record of each table not read
  to its end, and no other (`HeapIsRight`); the pending record is the greatest
  key that has come, with the versions of it that have come, and what is
  still to come is greater, or the same key in an older table
  (`PendingIsLast`); what is written is less and complete (`WrittenIsRight`),
  and what is less is written unless a tombstone is its newest version
  (`AllWritten`). `TopIsLeast` is the order of the heap, the lemmas `Turn...`
  are one turn of the loop.
- `LeaksAreOfOpening`: `[]LeaksOnlyWhileOpening`.

Together with `LsmTree`'s use of `Merged` this is why a compaction is one step
there. `NoPendingIsNone` says that the mark for "no pending record" is no
record, as a nil pointer is none.

### The file

`SSTableProofs` proves for any keys, values, limits and distance of index
entries, and records of any lengths the format has:

- `IndexDescribesFile`: `[]IndexIsRight`.
- `GetsAreRight`: `[]GetIsRight`.
- `ScansAreRight`: `[]ScanIsRight`.
- `CompactionsAreRight`: `[]CompactionIsRight`.

The invariant `SSInv` has two parts. `FileInv`: the records lie one behind the
other in the order of their keys, with no gap from 0 to the end (`Laid`), and
the Writer has noted the entries, bounds and count of the table they amount to
(`Notes`). The end of the data is a sum over the file, so appending a record
takes a lemma about sums (`SizeNext`). `ReaderInv`: between two turns the
iterator stands before a record or at the end (`Stands`), started at the
record the index gives for the key (`Starts`), and all it has passed since was
readable and before the key, or within what the scan has collected
(`GetGoesOn`, `ScanGoesOn`, `CompactionGoesOn`). A turn reads the record it
stands before and comes to stand behind it (`NextKeyIs`). At the end the
records passed are those `Tables` says a reader gets to (`HiddenByBlock`,
`FoundInBlock`, `BetweenAll`).

### The index

`IndexProofs` proves first `FrequenciesCover`, `StatSpec => []DfCoversDocs`, for
all documents and texts: the frequency of a term grows by one whenever a
document comes to have it. The invariant behind it adds that a document that
was never counted has no term and is not among the known ones.

It goes on to prove for all documents, texts, terms, writers, queries and
sizes of a block:

- `PostingsAgree`: `ISpec => []PostingsMatchCounts`. The property speaks of
  documents no call is at; its inductive strengthening `IndexInv` speaks of
  all of them. A count is of some text whose positions are in the tree or
  owed by a call that is still putting (`CountsAreKept`, `Owed`); of a document
  counted once, counts, calls and pieces are all of one text (`CountedOnce`);
  one never counted has neither counts nor pieces (`Uncounted`). When the last
  call returns nothing is owed, and as a text puts as many pieces for a term
  as the term occurs in it (`PiecesCount`), the numbers compare. Flushes and
  compactions leave the union of a key's pieces alone (`MaintenanceKeeps`).
- `IndexCountsOnly`: `ISpec => StatSpec`, so that `FrequenciesCover` holds of
  the whole index (`IndexFrequenciesCover`).
- `AnswersAreBetween`: `ISpec => []AnswerIsBetween`. The argument has four
  parts.
  1. The tree holds just what has been put: for each document the pieces of
     the texts whose calls have returned and those the calls in progress have
     put (`HeldIsPosted`, the converse of what `PostingsAgree` needs). A call in
     progress beside a query is of an unsettled document (`CallsUnsettled`), so
     of a settled one the tree has the positions of its texts and no other
     (`SettledPositions`).
  2. `LookupIs`: the list of postings a lookup answers with has no other
     positions of settled documents, and has all of them unless the lookup
     reads in part; `MatchingIs`: so the walk of PhraseSearch through such
     lists finds no document without the phrase, and misses none when the
     lists are whole and each of one term.
  3. `Evaluated`: the values on the stack lie between the bounds of the nodes
     they belong to, computed for the documents that are settled now. Between
     two instructions documents only cease to be settled, and the bounds of
     the rest stay (`BoundsStay`, `RunCut`); each instruction puts a value
     between its bounds in the place of its operands (`Pushes`, and a lemma
     for each instruction). A NOT needs that settled documents have been
     entered (`SettledAreEntered`).
  4. `RunIsExpected`: the bounds the invariant keeps step by step are those
     `Expected` computes at the end.

Of rankings, for any searches, tiers and logarithms that grow:

- `RankCountsOnly`: `RkSpec => StatSpec`.
- `ScoresNotNegative`: `RkSpec => []NoNegativeScore`. With no document counted
  twice a weight is never negative, and positive just for a term that not all
  documents have (`TfIdfIs`, from `FrequenciesCover`); so is what is added to a
  sum (`AddedIs`), for `RankVSM` unless a document is counted after it has
  read the number of documents.
- `RankingsListHits`: `RkSpec => []RankedAreHits`. `Scores` is the property
  for a ranking under way: documents weighed are listed if they should be, and
  of the one being weighed the sum is above zero when a term that tells has
  been found, else what tells is still to come (`Partly`). `Weights` says what
  `RankVSM` has read is what the counts are, for all terms that occur
  anywhere: as it skips a term only where no document has it, the two
  rankings agree.
- `TiersAnswerTopK`: `RkSpec => []TieredIsTopK`. The invariant has four parts.
  1. `FrequenciesFit`: a term's frequency is at most the sum of the calls
     (`Total`, the recursive function behind the bound of `CountOne`, which
     `SumsExist` shows to exist and `TotalGrows` counts up); so it has a
     logarithm although documents are indexed twice.
  2. `BuildOK`: each list of a tier is `IsTop`: documents of the last build
     that have the term, all of them or as many as the tier holds, none
     less often with the term than one left out. A build makes it so
     (`FirstAreBest`); a count keeps it, as the documents of the build are
     counted no more (`CountKeepsBuild`). It is said of terms that some
     document lacked (`InOrder`): of others any documents fill the list.
  3. `Collected`: a search lists of one tier's documents those that have been
     weighed and have a positive weight, and the tier holds enough of them or
     is the last.
  4. `DoneIsBest`: the cut to k of that list is the best of all (`CutIsBest`,
     from `BestOfBest`: the best of some that include the best). Greater
     counts have greater weights (`AnyTfIdf`), so the order at the build is
     the order now, with other frequencies.

### Posting lists and phrases

`PostingProofs` has what the loops over posting lists compute, for lists of
any length. They are recursive functions over the two indices of the loop, or
over a number and an offset; nothing about such a function can be proved before
it is known to exist. `RecursionExists` says that it does if each argument
leads to one of less measure, `MeasureInduction` that what passes on from those
of less measure holds of all; both rest on the least element of a set of
numbers. On them stand:

- `MergeIs`: two ascending lists give the ascending list of both; `FindIs`:
  of two such lists, the positions that stand a gap behind; `AscendingIs` and
  `IncreasingIsAscending`: there is one ascending list of a set.
- `EncodeIs`: where the documents lie in the encoding (`Layout`), and
  `DecodeIs`: decoding gives back any posting list, in any order of its
  documents.
- `QueryIs`, `MatchIs`: a phrase matches exactly if there is a place for its
  last word that all words lead to (`Chain`); `MatchWithin`: for lists in any
  order, only if there is.

`PartsProofs` proves of `PhSpec`, for texts and phrases of any length:

- `AlwaysRoundTrip`: `[]CodecRoundTrip`.
- `AlwaysUnion`: `[]MergeFnIsUnion`.
- `PhrasesAreInText`: `[]PhraseIsInText`.

The invariant is `PostingsAreOfText`: the list of a stem has its places in the
text, in order. The lists are then what the lemmas ask for. `FoundIs` is what
the search finds, `OccursIs` what the property says, with the same chain of
places.

### The bitmaps

`PartsProofs` proves of `RSpec`, for any halves and any limit of an array:

- `BitmapsHaveOneForm`: `[]OneFormPerSet`.
- `BitmapsAreSets`: `[]BitmapIsSet`.

Both are consequences of one invariant, `Represented`: each register is
`Canonical` of the finite set it was made to hold. `BitmapIsSet` alone is not
inductive: it says nothing of the order of an array, of a stored count beside
the set it counts, or of the form of a container, and the operations go by all
three.

- Containers. `SearchIs` is the binary search, `InsertSorts` the insertion at
  its place; `AndArraysIs` and `AndNotArraysIs` are the loops over two arrays,
  by the induction over two indices that posting lists use. Hence `FormIs` (a
  container of a set has the form of its size), `AddToIs` (one element more,
  with the change of form when the array is full) and `ContainersAre` (the
  operations give the container of the resulting set, in whichever form their
  arguments are).
- Bitmaps. `ByHighsAre` has the entries ascend by their high halves; `AddedIs`,
  `OrIs`, `AndIs` and `AndNotIs` say that the operations map the form of sets
  to the form of the resulting set. That includes dropping a container that
  has become empty.
- Codec. `EncodedIs` says where the entries lie in the encoding, `ReadUnfolds`
  and `EntryAtIs` that reading goes from one to the next; `ReadWritten` and
  `ReloadIs` that a bitmap comes back as it was.
- Answers. `LookupIs`, `SumIs` and `ListedIs` read membership, number and
  ascending list off the form.

What flattening a sequence of sequences gives (`FlattenJoins`, `JoinsPlace`)
is proved once, for elements of any set; encodings of posting lists and of
bitmaps, and the lists of queries, all use it.

### The memtable

`PartsProofs` proves of `RBSpec`, for any keys and values:

- `TreeStaysBalanced`: `[]Balanced`.
- `MemtableIsSorted`: `[]InOrderIsWhatWasPut`.
- `GetFindsLastPut`: `[]GetIsWhatWasPut`.
- `MemtableIsAccounted`: `[]Accounted`.

They are proved together. Whether a put finds its key, and so whether it counts
it and what Get answers afterwards, depends on the order of the tree; and all
four speak of functions over trees no higher than the tree has keys, which the
tree must be shown to be. The invariant `TreeInv`
(`TreeIsProper`) says that the root is black and `Proper` for the pairs of the
map, their number and some number of black nodes on each path. `Proper` is the
least set of such descriptions that has the empty tree and, with two trees
that fit, the node above them (`MayJoin`, `JoinedBy`); being least, it gives
induction over trees (`ProperInduct`) without a recursive operator.

- Repairs. On the way back from an insertion a subtree may have a red root
  with a red left child. `Hangs` describes it, and `LeftSettles` and
  `RightSettles` are the cases of `Balance` above one: afterwards the subtree
  is proper if its root was black, and hangs if it was red. The rotations and
  the flip keep the pairs and the black nodes (`RotatesLeft`, `RotatesRight`,
  `Flips`, `JointMoves`).
- Insertion. `InsertIs` says by induction that `Insert` gives such a subtree
  with the pair put or replaced, and tells whether a key was added and how the
  bytes changed; `BytesGrow` is the change of the sum of all.
- The recursive functions exist, because they go to subtrees
  (`TreeRecursion`), and a proper tree is among their arguments, because it is
  no higher than it has nodes (`HeightIs`). `GetFinds`, `ProperLists` and
  `ProperBalances` are what they compute on a proper tree.

### The Bloom filter

`PartsProofs` proves `NeverFalseNegative` and `AlwaysInBounds` for every word,
hash function, size and number of positions; the second rests on a position
being below the number of bits and on the rounding up of the number of bytes.

### What the proofs rest on

The assumptions on constants are those of `Tables`, `Compaction`, `LsmTree`,
`LsmHistory`, `TreeScan`, `CompactionMerge`, `SSTable`, `Postings`,
`Statistics`, `InvertedIndex`, `Ranking`, `Roaring`, `RBTree` and `Bloom`; each
is evaluated in the runs. They say that keys are finitely many where they are
counted, that limits are numbers, and that marks for "nothing" are none of the
things they stand beside. Two restrict what the program can be given. One is
`Fits`, where a theorem names it. The other comes with `Places`: it is the tree
only under `Fits` and `Merging` (`TreeIsPlaces`), so all that is checked and
proved of `InvertedIndex`, `PostingsAgree` and `AnswersAreBetween` among it,
presupposes that posting lists, merged ones included, stay within
`MaxValueSize` and terms within `MaxKeySize`. The code checks neither.

Only model-checked: what records that readers refuse do to answers
(`MaintenanceInvisible` without `Fits`), what decoding makes of data that ends
too early, and `LockReleased` (liveness under fairness is out of the prover's
reach).

## 5. What is left out

- Reads that fail though the record is good; a disk that gives back other
  bytes than were written.
- Equal file names from the clock (`time.Now().UnixNano()`).
- `sstable.Write`, `bloom.Decode`, `RBTree.Min` and `Max`: nothing calls them.
- The two-index loops with which `roaring` walks the sorted keys of two
  bitmaps: `Roaring` states their result as a set of keys, which is the same on
  keys kept sorted.
- The limits `OptimalParams` puts on the rate: `BloomParams` takes the one rate
  `NewWriter` asks for.
- `bloom.Encode` and the meta data at the end of a file: nothing reads them.
- Crashes: nothing on disk is read by a later process.
- Tokens, lower case and stemming: a text is given as its words, a stem is a
  function of the word, and the order of keys is given by `Covers`.
- The sharing of memory between bitmaps: operations clone the containers they
  keep, and bitmaps are values in `Roaring`.
- Positions and numbers of documents at the end of 32 bits; a value of the
  tree that equals the tombstone's string.
- The last digits of weights: sums of floating-point numbers in another order
  may differ, and documents of nearly equal score change places.
- The cosine's division by the norms, which changes neither its sign nor
  whether a document is ranked. The order of `RankVSM`'s results is not
  modelled; which documents it lists, and the sign of their scores, are.
- The demonstration and the benchmark: fixed sequences of calls.

## 6. What could come next

- `InvertedIndex` and `Ranking` in one next-state relation, for calls that
  rank what a query has just answered.
