# ProvSQL: a verification project in TLA+

ProvSQL is a PostgreSQL extension that records how each row of a query result
was derived. A row carries a *token* (a UUID); the token names a *gate* of a
provenance circuit; the gate has a type, children, and possibly a probability,
two integers and a string. Tokens of derived rows are computed from the tokens
of their operands, so a gate, once created, never changes its meaning. Circuits
are kept outside PostgreSQL's tables, in memory-mapped files that one background
worker writes on behalf of all backends.

This project models the store and everything that makes it hard (a worker that
may die between two stores to memory, backends that share two pipes and one lock, a
rollback that the store knows nothing about, a machine that crashes between two
writebacks, a clean-up that replaces all the files at once), the sessions and the server of
the knowledge compiler, the tables whose rows carry tokens and the statements that
modify them, the rewriting of queries, and the evaluation of the circuits that come out.
The modules are model-checked with TLC on small instances; what matters most of the store,
its durability, its pipes, its clean-up, the probabilities, the compiler protocol and the
cached records of tables is proved with TLAPS for every instance.

Paths below are relative to the repository's `src/` directory unless they say
`doc/` or `sql/`.

## 1. Inventory

### The store and its users

| Part | State | Operations | Why it is hard |
|---|---|---|---|
| Circuit store (`MMappedCircuit`, `MMappedVector`, `MappedRegion`) | four files per database: token table, gate records, wires, strings; a dirty flag in each header | `createGate`, `setProb`, `setInfos`, `setExtra`, reads, `check`, `sync`/`flush` | several stores per operation, and the writer can be killed between any two |
| Token table (`MMappedUUIDHashTable`) | open-addressed table, count of entries, next value | `add`, `publish`, `find`, `grow` | the entry publishes the record; growth replaces the file |
| Worker and pipes (`provsql_mmap.c`, `provsql_shmem.c`) | request pipe, reply pipe, one LWLock; `circuits`, `store_dirty` in the worker | one opcode per operation of the store, the barrier `S`, idle flush | pipes have no message boundaries; atomicity only up to `PIPE_BUF`; replies carry no address |
| Probability store (`probability_store.c`) | undo list, list of replacement leaves, registered callbacks; per backend | `set_prob`, (sub)transaction callbacks | the store is shared and not transactional; savepoints nest |
| WAL resource manager (`provsql_rmgr.c`) | `in_redo` | log a store message, replay it | replay uses the same pipes as the backends of a standby |
| Clean-up (`circuit_cleanup.c`, `MMappedCircuit.cpp`) | lock on the database, new files, a marker | collect roots, mark, sweep, rename, finish at the next open | four renames are not one; the roots come from a snapshot |
| Gate cache (`CircuitCache`) | an LRU of gates per backend | filled by creations and reads, reset by clean-up | filled before the write is known to succeed |
| Table information (`table_info.c`, caches in `provsql_utils.c`) | rows of `provsql.table_info`, per-backend caches | look-up, invalidation | an invalidation may arrive during the read |

How they interact: a backend sends messages through `provsql_mmap.c`; creations
are not answered and go out under the shared lock when they fit one atomic write;
everything else goes out under the exclusive lock, which is kept until the answer
has been read. The worker
applies messages in the order of the pipe. `set_prob` reads and writes through
the same messages, and so does the abort callback that clears probabilities.
With `provsql.synchronous_commit` a transaction that wrote to the store sends `S`
before it commits and waits. With WAL logging, each store message is logged and
the startup process sends it again during recovery. Clean-up asks for the whole
database, then sends one request with all roots.

### Tables and statements

`sql/provsql.common.sql` and `sql/provsql.14.sql` add a column `provsql` to a table, a
guard trigger that watches it, statement triggers that turn INSERT, UPDATE and DELETE
into new tokens of the old rows, a log of these modifications (`update_provenance`) and
`undo()`. `provsql.table_info` records how independent the rows of a table are, and
`classify_query.c` computes the same of a query. State: the tables, the log, the record,
a cache of it per backend (`provsql_utils.c`). Hard: statements fire statements,
an effect must be found again by `undo()` and by the readers of the past, and what a
plan believes of a table must still be true when it runs.

### Planner

`provsql.c` rewrites PostgreSQL's query trees, pass after pass, so that results carry
their token; `safe_query.c` recognises the queries for which, with Boolean provenance, a
token that reads each input once exists, and rewrites them into groups of
subqueries. No concurrency, but each pass relies on the shape the ones before it left,
columns are renumbered everywhere, and NULLs decide what a sublink means.

### Evaluation

Reading a circuit gives a `GenericCircuit`, folded at load time under a provenance class;
from there, semiring evaluation, comparison of aggregates (HAVING), Boolean circuits and
their compilation to d-DNNF, probability methods and Shapley values are pure
functions of the circuit; what can be wrong is the algorithm, and when it applies.
External compilers are launched as processes or reached through KCMCP (`kcmcp_*`), a
small framed protocol with a supervised server, a cached connection and one retry.

`PROJECT.json` lists every component with its status, and under `hazards` what in
this code is hard to test, each at its line.

## 2. The modules

Each module describes its state in its header and names the operations of the
code it stands for; `PROJECT.json` maps the definitions that translate code to its lines (the
lines of an abbreviation are those of the definitions that use it). A module `XProofs`
holds the theorems about `X`, a module `MCX` gives the constants of `X` their values for TLC.

### MMappedCircuit: one store, one worker, any death

State: the vectors (`gates`, `wires`, `extra`) with their counts as in
`MMappedVector.hpp`, the token table as a function, the dirty flag, and the
locals of the handler in progress (`pc`, `msg`, `frame`, `base`, `k`, `kid`).
Actions: `Receive` takes a message; each handler is cut at its stores to mapped
memory. `CreateGate` decides between append, upgrade of a placeholder and drop;
`AppendWires`, `AppendRecord`, `AppendPublish` are `appendGate`; `UpgradeWires`
and `UpgradeRecord` the in-place upgrade; `Kids` the loop that adds unknown
children as inputs; `SetProb*`, `SetInfos` and `StoreInfo*`, `SetExtra` and
`StoreExtra*` the annotations. `Kill` ends the worker anywhere (with the count of
a vector possibly one ahead, `TornAdd`), `Terminate` between messages.

What it abstracts: a token is a model value with a fixed derivation (`Content`),
because tokens are computed from operands; the hashing of tokens is left out.

### ProbabilityStore: write-once values under rollback

State: the probabilities; for each session its nesting level, undo list
(`prob_writes`), callback registration, replacement leaves, and the abort in
progress. Actions: transaction control (external: PostgreSQL), `SetProb` and
`SetProbRefused` (the walk through annotations to the peeled gate, the test for an equal
value, the record in the list by `prob_writes_record`), `Unwind` and `UnwindFails` (a turn
of the loop over the list, in place: an entry above the aborted level is dropped, and
cleared by a message that may fail; another is moved down to the place it keeps; after a
failure the loop runs again and only drops), `Prepare*`, `NoteFreshLeaf`, `Reconnect`, `Crash`.

### PipeProtocol: bytes, locks and replies

State: the lock, the bytes in the request pipe, the units in the reply pipe,
where each process is in its call, where the worker is in its message. A message
is known by its sender, its number, and where each of its fields ends (`HeadEnds`, `End`);
a byte by its message and position. Actions: `Request`, `Acquire`, `Send` (one `write()`, at
most `PIPE_BUF` bytes when it must be atomic), `ReadReply`; `ReadOpcode`,
`ReadField`, `Apply`, `Reply` for the worker; `Kill`, `Restart`; `Redo` and
`Promote` for the startup process.

### StoreDurability: what a machine crash leaves

State: the files as the page cache has them (`mem`), and for each word the values
that may be on disk (`could`), since the kernel may write back any page at any
time. Forcing a file makes `could` a singleton. Actions: the client's
transactions with and without the barrier, the worker's creations (`ApplyCreate`,
`LazyAdd`, `EndCreate`), its flush in the order of the code (wires, gates,
mapping; on request or when idle; `syncing` is who it is for), `Stop`, and `Crash`, which
picks any outcome.
The token table's `grow` forces the table on its own (`GrowAt`).

### CircuitCleanup: replacing the files

State: the four live files and the four new ones, the marker, the rows of the
tables, the sessions with their snapshot and isolation level, the database lock,
the worker's place in the rebuild and its locals (what is marked, and the stack or what has
yet to be copied). Actions: `CallCleanup`, `LockDatabase`, `CountOtherDBBackends`,
`CollectRoots`; `Mark` and `Sweep`, one turn of the loops of `mark` and `sweepInto`, with
`EndMark`, `StartSweep`, `EndSweep` around them; `CreateMarker`, `Rename`, `RemoveMarker`,
`Reply`; `Fail`, `Crash`; and the statements of the other sessions.
`finishInterruptedCleanup` is what the next open does; the store that counts is the one it
would produce (`Effective`).

### KCMCP: a compiler that keeps running

`KCMCPLink` holds the sockets and the state shared by the parties: for each connection
who has it, the frames on their way in both directions, and the server's backlog.
`KCMCPClient` is a session: it looks up the endpoint, connects or reuses its connection,
waits for HELLO, sends the request, waits for the answer while looking for an
interruption, tries once more when a reused connection fails. `KCMCPServer` is one process
that serves one connection at a time: handshake, PING and REQUEST, the polls of a running
job, the ends it may come to; and the supervisor, which launches it, publishes its address,
reaps it, follows reloads. `KCMCP` composes the three, and `CompileService` is what a caller
relies on: each call ends once, with the compilation of its own problem, a failure, or
the interruption it was sent. `ServiceSpec` is the refinement: an abstract call is
pending when the session's program counter is not idle, the rest of the
abstract state has the same name.

### Tables: TableTracking, TrackedTables

The operations of the SQL layer are functions from the state that a transaction sees (a
record: relations, `table_info`, mappings, log, setting, the transaction's gate) to the
one it leaves, so that triggers nest as in the code. `TableTracking` has the operations
(`add_provenance`, `repair_key`, CREATE TABLE AS, mappings, the guard, the statements with their
triggers, `undo()`, the replacements of gates), what a backend remembers, and the two
sessions: one modifies in transactions, the other plans from its cache. What is computed by
recursion over a query or a token is left open there, as operator parameters: the relations a
query reads, its rows, its classification, the leaves of a token, its rewriting by `undo()`
and the replacements. `TrackedTables` defines them (`classify_query.c`, `replace_the_circuit`,
`substitute_gate`), and what the tables mean: `hist`, a history variable, is what was asked, and
the tokens are compared with its replay, the reading of the past with what was committed then.
The configuration gives the parameters the definitions of `TrackedTables`.

### Queries: SQLQuery, ProvenanceCircuit and the passes

`SQLQuery` gives parse trees and what PostgreSQL answers to them, as bags of rows with
NULLs and three-valued logic; the same evaluation serves the query as asked, in one possible
world, and the query as rewritten, over the whole database, where it also builds the gates
(`ProvenanceCircuit`: the gate-building functions of the SQL layer; `ProvenanceExpression`
says what a gate means in a world). `QueryNormalization`, `SublinkRewriting` and `SafeQuery` are passes,
`ProvenanceExpression` the annotation that is added at the end, and `QueryRewriting`
the planner hook: one action for each pass, in the order of `process_query`, the same
passes being applied below when the tokens of subqueries are collected.

### Evaluation: GenericCircuit, Semirings, HavingProvenance, ComparatorResolution

`ProvenanceEvaluation` loads a stored circuit under one of the three classes
(`GenericCircuit` folds it), then asks for its value in a semiring (`Semirings`,
`HavingProvenance` for comparisons of aggregates: the worlds, `subset.cpp`, and their
tokens) or for the Boolean circuit, after `ComparatorResolution` (closed forms, and the
marginals of aggregates) has replaced the comparisons it can. The references it is compared with evaluate
the circuit as stored: no fold, no closed form, and the sum over the worlds.

### Boolean circuits: BooleanCircuit, DDNNF, TreeDecomposition, CircuitEvaluation, ReachabilityCompiler

`CircuitEvaluation` asks for a probability by the name of a method, or under a tolerance
through the portfolio, whose next step is any that is ready (the order in the code
depends on calibrated costs; a compiler or a budget may fail at any time), and for
the expected Shapley and Banzhaf values. `BooleanCircuit` has the methods that work
on the circuit (possible worlds, read-once with certified islands, inclusion-exclusion,
Karp-Luby, Tseytin), `TreeDecomposition` the elimination order, the friendly decomposition
and the d-DNNF built over it, `DDNNF` what is computed on d-DNNFs; the intervals of d-trees are
in `CircuitEvaluation`. Doubles are exact rationals (`Rational`).

`ReachabilityCompiler` compiles, along the same decomposition but of the data, which vertices
of an uncertain edge relation are reached: tables from states of a bag to gates, bottom-up
(`runBottomUp`) and, unless a set of targets is asked, top-down (`runTopDown`).
The four state algebras of the code (reached, walk lengths, reached sets, covered
sets) are one record of which a query uses some fields. Its reference is the set of
worlds, in each of which walks are followed edge by edge (`CompilesReachability`).

### How they fit

The modules of the store share their vocabulary (a store is a token table, records, wires
and strings) and each takes the others' result as an assumption, stated in its header.
MMappedCircuit takes messages whole and in order, which is PipeProtocol's `PipeInv`.
StoreDurability and CircuitCleanup apply creations in one step for the stores of a
record, whose interruption MMappedCircuit covers. ProbabilityStore takes each clear and
write as one message with its answer, which is PipeProtocol's `AnswersTheAsker`.
KCMCPClient contains the branch of `BooleanCircuit::compilation` that calls it; to
CircuitEvaluation a compiler is then any correct d-DNNF or a failure. QueryRewriting
trusts the kinds of `table_info` whose truth TrackedTables checks (`CertifiedKindHolds`),
and the gates it builds are those ProvenanceEvaluation evaluates.

Besides TableTracking, three modules take their largest functions as operator parameters: `QueryRewriting` the
passes and PostgreSQL's executor, `ProvenanceEvaluation` the four stages of a session,
`CircuitEvaluation` the registry of methods and the compiler of reachability. Each configuration gives them the definitions
of the modules (`Rewrite <- Pass`, `Execute <- EvalQuery`, `Evaluate <- pec`, `evaluate_as
<- EvaluateMethod`, ...), and nothing else is ever put there. The reason is TLC: its coverage
statistics unfold an operator at each place it is used, which for functions this deep takes
hours, and do not unfold a parameter.

## 3. What the runs check

Passing runs:

| Run | Bounds | Properties |
|---|---|---|
| `store_kill` | 3 gates of three kinds (sum over product and leaf) created in any order, 2 probabilities, 2 info values, strings of 1 and 2 bytes, 1 kill, room for 4 records, 6 wires, 4 bytes | `FilesAgree`, `ChildrenWhole`, `PromisesStand`, `CreatedReadsBack`, `OnlyNamedTokenChanges`, and the inductive invariant `CircuitInv` (with the types, `StoreInv` and what the records say) |
| `prob_sessions` | 2 sessions, 2 transactions, nesting 2, 4 gates (one an annotation over another, one without a probability), 2 values, 1 fault | `ProbInv` (types and `OneOwner`), `CommittedWritesStand`, `RolledBackIsCleared`, `AcceptedStands` |
| `pipe_sessions` | 2 backends with 3 calls between them and 2 replayed records, UUID of 3 bytes, `PIPE_BUF` 12, pipe of 16 bytes, 2 reply units, 1 restart of the worker | `PipeInv` (types, `Framed`, `NeverShort`), `AnswersTheAsker`, `ReplyProvesApplied`, `EveryCallReturns` (liveness) |
| `durable_commit` | 2 sessions, 2 transactions, 2 gates, growth of the table at its second entry, 1 restart of the worker, 1 crash of the machine | `DurableInv` (types and `BarrierHolds`), `EventuallyForced` (liveness) |
| `cleanup_crash` | 2 sessions (symmetric), 2 transactions, 2 clean-ups, 1 failure or crash, 4 tokens, four stores to start from: version 1, version 2, damaged, two tokens of one record | `CleanupInv` (types and `KeepsSeen`), `RebuiltIsHealthy`, `TakenAlone` |
| `kcmcp_sessions` | 2 sessions with 2 and 1 calls, a peer that visits the server, 5 connections, 2 events (an interruption, a crash, a signal or a session's exit; a visit of the peer is two) | `KeptConnectionsAreQuiet`, `ServiceSpec` (refinement), `CallsEnd`, `Relaunched` (liveness) |
| `tracked_tables` | tables of 2 rows (with one key) and of 1 row, a derived one, a mapping; five scenarios with at most 2 definitions, 3 modifications and 1 plan between them, 9 queries to classify | `ContentIsReplay`, `PastStands`, `CacheAgrees`, `MappingsFollow`, `CertifiedKindHolds` |
| `rewrite_queries` | more than a hundred queries over seven tables of 2 or 3 rows with NULLs (two tables are copies of another, one is in blocks, one is not tracked), every world of the tables of the query, up to 1024 | `AnswersInEveryWorld`, `WhereCellsCarryTheValue`, `ReadOnce`, `EachPassKeepsMeaning` (action property) |
| `eval_circuits` | circuits of up to 8 gates for the folds and comparisons of every aggregate over 2 to 4 contributors (6 inputs in one circuit), private, joined, in a grid, united, repeated, certain or in a block; twelve semirings over private contributors, four to six elsewhere | `ValueAsStored`, `ProbabilityAsStored`, `CertificatesHold`, `SemiringLaws` |
| `circuit_eval` | every circuit of three gates over three inputs in the shapes of `Plain`, certain inputs, blocks of 2 and 3 alternatives, certified decisions, circuits of 4 inputs; edge relations of 3 to 4 edges (a cycle, a diamond, a path, a star, a block, a token for both directions), one or two sources, every kind of query, and relations that are refused; three tolerances; worlds enumerated up to 3 inputs, inclusion-exclusion up to 2 clauses, treewidth up to 4 | `WithinTolerance`, `SomeMethodAnswers`, `CompiledIsDDNNF`, `ValuesAreExpected` |

What they show, in words:

* Wherever the worker is killed, no index dangles and no range runs past its
  file; two tokens never share a record; a message about one token never changes
  what another reads as; children read back whole or not at all; an acknowledged
  annotation stays.
* A rollback clears what its (sub)transaction wrote, and never what another one
  wrote; what `set_prob` accepted for a gate that nobody else writes stands.
* Bytes of two backends never mix, a field never arrives in two reads, a reply is
  read by the one who asked, and a reply to `S` proves that the backend's earlier
  creations have been applied. Every call returns.
* A gate committed under the barrier survives a machine crash, unless an earlier
  crash had already left that token torn; an idle store gets forced out.
* A clean-up cut short at any point leaves every gate its roots are made of, with
  type, children, probability and string; when it answers, the store is healthy
  and every record in it is one the roots reach; nobody else is connected meanwhile.
* A caller of the compiler gets the compilation of its own problem, a failure or its own
  interruption, once, whatever the connection, the server and the supervisor go through; a
  connection that is kept has nothing left to read; a call ends unless somebody else's idle
  connection occupies the server for ever; a server that dies is there again.
* The tokens in the tables are what replaying the statements gives; reading the past finds
  the rows that were there at that time; a plan never uses a cached record that a committed
  change has made stale; maintained mappings name the tokens in the tables; a table or query
  certified as independent, or in blocks, has rows that share no variable, but for the rows
  of a join, of which only each row's own factors are known to be disjoint.
* In every possible world, the answers whose token holds are the answers of the query
  in that world, with their values and numbers, and this is so after each pass; a cell's
  origin carries its value; a token of the safe pass reads each input once.
* Loading with folds, closed forms and enumeration shortcuts never change the value of
  a circuit in a semiring that admits them, nor its probability; a semiring that does not
  is refused, except where its mark is on a gate that evaluation does not visit
  (`UnseenMark`, section 5); certified parts are
  deterministic and decomposable; the semirings are semirings, with the monus they claim.
* Every probability method that answers is within the tolerance, whatever the portfolio
  tries first and whatever fails; small circuits are always answered; what is compiled is
  a d-DNNF of the circuit, or of the reachability that was asked in every world; Shapley
  values are those of `doc/source/user/shapley.rst`, Banzhaf values the sums of marginal
  contributions over the subsets of the inputs the d-DNNF mentions, which is what the code
  computes and not the average that page defines (section 5).

Runs that end in a violation, each a disagreement between the code and what the
repository says of it (quoted in `PROJECT.json`, `findings`):

| Run | Property | What happens |
|---|---|---|
| `eval_upset` | `UpsetIsClosed` | the worlds of `sum(x) <> C` are flagged as an upset, and lose the contributors that must be missing |
| `rewrite_disconnected` | `AnswersInEveryWorld` | a safe query whose parts nothing joins, with two columns of one relation in its select list, shows the last one twice |

Other disagreements, found with the same modules, are in section 5.

### Why the bounds are enough

The instances are chosen by the cases they must contain rather than by size. In
`store_kill`, three gates give every order of parent and child (created first,
added lazily first, annotated before creation) and one kill is followed by
complete messages, so that the consequences of each torn state are seen. In
`pipe_sessions`, the sizes keep the ratios that matter: the head of a creation
leaves room for part of a UUID at the end of the buffer, there is a creation with as
many children as fit one write and one with a child more, the pipe is smaller than two
messages and the reply pipe smaller than the largest reply. Two transactions at nesting 2 give
a release followed by a rollback of either level. One machine crash per
behaviour suffices for the barrier, because a crash leaves an ordinary starting
state; four starting stores play that role for the clean-up.

In `kcmcp_sessions` one session calls twice, so that it reuses its connection, the other
waits behind it; two events are what it takes for a crash to meet an interruption or
a retry to meet a second crash. In `tracked_tables`, three modifications let an `undo()`
reverse a statement that came after another; two rows with one key give a block. In
`rewrite_queries`, a NULL, a duplicate value and a row without a partner are in the tables,
and the worlds are all there are. In `eval_circuits`, three or four contributors are what
the closed forms need to differ from each other (a count of exactly two, a missing
combination in a grid, a block); the limits of the code (16 certified contributors, 20
leaves, 24 bits of worlds, 2^24 for the range of a sum) are not reached, and the branches
beyond them are refusals.

`eval_circuits` leaves out, because the code is known to be wrong there
(section 5): the sum compared by `<>` in semirings that absorb and over the grid; repeated
contributors outside `boolean` and `interval_union`; `choose` and Boolean aggregates outside
the semirings whose sums are idempotent and absorbing; thresholds that are not integers for
closed forms on integers. `rewrite_queries` leaves out the query shapes listed there.

### Deadlock, fairness

`store_kill` checks deadlock: the worker can always go on. The others end when
their bounds are used up or the evaluation is over, so a final state is not an error
there; that nobody waits for ever is `EveryCallReturns` and `CallsEnd`.

PipeProtocol assumes weak fairness of the worker's steps, of each process's
acquisition of the lock, send and read, and of recovery: processes are scheduled,
a blocked `read` or `write` returns when it can, and the lock queues its waiters.
Nothing is assumed of kills or of new requests. The worker is only killed between
messages in that run; killed inside a request it leaves its asker waiting (see
section 5). StoreDurability assumes weak fairness of the worker alone: it polls
with a timeout, so an idle store is noticed. KCMCP assumes weak fairness of each
session's own steps, of the server's, of the end of a job and of the supervisor's:
they are processes that are scheduled, and a compilation ends (or is cancelled).
Nothing makes a session close its connection, send an interruption or exit, nor
anything fail.

## 4. What is proved

Every theorem below holds for any value of the constants that satisfies the named
assumptions of its module (`ContentAssumption`, `BoundAssumption`, ...), which say what kind
of thing a constant is. Each rests on an inductive invariant, with one lemma per action.

**The store** (`MMappedCircuitProofs`): any tokens, messages, bounds and number of kills.

* `StoreInvariant`: `Spec => []StoreInv`. `FilesAgree` is not inductive: that the next
  store keeps it depends on how far the handler has come. `StoreInv` adds which handler
  the worker is in and what it knows of the token (`Control`); the equation between its
  locals and the counts of the vectors (`Progress`: wires and bytes are appended past
  `base`, and the record points at `base` before its length is set); that slots past the
  end are blank and the record about to be published is nobody's (`Slots`); and the
  agreement of the files record by record (`AllInRange`), whether or not a token leads to
  the record. The torn `add` of a kill is a lemma of its own, where `Slots` is what makes a
  count that is one ahead harmless. From it: `TypeCorrect`, `FilesAlwaysAgree`,
  `RecordsNeverShared`.
* `CircuitInvariant`: `Spec => []CircuitInv`, which adds to `StoreInv` what the records say: each is a
  placeholder, half upgraded, or that of its token's gate; what was acknowledged is in it;
  wires and bytes already written for the message in progress are those of its token.
  From it: `ChildrenAlwaysWhole`, `PromisesAlwaysStand`, `CreatedAlwaysReadsBack`, and the
  action property `OnlyNamedTokenEverChanges`.

**Durability** (`StoreDurabilityProofs`): any number of sessions, restarts and crashes.

* `DurabilityInvariant`: `DurableInv` and, conjoined: what is in memory is among what may be
  on disk (`CouldType`); an entry of the token table is written once and healthy tokens
  have records of their own (`IndexInv`); the words a flush has been through are settled
  (`WorkerInv`); what the sender of a pending barrier created was applied, or is before the
  barrier in the pipe (`PendingInv`). The barrier alone is not inductive, since it says
  nothing before the answer.
* `DurableInvariant` is what the run checks; `CommitsOutliveCrashes` states it of a crash: a token
  committed behind the barrier reads back right after it.

**Probabilities** (`ProbabilityStoreProofs`): any number of sessions, gates and levels.

* `WriteOnceInvariant`: the list of a session is in order of nesting (`ListInv`); a live
  entry is a write its subtransaction vouches for, and each such write has its entry
  (`LiveInv`); what the only writer of a gate was told rests on a write that outlives it
  (`SoleInv`). In the middle of the loop the list is partly moved, so each part says what
  the turns so far have dropped. TLC checked this invariant before it was proved.
* From it, the four properties of `prob_sessions`: `OneUndoPerProbability`,
  `CommittedWritesAlwaysStand`, `RolledBackIsAlwaysCleared`, `AcceptedAlwaysStands`.

**Pipes** (`PipeProtocolProofs`): any number of processes, calls, sizes, kills and records.

* `ConversationInvariant`: `Base /\ (Orderly => Promises)`. `Base` holds whatever happens: the types
  and capacities, the lock modes (`Locked`), where each party is in its message.
  `Promises` is about the bytes (`Stream`: the pipe is messages one after the other, the
  first and the last possibly in part, the worker being where the first byte is), about the
  replies (`Exchange`) and about the order in which one process is served (`Ordered`).
* `Orderly` says that the worker has not been killed inside a message, and that no replayed
  record was one that takes several writes or is answered with more than is drained. Both
  are things the code allows, and after which the promises fail (section 5), so they are a
  condition of the theorems and not an assumption on the constants: `PipeInvariant`,
  `RepliesReachTheAsker`, `RepliesProveApplied` are `Spec => [](Orderly => P)`.
  `Undisturbed` discharges it for the instances in which neither can happen.
* `TypeCorrect` and `OneAtATime` need no condition.

**Clean-up** (`CircuitCleanupProofs`): any sessions, tables and bounds, any store to start
from, healthy or damaged, any failure or crash.

* `CleanupExclusive`: `Spec => []Exclusive`: the session that counted the others
  holds the lock on the database until it is answered, and from then on it is alone;
  `CleanupTakesDatabase`: `Spec => []TakenAlone`. The argument is that connecting needs the
  lock to be free; the invariant ties the lock to the place of each session in the call,
  and a busy worker to a session that waits for it.
* `RebuildInvariant`: `Spec => []RebuildInv`. `CleanupInv` is not inductive: it says nothing
  of the new files before the marker makes them the store. `RebuildInv` adds where the
  worker is in the request (`Phases`); the loop invariant of `mark`, that the marked
  records are reached from the roots, and closed under children but for the stack
  (`MarkedFrom`); that of `sweepInto`, that the new files hold a copy of each live record
  that was passed, at its new index, and nothing else (`SweptFrom`); and that a token that
  was not seen is not in the store either (`Remembered`). Lemmas say what a turn of each
  loop keeps and what its end gives (`MarkTurns`, `MarkEnds`, `SweepTurns`, `RebuiltFacts`),
  what a creation adds (`CreateFacts`), and that a renamed file is the one that would have
  been opened (`RenamedFile`). TLC checked the invariant on the instance of `cleanup_crash`
  before it was proved.
* From it, `CleanupKeepsSeen` (`Spec => []CleanupInv`) and `RebuiltAlwaysHealthy`
  (`Spec => []RebuiltIsHealthy`).

**KCMCP** (`KCMCPProofs`): any number of sessions, peers, connections and failures.

* `ConnectionInvariant`: for each connection, what is in flight in both directions given
  where the two ends are; in particular that one who sent nothing is owed nothing.
* `KeptConnectionsStayQuiet` from it; `ImplementsService`: `Spec => ServiceSpec`, every step
  being a step of `CompileService` or a stutter.

**Tables** (`TableTrackingProofs`): any tables, statements, queries, rows and transactions, and
any way of classifying a query, evaluating it or rewriting a token.

* `CacheIsCurrent`: `Spec => []CacheAgrees`: what a session remembers of a table is what
  its transaction would read. The code that has to see to it is scattered: a row trigger on
  `provsql.table_info` that tests whether the relation exists, DDL, and every path of the guard,
  the triggers, `undo()` and CREATE TABLE AS that ends in a write to a record. The argument is one
  relation between databases, `Covers(h, g)`: whatever `g` has changed of a record or of the keys
  of a relation, it has invalidated. It is reflexive and transitive, and each operation is
  shown to be such a step (`SetTableInfoCovers`, `GuardUpdateCovers`, ...,
  `ProcessUtilityCovers`), which for the row trigger needs that the relation exists or is
  invalidated already (`Watched`) and so the types of the relations: only a table that exists has
  the guard. `TrackingInv` adds to `CacheAgrees` these types and that what the transaction has not
  invalidated is as it found it, without which a roll-back would leave the writer with records of
  a database that is gone, and a commit the reader. TLC checked it on `tracked_tables` before it
  was proved.
* `TablesTyped`: `Spec => []TypeOK`, the types, of what the writer sees and of what a roll-back
  returns to.
* Statements go over rows and tables by folds. That a fold keeps what its step keeps is an
  induction, and the provers cannot instantiate an induction theorem with an operator:
  `FoldInduction` proves it once (`FoldKeeps`), the step and what it keeps being constants of the
  module, from well-foundedness and the definition of the folds in the community modules;
  each use is an instance of the module.
* The hypothesis `AnswersAreLists` says that the rows of a query, as `Answer` gives them, are a
  list: it is about every database, which TLC cannot go through, so it stands in the theorems and
  not among the assumptions of the module.

Only model-checked: the liveness properties (`EveryCallReturns`, `EventuallyForced`,
`CallsEnd`, `Relaunched`), which need fairness and `ENABLED`; and what queries, tokens and
circuits mean (`ContentIsReplay`, `PastStands`, `MappingsFollow`, `CertifiedKindHolds` and the
properties of `rewrite_queries`, `eval_circuits` and `circuit_eval`), whose modules work on trees
through RECURSIVE operators, over which the prover has no induction.

## 5. Observations without a run

What the modelling showed of the code beyond the two runs above. Where a model excludes
a case because of one of these, the model says so by name.

### The store

* Interrupted upgrade: `createGate` upgrades a placeholder with three stores
  (`MMappedCircuit.cpp` 132-136). A worker killed after the second leaves a `gate_input`
  with children: no longer a placeholder (125 asks for none), so later creations are
  dropped, and `check()` counts nothing; `provsql_mmap.c` 94-97 says check_store reports
  what an interruption left behind.
* Shared value: `set_prob` on a gate that already holds the value records nothing
  (`probability_store.c` 282), also when the value was written by a transaction still in
  progress; when that one rolls back it is cleared under the other, committed one
  (`doc/source/user/persistence.rst` 23-24: "makes rollback harmless").
* Replacement leaves: `fresh_leaves_record` does not register the callback that empties the
  list (`probability_store.c` 222), so in a session that never wrote a
  probability they outlive their transaction (216-217: "The list is per-transaction").
* Replay: `provsql_replay_store_message` drains the reply to `P` only, so each
  replayed annotation leaves its answer in the reply pipe (`provsql_mmap.c` 335-337); and it
  cuts a record every `PIPE_BUF` bytes, inside a UUID (326), so the worker's read may
  come back short. `pipe_sessions` replays small creations and probabilities only.
* Barrier: after a machine crash left an entry whose record was lost, `createGate` takes
  the token for known (`MMappedCircuit.cpp` 117), so a later commit under the barrier
  does not mend it (`excused` in StoreDurability; `provsql_mmap.c` 162-165 "closes the
  window entirely").
* Clean-up: the roots are read with a snapshot that may predate the lock (`unseen`
  in CircuitCleanup), and through the uncommitted deletions of the caller; if it rolls back,
  rows are there again whose gates are gone (`circuit_cleanup.c` 238; 14-15 "keeps every
  gate reachable from a token stored in the database"). A clean-up is not written to the WAL.
* The dirty flag is cleared by destructors that no orderly stop runs (the
  worker's signal handler exits), so a restart always finds it set;
  `doc/source/dev/memory.rst` 188-190 and `MMappedCircuit.cpp` 12 read otherwise.
* A server crash loses the undo lists of all backends, and with them the
  clearing of their probabilities; `doc/source/user/persistence.rst` 37-40 only
  speaks of rollback. The model excuses those tokens by name (`excused`).
* A worker killed inside a request leaves its asker in `read()`, holding the lock
  (`provsql_mmap.c` 92-94). A restarted worker has forgotten `store_dirty`: what its
  predecessor applied is not forced by the timer until the next write (`exposed`).
* `finishInterruptedCleanup` ignores the results of its renames and removes the marker
  anyway (`MMappedCircuit.cpp` 370-382): a rename that fails there leaves files of two
  generations. The model lets those renames succeed.
* When the marker cannot be created or a file not renamed, the worker exits and
  the caller of `circuit_cleanup()` waits, holding the database.
* The worker finds an open circuit by database, not by tablespace (`MMappedCircuit.cpp`
  388). The roots of a joint load (`CircuitFromMMap.cpp` 227) and the length of a string
  (`provsql_mmap.c` 791) are not checked against the buffer in a release build; the
  models assume that requests fit.

### KCMCP

* A session that cancels closes its socket; the server answers CANCELLED on it, the
  write fails, and the exception leaves the accept loop: the process ends
  (`kcmcp_server.cpp` 201; `doc/source/dev/kc-server-protocol.rst` 766-767 "sending an
  ERROR never terminates the **process**"). The model has it; the supervisor relaunches.
* A session that waits for HELLO behind the idle connection of another cannot be
  interrupted (`kcmcp_client.cpp` 187; `kcmcp_client.h` 30-32 "Honours PostgreSQL
  query-cancel"). `CallsEnd` names that case (`Starved`).
* Any SIGHUP recycles the managed server, changed or not (`kcmcp_supervisor.c` 184-196);
  the endpoint is published right after the fork, before the server listens;
  `pg_terminate_backend` on the supervisor ends it for good.

### Tables

* `replace_update()` makes rows mention a gate valid from now only: at a time before the
  replacement, inserted rows are lost and deleted ones are back (`sql/provsql.14.sql` 868;
  827-828 "it is extended"). `PastStands` is not asked after it.
* `undo()` rebuilds every gate that is not a leaf, of every tracked table: a block's
  alternatives lose their probability and become new ones, leave maintained mappings
  (`sql/provsql.common.sql` 1471-1474 reads otherwise; `MappingsFollow` excuses them) and
  the table is no longer in blocks. It fails on rows without a token; it and the triggers
  leave `update_provenance` on; its own effect does not name its own transaction; undoing
  the current transaction does not cover its later statements.
* `INSERT ... SELECT` that copies tokens within a table makes the trigger rewrite
  the rows it read; DELETE of one of two rows that share a token marks both.
* CREATE TABLE AS of a join is recorded as independent though its rows share source rows
  (for joined rows `CertifiedKindHolds` asks only that the factors of each row share no
  variable); a column `provsql` selected before the key records `block_key` off by one; a
  relation with the column but without a record counts as not tracked. An INSERT or UPDATE
  of the key breaks a block's promise. Ancestors are raw oids across a dump.
* A plain UPDATE of the mapped attribute leaves a maintained mapping stale; one created
  after modifications is keyed by compound tokens; the temporary table of
  `create_provenance_mapping` leaves a stale record; `remove_provenance` makes
  rows recorded as deleted real again. It also leaves the registry of mappings alone
  (`sql/provsql.common.sql` 1236-1272): after `remove_provenance` and `add_provenance` a
  maintained mapping still holds the tokens of before and none of those the existing rows
  have now. No scenario with a mapping has definitions left to do both, so
  `MappingsFollow` is checked over data modifications only, and is not provable for
  arbitrary scenarios as it stands.
* `doc/source/user/data-modification.rst` says the new row of an UPDATE "gets a fresh
  provenance token"; it gets a product with the old one.

### Queries

* `get_provenance_attributes` renumbers the columns of the select list only
  when a subquery's token goes (`provsql.c` 2240; 250-252), so a condition compares another
  column; FILTER is not copied to the aggregate of tokens (3086;
  `doc/source/user/querying.rst` 64 lists it as supported).
* EXCEPT with an arm that is not tracked (2261-2263); UNION inside UNION ALL
  (11726); EXISTS counts a column that may be NULL (11377-11386); decorrelation groups by the
  columns of the query, so duplicate rows merge; `rewrite_agg_distinct` drops the WHERE
  (6271-6281) and loses NULL groups; `ARRAY(SELECT ...)` without a match gives NULL
  (10069-10178); a condition on an aggregate moved up under an outer GROUP BY or DISTINCT
  (5435-5436); `removed` overwritten below set operations (14647-14648);
  `has_provenance` does not look into EXISTS and IN (7460-7563).
* Where-provenance: `add_eq` records any operator between two columns
  (2543-2588) and counts the columns of untracked tables; lowered outer joins lose it.
* Safe queries: `apply_constant_selection_fd_pass` drops every condition whose columns
  are all pinned, comparisons included (`safe_query.c` 3201-3226, whose comment speaks of
  redundant equijoins); HAVING without an aggregate is not remapped (2420-2427); a
  non-hierarchical core below a common variable is grouped into itself again and again
  (1260-1372), so the planner does not end; with functional dependencies, a token may be
  right but not read-once. `CertainAtom` assumes ordinary tables without children.

### Evaluation

* A union that appears twice among the contributors of a count is put twice in a
  block and taken for two exclusive alternatives (`AggMarginalEvaluator.cpp` 1174-1182).
* `plus` with the gate `one` folds to a marked `one`, which the next fold drops
  from a product without passing the mark on (`GenericCircuit.cpp` 86-105; 170-174), so
  `counting` and `how` answer as if the semiring absorbed. Likewise a fold onto an input moves
  the mark onto it, and evaluation starts with the inputs mapped and visits only gates that
  are not (`GenericCircuit.hpp` 233-237): below the root the mark is not seen, although the
  comment there (64-69) says "the marker must still refuse incompatible semirings there". In
  `counting` under the absorptive class, an input of value 2 times its union with itself gives
  4 instead of 8. `ValueAsStored` excuses both by name (`UnseenMark`);
  with the exception taken out, `eval_circuits` fails.
* A constant on the left of an order comparison with MIN or MAX (`having_semantics.hpp`
  514); `count` of an expression over no group that always holds omits the empty world
  (`subset.cpp` 105-109); an always-true comparison of SUM, MIN or MAX over no group
  becomes 1 (`RangeCheck.cpp` 1269-1273), and a comparison of a gate with itself
  becomes certain (1018-1033); thresholds are cut to integers (`MinMaxCmpEvaluator.cpp` 36,
  `CountCmpEvaluator.cpp` 252); `choose`, `bool_or` and `bool_and` telescope also where a
  sum is not idempotent; `decomposeProduct` accepts a repeated combination (415-417).
* An interrupt flag that is still set from an earlier statement ends a later evaluation
  (`probability_evaluate.cpp` 651-660, 2382-2391; `BooleanCircuit.cpp` 813;
  `MonteCarloSampler.cpp` 688).
* The Banzhaf value is the sum of the marginal contributions over the subsets of the other
  inputs (so `doc/source/dev/probability-evaluation.rst` 1289-1295), not the average that
  `doc/source/user/shapley.rst` 15-16 defines: it is larger by a power of two. The inputs are
  those the d-DNNF mentions, so an input one compilation drops and another keeps changes the
  sum (`test/sql/makedd_auto.sql` 8 calls the results of the routes identical). Shapley values
  do not depend on either. `BanzhafIn` in `DDNNF` is the documented average;
  `ValuesAreExpected` multiplies it by the number of subsets, and fails without that factor.

## 6. What is not modelled

* **Numbers that are not exact**: continuous distributions, moments, quadrature, sampling
  and its confidence. Doubles are rationals; a sampler is its expectation.
* **Compilers for special queries** other than reachability (UCQ, Moebius, joint width,
  inversion-free unions): dynamic programs over decompositions of the data, whose smallest
  interesting instance is beyond what TLC evaluates of them in recursive operators; of
  inversion-free orders, the structured d-DNNF is in DDNNF.
* **Parts of the planner** that have no meaning on the parse trees of SQLQuery: recursive
  queries, window functions, grouping sets, joins on aggregate tokens
  (`rewrite_join_agg_token`), permissions, the differences between versions of PostgreSQL.
* **Text**: parsing and printing of values, formulas, exports, DOT, DIMACS; external tools
  and their registry; migration of old files; Studio; the compatibility layer.
* **The gate cache** of a backend, the hashing of the token table, the log a standby
  follows: see the plan.
* The single-process build has no concurrency. The triggers of PostgreSQL before 14 are
  other texts of the same operations.

The map covers 30 % of the lines of the implementation; the other lines are mostly those
of the first four items and comments.

## 7. Plan

Done: the store, its durability, its pipes, its clean-up, probabilities under rollback;
KCMCP with its refinement; tables and modifications; query rewriting with safe queries;
semirings, comparisons of aggregates, Boolean circuits and reachability; the proofs of
section 4.

Next, in this order:

1. Token table: linear probing, `publish`, `grow`, as a refinement of the function
   that MMappedCircuit uses.
2. WAL: logging and replay on a store that is ahead of the redo pointer, a standby.
3. The gate cache: what a session may read when its own write was refused.
