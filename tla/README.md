# TLA+ models of the netai-devsecops-runbook programs

The repository is a runbook and a set of textbooks (about 520 Markdown files and
160 YAML manifests) with some 40 small programs that the books explain and run.
The programs are what can be modelled: each is a compact piece of a real
protocol - a replayable event pipeline, a durable file replacement, an io_uring
read, request deduplication, Raft's commit rule, MVCC and WAL recovery, device
allocation - or a tool of the repository itself.  Paths below are relative to
the root of the repository.

Contents: [parts](#parts-and-how-they-interact), [models](#the-models),
[runs](#what-each-run-checks), [bounds](#bounds-and-why-they-are-enough),
[fairness](#fairness-and-why-the-code-justifies-it), [proofs](#what-is-proved),
[disagreements](#where-code-and-text-disagree),
[not modelled](#what-is-not-modelled), [plan](#plan), [how to run](#how-to-run).

## Parts, and how they interact

The programs do not call one another, except that `learning/validate_docs.py`
loads and drives `check_lessons.py`.  Each interacts with something outside the
repository, which the models state as an environment: a file system and a
machine that crashes, the kernel's io_uring, a lossy network and callers that
retry, the election and replication half of Raft, child processes, Spark and
Iceberg, concurrent transactions and a buffer pool.

| Part | State it keeps | Operations | What is hard | What makes it correct |
|---|---|---|---|---|
| `kubernetes/observability/data-pipelines/examples/replay_demo.py` | source log, hot index with cursor, archive with cursor, missing offsets, two state views | load, validate, a tick per row (hot loop, archive copy), drain, retention, backlog copy, views, exit code | a rejection in mid-loop, a paused sink, redelivered and reordered rows, a prefix that expires | cursors tell the truth about their sinks; no offset is skipped silently; exit 0 means converged |
| `kubernetes/storage/data-systems-foundations/examples/io_durability_demo.py` | temporary and final name, stream, directory fsync status, report | write all, flush, fsync, close, rename, directory fsync, read back | partial writes, an error in every call, a kill or a crash between any two | the final name is never torn; what was acknowledged survives |
| `learning/ubuntu-linux-internals/examples/uring_read.c` | descriptor, buffer, ring, request-may-be-pending flag | open, fstat, malloc, ring setup, submit, wait, cleanup | the kernel keeps a pointer into the buffer; a failed call leaves that unknown | the buffer outlives the request; success means read |
| `learning/distributed-systems/examples/retry_dedup_model.py` | balance, execution count, results by request id | debit | lost, repeated and reordered requests and answers | one debit per id; one answer per id |
| `learning/distributed-systems/examples/raft_commit_model.py` | logs, current term, committed index | committed_index, committed_prefix | entries of past terms, overwriting by later leaders, late messages | what was committed stays in every later leader's log |
| `ai/learning/ai-infrastructure/examples/check_lessons.py` | open fence, table width, snippets, errors, child process | scan a line, end a file, run a snippet, time out, kill, report | state that leaks from block to block, children that keep pipes open or escape | it reads a page as `validate_docs.py` does; exit 0 means checked; the check ends |
| `learning/validate_docs.py` | errors, heredocs, the pictures a page has linked | check a book, scan and run heredocs, check a page, pictures, photos, report | numbered ids that clash with other headings; pictures judged after all pages | exit 0 means sound, and sound documentation passes |
| `learning/apache-iceberg/examples/` | warehouse directory with marker, table and its snapshots | guard, rmtree, mkdir, marker, v2 lab, v3 lab | other programs and crashes between guard and removal; tables that earlier runs left | only a marked directory is emptied; every run passes its assertions |
| `learning/databases-query-engines/examples/` (`mvcc_model.py`, `wal_recovery_model.py`) | versions and snapshots; page and log | visible, recover | aborted and concurrent transactions; a crash, and another during redo | one visible version per reader; redo loses no commit |
| `learning/ubuntu-linux-internals/examples/ring_lifetime_model.py` | pending requests, release log | submit, complete | early and repeated releases | a buffer is released once, after its completion |
| `learning/operating-systems/examples/` | ready queue; shared counter; page table | round_robin, nonpreemptive, simulate, translate | arrivals against requeueing; interleavings | every job is served in turn; the lost updates are those that overlap |
| `learning/computer-architecture/examples/` | pipeline stages; global orders | simulate, enumerate outcomes, fields | load-use waits | every instruction in its cycle; only the excluded outcome is missing |
| `learning/ubuntu-linux-internals/examples/` (`cgroup_budget.py`, `memory_pressure_model.py`) | CPU budget; memory account | run period; reclaim, write back | a budget that ends in mid-round | shares are even; the target is met and not undershot |
| `learning/distributed-systems/examples/replication_model.py` | value and applied index | apply | lost, repeated and reordered events | a replica is where its deliveries in order lead |
| `learning/gpu-operator-dra/examples/allocation_model.py` | reserved device names | allocate, reserve | names repeated on two nodes | one node, each device once; None only if no node will do |
| `learning/algorithms/examples/`, `learning/gpu-programming/examples/` | loop variables | searches, sorts, paths, tables; addresses, tiles | boundaries | agreement with a reference definition |
| `learning/security-cryptography/`, `machine-learning/`, `wireless-communications/`, `apache-spark/` examples | next to none | formulas, one lookup, calls into libraries | rounding | - |

## The models

| Module | Models | State and actions |
|---|---|---|
| `LogPipeline` | the promise of a replayable pipeline | a log, two sinks with cursors, an expired prefix; deliver, index, archive, expire |
| `ReplayPipeline` | `replay_demo.py` | `pc` is the place in `run_lab`: `load` (LoadLine, Validate = `load_events`, `validate`), `tick` (Deliver), `hot` (HotIndex, HotBreak = the inner `while`), `archive` (ArchiveCopy, EndTick), `drain`, Retention and `backlog`, `views`, `exited`. One action per loop iteration or straight-line block. `file` and `scenario` are the input |
| `AtomicFile` | the promise of replacing a file | `history`, the versions a reader or a crash may bring up, and `acked` |
| `DurableReplace` | `write_replace_verify` with `_write_all`, `_default_file_fsync`, `_default_directory_fsync` | the caller's `pc` follows the `with` body and the tail (`write`, `flush`, `fsync`, `close`, `replace`, `dirsync`, `verify`); the environment writes back pages in any order, commits directory changes in order, kills the process, crashes the machine |
| `WriteAll` | `_write_all` alone | `offset` against the bytes a stream really took |
| `UringRead` | `uring_read.c` | one action per call of `main` with its failure path and one per statement of the cleanup; the kernel fills, completes, posts foreign completions |
| `RetryDebit` | `AccountService.debit` | `balance`, `executions`, `results` as in the class; Repeat, Refuse, Execute are its three ways out; calls, losses, duplicates and answers are the environment |
| `RaftCommit` | `committed_index`, `committed_prefix` | the logs the script counts in are `known`: of every server as much as it has confirmed to the leader of the current term (`matchIndex`), an entry being its place and its term; Elect, Propose, Replicate are the environment; Commit is the script's judgement by the leader of a term |
| `LessonCheck` | `check()` and `main()` of `check_lessons.py`, `prose_lines` of `validate_docs.py` | one action per kind of line (CloseFence, BodyLine, OpenFence, ProseLine), EndFile, EndScan; BashTimesOut; then Popen, Judge, Timeout, Drain, Cleanup for each snippet; `raised` is the end by an exception, of `bash -n` taking too long or of the scratch directory that cannot be removed; snippets fork, escape, write, end or run forever |
| `RingLifetime` | `ring_lifetime_model.py` | `pending`, `state`, `released`, `release_log` as in the classes; submit and complete with finish and release_once inside; a completion for a request that has ended takes its id from `pending` before it raises. `UringRead` implements it |
| `Checker` | what the two checkers share | `pc`, `run_python`, `at`, `errors`, `exit` and the exit code of `main` |
| `DocsCheck` | the rest of `validate_docs.py` | `pc` is the place in `check`: `books`, `heredocs` and `run`, `pages` with links and ids, pictures, `photos`, `report`, or `raised`, by the lesson checker or by the removal of a scratch directory; a link may lead to a page of a book or to Markdown outside them; one action per book, heredoc and page. Slugs are sequences, so that "a-1" and the second "a" can meet |
| `IcebergLab` | `iceberg_local_lab.py` | the statements of `main` (Guard, TearTable and RemoveEntry for rmtree entry by entry, mkdir, touch) and of `run_v2_lab` and `run_v3_lab`, each with its assertion, over a table with every snapshot it ever had; Crash and Put (another program) come anywhere |
| `TxStore` | `visible`, `recover` | `versions` and snapshots of one item, its page on disk and the log; Begin, Write, Finish and WriteBack are the environment; a crash is judged in every state |
| `PythonData`, `Algorithms`, `Scheduling`, `SmallModels` | the pure programs: graph and table algorithms, search and sort; schedulers, races, budgets, pipeline, memory orders; device allocation, replica, addresses, sectors, tiles, memory account | one operator per function, a loop being a fold or an operator that calls itself |
| `Problem`, `AlgorithmsCheck`, `SchedulingCheck`, `SmallModelsCheck`, `TextbookModels` | the harness | any problem of any kind, answered in one step by the program's operator, and definitions of what the answer has to be that share none of its steps |

`MCReplay`, `MCWriteAll`, `MCRetryDebit`, `MCRaftCommit`, `MCLessonCheck`,
`MCDocsCheck` and `MCTextbookModels` give values to constants that a
configuration file cannot express.
The theorems about a module are in the module of its name with `Proofs` after
it: `ReplayPipelineProofs`, `DurableReplaceProofs`, `RetryDebitProofs`,
`RaftCommitProofs`, `IcebergLabProofs`, `TxStoreProofs`; those about `LessonCheck`
and `DocsCheck`, which extend `Checker`, are in `CheckerProofs`, and those about
`UringRead` and `SmallModels` in `TextbookProofs`.  Definitions marked "Faulty" are variants with one plausible
mistake, used to see that a property notices it; no specification uses them.

What is abstracted.  A payload is a number of chunks with the number of the
call that wrote it; a JSON row is its four fields that later code reads; a
Markdown line is what the scanner's rules ask of it (fence marker, table cells,
faults, whether it parses); a log entry is its term; an Iceberg row is its
status, amount, partition spec and lineage.  Timestamps, customers, byte counts,
SHA-256 (taken as identifying its input), traces that are only printed and
report formatting are left out.

## What each run checks

| Run | Question | Properties | States |
|---|---|---|---|
| `replay` | does the fixed schedule of the lab, for every input file, keep index, archive and views right? | TypeOK, SinksFollowCursors, HotKeepsUp, NoSilentSkip, SuccessMeansConverged, LatestState, ImplementsLogPipeline | 57 036 |
| `durable_replace` | three calls in a row on one directory with failures, kills and crashes anywhere | TypeOK, FinalNeverTorn, AckSurvives, ReturnMeansVisible, ImplementsAtomicFile, CallsEnd | 28 218 |
| `write_all_miscount` | a stream that reports too large a count: does "write every byte or raise" hold? It does not | EveryByteOrRaise (violated) | - |
| `uring_read` | every call fails or succeeds, the kernel is anywhere | TypeOK, BufferOutlivesRequest, SuccessMeansRead, NothingLeaks, LifetimeKept (implements `RingLifetime`), ProcessEnds | 134 |
| `retry_debit` | three callers over a lossy network, not enough money for all | TypeOK, ChargedOnce, AnswersAgree, EveryoneHears | 2 344 |
| `raft_commit` | three servers, four terms: is committed for good what the rule calls committed? | TypeOK, LeadersKeepCommitted | 795 270 |
| `lesson_check` | files of four lines, pairs of files, snippets that misbehave | ScannersAgree, TablesByBlock, ExitZeroMeansChecked, TimedOutGone, CheckEnds | 67 242 |
| `docs_check` | pages, pictures, photos and heredocs in every combination of faults: is exit 0 only given to sound documentation, and does sound documentation pass? | ExitZeroMeansSound, NoFalseAlarm | 1 034 496 |
| `iceberg_lab` | three runs over one directory that die anywhere, beside another program | TypeOK, UnmarkedKept, AssertionsHold, RefusalExplained | 15 558 |
| `iceberg_window` | does the default run empty only a marked directory? Not if a file comes in after the guard looked | OnlyMarkedEmptied (violated) | - |
| `tx_store` | three transactions in any order, a page written back at any time, a crash in every state | SeesOneVersion, RecoveryExact | 17 506 |
| `textbook_models` | every input up to the bounds: is every answer right, every schedule fair? | AnswersCorrect, TimelinesFair | 1 363 142 |

What they show beyond the yes or no:

- The archive of `replay_demo.py` reaches the log from three places, and only
  the decision taken once at the retention check keeps it from jumping a gap:
  with the guard of the backlog loop removed, `NoSilentSkip` fails.
- In `write_replace_verify` the fsync before the rename carries the whole
  guarantee: without it `ImplementsAtomicFile` fails after one crash.  A report
  of `unknown_not_tested` is the honest answer; turning it into "succeeded"
  makes `AckSurvives` fail.
- `uring_read.c` is right to set its flag before it submits, and right to leave
  the buffer to the system when it cannot know: either change frees a buffer
  under a request.
- A refused debit is not recorded, and need not be: the balance never grows, so
  a repetition is refused again (`AnswersAgree`).
- Counting copies of any term commits an entry that a later leader overwrites;
  it takes three elections, and TLC finds them.
- The lesson checker depends on killing the process group, not the process.
- `uring_read.c` implements the textbook's own model of a ring, although the
  two share no code: that main() acts on a completion only when it frees the
  buffer is what the mapping makes visible.
- The anchor rule of `validate_docs.py` is exact for all pages but those where a
  heading's own words end in a number that another heading is given; there it
  may report an id missing that the page has, never accept one it lacks.
- A lab that dies inside rmtree after the marker is gone leaves a directory that
  every later run refuses, and this is the only way it locks itself out.  With
  `--keep` a run passes over anything an earlier one left, thanks to dropping
  the table first, except over a table that was being removed when it died.
- Redo alone recovers exactly the crashes where the page on disk holds no
  uncommitted value that no committed record follows: `RecoveryExact` states
  both directions, as the code has no undo.
- Round robin lets nobody wait longer than one quantum of each other job, which
  depends on newcomers being queued before the job that is preempted.  The CPU
  budget forgets whose turn it was: each period starts with the first thread.
- The pipeline keeps its timeline, and `allocate` its answer, by name: of two
  instructions or requests of one name only the last is there to be read.

Deadlock is not checked: every program here ends, and its model then has no
step left.  `RaftCommit` stops when its terms are used up.

## Bounds, and why they are enough

- `replay`: files of up to five rows over four rows (three identities, one
  repeated in conflict, two of one run with the same highest sequence and
  different states, two runs, any order), up to three lines with blank and
  rejected ones, and one file past `MaxLines = 5`.  The rejection offset is 3 as
  in the code, so five rows put a tick, and the paused archive, after it;
  shorter files exercise a pause as long as the corpus.
- `durable_replace`: payloads of two chunks show every mixture of written and
  unwritten parts; three calls let one call meet an acknowledged version, a
  failed call's temporary file and a crash between them.
- `write_all_miscount`: 12 bytes in chunks of 4, so that a count can be larger
  than the slice and smaller than the rest.
- `uring_read`: a buffer of three pieces separates none, some and all.
- `retry_debit`: two debits of 5 and one of 3 with a balance of 9, so that not
  all of them fit and the order decides who is refused.  The sets of messages
  make repetition and reordering unbounded.
- `raft_commit`: overwriting a wrongly committed entry takes four terms (an
  entry of term 1, a rival of term 2, a count in term 3, an overwrite in term
  4); two entries let logs differ in length and in content, and leave room for
  a prefix.  Servers are symmetric; no liveness is checked in this run.  What
  longer logs and more terms could do is excluded by the proof.
- `docs_check`: four headings are enough for a slug, its repetition, a heading
  that already has the number, and a third one, with or without an id written in
  HTML, on a page of the book or outside it; two pages with a link from the later one show what order does; every
  fault occurs alone and with others.
- `iceberg_lab`: the first run makes a state, the second meets it and leaves
  another, the third meets that; two files of another program let one come
  before and one after the guard.
- `tx_store`: a reader beside two writers, of which one may abort and one end
  the other's version; four writes let both write twice.
- `textbook_models`: for `dijkstra`, adjacency lists of three nodes with up to
  three edges (`MaxEdges`), loops and parallel edges of different weights
  included; the other graph algorithms over all graphs of three nodes with
  weights that make a longer path shorter; requests and instructions that share
  a name, as both answers are kept by name; a preempted job, one waiting and one arriving; three devices on
  two nodes; matrices larger, smaller and not a multiple of the tile (products
  of single ones suffice, being bilinear); three log entries delivered up to six
  times.
- `lesson_check`: a fence left open, a shorter and a longer marker and a second
  kind of marker fit into four lines, as do a table, a block and a table; two
  files show what reaches the next file, two snippets what reaches the next
  snippet.

## Fairness, and why the code justifies it

- `DurableReplace`: WF on the caller's own step.  One thread runs
  straight-line code; the environment (write-back, journal, crash, kill) is
  under no fairness at all.
- `UringRead`: WF on the process and on the completion of a request, as a read
  of a regular file ends.  The interrupted wait (`-EINTR`) is outside the fair
  step: signals need not come, and are not endless.
- `RetryDebit`: a caller repeats until it hears (WF), and a message that is
  sent again and again is delivered in the end (SF): that is what a retry
  relies on.
- `LessonCheck`: WF on the checker, timeouts included (they are the operating
  system's clock), and WF on the end of children that left their session.  The
  second `communicate` has no timeout and `killpg` does not reach those
  children, so without this assumption a block could hang the checker; the
  program's help text calls the blocks trusted.  Snippets themselves are under
  no fairness: they may run forever.
- The other models are checked for safety only: `ReplayPipeline` and `DocsCheck`
  are finite loops, and `RaftCommit`, `IcebergLab` and `TxStore` are driven by
  environments that owe nobody a step.

Assumptions on the environment.  The file system renames at once or not at all
and journals directory changes in order; fsync makes its object durable.  One
caller at a time uses a directory, as `run_demo` makes a `TemporaryDirectory`
for each.  The kernel writes into a buffer only while it owns the request.  In
Raft, servers keep log and term over a restart.  Iceberg commits a statement
whole or not at all and never changes a snapshot; the program beside the lab
writes files, and removes none.  Transactions follow first-updater-wins and log
before they write; redo finds every log record.

## What is proved

TLAPS proves the following for every value of the constants - any set of rows
and files, any payload length, any number of calls, servers, transactions,
files or runs.  Each module states its inductive invariant as a conjunction of
named parts, proves that it holds in `Init` and over each action, and takes the
theorems from it.  The assumptions are those the modules name, which TLC
evaluates on every run.  Those on `None` (and `Refused`) say that what stands
for Python's `None` or an exception is none of the values it is told apart from.

`ReplayPipelineProofs` (assuming `InputAssumption`, `BoundAssumption`):

| Theorem | States |
|---|---|
| `TypeCorrect` | `Spec => []TypeOK` |
| `SinksFollow` | `Spec => []SinksFollowCursors` |
| `HotIndexKeepsUp` | `Spec => []HotKeepsUp` |
| `ArchiveNeverSkips` | `Spec => []NoSilentSkip` |
| `SuccessConverged` | `Spec => []SuccessMeansConverged` |
| `LatestStateHolds` | `Spec => []LatestState` |
| `RefinesLogPipeline` | `Spec => ImplementsLogPipeline` |

The argument goes in layers, each inductive with the help of those before it.
`Fed` is the type invariant with what feeding the log means: it is a prefix of
the validated rows, whose length the place in the program determines.
`SinksFollowCursors` is inductive on top of it, being stated for every place.
`Lag` strengthens `HotKeepsUp`: how far the index is behind at each place, and
that a second entry of lag would need a second rejection, which `retried`
excludes.  `Gap` strengthens `NoSilentSkip`: missing offsets are an interval
that begins at the archive cursor, and that cursor does not move afterwards.
`Viewed` says what the views show after part of the rows.  The refinement maps
the retention decision to `Expire` and every other place to a base of 0.

`DurableReplaceProofs` (assuming `SizeAssumption`, `CallsAssumption`):

| Theorem | States |
|---|---|
| `TypeCorrect` | `Spec => []TypeOK` |
| `NeverTorn` | `Spec => []FinalNeverTorn` |
| `AcknowledgedSurvives` | `Spec => []AckSurvives` |
| `ReturnedIsVisible` | `Spec => []ReturnMeansVisible` |
| `RefinesAtomicFile` | `Spec => ImplementsAtomicFile` |

None of the three safety properties is inductive: whether a rename keeps the
final name whole depends on the temporary file, and whether a crash does depends
on directory states that are no longer visible.  `IInv` adds `GoodDirs`, which
says of every directory state still possible that its final name leads to a
whole and durable payload, that versions grow along the states, and that no
later temporary name leads to an earlier final file; and `Stream`, which says
how much of the payload has reached which layer at each place of the call.
`GoodDirs` takes its directory sequence, contents and bounds as parameters, so
that lemmas speak of appending, dropping and changing once (`GoodAppend`,
`GoodPart`, `GoodContents`) and every action cites them.

`TextbookProofs` has the theorems about two modules.  Of `UringRead` (assuming
`BufferAssumption`):

| Theorem | States |
|---|---|
| `TypeCorrect` | `Spec => []TypeOK` |
| `BufferSafe` | `Spec => []BufferOutlivesRequest` |
| `SuccessSound` | `Spec => []SuccessMeansRead` |
| `Tidy` | `Spec => []NothingLeaks` |
| `KeepsLifetime` | `Spec => LifetimeKept` |

`Stages` says what `main` has at each place, `Pending` that the kernel has no
request as long as the flag is clear, and `Reported` that a completion of the
request's own is only there when the kernel is done with it.  The buffer is freed
only behind the test of the flag, which therefore protects it.

Of the operators of `SmallModels`, for inputs of any size:

| Theorem | States |
|---|---|
| `TilesMultiply` | `tiled_matmul(..., size) = reference_matmul(...)` for integer matrices and any tile size |
| `AllocationExact` | `allocate` answers None exactly if no node has, of every amount of memory, as many free devices as requests for it; else it takes the first such node and the first selection there that gives each request a large enough device of its own; each name leads to the device of the last request of that name |
| `ReplicaInOrder` | after every delivery a replica is where the log can be read off the deliveries so far in order, no less and no more, with the log's value of there |
| `SectorsTouched` | `touched_sectors` are the sectors of the bytes of the accesses |

`TilesMultiply` goes through the sum: that it exists for any finite set, does not
depend on the order, and that base and offset count along the inner dimension,
each place once (`TilesCover`); what lies past the end adds nothing.
`AllocationExact` rests on `ChoiceExists`: if there are enough places of every
amount, the smallest request finds one that the larger ones have left, because all
of them together are as many as it counts.  `FirstOfIs` says that among finitely
many tuples one comes first, so that the `CHOOSE` of `FirstOf` chooses it.  The run
`textbook_models` checks the same four on small inputs, beside whole problems.

`RetryDebitProofs` (assuming `AmountAssumption`, `SentinelAssumption`):

| Theorem | States |
|---|---|
| `TypeCorrect` | `Spec => []TypeOK` |
| `PaidOnce` | `Spec => []ChargedOnce` |
| `ToldTheSame` | `Spec => []AnswersAgree` |

`ChargedOnce` and `AnswersAgree` are inductive with the types.  The work is in
the sum over the recorded requests: that it exists for any finite set, does not
depend on the order in which `MapThenSumSet` chooses, and grows by the amount of
the request that is added.

`RaftCommitProofs` (assuming `RaftAssumption`):

| Theorem | States |
|---|---|
| `TypeCorrect` | `Spec => []TypeOK` |
| `LeaderCompleteness` | `Spec => []LeadersKeepCommitted` |

An entry of the current term that a majority may still confirm is `Open`: there
is a majority whose members hold it or have not gone to a later term.  Once
closed, it stays closed.  `Held` says that whoever confirmed an open entry holds
it with its past, `Kept` that every later leader has every open entry: its voters
share a member with the majority, and `UpToDate` together with `Orders` (terms do
not decrease along a log) and `LogMatching` (entries of one place and term have
one past) gives the candidate the entry.  `Leadership`, `Quorums` and `Confirmed`
say what is left of an election.  The attempt showed that the environment had
let the leader count entries of servers that had gone on to a later term.  The
leader does not see their logs; it knows what they have answered it, which is
what `matchIndex` and `known` now say, and what the textbook's chapter
(`learning/distributed-systems/05-raft-logs-and-commit.md`) says.

`CheckerProofs` (assuming `PathsAssumption`, `NoneAssumption`, `ExitAssumption`,
`InputsAssumption`) has the theorems about both checkers.  Of `LessonCheck`:

| Theorem | States |
|---|---|
| `SameProse` | `Spec => []ScannersAgree` |
| `UnevenRowsReported` | `Spec => []TablesByBlock` |
| `GroupGone` | `Spec => []TimedOutGone` |
| `ZeroMeansChecked` | `Spec => []ExitZeroMeansChecked` |

`Scanned` says that the scan carries along what `prose_lines` computes for the
whole file; `Widths` that the width in hand is that of the first row of the table
the last line is in, or nothing; `Faultless`, `Blocks` and `Counted` that as long as
there is no error, nothing that lies behind was faulty, uncollected or unpassed;
`Killed` that after the kill only escaped children are left.  Paths may be any
files of any length.

Of `DocsCheck`:

| Theorem | States |
|---|---|
| `ZeroMeansSound` | `DocsSpec => []ExitZeroMeansSound` |
| `ErrorsAreReal` | `DocsSpec => []NoFalseAlarm` |

Of the invariant `DocsIInv`, `Heredocs` says which blocks have run or failed at
each place, `Pictures` that the pictures in hand are those the pages behind link,
`Clean` that as long as no error is recorded nothing that lies behind has a fault,
and `Caused` the converse: each error has its fault.  What joins this to the
rendered page is about ids, for any page.  The validator numbers a repeated
heading by its predecessors with the same slug, a renderer by the first number
that is free.  `AcceptedIsRendered` shows that every id the validator accepts is
on the page: as many numbers as a heading has predecessors cannot all be taken
without its own being among them.  `RenderedIsAccepted` shows that the two agree
unless a heading's own words end in a number, as `Clash` says.

`IcebergLabProofs` (assuming `BoundAssumption`, `NoneAssumption`):

| Theorem | States |
|---|---|
| `TypeCorrect` | `Spec => []TypeOK` |
| `UnmarkedAreKept` | `Spec => []UnmarkedKept` |
| `AssertionsPass` | `Spec => []AssertionsHold` |
| `RefusalsExplained` | `Spec => []RefusalExplained` |

`Marked` says where the marker is; `Foreign` that files from before it are neither
under it nor in rmtree's list, unless something came into the window.  For the
assertions, `InsertedIs`, `UpdatedIs` and `DeletedIs` say what a statement leaves
of any table, `Script` what the table holds at each place of a run, as far as an
assertion still to come depends on it, and `Orders` that remains without a table
come only from a torn removal and meet only runs with `--keep`.

`TxStoreProofs` (assuming `XidAssumption`):

| Theorem | States |
|---|---|
| `OneVersion` | `Spec => []SeesOneVersion` |
| `RedoExact` | `Spec => []RecoveryExact` |

A view is a set of transactions taken for done.  `Views` says that what a running
transaction sees is one version, `Tip` that everything committed shows one; what
keeps this so at a commit is `Writers`: a running transaction that has written is
the one that has ended the version the committed view shows, so there is at most
one.  `Log` ties versions, records and the page to one another, and redo is
followed record by record.

Recursive definitions.  The library's induction theorems take a predicate and
cannot be used here; `SetInduction` does the same for a set and is proved from the
well-foundedness of the natural numbers.  With it the proofs show that the
functions `fences`, `Redone`'s `after`, the renderer's `ids` and the sums over
requests and over a row exist and follow their equations for every input, which
is what the theorems need.

Only model-checked:

- liveness (`CallsEnd`, `ProcessEnds`, `EveryoneHears`, `CheckEnds`), which is out
  of the prover's reach, as is the `ENABLED` with which `CallsEnd` says that no
  turn of a call changes nothing: such a turn would be a stutter, which fairness
  does not count, and a loop of them would never end;
- `TextbookModels` (`AnswersCorrect`, `TimelinesFair`) but for the four theorems
  above: the operators of `Algorithms` and `Scheduling` are folds and operators
  that call themselves, and a module that reaches a `RECURSIVE` declaration
  cannot be given to the SMT backend;
- `WriteAll`, whose one property is violated.

## Where code and text disagree

`_write_all` is documented to "Write every byte or raise; handles streams that
report short writes." (`kubernetes/storage/data-systems-foundations/examples/io_durability_demo.py:62`).
Line 73 compares the reported count with what is left of the whole payload, not
with the slice of at most `CHUNK_SIZE` bytes handed over at line 66, although
the error it raises says "write returned more bytes than requested".  A stream
that takes a slice and reports more than its length is believed, and the
function returns with bytes missing (`write_all_miscount`).  A stream of the
standard library does not do this, and the readback would notice it.

The guide of the Iceberg lab says that the default run empties only a warehouse
that has the marker (`learning/apache-iceberg/09-local-lab.md:60`).  `main` looks
at the directory at lines 312-321 of `iceberg_local_lab.py` and then, without
looking again, removes what is there (322-323), or makes and marks what has
appeared since (324-325), for the next run to remove.  A file another program
writes into the unmarked directory in between is lost (`iceberg_window`).  As
long as nothing comes in there, the guide is right: `UnmarkedKept`.

## What is not modelled

- `machine-learning`, `wireless-communications`, `collective_cost_model.py`,
  `join_cost_model.py`: formulas, most in floating point, on constants.
- `security-cryptography`: a set insertion, a set lookup and a call of `hmac`
  are each one step, and no sequence of calls can go wrong.
- Spark labs: everything happens inside Spark.
- `run_demo` and the argument parsers: they check sizes and format reports.
- YAML manifests: input of external controllers, none of whose code is here.
- Two callers of `write_replace_verify` in one directory: excluded by
  `run_demo`, and unsafe, because the temporary name is fixed.
- Two Iceberg labs over one warehouse at once; each is one process in the guide.
- In `validate_docs.py`, what a heredoc leaves behind when it is killed: its
  runner repeats that of `check_lessons.py`, where `LessonCheck` models it.
  `DocsCheck` states safety only, so its heredocs may also never come back.

## Plan

The order follows what would hurt most if it were wrong.  The modules are
written, and every safety property but those of `TextbookModels` is proved.

## How to run

    tlc -config DurableReplace.cfg DurableReplace
    tlc -config Replay.cfg MCReplay
    tlapm RaftCommitProofs.tla

The module of a run is the one whose name its configuration file has, with `MC`
before it where such a module exists; `WriteAllMiscount.cfg` goes with
`MCWriteAll` and `IcebergWindow.cfg` with `IcebergLab`.  The community modules
must be on the path.
