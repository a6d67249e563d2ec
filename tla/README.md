# A verification of the operating-systems coursework

This project models the concurrent and stateful programs of the repository in
TLA+, checks the models with TLC, and proves theorems about them with TLAPS.
The repository holds LemonDB (`src/Projects/p2`), a shell (`src/Projects/p1`), a
lottery scheduler (`src/Projects/p3`), and exercises (`src/Labs`, `src/Homework`).
LemonDB's query scheduler comes first: it is the largest program, and what can go
wrong in it depends on interleavings that no test can force.

The code is the reference for every definition; `PROJECT.json` gives the lines.

## 1. Inventory

### LemonDB, an in-memory database with concurrent queries

| component | state | operations | promises |
|---|---|---|---|
| dependency tracking (`scheduler.cpp` 31-99, `scheduler_helper.hpp` 203-230) | last write per table, pending reads per table, last global write | compute a task's dependencies, record the task | whatever a task must follow is done before it runs; reads are not held up by reads |
| query scheduler (`scheduler.cpp`, `scheduler_helper.hpp`) | `doneSeqs`, `resultBuffer`, `flushUpTo`, `finalSeq`; the places of main thread, workers and printer | parse and schedule, execute, buffer, mark done, print, QUIT, shut down | results are those of running one query at a time, are printed once and in input order, and `execute()` returns |
| `ConcurrentQueue`, `WorkerPool` (`scheduler.h`) | queue, `closed`, sleeping threads | push, pop, close, join | no task is lost, nobody sleeps for ever |
| query kinds (`Query.h` and subclasses) | none | `isReadOnly`, `isDbLevel`, target table | every conflicting access is classified as such |
| conditions (`Query.cpp`) | condition list, key | `initCondition`, `evalCondition` | the fast path on KEY agrees with a scan |
| table (`Table.h`, `Table.cpp`) | rows, key index, fields | insert, look up, set key, erase, clear | index and rows agree, keys are unique |
| database (`Database.h`, `Database.cpp`) | table map, file-name cache | register, drop, look up, file name of a table | names are unique |
| data queries (`query/data`) | none of their own | change or read a table row by row | all rows or an error |
| management queries (`query/management`) | none of their own | load, dump, copy, drop, list, show, quit | as above, for tables |
| parser and builders (`QueryParser.cpp`, `QueryBuilders.cpp`) | chain of builders | text to query, or an exception | every query has one builder |
| entry point, formatting, exceptions (`main.cpp`, `utils`) | none | | |

How they interact: the main thread parses a query, numbers it, computes the
numbers it must wait for, raises the printing watermark `flushUpTo` when the query
is not read-only, and pushes the task to the queue.  A worker pops it, waits on
`depCv` until its dependencies are in `doneSeqs`, executes it against the database,
stores the text in `resultBuffer`, adds the number to `doneSeqs` and notifies
`depCv`.  The printer waits on the same `depCv` and prints the results up to the
watermark in order.  After QUIT or the end of the input, the main thread closes the
queue, joins the workers, publishes `finalSeq` and joins the printer.  There are
three mutexes, and two atomics that the printer's predicate reads and that are
stored without any mutex.

Hard: tasks that run at once; workers that block inside a task on tasks still in
the queue; notifications sent without the mutex of the predicate; dependencies that
are forgotten at each write; exceptions half-way through a query; the shutdown.

### The other programs

| component | state | hard behaviour | promises |
|---|---|---|---|
| mumsh job control (`p1/src/main.c`, `built_in.c`) | child processes, pipes, signal disposition | SIGINT and SIGCHLD during `wait`; `pipe` or `fork` failing half-way | the prompt returns after its children, no pipe is left open |
| mumsh parser (`parser.c`, `utility.c`) | fixed arrays of arguments and stages | lengths at the limit | lines are split as typed or refused |
| lottery scheduler (`p3/userspace/lottery.py`, `p3/ebpf`) | kernel map of pids, candidates, current winner | processes that exit between a read and a signal | one task runs at a time, dead ones are forgotten |
| lists (`h3/ex2`, `l5`) | a linked list, a double list | comparisons that overflow or are random, sorting a list into itself | sort permutes and orders, equal entries stay in order |
| lab 9 driver (`l9/src/dice.c`) | device settings | readers against writers, set-up failing half-way | a read gives as many dice as were set |
| homework counters (`h4`) | a file, a variable | two processes or threads at once, a test outside the lock | no count is lost |

Small scripts, display clients, message printing and formatting have no state
worth a model.

`PROJECT.json` lists each component with its status, and the hazards with the
properties that would catch them.

## 2. Modules

| module | models | built on |
|---|---|---|
| `Queries` | the kinds of queries: class, table, footprint, what they write | |
| `DependencyTracker` | `computeDependencies`, `updateDependencyState` and their helpers; `DepSpec` is the bookkeeping alone, fed with any input | `Queries` |
| `ConcurrentQueue` | the queue's critical sections and notifications, as actions | |
| `QueryScheduler` | `QueryScheduler::execute` with all its threads | `DependencyTracker`, `ConcurrentQueue` |
| `SerialDatabase` | abstract: a database that runs one query at a time and answers in order | `Queries` |
| `Table` | a table as a value: rows, index, fields, and the operations on them | |
| `Conditions` | `initCondition`, `evalCondition` | `Table` |
| `Database` | every query on tables, files and the file-name cache, row by row | `Conditions`, `Queries` |
| `QueryParser` | the chain of builders and what they keep between lines | |
| `ShellParser` | mumsh: `preprocess`, `check_syntax`, `parse_pipeline`, `tokenize` | |
| `Mumsh` | mumsh: prompt loop, pipelines, `wait`, both signal handlers | |
| `Lottery` | the tracepoint's map and `lottery.py`, among processes that come and go | |
| `SortedLists` | the lists of homework 3 and lab 5 with their sorts | |
| `Counters` | the three counters of homework 4 | |
| `Dice` | the character device of lab 9 | |
| `MC...` | instances for TLC; `MCPrograms` joins the two parsers and the last three, as alternatives of one run | |
| `SetRecursion` | no program: what the folds over sets and sequences that the models use compute, and that functions given by a recursion exist | |
| `..._proofs` | theorems about the module of that name, `QueryScheduler_proofs` about `DependencyTracker` too; `DatabaseQueries_proofs` is about `Database`, `Coursework_proofs` about `Lottery`, `Dice`, `Counters` and `SortedLists` | |

### QueryScheduler: from the code to the model

* A **task** is its query and the set `waitAll` of the numbers it waits for; its
  number is its index in `tasks`.  A **query** is its kind and target table.  The
  kinds are those that `isReadOnly`, `isDbLevel`, `isQuit`, `getTargetTable` and
  direct printing tell apart (see the head of `Queries`).
* The **database** is abstracted to versions: `store[o]` is the number of the query
  that last wrote object `o`, an object being a table or the map of tables.  A
  result is what the query saw of its footprint at its beginning and at its end,
  so two queries that wrongly overlap show it.  A table query reads the map of
  tables and its table; LIST reads all; LOAD, DROP and COPYTABLE count as reading
  and writing every object, as the code calls them global barriers.
* **Threads.** `mpc`, `wpc[w]` and `ppc` say where each thread is.  Each critical
  section is one action, and so is each store of an atomic and each notification.
  `execute()` of a query is two actions, `WorkerBegin` and `WorkerEnd`.  The main
  thread's work on one query, up to the barrier, touches nothing shared: one action.
* **Condition variables** are sets of sleeping threads: `popWaiting` for the queue's,
  `depWaiting` for `depCv`.  Waiting is an action that tests the predicate and, when
  it is false, joins the set; a notification takes threads out; a woken thread tests
  again.  `SpuriousWakeup` wakes a thread for nothing.
* **The printer's predicate** reads atomics that are stored without `depMutex`, so
  its test (`PrinterCheck`) and its going to sleep (`PrinterBlock`) are two actions
  with `depMutex` held in between; `depLock` says so to those who need the mutex.
  Within the test the atomics are read at one moment: both only grow, and `finalSeq`
  is stored once, so reading them one after the other has the same outcomes.
* **Exceptions** that leave `execute()`, or the formatting after it, are
  `WorkerThrow`: the task counts as done, has no result, and what it was to write
  counts as written.
* **A parse error** leaves `parseAndScheduleQueries` uncaught.  `execute()` catches
  it, and unwinding destroys joinable threads: `std::terminate` (`MainTerminate`).
* Left out: `coutMutex`, which guards only `std::cerr` messages; the text of results;
  `lastLoadSeq`, which nothing reads; pieces of one result in `std::cout` (a line is
  appended in one step).

### Table, Conditions, Database

* A **table** is a record: `fields`, `data` (a sequence of rows, each a key and a
  sequence of values, which INSERT may leave shorter or longer than the columns),
  and `keyMap`, a function from keys to positions.  The operations of `Table.h` and
  `Table.cpp` are operators on such records, those of the lookup by key included:
  `erase` moves the last row into the gap, `eraseMany` builds the rows and the index
  anew.  An iterator is a position.  A `ValueType` has `Width` bits and wraps, as the build does.
* A **key** is a base and how many `_copy` it ends in; what DUPLICATE does with keys
  depends on nothing else.
* A **clause** is a sequence of conditions.  `Stops` says where `initCondition` ends
  early; a comparator it did not come to is `Unset`, and evaluating a row against it
  throws `std::bad_function_call`.
* A **query** that scans does one row per step (`SkipRow`, `FailRow`, `SelectRow`,
  `AggregateRow`, `RewriteRow`, `RekeyRow`, `CollectRow`), so that an exception
  leaves the rows before it changed.  DUMP opens its file in one step and writes it
  in another.  All other queries are one step.
* **Order.** The main thread parses up to `ahead` queries before the first executes,
  and a query may overtake those it is not in conflict with, by the same `Conflict`
  of `Queries` that `QueryScheduler` orders by (`Ready`).  `Database` runs queries
  one at a time: that conflicting ones do not overlap is what `ConflictOrder` and
  `SerialResults` say of the scheduler.
* **Files** hold nothing, or a printed table.  Names and numbers are printed in
  columns of ten characters with nothing between them, so one that has ten or more
  runs into its left neighbour: `NamesApart` says of the column names, and `Readable`
  of the numbers, that none does, and LOAD refuses the rest (`Unloadable`).
  `WideNames` are the column names of that length.  The cache of table names is filled by
  the builders of DUMP and LOAD, hence while parsing.
* `of` in a file and `before` in a run are history.

### The parsers

`QueryParser` walks a line token by token, one step per builder or clause; the
fields of the third builder outlive the line, and `clear()` is one of the steps.
`ShellParser` works on characters, of six kinds; `sLive` counts what is allocated.
Both are checked against a definition of what the line says (`Texts`, the query
written down; the shell's grammar), not against themselves.  The array sizes of
`parser.c` (64 stages, 64 arguments) are left out: TLC cannot enumerate lines of
that length.

### Mumsh

* A **stage** is `brief` (ends by itself), `filter` (ends at the end of its input) or
  `writer` (never ends by itself, but by SIGPIPE); commands differ in nothing else.
* A **child** has inherited the ends of pipes that the shell had open when it forked,
  and closes them in `SetupChild`; a filter sees the end of its input when nobody
  holds the write end, the shell and all earlier children included.
* **Signals** are pending until delivered at any step of the shell.  `dialect` is the
  semantics of `signal()`: under `"sysv"` a handler serves once and `wait` or `fgets`
  is interrupted, under `"bsd"` the handler stays and the call is restarted.
  `sigchld_handler` reaps whatever is dead, so `execute_pipeline`'s own `wait` may
  find no child.
* `pipe()` and `fork()` may fail at any stage, and `fgets` with an error that is
  neither the end of the input nor EINTR (`ReadFails`), which shows a prompt too many.
* Left out: what `cd` and `pwd` do, redirections once parsed, exec that fails (such a
  stage is brief).

### Lottery

* `runnable` is the kernel map; `trace_sched_switch` adds both pids of a switch while
  there is room.  Processes are born, die, and take pids that were free before.
* `lottery.py` reads the map, chooses its candidates (`Filter`), draws (`Draw`), and
  pins one process per step (`PinOne`), between any of which processes may die.  What
  it reads of `/proc` for all candidates is read in one step.  The draw is any
  number a candidate has a ticket for.
* `allowed[p]` are the CPUs that the kernel confines `p` to, by a cpuset or because it
  is a kernel thread bound to one CPU, and `aff[p]` those of them it may run on now.
  `set_affinity` (`taskset`) fails when no CPU is left, and the bare `except`s of
  `set_forced_run` swallow that: the process stays where it was.  So a kernel thread
  bound to CPU 0, which becomes a candidate when the user has no process in the map or
  when `lottery.py` is started by root itself, runs beside the winner, and `WinnerAlone`
  is about the candidates that may run where they are put.  A `taskset` that fails for
  another reason leaves its process out as a swallowed Ctrl+C does.
* Ctrl+C ends a round anywhere, or is swallowed by the bare `except` of
  `set_forced_run` and of the cleaning (`SwallowedInForce`, `SwallowedInClean`).
* Cleaning deletes nothing: the key that it passes to `bpftool` is refused
  (`deletedKeys`), although `Changelog.md` line 12 says dead pids are removed.
  `ExitRestores` even relies on it, for what is no longer in the map is not cleared.
* Left out: the statistics on screen, the maps of run times that nobody reads, and
  the affinity a child inherits from a pinned parent when the full map never sees
  it.  `lottery.py` runs as root.

### The exercises

`SortedLists` reads a file, sorts by the three orders with `merge_sort` (or `qsort`)
and writes; a comparison of ints subtracts and wraps, and the random one has several
answers.  `Counters` steps through the commands of the two scripts and of the threads.
`Dice` has readers inside the loop of `dice_read` while others write `ndice`; of the
text only lengths and newlines remain.  Left out: `malloc` failing, `dice_init`
failing half-way, sorting a double list into itself (it reads freed memory, which
has no outcome to state a property about), and the bytes a driver's caller asks for,
which `dice_read` ignores.

## 3. Runs

| run | instance | shows |
|---|---|---|
| `dependency_tracker` | 5 queries of every kind, 2 tables; about 33 000 states | `DepTypeOK`, `Covered`, `EpochReadsOverlap` |
| `scheduler_safety` | 3 queries of 4 conflicting kinds, 2 workers; about 570 000 states | `TypeOK`, `ConflictOrder`, `SerialResults`, `NoTaskStranded`, `ReturnsComplete`, and the refinement `RefinesSerialDatabase` |
| `scheduler_liveness` | 3 reads and writes of a table, 2 workers, one exception or spurious wake-up in the place of a query; about 140 000 states | `TasksGetDone`, `BarrierFlushes`, `ReturnsOrMissesNotify` |
| `quit_flush` | QUIT after at most one query, fair threads | violates `QuitFlushesAll` |
| `list_interleaves` | LIST and writes | violates `WritesAfterPrecedingReads` |
| `show_out_of_order` | SELECT and SHOWTABLE | violates `StdoutInInputOrder` |
| `database` | one session on the rows of a table, one on tables and files, one on a table with a wide column name, up to 4 queries each, 3-bit numbers; about 340 000 states | indexes stay within the rows and are exact until a row gets a key that is taken; what a clause selects satisfies it; a scan fails on ragged rows only; DELETE leaves the others, DUPLICATE copies once, SUM and MAX are exact, DUMP and LOAD give the table back; the parser keeps off files being written |
| `programs` | every pair of 7 forms of queries with at most one token wrong; every command line of up to 5 characters; files of up to 4 lines; 2 processes that count twice; 2 readers, a buffer that 3 dice overrun; about 340 000 states | `QueryIsWhatTheLineSays`, `ShellRunsWhatTheLineSays`, `PreprocessFits`, `AllFreedAtThePrompt`, `SortKeepsAndOrders`, `CountsAreNotLost`, `ReadGivesTheDice` |
| `queries_not_built` | the same lines | violates `EveryQueryIsBuilt` |
| `mumsh` | both dialects, 2 lines of a pipeline of 2 or 3 stages, 2 troubles; about 680 000 states | `NoChildAtThePrompt`, `OnlyAFailedPipeLeaks`, `APromptIsShown`, `PipelinesReturn` |
| `mumsh_sigint` | System V semantics | violates `ShellSurvivesCtrlC` |
| `lottery` | 2 pids, 2 CPUs, processes free or bound to CPU 0, a map of 2 keys, one birth, 2 troubles; about 1 100 000 states | `ExitRestores`, `WinnerAlone`, `PickIsProportional`, `OthersUntouched`, `VisibleBecomesCandidate` |

**Bounds of the scheduler.** `MaxQueries` bounds the input without QUIT, `MaxFaults`
the exceptions and spurious wake-ups together, and `MaxLoad` queries and faults
together: the liveness run has three queries, or two and a fault.  Five queries let the
tracker forget reads twice and still be asked about them.  For the scheduler three
queries and two workers are the least with a task that waits in a worker while another
waits in the queue behind it, and with a result that must not be printed before an
earlier one.  They are also the least for `TasksGetDone`: if the newest task were popped
first, two workers could hold the second and the third while the first is in the
queue, and the mutant of the property does just that.  With one fault every kind of
fault happens at every place.  `Workers` is a symmetry set in the safety run only;
`Tables` is one in the tracker run.  Every input of at most `MaxQueries` queries of the
run's kinds is explored, ended by QUIT, by the end of the file, or by a parse error;
what the bounds leave out is covered by the theorems below.

**Bounds of the other runs.**

* `database`: four queries are the least in which a key is taken over, the index then
  differs from the rows, and two more queries work on that table; or in which a DUMP,
  a change, a DROP and a LOAD follow one another.  Three bits are enough for a sum that
  wraps and for numbers that fill a column.  The session on files starts with one
  file that names a key twice.
* `programs`: of queries two lines, because what a line leaves in the builders matters to the next
  only.  Five characters hold a redirection at either end, two of them side by side,
  or an empty stage of a pipeline.
* `mumsh`: three stages have one between two pipes; with two lines the children that
  a failed fork left meet the next line; with two troubles a second Ctrl+C finds the
  handler gone.
* `lottery`: with two pids and the idle task the map of two keys is full; two rounds
  pass between cleanings; the reuse of a pid needs one birth; a process bound to CPU 0 is
  one that cannot be put where a loser belongs.
* `programs`, the exercises: a merge sort of four lines merges lists of two; two processes count
  twice, so that each meets the other's lock and a file that is no longer empty; with
  a buffer of 6 three dice do not fit.

**Deadlock** checking is off: the programs end, and can hang, which the liveness
properties are about.

**Fairness.** `FairSpec` of the scheduler assumes that the operating system runs every
thread that can run: weak fairness of the main thread's steps, of each worker and of
the printer.  Nothing is assumed about reading the input (a user may never type
again), nor about faults.  No strong fairness on mutexes is needed: the printer
releases `depMutex` again and again only while it makes progress.  `Mumsh` assumes
the same of the shell, of the delivery of signals and of each child, and nothing of
typing, Ctrl+C and failures.  `Lottery` assumes that `lottery.py` runs, and not that
any process starts, ends or is scheduled.  The other modules have no liveness
property: they are sequential between the lines that are typed.

**What the runs found.**

* `quit_flush`: `finalizeExecution` stores `flushUpTo` and `finalSeq` and notifies
  without `depMutex`.  If the printer has just found its predicate false, it sleeps
  after the notification and `printerThread.join()` never returns, with results
  unprinted.  `ReturnsOrMissesNotify` states the positive side: apart from this, and
  from an input without any query (where `finalSeq = 0` means "not final yet"),
  `execute()` returns whenever the input ends.
* `list_interleaves`: LIST has no target table, so nothing waits for it.
* `show_out_of_order`: SHOWTABLE prints from its worker, before earlier results.
* `queries_not_built`: COUNT, MIN and ADD are parsed to their end and made into a
  `NopQuery`, although the README of LemonDB lists them among its queries.
  `QueryIsWhatTheLineSays` says what does hold of them: the parser has understood the
  whole line, and only a COUNT, MIN or ADD is made into the query that does nothing.
* `mumsh_sigint`: compiled with `-std=c11`, as the Makefile says, `signal()` has the
  semantics of System V: the handler of SIGINT serves once and the second Ctrl+C kills
  the shell, which the README of the shell says will not exit.  What holds under both
  semantics is in `mumsh`.

Several properties of passing runs say how far a promise goes rather than that it
holds without exception: `OnlyATakenKeyBreaksAnIndex` (UPDATE of KEY to a taken key
leaves the old entry out and the new one pointing elsewhere), `NoChildAtThePrompt`
(but after a failed `fork`), `CountsAreNotLost` (but if two runs found the file
empty, and for the script without a lock only that nothing is counted twice),
`ReadGivesTheDice` (exact unless somebody writes meanwhile), `DumpLoadRoundTrip` (but
for a key twice and for names and numbers that fill their column), `WinnerAlone` (but
for a process that may not run where it is put).

`StdoutInInputOrder` fails for whole lines already; `RefinesSerialDatabase` says what
does hold: what the *printer* prints is, line by line, what the serial database
answers.  `SerialResults` covers the tables that SHOWTABLE prints itself.

## 4. Theorems

TLAPS proves these for every value of the constants.

| theorem | module | states |
|---|---|---|
| `DepTypeCorrect` | `QueryScheduler_proofs` | `DepSpec => []DepTypeOK`: a task waits for earlier tasks only |
| `DependenciesSuffice` | `QueryScheduler_proofs` | `DepSpec => []Covered` |
| `ReadsOfAnEpochOverlap` | `QueryScheduler_proofs` | `DepSpec => []EpochReadsOverlap` |
| `TypeCorrect` | `QueryScheduler_proofs` | `Spec => []TypeOK` |
| `ConflictOrderHolds` | `QueryScheduler_proofs` | `Spec => []ConflictOrder` |
| `NoTaskIsStranded` | `QueryScheduler_proofs` | `Spec => []NoTaskStranded` |
| `ResultsAreSerial` | `QueryScheduler_proofs` | `Spec => []SerialResults` |
| `CompleteAtReturn` | `QueryScheduler_proofs` | `Spec => []ReturnsComplete` |
| `NoCircularWait` | `QueryScheduler_proofs` | `Spec => []WaitsForPopped`: a blocked worker waits for tasks that are done or held by a worker, and the worker with the oldest task for none |
| `ImplementsSerialDatabase` | `QueryScheduler_proofs` | `Spec => RefinesSerialDatabase`, the refinement of `SerialDatabase` |
| `IndexesStayWithinData` | `Database_proofs` | `Spec => []IndexWithinData` |
| `ParserKeepsOffDumpedFiles` | `Database_proofs` | `Spec => []ParserNeverReadsAFileBeingWritten` |
| `DatabaseTypeCorrect` | `Database_proofs` | `Spec => []DbTypeOK` |
| `ScansHitWhatTheClauseSays` | `DatabaseQueries_proofs` | `Spec => []HitsSatisfyTheClause` |
| `ScansFailOnRaggedRowsOnly` | `DatabaseQueries_proofs` | `Spec => ScanFailsOnlyOnRaggedRows`, a property of steps, as are the next five |
| `RowsNotHitSurvive` | `DatabaseQueries_proofs` | `Spec => OthersSurvive` |
| `TakenKeysBreakIndexes` | `DatabaseQueries_proofs` | `Spec => OnlyATakenKeyBreaksAnIndex` |
| `SumsAndMaximaAreExact` | `DatabaseQueries_proofs` | `Spec => AggregatesAreExact` |
| `DuplicatesAreCopiedOnce` | `DatabaseQueries_proofs` | `Spec => DuplicateCopiesOnce` |
| `DumpsLoadBack` | `DatabaseQueries_proofs` | `Spec => DumpLoadRoundTrip` |
| `ParsedIsWhatTheLineSays` | `QueryParser_proofs` | `QuerySpec => []QueryIsWhatTheLineSays` |
| `MumshTypeCorrect` | `Mumsh_proofs` | `Spec => []MumshTypeOK` |
| `NoChildIsLeft` | `Mumsh_proofs` | `Spec => []NoChildAtThePrompt` |
| `OnlyFailedPipesLeak` | `Mumsh_proofs` | `Spec => []OnlyAFailedPipeLeaks` |
| `PromptIsShown` | `Mumsh_proofs` | `Spec => []APromptIsShown` |
| `ShellRunsTheLine` | `ShellParser_proofs` | `ShellSpec => []ShellRunsWhatTheLineSays` |
| `PreprocessAlwaysFits` | `ShellParser_proofs` | `ShellSpec => []PreprocessFits` |
| `AllIsFreed` | `ShellParser_proofs` | `ShellSpec => []AllFreedAtThePrompt` |
| `LotteryTypeCorrect` | `Coursework_proofs` | `Spec => []LotteryTypeOK` |
| `RestoredAtExit` | `Coursework_proofs` | `Spec => []ExitRestores` |
| `WinnerIsAlone` | `Coursework_proofs` | `Spec => []WinnerAlone` |
| `OthersAreUntouched` | `Coursework_proofs` | `Spec => OthersUntouched`, a property of steps |
| `PicksAreProportional` | `Coursework_proofs` | `Spec => []PickIsProportional` |
| `ReadsGiveTheDice` | `Coursework_proofs` | `DiceSpec => []ReadGivesTheDice` |
| `NoRunIsLost` | `Coursework_proofs` | `CounterSpec => []CountsAreNotLost` |
| `SortsKeepAndOrder` | `Coursework_proofs` | `ListSpec => []SortKeepsAndOrders` |

**Assumptions**, all named `...Assumption` and evaluated by TLC in the runs:

* scheduler: the empty table name is not a table, the input consists of queries, the
  bounds are natural numbers, the printer is not a worker, there are finitely many
  workers;
* database: the stand-ins for no name and for no table are not names of tables, a
  `ValueType` has at least one bit, `MaxQueries` is a number, sessions start from
  tables that the code can have built (no column is called KEY, the positions in the
  index lie within the rows and differ, values are of `ValueType`), and type queries as the builders make them;
* query parser: the lines are sequences of strings; the queries that they may be meant to
  contain have as many names as their kind takes, and no operand that is a closing
  parenthesis, which would have no text;
* mumsh: at most `MaxStages` stages, of the three kinds;
* lottery: finitely many pids other than 0, nice values from -20 to 19, at least one
  CPU, and among the sets of CPUs that a process may be confined to, none of them
  empty, the set of all;
* dice: the buffer has room for at least the final zero;
* counters: finitely many processes, which count a natural number of times;
* sorts: an int has at least one bit, the values in a file are integers;
* mumsh's parser: the lines are sequences of the six kinds of characters.

`MissingIsNoTable`, that the stand-in for no table is not a table, is a hypothesis of
`DumpsLoadBack` and `TakenKeysBreakIndexes` and not an assumption of the module,
because it speaks of all records there are and TLC could not evaluate it; the runs
give `Missing` a model value, which is no record.

**`Covered`.** That a new task waits for enough depends on what the bookkeeping still
tells of the tasks before it, so `Covered` is not inductive.  `DepInv` adds two facts
about any set `D` of tasks that contains what its members wait for, and the last
global write: `D` contains every write and DB-level task (`WritesChained`, because
each of them waits for the one before), and every read that is not pending
(`ReadsTracked`, because whoever cleared it from the pending reads waited for it).

**`TypeOK`** needs to know where the threads are (`PlacesOK`): that nothing is numbered
after QUIT and that a worker past `pop` holds a task.

**`ConflictOrder`** follows from `Covered` with `D` the tasks done.  The invariant
`OrderInv` says that the tasks done contain what they waited for (`DoneClosed`) and
that a worker past its wait has everything it waits for done (`RunsReady`).

**`NoTaskStranded`** is inductive with `SleepersPop`: who sleeps on the queue is in `pop`.

**`NoCircularWait`** is the safety half of `TasksGetDone`, for any number of workers.
Nobody checks it in a run: `InOrder` says that what was sent and is not in the queue
lies below what is in it, because the main thread pushes the tasks in the order of their
numbers and `pop` takes the first.  So the tasks that a popped one waits for, being older,
are popped too, hence done or held by a worker; and the oldest task held waits for
none of those held.  What fairness adds, that the worker with it gets on and the
others follow, is TLC's (`TasksGetDone`).

**`SerialResults`** needs, besides `OrderInv`, that every task is in one place, the
queue, one worker, or `doneSeqs` (`Placed`), and that the store holds for each object
the last executed task that writes it (`StoreOK`).  When a task executes, the
conflicting tasks before it are done, by `ConflictOrder`; none of the conflicting
tasks after it is, for it would have waited for this one, which is not done
(`NoneOvertakes`).  So what it sees is what the tasks before it wrote (`SerialNow`).
The rest follows the output from the worker to the buffer, the printer and `stdout`.

**`ReturnsComplete`.**  The printer passes a number only once it is done
(`PassedDone`) and ends only past the last one (`FinalKnown`), which is why all are
done; what is in the buffer lies ahead of the printer (`BufferAhead`), because a
worker buffers before it marks done, hence nothing is left there.  That enough is
printed is an argument about sets: a number that is done has its result in the
buffer, in the printer's hands, or on `stdout`, or belongs to `Lost`, and only an
exception adds to `Lost`, one number each (`LostFew`).

**`RefinesSerialDatabase`.**  Reading a query maps to `Ask`, the printer's printing to
`Answer` or, when the query left nothing to print, to `Throw`; every other step of
every thread is a stutter (`StepRefines`).  The abstract contents are, per object, the
last writer among the queries answered, a set of one element whenever somebody has
seen it (`SerialShows`), and the next query moves it on as `WrittenBy` says
(`ContentsNext`).  So a serial view of the whole footprint *is* the abstract view;
that an output in the buffer or in the printer's hands covers the footprint, or is the
empty message of SHOWTABLE and LIST, is `ShapeInv`.  `Throw` is allowed because the
numbers passed but not printed are `Lost` (`FewUnprinted`).  The transcript picks the
printer's lines by their rank among the lines of the printer, a definition that needs
no induction: a line of a worker changes no rank, one of the printer has the next.

**Database.**  `IndexWithinData` says that positions lie within the rows and differ
from one another, and it survives even the rekeying that breaks the index otherwise:
each operator of `Table` keeps a table `Sound` (`InsertSound`, `SetKeySound`,
`EraseManySound`, `LoadedSound`).  `DbInv` carries it through the copies of a table
that a running query works on, and adds that the cache knows the file of every DUMP
that is pending or running; a file is never forgotten, so the parser need not look.

`TypedInv` goes on to the values in rows and to scans: what a scan has hit is what its
clause says of the rows it started from (`ScanSound`), the rows still to come are those
it started from (`RowsToCome`), and what it was not to touch is there (`RowsKept`), also
while it swaps rows of a table whose index was wrong.  `EvalIsSatisfies` is about the
early ends of `initCondition`: a comparator that it did not set is not called, because
evaluation ends as early.  SUM keeps a sum congruent to the true one modulo
`2^Width` (`Congruent`), so that it is exact whenever the true one is a value.
`DuplicateCopiesOnce` is about a table with an exact index; copies are made column by
column and by name, and of two columns of one name the first is copied twice, which is
why the property speaks of tables whose names differ.

**Query parser.**  `Says` restates the grammar by positions: where FROM stands, what is
before and after it, and five tokens for each condition; `TextSays` shows that a line
says a query exactly if it is one of its texts, `FlattenSeq` included.  A line says one
query at most (`SaysUnique`), because the first closing parenthesis ends the operands
and the length tells the number of conditions.  `QueryInv` says of each builder and each
clause how much of that the line has been found to be when it gets there (`Parsed`): that
the builder is fresh before the operands, and afterwards that what it keeps is what the
line says up to the token the iterator points at.  So a clause that gives up knows that
no query says the line (`NothingSaid`), and the end of the last one is the query.

**Folds.**  The community modules define a fold over a set by a function on its
subsets, chosen by its recursion, so nothing follows from the definition before such a
function is known to exist.  `SetRecursion` proves it once, by induction on the size of
subsets, which in turn is that a set of numbers has a least one (`LeastNat`); the
induction theorems of the library take operators and cannot be used.  From it follow
what a sum over a set is with and without an element, and that it moves with one.
`RankRecursion` says it of every recursion whose calls go down in some rank, for
functions on any set; the lists of `merge` and `merge_sort` are chosen by such recursions.

**Mumsh.**  `NoChildAtThePrompt` counts: the children not yet reaped never outnumber
the turns that the loop of `wait` still has (`FewLeft`).  Forking adds one to both
sides, a `wait` that returns takes one off both, the handler takes off children
only, and an interrupted `wait` takes no turn.  `LeakedByPipe` and `PromptInv` follow
the ends of pipes, and the prompt and `errno`, from place to place.

**mumsh's parser.**  `PreprocessFits` is not as plain as it looks: a redirection may take
three places, and twice the length is enough only because its neighbours then take one
each (`SpreadRoom`).  The induction goes over the length of the line and allows one
character too many after a character that took three, which is never the last.
`AllFreedAtThePrompt` needs `ParserInv`: inside the loop what is allocated is the buffer
and the strings of the stages, afterwards the strings of the stages, whichever exit was
taken and whether or not the stage that failed was counted (`OwnedOnceFreed`).

`ShellRunsWhatTheLineSays` compares two readings of a line.  `Meaning` reads the line as
it was typed: its tokens are the longest runs of one kind of characters, the pipes among
them number the stages, and a stage has its words and the token after each operator.
The code reads another line, into which it has put blanks, cuts it at the pipes, and
each part at its blanks.  That both give the same takes three steps.

* What a run is: `Runs` lists them in their order (`RunsAre`), and some list of
  intervals is always theirs (`RunsExist`).  `preprocess` only adds blanks, and only
  where a redirection meets something else (`SpreadShape`, `PreprocessEmbeds`), so each
  token of the line stands in the new one, whole and in order, with nothing but blanks
  between (`Placed`, `TokensStay`).
* Between two pipes of the new line lie the tokens between two pipe tokens of the old
  one.  `PiecesExist` gives for each part the first and the last of its tokens, by the
  gaps in the list of tokens; it is here that a pipe which starts the line counts for
  nothing, and two side by side for one.  `StageIsPart` and `StageWords` bring the numbers of
  stages, which `Meaning` counts, together with those of parts.
* `tokenize` folds `Token` over the tokens of a part.  `Understood` says what the fold
  knows after so many tokens: the words so far, the file after each operator and
  the operator that waits for one, or that a token was refused, and then that the tokens
  up to it were not `Allowed`.  It is an invariant of the fold (`TokenUnderstood`,
  `FoldUnderstood`), and at the end the stage is `Meant` (`StageMeant`).

Together: parts that are all accepted, with files at the two ends of the pipeline only,
are a line that is `WellFormed`, and the other way round (`WholeIsAccepted`,
`LineMeans`).  `ParsedInv` carries it through the loop of `parse_pipeline`: the stages
are those of the parts cut off so far, and none was refused (`Midway`); a line that ends
with a pipe but for its newline is refused at the end, whatever it did before.

**Lottery.**  `ExitRestores` holds because what was pinned stays in the map
(`ForcedAreSeen`) and is cleared or left out at the end (`StillToClear`).
`WinnerAlone` needs that the candidates the loop has dealt with are where they belong
(`Placed`), if they may run there, and that a round begins without a winner; `OthersUntouched` that the
candidates of a round that found some are the user's (`OwnCandidates`).
`PickIsProportional` is about the walk over the tickets: the sums over the first
candidates grow strictly, so the numbers that pick the k-th are those from the sum before
it, excluded, to the sum up to it; that the order in which the map is read has
everybody once is because an injection between sets of the same size is onto
(`OrderListsAll`).

**Dice.**  The position in the buffer is a function of the number of dice so far, cut
off at the end of the buffer; the loop goes on only for a number seen that is larger,
and ends only for one that is not (`Reached`).

**Counters.**  `CounterInv` says that with a lock at most one process is inside
(`OneInside`), that the count and what a process has read never exceed the number of
runs written (`NotTooMany`), and that with a lock and at most one run that found the file
empty both are that number (`NoneLost`).  The number of runs is a sum over the processes,
which moves with the one that steps (`RunsMove`).

**Sorts.**  What matters of the comparison is which transitive relation its answers
never contradict (`Allows`).  `MergeSorts` shows, by induction on the entries left,
that merging two lists sorted by such a relation gives one sorted by it, with the
entries of both, and `MergeSortSorts` the same of `merge_sort` by induction on the
length of the part.  The relation of all pairs gives that nothing is lost or doubled,
also when a random or overflowing comparison contradicts itself; `Before`, which puts
equal values in the order of their lines, gives order and stability at once, because
`split` cuts the list into an earlier and a later part and `merge` takes the earlier
entry first when the comparison says equal.  Of `qsort` it is assumed, in the
definition of `qsorted`, that it rearranges and orders; that a rearrangement keeps
every entry is again that an injection is onto.

**Only model-checked.**  Liveness (`TasksGetDone`, `BarrierFlushes`,
`ReturnsOrMissesNotify`, `PipelinesReturn`, `VisibleBecomesCandidate`), which is out of
the prover's reach; of `TasksGetDone` the safety half is `NoCircularWait`.  Every invariant and every property of steps that a passing run checks
is a theorem.

## 5. Not modelled

* `main.cpp` of LemonDB, formatting, the texts of results and of exceptions: no state
  that a property could be about.  A table's own mutex: the scheduler keeps writers
  apart.
* Two DUMPs to one file have different tables and are not ordered by the scheduler; in
  `Database` queries do not overlap, so it shows the order but not the mixture.
* The options of `main.cpp`: `--listen` only chooses the input stream, and nothing that is
  checked depends on where the text of the queries comes from.
* mumsh's messages, directories and terminal; the sizes of the parser's arrays.
* The lottery scheduler's display and load generators: `clear_affinity` and
  `set_affinity` are in `Lottery`, the parsing of `bpftool`'s output is not.
* Small scripts, printing of lists, the makefiles and data of labs and homework.

## 6. What could come next

* `Database` with queries that overlap, as tasks of `QueryScheduler`, instead of the
  order that `Ready` takes from it.
* The arrays of `parser.c` with sizes small enough for TLC, as constants.
