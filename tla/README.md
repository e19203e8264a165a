# yiqi in TLA+

yiqi runs a Google Test program under an instrumentation tool: the program's
`main` (yiqi_main.cpp) reads `--yiqi_tool`, and when the tool is a wrapper such
as valgrind it replaces itself by `valgrind --tool=... program`. The program
then starts a second time, sees in its environment that it already runs under a
tool, says so, and runs its tests. These modules model that invocation from end
to end; the data structure on which it rests, the array of C strings that is
handed to `exec`; and the acceptance tests, which run it through a pipe from
other processes.

Contents: [the system](#the-system), [the modules](#the-modules),
[the runs](#the-runs), [the proofs](#the-proofs),
[where code and documentation disagree](#where-code-and-documentation-disagree),
[what is not modelled](#what-is-not-modelled), [the plan](#the-plan).

## The system

Paths are relative to the root of the repository. There are no threads: what
is concurrent is other processes.

| Component | State | Operations | What makes it correct |
| --- | --- | --- | --- |
| `NullTermArray` (src/commandline.cpp) | a vector of pointers, a vector of the strings the appended pointers point into | construct, copy, move, assign, swap, `append`, `eraseAppended`, `removeAnyMatching`, destroy | ends with its only NULL whatever happens; each pointer reads the text it was inserted for; independent of other arrays |
| Command line and environment of the relaunch (src/commandline.cpp, src/reexecution.cpp) | none | `BuildCommandLine`, `GetToolArgv`, `GetToolEnv`, `InsertEnvironmentPair` | the wrapper runs the same program, which can tell it was relaunched, and under what |
| Re-execution (src/reexecution.cpp, src/systempaths.cpp) | none between calls | `FindExecutable`, `Relaunch`, `RelaunchCurrentProgram` | the first executable on the path, found or reported missing |
| System calls (src/system_unix.cpp) | the process and its environment | `ExeExists`, `ExecInPlace`, `GetExecutablePath`, `GetSystemEnvironment` | what `ExeExists` accepts is a file to execute; when exec fails all the same, the program says so |
| Main program (src/yiqi_main.cpp) | the tool | `main` | tests run once, under the tool asked for, or not at all |
| Names of tools (src/constants.cpp) | two maps, filled at the first lookup | `StringFromTool`, `ToolFromString` | a name means the same tool at each lookup |
| Options (src/construction.cpp) | none | parse, construct the tool | the tool named, None by default |
| Tools (src/instrumentation_*.cpp) | function-local statics | wrapper, options, name | a tool answers for itself |
| Passthrough wrapper (tests/acceptance/passthrough) | a child process | fork, exec, wait | runs its first argument that is no option |
| Acceptance harness (tests/acceptance/reexecute_through_passthrough.cpp) | pipes, descriptors, a child | redirect, fork, wait, read | standard output restored, all output read, ends |

How they interact. `main` asks the options for a tool and the tool for its
wrapper; when there is one, `RelaunchCurrentProgram` binds three fetchers and
calls `Relaunch`, which runs them in order (executable, arguments, environment)
and then calls exec. The arguments and the environment are two
`NullTermArray`s; the environment starts from the process's own `environ` and
gets one more entry. Across exec nothing survives but the arguments, that
environment and the file system, and open descriptors. Errors are exceptions
that `main` does not catch.

The acceptance tests start such programs from outside. The harness puts the
write end of a pipe in the place of its standard output, forks and executes the
passthrough wrapper or a test program, puts its standard output back, waits for
the child and reads the pipe. The wrapper forks too, executes what it was given
and waits; a test program asked for `--yiqi_tool=passthrough` becomes the
wrapper, which forks the same program again. So up to three processes have the
write end, and the harness reads its end of file when the last has ended.

What is hard here:

- lifetimes: `append` keeps strings in one vector and pointers into them in
  another, and only the code of each operation keeps the two consistent through
  growth, exceptions, copies and moves;
- undoing a partial append by a heuristic search, whose iterators can leave
  their vectors;
- time of check and time of use: a file is looked at, and executed later;
- termination: `main` relaunches itself; what stops it from doing so again is a
  variable in the environment, and that the relaunched program is given none of
  the arguments;
- statics and a map that remember what was asked first;
- descriptors: a pipe that nobody reads while it fills, an end of file that
  needs every copy of the write end closed, `dup` and `dup2` in an order in
  which each free number counts, 0 as a descriptor and as "closed", and a call
  that fails between two of them;
- a failure that has to pass through two processes that wait.

## The modules

| Module | Models |
| --- | --- |
| `NullTermArray` | the class with its two vectors, at the level of addresses |
| `StringArrays` | what the class promises: arrays which own their strings |
| `Tools` | the tools' names, wrappers and options; reading the tool off a command line |
| `Invocation` | what one program hands the next: the wrapper's command line, the environment, the split of PATH |
| `Relaunch` | one invocation: main, search, exec, wrapper, main again, and a changing file system |
| `TestRun` | what an invocation comes to for one who sees wrapper, header and tests only |
| `ToolStatics` | what the tools and lookups of one process share |
| `Harness` | the acceptance harness, the passthrough wrapper and a test program as processes, with descriptors and a pipe |
| `CapturedRun` | what the acceptance tests take for granted: a command's lines and its exit code, or an exception |
| `MCNullTermArray`, `MCRelaunch`, `MCHarness` | the small instances |
| `NullTermArrayProofs`, `PromiseProofs`, `RelaunchProofs`, `ToolStaticsProofs`, `HarnessProofs`, `CapturedRunProofs` | [the theorems](#the-proofs) |
| `InvocationProofs` | lemmas about command lines and environments, for `RelaunchProofs` and `HarnessProofs` |
| `LeastElements` | lemmas about the least, the greatest and the k-th of a set of numbers |

`Relaunch`, `TestRun`, `Harness` and `CapturedRun` all extend `Invocation`,
which extends `Tools`: that a relaunch builds a command line, and that a
process of the harness does, is one definition. The texts of arguments and
environments are a constant, `String`, which the runs give `STRING`;
`InvocationAssumption` says that the key and what the tools say of themselves
are texts, and that `Nothing` is not one.

**NullTermArray.** `vector` and `stored` are the members of `Private`
(commandline.cpp:74-94), `life` is whether an object exists and whether its
`priv` was taken. A pointer is an address with, as a ghost, the text it was
inserted for; a literal (an entry of `environ`) is its own address. A string is
an address and the text found there. A pointer is *sound* when it is a literal
or some live string has exactly its address and text. When strings move (a
vector grows or loses elements), `Placed` gives them addresses: those that can
keep theirs do, the others get any address that is free. Whether a moved string
keeps its address is the library's choice, hence two constants: with
`SharedStrings` strings are reference counted, and copies share their
characters, as in libstdc++ when yiqi was written; without, a text of `Inline`
lives inside the string object and moves with it (the small-string optimisation
of current libraries). One action per call; a call that can throw has an action
per place where it can. When a vector fails to store a block of several strings
the first of them may be stored: only the insertion of a single element at the
end is promised to have no effect. `Erasure` is `eraseAppended` with its iterators as
indices, and says `"undefined"` where one leaves its vector; `undefined` then
becomes true and the program stops. Calls a program does not make are left out
of `Calls`, so that one module serves the class at large and the programs that
use it with care.

**Relaunch.** A step is what `main` does between two looks at something that
others can change: parse, one `access` for each directory of the path, fetch,
exec. `image` is what the process executes; exec replaces it and loses `main`'s
locals. `FileChanges` installs or removes a file of the wrapper's name in any
directory at any time. The wrapper is external: it fails, or runs the first of
its arguments that is no option, in its own environment. The program is in
the environment by name: `environ` is a sequence of pairs in which `getenv`
finds the first. PATH is a sequence of characters, which `SplitPathString` cuts
at its colons as systempaths.cpp does: an empty component is the root, and an
unset PATH and an empty one are the same. exec fails when there is no program
to execute, and may fail when there is one and nothing has changed since the
search (its interpreter is missing, the arguments are too long, the file system
is mounted noexec, there is no memory). `invoked` (the arguments and the
environment of the invocation), `asked` (the `RequestOf` them), `wrappers` and
`seen` are history.

**ToolStatics.** A process may construct several tools and ask each for its
options and name, in any order. `options` and `name` are the statics of
`valgrind::ToolBase`, `table` is the map of `ToolFromString`.

**Harness.** `pc` is where the test is in the fixture and in
`launchBinaryAndWaitForReturn`; `pipe` and `backup` are the members of `Pipe`
and `FileDescriptorBackup`, 0 where the code has 0. `fds` is the table of
descriptors of each process, with close-on-exec: `pipe2`, `dup`, `dup2`,
`close`, `fork` and exec do to it what they do to the kernel's, and always take
the lowest free number. One action per system call of the harness, and one more
where it can fail: `pipe2` and `dup` when the table is full, `fork` and exec at
any time (`CannotExecute` is exec failing on a program that is there).
An exception of the harness goes to the destructors of what was constructed,
which are steps too (`CloseWriteEnd`, `Restore`, `ClosePipe`), then to Google Test (`report`),
which goes on with the next test and a new fixture; descriptors that leak stay.
A process is what it executes and how far it has come: `passthrough` at one of
its arguments, `simple_test` in `main` or in its output. Processes are numbered
in the order they are forked: each has one child at most, and the program the
wrapper runs in its own place (`yiqi_main` becoming `passthrough`) keeps the
number. A write waits while the pipe is full, a read while it is empty and
somebody has a write end. A program that fails (exec fails, rejected
options, no process) is killed by the exception or by `abort`; `Wait` tells that
from an exit, and so does the wrapper's own wait. `main` is here one step up to exec: what
the search does in between is `Relaunch`, and its wrapper is on the path or
not (`onPath`). Lines stand for what is printed; "" is the empty line that
`GetChildOutput` drops.

## The runs

Each run is a `.cfg` of the same name.

| Run | Expected | Question |
| --- | --- | --- |
| `nta_api` | pass | `NullTerminated` under every call, exceptions and undefined corners included |
| `nta_program` | pass | `PointersSound` and `ImplementsPromise` for programs that append once per array, with inline strings |
| `nta_single` | pass | `PointersSound` with shared strings, appends of one string, repeated, failing and undone |
| `relaunch` | pass | `RelaunchedOnce`, `SearchesPathInOrder`, `RunsWhatWasInvoked`, and refinement of `TestRun` with its liveness |
| `statics` | pass | `AnswersForItself`, `AnswersAreFinal` with one Valgrind tool in the process |
| `harness` | pass | `StdoutRestored`, `OneDescriptorPerLaunch`, `NothingOutlivesLaunch`, refinement of `CapturedRun`, and `EndsIfItFits` |
| `nta_append`, `nta_copy`, `nta_undo`, `nta_throw`, `relaunch_directory`, `statics_shared` | violation | see [below](#where-code-and-documentation-disagree) |

Bounds, and why they do. Two arrays are enough for every action, of which none
names more than two, and for a copy to outlive its original. Two texts, one of
them inline, give each kind of string and blocks with and without repetition.
Two arrays of `MaxStored` strings need twice as many addresses,
which every run has; a vector that grows by moving needs one more for each
inline string that moves, and `nta_program` and the violations, where an array
appends once or the other array is empty, have those too. In `nta_api` the one
case they leave out is a growth by moving while the other array is full.
`MaxBlock` 2 (3 in `nta_program`, as many as the relaunch appends at once) lets
a block be found in part. `MaxStored` and `MaxVector` stop growth after the
second append: `eraseAppended` looks no further back than the length of its
block, which is 1 in `nta_single`. The arrays and the addresses are interchangeable
(symmetry). The relaunch has paths of none to three directories, one of them
twice, and command lines with each kind of tool, an unknown name, an unknown
option, a repeated option, Google Test flags and further words; environments
are empty, with an unrelated entry, and with the key already there, its value
empty or not.

`harness` runs the repository's acceptance tests, one by one and as the second
of a suite, seven other launches (killed, missing, wrapped twice, already under
a tool, printing six lines), and a suite of four. The pipe holds `Capacity` = 5
lines, as many as a wrapped program prints; the six lines of one launch do not
fit. The table has `MaxFd` = 7 places. With the three standard descriptors open
a launch needs three more and leaves one taken, so the third of a suite of four
fails at its backup; with standard input closed the pipe takes 0; with three
further descriptors open not even the first pipe fits. `MaxProcess` is 4: the
harness and the longest chain (wrapper, wrapper, program) the launches make.

The runs `nta_api`, `nta_single` and `nta_undo` do not check deadlock: after
undefined behaviour, or with every array full and no call left that shrinks it,
the program has nothing to do. Nor does `harness`: when a program prints more
than the pipe holds, it waits for the harness to read and the harness for it to
end (reexecute_through_passthrough.cpp:231 comes before :307), for ever.
`EndsIfItFits` says that this is the only way to stop.

Fairness. `Relaunch` assumes weak fairness of the program's own steps, and none
of `FileChanges`: one thread runs `main`, the calls it makes return, and the
wrapper, once started, either runs its argument or ends. This is what `TestRun`
needs to come to "ran" or "failed". `Harness` assumes weak fairness of each
process: the system schedules every process whose call can return. It is needed
of each, since the harness waits for its child and a wrapper for its own. That
a call fails is never required, nor that it succeeds. `NullTermArray` and
`ToolStatics` state safety only and assume no fairness.

`relaunch` has no directories among its files: that the search settles for one
is `relaunch_directory`'s matter, and exec fails there or not as it does on a
file that is no program.

Every property of a passing run has a mutant, a plausible mistake in the code
that makes TLC find it violated; the mutants stand before the definitions they
replace.

## The proofs

Each theorem holds for all values of the constants that satisfy the assumption
of its module, named with it below if it needs more.

**NullTermArrayProofs**, from `ConstantsAssumption`, for any sets of arrays,
texts, addresses and calls and any bounds:

- `TypeCorrect`: `Spec => []TypeOK`;
- `AlwaysTerminated`: `Spec => []NullTerminated`. `TypeOK /\ NullTerminated` is
  inductive. What it takes is that a vector which ends with its one NULL keeps
  doing so when pointers are inserted before the last element
  (`InsertKeepsTerminator`), when a filter that spares NULL is applied
  (`FilterKeepsTerminator`: an increasing enumeration of n kept positions
  reaches the last, by the pigeonhole principle), and when `eraseAppended` cuts
  a run (`ErasureKeepsTerminator`: for any block the run of pointers starts at a
  pointer and, since NULL matches no string, ends no later than at the NULL);
- `SafeProgramsSound`: under `SafeProgram` (the program constructs, appends,
  filters, moves and destroys, and appends once to an array unless its strings
  keep their addresses), `Spec => []PointersSound`. `PointersSound` is not
  inductive: it says that some array holds the string, and that array may be
  destroyed next. `Owned` says that a pointer is to a literal or to a string of
  its *own* array, and is preserved: `append` keeps the strings that were there
  (`AppendKeepsStrings`), a move takes both vectors, a filter only removes;
- `SingleProgramsSound`: under `SingleProgram`, which lets appends fail halfway
  and be undone but passes one string at a time, `Spec => []PointersSound`.
  `Owned` is not inductive any more: undoing an append erases the last string,
  and the last pointer only if that is where it points. `InPairs` says why no
  pointer is left to it: the pointers are to literals or to strings of their
  own array, no two to the same, and those to strings are in the strings'
  order. With blocks of several strings it is not so: `nta_undo` and `nta_throw`
  are the counterexamples.

**PromiseProofs**, from the same assumption and `SafeProgram`:

- `SafeProgramsKeepPromise`: `Spec => ImplementsPromise`, the refinement of
  `StringArrays`. To such a program each array is a sequence of strings of its
  own. The invariant is `Safe`: the two of `SafeProgramsSound`, and that an
  array which does not exist has no pointers. Where every pointer is sound, what
  an array reads is what was inserted (`ReadsTexts`), and each call does to
  these sequences what it does in `StringArrays`.

**RelaunchProofs**, from `RelaunchAssumption` and `InvocationAssumption`, for
any command lines, environments, paths and files, changing or not. A command
line starts with the name of the program:

- `SearchIsInOrder`: `Spec => []SearchesPathInOrder`. `SearchInv` adds that as
  long as nothing is found, as many directories have been seen as were passed;
- `NeverRelaunchesAgain`: `Spec => []RelaunchedOnce`. `RInv` has two cases, for
  exec leaves nothing but arguments and environment. `Unwrapped`: no wrapper
  has been started, what was asked is still what the arguments and the
  environment ask, and what is fetched is built from it. `Wrapped`: there was
  one wrapper, the environment names the tool that was asked for, and the
  arguments are a wrapper's that wraps a word, or that word alone. That the
  relaunched `main` does not relaunch follows: the environment says it is
  active. `NameStays` is why Google Test does not change what is wrapped;
- `InvokedIsRun`: `Spec => []RunsWhatWasInvoked`. Of what main is given nothing
  survives exec but through the wrapper, so the invariant `Kept` follows it
  there: before exec `argv` starts with the name invoked and has none but the
  arguments invoked, and the environment is the one invoked; under the
  wrapper it is that with yiqi's own entry after it, and the command line is the
  wrapper's, its option and the name invoked. `OthersRead`: an entry put at the
  end changes what `getenv` finds under its own name only;
- `StepsOfTestRun`: every invocation starts as `TestRun` does, and every step
  maps to one of its steps or a stutter. This is `ImplementsTestRun` without its
  fairness;
- `TypesOfRelaunch`: `Spec => []TypeOK`. Its invariant, `SearchInv`, `RInv` and
  `TInv` together, adds that a program always has a name: argv[0] is kept by
  Google Test and goes into the wrapper's command line, so it has to be there
  for these to be command lines again.

**ToolStaticsProofs**, from `StaticsAssumption`:

- `NoAnswerTakenBack`: `Spec => []AnswersAreFinal`. `SInv` says that what a tool
  has answered is what its static holds now, or what it always says, and that
  the map resolves each name it has as `ToolFromString` would, the names looked
  up in vain included;
- `EachForItself`: with `OneValgrindTool`, `Spec => []AnswersForItself`; run
  `statics_shared` is the counterexample without it. `FromWanted` says that the
  statics hold a constructed tool's answer;
- `TypesOfStatics`: `Spec => []TypeOK`, which is inductive.

**HarnessProofs**, from `HarnessAssumption` and `InvocationAssumption`, for any
suites, programs, capacity, table size, number of processes and inherited
descriptors. A test launches something by name: its first argument is a word.

- `OutputRestored`: `Spec => []StdoutRestored`. `IInv` says why it can be
  restored: from when it is made to when it is used the backup is open on
  standard output and is none of 0, 1 and the write end. Were it 0 the
  destructor would not restore it, and were it the write end `CloseWriteEnd`
  would close it. It is not 0, since the pipe, opened before, has taken 0 if it
  was free;
- `LeaksOnePerLaunch`: `Spec => []OneDescriptorPerLaunch`. `LInv` counts the
  copies of standard output among the harness's descriptors and keeps what it
  was started with; `Room` says that while 0 is open the places of the pipe are
  free again at the end, so the next pipe fits, and a full table makes `dup`
  fail and not `pipe2`;
- `NothingStaysBehind`: `Spec => []NothingOutlivesLaunch`. `Tree` says that the
  processes are a chain in which all but the last are waiting, that those which
  have ended have no descriptors; `Launched`, that a chain exists only between
  fork and wait; `WriteEnds`, where the harness may have this test's write end
  and that it is never 0, which the destructor would leave open;
- `TypesOfHarness`: `Spec => []TypeOK`. `PInv`, the invariant of the theorems
  above, is not enough: that no more is launched than there are tests is so
  because a test launches once, before its backup, and that what a process is
  given are arguments, because whoever executes something has a name and so
  has what it executes. `Own` says the first, `Worldly` the second.

**CapturedRunProofs**, from the same assumptions:

- `SeesWhatIsMeant`: `Spec => ImplementsCapturedRun`, the refinement of
  `CapturedRun`: a test is told the exit code its command means, and reads the
  lines it means but for the empty ones, or gets an exception and there is a
  reason for it. `CInv` adds four facts to `PInv`. `Awaited`: of the chain of
  descendants the one that runs does what is left of the command, so that what
  the pipe holds and what is still printed make up the whole, or a call has
  failed and it is killed. `Plumbed`: the pipe is the standard output of all of
  them. `Paced`: how far the harness is says what there can be in the pipe and
  in `lines`. `Reading`: at the end, what was read and what the pipe still holds
  is all the command prints. `CapturedRun` gives the meaning of a command line
  from any of its arguments on, in closed form, by the first word that names no
  wrapper; the proof takes the wrapper through it one argument at a time. A
  program that relaunches itself becomes the wrapper in its place, and what is
  left of its command is then the command line that was built for it.

Only model-checked: `EndsIfItFits` and the fairness in `ImplementsTestRun`, as
liveness is out of the prover's reach. `PointersSound` for other programs than
the two kinds above is not unproved but false, as the violations show.

## Where code and documentation disagree

- `nta_append`: a second append leaves the pointers of the first dangling when
  short strings are kept inside `std::string` (commandline.cpp:376), although
  `append` is said to "provide storage for value" (commandline.h:86). The
  relaunch itself appends once to each array; the acceptance test does not.
- `nta_copy`: a copy reads the original's strings (commandline.cpp:120), where
  tests/unit/value_type_test.h:11 wants a "completely independent" one.
- `nta_undo`: `eraseAppended` of two values erases one pointer
  (commandline.cpp:343) when copies of strings have characters of their own;
  tests/unit/commandline.cpp:261 expects both to go.
- `nta_throw`: an append that fails on an array with fewer strings than the
  block is undefined (commandline.cpp:297) instead of throwing as
  commandline.h:100 says.
- `relaunch_directory`: `ExeExists` accepts a directory (system_unix.cpp:36), and
  the search settles for it;
  system_api.h:29 says "an executable file".
- `statics_shared`: the second Valgrind tool of a process answers with the first
  one's options and name (instrumentation_tool_valgrind_base.cpp:33);
  instrumentation_tool.h:50.

Comments, which no run refers to: reexecute_through_passthrough.cpp:179 says
that standard error and standard output are replaced, and only standard output
is; passthrough.cpp:8 says the wrapped program is given `&(argv[argc - n])`, and
it is given `&argv[i]`.

## What is not modelled

- Characters of strings but those of PATH, messages of exceptions, the layout
  of what is printed. `StringVectorToArgv`, which the relaunch does not use, and
  the error of an argc below 1.
- Exceptions from constructors, copies and the filter of `NullTermArray`: they
  leave nothing changed but what is destroyed with the object; comparison of
  arrays, which changes nothing, but for that of moved-from ones. Allocation
  failing while the relaunch builds its arrays is `nta_throw`.
- `--yiqi_tool` and its value as two elements of argv: an argument is one record
  with its text.
- In the harness: `waitpid`, `dup2` and `close` failing or interrupted, signals
  from outside, writes of part of a line, two launches or a read before the
  launch with one fixture (no test does either), standard error.
- Available tools (an empty translation unit), mocks, matchers, samples, unit
  tests, build files: they have no state of the system.

## The plan

1. Done: `NullTermArray` with its abstract specification, runs and theorems;
   `Tools`, `Invocation`, `Relaunch`, `TestRun`; `ToolStatics`.
2. Done: the acceptance harness with the wrapper and its child as processes,
   and `CapturedRun`; the split of PATH.
3. Done: the theorems of `Relaunch`, `ToolStatics` and `Harness`, their types
   included; that `NullTermArray` implements `StringArrays` for safe programs,
   its single strings with appends that fail, and that `Harness` implements
   `CapturedRun`.
4. Left: the composition of `Relaunch` with the two arrays it passes, a safe
   program of `NullTermArray`.
