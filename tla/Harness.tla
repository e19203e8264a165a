-------------------------------- MODULE Harness --------------------------------
(***************************************************************************)
(* The acceptance tests (tests/acceptance/reexecute_through_passthrough    *)
(* .cpp): a Google Test program, the harness, which for each test opens a  *)
(* pipe, puts its write end in the place of its own standard output, forks *)
(* and executes a program, waits for it to end, and only then reads what   *)
(* it wrote.  The programs are the passthrough wrapper (passthrough.cpp),  *)
(* which runs another program and waits for it, and a test program linked  *)
(* to yiqi_main, seen as module Invocation's RequestOf sees it.            *)
(*                                                                         *)
(* A process is a number, the harness 1, and forks the next one: a process *)
(* waits for the one it forked, so it has no other.  A step of a process   *)
(* is a system call, or what it does between two of them.  Exceptions in   *)
(* the harness unwind the objects that were constructed, step by step, and *)
(* end the test; elsewhere nobody catches them, and they kill the process. *)
(***************************************************************************)
EXTENDS Invocation

CONSTANTS
  Suites,       \* the sequences of tests the harness can be made of
  Programs,     \* the executables there are
  Capacity,     \* the lines a pipe holds
  Inherited,    \* the descriptors, besides 1 and 2, it can be started with
  MaxFd,        \* the descriptors a process can have
  MaxProcess    \* the processes there can be

(* One test: what it launches, in which environment, which wrappers are on   *)
(* the path there, and whether it reads the output.                           *)
Test == [args : Seq(Argument), env : Seq(Entry), onPath : SUBSET String,
         reads : BOOLEAN]

Line == [says : {"started", "option", "under", "tests", Empty}, of : String]
Says(what, of) == [says |-> what, of |-> of]

ASSUME HarnessAssumption ==
  /\ Suites \subseteq Seq(Test)
  /\ \A s \in Suites : \A i \in DOMAIN s : s[i].args # <<>> /\ s[i].args[1].is = "word"
  /\ Programs \subseteq {"passthrough", "simple_test"}
  /\ {Capacity, MaxFd, MaxProcess} \subseteq Nat
  /\ MaxFd >= 3 /\ MaxProcess >= 1
  /\ Inherited \subseteq SUBSET (0 .. MaxFd - 1)

VARIABLES
  suite,     \* the tests
  test,      \* the one that runs: an index of suite, or one more at the end
  pc,        \* where the harness is
  pipe,      \* mPipe of the fixture: [read, write], 0 for one that was closed
  backup,    \* mBackupFd
  result,    \* what launchBinaryAndWaitForReturn came to
  lines,     \* what GetChildOutput has read
  fds,       \* the descriptors of each process: a function to [file, cloexec]
  process,   \* what each of the others executes
  content,   \* the lines in the pipe
  failed,    \* history: a system call has failed in this test
  atStart,   \* history: the harness's descriptors when it was started
  launches   \* history: how often standard output was backed up

harness == <<pc, pipe, backup, result, lines>>
world == <<fds, process, content>>
vars == <<suite, test, harness, world, failed, atStart, launches>>

Process == 1 .. MaxProcess
Child == 2 .. MaxProcess

(***************************************************************************)
(* Files and tables of descriptors.  open and dup take the lowest free     *)
(* descriptor, dup and dup2 make one that stays open across exec.          *)
(***************************************************************************)
File(of) == [of |-> of, pipe |-> 0]
End(of) == [of |-> of, pipe |-> test]   \* of this test's pipe
Stdout == File("stdout")

Free(t) == (0 .. MaxFd - 1) \ DOMAIN t
Lowest(S) == CHOOSE d \in S : \A e \in S : d <= e

With(t, d, file, cloexec) ==
  [e \in DOMAIN t \cup {d} |-> IF e = d THEN [file |-> file, cloexec |-> cloexec] ELSE t[e]]
Without(t, d) == [e \in DOMAIN t \ {d} |-> t[e]]
Dup2(t, old, new) == With(t, new, t[old].file, FALSE)
AcrossExec(t) == [e \in {d \in DOMAIN t : ~t[d].cloexec} |-> t[e]]

(* A read that finds the pipe empty returns when nobody has a write end. *)
HasWriter == \E p \in Process : \E d \in DOMAIN fds[p] : fds[p][d].file = End("write")

(***************************************************************************)
(* Processes.  image is "none", "forked" (a copy of its parent, about to   *)
(* execute argv), a program, "waiting" (the wrapper, in waitpid), "exited" *)
(* or "killed"; at is how far the program has come.                        *)
(***************************************************************************)
Running(image, argv, env, at) ==
  [image |-> image, argv |-> argv, env |-> env, at |-> at, code |-> 0]
NoProcess == Running("none", <<>>, <<>>, 0)
Ended(image, code) == [Running(image, <<>>, <<>>, 0) EXCEPT !.code = code]

None == [is |-> "none", code |-> 0]
Threw == [is |-> "threw", code |-> 0]
Returned(code) == [is |-> "returned", code |-> code]

Current == suite[test]

Init ==
  /\ suite \in Suites /\ test = 1 /\ pc = "fixture"
  /\ pipe = [read |-> 0, write |-> 0] /\ backup = 0
  /\ result = None /\ lines = <<>>
  /\ \E others \in Inherited :
       atStart = [d \in others \cup {1, 2} |->
                    [file |-> IF d = 1 THEN Stdout
                              ELSE IF d = 2 THEN File("stderr") ELSE File("other"),
                     cloexec |-> FALSE]]
  /\ fds = [p \in Process |-> IF p = 1 THEN atStart ELSE <<>>]
  /\ process = [p \in Child |-> NoProcess]
  /\ content = <<>> /\ failed = FALSE /\ launches = 0

At(place) == pc = place /\ test <= Len(suite)

(***************************************************************************)
(* The harness.  Pipe ().                                                  *)
(***************************************************************************)
OpenPipe ==
  /\ At("fixture")
  /\ Cardinality(Free(fds[1])) >= 2
  /\ LET r == Lowest(Free(fds[1]))
         w == Lowest(Free(fds[1]) \ {r})
     IN  /\ pipe' = [read |-> r, write |-> w]
         /\ fds' = [fds EXCEPT ![1] = With(With(@, r, End("read"), TRUE), w, End("write"), TRUE)]
  /\ content' = <<>>
  /\ pc' = "backup"
  /\ UNCHANGED <<suite, test, backup, result, lines, process, failed, atStart, launches>>

PipeFails ==
  /\ At("fixture")
  /\ Cardinality(Free(fds[1])) < 2
  /\ result' = Threw /\ failed' = TRUE
  /\ pc' = "report"
  /\ UNCHANGED <<suite, test, pipe, backup, lines, world, atStart, launches>>

(* FileDescriptorBackup (STDOUT_FILENO) *)
BackUp ==
  /\ At("backup")
  /\ Free(fds[1]) # {}
  /\ LET b == Lowest(Free(fds[1]))
     IN  /\ backup' = b
         /\ fds' = [fds EXCEPT ![1] = Dup2(@, 1, b)]
  /\ launches' = launches + 1
  /\ pc' = "close"
  /\ UNCHANGED <<suite, test, pipe, result, lines, process, content, failed, atStart>>

BackupFails ==
  /\ At("backup")
  /\ Free(fds[1]) = {}
  /\ result' = Threw /\ failed' = TRUE
  /\ pc' = "unfixture"
  /\ UNCHANGED <<suite, test, pipe, backup, lines, world, atStart, launches>>

CloseStdout ==
  /\ At("close")
  /\ fds' = [fds EXCEPT ![1] = Without(@, 1)]
  /\ pc' = "redirect"
  /\ UNCHANGED <<suite, test, pipe, backup, result, lines, process, content, failed,
                 atStart, launches>>

(* RedirectedDescriptor (STDOUT_FILENO, stdoutWriteEnd) *)
Redirect ==
  /\ At("redirect")
  /\ fds' = [fds EXCEPT ![1] = Dup2(@, pipe.write, 1)]
  /\ pc' = "fork"
  /\ UNCHANGED <<suite, test, pipe, backup, result, lines, process, content, failed,
                 atStart, launches>>

(* fork (): the new process has a copy of all descriptors. *)
Forks(p) ==
  /\ p < MaxProcess
  /\ process[p + 1] = NoProcess
  /\ fds' = [fds EXCEPT ![p + 1] = fds[p]]

Fork ==
  /\ At("fork")
  /\ Forks(1)
  /\ process' = [process EXCEPT ![2] = Running("forked", Current.args, Current.env, 0)]
  /\ pc' = "unredirect"
  /\ UNCHANGED <<suite, test, pipe, backup, result, lines, content, failed, atStart,
                 launches>>

(* Mutant: leaves at once, as it would were the descriptors not objects. *)
ForkFailsAtOnce ==
  /\ At("fork")
  /\ result' = Threw /\ failed' = TRUE
  /\ pc' = "unfixture"
  /\ UNCHANGED <<suite, test, pipe, backup, lines, world, atStart, launches>>

(* There may be too many processes at any time: the rest of the system has    *)
(* some too.                                                                  *)
ForkFails ==
  /\ At("fork")
  /\ result' = Threw /\ failed' = TRUE
  /\ pc' = "unredirect"
  /\ UNCHANGED <<suite, test, pipe, backup, lines, world, atStart, launches>>

(* Mutant: the write end stays open. *)
KeepWriteEnd ==
  /\ At("unredirect")
  /\ pipe' = [pipe EXCEPT !.write = 0]
  /\ pc' = "restore"
  /\ UNCHANGED <<suite, test, backup, result, lines, world, failed, atStart, launches>>

(* ~RedirectedDescriptor () *)
CloseWriteEnd ==
  /\ At("unredirect")
  /\ fds' = [fds EXCEPT ![1] = IF pipe.write # 0 THEN Without(@, pipe.write) ELSE @]
  /\ pipe' = [pipe EXCEPT !.write = 0]
  /\ pc' = "restore"
  /\ UNCHANGED <<suite, test, backup, result, lines, process, content, failed, atStart,
                 launches>>

(* ~FileDescriptorBackup (): the backup itself is not closed. *)
Restore ==
  /\ At("restore")
  /\ fds' = [fds EXCEPT ![1] = IF backup # 0 THEN Dup2(@, backup, 1) ELSE @]
  /\ pc' = IF result = Threw THEN "unfixture" ELSE "wait"
  /\ UNCHANGED <<suite, test, pipe, backup, result, lines, process, content, failed,
                 atStart, launches>>

(* Mutant: takes what waitpid stores for the exit code, which it is times 256. *)
WaitKeepsStatus ==
  /\ At("wait")
  /\ process[2].image \in {"exited", "killed"}
  /\ process' = [process EXCEPT ![2] = NoProcess]
  /\ result' = Returned(256 * process[2].code)
  /\ pc' = IF Current.reads THEN "read" ELSE "unfixture"
  /\ UNCHANGED <<suite, test, pipe, backup, lines, fds, content, failed, atStart,
                 launches>>

(* waitpid (child): by now the child has ended, one way or the other. *)
Wait ==
  /\ At("wait")
  /\ process[2].image \in {"exited", "killed"}
  /\ process' = [process EXCEPT ![2] = NoProcess]
  /\ IF process[2].image = "killed"
     THEN result' = Threw /\ pc' = "unfixture"
     ELSE /\ result' = Returned(process[2].code)
          /\ pc' = IF Current.reads THEN "read" ELSE "unfixture"
  /\ UNCHANGED <<suite, test, pipe, backup, lines, fds, content, failed, atStart,
                 launches>>

(* GetChildOutput, which drops the lines that are empty. *)
ReadLine ==
  /\ At("read")
  /\ content # <<>>
  /\ content' = Tail(content)
  /\ lines' = IF Head(content).says = Empty THEN lines ELSE Append(lines, Head(content))
  /\ UNCHANGED <<suite, test, pc, pipe, backup, result, fds, process, failed, atStart,
                 launches>>

ReadEnds ==
  /\ At("read")
  /\ content = <<>>
  /\ ~HasWriter
  /\ pc' = "unfixture"
  /\ UNCHANGED <<suite, test, pipe, backup, result, lines, world, failed, atStart,
                 launches>>

(* ~Pipe (): 0 is taken for an end that was closed. *)
ClosePipe ==
  /\ At("unfixture")
  /\ fds' = [fds EXCEPT ![1] =
               [d \in DOMAIN @ \ ({pipe.read, pipe.write} \ {0}) |-> @[d]]]
  /\ pc' = "report"
  /\ UNCHANGED <<suite, test, pipe, backup, result, lines, process, content, failed,
                 atStart, launches>>

(* Google Test has the result, and constructs the fixture of the next test. *)
NextTest ==
  /\ At("report")
  /\ test' = test + 1
  /\ pc' = "fixture"
  /\ pipe' = [read |-> 0, write |-> 0] /\ backup' = 0
  /\ result' = None /\ lines' = <<>>
  /\ failed' = FALSE
  /\ UNCHANGED <<suite, world, atStart, launches>>

HarnessStep ==
  \/ OpenPipe \/ PipeFails \/ BackUp \/ BackupFails \/ CloseStdout \/ Redirect
  \/ Fork \/ ForkFails \/ CloseWriteEnd \/ Restore \/ Wait
  \/ ReadLine \/ ReadEnds \/ ClosePipe \/ NextTest

(***************************************************************************)
(* The other processes.                                                    *)
(***************************************************************************)
Becomes(p, state) ==
  /\ process' = [process EXCEPT ![p] = state]
  /\ UNCHANGED <<suite, test, harness, failed, atStart, launches>>

(* The end of p, which closes its descriptors. *)
Ends(p, image, code) ==
  /\ Becomes(p, Ended(image, code))
  /\ fds' = [fds EXCEPT ![p] = <<>>]
  /\ UNCHANGED content

(* execvpe: p goes on as the program argv names, in env; it keeps the         *)
(* descriptors that are not closed on exec.  When it fails, p is killed: by   *)
(* abort () in the harness's child, by the exception elsewhere.               *)
Executes(p, argv, env) ==
  IF argv[1].text \in Programs
  THEN /\ Becomes(p, Running(argv[1].text, argv, env, 0))
       /\ fds' = [fds EXCEPT ![p] = AcrossExec(@)]
       /\ UNCHANGED content
  ELSE Ends(p, "killed", 0)

(* A call of p fails as it can at any time, and what p throws kills it.       *)
Fails(p) ==
  /\ process' = [process EXCEPT ![p] = Ended("killed", 0)]
  /\ fds' = [fds EXCEPT ![p] = <<>>]
  /\ failed' = TRUE
  /\ UNCHANGED <<suite, test, harness, content, atStart, launches>>

(* p writes a line to its standard output and comes to at; while the pipe is  *)
(* full it waits.                                                             *)
Writes(p, line, at) ==
  /\ IF fds[p][1].file = End("write")
     THEN Len(content) < Capacity /\ content' = Append(content, line)
     ELSE UNCHANGED content
  /\ Becomes(p, [process[p] EXCEPT !.at = at])
  /\ UNCHANGED fds

Runs(p, image, at) == process[p].image = image /\ process[p].at = at

ExecutesForked(p) ==
  /\ process[p].image = "forked"
  /\ Executes(p, process[p].argv, process[p].env)

(***************************************************************************)
(* passthrough.cpp; at is the argument it has come to.                     *)
(***************************************************************************)
PassthroughStarts(p) ==
  /\ Runs(p, "passthrough", 0)
  /\ Writes(p, Says("started", Empty), 2)

Looking(p) ==
  process[p].image = "passthrough" /\ process[p].at \in 2 .. Len(process[p].argv)
Argv(p) == process[p].argv[process[p].at]

PassthroughPrintsOption(p) ==
  /\ Looking(p)
  /\ Argv(p).is # "word"
  /\ Writes(p, Says("option", Argv(p).text), process[p].at + 1)

(* The wrapped program gets this argument and those after it, and environ. *)
PassthroughForks(p) ==
  /\ Looking(p)
  /\ Argv(p).is = "word"
  /\ Forks(p)
  /\ LET rest == SubSeq(process[p].argv, process[p].at, Len(process[p].argv))
     IN  process' = [process EXCEPT ![p].image = "waiting",
                                    ![p + 1] = Running("forked", rest, process[p].env, 0)]
  /\ UNCHANGED <<suite, test, harness, content, failed, atStart, launches>>

PassthroughCannotFork(p) ==
  /\ Looking(p)
  /\ Argv(p).is = "word"
  /\ Fails(p)

(* Mutants: does not wait for the program, or forgets how it ended. *)
PassthroughLeaves(p) ==
  /\ process[p].image = "waiting"
  /\ Ends(p, "exited", 0)

PassthroughForgets(p) ==
  /\ process[p].image = "waiting"
  /\ process[p + 1].image \in {"exited", "killed"}
  /\ process' = [process EXCEPT ![p] = Ended("exited", process[p + 1].code),
                                ![p + 1] = NoProcess]
  /\ fds' = [fds EXCEPT ![p] = <<>>]
  /\ UNCHANGED <<suite, test, harness, content, failed, atStart, launches>>

(* waitpid (child): exits as the program did, or throws when it was killed. *)
PassthroughWaits(p) ==
  /\ process[p].image = "waiting"
  /\ process[p + 1].image \in {"exited", "killed"}
  /\ process' = [process EXCEPT ![p] = process[p + 1], ![p + 1] = NoProcess]
  /\ fds' = [fds EXCEPT ![p] = <<>>]
  /\ UNCHANGED <<suite, test, harness, content, failed, atStart, launches>>

PassthroughFindsNoProgram(p) ==
  /\ process[p].image = "passthrough"
  /\ process[p].at = Len(process[p].argv) + 1
  /\ Ends(p, "exited", 1)

(***************************************************************************)
(* A program linked to yiqi_main; at is 0 in main, then how far its tests  *)
(* have come.                                                              *)
(***************************************************************************)
TestOutput == <<Says("tests", Empty), Says(Empty, Empty)>>

Request(p) == RequestOf([argv |-> process[p].argv, environ |-> process[p].env])

TargetAnnounces(p) ==
  /\ Runs(p, "simple_test", 0)
  /\ Request(p).is = "inherited"
  /\ Writes(p, Says("under", Request(p).name), 1)

TargetRunsPlain(p) ==
  /\ Runs(p, "simple_test", 0)
  /\ Request(p).is = "plain"
  /\ Becomes(p, [process[p] EXCEPT !.at = 1])
  /\ UNCHANGED <<fds, content>>

(* FindExecutable and ExecInPlace: the same process executes the wrapper. *)
TargetRelaunches(p) ==
  /\ Runs(p, "simple_test", 0)
  /\ Request(p).is = "instrumented"
  /\ LET args == WithoutFlags(process[p].argv)
         tool == ParseOptionsToTool(args)
     IN  IF InstrumentationWrapper(tool) \in Current.onPath
         THEN Executes(p, BuildCommandLine(args, tool), GetToolEnv(process[p].env, tool))
         ELSE Ends(p, "killed", 0)

TargetRejectsOptions(p) ==
  /\ Runs(p, "simple_test", 0)
  /\ Request(p).is = "malformed"
  /\ Ends(p, "killed", 0)

TargetRunsTests(p) ==
  /\ process[p].image = "simple_test"
  /\ process[p].at \in DOMAIN TestOutput
  /\ Writes(p, TestOutput[process[p].at], process[p].at + 1)

TargetEnds(p) ==
  /\ Runs(p, "simple_test", Len(TestOutput) + 1)
  /\ Ends(p, "exited", 0)

Passthrough(p) ==
  \/ PassthroughStarts(p) \/ PassthroughPrintsOption(p) \/ PassthroughForks(p)
  \/ PassthroughCannotFork(p) \/ PassthroughWaits(p) \/ PassthroughFindsNoProgram(p)

Target(p) ==
  \/ TargetAnnounces(p) \/ TargetRunsPlain(p) \/ TargetRelaunches(p)
  \/ TargetRejectsOptions(p) \/ TargetRunsTests(p) \/ TargetEnds(p)

(* execvpe may fail on a program that is there, too: there is no memory, the  *)
(* arguments are too long, the interpreter is missing.                        *)
Relaunching(p) ==
  /\ Runs(p, "simple_test", 0)
  /\ Request(p).is = "instrumented"
  /\ InstrumentationWrapper(ParseOptionsToTool(WithoutFlags(process[p].argv))) \in Current.onPath

CannotExecute(p) ==
  /\ process[p].image = "forked" \/ Relaunching(p)
  /\ Fails(p)

ChildStep(p) == ExecutesForked(p) \/ CannotExecute(p) \/ Passthrough(p) \/ Target(p)

Finished == test > Len(suite) /\ UNCHANGED vars

Next == HarnessStep \/ (\E p \in Child : ChildStep(p)) \/ Finished

(* The system runs every process that is not blocked. *)
Spec ==
  /\ Init /\ [][Next]_vars
  /\ WF_vars(HarnessStep) /\ \A p \in Child : WF_vars(ChildStep(p))

(***************************************************************************)
(* Properties.                                                             *)
(***************************************************************************)
TypeOK ==
  /\ suite \in Suites
  /\ test \in 1 .. Len(suite) + 1
  /\ pc \in {"fixture", "backup", "close", "redirect", "fork", "unredirect", "restore",
             "wait", "read", "unfixture", "report"}
  /\ pipe \in [read : 0 .. MaxFd - 1, write : 0 .. MaxFd - 1]
  /\ backup \in 0 .. MaxFd - 1
  /\ result.is \in {"none", "threw", "returned"} /\ result.code \in {0, 1}
  /\ lines \in Seq(Line)
  /\ \A p \in Process :
       /\ DOMAIN fds[p] \subseteq 0 .. MaxFd - 1
       /\ \A d \in DOMAIN fds[p] :
            /\ fds[p][d].file.of \in {"stdout", "stderr", "other", "read", "write"}
            /\ fds[p][d].cloexec \in BOOLEAN
  /\ \A p \in Child :
       /\ process[p].image \in {"none", "forked", "waiting", "exited", "killed"} \cup Programs
       /\ process[p].argv \in Seq(Argument) /\ process[p].env \in Seq(Entry)
       /\ process[p].at \in Nat /\ process[p].code \in {0, 1}
  /\ content \in Seq(Line) /\ Len(content) <= Capacity
  /\ failed \in BOOLEAN /\ launches \in 0 .. Len(suite)

(* Outside of launchBinary the harness's standard output is what it was: also *)
(* when no pipe, no descriptor or no process could be had half-way through,   *)
(* Google Test's reports never go into a pipe, nor nowhere.                   *)
StdoutRestored ==
  pc \notin {"redirect", "fork", "unredirect", "restore"}
    => 1 \in DOMAIN fds[1] /\ fds[1][1] = [file |-> Stdout, cloexec |-> FALSE]

(* Between two tests the harness has the descriptors it was started with, and *)
(* one copy of its standard output for each launch, which nothing closes; a   *)
(* standard input that was closed has been taken by a pipe for good.  The     *)
(* copies fill the table but for two places, where a pipe still fits: it is   *)
(* the backup that fails in the end.                                          *)
OneDescriptorPerLaunch ==
  /\ pc = "report" =>
       LET more == DOMAIN fds[1] \ (DOMAIN atStart \cup {0})
       IN  /\ Cardinality(more) = launches
           /\ \A d \in more : fds[1][d].file = Stdout
           /\ \A d \in DOMAIN atStart : d \in DOMAIN fds[1] /\ fds[1][d] = atStart[d]
  /\ pc = "fixture" /\ 0 \in DOMAIN atStart /\ Cardinality(Free(atStart)) >= 2
       => Cardinality(Free(fds[1])) >= 2

(* When the harness has its answer, every process the launch has started is   *)
(* gone, the wrapper's child with the wrapper, and nobody holds a write end:  *)
(* what is read then is all there will ever be, and ends.                     *)
NothingOutlivesLaunch ==
  result # None /\ pc \notin {"unredirect", "restore"}
    => /\ \A p \in Child : process[p] = NoProcess
       /\ pc = "read" => ~HasWriter

(* What a test has to go by: the result, and the output once it is read. *)
Answer == IF pc \in {"unfixture", "report"} THEN result ELSE None
Output == IF pc \in {"unfixture", "report"} THEN lines ELSE <<>>

Captured == INSTANCE CapturedRun WITH result <- Answer, lines <- Output

(* Each test sees what its command prints and how it exits, or an exception   *)
(* when a call failed or a process was killed, wrapper and wrapped program    *)
(* included; no output of one test is read by another.                        *)
ImplementsCapturedRun == Captured!Spec
===============================================================================
