------------------------------ MODULE Relaunch ------------------------------
(***************************************************************************)
(* One invocation of a test program linked to yiqi_main: main              *)
(* (yiqi_main.cpp), the relaunch under a wrapper it may decide on          *)
(* (reexecution.cpp, commandline.cpp), the system calls it makes           *)
(* (system_unix.cpp), the wrapper it becomes, and the same main once more  *)
(* in the program the wrapper runs.  Meanwhile files come and go.          *)
(*                                                                         *)
(* A step is as much of main as happens between two looks at anything the  *)
(* rest of the system can change.  Exceptions are not caught by main: one  *)
(* that is thrown ends the program.                                        *)
(***************************************************************************)
EXTENDS Invocation

CONSTANTS
  Dirs,          \* directories that can be on the executable path
  Paths,         \* the values PATH can have: sequences of characters
  CommandLines,  \* the command lines the program can be invoked with
  Environs,      \* the rest of the environments it can be invoked in
  Kinds,         \* what a directory can have under the wrapper's name
  Changing       \* whether that can change while the program runs

ASSUME RelaunchAssumption ==
  /\ \A p \in Paths : Searched(p) \in Seq(Dirs)
  /\ CommandLines \subseteq Seq(Argument)
  /\ \A args \in CommandLines : args # <<>> /\ args[1].is = "word"
  /\ Environs \subseteq Seq(Entry)
  /\ Nothing \notin Dirs
  /\ Changing \in BOOLEAN
  /\ Kinds \subseteq {"absent", "file", "directory", "program"}

VARIABLES
  image,     \* what the process executes: "target", "wrapper" or "none" (ended)
  pc,        \* where main is, in the target
  argv,      \* the arguments the image was started with
  environ,   \* its environment but for PATH: a sequence of [key, value]
  path,      \* the directories of its PATH
  tool,      \* main's tool, once parsed
  at,        \* FindExecutable's place on the path
  found,     \* the directory of the executable found, or Nothing
  newArgv, newEnv,  \* what Relaunch has fetched
  files,     \* what each directory has under the wrapper's name
  header,    \* the tool named by the "running under" header, if printed
  outcome,   \* why the process ended
  invoked,   \* history: the arguments and the environment of the invocation
  asked,     \* history: what that asks for
  wrappers,  \* history: the argv of each wrapper that was started
  seen       \* history: what ExeExists saw at the executable found

system == <<argv, environ, path>>
locals == <<tool, at, found, newArgv, newEnv>>
history == <<invoked, asked, wrappers, seen>>
vars == <<image, pc, system, locals, files, header, outcome, history>>

(* access (X_OK), which a directory one may search satisfies too.  What can be *)
(* executed is a program, if anything.                                          *)
ExeExists(kind) == kind \in {"program", "directory"}
CanExecute(kind) == kind = "program"

(***************************************************************************)
(* Initial states: the program has just been invoked.                      *)
(***************************************************************************)
Init ==
  /\ image = "target" /\ pc = "main"
  /\ argv \in CommandLines
  /\ environ \in Environs
  /\ \E p \in Paths : path = Searched(p)
  /\ tool = "None" /\ at = 1 /\ found = Nothing
  /\ newArgv = <<>> /\ newEnv = <<>>
  /\ files \in [Dirs -> Kinds]
  /\ header = Nothing /\ outcome = "running"
  /\ invoked = [argv |-> argv, environ |-> environ]
  /\ asked = RequestOf(invoked)
  /\ wrappers = <<>> /\ seen = <<>>

In(program, place) == image = program /\ pc = place

Ends(why) ==
  /\ image' = "none"
  /\ outcome' = why

(***************************************************************************)
(* main, up to RelaunchCurrentProgram.                                     *)
(***************************************************************************)
MainUnderTool ==
  /\ In("target", "main")
  /\ IsActive(environ)
  /\ argv' = WithoutFlags(argv)
  /\ header' = ActiveTool(environ)
  /\ pc' = "tests"
  /\ UNCHANGED <<image, environ, path, locals, files, outcome, history>>

(* boost throws while parsing, *)
MainRejectsOptions ==
  /\ In("target", "main")
  /\ ~IsActive(environ)
  /\ Malformed(WithoutFlags(argv))
  /\ argv' = WithoutFlags(argv)
  /\ Ends("options_rejected")
  /\ UNCHANGED <<pc, environ, path, locals, files, header, history>>

MainParses(nextPc) ==
  /\ In("target", "main")
  /\ ~IsActive(environ)
  /\ ~Malformed(WithoutFlags(argv))
  /\ argv' = WithoutFlags(argv)
  /\ tool' = ParseOptionsToTool(argv')
  /\ pc' = nextPc
  /\ UNCHANGED <<image, environ, path, at, found, newArgv, newEnv, files, header,
                 outcome, history>>

(* or the tool has no wrapper, *)
MainRunsPlain ==
  /\ MainParses("tests")
  /\ ~NeedsWrapper(tool')

(* or it has. *)
MainRelaunches ==
  /\ MainParses("find")
  /\ NeedsWrapper(tool')

(***************************************************************************)
(* FindExecutable.  Its first check, that the tool has a wrapper, main has *)
(* made already.                                                           *)
(***************************************************************************)
SearchFails ==
  /\ In("target", "find")
  /\ at > Len(path)
  /\ Ends(IF path = <<>> THEN "no_path" ELSE "not_found")
  /\ UNCHANGED <<pc, system, locals, files, header, history>>

(* Mutants: searches the path from its end, or every other directory of it. *)
SearchLooksFromEnd ==
  /\ In("target", "find")
  /\ at <= Len(path)
  /\ LET dir == path[Len(path) + 1 - at]
     IN  /\ seen' = Append(seen, files[dir])
         /\ IF ExeExists(files[dir])
            THEN found' = dir /\ pc' = "fetch" /\ at' = at
            ELSE at' = at + 1 /\ UNCHANGED <<found, pc>>
  /\ UNCHANGED <<image, system, tool, newArgv, newEnv, files, header, outcome,
                 invoked, asked, wrappers>>

SearchLooksTwice ==
  /\ In("target", "find")
  /\ at <= Len(path)
  /\ seen' = Append(seen, files[path[at]])
  /\ IF ExeExists(files[path[at]])
     THEN found' = path[at] /\ pc' = "fetch" /\ at' = at
     ELSE at' = at + 2 /\ UNCHANGED <<found, pc>>
  /\ UNCHANGED <<image, system, tool, newArgv, newEnv, files, header, outcome,
                 invoked, asked, wrappers>>

SearchLooks ==
  /\ In("target", "find")
  /\ at <= Len(path)
  /\ seen' = Append(seen, files[path[at]])
  /\ IF ExeExists(files[path[at]])
     THEN found' = path[at] /\ pc' = "fetch" /\ at' = at
     ELSE at' = at + 1 /\ UNCHANGED <<found, pc>>
  /\ UNCHANGED <<image, system, tool, newArgv, newEnv, files, header, outcome,
                 invoked, asked, wrappers>>

(***************************************************************************)
(* Relaunch: fetchArgv and fetchEnv, then ExecInPlace.                     *)
(***************************************************************************)
Fetch ==
  /\ In("target", "fetch")
  /\ newArgv' = BuildCommandLine(argv, tool)
  /\ newEnv' = GetToolEnv(environ, tool)
  /\ pc' = "exec"
  /\ UNCHANGED <<image, system, tool, at, found, files, header, outcome, history>>

(* execvpe does not return: everything main had is gone. *)
ExecReplaces ==
  /\ In("target", "exec")
  /\ CanExecute(files[found])
  /\ image' = "wrapper" /\ pc' = "main"
  /\ argv' = newArgv /\ environ' = newEnv
  /\ tool' = "None" /\ at' = 1 /\ found' = Nothing
  /\ newArgv' = <<>> /\ newEnv' = <<>> /\ seen' = <<>>
  /\ wrappers' = Append(wrappers, newArgv)
  /\ UNCHANGED <<path, files, header, outcome, invoked, asked>>

(* It throws when execvpe returns, which it may do whatever file is there: the *)
(* interpreter is missing, the arguments are too long, the file system is      *)
(* mounted noexec, there is no memory.                                         *)
ExecThrows ==
  /\ In("target", "exec")
  /\ Ends("exec_failed")
  /\ UNCHANGED <<pc, system, locals, files, header, history>>

(***************************************************************************)
(* The wrapper (external): it runs the program it was given in its own     *)
(* environment, or fails to.                                               *)
(***************************************************************************)
WrapperRunsTarget ==
  /\ image = "wrapper"
  /\ image' = "target"
  /\ argv' = WrappedCommand(argv)
  /\ UNCHANGED <<pc, environ, path, locals, files, header, outcome, history>>

WrapperFails ==
  /\ image = "wrapper"
  /\ Ends("wrapper_failed")
  /\ UNCHANGED <<pc, system, locals, files, header, history>>

(* RUN_ALL_TESTS (external), and the end of main. *)
RunAllTests ==
  /\ In("target", "tests")
  /\ Ends("tests_ran")
  /\ UNCHANGED <<pc, system, locals, files, header, history>>

(* Whoever else uses the machine installs and removes wrappers. *)
FileChanges(d) ==
  /\ Changing
  /\ image # "none"
  /\ \E kind \in Kinds : files' = [files EXCEPT ![d] = kind]
  /\ UNCHANGED <<image, pc, system, locals, header, outcome, history>>

Program ==
  \/ MainUnderTool \/ MainRejectsOptions \/ MainRunsPlain \/ MainRelaunches
  \/ SearchFails \/ SearchLooks \/ Fetch \/ ExecReplaces \/ ExecThrows
  \/ WrapperRunsTarget \/ WrapperFails \/ RunAllTests

Ended == image = "none" /\ UNCHANGED vars

Next == Program \/ (\E d \in Dirs : FileChanges(d)) \/ Ended

(* One thread runs main, and whatever it calls returns. *)
Spec == Init /\ [][Next]_vars /\ WF_vars(Program)

(***************************************************************************)
(* Properties.                                                             *)
(***************************************************************************)
Outcomes == {"running", "options_rejected", "no_path", "not_found", "exec_failed",
             "wrapper_failed", "tests_ran"}

TypeOK ==
  /\ image \in {"target", "wrapper", "none"}
  /\ pc \in {"main", "find", "fetch", "exec", "tests"}
  /\ argv \in Seq(Argument) /\ newArgv \in Seq(Argument)
  /\ environ \in Seq(Entry) /\ newEnv \in Seq(Entry)
  /\ path \in Seq(Dirs)
  /\ tool \in Tool
  /\ at \in 1 .. Len(path) + 1
  /\ found \in Dirs \cup {Nothing}
  /\ files \in [Dirs -> Kinds]
  /\ header \in String \cup {Nothing}
  /\ outcome \in Outcomes
  /\ invoked \in [argv : Seq(Argument), environ : Seq(Entry)]
  /\ asked \in [is : {"plain", "inherited", "instrumented", "malformed"},
               name : String \cup {Nothing}]
  /\ wrappers \in Seq(Seq(Argument))
  /\ seen \in Seq(Kinds)

(* A relaunched program never relaunches again, whatever it was asked for and *)
(* whatever environment it started in.  Two things keep it from doing so, and *)
(* neither is lost on the way through the wrapper: the environment says that  *)
(* it runs under a tool, and the command line asks for none any more.         *)
RelaunchedOnce ==
  /\ Len(wrappers) <= 1
  /\ wrappers # <<>> /\ image = "target"
       => IsActive(environ) /\ Given(argv, "tool") = {}

(* The search looks at the directories in the order of the path, settles for  *)
(* the first that has an executable, and gives up only when it has seen all.  *)
SearchesPathInOrder ==
  /\ found # Nothing => /\ seen # <<>>
                        /\ found = path[Len(seen)]
                        /\ ExeExists(seen[Len(seen)])
  /\ \A i \in 1 .. Len(seen) : ExeExists(seen[i]) => found # Nothing /\ i = Len(seen)
  /\ outcome = "not_found" => Len(seen) = Len(path)

(* What the search settles for is a file one can execute: ExeExists says       *)
(* "whether not an executable file exists at a named path".                    *)
SettlesForExecutable ==
  found # Nothing => CanExecute(seen[Len(seen)])

Arguments(args) == {args[i] : i \in DOMAIN args}
Names(env) == {env[i].key : i \in DOMAIN env}

(* What getenv finds under a name. *)
Values(env, name) ==
  {env[i].value : i \in {k \in DOMAIN env :
                            env[k].key = name /\ \A j \in 1 .. k - 1 : env[j].key # name}}

(* Whoever runs main, the shell or the wrapper the program has become since,  *)
(* it is main of the program that was invoked, under the name it was invoked  *)
(* by, with no argument nobody gave it (one of the wrapper's, say), and it    *)
(* finds in its environment what was there, yiqi's own entry aside.           *)
RunsWhatWasInvoked ==
  image = "target" =>
    /\ argv[1] = invoked.argv[1]
    /\ Arguments(argv) \subseteq Arguments(invoked.argv)
    /\ \A name \in (Names(environ) \cup Names(invoked.environ)) \ {Key} :
         Values(environ, name) = Values(invoked.environ, name)

(* What the program comes to for one who only sees the wrapper, the header    *)
(* and the tests: module TestRun.                                             *)
Visible == INSTANCE TestRun WITH
  Silent <- Nothing,
  request <- asked,
  stage <- IF image = "none" THEN IF outcome = "tests_ran" THEN "ran" ELSE "failed"
           ELSE IF wrappers # <<>> THEN "wrapped" ELSE "asked"

ImplementsTestRun == Visible!Spec

=============================================================================
