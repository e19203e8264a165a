---------------------------- MODULE RelaunchProofs ----------------------------
(***************************************************************************)
(* What an invocation does, for any command line, environment, path and    *)
(* files, and whatever happens to the files meanwhile: it searches the     *)
(* path in order, relaunches at most once, runs what was invoked, and      *)
(* comes, step by step, to what module TestRun says.                       *)
(***************************************************************************)
EXTENDS Relaunch, InvocationProofs

(***************************************************************************)
(* The search.                                                             *)
(***************************************************************************)
SearchShape ==
  /\ path \in Seq(Dirs) /\ files \in [Dirs -> Kinds] /\ seen \in Seq(Kinds)
  /\ at \in 1 .. Len(path) + 1
  /\ found \in Dirs \cup {Nothing}

(* Until something is found, as many directories have been seen as were passed. *)
SearchState ==
  /\ found = Nothing => Len(seen) = at - 1
  /\ image = "target" /\ pc \in {"main", "find"} => found = Nothing
  /\ image = "target" /\ pc \in {"fetch", "exec"} => found # Nothing
  /\ image = "wrapper" => found = Nothing /\ pc = "main"
  /\ image # "none" => outcome = "running"

SearchInv == SearchShape /\ SearchState /\ SearchesPathInOrder

LEMMA InitSearch == Init => SearchInv
<1> SUFFICES ASSUME Init PROVE SearchInv
  OBVIOUS
<1>1. /\ path \in Seq(Dirs) /\ files \in [Dirs -> Kinds]
      /\ image = "target" /\ pc = "main" /\ outcome = "running"
      /\ at = 1 /\ found = Nothing /\ seen = <<>>
  BY RelaunchAssumption DEF Init
<1>2. Len(seen) = 0 /\ seen \in Seq(Kinds) /\ Len(path) \in Nat
  BY <1>1, EmptySeq, LenProperties
<1>3. SearchShape
  BY <1>1, <1>2 DEF SearchShape
<1>4. SearchState
  BY <1>1, <1>2 DEF SearchState
<1>5. SearchesPathInOrder
  BY <1>1, <1>2 DEF SearchesPathInOrder
<1> QED BY <1>3, <1>4, <1>5 DEF SearchInv

(* A look at the next directory. *)
LEMMA LookKeepsSearch == SearchInv /\ SearchLooks => SearchInv'
<1> SUFFICES ASSUME SearchInv, SearchLooks PROVE SearchInv'
  OBVIOUS
<1> DEFINE kind == files[path[at]]
<1>1. /\ image = "target" /\ pc = "find" /\ at <= Len(path)
      /\ seen' = Append(seen, kind)
      /\ UNCHANGED <<image, path, files, outcome>>
  BY DEF SearchLooks, In, system
<1>2. found = Nothing /\ Len(seen) = at - 1 /\ outcome = "running"
  BY <1>1 DEF SearchInv, SearchState
<1>3. path[at] \in Dirs /\ kind \in Kinds /\ at \in Nat
  BY <1>1 DEF SearchInv, SearchShape
<1>4. /\ seen' \in Seq(Kinds) /\ Len(seen') = at /\ seen' # <<>> /\ seen'[at] = kind
      /\ \A i \in 1 .. at - 1 : seen'[i] = seen[i]
  <2>1. seen \in Seq(Kinds)
    BY DEF SearchInv, SearchShape
  <2> HIDE DEF kind
  <2> QED BY <2>1, <1>1, <1>2, <1>3, AppendProperties
<1>5. \A i \in 1 .. at - 1 : ~ExeExists(seen[i])
  BY <1>2 DEF SearchInv, SearchesPathInOrder
<1>6. CASE ExeExists(kind)
  <2>1. found' = path[at] /\ pc' = "fetch" /\ at' = at
    BY <1>6 DEF SearchLooks
  <2>2. found' \in Dirs /\ found' # Nothing
    BY <2>1, <1>3, RelaunchAssumption
  <2>3. SearchShape'
    BY <2>1, <2>2, <1>1, <1>4 DEF SearchInv, SearchShape
  <2>4. SearchState'
    BY <2>1, <2>2, <1>1, <1>2 DEF SearchState
  <2>5. SearchesPathInOrder'
    <3>1. \A i \in 1 .. Len(seen') : ExeExists(seen'[i]) => i = Len(seen')
      BY <1>3, <1>4, <1>5
    <3> QED BY <3>1, <2>1, <2>2, <1>1, <1>2, <1>4, <1>6 DEF SearchesPathInOrder
  <2> QED BY <2>3, <2>4, <2>5 DEF SearchInv
<1>7. CASE ~ExeExists(kind)
  <2>1. found' = Nothing /\ pc' = "find" /\ at' = at + 1
    BY <1>1, <1>2, <1>7 DEF SearchLooks
  <2>2. SearchShape'
    BY <2>1, <1>1, <1>3, <1>4 DEF SearchInv, SearchShape
  <2>3. SearchState'
    <3>1. at' - 1 = at
      BY <2>1, <1>3
    <3> QED BY <3>1, <2>1, <1>1, <1>2, <1>4 DEF SearchState
  <2>4. SearchesPathInOrder'
    <3>1. \A i \in 1 .. Len(seen') : ~ExeExists(seen'[i])
      BY <1>3, <1>4, <1>5, <1>7
    <3> QED BY <3>1, <2>1, <1>1, <1>2 DEF SearchesPathInOrder
  <2> QED BY <2>2, <2>3, <2>4 DEF SearchInv
<1> QED BY <1>6, <1>7

LEMMA StepSearch == SearchInv /\ [Next]_vars => SearchInv'
<1> SUFFICES ASSUME SearchInv, [Next]_vars PROVE SearchInv'
  OBVIOUS
<1>1. CASE MainUnderTool \/ MainRejectsOptions \/ MainRunsPlain \/ MainRelaunches
  BY <1>1 DEF MainUnderTool, MainRejectsOptions, MainRunsPlain, MainRelaunches, MainParses,
              In, Ends, locals, history, SearchInv, SearchShape, SearchState,
              SearchesPathInOrder
<1>2. CASE SearchFails
  <2>1. /\ UNCHANGED <<path, files, seen, at, found, pc>>
        /\ image' = "none" /\ at > Len(path) /\ found = Nothing
    BY <1>2 DEF SearchFails, In, Ends, system, locals, history, SearchInv, SearchState
  <2>2. Len(seen) = Len(path)
    <3>1. Len(seen) = at - 1 /\ at \in 1 .. Len(path) + 1 /\ Len(path) \in Nat
      BY <2>1, LenProperties DEF SearchInv, SearchState, SearchShape
    <3> QED BY <3>1, <2>1
  <2>3. SearchShape' /\ SearchState'
    BY <2>1 DEF SearchInv, SearchShape, SearchState
  <2>4. SearchesPathInOrder'
    BY <2>1, <2>2 DEF SearchInv, SearchesPathInOrder
  <2> QED BY <2>3, <2>4 DEF SearchInv
<1>3. CASE SearchLooks
  BY <1>3, LookKeepsSearch
<1>4. CASE Fetch
  BY <1>4 DEF Fetch, In, system, history, SearchInv, SearchShape, SearchState,
              SearchesPathInOrder
<1>5. CASE ExecReplaces
  <2>1. /\ UNCHANGED <<path, files, outcome>> /\ outcome = "running"
        /\ image' = "wrapper" /\ pc' = "main"
        /\ at' = 1 /\ found' = Nothing /\ seen' = <<>>
    BY <1>5 DEF ExecReplaces, In, SearchInv, SearchState
  <2>2. Len(seen') = 0 /\ seen' \in Seq(Kinds) /\ Len(path) \in Nat
    BY <2>1, EmptySeq, LenProperties DEF SearchInv, SearchShape
  <2>3. SearchShape'
    BY <2>1, <2>2 DEF SearchInv, SearchShape
  <2>4. SearchState' /\ SearchesPathInOrder'
    BY <2>1, <2>2 DEF SearchState, SearchesPathInOrder
  <2> QED BY <2>3, <2>4 DEF SearchInv
<1>6. CASE ExecThrows \/ WrapperFails \/ RunAllTests
  BY <1>6 DEF ExecThrows, WrapperFails, RunAllTests, In, Ends, system, locals, history,
              SearchInv, SearchShape, SearchState, SearchesPathInOrder
<1>7. CASE WrapperRunsTarget
  BY <1>7 DEF WrapperRunsTarget, locals, history, SearchInv, SearchShape, SearchState,
              SearchesPathInOrder
<1>8. ASSUME NEW d \in Dirs, FileChanges(d) PROVE SearchInv'
  <2>1. PICK kind \in Kinds : files' = [files EXCEPT ![d] = kind]
    BY <1>8 DEF FileChanges
  <2>2. UNCHANGED <<image, pc, path, at, found, outcome, seen>>
    BY <1>8 DEF FileChanges, system, locals, history
  <2> QED BY <2>1, <2>2 DEF SearchInv, SearchShape, SearchState, SearchesPathInOrder
<1>9. CASE Ended \/ UNCHANGED vars
  BY <1>9 DEF Ended, vars, system, locals, history, SearchInv, SearchShape, SearchState,
              SearchesPathInOrder
<1> QED BY <1>1, <1>2, <1>3, <1>4, <1>5, <1>6, <1>7, <1>8, <1>9 DEF Next, Program

(* FindExecutable looks at the directories in order, settles for the first    *)
(* that has an executable, and gives up only when it has seen them all.       *)
THEOREM SearchIsInOrder == Spec => []SearchesPathInOrder
<1>1. SearchInv => SearchesPathInOrder
  BY DEF SearchInv
<1> QED BY <1>1, InitSearch, StepSearch, PTL DEF Spec

(***************************************************************************)
(* From main to main.  Before the relaunch the program knows what it was   *)
(* asked for; after it only the environment does.                          *)
(***************************************************************************)
Unwrapped ==
  /\ image # "wrapper" /\ environ \in Seq(Entry)
  /\ image = "target" /\ pc = "main" =>
       /\ argv \in CommandLines
       /\ header = Nothing
       /\ asked = RequestOf([argv |-> argv, environ |-> environ])
  /\ image = "target" /\ pc \in {"find", "fetch", "exec"} =>
       /\ ~IsActive(environ) /\ NeedsWrapper(tool)
       /\ argv[1].is = "word"
       /\ asked = [is |-> "instrumented", name |-> StringFromTool[tool]]
       /\ header = Nothing
  /\ image = "target" /\ pc = "exec" =>
       /\ newArgv = BuildCommandLine(argv, tool)
       /\ newEnv = GetToolEnv(environ, tool)
  /\ image = "target" /\ pc = "tests" =>
       asked.is \in {"plain", "inherited"} /\ header = asked.name
  /\ image = "target" => pc \in {"main", "find", "fetch", "exec", "tests"}

Wrapped ==
  /\ \E args : wrappers = <<args>>
  /\ asked.is = "instrumented"
  /\ image # "none" => IsActive(environ) /\ ActiveTool(environ) = asked.name
  /\ image = "wrapper" => pc = "main" /\ (\E w : WrapsWord(argv, w)) /\ header = Nothing
  /\ image = "target" => /\ pc \in {"main", "tests"}
                         /\ \E w : argv = <<w>> /\ w.is = "word"
                         /\ header = IF pc = "tests" THEN asked.name ELSE Nothing

RInv == IF wrappers = <<>> THEN Unwrapped ELSE Wrapped

(* What main finds out about its invocation is what it was asked for. *)
LEMMA MainIsAsked ==
  ASSUME Unwrapped, In("target", "main")
  PROVE  LET args == WithoutFlags(argv)
             t    == ParseOptionsToTool(args)
         IN  /\ IsActive(environ) => asked.is = "inherited" /\ asked.name = ActiveTool(environ)
             /\ ~IsActive(environ) /\ Malformed(args) => asked.is = "malformed"
             /\ ~IsActive(environ) /\ ~Malformed(args) =>
                  IF NeedsWrapper(t)
                  THEN asked = [is |-> "instrumented", name |-> StringFromTool[t]]
                  ELSE asked.is = "plain" /\ asked.name = Nothing
<1>1. asked = RequestOf([argv |-> argv, environ |-> environ])
  BY DEF Unwrapped, In
<1> QED BY <1>1 DEF RequestOf

LEMMA InitRelaunch == Init => RInv
BY RelaunchAssumption DEF Init, RInv, Unwrapped

LEMMA StepRelaunch == RInv /\ [Next]_vars => RInv'
<1> SUFFICES ASSUME RInv, [Next]_vars PROVE RInv'
  OBVIOUS
<1>1. CASE MainUnderTool
  <2>1. /\ image = "target" /\ pc = "main" /\ IsActive(environ)
        /\ argv' = WithoutFlags(argv) /\ header' = ActiveTool(environ) /\ pc' = "tests"
        /\ UNCHANGED <<image, environ, asked, wrappers>>
    BY <1>1 DEF MainUnderTool, In, history
  <2>2. CASE wrappers = <<>>
    <3>1. Unwrapped
      BY <2>2 DEF RInv
    <3>2. asked.is = "inherited" /\ asked.name = ActiveTool(environ)
      BY <2>1, <3>1, MainIsAsked DEF In
    <3> QED BY <2>1, <2>2, <3>1, <3>2 DEF RInv, Unwrapped
  <2>3. CASE wrappers # <<>>
    <3>1. PICK w : argv = <<w>> /\ w.is = "word"
      BY <2>1, <2>3 DEF RInv, Wrapped
    <3>2. argv' = <<w>>
      <4>1. Len(argv) = 1 /\ argv[1] = w
        BY <3>1
      <4> QED BY <4>1, <2>1, NameAlone
    <3> QED BY <2>1, <2>3, <3>1, <3>2 DEF RInv, Wrapped
  <2> QED BY <2>2, <2>3
<1>2. ASSUME NEW place, MainParses(place), place \in {"tests", "find"},
             NeedsWrapper(tool') <=> place = "find"
      PROVE  RInv'
  <2>1. /\ image = "target" /\ pc = "main" /\ ~IsActive(environ)
        /\ ~Malformed(WithoutFlags(argv))
        /\ argv' = WithoutFlags(argv) /\ tool' = ParseOptionsToTool(argv') /\ pc' = place
        /\ UNCHANGED <<image, environ, header, asked, wrappers>>
    BY <1>2 DEF MainParses, In, history
  <2>2. wrappers = <<>> /\ Unwrapped
    BY <2>1 DEF RInv, Wrapped
  <2>3. IF NeedsWrapper(tool')
        THEN asked = [is |-> "instrumented", name |-> StringFromTool[tool']]
        ELSE asked.is = "plain" /\ asked.name = Nothing
    BY <2>1, <2>2, MainIsAsked DEF In
  <2>4. argv'[1].is = "word"
    <3>1. argv \in Seq(Argument) /\ argv[1].is = "word"
      BY <2>1, <2>2, RelaunchAssumption DEF Unwrapped
    <3> QED BY <2>1, <3>1, NameIsKept DEF Sequence
  <2>5. header' = Nothing
    BY <2>1, <2>2 DEF Unwrapped
  <2>6. CASE place = "find"
    BY <1>2, <2>1, <2>2, <2>3, <2>4, <2>5, <2>6 DEF RInv, Unwrapped
  <2>7. CASE place = "tests"
    BY <1>2, <2>1, <2>2, <2>3, <2>5, <2>7 DEF RInv, Unwrapped
  <2> QED BY <1>2, <2>6, <2>7
<1>3. CASE MainRunsPlain \/ MainRelaunches
  BY <1>2, <1>3 DEF MainRunsPlain, MainRelaunches
<1>4. CASE MainRejectsOptions \/ SearchFails \/ ExecThrows \/ WrapperFails \/ RunAllTests
  <2>1. image' = "none" /\ UNCHANGED <<environ, asked, wrappers>>
    BY <1>4 DEF MainRejectsOptions, SearchFails, ExecThrows, WrapperFails, RunAllTests, Ends,
                system, history
  <2> QED BY <2>1 DEF RInv, Unwrapped, Wrapped
<1>5. CASE SearchLooks
  <2>1. /\ image = "target" /\ pc = "find" /\ pc' \in {"find", "fetch"}
        /\ UNCHANGED <<image, argv, environ, tool, header, asked, wrappers>>
    BY <1>5 DEF SearchLooks, In, system
  <2>2. wrappers = <<>>
    BY <2>1 DEF RInv, Wrapped
  <2> QED BY <2>1, <2>2 DEF RInv, Unwrapped
<1>6. CASE Fetch
  <2>1. /\ image = "target" /\ pc = "fetch" /\ pc' = "exec"
        /\ newArgv' = BuildCommandLine(argv, tool) /\ newEnv' = GetToolEnv(environ, tool)
        /\ UNCHANGED <<image, argv, environ, tool, header, asked, wrappers>>
    BY <1>6 DEF Fetch, In, system, history
  <2>2. wrappers = <<>>
    BY <2>1 DEF RInv, Wrapped
  <2> QED BY <2>1, <2>2 DEF RInv, Unwrapped
<1>7. CASE ExecReplaces
  <2>1. /\ image = "target" /\ pc = "exec" /\ image' = "wrapper" /\ pc' = "main"
        /\ argv' = newArgv /\ environ' = newEnv /\ wrappers' = Append(wrappers, newArgv)
        /\ UNCHANGED <<header, asked>>
    BY <1>7 DEF ExecReplaces, In
  <2>2. wrappers = <<>> /\ Unwrapped
    BY <2>1 DEF RInv, Wrapped
  <2>3. /\ newArgv = BuildCommandLine(argv, tool) /\ newEnv = GetToolEnv(environ, tool)
        /\ argv[1].is = "word" /\ environ \in Seq(Entry) /\ ~IsActive(environ)
        /\ asked = [is |-> "instrumented", name |-> StringFromTool[tool]] /\ header = Nothing
    BY <2>1, <2>2 DEF Unwrapped
  <2>4. WrapsWord(argv', argv[1])
    BY <2>1, <2>3, BuildsCommand
  <2>5. IsActive(environ') /\ ActiveTool(environ') = asked.name
    BY <2>1, <2>3, ToolEnviron DEF Sequence
  <2>6. wrappers' = <<newArgv>>
    BY <2>1, <2>2
  <2>7. Wrapped'
    BY <2>1, <2>3, <2>4, <2>5, <2>6 DEF Wrapped
  <2> QED BY <2>6, <2>7 DEF RInv
<1>8. CASE WrapperRunsTarget
  <2>1. /\ image = "wrapper" /\ image' = "target" /\ argv' = WrappedCommand(argv)
        /\ UNCHANGED <<pc, environ, header, asked, wrappers>>
    BY <1>8 DEF WrapperRunsTarget, history
  <2>2. wrappers # <<>> /\ Wrapped
    BY <2>1 DEF RInv, Unwrapped
  <2>3. PICK w : WrapsWord(argv, w)
    BY <2>1, <2>2 DEF Wrapped
  <2>4. argv' = <<w>> /\ w.is = "word"
    BY <2>1, <2>3, RunsWord DEF WrapsWord
  <2>5. Wrapped'
    BY <2>1, <2>2, <2>4 DEF Wrapped
  <2> QED BY <2>1, <2>2, <2>5 DEF RInv
<1>9. CASE (\E d \in Dirs : FileChanges(d)) \/ Ended \/ UNCHANGED vars
  BY <1>9 DEF FileChanges, Ended, vars, system, locals, history, RInv, Unwrapped, Wrapped
<1> QED BY <1>1, <1>3, <1>4, <1>5, <1>6, <1>7, <1>8, <1>9 DEF Next, Program

(* However the program was invoked, it becomes the wrapper at most once, and  *)
(* what the wrapper runs is told that it is wrapped, and not asked to be.     *)
THEOREM NeverRelaunchesAgain == Spec => []RelaunchedOnce
<1>1. RInv => RelaunchedOnce
  <2> SUFFICES ASSUME RInv PROVE RelaunchedOnce
    OBVIOUS
  <2>1. Len(wrappers) <= 1
    <3>1. CASE wrappers = <<>>
      BY <3>1
    <3>2. CASE wrappers # <<>>
      <4>1. PICK args : wrappers = <<args>>
        BY <3>2 DEF RInv, Wrapped
      <4> QED BY <4>1
    <3> QED BY <3>1, <3>2
  <2>2. ASSUME wrappers # <<>>, image = "target"
        PROVE  IsActive(environ) /\ Given(argv, "tool") = {}
    <3>1. PICK w : argv = <<w>> /\ w.is = "word"
      BY <2>2 DEF RInv, Wrapped
    <3> QED BY <2>2, <3>1 DEF RInv, Wrapped, Given
  <2> QED BY <2>1, <2>2 DEF RelaunchedOnce
<1> QED BY <1>1, InitRelaunch, StepRelaunch, PTL DEF Spec

(***************************************************************************)
(* What is run is what was invoked.  Main only drops arguments, the        *)
(* wrapper is given the name and one entry more.                           *)
(***************************************************************************)
Kept ==
  /\ invoked \in [argv : CommandLines, environ : Environs]
  /\ wrappers = <<>> =>
       /\ environ = invoked.environ
       /\ image = "target" => /\ argv \in Seq(Arguments(invoked.argv)) /\ argv # <<>>
                              /\ argv[1] = invoked.argv[1]
  /\ wrappers # <<>> =>
       /\ \E v : environ = InsertEnvironmentPair(invoked.environ, Key, v)
       /\ image = "wrapper" => WrapsWord(argv, invoked.argv[1])
       /\ image = "target" => argv = <<invoked.argv[1]>>

LEMMA InitKept == Init => Kept
<1> SUFFICES ASSUME Init PROVE Kept
  OBVIOUS
<1>1. /\ argv \in CommandLines /\ environ \in Environs /\ wrappers = <<>>
      /\ invoked = [argv |-> argv, environ |-> environ]
  BY DEF Init
<1>2. argv \in Seq(Argument) /\ argv # <<>>
  BY <1>1, RelaunchAssumption
<1>3. argv \in Seq(Arguments(argv))
  <2>1. Len(argv) \in Nat /\ DOMAIN argv = 1 .. Len(argv) /\ argv = [i \in 1 .. Len(argv) |-> argv[i]]
    BY <1>2, LenProperties
  <2> DEFINE S == Arguments(argv)
  <2>2. argv \in [1 .. Len(argv) -> S]
    BY <2>1 DEF Arguments
  <2> HIDE DEF S
  <2>3. argv \in Seq(S)
    BY <2>1, <2>2, SeqDef
  <2> QED BY <2>3 DEF S
<1> QED BY <1>1, <1>2, <1>3 DEF Kept

LEMMA StepKept == RInv /\ Kept /\ [Next]_vars => Kept'
<1> SUFFICES ASSUME RInv, Kept, [Next]_vars PROVE Kept'
  OBVIOUS
<1>1. CASE MainUnderTool \/ MainRejectsOptions \/ MainRunsPlain \/ MainRelaunches
  <2>1. /\ image = "target" /\ argv' = WithoutFlags(argv) /\ image' \in {"target", "none"}
        /\ UNCHANGED <<environ, invoked, wrappers>>
    BY <1>1 DEF MainUnderTool, MainRejectsOptions, MainRunsPlain, MainRelaunches, MainParses,
                In, Ends, history
  <2>2. CASE wrappers = <<>>
    <3> DEFINE S == Arguments(invoked.argv)
    <3>1. argv \in Seq(S) /\ argv # <<>> /\ argv[1] = invoked.argv[1]
      BY <2>1, <2>2 DEF Kept
    <3> HIDE DEF S
    <3>2. argv' \in Seq(S) /\ argv' # <<>>
      BY <2>1, <3>1, NoFlags
    <3>3. argv'[1] = invoked.argv[1]
      BY <2>1, <3>1, NameIsKept DEF Sequence
    <3> QED BY <2>1, <2>2, <3>2, <3>3 DEF Kept, S
  <2>3. CASE wrappers # <<>>
    <3>1. argv = <<invoked.argv[1]>>
      BY <2>1, <2>3 DEF Kept
    <3>2. Len(argv) = 1 /\ argv[1] = invoked.argv[1]
      BY <3>1
    <3>3. argv' = <<invoked.argv[1]>>
      BY <2>1, <3>2, NameAlone
    <3> QED BY <2>1, <2>3, <3>3 DEF Kept
  <2> QED BY <2>2, <2>3
<1>2. CASE SearchFails \/ SearchLooks \/ Fetch \/ ExecThrows \/ WrapperFails \/ RunAllTests
  <2>1. UNCHANGED <<argv, environ, invoked, wrappers>> /\ image' \in {image, "none"}
    BY <1>2 DEF SearchFails, SearchLooks, Fetch, ExecThrows, WrapperFails, RunAllTests, Ends,
                system, history
  <2> QED BY <2>1 DEF Kept
<1>3. CASE ExecReplaces
  <2>1. /\ image = "target" /\ pc = "exec" /\ image' = "wrapper"
        /\ argv' = newArgv /\ environ' = newEnv /\ wrappers' = Append(wrappers, newArgv)
        /\ invoked' = invoked
    BY <1>3 DEF ExecReplaces, In
  <2>2. wrappers = <<>> /\ Unwrapped
    BY <2>1 DEF RInv, Wrapped
  <2>3. WrapsWord(argv', invoked.argv[1])
    <3>1. argv' = BuildCommandLine(argv, tool) /\ argv[1].is = "word"
      BY <2>1, <2>2 DEF Unwrapped
    <3>2. argv[1] = invoked.argv[1]
      BY <2>1, <2>2 DEF Kept
    <3> QED BY <3>1, <3>2, BuildsCommand
  <2>4. environ' = InsertEnvironmentPair(invoked.environ, Key, InstrumentationName(tool))
    BY <2>1, <2>2 DEF Unwrapped, Kept, GetToolEnv
  <2>5. wrappers' # <<>>
    BY <2>1, <2>2
  <2> QED BY <2>1, <2>3, <2>4, <2>5 DEF Kept
<1>4. CASE WrapperRunsTarget
  <2>1. /\ image = "wrapper" /\ image' = "target" /\ argv' = WrappedCommand(argv)
        /\ UNCHANGED <<environ, invoked, wrappers>>
    BY <1>4 DEF WrapperRunsTarget, history
  <2>2. wrappers # <<>>
    BY <2>1 DEF RInv, Unwrapped
  <2>3. argv' = <<invoked.argv[1]>>
    BY <2>1, <2>2, RunsWord DEF Kept
  <2> QED BY <2>1, <2>2, <2>3 DEF Kept
<1>5. CASE (\E d \in Dirs : FileChanges(d)) \/ Ended \/ UNCHANGED vars
  BY <1>5 DEF FileChanges, Ended, vars, system, history, Kept
<1> QED BY <1>1, <1>2, <1>3, <1>4, <1>5 DEF Next, Program

(* Under another name getenv finds in an environment what it did before the   *)
(* tool was put in.                                                           *)
LEMMA OthersRead ==
  ASSUME NEW env \in Seq(Entry), NEW v, NEW name, name # Key
  PROVE  Values(InsertEnvironmentPair(env, Key, v), name) = Values(env, name)
<1> DEFINE pair == [key |-> Key, value |-> v]
           new == Append(env, pair)
           n   == Len(env)
           First(e, k) == e[k].key = name /\ \A j \in 1 .. k - 1 : e[j].key # name
<1>1. n \in Nat /\ DOMAIN env = 1 .. n
  BY LenProperties
<1>2. /\ DOMAIN new = 1 .. n + 1 /\ new[n + 1] = pair
      /\ \A i \in 1 .. n : new[i] = env[i]
  <2>1. pair \in Entry \cup {pair} /\ env \in Seq(Entry \cup {pair})
    OBVIOUS
  <2> HIDE DEF pair
  <2> QED BY <2>1, <1>1, AppendProperties
<1>3. new[n + 1].key # name
  BY <1>2
<1> HIDE DEF new
<1>4. \A k \in DOMAIN env : new[k] = env[k] /\ (First(new, k) <=> First(env, k))
  BY <1>1, <1>2
<1>5. {k \in DOMAIN new : First(new, k)} = {k \in DOMAIN env : First(env, k)}
  BY <1>1, <1>2, <1>3, <1>4
<1>6. Values(new, name) = Values(env, name)
  BY <1>4, <1>5 DEF Values
<1> QED BY <1>6 DEF new, InsertEnvironmentPair

(* For any command lines, environments and files, whoever runs the program:   *)
(* it is the one that was invoked, with none but its arguments, in an         *)
(* environment which differs at most in yiqi's own entry.                     *)
THEOREM InvokedIsRun == Spec => []RunsWhatWasInvoked
<1>1. Kept => RunsWhatWasInvoked
  <2> SUFFICES ASSUME Kept, image = "target"
               PROVE  /\ argv[1] = invoked.argv[1]
                      /\ Arguments(argv) \subseteq Arguments(invoked.argv)
                      /\ \A name : name # Key =>
                           Values(environ, name) = Values(invoked.environ, name)
    BY DEF RunsWhatWasInvoked
  <2>1. CASE wrappers = <<>>
    <3> DEFINE S == Arguments(invoked.argv)
    <3>1. argv \in Seq(S) /\ argv[1] = invoked.argv[1] /\ environ = invoked.environ
      BY <2>1 DEF Kept
    <3>2. Arguments(argv) \subseteq S
      <4> HIDE DEF S
      <4>1. DOMAIN argv = 1 .. Len(argv) /\ \A i \in 1 .. Len(argv) : argv[i] \in S
        BY <3>1, LenProperties, ElementOfSeq
      <4> QED BY <4>1 DEF Arguments
    <3> QED BY <3>1, <3>2
  <2>2. CASE wrappers # <<>>
    <3>1. PICK v : environ = InsertEnvironmentPair(invoked.environ, Key, v)
      BY <2>2 DEF Kept
    <3>2. argv = <<invoked.argv[1]>>
      BY <2>2 DEF Kept
    <3>3. invoked.environ \in Seq(Entry) /\ invoked.argv \in Seq(Argument) /\ invoked.argv # <<>>
      BY RelaunchAssumption DEF Kept
    <3>4. 1 \in DOMAIN invoked.argv
      BY <3>3, EmptySeq, LenProperties
    <3>5. Arguments(argv) \subseteq Arguments(invoked.argv)
      BY <3>2, <3>4 DEF Arguments
    <3>6. \A name : name # Key => Values(environ, name) = Values(invoked.environ, name)
      BY <3>1, <3>3, OthersRead
    <3> QED BY <3>2, <3>5, <3>6
  <2> QED BY <2>1, <2>2
<1> QED BY <1>1, InitRelaunch, StepRelaunch, InitKept, StepKept, PTL DEF Spec

(***************************************************************************)
(* What can be seen of it.                                                 *)
(***************************************************************************)
LEMMA StepIsVisible == RInv /\ [Next]_vars => [Visible!Next]_(Visible!vars)
<1> SUFFICES ASSUME RInv, [Next]_vars PROVE Visible!Next \/ UNCHANGED Visible!vars
  OBVIOUS
<1>1. CASE MainUnderTool
  <2>1. /\ image = "target" /\ pc = "main" /\ IsActive(environ) /\ header' = ActiveTool(environ)
        /\ UNCHANGED <<image, environ, outcome, asked, wrappers>>
    BY <1>1 DEF MainUnderTool, In, history
  <2>2. CASE wrappers = <<>>
    <3>1. Unwrapped
      BY <2>2 DEF RInv
    <3>2. asked.is = "inherited" /\ asked.name = ActiveTool(environ) /\ header = Nothing
      BY <2>1, <3>1, MainIsAsked DEF In, Unwrapped
    <3> QED BY <2>1, <2>2, <3>2 DEF Visible!Next, Visible!Announce
  <2>3. CASE wrappers # <<>>
    BY <2>1, <2>3 DEF RInv, Wrapped, Visible!Next, Visible!Announce
  <2> QED BY <2>2, <2>3
<1>2. CASE MainRejectsOptions
  <2>1. /\ image = "target" /\ pc = "main" /\ ~IsActive(environ) /\ Malformed(WithoutFlags(argv))
        /\ image' = "none" /\ outcome' = "options_rejected"
        /\ UNCHANGED <<header, asked, wrappers>>
    BY <1>2 DEF MainRejectsOptions, In, Ends, history
  <2>2. wrappers = <<>> /\ Unwrapped
    BY <2>1 DEF RInv, Wrapped
  <2>3. asked.is = "malformed"
    BY <2>1, <2>2, MainIsAsked DEF In
  <2> QED BY <2>1, <2>2, <2>3 DEF Visible!Next, Visible!Fail
<1>3. CASE SearchFails \/ ExecThrows
  <2>1. /\ image = "target" /\ pc \in {"find", "exec"}
        /\ image' = "none" /\ outcome' \in {"no_path", "not_found", "exec_failed"}
        /\ UNCHANGED <<header, asked, wrappers>>
    BY <1>3 DEF SearchFails, ExecThrows, In, Ends, history
  <2>2. wrappers = <<>> /\ asked.is = "instrumented"
    BY <2>1 DEF RInv, Wrapped, Unwrapped
  <2> QED BY <2>1, <2>2 DEF Visible!Next, Visible!Fail
<1>4. CASE WrapperFails
  <2>1. /\ image = "wrapper" /\ image' = "none" /\ outcome' = "wrapper_failed"
        /\ UNCHANGED <<header, asked, wrappers>>
    BY <1>4 DEF WrapperFails, Ends, history
  <2>2. wrappers # <<>> /\ header = Nothing
    BY <2>1 DEF RInv, Wrapped, Unwrapped
  <2> QED BY <2>1, <2>2 DEF Visible!Next, Visible!Fail
<1>5. CASE RunAllTests
  <2>1. /\ image = "target" /\ pc = "tests" /\ image' = "none" /\ outcome' = "tests_ran"
        /\ UNCHANGED <<header, asked, wrappers>>
    BY <1>5 DEF RunAllTests, In, Ends, history
  <2>2. header = asked.name /\ (wrappers = <<>> => asked.is \in {"plain", "inherited"})
    BY <2>1 DEF RInv, Wrapped, Unwrapped
  <2> QED BY <2>1, <2>2 DEF Visible!Next, Visible!Run
<1>6. CASE ExecReplaces
  <2>1. /\ image = "target" /\ pc = "exec" /\ image' = "wrapper"
        /\ wrappers' = Append(wrappers, newArgv)
        /\ UNCHANGED <<header, asked, outcome>>
    BY <1>6 DEF ExecReplaces, In
  <2>2. wrappers = <<>> /\ asked.is = "instrumented"
    BY <2>1 DEF RInv, Wrapped, Unwrapped
  <2>3. wrappers' # <<>>
    BY <2>1, <2>2
  <2> QED BY <2>1, <2>2, <2>3 DEF Visible!Next, Visible!Wrap
<1>7. CASE MainRunsPlain \/ MainRelaunches \/ SearchLooks \/ Fetch \/ WrapperRunsTarget
           \/ (\E d \in Dirs : FileChanges(d)) \/ Ended \/ UNCHANGED vars
  <2>1. /\ UNCHANGED <<header, asked, wrappers, outcome>>
        /\ image' = image \/ (image = "wrapper" /\ image' = "target")
    BY <1>7 DEF MainRunsPlain, MainRelaunches, MainParses, SearchLooks, Fetch,
                WrapperRunsTarget, FileChanges, Ended, vars, system, locals, history
  <2> QED BY <2>1 DEF Visible!vars
<1> QED BY <1>1, <1>2, <1>3, <1>4, <1>5, <1>6, <1>7 DEF Next, Program

(* Step by step an invocation does what TestRun allows: tests run under the   *)
(* header of the tool that was asked for, inside the wrapper, or not at all.  *)
THEOREM StepsOfTestRun == Spec => Visible!Init /\ [][Visible!Next]_(Visible!vars)
<1>1. Init => Visible!Init
  BY DEF Init, Visible!Init, RequestOf
<1> QED BY <1>1, InitRelaunch, StepRelaunch, StepIsVisible, PTL DEF Spec

(***************************************************************************)
(* Types.  What the search keeps has its types already (SearchShape).      *)
(***************************************************************************)
Places ==
  /\ image \in {"target", "wrapper", "none"}
  /\ pc \in {"main", "find", "fetch", "exec", "tests"}
  /\ outcome \in Outcomes

Texts ==
  /\ argv \in Seq(Argument) /\ newArgv \in Seq(Argument)
  /\ environ \in Seq(Entry) /\ newEnv \in Seq(Entry)
  /\ tool \in Tool
  /\ header \in String \cup {Nothing}
  /\ asked \in [is : {"plain", "inherited", "instrumented", "malformed"},
               name : String \cup {Nothing}]
  /\ wrappers \in Seq(Seq(Argument))

(* A program always has a name. *)
Named == image = "target" => argv # <<>>

TInv == Places /\ Texts /\ Named

LEMMA InitTypes == Init => TInv
<1> SUFFICES ASSUME Init PROVE TInv
  OBVIOUS
<1>1. Places
  BY DEF Init, Places, Outcomes
<1>2. asked \in [is : {"plain", "inherited", "instrumented", "malformed"},
                 name : String \cup {Nothing}]
  BY RelaunchAssumption, RequestTyped DEF Init
<1>3. /\ argv \in Seq(Argument) /\ argv # <<>> /\ environ \in Seq(Entry)
      /\ newArgv = <<>> /\ newEnv = <<>> /\ wrappers = <<>> /\ header = Nothing
      /\ tool = "None"
  BY RelaunchAssumption DEF Init
<1>4. Texts
  BY <1>2, <1>3, EmptySeq DEF Texts, Tool
<1> QED BY <1>1, <1>3, <1>4 DEF TInv, Named

(* The wrapper runs one of its own arguments. *)
LEMMA WrappedTyped ==
  ASSUME NEW args \in Seq(Argument), NEW w, WrapsWord(args, w)
  PROVE  <<w>> \in Seq(Argument)
<1>1. PICK v, o : args = <<v, w>> \/ args = <<v, o, w>>
  BY DEF WrapsWord
<1>2. w \in Argument
  <2>1. CASE args = <<v, w>>
    <3>1. 2 \in 1 .. Len(args) /\ args[2] = w
      BY <2>1
    <3> QED BY <3>1, ElementOfSeq
  <2>2. CASE args = <<v, o, w>>
    <3>1. 3 \in 1 .. Len(args) /\ args[3] = w
      BY <2>2
    <3> QED BY <3>1, ElementOfSeq
  <2> QED BY <1>1, <2>1, <2>2
<1> QED BY <1>2

LEMMA StepTypes == RInv /\ TInv /\ [Next]_vars => TInv'
<1> SUFFICES ASSUME RInv, TInv, [Next]_vars PROVE TInv'
  OBVIOUS
<1> USE DEF TInv
<1>1. CASE MainUnderTool \/ MainRejectsOptions \/ MainRunsPlain \/ MainRelaunches
  <2>1. /\ image = "target" /\ argv' = WithoutFlags(argv)
        /\ UNCHANGED <<newArgv, environ, newEnv, asked, wrappers>>
    BY <1>1 DEF MainUnderTool, MainRejectsOptions, MainRunsPlain, MainRelaunches, MainParses,
                In, locals, history
  <2>2. argv' \in Seq(Argument) /\ argv' # <<>>
    BY <2>1, NoFlags DEF Texts, Named
  <2>3. header' = header \/ (IsActive(environ) /\ header' = ActiveTool(environ))
    BY <1>1 DEF MainUnderTool, MainRejectsOptions, MainRunsPlain, MainRelaunches, MainParses
  <2>4. header' \in String \cup {Nothing}
    BY <2>3, ActiveTyped DEF Texts
  <2>5. tool' = tool \/ tool' = ParseOptionsToTool(argv')
    BY <1>1 DEF MainUnderTool, MainRejectsOptions, MainRunsPlain, MainRelaunches, MainParses,
                locals
  <2>6. tool' \in Tool
    BY <2>5, ParsesToTool DEF Texts
  <2>7. Places'
    BY <1>1 DEF MainUnderTool, MainRejectsOptions, MainRunsPlain, MainRelaunches, MainParses,
                Ends, Places, Outcomes
  <2> QED BY <2>1, <2>2, <2>4, <2>6, <2>7 DEF Texts, Named
<1>2. CASE SearchFails \/ SearchLooks \/ ExecThrows \/ WrapperFails \/ RunAllTests
  <2>1. /\ UNCHANGED <<argv, newArgv, environ, newEnv, tool, header, asked, wrappers>>
        /\ image' \in {image, "none"}
    BY <1>2 DEF SearchFails, SearchLooks, ExecThrows, WrapperFails, RunAllTests, Ends,
                system, locals, history
  <2>2. Places'
    BY <1>2 DEF SearchFails, SearchLooks, ExecThrows, WrapperFails, RunAllTests, Ends,
                Places, Outcomes
  <2> QED BY <2>1, <2>2 DEF Texts, Named
<1>3. CASE Fetch
  <2>1. /\ image = "target" /\ pc' = "exec"
        /\ newArgv' = BuildCommandLine(argv, tool) /\ newEnv' = GetToolEnv(environ, tool)
        /\ UNCHANGED <<image, outcome, argv, environ, tool, header, asked, wrappers>>
    BY <1>3 DEF Fetch, In, system, history
  <2>2. newArgv' \in Seq(Argument) /\ newEnv' \in Seq(Entry)
    BY <2>1, CommandTyped, EnvironTyped DEF Texts, Named
  <2> QED BY <2>1, <2>2 DEF Texts, Named, Places
<1>4. CASE ExecReplaces
  <2>1. /\ image' = "wrapper" /\ pc' = "main" /\ argv' = newArgv /\ environ' = newEnv
        /\ tool' = "None" /\ newArgv' = <<>> /\ newEnv' = <<>>
        /\ wrappers' = Append(wrappers, newArgv)
        /\ UNCHANGED <<header, outcome, asked>>
    BY <1>4 DEF ExecReplaces
  <2>2. wrappers' \in Seq(Seq(Argument))
    <3> DEFINE A == Seq(Argument)
    <3>1. wrappers \in Seq(A) /\ newArgv \in A
      BY DEF Texts
    <3> HIDE DEF A
    <3>2. wrappers' \in Seq(A)
      BY <2>1, <3>1, AppendProperties
    <3> QED BY <3>2 DEF A
  <2>3. newArgv' \in Seq(Argument) /\ newEnv' \in Seq(Entry) /\ tool' \in Tool
    BY <2>1, EmptySeq DEF Tool
  <2> QED BY <2>1, <2>2, <2>3 DEF Texts, Named, Places
<1>5. CASE WrapperRunsTarget
  <2>1. /\ image = "wrapper" /\ image' = "target" /\ argv' = WrappedCommand(argv)
        /\ UNCHANGED <<pc, outcome, newArgv, environ, newEnv, tool, header, asked, wrappers>>
    BY <1>5 DEF WrapperRunsTarget, locals, history
  <2>2. PICK w : WrapsWord(argv, w)
    BY <2>1 DEF RInv, Wrapped, Unwrapped
  <2>3. argv' = <<w>> /\ argv' \in Seq(Argument)
    <3>1. argv' = <<w>>
      BY <2>1, <2>2, RunsWord
    <3>2. argv \in Seq(Argument)
      BY DEF Texts
    <3>3. <<w>> \in Seq(Argument)
      BY <2>2, <3>2, WrappedTyped
    <3> QED BY <3>1, <3>3
  <2>4. argv' # <<>>
    BY <2>3
  <2> QED BY <2>1, <2>3, <2>4 DEF Texts, Named, Places
<1>6. CASE (\E d \in Dirs : FileChanges(d)) \/ Ended \/ UNCHANGED vars
  BY <1>6 DEF FileChanges, Ended, vars, system, locals, history, Places, Texts, Named
<1> QED BY <1>1, <1>2, <1>3, <1>4, <1>5, <1>6 DEF Next, Program

(* Whatever the program was invoked with, its arguments are arguments and its *)
(* environment entries, in the wrapper and under it as well, the header and   *)
(* the tool are known ones, and the search stays on the path.                 *)
THEOREM TypesOfRelaunch == Spec => []TypeOK
<1>1. SearchInv /\ TInv /\ Kept => TypeOK
  <2> SUFFICES ASSUME SearchInv, TInv, Kept PROVE TypeOK
    OBVIOUS
  <2>1. invoked \in [argv : Seq(Argument), environ : Seq(Entry)]
    BY RelaunchAssumption DEF Kept
  <2> QED BY <2>1 DEF SearchInv, SearchShape, TInv, Places, Texts, TypeOK
<1> QED BY <1>1, InitSearch, StepSearch, InitRelaunch, StepRelaunch, InitTypes, StepTypes,
           InitKept, StepKept, PTL DEF Spec

=============================================================================
