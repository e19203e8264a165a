---------------------------- MODULE HarnessProofs ----------------------------
(***************************************************************************)
(* Theorems about the harness and the processes it launches, for any       *)
(* tests, programs, numbers of processes and descriptors, and any it is    *)
(* started with: what becomes of its descriptors, that nothing is left of  *)
(* a launch when it has its answer, and types.                             *)
(***************************************************************************)
EXTENDS Harness, InvocationProofs

(***************************************************************************)
(* Tables of descriptors.                                                  *)
(***************************************************************************)

(* The lowest descriptor of a set is one of them, and none is below it. *)
LEMMA LowestIsLowest ==
  ASSUME NEW S \in SUBSET (0 .. MaxFd - 1), S # {}
  PROVE  Lowest(S) \in S /\ \A d \in S : Lowest(S) <= d
<1>1. MaxFd - 1 \in Nat
  BY HarnessAssumption
<1>2. \E d \in S : \A e \in S : d <= e
  BY <1>1, HasLeast
<1> QED BY <1>2 DEF Lowest

(* The free descriptors of any table are finitely many. *)
LEMMA FreeIsFinite ==
  ASSUME NEW t
  PROVE  /\ Free(t) \in SUBSET (0 .. MaxFd - 1)
         /\ IsFiniteSet(Free(t)) /\ Cardinality(Free(t)) \in Nat
<1>1. IsFiniteSet(0 .. MaxFd - 1)
  BY HarnessAssumption, FS_Interval
<1>2. Free(t) \subseteq 0 .. MaxFd - 1
  BY DEF Free
<1> QED BY <1>1, <1>2, FS_Subset, FS_CardinalityType

(* Where there are two free descriptors, pipe2 gets two that differ; both are *)
(* free, and 0 is one of them if it is free.                                  *)
LEMMA TwoDescriptors ==
  ASSUME NEW t, Cardinality(Free(t)) >= 2,
         NEW r, r = Lowest(Free(t)),
         NEW w, w = Lowest(Free(t) \ {r})
  PROVE  /\ r \in Free(t) /\ w \in Free(t) /\ r # w
         /\ 0 \in Free(t) => r = 0
<1>1. Free(t) \in SUBSET (0 .. MaxFd - 1) /\ IsFiniteSet(Free(t))
  BY FreeIsFinite
<1>2. Free(t) # {}
  BY FS_EmptySet
<1>3. Free(t) # {r}
  BY FS_Singleton
<1>4. Free(t) \ {r} # {}
  BY <1>2, <1>3
<1>5. r \in Free(t) /\ \A d \in Free(t) : r <= d
  BY <1>1, <1>2, LowestIsLowest
<1>6. w \in Free(t) \ {r}
  BY <1>1, <1>4, LowestIsLowest
<1>7. 0 \in Free(t) => r = 0
  BY <1>1, <1>5
<1> QED BY <1>5, <1>6, <1>7

(***************************************************************************)
(* Standard output.                                                        *)
(***************************************************************************)
Places == {"fixture", "backup", "close", "redirect", "fork", "unredirect", "restore",
           "wait", "read", "unfixture", "report"}
Redirected == {"redirect", "fork", "unredirect", "restore"}

Shape ==
  /\ DOMAIN fds = Process
  /\ DOMAIN fds[1] \subseteq 0 .. MaxFd - 1
  /\ pc \in Places
  /\ pipe \in [read : 0 .. MaxFd - 1, write : 0 .. MaxFd - 1]

Whole == 1 \in DOMAIN fds[1] /\ fds[1][1] = [file |-> Stdout, cloexec |-> FALSE]

(* The backup is a copy that is neither where restoring it would be skipped   *)
(* nor where closing the pipe would close it.                                 *)
Saved ==
  /\ backup \in DOMAIN fds[1] \ {0, 1, pipe.write}
  /\ fds[1][backup].file = Stdout

Redirection ==
  /\ pipe.read # 1 /\ pipe.write # 1
  /\ pc \notin Redirected => Whole
  /\ pc \in Redirected \cup {"close"} => Saved
  /\ pc = "backup" => {0, pipe.write} \subseteq DOMAIN fds[1]

IInv == Shape /\ Redirection

(* What the other processes do leaves the harness and its descriptors alone. *)
LEMMA ChildrenApart ==
  ASSUME DOMAIN fds = Process, NEW p \in Child, ChildStep(p)
  PROVE  /\ fds'[1] = fds[1] /\ DOMAIN fds' = Process
         /\ UNCHANGED <<suite, test, harness, atStart, launches>>
<1> USE DEF harness
<1>1. p # 1 /\ p + 1 # 1 /\ 1 \in Process
  BY HarnessAssumption DEF Child, Process
<1>2. CASE ExecutesForked(p)
  BY <1>1, <1>2 DEF ExecutesForked, Executes, Becomes, Ends
<1>3. CASE Passthrough(p)
  <2>1. CASE PassthroughStarts(p) \/ PassthroughPrintsOption(p)
    BY <1>1, <2>1 DEF PassthroughStarts, PassthroughPrintsOption, Writes, Becomes
  <2>2. CASE PassthroughForks(p)
    BY <1>1, <2>2 DEF PassthroughForks, Forks
  <2>3. CASE PassthroughCannotFork(p) \/ PassthroughWaits(p)
    BY <1>1, <2>3 DEF PassthroughCannotFork, Fails, PassthroughWaits
  <2>4. CASE PassthroughFindsNoProgram(p)
    BY <1>1, <2>4 DEF PassthroughFindsNoProgram, Ends, Becomes
  <2> QED BY <1>3, <2>1, <2>2, <2>3, <2>4 DEF Passthrough
<1>4. CASE Target(p)
  <2>1. CASE TargetAnnounces(p) \/ TargetRunsPlain(p) \/ TargetRunsTests(p)
    BY <1>1, <2>1 DEF TargetAnnounces, TargetRunsPlain, TargetRunsTests, Writes, Becomes
  <2>2. CASE TargetRelaunches(p)
    BY <1>1, <2>2 DEF TargetRelaunches, Executes, Becomes, Ends
  <2>3. CASE TargetRejectsOptions(p) \/ TargetEnds(p)
    BY <1>1, <2>3 DEF TargetRejectsOptions, TargetEnds, Ends, Becomes
  <2> QED BY <1>4, <2>1, <2>2, <2>3 DEF Target
<1>5. CASE CannotExecute(p)
  BY <1>1, <1>5 DEF CannotExecute, Fails
<1> QED BY <1>2, <1>3, <1>4, <1>5 DEF ChildStep

(* When the harness starts, its standard output is its standard output. *)
LEMMA InitRedirection == Init => IInv
<1> SUFFICES ASSUME Init PROVE IInv
  OBVIOUS
<1>1. PICK others \in Inherited :
        atStart = [d \in others \cup {1, 2} |->
                     [file |-> IF d = 1 THEN Stdout
                               ELSE IF d = 2 THEN File("stderr") ELSE File("other"),
                      cloexec |-> FALSE]]
  BY DEF Init
<1>2. 1 \in Process /\ others \subseteq 0 .. MaxFd - 1 /\ MaxFd \in Nat /\ MaxFd >= 3
  BY HarnessAssumption DEF Process
<1>3. DOMAIN fds = Process /\ fds[1] = atStart
  BY <1>2 DEF Init
<1>4. DOMAIN atStart = others \cup {1, 2}
  BY <1>1
<1>5. atStart[1] = [file |-> Stdout, cloexec |-> FALSE]
  BY <1>1
<1>6. Shape
  BY <1>2, <1>3, <1>4 DEF Init, Shape, Places
<1>7. Redirection
  <2>1. Whole
    BY <1>3, <1>4, <1>5 DEF Whole
  <2>2. pc = "fixture" /\ pipe = [read |-> 0, write |-> 0]
    BY DEF Init
  <2> QED BY <2>1, <2>2 DEF Redirection, Redirected
<1> QED BY <1>6, <1>7 DEF IInv

(* Every step of the harness keeps its output, or a copy of it. *)
LEMMA StepRedirection == IInv /\ [Next]_vars => IInv'
<1> SUFFICES ASSUME IInv, [Next]_vars PROVE IInv'
  OBVIOUS
<1> USE DEF IInv
<1>1. 1 \in Process /\ MaxFd \in Nat /\ MaxFd >= 3
  BY HarnessAssumption DEF Process
<1> DEFINE t == fds[1]
<1>2. CASE OpenPipe
  <2> DEFINE r == Lowest(Free(t))
             w == Lowest(Free(t) \ {r})
  <2>1. Cardinality(Free(t)) >= 2 /\ Whole
    BY <1>2 DEF OpenPipe, At, Redirection, Redirected
  <2>2. /\ r \in Free(t) /\ w \in Free(t)
        /\ 0 \in Free(t) => r = 0
    <3> HIDE DEF r, w
    <3> QED BY <2>1, TwoDescriptors DEF r, w
  <2>3. r \in 0 .. MaxFd - 1 /\ w \in 0 .. MaxFd - 1 /\ r # 1 /\ w # 1
    BY <2>1, <2>2 DEF Free, Whole
  <2>4. /\ pipe' = [read |-> r, write |-> w] /\ pc' = "backup"
        /\ fds' = [fds EXCEPT ![1] = With(With(t, r, End("read"), TRUE), w, End("write"), TRUE)]
    BY <1>2 DEF OpenPipe
  <2> HIDE DEF r, w
  <2>5. /\ DOMAIN fds' = Process /\ DOMAIN fds'[1] = DOMAIN t \cup {r, w}
        /\ fds'[1][1] = t[1]
    BY <1>1, <2>1, <2>3, <2>4 DEF Shape, With, Whole
  <2>6. 0 \in DOMAIN fds'[1]
    BY <1>1, <2>2, <2>5 DEF Free
  <2>7. Shape'
    BY <2>3, <2>4, <2>5 DEF Shape, Places
  <2>8. Redirection'
    BY <2>1, <2>3, <2>4, <2>5, <2>6 DEF Redirection, Redirected, Whole
  <2> QED BY <2>7, <2>8
<1>3. CASE PipeFails \/ BackupFails
  BY <1>3 DEF PipeFails, BackupFails, At, world, Shape, Redirection, Places, Redirected, Whole
<1>4. CASE BackUp
  <2> DEFINE b == Lowest(Free(t))
  <2>1. b \in Free(t)
    BY <1>4, FreeIsFinite, LowestIsLowest DEF BackUp
  <2>2. Whole /\ {0, pipe.write} \subseteq DOMAIN t
    BY <1>4 DEF BackUp, At, Redirection, Redirected
  <2>3. b \in 0 .. MaxFd - 1 /\ b \notin {0, 1, pipe.write}
    BY <2>1, <2>2 DEF Free, Whole
  <2>4. /\ backup' = b /\ pc' = "close" /\ pipe' = pipe
        /\ fds' = [fds EXCEPT ![1] = Dup2(t, 1, b)]
    BY <1>4 DEF BackUp
  <2> HIDE DEF b
  <2>5. /\ DOMAIN fds' = Process /\ DOMAIN fds'[1] = DOMAIN t \cup {b}
        /\ fds'[1][1] = t[1] /\ fds'[1][b].file = t[1].file
    BY <1>1, <2>2, <2>3, <2>4 DEF Shape, Dup2, With, Whole
  <2>6. Shape'
    BY <2>3, <2>4, <2>5 DEF Shape, Places
  <2>7. Redirection'
    BY <2>2, <2>3, <2>4, <2>5 DEF Redirection, Redirected, Whole, Saved
  <2> QED BY <2>6, <2>7
<1>5. CASE CloseStdout
  <2>1. /\ pc' = "redirect" /\ pipe' = pipe /\ backup' = backup
        /\ fds' = [fds EXCEPT ![1] = Without(t, 1)] /\ Saved
    BY <1>5 DEF CloseStdout, At, Redirection, Redirected
  <2>2. /\ DOMAIN fds' = Process /\ DOMAIN fds'[1] = DOMAIN t \ {1}
        /\ fds'[1][backup] = t[backup]
    BY <1>1, <2>1 DEF Shape, Without, Saved
  <2>3. Saved'
    BY <2>1, <2>2 DEF Saved
  <2> QED BY <2>1, <2>2, <2>3 DEF Shape, Places, Redirection, Redirected
<1>6. CASE Redirect
  <2>1. /\ pc' = "fork" /\ pipe' = pipe /\ backup' = backup
        /\ fds' = [fds EXCEPT ![1] = Dup2(t, pipe.write, 1)] /\ Saved
    BY <1>6 DEF Redirect, At, Redirection, Redirected
  <2>2. /\ DOMAIN fds' = Process /\ DOMAIN fds'[1] = DOMAIN t \cup {1}
        /\ fds'[1][backup] = t[backup]
    BY <1>1, <2>1 DEF Shape, Dup2, With, Saved
  <2>3. Saved'
    BY <2>1, <2>2 DEF Saved
  <2>4. Shape'
    BY <1>1, <2>1, <2>2 DEF Shape, Places
  <2> QED BY <2>1, <2>3, <2>4 DEF Redirection, Redirected
<1>7. CASE Fork \/ ForkFails
  <2>1. pc' = "unredirect" /\ pipe' = pipe /\ backup' = backup /\ Saved
    BY <1>7 DEF Fork, ForkFails, At, Redirection, Redirected
  <2>2. fds'[1] = t /\ DOMAIN fds' = Process
    BY <1>1, <1>7 DEF Fork, ForkFails, Forks, world, Shape
  <2>3. Saved'
    BY <2>1, <2>2 DEF Saved
  <2> QED BY <2>1, <2>2, <2>3 DEF Shape, Places, Redirection, Redirected
<1>8. CASE CloseWriteEnd
  <2>1. /\ pc' = "restore" /\ backup' = backup /\ pipe' = [pipe EXCEPT !.write = 0]
        /\ fds' = [fds EXCEPT ![1] = IF pipe.write # 0 THEN Without(t, pipe.write) ELSE t]
        /\ Saved
    BY <1>8 DEF CloseWriteEnd, At, Redirection, Redirected
  <2>2. /\ DOMAIN fds' = Process /\ DOMAIN fds'[1] = DOMAIN t \ ({pipe.write} \ {0})
        /\ fds'[1][backup] = t[backup]
    BY <1>1, <2>1 DEF Shape, Without, Saved
  <2>3. pipe'.read = pipe.read /\ pipe'.write = 0
        /\ pipe' \in [read : 0 .. MaxFd - 1, write : 0 .. MaxFd - 1]
    BY <1>1, <2>1 DEF Shape
  <2>4. Saved'
    BY <2>1, <2>2, <2>3 DEF Saved
  <2>5. Shape'
    BY <2>1, <2>2, <2>3 DEF Shape, Places
  <2> QED BY <2>1, <2>3, <2>4, <2>5 DEF Redirection, Redirected
<1>9. CASE Restore
  <2>1. /\ pc' \in {"unfixture", "wait"} /\ pipe' = pipe /\ Saved
        /\ fds' = [fds EXCEPT ![1] = IF backup # 0 THEN Dup2(t, backup, 1) ELSE t]
    BY <1>9 DEF Restore, At, Redirection, Redirected
  <2>2. /\ DOMAIN fds' = Process /\ DOMAIN fds'[1] = DOMAIN t \cup {1}
        /\ fds'[1][1] = [file |-> Stdout, cloexec |-> FALSE]
    BY <1>1, <2>1 DEF Shape, Dup2, With, Saved
  <2>3. Shape'
    BY <1>1, <2>1, <2>2 DEF Shape, Places
  <2> QED BY <2>1, <2>2, <2>3 DEF Redirection, Redirected, Whole
<1>10. CASE Wait \/ ReadLine \/ ReadEnds
  BY <1>10 DEF Wait, ReadLine, ReadEnds, At, world, Shape, Redirection, Places, Redirected,
               Whole
<1>11. CASE ClosePipe
  <2>1. /\ pc' = "report" /\ pipe' = pipe /\ Whole
        /\ fds' = [fds EXCEPT ![1] =
                     [d \in DOMAIN t \ ({pipe.read, pipe.write} \ {0}) |-> t[d]]]
    BY <1>11 DEF ClosePipe, At, Redirection, Redirected
  <2>2. /\ DOMAIN fds' = Process
        /\ DOMAIN fds'[1] = DOMAIN t \ ({pipe.read, pipe.write} \ {0})
        /\ fds'[1][1] = t[1]
    BY <1>1, <2>1 DEF Shape, Whole, Redirection
  <2>3. Shape'
    BY <2>1, <2>2 DEF Shape, Places
  <2> QED BY <2>1, <2>2, <2>3 DEF Redirection, Redirected, Whole
<1>12. CASE NextTest
  <2>1. /\ pc' = "fixture" /\ pipe' = [read |-> 0, write |-> 0] /\ fds' = fds /\ Whole
    BY <1>12 DEF NextTest, At, world, Redirection, Redirected
  <2>2. pipe' \in [read : 0 .. MaxFd - 1, write : 0 .. MaxFd - 1]
    BY <1>1, <2>1
  <2> QED BY <2>1, <2>2 DEF Shape, Places, Redirection, Redirected, Whole
<1>13. CASE \E p \in Child : ChildStep(p)
  <2>1. fds'[1] = fds[1] /\ DOMAIN fds' = Process /\ UNCHANGED harness
    BY <1>13, ChildrenApart DEF Shape
  <2> QED BY <2>1 DEF harness, Shape, Redirection, Whole, Saved
<1>14. CASE UNCHANGED vars
  BY <1>14 DEF vars, harness, world, Shape, Redirection, Whole, Saved
<1> QED BY <1>2, <1>3, <1>4, <1>5, <1>6, <1>7, <1>8, <1>9, <1>10, <1>11, <1>12, <1>13, <1>14
        DEF Next, HarnessStep, Finished

(* Whatever fails and whichever descriptors the harness was started with,     *)
(* outside of launchBinary its standard output is what it was.                *)
THEOREM OutputRestored == Spec => []StdoutRestored
<1>1. IInv => StdoutRestored
  BY DEF IInv, Redirection, Redirected, Whole, StdoutRestored
<1> QED BY <1>1, InitRedirection, StepRedirection, PTL DEF Spec

(***************************************************************************)
(* Descriptors that stay behind.                                           *)
(***************************************************************************)
Between == {"fixture", "report"}
OpenEnds == IF pc \in Between THEN {} ELSE {pipe.read, pipe.write} \ {0}
Copies == DOMAIN fds[1] \ (DOMAIN atStart \cup {0} \cup OpenEnds)

Kept ==
  /\ 1 \in DOMAIN atStart /\ atStart[1] = [file |-> Stdout, cloexec |-> FALSE]
  /\ \A d \in DOMAIN atStart \ {1} : d \in DOMAIN fds[1] /\ fds[1][d] = atStart[d]
  /\ OpenEnds \cap DOMAIN atStart = {} /\ OpenEnds \subseteq DOMAIN fds[1]
  /\ pc \notin Between /\ pipe.read = pipe.write => pipe.write = 0

Counted ==
  /\ launches \in Nat /\ Cardinality(Copies) = launches
  /\ \A d \in Copies : fds[1][d].file = Stdout

(* A pipe still fits; or there is one, which leaves two places when it goes,  *)
(* one of which its write end may have left already.                          *)
Roomy == 0 \in DOMAIN atStart /\ Cardinality(Free(atStart)) >= 2
Place(d) == d \notin {0, 1, pipe.read}
Room ==
  Roomy =>
    /\ pc \in Between => Cardinality(Free(fds[1])) >= 2
    /\ pc \notin Between => pipe.read # 0
    /\ pc \in {"backup", "close", "redirect", "fork", "unredirect"} => Place(pipe.write)
    /\ pc \in {"restore", "wait", "read", "unfixture"} =>
         \E w \in 0 .. MaxFd - 1 : Place(w) /\ (w = pipe.write \/ w \notin DOMAIN fds[1])

LInv == Kept /\ Counted /\ Room

(* At the start nothing is a copy. *)
LEMMA InitLeak == Init => LInv
<1> SUFFICES ASSUME Init PROVE LInv
  OBVIOUS
<1>1. PICK others \in Inherited :
        atStart = [d \in others \cup {1, 2} |->
                     [file |-> IF d = 1 THEN Stdout
                               ELSE IF d = 2 THEN File("stderr") ELSE File("other"),
                      cloexec |-> FALSE]]
  BY DEF Init
<1>2. 1 \in Process
  BY HarnessAssumption DEF Process
<1>3. fds[1] = atStart /\ pc = "fixture" /\ launches = 0
  BY <1>2 DEF Init
<1>4. 1 \in DOMAIN atStart /\ atStart[1] = [file |-> Stdout, cloexec |-> FALSE]
  BY <1>1
<1>5. OpenEnds = {} /\ Copies = {}
  BY <1>3 DEF OpenEnds, Copies, Between
<1>6. Counted
  BY <1>3, <1>5, FS_EmptySet DEF Counted
<1> QED BY <1>3, <1>4, <1>5, <1>6 DEF LInv, Kept, Room, Roomy, Between

(* A step which leaves the harness and its table alone, or only its place,    *)
(* leaves the copies alone.                                                   *)
LEMMA StutterLeak ==
  ASSUME LInv, fds'[1] = fds[1],
         pipe' = pipe, atStart' = atStart, launches' = launches,
         pc' \in Between <=> pc \in Between,
         Room'
  PROVE  LInv'
<1>1. OpenEnds' = OpenEnds
  BY DEF OpenEnds
<1>2. Copies' = Copies
  BY <1>1 DEF Copies
<1> QED BY <1>1, <1>2 DEF LInv, Kept, Counted

(* Every step keeps what was there, and adds a copy only with a launch. *)
LEMMA StepLeak == IInv /\ LInv /\ [Next]_vars => LInv'
<1> SUFFICES ASSUME IInv, LInv, [Next]_vars PROVE LInv'
  OBVIOUS
<1>1. 1 \in Process /\ MaxFd \in Nat /\ MaxFd >= 3
  BY HarnessAssumption DEF Process
<1> DEFINE t == fds[1]
<1>2. CASE OpenPipe
  <2> DEFINE r == Lowest(Free(t))
             w == Lowest(Free(t) \ {r})
  <2>1. Cardinality(Free(t)) >= 2 /\ Whole /\ pc = "fixture"
    BY <1>2 DEF OpenPipe, At, IInv, Redirection, Redirected
  <2>2. /\ r \in Free(t) /\ w \in Free(t) /\ r # w
        /\ 0 \in Free(t) => r = 0
    <3> HIDE DEF r, w
    <3> QED BY <2>1, TwoDescriptors DEF r, w
  <2>3. /\ r \in 0 .. MaxFd - 1 /\ w \in 0 .. MaxFd - 1 /\ r # 1 /\ w # 1
        /\ r \notin DOMAIN t /\ w \notin DOMAIN t
    BY <2>1, <2>2 DEF Free, Whole
  <2>4. /\ pipe' = [read |-> r, write |-> w] /\ pc' = "backup"
        /\ fds' = [fds EXCEPT ![1] = With(With(t, r, End("read"), TRUE), w, End("write"), TRUE)]
        /\ atStart' = atStart /\ launches' = launches
    BY <1>2 DEF OpenPipe
  <2> HIDE DEF r, w
  <2>5. /\ DOMAIN fds'[1] = DOMAIN t \cup {r, w}
        /\ \A d \in DOMAIN t : fds'[1][d] = t[d]
    BY <1>1, <2>3, <2>4 DEF IInv, Shape, With
  <2>6. OpenEnds = {} /\ OpenEnds' = {r, w} \ {0}
    BY <2>1, <2>4 DEF OpenEnds, Between
  <2>7. Copies' = Copies /\ Copies \subseteq DOMAIN t
    BY <2>3, <2>4, <2>5, <2>6 DEF Copies
  <2>8. DOMAIN atStart \subseteq DOMAIN t
    BY <2>1 DEF LInv, Kept, Whole
  <2>9. Kept'
    BY <2>2, <2>3, <2>4, <2>5, <2>6, <2>8 DEF LInv, Kept, Between
  <2>10. Counted'
    BY <2>4, <2>5, <2>7 DEF LInv, Counted
  <2>11. Room'
    <3> SUFFICES ASSUME Roomy PROVE r # 0 /\ w # 0
      BY <2>2, <2>3, <2>4 DEF Room, Roomy, Place, Between
    <3> QED BY <2>3, <2>8 DEF Roomy
  <2> QED BY <2>9, <2>10, <2>11 DEF LInv
<1>3. CASE PipeFails
  <2>1. UNCHANGED <<fds, pipe, atStart, launches>> /\ pc = "fixture" /\ pc' = "report"
    BY <1>3 DEF PipeFails, At, world
  <2>2. Room'
    BY <2>1 DEF LInv, Room, Roomy, Between
  <2> QED BY <2>1, <2>2, StutterLeak DEF Between
<1>4. CASE BackupFails
  <2>1. /\ UNCHANGED <<fds, pipe, atStart, launches>>
        /\ pc = "backup" /\ pc' = "unfixture"
    BY <1>4 DEF BackupFails, At, world
  <2>2. Room'
    BY <2>1 DEF LInv, Room, Roomy, Place, Between, IInv, Shape
  <2> QED BY <2>1, <2>2, StutterLeak DEF Between
<1>5. CASE BackUp
  <2> DEFINE b == Lowest(Free(t))
  <2>1. b \in Free(t)
    BY <1>5, FreeIsFinite, LowestIsLowest DEF BackUp
  <2>2. Whole /\ {0, pipe.write} \subseteq DOMAIN t /\ pc = "backup"
    BY <1>5 DEF BackUp, At, IInv, Redirection, Redirected
  <2>3. b \in 0 .. MaxFd - 1 /\ b \notin DOMAIN t /\ b # 0
    BY <2>1, <2>2 DEF Free
  <2>4. /\ pc' = "close" /\ pipe' = pipe /\ launches' = launches + 1 /\ atStart' = atStart
        /\ fds' = [fds EXCEPT ![1] = Dup2(t, 1, b)]
    BY <1>5 DEF BackUp
  <2> HIDE DEF b
  <2>5. /\ DOMAIN fds'[1] = DOMAIN t \cup {b}
        /\ \A d \in DOMAIN t : fds'[1][d] = t[d]
        /\ fds'[1][b].file = Stdout
    BY <1>1, <2>2, <2>3, <2>4 DEF IInv, Shape, Dup2, With, Whole
  <2>6. OpenEnds' = OpenEnds
    BY <2>2, <2>4 DEF OpenEnds, Between
  <2>7. DOMAIN atStart \subseteq DOMAIN t /\ OpenEnds \subseteq DOMAIN t
    BY <2>2 DEF LInv, Kept, Whole
  <2>8. Copies' = Copies \cup {b} /\ b \notin Copies /\ Copies \subseteq DOMAIN t
    BY <2>3, <2>4, <2>5, <2>6, <2>7 DEF Copies
  <2>9. IsFiniteSet(Copies)
    <3>1. Copies \subseteq 0 .. MaxFd - 1
      BY <2>8 DEF IInv, Shape
    <3>2. IsFiniteSet(0 .. MaxFd - 1)
      BY <1>1, FS_Interval
    <3> QED BY <3>1, <3>2, FS_Subset
  <2>10. Kept'
    BY <2>2, <2>4, <2>5, <2>6, <2>7 DEF LInv, Kept, Between
  <2>11. Counted'
    <3>1. Cardinality(Copies \cup {b}) = Cardinality(Copies) + 1
      BY <2>8, <2>9, FS_AddElement
    <3> QED BY <2>4, <2>5, <2>8, <3>1 DEF LInv, Counted
  <2>12. Room'
    BY <2>2, <2>4 DEF LInv, Room, Roomy, Place, Between
  <2> QED BY <2>10, <2>11, <2>12 DEF LInv
<1>6. CASE CloseStdout
  <2>1. /\ pc = "close" /\ pc' = "redirect" /\ UNCHANGED <<pipe, atStart, launches>>
        /\ fds' = [fds EXCEPT ![1] = Without(t, 1)]
    BY <1>6 DEF CloseStdout, At
  <2>2. /\ DOMAIN fds'[1] = DOMAIN t \ {1}
        /\ \A d \in DOMAIN t \ {1} : fds'[1][d] = t[d]
    BY <1>1, <2>1 DEF IInv, Shape, Without
  <2>3. OpenEnds' = OpenEnds /\ 1 \notin OpenEnds
    BY <2>1 DEF OpenEnds, Between, IInv, Redirection
  <2>4. Copies' = Copies
    BY <2>1, <2>2, <2>3 DEF Copies, LInv, Kept
  <2>5. Kept'
    BY <2>1, <2>2, <2>3 DEF LInv, Kept, Between
  <2>6. Counted'
    BY <2>1, <2>2, <2>4 DEF LInv, Counted, Kept, Copies
  <2>7. Room'
    BY <2>1 DEF LInv, Room, Roomy, Place, Between
  <2> QED BY <2>5, <2>6, <2>7 DEF LInv
<1>7. CASE Redirect
  <2>1. /\ pc = "redirect" /\ pc' = "fork" /\ UNCHANGED <<pipe, atStart, launches>>
        /\ fds' = [fds EXCEPT ![1] = Dup2(t, pipe.write, 1)]
    BY <1>7 DEF Redirect, At
  <2>2. /\ DOMAIN fds'[1] = DOMAIN t \cup {1}
        /\ \A d \in DOMAIN t \ {1} : fds'[1][d] = t[d]
    BY <1>1, <2>1 DEF IInv, Shape, Dup2, With
  <2>3. OpenEnds' = OpenEnds /\ 1 \notin OpenEnds
    BY <2>1 DEF OpenEnds, Between, IInv, Redirection
  <2>4. Copies' = Copies /\ 1 \notin Copies
    BY <2>1, <2>2, <2>3 DEF Copies, LInv, Kept
  <2>5. Kept'
    BY <2>1, <2>2, <2>3 DEF LInv, Kept, Between
  <2>6. Counted'
    BY <2>1, <2>2, <2>4 DEF LInv, Counted, Copies
  <2>7. Room'
    BY <2>1 DEF LInv, Room, Roomy, Place, Between
  <2> QED BY <2>5, <2>6, <2>7 DEF LInv
<1>8. CASE Fork \/ ForkFails
  <2>1. /\ UNCHANGED <<pipe, atStart, launches>> /\ fds'[1] = t
        /\ pc = "fork" /\ pc' = "unredirect"
    BY <1>1, <1>8 DEF Fork, ForkFails, Forks, At, world, IInv, Shape
  <2>2. Room'
    BY <2>1 DEF LInv, Room, Roomy, Place, Between
  <2> QED BY <2>1, <2>2, StutterLeak DEF Between
<1>9. CASE CloseWriteEnd
  <2>1. /\ pc = "unredirect" /\ pc' = "restore" /\ UNCHANGED <<atStart, launches>>
        /\ pipe' = [pipe EXCEPT !.write = 0]
        /\ fds' = [fds EXCEPT ![1] = IF pipe.write # 0 THEN Without(t, pipe.write) ELSE t]
    BY <1>9 DEF CloseWriteEnd, At
  <2>2. /\ DOMAIN fds'[1] = DOMAIN t \ ({pipe.write} \ {0})
        /\ \A d \in DOMAIN fds'[1] : fds'[1][d] = t[d]
    BY <1>1, <2>1 DEF IInv, Shape, Without
  <2>3. pipe'.read = pipe.read /\ pipe'.write = 0
    BY <2>1 DEF IInv, Shape
  <2>4. OpenEnds = {pipe.read, pipe.write} \ {0} /\ OpenEnds' = {pipe.read} \ {0}
    BY <2>1, <2>3 DEF OpenEnds, Between
  <2>5. Copies' = Copies
    BY <2>1, <2>2, <2>4 DEF Copies
  <2>6. Kept'
    BY <2>1, <2>2, <2>3, <2>4 DEF LInv, Kept, Between
  <2>7. Counted'
    BY <2>1, <2>2, <2>5 DEF LInv, Counted, Copies
  <2>8. Room'
    <3>1. pipe.write \in 0 .. MaxFd - 1
      BY DEF IInv, Shape
    <3> QED BY <2>1, <2>2, <2>3, <3>1 DEF LInv, Room, Roomy, Place, Between
  <2> QED BY <2>6, <2>7, <2>8 DEF LInv
<1>10. CASE Restore
  <2>1. /\ pc = "restore" /\ pc' \in {"unfixture", "wait"}
        /\ UNCHANGED <<pipe, atStart, launches>>
        /\ fds' = [fds EXCEPT ![1] = IF backup # 0 THEN Dup2(t, backup, 1) ELSE t]
    BY <1>10 DEF Restore, At
  <2>2. backup # 0
    BY <2>1 DEF IInv, Redirection, Redirected, Saved
  <2>3. /\ DOMAIN fds'[1] = DOMAIN t \cup {1}
        /\ \A d \in DOMAIN t \ {1} : fds'[1][d] = t[d]
    BY <1>1, <2>1, <2>2 DEF IInv, Shape, Dup2, With
  <2>4. OpenEnds' = OpenEnds /\ 1 \notin OpenEnds
    BY <2>1 DEF OpenEnds, Between, IInv, Redirection
  <2>5. Copies' = Copies /\ 1 \notin Copies
    BY <2>1, <2>3, <2>4 DEF Copies, LInv, Kept
  <2>6. Kept'
    BY <2>1, <2>3, <2>4 DEF LInv, Kept, Between
  <2>7. Counted'
    BY <2>1, <2>3, <2>5 DEF LInv, Counted, Copies
  <2>8. Room'
    BY <2>1, <2>3 DEF LInv, Room, Roomy, Place, Between
  <2> QED BY <2>6, <2>7, <2>8 DEF LInv
<1>11. CASE Wait \/ ReadLine \/ ReadEnds
  <2>1. /\ UNCHANGED <<fds, pipe, atStart, launches>>
        /\ pc \in {"wait", "read"} /\ pc' \in {"wait", "read", "unfixture"}
    BY <1>11 DEF Wait, ReadLine, ReadEnds, At, world
  <2>2. Room'
    BY <2>1 DEF LInv, Room, Roomy, Place, Between
  <2> QED BY <2>1, <2>2, StutterLeak DEF Between
<1>12. CASE ClosePipe
  <2>1. /\ pc = "unfixture" /\ pc' = "report" /\ UNCHANGED <<pipe, atStart, launches>>
        /\ fds' = [fds EXCEPT ![1] =
                     [d \in DOMAIN t \ ({pipe.read, pipe.write} \ {0}) |-> t[d]]]
    BY <1>12 DEF ClosePipe, At
  <2>2. OpenEnds = {pipe.read, pipe.write} \ {0} /\ OpenEnds' = {}
    BY <2>1 DEF OpenEnds, Between
  <2>3. /\ DOMAIN fds'[1] = DOMAIN t \ OpenEnds
        /\ \A d \in DOMAIN fds'[1] : fds'[1][d] = t[d]
    BY <1>1, <2>1, <2>2 DEF IInv, Shape
  <2>4. Copies' = Copies
    BY <2>1, <2>2, <2>3 DEF Copies
  <2>5. Kept'
    BY <2>1, <2>2, <2>3 DEF LInv, Kept, Between
  <2>6. Counted'
    BY <2>1, <2>3, <2>4 DEF LInv, Counted, Copies
  <2>7. Room'
    <3> SUFFICES ASSUME Roomy PROVE Cardinality(Free(fds'[1])) >= 2
      BY <2>1 DEF Room, Roomy, Between
    <3>1. PICK w \in 0 .. MaxFd - 1 : Place(w) /\ (w = pipe.write \/ w \notin DOMAIN t)
      BY <2>1 DEF LInv, Room
    <3>2. pipe.read # 0 /\ pipe.read \in 0 .. MaxFd - 1
      BY <2>1 DEF LInv, Room, Between, IInv, Shape
    <3>3. {pipe.read, w} \subseteq Free(fds'[1]) /\ pipe.read # w
      BY <2>2, <2>3, <3>1, <3>2 DEF Free, Place
    <3>4. /\ IsFiniteSet({pipe.read}) /\ Cardinality({pipe.read}) = 1
          /\ Cardinality({pipe.read} \cup {w}) = Cardinality({pipe.read}) + 1
      BY <3>3, FS_Singleton, FS_AddElement
    <3>5. Cardinality({pipe.read, w}) = 2 /\ {pipe.read} \cup {w} = {pipe.read, w}
      BY <3>4
    <3> QED BY <3>3, <3>5, FreeIsFinite, FS_Subset
  <2> QED BY <2>5, <2>6, <2>7 DEF LInv
<1>13. CASE NextTest
  <2>1. /\ pc = "report" /\ pc' = "fixture" /\ UNCHANGED <<fds, atStart, launches>>
    BY <1>13 DEF NextTest, At, world
  <2>2. OpenEnds = {} /\ OpenEnds' = {}
    BY <2>1 DEF OpenEnds, Between
  <2>3. Copies' = Copies
    BY <2>1, <2>2 DEF Copies
  <2> QED BY <2>1, <2>2, <2>3 DEF LInv, Kept, Counted, Room, Roomy, Between
<1>14. CASE \E p \in Child : ChildStep(p)
  <2>1. fds'[1] = fds[1] /\ UNCHANGED <<pc, pipe, atStart, launches>>
    BY <1>14, ChildrenApart DEF IInv, Shape, harness
  <2>2. Room'
    BY <2>1 DEF LInv, Room, Roomy, Place
  <2> QED BY <2>1, <2>2, StutterLeak
<1>15. CASE UNCHANGED vars
  <2>1. UNCHANGED <<fds, pc, pipe, atStart, launches>>
    BY <1>15 DEF vars, harness, world
  <2>2. Room'
    BY <2>1 DEF LInv, Room, Roomy, Place
  <2> QED BY <2>1, <2>2, StutterLeak
<1> QED BY <1>2, <1>3, <1>4, <1>5, <1>6, <1>7, <1>8, <1>9, <1>10, <1>11, <1>12, <1>13, <1>14,
           <1>15 DEF Next, HarnessStep, Finished

(* However many tests run and whatever fails in them, each launch leaves one  *)
(* descriptor behind, a copy of standard output, and nothing else does; and   *)
(* the next pipe always finds the two it needs.                               *)
THEOREM LeaksOnePerLaunch == Spec => []OneDescriptorPerLaunch
<1>1. ASSUME IInv, LInv PROVE OneDescriptorPerLaunch
  <2>1. CASE pc = "report"
    <3>1. OpenEnds = {}
      BY <2>1 DEF OpenEnds, Between
    <3>2. DOMAIN fds[1] \ (DOMAIN atStart \cup {0}) = Copies
      BY <3>1 DEF Copies
    <3>3. Whole
      BY <1>1, <2>1 DEF IInv, Redirection, Redirected
    <3>4. \A d \in DOMAIN atStart : d \in DOMAIN fds[1] /\ fds[1][d] = atStart[d]
      BY <1>1, <3>3 DEF LInv, Kept, Whole
    <3> QED BY <1>1, <2>1, <3>2, <3>4 DEF LInv, Counted, OneDescriptorPerLaunch
  <2>2. CASE pc = "fixture"
    BY <1>1, <2>2 DEF LInv, Room, Roomy, Between, OneDescriptorPerLaunch
  <2> QED BY <2>1, <2>2 DEF OneDescriptorPerLaunch
<1> QED BY <1>1, InitRedirection, StepRedirection, InitLeak, StepLeak, PTL DEF Spec

(***************************************************************************)
(* The other processes.                                                    *)
(***************************************************************************)
Record(s) ==
  \E i, a, e, k, c : s = [image |-> i, argv |-> a, env |-> e, at |-> k, code |-> c]

(* A process has a child only while it waits for it, and one that has ended   *)
(* has no descriptors.                                                        *)
Tree ==
  /\ DOMAIN fds = Process /\ DOMAIN process = Child
  /\ \A p \in Child : Record(process[p])
  /\ \A p \in Child : process[p].image = "waiting" => p + 1 \in Child
  /\ \A p \in Child : process[p].image \in {"none", "exited", "killed"} => DOMAIN fds[p] = {}
  /\ \A p, q \in Child : p < q /\ process[p].image # "waiting" => process[q] = NoProcess

LEMMA IsRecord ==
  ASSUME NEW i, NEW a, NEW e, NEW k, NEW c
  PROVE  Record([image |-> i, argv |-> a, env |-> e, at |-> k, code |-> c])
BY DEF Record

LEMMA NoProcessIsNone ==
  NoProcess.image = "none" /\ Record(NoProcess)
BY DEF NoProcess, Running, Record

(* p goes on, or ends and leaves its descriptors. *)
LEMMA GoesOn ==
  ASSUME Tree, NEW p \in Child, process[p] # NoProcess, process[p].image # "waiting",
         NEW s, Record(s), s.image \notin {"none", "waiting"},
         process' = [process EXCEPT ![p] = s],
         DOMAIN fds' = Process, \A q \in Child \ {p} : fds'[q] = fds[q],
         s.image \in {"exited", "killed"} => DOMAIN fds'[p] = {}
  PROVE  Tree'
<1>1. DOMAIN process' = Child /\ \A q \in Child : process'[q] = IF q = p THEN s ELSE process[q]
  BY DEF Tree
<1>2. \A q \in Child : Record(process'[q])
  BY <1>1 DEF Tree
<1>3. \A q \in Child : process'[q].image \in {"none", "exited", "killed"} => DOMAIN fds'[q] = {}
  BY <1>1 DEF Tree
<1>4. \A q, r \in Child : q < r /\ process'[q].image # "waiting" => process'[r] = NoProcess
  BY <1>1 DEF Tree, Child
<1>5. \A q \in Child : process'[q].image = "waiting" => q + 1 \in Child
  BY <1>1 DEF Tree
<1> QED BY <1>1, <1>2, <1>3, <1>4, <1>5 DEF Tree

LEMMA EndedShape ==
  ASSUME NEW i, NEW c
  PROVE  Ended(i, c).image = i /\ Record(Ended(i, c))
<1>1. Ended(i, c) = [image |-> i, argv |-> <<>>, env |-> <<>>, at |-> 0, code |-> c]
  BY DEF Ended, Running
<1> QED BY <1>1, IsRecord

LEMMA RunningShape ==
  ASSUME NEW i, NEW a, NEW e, NEW k
  PROVE  Running(i, a, e, k).image = i /\ Record(Running(i, a, e, k))
BY DEF Running, Record

LEMMA StepShape ==
  ASSUME NEW s, Record(s), NEW k
  PROVE  [s EXCEPT !.at = k].image = s.image /\ Record([s EXCEPT !.at = k])
<1>1. PICK i, a, e, j, c : s = [image |-> i, argv |-> a, env |-> e, at |-> j, code |-> c]
  BY DEF Record
<1>2. [s EXCEPT !.at = k] = [image |-> i, argv |-> a, env |-> e, at |-> k, code |-> c]
  BY <1>1
<1> QED BY <1>1, <1>2, IsRecord

LEMMA WaitingShape ==
  ASSUME NEW s, Record(s)
  PROVE  LET w == [s EXCEPT !.image = "waiting"] IN w.image = "waiting" /\ Record(w)
<1>1. PICK i, a, e, j, c : s = [image |-> i, argv |-> a, env |-> e, at |-> j, code |-> c]
  BY DEF Record
<1>2. [s EXCEPT !.image = "waiting"] =
        [image |-> "waiting", argv |-> a, env |-> e, at |-> j, code |-> c]
  BY <1>1
<1> QED BY <1>1, <1>2, IsRecord

LEMMA EndsKeepsTree ==
  ASSUME Tree, NEW p \in Child, process[p] # NoProcess, process[p].image # "waiting",
         NEW i \in {"exited", "killed"}, NEW c, Ends(p, i, c)
  PROVE  Tree'
<1>1. p \in Process
  BY DEF Child, Process
<1>2. /\ process' = [process EXCEPT ![p] = Ended(i, c)]
      /\ fds' = [fds EXCEPT ![p] = <<>>]
  BY DEF Ends, Becomes
<1>3. /\ DOMAIN fds' = Process /\ DOMAIN fds'[p] = {}
      /\ \A q \in Child \ {p} : fds'[q] = fds[q]
  BY <1>1, <1>2 DEF Tree, Child, Process
<1> QED BY <1>2, <1>3, EndedShape, GoesOn

LEMMA ExecutesKeepsTree ==
  ASSUME Tree, NEW p \in Child, process[p] # NoProcess, process[p].image # "waiting",
         NEW a, NEW e, Executes(p, a, e)
  PROVE  Tree'
<1>1. CASE a[1].text \in Programs
  <2>1. p \in Process
    BY DEF Child, Process
  <2>2. /\ process' = [process EXCEPT ![p] = Running(a[1].text, a, e, 0)]
        /\ fds' = [fds EXCEPT ![p] = AcrossExec(@)]
    BY <1>1 DEF Executes, Becomes
  <2>3. DOMAIN fds' = Process /\ \A q \in Child \ {p} : fds'[q] = fds[q]
    BY <2>1, <2>2 DEF Tree, Child, Process
  <2>4. a[1].text \in {"passthrough", "simple_test"}
    BY <1>1, HarnessAssumption
  <2> QED BY <2>2, <2>3, <2>4, RunningShape, GoesOn
<1>2. CASE a[1].text \notin Programs
  BY <1>2, EndsKeepsTree DEF Executes
<1> QED BY <1>1, <1>2

LEMMA WritesKeepsTree ==
  ASSUME Tree, NEW p \in Child, process[p].image \notin {"none", "waiting", "exited", "killed"},
         NEW line, NEW k, Writes(p, line, k)
  PROVE  Tree'
<1>1. /\ process' = [process EXCEPT ![p] = [process[p] EXCEPT !.at = k]]
      /\ fds' = fds
  BY DEF Writes, Becomes
<1>2. Record(process[p]) /\ process[p] # NoProcess
  BY NoProcessIsNone DEF Tree
<1>3. DOMAIN fds' = Process /\ \A q \in Child \ {p} : fds'[q] = fds[q]
  BY <1>1 DEF Tree
<1> QED BY <1>1, <1>2, <1>3, StepShape, GoesOn

(* The one that moves is the last of those that wait for each other. *)
LEMMA ChildKeepsTree ==
  ASSUME Tree, NEW p \in Child, ChildStep(p)
  PROVE  Tree' /\ process[p] # NoProcess
<1>1. p \in Process /\ p \in Nat /\ Programs \subseteq {"passthrough", "simple_test"}
  BY HarnessAssumption DEF Child, Process
<1>2. CASE ExecutesForked(p)
  <2>1. process[p].image = "forked" /\ process[p] # NoProcess
    BY <1>2, NoProcessIsNone DEF ExecutesForked
  <2> QED BY <1>2, <2>1, ExecutesKeepsTree DEF ExecutesForked
<1>3. CASE PassthroughStarts(p) \/ PassthroughPrintsOption(p)
  <2>1. process[p].image = "passthrough" /\ process[p] # NoProcess
    BY <1>3, NoProcessIsNone DEF PassthroughStarts, PassthroughPrintsOption, Runs, Looking
  <2> QED BY <1>3, <2>1, WritesKeepsTree DEF PassthroughStarts, PassthroughPrintsOption
<1>4. CASE PassthroughForks(p)
  <2>1. PICK a, e : process' = [process EXCEPT ![p].image = "waiting",
                                               ![p + 1] = Running("forked", a, e, 0)]
    BY <1>4 DEF PassthroughForks
  <2>2. /\ process[p].image = "passthrough" /\ process[p] # NoProcess
        /\ p + 1 \in Child /\ p + 1 \in Process /\ process[p + 1] = NoProcess
        /\ fds' = [fds EXCEPT ![p + 1] = fds[p]]
    BY <1>1, <1>4, NoProcessIsNone, HarnessAssumption DEF PassthroughForks, Looking, Forks, Child, Process
  <2> DEFINE s == [process[p] EXCEPT !.image = "waiting"]
             c == Running("forked", a, e, 0)
  <2>3. s.image = "waiting" /\ Record(s)
    BY WaitingShape DEF Tree
  <2>4. c.image = "forked" /\ Record(c)
    BY RunningShape
  <2>5. /\ DOMAIN process' = Child
        /\ \A q \in Child : process'[q] = IF q = p THEN s ELSE IF q = p + 1 THEN c ELSE process[q]
    BY <1>1, <2>1, <2>2 DEF Tree
  <2> HIDE DEF s, c
  <2>6. DOMAIN fds' = Process /\ \A q \in Child \ {p + 1} : fds'[q] = fds[q]
    BY <2>2 DEF Tree, Child, Process
  <2>7. \A q \in Child : Record(process'[q])
    BY <2>3, <2>4, <2>5 DEF Tree
  <2>8. \A q \in Child : process'[q].image \in {"none", "exited", "killed"} => DOMAIN fds'[q] = {}
    BY <2>3, <2>4, <2>5, <2>6 DEF Tree
  <2>9. \A q, r \in Child : q < r /\ process'[q].image # "waiting" => process'[r] = NoProcess
    <3> SUFFICES ASSUME NEW q \in Child, NEW r \in Child, q < r, process'[q].image # "waiting"
                 PROVE  process'[r] = NoProcess
      OBVIOUS
    <3>1. q # p
      BY <2>3, <2>5
    <3>2. q \in Nat /\ r \in Nat
      BY DEF Child
    <3>3. CASE q = p + 1
      <4>1. r # p /\ r # p + 1 /\ p < r
        BY <1>1, <3>2, <3>3
      <4> QED BY <2>2, <2>5, <4>1 DEF Tree
    <3>4. CASE q # p + 1
      <4>1. process'[q] = process[q]
        BY <2>5, <3>1, <3>4
      <4>2. process[r] = NoProcess
        BY <4>1 DEF Tree
      <4>3. r # p
        BY <2>2, <4>2
      <4>4. r # p + 1
        <5>1. r = p + 1 => q < p
          BY <1>1, <3>1, <3>2
        <5> QED BY <2>2, <4>1, <5>1 DEF Tree
      <4> QED BY <2>5, <4>2, <4>3, <4>4
    <3> QED BY <3>3, <3>4
  <2>10. \A q \in Child : process'[q].image = "waiting" => q + 1 \in Child
    BY <2>2, <2>4, <2>5 DEF Tree
  <2> QED BY <2>2, <2>5, <2>6, <2>7, <2>8, <2>9, <2>10 DEF Tree
<1>5. CASE PassthroughCannotFork(p) \/ CannotExecute(p)
  <2>1. /\ process[p].image \in {"passthrough", "forked", "simple_test"}
        /\ process[p] # NoProcess
        /\ process' = [process EXCEPT ![p] = Ended("killed", 0)]
        /\ fds' = [fds EXCEPT ![p] = <<>>]
    BY <1>5, NoProcessIsNone
       DEF PassthroughCannotFork, Looking, CannotExecute, Relaunching, Runs, Fails
  <2>2. /\ DOMAIN fds' = Process /\ DOMAIN fds'[p] = {}
        /\ \A q \in Child \ {p} : fds'[q] = fds[q]
    BY <1>1, <2>1 DEF Tree, Child, Process
  <2> QED BY <2>1, <2>2, EndedShape, GoesOn
<1>6. CASE PassthroughWaits(p)
  <2>1. /\ process[p].image = "waiting" /\ process[p] # NoProcess
        /\ process[p + 1].image \in {"exited", "killed"}
        /\ process' = [process EXCEPT ![p] = process[p + 1], ![p + 1] = NoProcess]
        /\ fds' = [fds EXCEPT ![p] = <<>>]
    BY <1>6, NoProcessIsNone DEF PassthroughWaits
  <2> DEFINE s == process[p + 1]
  <2>2. p + 1 \in Child /\ p # p + 1 /\ Record(s) /\ s.image \in {"exited", "killed"}
    BY <1>1, <2>1 DEF Tree
  <2>3. /\ DOMAIN process' = Child
        /\ \A q \in Child : process'[q] = IF q = p THEN s
                                         ELSE IF q = p + 1 THEN NoProcess ELSE process[q]
    BY <2>1, <2>2 DEF Tree
  <2>4. /\ DOMAIN fds' = Process /\ DOMAIN fds'[p] = {} /\ DOMAIN fds[p + 1] = {}
        /\ \A q \in Child \ {p} : fds'[q] = fds[q]
    BY <1>1, <2>1, <2>2 DEF Tree, Child, Process
  <2> HIDE DEF s
  <2>5. \A q \in Child : Record(process'[q])
    BY <2>2, <2>3, NoProcessIsNone DEF Tree
  <2>6. \A q \in Child : process'[q].image \in {"none", "exited", "killed"} => DOMAIN fds'[q] = {}
    BY <2>2, <2>3, <2>4 DEF Tree
  <2>7. \A q, r \in Child : q < r /\ process'[q].image # "waiting" => process'[r] = NoProcess
    <3> SUFFICES ASSUME NEW q \in Child, NEW r \in Child, q < r, process'[q].image # "waiting",
                        r # p + 1
                 PROVE  process'[r] = NoProcess
      BY <2>2, <2>3
    <3>1. q \in Nat /\ r \in Nat
      BY DEF Child
    <3>2. CASE q \in {p, p + 1}
      <4>1. p + 1 < r
        BY <1>1, <3>1, <3>2
      <4>2. process[r] = NoProcess
        BY <2>2, <4>1 DEF Tree, s
      <4> QED BY <1>1, <3>1, <4>1, <4>2, <2>3
    <3>3. CASE q \notin {p, p + 1}
      <4>1. process[r] = NoProcess
        BY <2>3, <3>3 DEF Tree
      <4>2. r # p
        BY <2>1, <4>1
      <4> QED BY <2>3, <4>1, <4>2
    <3> QED BY <3>2, <3>3
  <2>8. \A q \in Child : process'[q].image = "waiting" => q + 1 \in Child
    BY <2>2, <2>3, NoProcessIsNone DEF Tree
  <2> QED BY <2>1, <2>3, <2>4, <2>5, <2>6, <2>7, <2>8 DEF Tree
<1>7. CASE PassthroughFindsNoProgram(p)
  <2>1. process[p].image = "passthrough" /\ process[p] # NoProcess
    BY <1>7, NoProcessIsNone DEF PassthroughFindsNoProgram
  <2> QED BY <1>7, <2>1, EndsKeepsTree DEF PassthroughFindsNoProgram
<1>8. CASE Target(p)
  <2>1. process[p].image = "simple_test" /\ process[p] # NoProcess
    BY <1>8, NoProcessIsNone DEF Target, TargetAnnounces, TargetRunsPlain, TargetRelaunches,
         TargetRejectsOptions, TargetRunsTests, TargetEnds, Runs
  <2>2. CASE TargetAnnounces(p) \/ TargetRunsTests(p)
    BY <2>1, <2>2, WritesKeepsTree DEF TargetAnnounces, TargetRunsTests
  <2>3. CASE TargetRunsPlain(p)
    <3>1. process' = [process EXCEPT ![p] = [process[p] EXCEPT !.at = 1]] /\ fds' = fds
      BY <2>3 DEF TargetRunsPlain, Becomes
    <3>2. Record(process[p])
      BY DEF Tree
    <3>3. DOMAIN fds' = Process /\ \A q \in Child \ {p} : fds'[q] = fds[q]
      BY <3>1 DEF Tree
    <3> QED BY <2>1, <3>1, <3>2, <3>3, StepShape, GoesOn
  <2>4. CASE TargetRelaunches(p)
    BY <2>1, <2>4, ExecutesKeepsTree, EndsKeepsTree DEF TargetRelaunches
  <2>5. CASE TargetRejectsOptions(p) \/ TargetEnds(p)
    BY <2>1, <2>5, EndsKeepsTree DEF TargetRejectsOptions, TargetEnds
  <2> QED BY <1>8, <2>1, <2>2, <2>3, <2>4, <2>5 DEF Target
<1> QED BY <1>2, <1>3, <1>4, <1>5, <1>6, <1>7, <1>8 DEF ChildStep, Passthrough

(***************************************************************************)
(* The harness and the process it waits for.                               *)
(***************************************************************************)
NobodyRuns == \A p \in Child : process[p] = NoProcess

(* Outside of the launch nobody runs, nor after a fork that failed.           *)
Launched ==
  /\ pc \in Places
  /\ pc \notin {"unredirect", "restore", "wait"} => NobodyRuns
  /\ pc \in {"unredirect", "restore"} => result = None \/ (result = Threw /\ NobodyRuns)
  /\ pc \in {"fixture", "backup", "close", "redirect", "fork", "wait"} => result = None

(* The harness has this test's write end where the pipe says, and while it is *)
(* redirected as its standard output; other tests' it may have forgotten.     *)
WriteEnds ==
  /\ test \in Nat
  /\ \A d \in DOMAIN fds[1] :
       fds[1][d].file.of = "write" => fds[1][d].file.pipe \in 0 .. test
  /\ \A d \in DOMAIN fds[1] : fds[1][d].file = End("write") =>
       \/ /\ d = pipe.write /\ d # 0
          /\ pc \in {"backup", "close", "redirect", "fork", "unredirect", "unfixture"}
       \/ d = 1 /\ pc \in {"fork", "unredirect", "restore"}
  /\ pc \in {"backup", "close", "redirect"} => pipe.write \in DOMAIN fds[1] /\ pipe.write # 0

LEMMA NoChildNoOther ==
  ASSUME Tree, 2 \in Child => process[2] = NoProcess PROVE NobodyRuns
<1> SUFFICES ASSUME NEW p \in Child PROVE process[p] = NoProcess
  BY DEF NobodyRuns
<1>1. p \in Nat /\ p >= 2 /\ 2 \in Child
  BY HarnessAssumption DEF Child
<1>2. CASE p = 2
  BY <1>1, <1>2
<1>3. CASE p # 2
  BY <1>1, <1>3, NoProcessIsNone DEF Tree
<1> QED BY <1>2, <1>3

(* What the harness does with its own descriptors. *)
LEMMA OwnStepKeepsTree ==
  ASSUME Tree, process' = process, DOMAIN fds' = Process, \A p \in Child : fds'[p] = fds[p]
  PROVE  Tree' /\ (NobodyRuns => NobodyRuns')
BY DEF Tree, NobodyRuns

LEMMA HarnessKeepsLaunched ==
  ASSUME Tree, Launched, HarnessStep PROVE Tree' /\ Launched'
<1>1. 1 \in Process /\ 1 \notin Child /\ Child \subseteq Process /\ Child \subseteq Nat
  BY HarnessAssumption DEF Process, Child
<1>2. None # Threw
  BY DEF None, Threw
<1>3. CASE OpenPipe \/ BackUp \/ CloseStdout \/ Redirect
  <2>1. /\ UNCHANGED <<process, result>>
        /\ \E t : fds' = [fds EXCEPT ![1] = t]
        /\ pc \in {"fixture", "backup", "close", "redirect"}
        /\ pc' \in {"backup", "close", "redirect", "fork"}
    BY <1>3 DEF OpenPipe, BackUp, CloseStdout, Redirect, At
  <2>2. DOMAIN fds' = Process /\ \A p \in Child : fds'[p] = fds[p]
    BY <1>1, <2>1 DEF Tree
  <2> QED BY <2>1, <2>2, OwnStepKeepsTree DEF Launched, Places
<1>4. CASE PipeFails \/ BackupFails
  <2>1. /\ UNCHANGED <<process, fds>> /\ pc \in {"fixture", "backup"}
        /\ pc' \in {"report", "unfixture"}
    BY <1>4 DEF PipeFails, BackupFails, At, world
  <2>2. DOMAIN fds' = Process /\ \A p \in Child : fds'[p] = fds[p]
    BY <2>1 DEF Tree
  <2> QED BY <2>1, <2>2, OwnStepKeepsTree DEF Launched, Places
<1>5. CASE Fork
  <2>1. PICK a, e : process' = [process EXCEPT ![2] = Running("forked", a, e, 0)]
    BY <1>5 DEF Fork
  <2>2. /\ fds' = [fds EXCEPT ![2] = fds[1]] /\ result' = result
        /\ pc = "fork" /\ pc' = "unredirect" /\ 2 \in Child
    BY <1>5, HarnessAssumption DEF Fork, Forks, At, Child
  <2>3. NobodyRuns /\ result = None
    BY <2>2 DEF Launched
  <2> DEFINE c == Running("forked", a, e, 0)
  <2>4. c.image = "forked" /\ Record(c)
    BY RunningShape
  <2>5. /\ DOMAIN process' = Child /\ DOMAIN fds' = Process
        /\ \A p \in Child : process'[p] = IF p = 2 THEN c ELSE NoProcess
        /\ \A p \in Child \ {2} : fds'[p] = fds[p]
    BY <1>1, <2>1, <2>2, <2>3 DEF Tree, NobodyRuns
  <2> HIDE DEF c
  <2>6. \A p \in Child : Record(process'[p])
    BY <2>4, <2>5, NoProcessIsNone
  <2>7. \A p \in Child : process'[p].image = "waiting" => p + 1 \in Child
    BY <2>4, <2>5, NoProcessIsNone
  <2>8. \A p \in Child : process'[p].image \in {"none", "exited", "killed"} => DOMAIN fds'[p] = {}
    BY <2>3, <2>4, <2>5, NoProcessIsNone DEF Tree, NobodyRuns
  <2>9. \A p, q \in Child : p < q => process'[q] = NoProcess
    <3>1. \A p, q \in Child : p < q => q # 2
      BY DEF Child
    <3> QED BY <2>5, <3>1
  <2>10. Tree'
    BY <2>5, <2>6, <2>7, <2>8, <2>9 DEF Tree
  <2>11. None' = None /\ result' = None
    BY <2>2, <2>3 DEF None
  <2> QED BY <2>2, <2>10, <2>11 DEF Launched, Places
<1>6. CASE ForkFails
  <2>1. /\ UNCHANGED <<process, fds>> /\ result' = Threw
        /\ pc = "fork" /\ pc' = "unredirect"
    BY <1>6 DEF ForkFails, At, world
  <2>2. DOMAIN fds' = Process /\ \A p \in Child : fds'[p] = fds[p]
    BY <2>1 DEF Tree
  <2>3. Threw' = Threw /\ None' = None
    BY DEF Threw, None
  <2> QED BY <2>1, <2>2, <2>3, OwnStepKeepsTree DEF Launched, Places
<1>7. CASE CloseWriteEnd \/ Restore
  <2>1. /\ UNCHANGED <<process, result>>
        /\ \E t : fds' = [fds EXCEPT ![1] = t]
        /\ \/ pc = "unredirect" /\ pc' = "restore"
           \/ pc = "restore" /\ pc' = IF result = Threw THEN "unfixture" ELSE "wait"
    BY <1>7 DEF CloseWriteEnd, Restore, At
  <2>2. DOMAIN fds' = Process /\ \A p \in Child : fds'[p] = fds[p]
    BY <1>1, <2>1 DEF Tree
  <2> QED BY <1>2, <2>1, <2>2, OwnStepKeepsTree DEF Launched, Places
<1>8. CASE Wait
  <2>1. /\ process[2].image \in {"exited", "killed"}
        /\ process' = [process EXCEPT ![2] = NoProcess] /\ fds' = fds
        /\ pc' \in {"read", "unfixture"}
    BY <1>8 DEF Wait
  <2>2. /\ DOMAIN process' = Child
        /\ \A p \in Child : process'[p] = IF p = 2 THEN NoProcess ELSE process[p]
    BY <2>1 DEF Tree
  <2>3. ASSUME NEW p \in Child PROVE process'[p] = NoProcess
    <3>1. CASE p = 2
      BY <2>2, <3>1
    <3>2. CASE p # 2
      <4>1. p \in Nat /\ 2 < p /\ 2 \in Child
        BY <3>2, HarnessAssumption DEF Child
      <4> QED BY <2>1, <2>2, <3>2, <4>1 DEF Tree
    <3> QED BY <3>1, <3>2
  <2>4. \A p \in Child : DOMAIN fds[p] = {}
    <3> SUFFICES ASSUME NEW p \in Child PROVE DOMAIN fds[p] = {}
      OBVIOUS
    <3>1. CASE p = 2
      BY <2>1, <3>1 DEF Tree
    <3>2. CASE p # 2
      BY <2>2, <2>3, <3>2, NoProcessIsNone DEF Tree
    <3> QED BY <3>1, <3>2
  <2>5. Tree'
    BY <2>1, <2>2, <2>3, <2>4, NoProcessIsNone DEF Tree
  <2> QED BY <2>1, <2>3, <2>5 DEF Launched, NobodyRuns, Places
<1>9. CASE ReadLine \/ ReadEnds \/ ClosePipe
  <2>1. /\ UNCHANGED <<process, result>>
        /\ fds' = fds \/ \E t : fds' = [fds EXCEPT ![1] = t]
        /\ pc \in {"read", "unfixture"} /\ pc' \in {"read", "unfixture", "report"}
    BY <1>9 DEF ReadLine, ReadEnds, ClosePipe, At, world
  <2>2. DOMAIN fds' = Process /\ \A p \in Child : fds'[p] = fds[p]
    BY <1>1, <2>1 DEF Tree
  <2> QED BY <2>1, <2>2, OwnStepKeepsTree DEF Launched, Places
<1>10. CASE NextTest
  <2>1. /\ UNCHANGED <<process, fds>> /\ result' = None
        /\ pc = "report" /\ pc' = "fixture"
    BY <1>10 DEF NextTest, At, world
  <2>2. DOMAIN fds' = Process /\ \A p \in Child : fds'[p] = fds[p]
    BY <2>1 DEF Tree
  <2> QED BY <2>1, <2>2, OwnStepKeepsTree DEF Launched, Places, None
<1> QED BY <1>3, <1>4, <1>5, <1>6, <1>7, <1>8, <1>9, <1>10 DEF HarnessStep

(* pipe2 gives the write end the higher of two descriptors. *)
LEMMA WriteEndIsNotZero ==
  ASSUME NEW t, Cardinality(Free(t)) >= 2,
         NEW r, r = Lowest(Free(t)),
         NEW w, w = Lowest(Free(t) \ {r})
  PROVE  w # 0
<1>1. r \in Free(t) /\ w \in Free(t) /\ r # w
  BY TwoDescriptors
<1>2. Free(t) \in SUBSET (0 .. MaxFd - 1)
  BY FreeIsFinite
<1>3. 0 \in Free(t) => r = 0
  BY TwoDescriptors
<1> QED BY <1>1, <1>3

LEMMA EndShape ==
  /\ End("write").of = "write" /\ End("write").pipe = test
  /\ End("read").of # "write" /\ Stdout.of # "write"
  /\ End("read") # End("write") /\ Stdout # End("write")
BY DEF End, Stdout, File

(* Steps that leave the table and the pipe alone. *)
LEMMA SameTable ==
  ASSUME WriteEnds, fds'[1] = fds[1], pipe' = pipe, test' = test,
         pc' \notin {"backup", "close", "redirect"},
         \/ pc' = pc
         \/ pc = "fork" /\ pc' = "unredirect"
         \/ pc' \in {"unfixture", "report", "read"}
            /\ pc \notin {"fork", "unredirect", "restore"}
            /\ (pc' = "unfixture" \/ pc \in {"fixture", "wait", "read"})
  PROVE  WriteEnds'
<1>1. End("write")' = End("write")
  BY DEF End
<1> QED BY <1>1 DEF WriteEnds

LEMMA StepWriteEnds ==
  ASSUME IInv, WriteEnds, [Next]_vars PROVE WriteEnds'
<1>1. 1 \in Process /\ MaxFd \in Nat /\ DOMAIN fds = Process
  BY HarnessAssumption DEF Process, IInv, Shape
<1> DEFINE t == fds[1]
<1>2. CASE OpenPipe
  <2> DEFINE r == Lowest(Free(t))
             w == Lowest(Free(t) \ {r})
  <2>1. Cardinality(Free(t)) >= 2 /\ pc = "fixture"
    BY <1>2 DEF OpenPipe, At
  <2>2. w # 0
    <3> HIDE DEF r, w
    <3> QED BY <2>1, WriteEndIsNotZero DEF r, w
  <2>3. /\ pipe' = [read |-> r, write |-> w] /\ pc' = "backup" /\ test' = test
        /\ fds' = [fds EXCEPT ![1] = With(With(t, r, End("read"), TRUE), w, End("write"), TRUE)]
    BY <1>2 DEF OpenPipe
  <2> HIDE DEF r, w
  <2>4. /\ DOMAIN fds'[1] = DOMAIN t \cup {r, w}
        /\ \A d \in DOMAIN fds'[1] :
             fds'[1][d].file = IF d = w THEN End("write")
                               ELSE IF d = r THEN End("read") ELSE t[d].file
    BY <1>1, <2>3 DEF With
  <2>5. End("write")' = End("write")
    BY <2>3 DEF End
  <2>6. \A d \in DOMAIN t : t[d].file # End("write")
    BY <2>1 DEF WriteEnds
  <2>7. \A d \in DOMAIN fds'[1] :
          /\ fds'[1][d].file.of = "write" => fds'[1][d].file.pipe \in 0 .. test
          /\ fds'[1][d].file = End("write") => d = w
    BY <2>4, <2>6, EndShape DEF WriteEnds
  <2> QED BY <2>2, <2>3, <2>4, <2>5, <2>7 DEF WriteEnds
<1>3. CASE BackUp
  <2> DEFINE b == Lowest(Free(t))
  <2>1. /\ Whole /\ pc = "backup" /\ pc' = "close" /\ pipe' = pipe /\ test' = test
        /\ fds' = [fds EXCEPT ![1] = Dup2(t, 1, b)]
    BY <1>3 DEF BackUp, At, IInv, Redirection, Redirected
  <2> HIDE DEF b
  <2>2. /\ DOMAIN fds'[1] = DOMAIN t \cup {b}
        /\ \A d \in DOMAIN fds'[1] : fds'[1][d].file = IF d = b THEN Stdout ELSE t[d].file
    BY <1>1, <2>1 DEF Dup2, With, Whole
  <2>3. End("write")' = End("write")
    BY <2>1 DEF End
  <2>4. \A d \in DOMAIN fds'[1] :
          /\ fds'[1][d].file.of = "write" => fds'[1][d].file.pipe \in 0 .. test
          /\ fds'[1][d].file = End("write") => d = pipe.write /\ d # 0
    BY <2>1, <2>2, EndShape DEF WriteEnds
  <2> QED BY <2>1, <2>2, <2>3, <2>4 DEF WriteEnds
<1>4. CASE CloseStdout
  <2>1. /\ pc = "close" /\ pc' = "redirect" /\ pipe' = pipe /\ test' = test /\ pipe.write # 1
        /\ fds' = [fds EXCEPT ![1] = Without(t, 1)]
    BY <1>4 DEF CloseStdout, At, IInv, Redirection
  <2>2. DOMAIN fds'[1] = DOMAIN t \ {1} /\ \A d \in DOMAIN fds'[1] : fds'[1][d] = t[d]
    BY <1>1, <2>1 DEF Without
  <2>3. End("write")' = End("write")
    BY <2>1 DEF End
  <2> QED BY <2>1, <2>2, <2>3 DEF WriteEnds
<1>5. CASE Redirect
  <2>1. /\ pc = "redirect" /\ pc' = "fork" /\ pipe' = pipe /\ test' = test
        /\ fds' = [fds EXCEPT ![1] = Dup2(t, pipe.write, 1)]
    BY <1>5 DEF Redirect, At
  <2>2. /\ DOMAIN fds'[1] = DOMAIN t \cup {1}
        /\ \A d \in DOMAIN fds'[1] :
             fds'[1][d].file = IF d = 1 THEN t[pipe.write].file ELSE t[d].file
    BY <1>1, <2>1 DEF Dup2, With
  <2>3. End("write")' = End("write")
    BY <2>1 DEF End
  <2>4. pipe.write \in DOMAIN t
    BY <2>1 DEF WriteEnds
  <2>5. \A d \in DOMAIN fds'[1] :
          /\ fds'[1][d].file.of = "write" => fds'[1][d].file.pipe \in 0 .. test
          /\ fds'[1][d].file = End("write") => d = 1 \/ (d = pipe.write /\ d # 0)
    BY <2>1, <2>2, <2>4 DEF WriteEnds
  <2> QED BY <2>1, <2>2, <2>3, <2>5 DEF WriteEnds
<1>6. CASE CloseWriteEnd
  <2>1. /\ pc = "unredirect" /\ pc' = "restore" /\ test' = test
        /\ fds' = [fds EXCEPT ![1] = IF pipe.write # 0 THEN Without(t, pipe.write) ELSE t]
    BY <1>6 DEF CloseWriteEnd, At
  <2>2. DOMAIN fds'[1] = DOMAIN t \ ({pipe.write} \ {0})
        /\ \A d \in DOMAIN fds'[1] : fds'[1][d] = t[d]
    BY <1>1, <2>1 DEF Without
  <2>3. End("write")' = End("write")
    BY <2>1 DEF End
  <2> QED BY <2>1, <2>2, <2>3 DEF WriteEnds
<1>7. CASE Restore
  <2>1. /\ pc = "restore" /\ pc' \in {"unfixture", "wait"} /\ test' = test /\ pipe' = pipe /\ Saved
        /\ fds' = [fds EXCEPT ![1] = IF backup # 0 THEN Dup2(t, backup, 1) ELSE t]
    BY <1>7 DEF Restore, At, IInv, Redirection, Redirected
  <2>2. /\ DOMAIN fds'[1] = DOMAIN t \cup {1}
        /\ \A d \in DOMAIN fds'[1] : fds'[1][d].file = IF d = 1 THEN Stdout ELSE t[d].file
    BY <1>1, <2>1 DEF Dup2, With, Saved
  <2>3. End("write")' = End("write")
    BY <2>1 DEF End
  <2>4. \A d \in DOMAIN fds'[1] :
          /\ fds'[1][d].file.of = "write" => fds'[1][d].file.pipe \in 0 .. test
          /\ fds'[1][d].file # End("write")
    BY <2>1, <2>2, EndShape DEF WriteEnds
  <2> QED BY <2>1, <2>2, <2>3, <2>4 DEF WriteEnds
<1>8. CASE ClosePipe
  <2>1. /\ pc = "unfixture" /\ pc' = "report" /\ test' = test
        /\ fds' = [fds EXCEPT ![1] =
                     [d \in DOMAIN t \ ({pipe.read, pipe.write} \ {0}) |-> t[d]]]
    BY <1>8 DEF ClosePipe, At
  <2>2. DOMAIN fds'[1] = DOMAIN t \ ({pipe.read, pipe.write} \ {0})
        /\ \A d \in DOMAIN fds'[1] : fds'[1][d] = t[d]
    BY <1>1, <2>1
  <2>3. End("write")' = End("write")
    BY <2>1 DEF End
  <2> QED BY <2>1, <2>2, <2>3 DEF WriteEnds
<1>9. CASE NextTest
  <2>1. pc = "report" /\ pc' = "fixture" /\ test' = test + 1 /\ fds' = fds
    BY <1>9 DEF NextTest, At, world
  <2>2. End("write")'.of = "write" /\ End("write")'.pipe = test + 1
    BY <2>1 DEF End
  <2>3. \A d \in DOMAIN t : t[d].file # End("write")'
    BY <2>2 DEF WriteEnds
  <2>4. test + 1 \in Nat /\ 0 .. test \subseteq 0 .. test + 1
    BY DEF WriteEnds
  <2> QED BY <2>1, <2>3, <2>4 DEF WriteEnds
<1>10. CASE PipeFails \/ BackupFails \/ Fork \/ ForkFails \/ Wait \/ ReadEnds
  <2>1. fds'[1] = fds[1] /\ pipe' = pipe /\ test' = test
    BY <1>1, <1>10 DEF PipeFails, BackupFails, Fork, Forks, ForkFails, Wait, ReadEnds, world
  <2>2. \/ pc = "fixture" /\ pc' = "report"
        \/ pc = "backup" /\ pc' = "unfixture"
        \/ pc = "fork" /\ pc' = "unredirect"
        \/ pc = "wait" /\ pc' \in {"read", "unfixture"}
        \/ pc = "read" /\ pc' = "unfixture"
    BY <1>10 DEF PipeFails, BackupFails, Fork, ForkFails, Wait, ReadEnds, At
  <2> QED BY <2>1, <2>2, SameTable
<1>11. CASE ReadLine
  <2>1. pc = "read" /\ pc' = pc /\ fds' = fds /\ pipe' = pipe /\ test' = test
    BY <1>11 DEF ReadLine, At
  <2> QED BY <2>1, SameTable
<1>12. ASSUME fds'[1] = fds[1], UNCHANGED <<pc, pipe, test>> PROVE WriteEnds'
  <2>1. End("write")' = End("write")
    BY <1>12 DEF End
  <2> QED BY <1>12, <2>1 DEF WriteEnds
<1>13. CASE (\E p \in Child : ChildStep(p)) \/ Finished \/ UNCHANGED vars
  BY <1>1, <1>12, <1>13, ChildrenApart DEF Finished, vars, harness, world
<1> QED BY <1>2, <1>3, <1>4, <1>5, <1>6, <1>7, <1>8, <1>9, <1>10, <1>11, <1>13
        DEF Next, HarnessStep

PInv == IInv /\ Tree /\ Launched /\ WriteEnds

LEMMA InitLaunch == Init => PInv
<1> SUFFICES ASSUME Init PROVE PInv
  OBVIOUS
<1>1. 1 \in Process /\ 1 \notin Child /\ Child \subseteq Process
  BY HarnessAssumption DEF Process, Child
<1>2. Tree /\ Launched
  BY <1>1, NoProcessIsNone DEF Init, Tree, Launched, NobodyRuns, Places
<1>3. PICK others \in Inherited :
        atStart = [d \in others \cup {1, 2} |->
                     [file |-> IF d = 1 THEN Stdout
                               ELSE IF d = 2 THEN File("stderr") ELSE File("other"),
                      cloexec |-> FALSE]]
  BY DEF Init
<1>4. fds[1] = atStart /\ \A d \in DOMAIN atStart : atStart[d].file.of # "write"
  BY <1>1, <1>3 DEF Init, Stdout, File
<1>5. WriteEnds
  <2>1. test \in Nat /\ pc = "fixture"
    BY DEF Init
  <2>2. \A d \in DOMAIN fds[1] : fds[1][d].file.of # "write" /\ fds[1][d].file # End("write")
    BY <1>4, EndShape
  <2> QED BY <2>1, <2>2 DEF WriteEnds
<1> QED BY <1>2, <1>5, InitRedirection DEF PInv

LEMMA StepLaunch == PInv /\ [Next]_vars => PInv'
<1> SUFFICES ASSUME PInv, [Next]_vars PROVE PInv'
  OBVIOUS
<1>1. IInv' /\ WriteEnds'
  BY StepRedirection, StepWriteEnds DEF PInv
<1>2. CASE HarnessStep
  BY <1>1, <1>2, HarnessKeepsLaunched DEF PInv
<1>3. ASSUME NEW p \in Child, ChildStep(p) PROVE PInv'
  <2>1. Tree' /\ process[p] # NoProcess
    BY <1>3, ChildKeepsTree DEF PInv
  <2>2. UNCHANGED <<pc, result>>
    BY <1>3, ChildrenApart DEF PInv, Tree, harness
  <2>3. ~NobodyRuns
    BY <1>3, <2>1 DEF NobodyRuns
  <2>4. Launched'
    BY <2>2, <2>3 DEF PInv, Launched, None, Threw
  <2> QED BY <1>1, <2>1, <2>4 DEF PInv
<1>4. CASE Finished \/ UNCHANGED vars
  <2>1. UNCHANGED <<pc, result, process, fds>>
    BY <1>4 DEF Finished, vars, harness, world
  <2>2. Tree' /\ Launched'
    BY <2>1 DEF PInv, Tree, Launched, NobodyRuns, None, Threw
  <2> QED BY <1>1, <2>2 DEF PInv
<1> QED BY <1>2, <1>3, <1>4 DEF Next

(* Once launchBinary has returned or thrown and the child has been waited     *)
(* for, no process of this test is left, and reading the pipe meets its end.  *)
THEOREM NothingStaysBehind == Spec => []NothingOutlivesLaunch
<1>1. PInv => NothingOutlivesLaunch
  <2> SUFFICES ASSUME PInv, result # None, pc \notin {"unredirect", "restore"}
               PROVE  NobodyRuns /\ (pc = "read" => ~HasWriter)
    BY DEF NothingOutlivesLaunch, NobodyRuns
  <2>1. NobodyRuns
    BY DEF PInv, Launched, Places
  <2>2. ASSUME pc = "read", NEW p \in Process, NEW d \in DOMAIN fds[p]
        PROVE  fds[p][d].file # End("write")
    <3>1. CASE p = 1
      BY <2>2, <3>1 DEF PInv, WriteEnds
    <3>2. CASE p # 1
      <4>1. p \in Child
        BY <3>2 DEF Process, Child
      <4> QED BY <2>1, <4>1, NoProcessIsNone DEF PInv, Tree, NobodyRuns
    <3> QED BY <3>1, <3>2
  <2> QED BY <2>1, <2>2 DEF HasWriter
<1> QED BY <1>1, InitLaunch, StepLaunch, PTL DEF Spec

(***************************************************************************)
(* Types.                                                                  *)
(***************************************************************************)
Files == {"stdout", "stderr", "other", "read", "write"}

Table(t) ==
  /\ DOMAIN t \subseteq 0 .. MaxFd - 1
  /\ \A d \in DOMAIN t : t[d].file.of \in Files /\ t[d].cloexec \in BOOLEAN

(* What a process is; whoever executes something executes something by name. *)
Typed(s) ==
  /\ s.image \in {"none", "forked", "waiting", "exited", "killed"} \cup Programs
  /\ s.argv \in Seq(Argument) /\ s.env \in Seq(Entry) /\ s.at \in Nat /\ s.code \in {0, 1}
  /\ s.image \in {"forked"} \cup Programs => s.argv # <<>>

Worldly ==
  /\ \A p \in Process : Table(fds[p])
  /\ \A p \in Child : Typed(process[p])
  /\ content \in Seq(Line) /\ Len(content) <= Capacity

(* The harness launches once in a test at most, and only where there is a     *)
(* test; it waits only for a process it could start.                          *)
Own ==
  /\ suite \in Suites /\ test \in 1 .. Len(suite) + 1
  /\ pc # "fixture" => test <= Len(suite)
  /\ launches \in Nat /\ launches <= test /\ (pc \in {"fixture", "backup"} => launches < test)
  /\ backup \in 0 .. MaxFd - 1
  /\ result.is \in {"none", "threw", "returned"} /\ result.code \in {0, 1}
  /\ pc \in {"unredirect", "restore", "wait"} /\ result # Threw => 2 \in Child
  /\ lines \in Seq(Line) /\ failed \in BOOLEAN

HInv == Worldly /\ Own

LEMMA TestsTyped ==
  ASSUME suite \in Suites, NEW i \in 1 .. Len(suite)
  PROVE  /\ suite[i].args \in Seq(Argument) /\ suite[i].args # <<>>
         /\ suite[i].env \in Seq(Entry)
<1>1. suite \in Seq(Test) /\ suite[i].args # <<>>
  BY HarnessAssumption
<1>2. suite[i] \in Test
  BY <1>1, ElementOfSeq
<1> QED BY <1>1, <1>2 DEF Test

LEMMA TableWith ==
  ASSUME NEW t, Table(t), NEW d \in 0 .. MaxFd - 1, NEW f, f.of \in Files, NEW c \in BOOLEAN
  PROVE  Table(With(t, d, f, c))
BY DEF Table, With

LEMMA TableDup ==
  ASSUME NEW t, Table(t), NEW old \in DOMAIN t, NEW new \in 0 .. MaxFd - 1
  PROVE  Table(Dup2(t, old, new))
BY TableWith DEF Dup2, Table

LEMMA TableLess ==
  ASSUME NEW t, Table(t)
  PROVE  /\ \A d : Table(Without(t, d))
         /\ \A S : Table([d \in DOMAIN t \ S |-> t[d]])
         /\ Table(AcrossExec(t)) /\ Table(<<>>)
BY DEF Table, Without, AcrossExec

LEMMA NoProcessTyped == Typed(NoProcess)
<1>1. <<>> \in Seq(Argument) /\ <<>> \in Seq(Entry)
  BY EmptySeq
<1>2. "none" \notin Programs
  BY HarnessAssumption
<1> QED BY <1>1, <1>2 DEF NoProcess, Running, Typed

LEMMA EndedTyped ==
  ASSUME NEW i \in {"exited", "killed"}, NEW c \in {0, 1}
  PROVE  Typed(Ended(i, c))
<1>1. <<>> \in Seq(Argument) /\ <<>> \in Seq(Entry)
  BY EmptySeq
<1>2. "exited" \notin Programs /\ "killed" \notin Programs
  BY HarnessAssumption
<1>3. Ended(i, c) = [image |-> i, argv |-> <<>>, env |-> <<>>, at |-> 0, code |-> c]
  BY DEF Ended, Running
<1> QED BY <1>1, <1>2, <1>3 DEF Typed

LEMMA RunningTyped ==
  ASSUME NEW i \in {"forked"} \cup Programs, NEW a \in Seq(Argument), a # <<>>,
         NEW e \in Seq(Entry), NEW k \in Nat
  PROVE  Typed(Running(i, a, e, k))
BY DEF Typed, Running

(* A process that goes on, or waits, is the same otherwise. *)
LEMMA AtTyped ==
  ASSUME NEW s, Record(s), Typed(s), NEW k \in Nat
  PROVE  Typed([s EXCEPT !.at = k])
<1>1. PICK i, a, e, j, c : s = [image |-> i, argv |-> a, env |-> e, at |-> j, code |-> c]
  BY DEF Record
<1>2. [s EXCEPT !.at = k] = [image |-> i, argv |-> a, env |-> e, at |-> k, code |-> c]
  BY <1>1
<1> QED BY <1>1, <1>2 DEF Typed

LEMMA WaitingTyped ==
  ASSUME NEW s, Record(s), Typed(s)
  PROVE  Typed([s EXCEPT !.image = "waiting"])
<1>1. PICK i, a, e, j, c : s = [image |-> i, argv |-> a, env |-> e, at |-> j, code |-> c]
  BY DEF Record
<1>2. [s EXCEPT !.image = "waiting"] =
        [image |-> "waiting", argv |-> a, env |-> e, at |-> j, code |-> c]
  BY <1>1
<1>3. "waiting" \notin {"forked"} \cup Programs
  BY HarnessAssumption
<1> QED BY <1>1, <1>2, <1>3 DEF Typed

LEMMA OneTyped ==
  ASSUME Tree, Worldly, NEW p \in Child, NEW s, Typed(s),
         process' = [process EXCEPT ![p] = s],
         \A q \in Process : fds'[q] = fds[q] \/ Table(fds'[q]),
         content' \in Seq(Line), Len(content') <= Capacity
  PROVE  Worldly'
<1>1. \A q \in Child : process'[q] = IF q = p THEN s ELSE process[q]
  BY DEF Tree
<1> QED BY <1>1 DEF Worldly, Table, Typed

LEMMA EndsTyped ==
  ASSUME Tree, Worldly, NEW p \in Child, NEW i \in {"exited", "killed"}, NEW c \in {0, 1},
         Ends(p, i, c)
  PROVE  Worldly'
<1>1. /\ process' = [process EXCEPT ![p] = Ended(i, c)]
      /\ fds' = [fds EXCEPT ![p] = <<>>] /\ content' = content
  BY DEF Ends, Becomes
<1>2. \A q \in Process : fds'[q] = fds[q] \/ Table(fds'[q])
  BY <1>1 DEF Tree, Table
<1>3. content' \in Seq(Line) /\ Len(content') <= Capacity
  BY <1>1 DEF Worldly
<1> QED BY <1>1, <1>2, <1>3, EndedTyped, OneTyped

LEMMA ExecutesTyped ==
  ASSUME Tree, Worldly, NEW p \in Child, NEW a \in Seq(Argument), a # <<>>,
         NEW e \in Seq(Entry), Executes(p, a, e)
  PROVE  Worldly'
<1>1. CASE a[1].text \in Programs
  <2>1. /\ process' = [process EXCEPT ![p] = Running(a[1].text, a, e, 0)]
        /\ fds' = [fds EXCEPT ![p] = AcrossExec(fds[p])] /\ content' = content
    BY <1>1 DEF Executes, Becomes
  <2>2. Typed(Running(a[1].text, a, e, 0))
    BY <1>1, RunningTyped
  <2>3. \A q \in Process : fds'[q] = fds[q] \/ Table(fds'[q])
    <3>1. p \in Process
      BY DEF Process, Child
    <3>2. Table(AcrossExec(fds[p]))
      BY <3>1, TableLess DEF Worldly
    <3> QED BY <2>1, <3>1, <3>2 DEF Tree
  <2>4. content' \in Seq(Line) /\ Len(content') <= Capacity
    BY <2>1 DEF Worldly
  <2> QED BY <2>1, <2>2, <2>3, <2>4, OneTyped
<1>2. CASE a[1].text \notin Programs
  BY <1>2, EndsTyped DEF Executes
<1> QED BY <1>1, <1>2

LEMMA WritesTyped ==
  ASSUME Tree, Worldly, NEW p \in Child, NEW line \in Line, NEW k \in Nat, Writes(p, line, k)
  PROVE  Worldly'
<1>1. /\ process' = [process EXCEPT ![p] = [process[p] EXCEPT !.at = k]]
      /\ fds' = fds
      /\ \/ content' = content
         \/ content' = Append(content, line) /\ Len(content) < Capacity
  BY DEF Writes, Becomes
<1>2. Typed([process[p] EXCEPT !.at = k])
  BY AtTyped DEF Tree, Worldly
<1>3. content' \in Seq(Line) /\ Len(content') <= Capacity
  BY <1>1, AppendProperties, LenProperties, HarnessAssumption DEF Worldly
<1> QED BY <1>1, <1>2, <1>3, OneTyped

(* What the programs say are lines. *)
LEMMA LinesTyped ==
  /\ \A w \in {"started", "option", "under", "tests", Empty}, s \in String : Says(w, s) \in Line
  /\ \A i \in DOMAIN TestOutput : TestOutput[i] \in Line
<1>1. \A w \in {"started", "option", "under", "tests", Empty}, s \in String : Says(w, s) \in Line
  BY DEF Says, Line
<1>2. Empty \in String
  BY InvocationAssumption
<1>3. Says("tests", Empty) \in Line /\ Says(Empty, Empty) \in Line
  BY <1>1, <1>2
<1>4. \A a \in Line, b \in Line : \A i \in DOMAIN <<a, b>> : <<a, b>>[i] \in Line
  OBVIOUS
<1> QED BY <1>1, <1>3, <1>4 DEF TestOutput

LEMMA ProgramsTyped ==
  ASSUME Worldly, NEW p \in Child, process[p].image \in {"forked", "passthrough", "simple_test"}
  PROVE  /\ process[p].argv \in Seq(Argument) /\ process[p].argv # <<>>
         /\ process[p].env \in Seq(Entry) /\ process[p].at \in Nat
BY DEF Worldly, Typed

(* A process that is killed by what it throws has a type. *)
LEMMA FailsTyped ==
  ASSUME Tree, Worldly, NEW p \in Child, Fails(p)
  PROVE  Worldly'
<1>1. /\ process' = [process EXCEPT ![p] = Ended("killed", 0)]
      /\ fds' = [fds EXCEPT ![p] = <<>>] /\ content' = content
  BY DEF Fails
<1>2. \A q \in Process : fds'[q] = fds[q] \/ Table(fds'[q])
  BY <1>1 DEF Tree, Table
<1>3. content' \in Seq(Line) /\ Len(content') <= Capacity
  BY <1>1 DEF Worldly
<1> QED BY <1>1, <1>2, <1>3, EndedTyped, OneTyped

LEMMA PassthroughTyped ==
  ASSUME Tree, Worldly, NEW p \in Child, Passthrough(p)
  PROVE  Worldly'
<1> DEFINE s == process[p]
           argv == s.argv
<1>1. p \in Process /\ p \in Nat
  BY DEF Process, Child
<1>2. CASE PassthroughStarts(p)
  <2>1. Says("started", Empty) \in Line
    BY LinesTyped, InvocationAssumption
  <2> QED BY <1>2, <2>1, WritesTyped DEF PassthroughStarts
<1>3. ASSUME Looking(p) PROVE /\ argv \in Seq(Argument) /\ argv # <<>> /\ s.env \in Seq(Entry)
                              /\ s.at \in 2 .. Len(argv) /\ Argv(p).text \in String
  <2>1. argv \in Seq(Argument) /\ argv # <<>> /\ s.env \in Seq(Entry) /\ s.at \in 2 .. Len(argv)
    BY <1>3, ProgramsTyped DEF Looking
  <2>2. argv[s.at] \in Argument
    <3>1. s.at \in 1 .. Len(argv)
      BY <2>1
    <3> QED BY <2>1, <3>1, ElementOfSeq
  <2> QED BY <2>1, <2>2 DEF Argv, Argument
<1>4. CASE PassthroughPrintsOption(p)
  <2>1. Says("option", Argv(p).text) \in Line /\ s.at + 1 \in Nat
    BY <1>3, <1>4, LinesTyped DEF PassthroughPrintsOption
  <2> QED BY <1>4, <2>1, WritesTyped DEF PassthroughPrintsOption
<1>5. CASE PassthroughForks(p)
  <2> DEFINE rest == SubSeq(argv, s.at, Len(argv))
             w == [s EXCEPT !.image = "waiting"]
             c == Running("forked", rest, s.env, 0)
  <2>1. /\ p < MaxProcess /\ content' = content
        /\ fds' = [fds EXCEPT ![p + 1] = fds[p]]
        /\ process' = [process EXCEPT ![p].image = "waiting", ![p + 1] = c]
    BY <1>5 DEF PassthroughForks, Forks
  <2>2. argv \in Seq(Argument) /\ s.env \in Seq(Entry) /\ s.at \in 2 .. Len(argv)
    BY <1>3, <1>5 DEF PassthroughForks
  <2>3. rest \in Seq(Argument) /\ rest # <<>>
    <3> DEFINE k == s.at
               n == Len(argv)
               a == argv
    <3>1. a \in Seq(Argument) /\ k \in Int /\ n \in Int /\ k <= n
      BY <2>2, LenProperties
    <3>2. \A i \in k .. n : a[i] \in Argument
      <4>1. \A i \in k .. n : i \in 1 .. n
        BY <2>2
      <4> QED BY <2>2, <4>1, ElementOfSeq
    <3> HIDE DEF k, n, a
    <3>3. SubSeq(a, k, n) \in Seq(Argument) /\ Len(SubSeq(a, k, n)) = n - k + 1
      BY <3>1, <3>2, SubSeqProperties
    <3>4. Len(SubSeq(a, k, n)) # 0
      BY <3>1, <3>3
    <3>5. SubSeq(a, k, n) # <<>>
      BY <3>4, EmptySeq
    <3> QED BY <3>3, <3>5 DEF a, k, n
  <2>4. Typed(c)
    <3> HIDE DEF rest
    <3> QED BY <2>2, <2>3, RunningTyped
  <2>5. Typed(w)
    BY WaitingTyped DEF Tree, Worldly
  <2>6. p + 1 \in Child /\ p + 1 \in Process /\ p # p + 1
    BY <1>1, <2>1, HarnessAssumption DEF Child, Process
  <2>7. \A q \in Child : process'[q] = IF q = p THEN w ELSE IF q = p + 1 THEN c ELSE process[q]
    BY <1>1, <2>1, <2>6 DEF Tree
  <2>8. \A q \in Process : fds'[q] = IF q = p + 1 THEN fds[p] ELSE fds[q]
    BY <2>1, <2>6 DEF Tree
  <2> HIDE DEF w, c
  <2>9. \A q \in Child : Typed(process'[q])
    BY <2>4, <2>5, <2>7 DEF Worldly
  <2>10. \A q \in Process : Table(fds'[q])
    BY <1>1, <2>8 DEF Worldly
  <2> QED BY <2>1, <2>9, <2>10 DEF Worldly, Typed, Table
<1>6. CASE PassthroughCannotFork(p)
  BY <1>6, FailsTyped DEF PassthroughCannotFork
<1>7. CASE PassthroughWaits(p)
  <2> DEFINE e == process[p + 1]
  <2>1. /\ process' = [process EXCEPT ![p] = e, ![p + 1] = NoProcess]
        /\ fds' = [fds EXCEPT ![p] = <<>>] /\ content' = content
        /\ p + 1 \in Child
    BY <1>7 DEF PassthroughWaits, Tree
  <2>2. \A q \in Child : process'[q] = IF q = p + 1 THEN NoProcess
                                      ELSE IF q = p THEN e ELSE process[q]
    BY <1>1, <2>1 DEF Tree
  <2>3. \A q \in Child : Typed(process'[q])
    BY <2>1, <2>2, NoProcessTyped DEF Worldly
  <2>4. \A q \in Process : Table(fds'[q])
    BY <2>1 DEF Tree, Table, Worldly
  <2> QED BY <2>1, <2>3, <2>4 DEF Worldly, Typed, Table
<1>8. CASE PassthroughFindsNoProgram(p)
  BY <1>8, EndsTyped DEF PassthroughFindsNoProgram
<1> QED BY <1>2, <1>4, <1>5, <1>6, <1>7, <1>8 DEF Passthrough

LEMMA TargetTyped ==
  ASSUME Tree, Worldly, NEW p \in Child, Target(p)
  PROVE  Worldly'
<1> DEFINE argv == process[p].argv
           env == process[p].env
<1>1. argv \in Seq(Argument) /\ argv # <<>> /\ env \in Seq(Entry) /\ process[p].at \in Nat
  BY ProgramsTyped DEF Target, TargetAnnounces, TargetRunsPlain, TargetRelaunches,
                       TargetRejectsOptions, TargetRunsTests, TargetEnds, Runs
<1>2. CASE TargetAnnounces(p)
  <2>1. Request(p).name \in String
    <3>1. IsActive(env) /\ Request(p).name = ActiveTool(env)
      BY <1>2 DEF TargetAnnounces, Request, RequestOf
    <3> QED BY <1>1, <3>1, ActiveTyped
  <2>2. Says("under", Request(p).name) \in Line
    BY <2>1, LinesTyped
  <2> QED BY <1>2, <2>2, WritesTyped DEF TargetAnnounces
<1>3. CASE TargetRunsPlain(p)
  <2>1. /\ process' = [process EXCEPT ![p] = [process[p] EXCEPT !.at = 1]]
        /\ fds' = fds /\ content' = content
    BY <1>3 DEF TargetRunsPlain, Becomes
  <2>2. Typed([process[p] EXCEPT !.at = 1])
    BY AtTyped DEF Tree, Worldly
  <2>3. content' \in Seq(Line) /\ Len(content') <= Capacity
    BY <2>1 DEF Worldly
  <2> QED BY <2>1, <2>2, <2>3, OneTyped
<1>4. CASE TargetRelaunches(p)
  <2> DEFINE args == WithoutFlags(argv)
             tool == ParseOptionsToTool(args)
  <2>1. args \in Seq(Argument) /\ args # <<>> /\ tool \in Tool
    BY <1>1, NoFlags, ParsesToTool
  <2>2. \/ Executes(p, BuildCommandLine(args, tool), GetToolEnv(env, tool))
        \/ Ends(p, "killed", 0)
    BY <1>4 DEF TargetRelaunches
  <2> HIDE DEF args, tool, env
  <2>3. /\ BuildCommandLine(args, tool) \in Seq(Argument) /\ BuildCommandLine(args, tool) # <<>>
        /\ GetToolEnv(env, tool) \in Seq(Entry)
    BY <1>1, <2>1, CommandTyped, EnvironTyped
  <2> QED BY <2>2, <2>3, ExecutesTyped, EndsTyped
<1>5. CASE TargetRejectsOptions(p) \/ TargetEnds(p)
  BY <1>5, EndsTyped DEF TargetRejectsOptions, TargetEnds
<1>6. CASE TargetRunsTests(p)
  <2>1. TestOutput[process[p].at] \in Line /\ process[p].at + 1 \in Nat
    BY <1>1, <1>6, LinesTyped DEF TargetRunsTests
  <2> QED BY <1>6, <2>1, WritesTyped DEF TargetRunsTests
<1> QED BY <1>2, <1>3, <1>4, <1>5, <1>6 DEF Target

LEMMA ChildTyped ==
  ASSUME Tree, HInv, NEW p \in Child, ChildStep(p)
  PROVE  HInv'
<1>1. Worldly'
  <2>1. CASE ExecutesForked(p)
    BY <2>1, ProgramsTyped, ExecutesTyped DEF ExecutesForked, HInv
  <2>2. CASE CannotExecute(p)
    BY <2>2, FailsTyped DEF CannotExecute, HInv
  <2> QED BY <2>1, <2>2, PassthroughTyped, TargetTyped DEF ChildStep, HInv
<1>2. UNCHANGED <<suite, test, harness, launches>>
  BY ChildrenApart DEF Tree
<1>3. failed' \in BOOLEAN
  BY DEF HInv, Own, ChildStep, ExecutesForked, Executes, Passthrough, PassthroughStarts,
         PassthroughPrintsOption, PassthroughForks, PassthroughCannotFork, PassthroughWaits,
         CannotExecute, Fails, PassthroughFindsNoProgram, Target, TargetAnnounces, TargetRunsPlain, TargetRelaunches,
         TargetRejectsOptions, TargetRunsTests, TargetEnds, Writes, Ends, Becomes
<1>4. Own'
  BY <1>2, <1>3 DEF HInv, Own, harness, Threw
<1> QED BY <1>1, <1>4 DEF HInv

(* A step of the harness's own changes its table of descriptors only, *)
LEMMA OwnTable ==
  ASSUME Worldly, \A q \in Process : fds'[q] = fds[q] \/ Table(fds'[q]),
         process' = process, content' = content
  PROVE  Worldly'
BY DEF Worldly, Table, Typed

(* which stays one. *)
LEMMA HarnessTables ==
  ASSUME PInv, HInv, HarnessStep
  PROVE  Worldly'
<1> DEFINE t == fds[1]
<1>1. 1 \in Process /\ DOMAIN fds = Process /\ Table(t)
  BY HarnessAssumption DEF Process, PInv, Tree, HInv, Worldly
<1>2. ASSUME NEW u, Table(u), fds' = [fds EXCEPT ![1] = u]
      PROVE  \A q \in Process : fds'[q] = fds[q] \/ Table(fds'[q])
  BY <1>1, <1>2
<1>3. ASSUME NEW u, Table(u), fds' = [fds EXCEPT ![1] = u], process' = process, content' = content
      PROVE  Worldly'
  BY <1>2, <1>3, OwnTable DEF HInv
<1>4. CASE OpenPipe
  <2> DEFINE r == Lowest(Free(t))
             w == Lowest(Free(t) \ {r})
             u == With(With(t, r, End("read"), TRUE), w, End("write"), TRUE)
  <2>1. Cardinality(Free(t)) >= 2
    BY <1>4 DEF OpenPipe
  <2>2. r \in Free(t) /\ w \in Free(t)
    <3> HIDE DEF r, w
    <3> QED BY <2>1, TwoDescriptors DEF r, w
  <2>3. /\ fds' = [fds EXCEPT ![1] = u] /\ process' = process /\ content' = <<>>
    BY <1>4 DEF OpenPipe
  <2> HIDE DEF r, w
  <2>4. r \in 0 .. MaxFd - 1 /\ w \in 0 .. MaxFd - 1
    BY <2>2 DEF Free
  <2>5. End("read").of \in Files /\ End("write").of \in Files
    BY DEF End, Files
  <2>6. Table(With(t, r, End("read"), TRUE))
    BY <1>1, <2>4, <2>5, TableWith
  <2>7. Table(u)
    BY <2>4, <2>5, <2>6, TableWith
  <2> HIDE DEF u
  <2>8. content' \in Seq(Line) /\ Len(content') <= Capacity
    BY <2>3, EmptySeq, HarnessAssumption
  <2>9. \A q \in Process : fds'[q] = fds[q] \/ Table(fds'[q])
    BY <1>2, <2>3, <2>7
  <2> QED BY <2>3, <2>8, <2>9 DEF HInv, Worldly, Table, Typed
<1>5. CASE BackUp
  <2> DEFINE b == Lowest(Free(t))
  <2>1. b \in Free(t)
    BY <1>5, FreeIsFinite, LowestIsLowest DEF BackUp
  <2>2. 1 \in DOMAIN t
    BY <1>5 DEF BackUp, At, PInv, IInv, Redirection, Redirected, Whole
  <2>3. b \in 0 .. MaxFd - 1
    BY <2>1 DEF Free
  <2>4. fds' = [fds EXCEPT ![1] = Dup2(t, 1, b)] /\ process' = process /\ content' = content
    BY <1>5 DEF BackUp
  <2> HIDE DEF b
  <2> QED BY <1>1, <1>3, <2>2, <2>3, <2>4, TableDup
<1>6. CASE CloseStdout
  <2>1. /\ fds' = [fds EXCEPT ![1] = Without(t, 1)] /\ process' = process /\ content' = content
    BY <1>6 DEF CloseStdout
  <2> QED BY <1>1, <1>3, <2>1, TableLess
<1>7. CASE Redirect
  <2>1. /\ fds' = [fds EXCEPT ![1] = Dup2(t, pipe.write, 1)]
        /\ process' = process /\ content' = content /\ pipe.write \in DOMAIN t
    BY <1>7 DEF Redirect, At, PInv, WriteEnds
  <2>2. 1 \in 0 .. MaxFd - 1
    BY HarnessAssumption
  <2> QED BY <1>1, <1>3, <2>1, <2>2, TableDup
<1>8. CASE Fork
  <2> DEFINE c == Running("forked", Current.args, Current.env, 0)
  <2>1. /\ fds' = [fds EXCEPT ![2] = t] /\ content' = content
        /\ process' = [process EXCEPT ![2] = c]
    BY <1>8 DEF Fork, Forks
  <2>2. suite \in Suites /\ test \in 1 .. Len(suite)
    BY <1>8 DEF Fork, At, HInv, Own
  <2>3. Typed(c)
    BY <2>2, TestsTyped, RunningTyped DEF Current
  <2>4. \A q \in Process : fds'[q] = fds[q] \/ fds'[q] = t
    BY <1>1, <2>1
  <2> HIDE DEF c
  <2>5. \A q \in Child : process'[q] = process[q] \/ process'[q] = c
    BY <2>1 DEF PInv, Tree
  <2> QED BY <1>1, <2>1, <2>3, <2>4, <2>5 DEF HInv, Worldly, Table, Typed
<1>9. CASE CloseWriteEnd
  <2> DEFINE u == IF pipe.write # 0 THEN Without(t, pipe.write) ELSE t
  <2>1. fds' = [fds EXCEPT ![1] = u] /\ process' = process /\ content' = content
    BY <1>9 DEF CloseWriteEnd
  <2>2. Table(u)
    BY <1>1, TableLess
  <2> HIDE DEF u
  <2> QED BY <1>3, <2>1, <2>2
<1>10. CASE Restore
  <2>1. /\ fds' = [fds EXCEPT ![1] = IF backup # 0 THEN Dup2(t, backup, 1) ELSE t]
        /\ process' = process /\ content' = content /\ backup \in DOMAIN t /\ backup # 0
    BY <1>10 DEF Restore, At, PInv, IInv, Redirection, Redirected, Saved
  <2>2. 1 \in 0 .. MaxFd - 1
    BY HarnessAssumption
  <2>3. Table(Dup2(t, backup, 1))
    BY <1>1, <2>1, <2>2, TableDup
  <2> QED BY <1>3, <2>1, <2>3
<1>11. CASE Wait
  <2>1. fds' = fds /\ content' = content /\ process' = [process EXCEPT ![2] = NoProcess]
    BY <1>11 DEF Wait
  <2>2. \A q \in Child : process'[q] = process[q] \/ process'[q] = NoProcess
    BY <2>1 DEF PInv, Tree
  <2> QED BY <2>1, <2>2, NoProcessTyped DEF HInv, Worldly, Table, Typed
<1>12. CASE ReadLine
  <2>1. fds' = fds /\ process' = process /\ content' = Tail(content) /\ content # <<>>
    BY <1>12 DEF ReadLine
  <2>2. content' \in Seq(Line) /\ Len(content') <= Capacity
    BY <2>1, EmptySeq, LenProperties, HeadTailProperties, HarnessAssumption DEF HInv, Worldly
  <2> QED BY <2>1, <2>2 DEF HInv, Worldly, Table, Typed
<1>13. CASE ClosePipe
  <2> DEFINE u == [d \in DOMAIN t \ ({pipe.read, pipe.write} \ {0}) |-> t[d]]
  <2>1. fds' = [fds EXCEPT ![1] = u] /\ process' = process /\ content' = content
    BY <1>13 DEF ClosePipe
  <2>2. Table(u)
    BY <1>1, TableLess
  <2> HIDE DEF u
  <2> QED BY <1>3, <2>1, <2>2
<1>14. CASE PipeFails \/ BackupFails \/ ForkFails \/ ReadEnds \/ NextTest
  <2>1. fds' = fds /\ process' = process /\ content' = content
    BY <1>14 DEF PipeFails, BackupFails, ForkFails, ReadEnds, NextTest, world
  <2> QED BY <2>1, OwnTable DEF HInv
<1> QED BY <1>4, <1>5, <1>6, <1>7, <1>8, <1>9, <1>10, <1>11, <1>12, <1>13, <1>14
        DEF HarnessStep

(* The rest of what the harness knows.  A launch is counted in the test that  *)
(* backs its output up, and there is one place for that in a test.            *)
LEMMA HarnessOwns ==
  ASSUME PInv, HInv, HarnessStep
  PROVE  Own'
<1> USE DEF HInv, Own
<1>1. Len(suite) \in Nat
  BY HarnessAssumption, LenProperties
<1>2. Threw.is = "threw" /\ Threw.code = 0 /\ None.is = "none" /\ None.code = 0 /\ None # Threw
  BY DEF Threw, None
<1>3. CASE OpenPipe
  <2>1. /\ UNCHANGED <<suite, test, backup, result, lines, failed, launches>>
        /\ pc = "fixture" /\ pc' = "backup" /\ test <= Len(suite)
    BY <1>3 DEF OpenPipe, At
  <2> QED BY <2>1
<1>4. CASE PipeFails \/ BackupFails \/ ForkFails
  <2>1. /\ UNCHANGED <<suite, test, backup, lines, launches>> /\ test <= Len(suite)
        /\ failed' = TRUE /\ result' = [is |-> "threw", code |-> 0]
        /\ pc' \in {"report", "unfixture", "unredirect"}
    BY <1>4 DEF PipeFails, BackupFails, ForkFails, At, Threw
  <2> QED BY <2>1 DEF Threw
<1>5. CASE BackUp
  <2> DEFINE b == Lowest(Free(fds[1]))
  <2>1. b \in Free(fds[1])
    BY <1>5, FreeIsFinite, LowestIsLowest DEF BackUp
  <2>2. b \in 0 .. MaxFd - 1
    BY <2>1 DEF Free
  <2>3. /\ UNCHANGED <<suite, test, result, lines, failed>> /\ test <= Len(suite)
        /\ backup' = b /\ launches' = launches + 1 /\ pc = "backup" /\ pc' = "close"
    BY <1>5 DEF BackUp, At
  <2> HIDE DEF b
  <2> QED BY <2>2, <2>3
<1>6. CASE CloseStdout \/ Redirect
  <2>1. /\ UNCHANGED <<suite, test, backup, result, lines, failed, launches>>
        /\ pc \in {"close", "redirect"} /\ pc' \in {"redirect", "fork"}
    BY <1>6 DEF CloseStdout, Redirect, At
  <2> QED BY <2>1
<1>7. CASE Fork
  <2>1. /\ UNCHANGED <<suite, test, backup, result, lines, failed, launches>>
        /\ pc = "fork" /\ pc' = "unredirect" /\ 1 < MaxProcess
    BY <1>7 DEF Fork, Forks, At
  <2>2. 2 \in Child
    BY <2>1, HarnessAssumption DEF Child
  <2>3. Child' = Child
    BY DEF Child
  <2> QED BY <2>1, <2>2, <2>3
<1>8. CASE CloseWriteEnd \/ Restore
  <2>1. /\ UNCHANGED <<suite, test, backup, result, lines, failed, launches>>
        /\ pc \in {"unredirect", "restore"}
        /\ pc' = "restore" \/ (pc' = IF result = Threw THEN "unfixture" ELSE "wait")
    BY <1>8 DEF CloseWriteEnd, Restore, At
  <2> QED BY <2>1 DEF Threw
<1>9. CASE Wait
  <2>1. /\ UNCHANGED <<suite, test, backup, lines, failed, launches>>
        /\ pc = "wait" /\ pc' \in {"read", "unfixture"}
        /\ result' = Threw \/ result' = Returned(process[2].code)
    BY <1>9 DEF Wait, At
  <2>2. result # Threw
    BY <2>1, <1>2 DEF PInv, Launched
  <2>3. process[2].code \in {0, 1}
    BY <2>1, <2>2 DEF Worldly, Typed
  <2>4. result'.is \in {"threw", "returned"} /\ result'.code \in {0, 1}
    BY <2>1, <2>3, <1>2 DEF Returned
  <2> QED BY <2>1, <2>4
<1>10. CASE ReadLine
  <2>1. /\ UNCHANGED <<suite, test, pc, backup, result, failed, launches>> /\ pc = "read"
        /\ content # <<>> /\ (lines' = lines \/ lines' = Append(lines, Head(content)))
    BY <1>10 DEF ReadLine, At
  <2>2. Head(content) \in Line
    BY <2>1, HeadTailProperties DEF Worldly
  <2>3. lines' \in Seq(Line)
    BY <2>1, <2>2, AppendProperties
  <2> QED BY <2>1, <2>3
<1>11. CASE ReadEnds \/ ClosePipe
  <2>1. /\ UNCHANGED <<suite, test, backup, result, lines, failed, launches>>
        /\ pc \in {"read", "unfixture"} /\ pc' \in {"unfixture", "report"}
    BY <1>11 DEF ReadEnds, ClosePipe, At
  <2> QED BY <2>1
<1>12. CASE NextTest
  <2>1. /\ UNCHANGED <<suite, launches>> /\ pc = "report" /\ pc' = "fixture"
        /\ test' = test + 1 /\ test <= Len(suite) /\ backup' = 0
        /\ result' = None /\ lines' = <<>> /\ failed' = FALSE
    BY <1>12 DEF NextTest, At
  <2>2. lines' \in Seq(Line) /\ backup' \in 0 .. MaxFd - 1 /\ failed' \in BOOLEAN
    <3>1. <<>> \in Seq(Line) /\ 0 \in 0 .. MaxFd - 1
      BY EmptySeq, HarnessAssumption
    <3>2. failed' \in BOOLEAN
      BY <2>1
    <3> QED BY <2>1, <3>1, <3>2
  <2>3. result'.is \in {"none", "threw", "returned"} /\ result'.code \in {0, 1}
    BY <2>1, <1>2
  <2>4. suite' \in Suites /\ test' \in 1 .. Len(suite') + 1
    BY <1>1, <2>1
  <2>5. launches' \in Nat /\ launches' <= test' /\ launches' < test'
    BY <1>1, <2>1
  <2> HIDE DEF HInv
  <2> QED BY <2>1, <2>2, <2>3, <2>4, <2>5
<1> QED BY <1>3, <1>4, <1>5, <1>6, <1>7, <1>8, <1>9, <1>10, <1>11, <1>12 DEF HarnessStep

LEMMA InitHarness == Init => HInv
<1> SUFFICES ASSUME Init PROVE HInv
  OBVIOUS
<1>1. PICK others \in Inherited :
        atStart = [d \in others \cup {1, 2} |->
                     [file |-> IF d = 1 THEN Stdout
                               ELSE IF d = 2 THEN File("stderr") ELSE File("other"),
                      cloexec |-> FALSE]]
  BY DEF Init
<1>2. others \subseteq 0 .. MaxFd - 1 /\ MaxFd \in Nat /\ MaxFd >= 3 /\ Capacity \in Nat
  BY HarnessAssumption
<1>3. Table(atStart)
  <2>1. DOMAIN atStart = others \cup {1, 2}
    BY <1>1
  <2>2. DOMAIN atStart \subseteq 0 .. MaxFd - 1
    BY <1>2, <2>1
  <2>3. \A d \in DOMAIN atStart : atStart[d].file.of \in Files /\ atStart[d].cloexec = FALSE
    <3>1. Stdout.of \in Files /\ File("stderr").of \in Files /\ File("other").of \in Files
      BY DEF Stdout, File, Files
    <3> QED BY <1>1, <2>1, <3>1
  <2> QED BY <2>2, <2>3 DEF Table
<1>4. \A p \in Process : Table(fds[p])
  <2>1. \A p \in Process : fds[p] = IF p = 1 THEN atStart ELSE <<>>
    BY DEF Init
  <2>2. Table(<<>>)
    BY DEF Table
  <2> QED BY <1>3, <2>1, <2>2
<1>5. \A p \in Child : process[p] = NoProcess
  BY DEF Init
<1>6. content \in Seq(Line) /\ Len(content) <= Capacity /\ lines \in Seq(Line)
  BY <1>2, EmptySeq DEF Init
<1>7. Worldly
  BY <1>4, <1>5, <1>6, NoProcessTyped DEF Worldly
<1>8. Len(suite) \in Nat
  BY HarnessAssumption, LenProperties DEF Init
<1>9. Own
  <2>1. /\ suite \in Suites /\ test = 1 /\ pc = "fixture" /\ launches = 0 /\ backup = 0
        /\ failed = FALSE /\ result.is = "none" /\ result.code = 0
    BY DEF Init, None
  <2>2. test \in 1 .. Len(suite) + 1 /\ backup \in 0 .. MaxFd - 1 /\ failed \in BOOLEAN
    <3>1. 1 \in 1 .. Len(suite) + 1 /\ 0 \in 0 .. MaxFd - 1
      BY <1>2, <1>8
    <3>2. failed \in BOOLEAN
      BY <2>1
    <3> QED BY <2>1, <3>1, <3>2
  <2>3. launches \in Nat /\ launches < test /\ launches <= test
    BY <2>1
  <2> QED BY <1>6, <2>1, <2>2, <2>3 DEF Own
<1> QED BY <1>7, <1>9 DEF HInv

(* The harness's descriptors and those of what it launches are descriptors,   *)
(* the pipe never holds more than it can, a result is that of an exit or an   *)
(* exception, and there are no more launches than tests.                      *)
THEOREM TypesOfHarness == Spec => []TypeOK
<1>1. PInv /\ HInv => TypeOK
  <2> SUFFICES ASSUME PInv, HInv PROVE TypeOK
    OBVIOUS
  <2>1. launches \in 0 .. Len(suite)
    <3>1. Len(suite) \in Nat
      BY HarnessAssumption, LenProperties DEF HInv, Own
    <3> QED BY <3>1 DEF HInv, Own
  <2>2. Shape
    BY DEF PInv, IInv
  <2> QED BY <2>1, <2>2 DEF HInv, Own, Worldly, Table, Files, Typed, Shape, Places, TypeOK
<1>2. PInv /\ HInv /\ [Next]_vars => HInv'
  <2> SUFFICES ASSUME PInv, HInv, [Next]_vars PROVE HInv'
    OBVIOUS
  <2>1. CASE HarnessStep
    BY <2>1, HarnessTables, HarnessOwns DEF HInv
  <2>2. CASE \E p \in Child : ChildStep(p)
    BY <2>2, ChildTyped DEF PInv
  <2>3. CASE Finished \/ UNCHANGED vars
    BY <2>3 DEF Finished, vars, harness, world, HInv, Own, Worldly, Table, Typed, Threw
  <2> QED BY <2>1, <2>2, <2>3 DEF Next
<1> QED BY <1>1, <1>2, InitLaunch, StepLaunch, InitHarness, PTL DEF Spec

=============================================================================
