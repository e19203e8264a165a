------------------------------- MODULE TestRun -------------------------------
(***************************************************************************)
(* What invoking a test program linked to yiqi_main comes to, without the  *)
(* steps it takes.  The tests run once: as they are, or inside the wrapper *)
(* of the tool that was asked for and under a header that names the tool.  *)
(* An invocation that asks for a tool with a wrapper may fail instead, one *)
(* that asks for nothing meaningful does, and then no test runs.           *)
(***************************************************************************)
CONSTANTS
  Silent   \* no header

VARIABLES
  request,  \* what is asked for, and the name the header will show
  stage,    \* "asked", "wrapped" (the wrapper has taken over), "ran", "failed"
  header    \* the name the header showed, or Silent

vars == <<request, stage, header>>

Init ==
  /\ request.is \in {"plain", "inherited", "instrumented", "malformed"}
  /\ stage = "asked"
  /\ header = Silent

Wrap ==
  /\ request.is = "instrumented"
  /\ stage = "asked"
  /\ stage' = "wrapped"
  /\ UNCHANGED <<request, header>>

(* The header comes before the tests do. *)
Announce ==
  /\ \/ stage = "asked" /\ request.is = "inherited"
     \/ stage = "wrapped"
  /\ header = Silent
  /\ header' = request.name
  /\ UNCHANGED <<request, stage>>

Run ==
  /\ \/ stage = "asked" /\ request.is \in {"plain", "inherited"}
     \/ stage = "wrapped"
  /\ header = request.name
  /\ stage' = "ran"
  /\ UNCHANGED <<request, header>>

Fail ==
  /\ \/ stage = "asked" /\ request.is \in {"instrumented", "malformed"}
     \/ stage = "wrapped" /\ header = Silent
  /\ stage' = "failed"
  /\ UNCHANGED <<request, header>>

Next == Wrap \/ Announce \/ Run \/ Fail

Spec == Init /\ [][Next]_vars /\ WF_vars(Next)
=============================================================================
