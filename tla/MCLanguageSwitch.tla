------------------------- MODULE MCLanguageSwitch -------------------------
(***************************************************************************)
(* The calls of the model-checked instance of LanguageSwitch: each flow    *)
(* with the events whose interleaving it is about, instead of one large    *)
(* product of all of them.                                                 *)
(***************************************************************************)
EXTENDS LanguageSwitch

Call(f, n, h, k, d) ==
  [flow |-> f, mode |-> "active", turns |-> n, segments |-> h, tools |-> k, drops |-> d]

MCScenarios ==
  {Call("judge", 1, 1, 0, 1),     \* a decision while a connection drops
   Call("judge", 0, 0, 0, 2),     \* reconnects up to their cap
   Call("judge", 2, 1, 0, 0),     \* two turns contend for the lock and the gate
   Call("judge", 1, 2, 0, 0),     \* new speech while a stale decision waits
   Call("dead", 1, 1, 1, 0),      \* the tool behind a decision
   Call("legacy", 0, 0, 1, 0),    \* the tool and the heuristic, no lock
   [Call("legacy", 0, 0, 1, 0) EXCEPT !.mode = "shadow"]}

\* Only the heuristic, with a recognizer whose language has no voice.
HeuristicOnly == {Call("legacy", 0, 0, 0, 0)}
=============================================================================
