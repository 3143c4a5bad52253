------------------------ MODULE UnboxingProfitability ------------------------
(***************************************************************************)
(* What the unboxing fixpoint of the fixup phase promises (spec.md 4.4),  *)
(* stated without blocks, sweeps or a "changed" flag.                      *)
(*                                                                         *)
(* A variable becomes profitable to unbox only when something justifies   *)
(* it: a use observed by the main node pass (a seed), a write of an       *)
(* already profitable variable whose stored value is read from it (a      *)
(* flow <<w, v>>: once w is unboxed, its SetLocal's use of v makes v      *)
(* profitable), or a variable sharing its argument position with a        *)
(* profitable one.  The phase finishes only when every justified variable *)
(* is marked, i.e. with the least set closed under the three rules, and   *)
(* it does finish.                                                         *)
(*                                                                         *)
(* seeds and flows are read off the compiled graph and never change; they *)
(* are variables so that a refinement mapping can compute them from the   *)
(* detailed model's state.                                                 *)
(***************************************************************************)
CONSTANTS Vars, ArgumentPositions

VARIABLES profitable, finished, seeds, flows

vars == <<profitable, finished, seeds, flows>>

Justified ==
    seeds
    \cup {f[2] : f \in {g \in flows : g[1] \in profitable}}
    \cup UNION {A \in ArgumentPositions : A \cap profitable # {}}

Init ==
    /\ seeds \subseteq Vars
    /\ flows \subseteq Vars \X Vars
    /\ profitable = {}
    /\ finished = FALSE

\* Some justified variables become profitable; flags only ever go up.
Mark ==
    /\ ~finished
    /\ \E S \in SUBSET (Justified \ profitable) :
          /\ S # {}
          /\ profitable' = profitable \cup S
    /\ UNCHANGED <<finished, seeds, flows>>

\* The phase returns once nothing justified is left unmarked.
Finish ==
    /\ ~finished
    /\ Justified \subseteq profitable
    /\ finished' = TRUE
    /\ UNCHANGED <<profitable, seeds, flows>>

Next == Mark \/ Finish

Spec == Init /\ [][Next]_vars /\ WF_vars(Next)
=============================================================================
