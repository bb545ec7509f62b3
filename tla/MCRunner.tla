------------------------------ MODULE MCRunner ------------------------------
(***************************************************************************)
(* Instances of Runner for TLC.                                            *)
(***************************************************************************)
EXTENDS RunnerProperties, TLC

CONSTANTS r1, r2, r3, c1, c2

StartAndStop == c1 :> "start" @@ c2 :> "stop"
TwoStarts == c1 :> "start" @@ c2 :> "start"

\* A start and a stop meet a serving runner; two starts meet a dead one's files.
Races ==
  {[first |-> "serving", op |-> StartAndStop],
   [first |-> "serving", op |-> c2 :> "start" @@ c1 :> "stop"],
   [first |-> "died starting", op |-> TwoStarts]}

\* A crash, a save that comes to nothing or a sweep of one file, and no two of them;
\* the start over a dead runner's files has had its crash.  A sweep of the liveness
\* file is the last that happens: nothing is promised after it.
OneFault ==
  /\ LiveKept
  /\ crashes + losses + sweeps.lock + sweeps.live + sweeps.record + sweeps.socket + sweeps.error <= 1

Symmetry == Permutations({r2, r3}) \cup Permutations({c1, c2})
=============================================================================
