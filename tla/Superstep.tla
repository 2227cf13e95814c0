------------------------------ MODULE Superstep ------------------------------
(***************************************************************************)
(* What the framework promises of one synchronous run: M workers go through *)
(* N iterations; in each one a worker computes its subgraph and then        *)
(* exchanges blocks with every other worker.  A worker begins an iteration  *)
(* only when all of them have left the previous one, and leaves an          *)
(* iteration only when all of them have computed it.                        *)
(***************************************************************************)
EXTENDS Naturals

CONSTANTS M,  (* number of workers, one interval of the graph each *)
          N   (* number of iterations, the option niters           *)

VARIABLES round,  (* round[w]: iterations w has left *)
          stage   (* stage[w]: where w is in its current iteration *)

vars == <<round, stage>>

Worker == 0 .. M - 1

Init == /\ round = [w \in Worker |-> 0]
        /\ stage = [w \in Worker |-> "idle"]

Begin(w) ==
  /\ stage[w] = "idle" /\ round[w] < N
  /\ \A j \in Worker : round[j] = round[w]
  /\ stage' = [stage EXCEPT ![w] = "computing"]
  /\ UNCHANGED round

Computed(w) ==
  /\ stage[w] = "computing"
  /\ stage' = [stage EXCEPT ![w] = "exchanging"]
  /\ UNCHANGED round

Leave(w) ==
  /\ stage[w] = "exchanging"
  /\ \A j \in Worker : \/ round[j] = round[w] + 1
                       \/ round[j] = round[w] /\ stage[j] = "exchanging"
  /\ round' = [round EXCEPT ![w] = @ + 1]
  /\ stage' = [stage EXCEPT ![w] = "idle"]

Next == \E w \in Worker : Begin(w) \/ Computed(w) \/ Leave(w)

Spec == Init /\ [][Next]_vars

FairSpec == Spec /\ WF_vars(Next)

=============================================================================
