---------------------------- MODULE MCWorkerLoop ----------------------------
(* WorkerLoop on a small instance. *)
EXTENDS WorkerLoop, TLC

\* The same kinds of tasks, up to the names of the jobs, which no action uses:
\* one assignment for each choice of kinds stands for all of them.
Renamed(k) == { [j \in Job |-> k[p[j]]] : p \in Permutations(Job) }
KindChoices == { CHOOSE l \in Renamed(k) : TRUE : k \in [Job -> Kind] }

=============================================================================
