---------------------------- MODULE PromptRuntime ----------------------------
(* What the runtime of a structured pane promises the sender of a prompt whose *)
(* fate is reported (internal/structured, Options.OnTurn): it takes a prompt   *)
(* while the pane lives, runs one at a time, and reports of each that it began *)
(* and how it ended, or that it was lost before, once; a pane that has ended   *)
(* stays ended, and keeps no prompt waiting.                                   *)
(*                                                                             *)
(* StructuredTurns, with its locks, its goroutines and the agent, implements   *)
(* this; promptService of internal/workspace relies on it.                     *)
EXTENDS Sequences

CONSTANT Prompts   \* the prompts whose sender is told what becomes of them

VARIABLES
    where,  \* of each prompt, where it is
    told,   \* what was reported of it
    ended   \* the pane is in a final phase

vars == <<where, told, ended>>

Init ==
    /\ where = [p \in Prompts |-> "unsent"]
    /\ told = [p \in Prompts |-> <<>>]
    /\ ended = FALSE

Waiting == {p \in Prompts : where[p] = "waiting"}
Put(S, place) == where' = [p \in Prompts |-> IF p \in S THEN place ELSE where[p]]
Tell(p, what) == told' = [told EXCEPT ![p] = Append(@, what)]

\* The prompt is taken, behind the ones that wait.
Take(p) ==
    /\ where[p] = "unsent" /\ ~ ended
    /\ Put({p}, "waiting")
    /\ UNCHANGED <<told, ended>>

\* Its turn comes, when no other is running.
Start(p) ==
    /\ where[p] = "waiting" /\ ~ ended
    /\ \A q \in Prompts : where[q] # "running"
    /\ Put({p}, "running")
    /\ UNCHANGED <<told, ended>>

Begin(p) ==
    /\ where[p] = "running" /\ told[p] = <<>>
    /\ Tell(p, "began")
    /\ UNCHANGED <<where, ended>>

Finish(p) ==
    /\ where[p] = "running" /\ told[p] = <<"began">>
    /\ \E how \in {"ended", "lost"} : Tell(p, how)
    /\ Put({p}, "over")
    /\ UNCHANGED ended

\* Prompts that wait are dropped, by a person or because the pane cannot go on,
Drop(S) ==
    /\ S # {}
    /\ Put(S, "dropped")
    /\ UNCHANGED <<told, ended>>

\* and each is reported by itself.
Lose(p) ==
    /\ where[p] = "dropped"
    /\ Tell(p, "lost")
    /\ Put({p}, "over")
    /\ UNCHANGED ended

End ==
    /\ ~ ended /\ ended' = TRUE
    /\ Put(Waiting, "dropped")
    /\ UNCHANGED told

Next ==
    \/ \E p \in Prompts : Take(p) \/ Start(p) \/ Begin(p) \/ Finish(p) \/ Lose(p)
    \/ \E S \in SUBSET Waiting : Drop(S)
    \/ End

Spec == Init /\ [][Next]_vars
=============================================================================
