-------------------------- MODULE RecentsRegister --------------------------
(* What the list of recent projects promises those who change it             *)
(* (internal/store/recentswriter.go, the comment on run): "what is told to    *)
(* have failed is not on disk, and what is told to have succeeded is".        *)
(*                                                                            *)
(* A change is proposed, and then kept for good together with others, or      *)
(* taken back together with every other that was not kept yet, because those  *)
(* may have been built on it. Only then may its caller be told how it went.   *)

CONSTANT Changes \* the changes callers make to the list, each once

VARIABLES
    kept,     \* the changes the file holds
    proposed, \* those made and neither kept nor taken back
    dead,     \* those taken back
    told      \* what the caller of each was told

vars == <<kept, proposed, dead, told>>

Answers == {"written", "failed", "unknown", "no change"}

Init ==
    /\ kept = {} /\ proposed = {} /\ dead = {}
    /\ told = [c \in Changes |-> "nothing"]

Propose(c) ==
    /\ c \notin kept \cup proposed \cup dead
    /\ proposed' = proposed \cup {c}
    /\ UNCHANGED <<kept, dead, told>>

Keep(S) ==
    /\ S \subseteq proposed
    /\ kept' = kept \cup S /\ proposed' = proposed \ S
    /\ UNCHANGED <<dead, told>>

TakeBack ==
    /\ dead' = dead \cup proposed /\ proposed' = {}
    /\ UNCHANGED <<kept, told>>

\* "written" and "failed" are the truth, for good, as nothing leaves kept or dead.
Truth(c, answer) ==
    /\ answer = "written" => c \in kept
    /\ answer = "failed" => c \in dead
    /\ answer = "unknown" => c \in kept \cup dead
    /\ answer = "no change" => c \notin kept \cup proposed \cup dead

Tell(c, answer) ==
    /\ told[c] = "nothing" /\ Truth(c, answer)
    /\ told' = [told EXCEPT ![c] = answer]
    /\ UNCHANGED <<kept, proposed, dead>>

Next ==
    \/ \E c \in Changes : Propose(c) \/ \E answer \in Answers : Tell(c, answer)
    \/ \E S \in SUBSET Changes : Keep(S)
    \/ TakeBack

Spec == Init /\ [][Next]_vars
=============================================================================
