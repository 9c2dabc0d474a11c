--------------------------- MODULE RecentsWriter ---------------------------
(* The list of recent projects (internal/store/recentswriter.go): callers     *)
(* change it in memory under recentsMu, and one goroutine writes the newest   *)
(* state to the file afterwards, while further changes are made.              *)
(*                                                                            *)
(* A list is the set of changes it was built from, so that two changes that   *)
(* start from the same list, or one that was built on a list whose write      *)
(* failed, show. The regions under w.mu are steps; recentsMu is held over     *)
(* several of them, by a caller or by the writer. There is one file (the code *)
(* keeps these variables by the file's path), and nobody else writes it.      *)
EXTENDS Naturals, FiniteSets

CONSTANTS
    Changes,    \* the changes callers make to the list, each once
    Waiters,    \* those whose caller waits for the disk
    ResultsKept \* recentsResultsKept

ASSUME RecentsAssumption == Waiters \subseteq Changes /\ ResultsKept \in Nat \ {0}
ASSUME WriterAssumption == {"nobody", "writer"} \cap Changes = {}

VARIABLES
    disk,     \* the list in the file
    pending,  \* w.pending: the newest list not yet on disk, {} when there is none
    gen,      \* w.gen
    written,  \* w.written
    results,  \* w.results
    trimmed,  \* w.trimmed
    mutex,    \* who holds recentsMu
    at,       \* where the caller of each change is
    read,     \* the list it read
    number,   \* the number of the state it made (a caller's g), 0 before
    told,     \* what it was told
    writer,   \* where the writer's goroutine is; "none": not running
    list, g,  \* the writer's list and g
    flush     \* where a call of FlushRecents is, and the changes made before it

stateVars  == <<pending, gen, written, results, trimmed>>
callVars   == <<at, read, number, told>>
writerVars == <<writer, list, g>>
vars == <<disk, stateVars, mutex, callVars, writerVars, flush>>

Init ==
    /\ disk = {} /\ pending = {} /\ gen = 0 /\ written = 0 /\ results = {} /\ trimmed = 0
    /\ mutex = "nobody"
    /\ at = [c \in Changes |-> "idle"] /\ read = [c \in Changes |-> {}]
    /\ number = [c \in Changes |-> 0] /\ told = [c \in Changes |-> "nothing"]
    /\ writer = "none" /\ list = {} /\ g = 0
    /\ flush = [at |-> "idle", made |-> {}]

Goto(c, label) == at' = [at EXCEPT ![c] = label]
Made == {c \in Changes : number[c] # 0}

-----------------------------------------------------------------------------
(* modifyRecents.                                                             *)

\* recentsMu is taken before the list is read, and kept until the change is made.
Lock(c) == mutex = "nobody" /\ mutex' = c
ChangeBegins(c) ==
    /\ at[c] = "idle" /\ Lock(c)
    /\ Goto(c, "read")
    /\ UNCHANGED <<disk, stateVars, read, number, told, writerVars, flush>>

\* Recents: what is pending is the newest state; the file is read without w.mu.
ReadsPending(c) ==
    /\ at[c] = "read"
    /\ read' = [read EXCEPT ![c] = pending]
    /\ Goto(c, IF pending = {} THEN "read file" ELSE "make")
    /\ UNCHANGED <<disk, stateVars, mutex, number, told, writerVars, flush>>

ReadsFile(c) ==
    /\ at[c] = "read file"
    /\ read' = [read EXCEPT ![c] = disk]
    /\ Goto(c, "make")
    /\ UNCHANGED <<disk, stateVars, mutex, number, told, writerVars, flush>>

\* The list cannot be read, or the change makes no difference to it.
NoChange(c) ==
    /\ at[c] \in {"read file", "make"}
    /\ told' = [told EXCEPT ![c] = "no change"]
    /\ mutex' = "nobody" /\ Goto(c, "done")
    /\ UNCHANGED <<disk, stateVars, read, number, writerVars, flush>>

\* enqueue: the newest state, and a goroutine to write it.
Enqueue(c) ==
    /\ at[c] = "make"
    /\ pending' = read[c] \cup {c}
    /\ gen' = gen + 1 /\ number' = [number EXCEPT ![c] = gen + 1]
    /\ writer' = IF writer = "none" THEN "take" ELSE writer
    /\ mutex' = "nobody" /\ Goto(c, IF c \in Waiters THEN "wait" ELSE "done")
    /\ UNCHANGED <<disk, written, results, trimmed, read, told, list, g, flush>>

\* wait: the result of the first write that includes the caller's state.
Covers(r, n) == r.upTo >= n
First(n) == {r \in results : Covers(r, n) /\ \A s \in results : Covers(s, n) => r.upTo <= s.upTo}
Answer(n) ==
    IF n <= trimmed \/ First(n) = {} THEN "unknown"
    ELSE IF \E r \in First(n) : r.ok THEN "written" ELSE "failed"

Wait(c) ==
    /\ at[c] = "wait" /\ written >= number[c]
    /\ told' = [told EXCEPT ![c] = Answer(number[c])]
    /\ Goto(c, "done")
    /\ UNCHANGED <<disk, stateVars, mutex, read, number, writerVars, flush>>

-----------------------------------------------------------------------------
(* FlushRecents, on the way out.                                              *)

FlushBegins ==
    /\ flush.at = "idle"
    /\ flush' = [at |-> "waiting", made |-> Made]
    /\ UNCHANGED <<disk, stateVars, mutex, callVars, writerVars>>

FlushReturns ==
    /\ flush.at = "waiting" /\ pending = {}
    /\ flush' = [flush EXCEPT !.at = "done"]
    /\ UNCHANGED <<disk, stateVars, mutex, callVars, writerVars>>

-----------------------------------------------------------------------------
(* run.                                                                       *)

\* The newest state is taken, or the goroutine ends.
Take ==
    /\ writer = "take"
    /\ IF pending # {} /\ gen > written
       THEN list' = pending /\ g' = gen /\ writer' = "write"
       ELSE writer' = "none" /\ UNCHANGED <<list, g>>
    /\ UNCHANGED <<disk, stateVars, mutex, callVars, flush>>

\* The write, which is whole or not done. Before a failure is settled recentsMu
\* is taken.
Write ==
    /\ writer = "write"
    /\ disk' = list /\ writer' = "written"
    /\ UNCHANGED <<stateVars, mutex, callVars, list, g, flush>>

WriteFails ==
    /\ writer = "write"
    /\ writer' = "failed"
    /\ UNCHANGED <<disk, stateVars, mutex, callVars, list, g, flush>>

SettleUnlocked == writer = "failed" /\ writer' = "settle" /\ UNCHANGED mutex
SettleLocks == writer = "failed" /\ mutex = "nobody" /\ mutex' = "writer" /\ writer' = "settle"
FailureLocks ==
    /\ SettleLocks
    /\ UNCHANGED <<disk, stateVars, callVars, list, g, flush>>

\* What is settled: up to the state that was written, or every state made so far.
UpToWritten(ok) == g
UpTo(ok) == IF ok THEN g ELSE gen

\* What is dropped with it, and what is still to be written.
StillPending(ok) == IF ~ok \/ gen = g THEN {} ELSE pending

\* A result is added, and the oldest makes room.
TooManyByOne(rs) == Cardinality(rs) > ResultsKept + 1
TooMany(rs) == Cardinality(rs) > ResultsKept
AddResult(new) ==
    LET all == results \cup {new} IN
    \/ ~TooMany(all) /\ results' = all /\ UNCHANGED trimmed
    \/ TooMany(all) /\ \E old \in all :
           /\ \A r \in all : old.upTo <= r.upTo
           /\ results' = all \ {old} /\ trimmed' = old.upTo

Settle(ok) ==
    /\ pending' = StillPending(ok) /\ written' = UpTo(ok)
    /\ AddResult([upTo |-> UpTo(ok), ok |-> ok])
    /\ writer' = "take"
    /\ UNCHANGED <<disk, gen, callVars, list, g, flush>>

SettleWritten == writer = "written" /\ Settle(TRUE) /\ UNCHANGED mutex
SettleFailed  == writer = "settle" /\ Settle(FALSE) /\ mutex' = "nobody"

-----------------------------------------------------------------------------
Modify(c) == ChangeBegins(c) \/ ReadsPending(c) \/ ReadsFile(c) \/ NoChange(c) \/ Enqueue(c) \/ Wait(c)
Run == Take \/ Write \/ WriteFails \/ FailureLocks \/ SettleWritten \/ SettleFailed

Next == (\E c \in Changes : Modify(c)) \/ Run \/ FlushBegins \/ FlushReturns

Spec == Init /\ [][Next]_vars

\* Goroutines that can run do, a mutex is handed to whoever waits for it long
\* enough (sync.Mutex does not starve), and a write ends, well or not.
Fairness ==
    /\ WF_vars(Run) /\ SF_vars(FailureLocks) /\ WF_vars(FlushReturns)
    /\ \A c \in Changes : WF_vars(Modify(c) /\ at[c] # "idle")

FairSpec == Spec /\ Fairness

-----------------------------------------------------------------------------
(* Properties.                                                                *)

TypeOK ==
    /\ disk \subseteq Changes /\ pending \subseteq Changes /\ list \subseteq Changes
    /\ gen \in Nat /\ written \in Nat /\ trimmed \in Nat /\ g \in Nat
    /\ results \subseteq [upTo : Nat, ok : BOOLEAN]
    /\ IsFiniteSet(results) /\ Cardinality(results) <= ResultsKept
    /\ mutex \in Changes \cup {"nobody", "writer"}
    /\ at \in [Changes -> {"idle", "read", "read file", "make", "wait", "done"}]
    /\ read \in [Changes -> SUBSET Changes] /\ number \in [Changes -> Nat]
    /\ told \in [Changes -> {"nothing", "written", "failed", "unknown", "no change"}]
    /\ writer \in {"none", "take", "write", "written", "failed", "settle"}
    /\ flush \in [at : {"idle", "waiting", "done"}, made : SUBSET Changes]

\* What is told to have failed is not on disk, nor on its way there; what is told
\* to have succeeded is on disk.
OnItsWay(c) ==
    \/ c \in pending
    \/ c \in list /\ writer = "write"
    \/ \E d \in Changes : at[d] = "make" /\ c \in read[d]
ToldTheTruth ==
    \A c \in Changes :
        /\ told[c] = "written" => c \in disk
        /\ told[c] = "failed" => c \notin disk /\ ~OnItsWay(c)

\* Two changes made at the same time are not lost: one that is made stays in the
\* newest state until it is settled.
NoChangeIsLost ==
    \A c \in Made : number[c] > written => c \in pending

\* FlushRecents leaves nothing behind that was made before it.
FlushLeavesNothing ==
    flush.at = "done" => \A c \in flush.made : number[c] <= written

\* Every change that is made is settled, and told to a caller who waits.
EveryCallerIsTold == \A c \in Changes : (at[c] = "wait") ~> (at[c] = "done")

\* The list keeps what RecentsRegister promises of it.
Register == INSTANCE RecentsRegister WITH
    kept <- disk, proposed <- pending \ disk, dead <- Made \ (disk \cup pending)
RegisterSpec == Register!Spec
-----------------------------------------------------------------------------
(* The inductive invariant of the proofs.                                     *)

\* recentsMu, and what its holder read: the newest state, whatever the writer has
\* settled since.
Holding == {"read", "read file", "make"}
MutexInv ==
    /\ \A c \in Changes : mutex = c <=> at[c] \in Holding
    /\ mutex = "writer" <=> writer = "settle"
    /\ \A c \in Changes :
          /\ at[c] = "read file" => pending = {}
          /\ at[c] = "make" => read[c] = IF pending = {} THEN disk ELSE pending

\* The states are numbered in the order they were made, each with its change.
NumbersInv ==
    /\ written <= gen /\ (pending # {} => written < gen)
    /\ \A c \in Changes : number[c] <= gen
    /\ \A c \in Changes : at[c] \in {"idle"} \cup Holding => number[c] = 0
    /\ \A c \in Changes : at[c] = "wait" => number[c] # 0

\* What is settled is on disk or was taken back; what is not is pending.
ListsInv ==
    /\ disk \subseteq Made /\ pending \subseteq Made
    /\ pending # {} => disk \subseteq pending
    /\ \A c \in Made : number[c] > written => c \in pending
    /\ \A c \in pending \ disk : number[c] > written
    /\ \A c \in disk : number[c] <= written \/ (writer = "written" /\ number[c] <= g)

\* What the writer took stays the older part of what is pending until it settles.
WriterInv ==
    /\ writer \in {"write", "written", "failed", "settle"} =>
          /\ list # {} /\ list \subseteq pending /\ written < g /\ g <= gen
          /\ \A c \in pending : c \in list <=> number[c] <= g
    /\ writer = "written" => disk = list

\* The results that are kept say how the states they cover were settled.
ResultsInv ==
    /\ trimmed <= written /\ (trimmed < written => \E r \in results : r.upTo = written)
    /\ \A r \in results : trimmed < r.upTo /\ r.upTo <= written
    /\ \A r, s \in results : r.upTo = s.upTo => r = s
    /\ \A c \in Made : \A r \in results :
          number[c] <= written /\ trimmed < number[c] /\ r \in First(number[c])
              => (r.ok <=> c \in disk)

ToldInv ==
    /\ \A c \in Changes : told[c] # "nothing" => at[c] = "done"
    /\ \A c \in Changes : told[c] = "written" => c \in disk
    /\ \A c \in Changes : told[c] = "failed" => c \in Made /\ number[c] <= written /\ c \notin disk
    /\ flush.made \subseteq Made
    /\ flush.at = "done" => \A c \in flush.made : number[c] <= written

\* The whole of it, which every step keeps and the properties above follow from.
RecentsInv == MutexInv /\ NumbersInv /\ ListsInv /\ WriterInv /\ ResultsInv /\ ToldInv
=============================================================================
