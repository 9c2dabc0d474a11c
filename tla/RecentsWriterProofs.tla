------------------------ MODULE RecentsWriterProofs ------------------------
(* What the writer of the recent projects keeps, proved for any changes: its  *)
(* types, the truth of what callers are told, that no change is lost, and     *)
(* that it implements RecentsRegister.                                        *)
EXTENDS RecentsWriter, FiniteSetTheorems, TLAPS

USE RecentsAssumption, WriterAssumption

Results == [upTo : Nat, ok : BOOLEAN]

-----------------------------------------------------------------------------
(* Types.                                                                     *)

\* A result is added within ResultsKept, and taken from the sets it should be.
LEMMA AddResultType ==
    ASSUME NEW new \in Results, results \subseteq Results, trimmed \in Nat,
           IsFiniteSet(results), Cardinality(results) <= ResultsKept, AddResult(new)
    PROVE  /\ results' \subseteq Results /\ trimmed' \in Nat
           /\ IsFiniteSet(results') /\ Cardinality(results') <= ResultsKept
<1> DEFINE all == results \cup {new}
<1>1. IsFiniteSet(all) /\ Cardinality(all) <= Cardinality(results) + 1
  <2>1. IsFiniteSet(all) /\ Cardinality(all) =
            IF new \in results THEN Cardinality(results) ELSE Cardinality(results) + 1
    BY FS_AddElement
  <2> QED BY <2>1, FS_CardinalityType
<1>2. all \subseteq Results
  OBVIOUS
<1>3. CASE ~TooMany(all) /\ results' = all /\ UNCHANGED trimmed
  <2>1. Cardinality(all) \in Nat
    BY <1>1, FS_CardinalityType
  <2>2. Cardinality(all) <= ResultsKept
    BY <1>3, <2>1 DEF TooMany
  <2> QED BY <1>1, <1>2, <1>3, <2>2
<1>4. ASSUME NEW old \in all, results' = all \ {old}, trimmed' = old.upTo
      PROVE  /\ results' \subseteq Results /\ trimmed' \in Nat
             /\ IsFiniteSet(results') /\ Cardinality(results') <= ResultsKept
  <2>1. IsFiniteSet(results') /\ Cardinality(results') = Cardinality(all) - 1
    BY <1>1, <1>4, FS_RemoveElement
  <2>2. Cardinality(all) \in Nat /\ Cardinality(results) \in Nat
    BY <1>1, FS_CardinalityType
  <2>3. Cardinality(results') <= ResultsKept
    BY <1>1, <2>1, <2>2
  <2>4. old.upTo \in Nat
    BY <1>2 DEF Results
  <2> QED BY <1>2, <1>4, <2>1, <2>3, <2>4
<1> QED BY <1>3, <1>4 DEF AddResult

\* The parts of the type invariant a settled write changes.
LEMMA SettleType ==
    ASSUME TypeOK, NEW ok \in BOOLEAN, Settle(ok), mutex' \in {mutex, "nobody"}
    PROVE  TypeOK'
<1>1. [upTo |-> UpTo(ok), ok |-> ok] \in Results
  BY DEF UpTo, TypeOK, Results
<1>2. /\ results' \subseteq Results /\ trimmed' \in Nat
      /\ IsFiniteSet(results') /\ Cardinality(results') <= ResultsKept
  BY <1>1, AddResultType DEF Settle, TypeOK, Results
<1> QED BY <1>2 DEF TypeOK, Settle, UpTo, StillPending, Results, callVars

\* Every step keeps the types.
LEMMA TypeStep == TypeOK /\ [Next]_vars => TypeOK'
<1> SUFFICES ASSUME TypeOK, [Next]_vars PROVE TypeOK'
  OBVIOUS
<1> USE DEF TypeOK
<1>1. ASSUME NEW c \in Changes, Modify(c) PROVE TypeOK'
  <2> USE DEF Goto, stateVars, callVars, writerVars
  <2>1. CASE ChangeBegins(c)
    BY <2>1 DEF ChangeBegins, Lock
  <2>2. CASE ReadsPending(c)
    BY <2>2 DEF ReadsPending
  <2>3. CASE ReadsFile(c)
    BY <2>3 DEF ReadsFile
  <2>4. CASE NoChange(c)
    BY <2>4 DEF NoChange
  <2>5. CASE Enqueue(c)
    <3>1. number' \in [Changes -> Nat] /\ gen' \in Nat
      <4>1. gen' = gen + 1 /\ number' = [number EXCEPT ![c] = gen + 1]
        BY <2>5 DEF Enqueue
      <4>2. gen \in Nat /\ number \in [Changes -> Nat]
        OBVIOUS
      <4> HIDE DEF TypeOK
      <4> QED BY <4>1, <4>2
    <3>4. read[c] \subseteq Changes
      OBVIOUS
    <3>5. pending' \subseteq Changes
      BY <2>5, <3>4 DEF Enqueue
    <3>2. at' \in [Changes -> {"idle", "read", "read file", "make", "wait", "done"}]
      BY <2>5 DEF Enqueue
    <3>3. mutex' = "nobody" /\ writer' \in {"none", "take", "write", "written", "failed", "settle"}
      BY <2>5 DEF Enqueue
    <3> QED BY <2>5, <3>1, <3>2, <3>3, <3>5 DEF Enqueue
  <2>6. CASE Wait(c)
    BY <2>6 DEF Wait, Answer
  <2> QED BY <1>1, <2>1, <2>2, <2>3, <2>4, <2>5, <2>6 DEF Modify
<1>2. CASE Take \/ Write \/ WriteFails \/ FailureLocks
  BY <1>2 DEF Take, Write, WriteFails, FailureLocks, SettleLocks, stateVars, callVars, writerVars
<1>3. CASE SettleWritten
  BY <1>3, SettleType DEF SettleWritten
<1>4. CASE SettleFailed
  BY <1>4, SettleType DEF SettleFailed
<1>5. CASE FlushBegins \/ FlushReturns
  <2>1. flush' \in [at : {"idle", "waiting", "done"}, made : SUBSET Changes]
    <3>1. CASE FlushBegins
      <4>1. Made \subseteq Changes
        BY DEF Made
      <4> QED BY <3>1, <4>1 DEF FlushBegins
    <3>2. CASE FlushReturns
      <4>1. flush \in [at : {"idle", "waiting", "done"}, made : SUBSET Changes]
        OBVIOUS
      <4>2. flush' = [at |-> "done", made |-> flush.made]
        BY <3>2, <4>1 DEF FlushReturns
      <4> QED BY <4>1, <4>2
    <3> QED BY <1>5, <3>1, <3>2
  <2> QED BY <1>5, <2>1 DEF FlushBegins, FlushReturns, stateVars, callVars, writerVars
<1>6. CASE UNCHANGED vars
  BY <1>6 DEF vars, stateVars, callVars, writerVars
<1> QED BY <1>1, <1>2, <1>3, <1>4, <1>5, <1>6 DEF Next, Run

\* Every variable keeps its type, and no more results are kept than
\* recentsResultsKept, however many changes are made.
THEOREM TypeCorrect == Spec => []TypeOK
<1>1. Init => TypeOK
  <2>1. IsFiniteSet({}) /\ Cardinality({}) = 0
    BY FS_EmptySet
  <2> QED BY <2>1 DEF Init, TypeOK
<1> QED BY <1>1, TypeStep, PTL DEF Spec

-----------------------------------------------------------------------------
(* The invariant.                                                             *)

USE DEF Holding, Made

\* The invariant holds before any change.
LEMMA InvInit == Init => RecentsInv
  BY DEF Init, RecentsInv, MutexInv, NumbersInv, ListsInv, WriterInv, ResultsInv, ToldInv, First, Covers

\* A caller that takes recentsMu, reads and lets go again, having made nothing.
LEMMA ReadingStep ==
    ASSUME TypeOK, RecentsInv, NEW c \in Changes,
           ChangeBegins(c) \/ ReadsPending(c) \/ ReadsFile(c) \/ NoChange(c)
    PROVE  RecentsInv'
<1> USE DEF Goto, stateVars, callVars, writerVars
<1>1. MutexInv'
  <2>1. CASE ChangeBegins(c)
    BY <2>1 DEF TypeOK, RecentsInv, MutexInv, ChangeBegins, Lock
  <2>2. CASE ReadsPending(c)
    BY <2>2 DEF TypeOK, RecentsInv, MutexInv, ReadsPending
  <2>3. CASE ReadsFile(c)
    BY <2>3 DEF TypeOK, RecentsInv, MutexInv, ReadsFile
  <2>4. CASE NoChange(c)
    BY <2>4 DEF TypeOK, RecentsInv, MutexInv, NoChange
  <2> QED BY <2>1, <2>2, <2>3, <2>4
<1>2. /\ UNCHANGED <<disk, stateVars, number, writerVars, flush>>
      /\ at[c] # "idle" \/ at'[c] = "read"
      /\ at[c] \in {"idle"} \cup Holding
      /\ \A d \in Changes \ {c} : at'[d] = at[d] /\ told'[d] = told[d]
      /\ at'[c] \in {"read", "read file", "make", "done"}
      /\ told'[c] = told[c] \/ (told'[c] = "no change" /\ at'[c] = "done")
  BY DEF TypeOK, ChangeBegins, ReadsPending, ReadsFile, NoChange
<1>3. NumbersInv'
  BY <1>2 DEF TypeOK, RecentsInv, NumbersInv
<1>4. ListsInv'
  BY <1>2 DEF TypeOK, RecentsInv, ListsInv
<1>5. WriterInv'
  BY <1>2 DEF TypeOK, RecentsInv, WriterInv
<1>6. ResultsInv'
  BY <1>2 DEF TypeOK, RecentsInv, ResultsInv, First, Covers
<1>7. ToldInv'
  <2>1. \A d \in Changes : told'[d] # "nothing" => at'[d] = "done"
    BY <1>2 DEF TypeOK, RecentsInv, ToldInv
  <2>2. \A d \in Changes : told'[d] \in {"written", "failed"} => told'[d] = told[d]
    BY <1>2 DEF TypeOK
  <2> QED BY <1>2, <2>1, <2>2 DEF RecentsInv, ToldInv
<1> QED BY <1>1, <1>3, <1>4, <1>5, <1>6, <1>7 DEF RecentsInv

\* The caller's change becomes the newest state, built on the one it read.
LEMMA EnqueueStep ==
    ASSUME TypeOK, RecentsInv, NEW c \in Changes, Enqueue(c)
    PROVE  RecentsInv'
<1>1. /\ at[c] = "make" /\ mutex = c /\ number[c] = 0 /\ c \notin disk /\ c \notin pending
      /\ read[c] = IF pending = {} THEN disk ELSE pending
  BY DEF TypeOK, RecentsInv, MutexInv, NumbersInv, ListsInv, Enqueue
<1>2. /\ gen' = gen + 1 /\ number' = [number EXCEPT ![c] = gen + 1]
      /\ pending' = read[c] \cup {c} /\ disk \cup pending \subseteq read[c] /\ read[c] \subseteq disk \cup pending
      /\ mutex' = "nobody" /\ at' \in {[at EXCEPT ![c] = "wait"], [at EXCEPT ![c] = "done"]}
      /\ writer' = IF writer = "none" THEN "take" ELSE writer
      /\ UNCHANGED <<disk, written, results, trimmed, read, told, list, g, flush>>
  BY <1>1 DEF TypeOK, RecentsInv, ListsInv, Enqueue, Goto
<1>3. /\ Made' = Made \cup {c} /\ number'[c] = gen + 1 /\ at'[c] \in {"wait", "done"}
      /\ \A d \in Changes \ {c} : number'[d] = number[d] /\ at'[d] = at[d]
      /\ gen \in Nat /\ written \in Nat /\ trimmed \in Nat /\ g \in Nat
      /\ number \in [Changes -> Nat]
  <2>1. gen \in Nat /\ written \in Nat /\ trimmed \in Nat /\ g \in Nat /\ number \in [Changes -> Nat]
    BY DEF TypeOK
  <2>2. number'[c] = gen + 1 /\ \A d \in Changes \ {c} : number'[d] = number[d]
    BY <1>2, <2>1
  <2>3. at'[c] \in {"wait", "done"} /\ \A d \in Changes \ {c} : at'[d] = at[d]
    BY <1>2 DEF TypeOK
  <2>4. Made' = Made \cup {c}
    BY <2>1, <2>2
  <2> QED BY <2>1, <2>2, <2>3, <2>4
<1>4. MutexInv'
  <2>1. \A d \in Changes \ {c} : at[d] \notin Holding
    BY <1>1 DEF RecentsInv, MutexInv
  <2>2. at'[c] \notin Holding /\ \A d \in Changes \ {c} : at'[d] \notin Holding
    BY <1>3, <2>1
  <2>3. writer # "settle" /\ writer' # "settle"
    BY <1>1, <1>2, WriterAssumption DEF RecentsInv, MutexInv
  <2>4. \A d \in Changes : mutex' # d /\ at'[d] \notin Holding
    BY <1>2, <2>2, WriterAssumption
  <2> QED BY <1>2, <2>3, <2>4 DEF MutexInv
<1>10. written <= gen /\ \A d \in Changes : number[d] <= gen
  BY DEF RecentsInv, NumbersInv
<1> HIDE DEF Made
<1>5. NumbersInv'
  <2>1. written' <= gen' /\ (pending' # {} => written' < gen') /\ \A d \in Changes : number'[d] <= gen'
    BY <1>2, <1>3, <1>10
  <2>2. \A d \in Changes : at'[d] \in {"idle"} \cup Holding => number'[d] = 0
    <3> SUFFICES ASSUME NEW d \in Changes, at'[d] \in {"idle"} \cup Holding PROVE number'[d] = 0
      OBVIOUS
    <3>1. d # c
      BY <1>3
    <3> QED BY <1>3, <3>1 DEF RecentsInv, NumbersInv
  <2>3. \A d \in Changes : at'[d] = "wait" => number'[d] # 0
    <3>1. number'[c] # 0
      BY <1>3
    <3>2. \A d \in Changes \ {c} : at'[d] = "wait" => number'[d] # 0
      BY <1>3 DEF RecentsInv, NumbersInv
    <3> QED BY <3>1, <3>2
  <2> QED BY <2>1, <2>2, <2>3 DEF NumbersInv
<1>6. ListsInv'
  <2>1. disk' \subseteq Made' /\ pending' \subseteq Made' /\ disk' \subseteq pending'
    BY <1>2, <1>3 DEF RecentsInv, ListsInv
  <2>2. \A d \in Made' : number'[d] > written' => d \in pending'
    BY <1>2, <1>3 DEF RecentsInv, ListsInv, Made
  <2>3. \A d \in pending' \ disk' : number'[d] > written'
    <3> SUFFICES ASSUME NEW d \in pending' \ disk' PROVE number'[d] > written'
      OBVIOUS
    <3>1. CASE d = c
      BY <1>2, <1>3, <1>10, <3>1
    <3>2. CASE d # c
      BY <1>2, <1>3, <3>2 DEF RecentsInv, ListsInv, Made
    <3> QED BY <3>1, <3>2
  <2>4. \A d \in disk' : number'[d] <= written' \/ (writer' = "written" /\ number'[d] <= g')
    BY <1>1, <1>2, <1>3 DEF RecentsInv, ListsInv, Made
  <2> QED BY <2>1, <2>2, <2>3, <2>4 DEF ListsInv
<1>7. WriterInv'
  <2> SUFFICES ASSUME writer' \in {"write", "written", "failed", "settle"}
               PROVE  /\ list' # {} /\ list' \subseteq pending' /\ written' < g' /\ g' <= gen'
                      /\ \A d \in pending' : d \in list' <=> number'[d] <= g'
                      /\ writer' = "written" => disk' = list'
    BY DEF WriterInv
  <2>1. /\ writer' = writer /\ list # {} /\ list \subseteq pending /\ written < g /\ g <= gen
        /\ \A d \in pending : d \in list <=> number[d] <= g
        /\ writer = "written" => disk = list
    BY <1>2 DEF RecentsInv, WriterInv
  <2>2. pending' = pending \cup {c}
    BY <1>1, <1>2, <2>1
  <2>3. \A d \in pending : d \in Changes \ {c}
    BY <1>1 DEF TypeOK
  <2>4. \A d \in pending' : d \in list' <=> number'[d] <= g'
    BY <1>1, <1>2, <1>3, <2>1, <2>2, <2>3
  <2> QED BY <1>2, <1>3, <2>1, <2>2, <2>4
<1>8. ResultsInv'
  <2>1. \A d \in Made' : number'[d] <= written' => d \in Made /\ number'[d] = number[d]
    BY <1>2, <1>3, <1>10
  <2>2. \A d \in Made : \A r \in results :
           number[d] <= written /\ trimmed < number[d] /\ r \in First(number[d]) => (r.ok <=> d \in disk)
    BY DEF RecentsInv, ResultsInv
  <2>3. \A n : First(n)' = First(n)
    BY <1>2 DEF First, Covers
  <2>4. \A d \in Made' : \A r \in results' :
           number'[d] <= written' /\ trimmed' < number'[d] /\ r \in First(number[d])' => (r.ok <=> d \in disk')
    BY <1>2, <2>1, <2>2, <2>3
  <2> QED BY <1>2, <2>4 DEF RecentsInv, ResultsInv
<1>9. ToldInv'
  <2>1. c \notin flush.made /\ flush.made \subseteq Made
    BY <1>1 DEF RecentsInv, ToldInv, Made
  <2>2. \A d \in Made : d # c /\ number'[d] = number[d]
    BY <1>1, <1>3 DEF Made
  <2>3. told[c] = "nothing"
    BY <1>1 DEF RecentsInv, ToldInv
  <2>4. \A d \in Changes : told'[d] # "nothing" => at'[d] = "done"
    BY <1>2, <1>3, <2>3 DEF RecentsInv, ToldInv
  <2> QED BY <1>2, <1>3, <2>1, <2>2, <2>4 DEF RecentsInv, ToldInv
<1> QED BY <1>4, <1>5, <1>6, <1>7, <1>8, <1>9 DEF RecentsInv

\* A caller is told what the results say, which ResultsInv says is so.
LEMMA WaitStep ==
    ASSUME TypeOK, RecentsInv, NEW c \in Changes, Wait(c)
    PROVE  RecentsInv'
<1>1. /\ at[c] = "wait" /\ number[c] # 0 /\ number[c] <= written
      /\ told' = [told EXCEPT ![c] = Answer(number[c])] /\ at' = [at EXCEPT ![c] = "done"]
      /\ UNCHANGED <<disk, stateVars, mutex, read, number, writerVars, flush>>
  BY DEF TypeOK, RecentsInv, NumbersInv, Wait, Goto
<1>2. /\ Answer(number[c]) = "written" => c \in disk
      /\ Answer(number[c]) = "failed" => c \notin disk
  <2>1. CASE number[c] <= trimmed \/ First(number[c]) = {}
    BY <2>1 DEF Answer
  <2>2. CASE ~(number[c] <= trimmed) /\ First(number[c]) # {}
    <3>1. c \in Made /\ trimmed < number[c] /\ First(number[c]) \subseteq results
      <4>1. trimmed < number[c]
        <5>1. trimmed \in Nat /\ number[c] \in Nat
          BY DEF TypeOK
        <5> QED BY <2>2, <5>1
      <4> QED BY <1>1, <4>1 DEF First
    <3>2. \A r \in results : r \in First(number[c]) => (r.ok <=> c \in disk)
      BY <1>1, <3>1 DEF RecentsInv, ResultsInv
    <3> QED BY <2>2, <3>1, <3>2 DEF Answer
  <2> QED BY <2>1, <2>2
<1>3. ToldInv'
  BY <1>1, <1>2 DEF TypeOK, RecentsInv, ToldInv, Answer, stateVars, writerVars
<1>4. MutexInv'
  BY <1>1 DEF TypeOK, RecentsInv, MutexInv, stateVars, writerVars
<1>5. NumbersInv'
  BY <1>1 DEF TypeOK, RecentsInv, NumbersInv, stateVars, writerVars
<1>6. ListsInv' /\ WriterInv'
  BY <1>1 DEF TypeOK, RecentsInv, ListsInv, WriterInv, stateVars, writerVars
<1>7. ResultsInv'
  BY <1>1 DEF TypeOK, RecentsInv, ResultsInv, First, Covers, stateVars, writerVars
<1> QED BY <1>3, <1>4, <1>5, <1>6, <1>7 DEF RecentsInv

\* The writer takes the newest state, writes it or fails to, and takes recentsMu.
LEMMA WritingStep ==
    ASSUME TypeOK, RecentsInv, Take \/ Write \/ WriteFails \/ FailureLocks
    PROVE  RecentsInv'
<1>1. CASE Take
  <2>1. UNCHANGED <<disk, stateVars, mutex, callVars, flush>> /\ writer = "take"
    BY <1>1 DEF Take
  <2>2. CASE pending # {} /\ gen > written /\ list' = pending /\ g' = gen /\ writer' = "write"
    <3>1. WriterInv'
      <4>1. \A d \in pending : number[d] <= gen
        BY DEF TypeOK, RecentsInv, NumbersInv
      <4>2. gen \in Nat /\ written \in Nat
        BY DEF TypeOK
      <4> QED BY <2>1, <2>2, <4>1, <4>2 DEF WriterInv, stateVars, callVars
    <3>2. MutexInv' /\ NumbersInv'
      BY <2>1, <2>2 DEF RecentsInv, MutexInv, NumbersInv, stateVars, callVars
    <3>3. ListsInv'
      BY <2>1, <2>2 DEF RecentsInv, ListsInv, stateVars, callVars
    <3>4. ResultsInv' /\ ToldInv'
      BY <2>1, <2>2 DEF RecentsInv, ResultsInv, ToldInv, First, Covers, stateVars, callVars
    <3> QED BY <3>1, <3>2, <3>3, <3>4 DEF RecentsInv
  <2>3. CASE writer' = "none" /\ UNCHANGED <<list, g>>
    BY <2>1, <2>3 DEF RecentsInv, MutexInv, NumbersInv, ListsInv, WriterInv, ResultsInv, ToldInv, First, Covers,
        stateVars, callVars
  <2> QED BY <1>1, <2>2, <2>3 DEF Take
<1>2. CASE Write
  <2>1. /\ UNCHANGED <<stateVars, mutex, callVars, list, g, flush>>
        /\ writer = "write" /\ writer' = "written" /\ disk' = list
    BY <1>2 DEF Write
  <2>2. /\ list # {} /\ list \subseteq pending /\ written < g
        /\ \A d \in pending : d \in list <=> number[d] <= g
    BY <2>1 DEF RecentsInv, WriterInv
  <2>3. pending \subseteq Made /\ disk \subseteq pending /\ \A d \in disk : number[d] <= written
    BY <2>1, <2>2 DEF RecentsInv, ListsInv
  <2>4. /\ written \in Nat /\ g \in Nat /\ number \in [Changes -> Nat] /\ pending \subseteq Changes
    BY DEF TypeOK
  <2>5. disk \subseteq disk' /\ \A d \in Made : number[d] <= written => (d \in disk <=> d \in disk')
    <3>1. disk \subseteq disk'
      BY <2>1, <2>2, <2>3, <2>4
    <3>2. \A d \in pending \ disk : number[d] > written
      BY DEF RecentsInv, ListsInv
    <3> QED BY <2>1, <2>2, <2>4, <3>1, <3>2
  <2>6. MutexInv' /\ NumbersInv'
    <3>1. pending # {}
      BY <2>2
    <3> QED BY <2>1, <3>1 DEF RecentsInv, MutexInv, NumbersInv, stateVars, callVars
  <2>7. ListsInv'
    BY <2>1, <2>2, <2>3, <2>4, <2>5 DEF RecentsInv, ListsInv, stateVars, callVars
  <2>8. WriterInv'
    BY <2>1 DEF RecentsInv, WriterInv, stateVars, callVars
  <2>9. ResultsInv'
    BY <2>1, <2>5 DEF RecentsInv, ResultsInv, First, Covers, stateVars, callVars
  <2>10. ToldInv'
    BY <2>1, <2>5 DEF RecentsInv, ToldInv, stateVars, callVars
  <2> QED BY <2>6, <2>7, <2>8, <2>9, <2>10 DEF RecentsInv
<1>3. CASE WriteFails \/ FailureLocks
  <2>1. /\ UNCHANGED <<disk, stateVars, callVars, list, g, flush>>
        /\ writer \in {"write", "failed"} /\ writer' \in {"failed", "settle"}
        /\ writer' = "failed" => mutex' = mutex
        /\ writer' = "settle" => mutex = "nobody" /\ mutex' = "writer"
    BY <1>3 DEF WriteFails, FailureLocks, SettleLocks
  <2>2. MutexInv' /\ NumbersInv'
    BY <2>1 DEF RecentsInv, MutexInv, NumbersInv, stateVars, callVars
  <2>3. ListsInv' /\ WriterInv'
    BY <2>1 DEF RecentsInv, ListsInv, WriterInv, stateVars, callVars
  <2>4. ResultsInv' /\ ToldInv'
    BY <2>1 DEF RecentsInv, ResultsInv, ToldInv, First, Covers, stateVars, callVars
  <2> QED BY <2>2, <2>3, <2>4 DEF RecentsInv
<1> QED BY <1>1, <1>2, <1>3

\* What is settled is on disk when its write succeeded and is dropped when it
\* failed, and the result that says so is the first to cover it.
LEMMA SettleResults ==
    ASSUME TypeOK, RecentsInv, NEW ok \in BOOLEAN, Settle(ok),
           written < UpTo(ok), UpTo(ok) \in Nat,
           \A d \in Made : written < number[d] /\ number[d] <= UpTo(ok) => (ok <=> d \in disk)
    PROVE  ResultsInv'
<1> DEFINE new == [upTo |-> UpTo(ok), ok |-> ok]
           all == results \cup {new}
<1>1. /\ UNCHANGED <<disk, gen, at, read, number, told, list, g, flush>> /\ written' = UpTo(ok) /\ AddResult(new)
  BY DEF Settle, callVars
<1>2. /\ written \in Nat /\ trimmed \in Nat /\ \A r \in all : r.upTo \in Nat
      /\ number \in [Changes -> Nat]
  <2>1. \A r \in results : r.upTo \in Nat
    BY DEF TypeOK
  <2>2. written \in Nat /\ trimmed \in Nat /\ number \in [Changes -> Nat]
    BY DEF TypeOK
  <2>3. new.upTo \in Nat
    OBVIOUS
  <2> QED BY <2>1, <2>2, <2>3
<1>3. /\ trimmed <= written /\ \A r \in results : trimmed < r.upTo /\ r.upTo <= written
      /\ \A r, s \in results : r.upTo = s.upTo => r = s
      /\ trimmed < written => \E r \in results : r.upTo = written
  BY DEF RecentsInv, ResultsInv
<1>4. /\ \A r \in all : trimmed < r.upTo /\ r.upTo <= written'
      /\ \A r, s \in all : r.upTo = s.upTo => r = s
      /\ \A r \in all : r.upTo = written' => r = new
  BY <1>1, <1>2, <1>3
<1> DEFINE FirstOf(S, n) == {r \in S : r.upTo >= n /\ \A s \in S : s.upTo >= n => r.upTo <= s.upTo}
<1>5. \A d \in Made : \A r \in all :
         number[d] <= written' /\ trimmed < number[d] /\ r \in FirstOf(all, number[d]) => (r.ok <=> d \in disk)
  <2> SUFFICES ASSUME NEW d \in Made, NEW r \in all, number[d] <= written', trimmed < number[d],
                      r \in FirstOf(all, number[d])
               PROVE  r.ok <=> d \in disk
    OBVIOUS
  <2>1. CASE number[d] <= written
    <3>1. PICK s \in results : s.upTo = written
      BY <1>2, <1>3, <2>1
    <3>2. r.upTo <= written /\ r \in results
      BY <1>1, <1>2, <2>1, <3>1
    <3>3. r \in FirstOf(results, number[d])
      BY <3>2
    <3> QED BY <2>1, <3>2, <3>3 DEF RecentsInv, ResultsInv, First, Covers
  <2>2. CASE written < number[d]
    <3>1. r = new
      BY <1>2, <1>3, <2>2
    <3> QED BY <1>1, <2>2, <3>1
  <2> QED BY <1>2, <2>1, <2>2
<1>6. CASE results' = all /\ trimmed' = trimmed
  BY <1>1, <1>2, <1>3, <1>4, <1>5, <1>6 DEF ResultsInv, First, Covers
<1>7. ASSUME NEW old \in all, TooMany(all), \A r \in all : old.upTo <= r.upTo,
             results' = all \ {old}, trimmed' = old.upTo
      PROVE  ResultsInv'
  <2>1. trimmed' <= written'
    BY <1>1, <1>4, <1>7
  <2>2. \A r \in results' : trimmed' < r.upTo /\ r.upTo <= written'
    BY <1>2, <1>4, <1>7
  <2>3. trimmed' < written' => \E r \in results' : r.upTo = written'
    BY <1>1, <1>7
  <2>4. \A r, s \in results' : r.upTo = s.upTo => r = s
    BY <1>4, <1>7
  <2>5. \A d \in Made : \A r \in results' :
           number[d] <= written' /\ trimmed' < number[d] /\ r \in FirstOf(results', number[d]) => (r.ok <=> d \in disk)
    <3> SUFFICES ASSUME NEW d \in Made, NEW r \in results', number[d] <= written', trimmed' < number[d],
                        r \in FirstOf(results', number[d])
                 PROVE  r.ok <=> d \in disk
      OBVIOUS
    <3>1. trimmed < number[d]
      BY <1>2, <1>4, <1>7
    <3>2. r \in FirstOf(all, number[d])
      BY <1>2, <1>7
    <3> QED BY <1>5, <1>7, <3>1, <3>2
  <2> QED BY <1>1, <2>1, <2>2, <2>3, <2>4, <2>5 DEF ResultsInv, First, Covers
<1> QED BY <1>1, <1>6, <1>7 DEF AddResult

\* Settling a write, or its failure, keeps the invariant.
LEMMA SettleStep ==
    ASSUME TypeOK, RecentsInv, SettleWritten \/ SettleFailed
    PROVE  RecentsInv'
<1> DEFINE ok == writer = "written"
<1>1. /\ Settle(ok) /\ mutex' = (IF ok THEN mutex ELSE "nobody") /\ (~ok => mutex = "writer" /\ writer = "settle")
      /\ ok \in BOOLEAN
  BY DEF SettleWritten, SettleFailed, RecentsInv, MutexInv
<1>2. /\ list # {} /\ list \subseteq pending /\ written < g /\ g <= gen
      /\ \A d \in pending : d \in list <=> number[d] <= g
      /\ ok => disk = list
  BY <1>1 DEF RecentsInv, WriterInv
<1>3. /\ written \in Nat /\ g \in Nat /\ gen \in Nat /\ number \in [Changes -> Nat]
      /\ pending \subseteq Made /\ disk \subseteq pending /\ \A d \in Made : number[d] <= gen
      /\ \A d \in Made : number[d] > written => d \in pending
      /\ \A d \in pending \ disk : number[d] > written
      /\ \A d \in disk : number[d] <= written \/ (ok /\ number[d] <= g)
  BY <1>2 DEF TypeOK, RecentsInv, ListsInv, NumbersInv
<1>4. UpTo(ok) = (IF ok THEN g ELSE gen) /\ UpTo(ok) \in Nat /\ written < UpTo(ok) /\ UpTo(ok) <= gen
  BY <1>2, <1>3 DEF UpTo
<1>5. \A d \in Made : written < number[d] /\ number[d] <= UpTo(ok) => (ok <=> d \in disk)
  BY <1>2, <1>3, <1>4
<1>6. ResultsInv'
  BY <1>1, <1>4, <1>5, SettleResults
<1>7. /\ UNCHANGED <<disk, gen, at, read, number, told, list, g, flush>>
      /\ written' = UpTo(ok) /\ pending' = StillPending(ok) /\ writer' = "take"
  BY <1>1 DEF Settle, callVars
<1>8. pending' = IF ok /\ gen # g THEN pending ELSE {}
  BY <1>7 DEF StillPending
<1>9. ok /\ gen = g => pending = disk
  BY <1>2, <1>3
<1> HIDE DEF ok
<1>10. MutexInv'
  <2>1. CASE ok
    BY <1>1, <1>7, <1>8, <1>9, <2>1 DEF RecentsInv, MutexInv, ok
  <2>2. CASE ~ok
    <3>1. \A d \in Changes : mutex # d /\ at[d] \notin Holding
      BY <1>1, <2>2 DEF RecentsInv, MutexInv
    <3> QED BY <1>1, <1>7, <2>2, <3>1 DEF MutexInv
  <2> QED BY <2>1, <2>2
<1>11. NumbersInv'
  <2>1. written' <= gen' /\ (pending' # {} => written' < gen')
    BY <1>2, <1>3, <1>4, <1>7, <1>8
  <2> QED BY <1>7, <2>1 DEF RecentsInv, NumbersInv
<1>12. ListsInv'
  <2>1. \A d \in Made : number[d] > written' => d \in pending'
    BY <1>2, <1>3, <1>4, <1>7, <1>8
  <2>2. \A d \in pending' \ disk' : number[d] > written'
    BY <1>2, <1>3, <1>4, <1>7, <1>8
  <2>3. \A d \in disk : number[d] <= written'
    BY <1>2, <1>3, <1>4, <1>7
  <2>4. Made' = Made /\ disk \subseteq Made /\ pending' \subseteq pending
    BY <1>3, <1>7, <1>8
  <2> QED BY <1>3, <1>7, <1>8, <2>1, <2>2, <2>3, <2>4 DEF ListsInv
<1>13. WriterInv'
  BY <1>7 DEF WriterInv
<1>14. ToldInv'
  <2>1. \A d \in Changes : number[d] <= written => number[d] <= written'
    BY <1>3, <1>4, <1>7
  <2>2. flush.made \subseteq Changes
    BY DEF RecentsInv, ToldInv
  <2> QED BY <1>7, <2>1, <2>2 DEF RecentsInv, ToldInv
<1> QED BY <1>6, <1>10, <1>11, <1>12, <1>13, <1>14 DEF RecentsInv

\* So does a flush.
LEMMA FlushStep ==
    ASSUME TypeOK, RecentsInv, FlushBegins \/ FlushReturns
    PROVE  RecentsInv'
<1>1. UNCHANGED <<disk, stateVars, mutex, callVars, writerVars>>
  BY DEF FlushBegins, FlushReturns
<1>2. MutexInv' /\ NumbersInv' /\ ListsInv' /\ WriterInv' /\ ResultsInv'
  BY <1>1 DEF RecentsInv, MutexInv, NumbersInv, ListsInv, WriterInv, ResultsInv, First, Covers,
      stateVars, callVars, writerVars
<1>3. flush'.made \subseteq Made
  <2>1. CASE FlushBegins
    BY <2>1 DEF FlushBegins
  <2>2. CASE FlushReturns
    BY <2>2 DEF FlushReturns, TypeOK, RecentsInv, ToldInv
  <2> QED BY <2>1, <2>2
<1>4. flush'.at = "done" => \A d \in flush'.made : number[d] <= written
  <2>1. CASE FlushBegins
    BY <2>1 DEF FlushBegins
  <2>2. CASE FlushReturns
    <3>1. \A d \in Made : ~(number[d] > written)
      BY <2>2 DEF FlushReturns, RecentsInv, ListsInv
    <3>2. written \in Nat /\ number \in [Changes -> Nat]
      BY DEF TypeOK
    <3>3. flush'.made \subseteq Made
      BY <1>3
    <3> QED BY <3>1, <3>2, <3>3
  <2> QED BY <2>1, <2>2
<1>5. ToldInv'
  BY <1>1, <1>3, <1>4 DEF RecentsInv, ToldInv, stateVars, callVars, writerVars
<1> QED BY <1>2, <1>5 DEF RecentsInv

\* And every other step.
LEMMA InvStep == TypeOK /\ RecentsInv /\ [Next]_vars => RecentsInv'
<1> SUFFICES ASSUME TypeOK, RecentsInv, [Next]_vars PROVE RecentsInv'
  OBVIOUS
<1>1. ASSUME NEW c \in Changes, Modify(c) PROVE RecentsInv'
  BY <1>1, ReadingStep, EnqueueStep, WaitStep DEF Modify
<1>2. CASE Run
  BY <1>2, WritingStep, SettleStep DEF Run
<1>3. CASE FlushBegins \/ FlushReturns
  BY <1>3, FlushStep
<1>4. CASE UNCHANGED vars
  BY <1>4 DEF vars, stateVars, callVars, writerVars, RecentsInv, MutexInv, NumbersInv, ListsInv, WriterInv,
      ResultsInv, ToldInv, First, Covers
<1> QED BY <1>1, <1>2, <1>3, <1>4 DEF Next

\* Memory, the file and the numbers of the states agree, whatever fails.
THEOREM RecentsCorrect == Spec => []RecentsInv
<1>1. Spec => []TypeOK
  BY TypeCorrect
<1> QED BY <1>1, InvInit, InvStep, PTL DEF Spec

-----------------------------------------------------------------------------
(* What follows from it.                                                      *)

\* What a caller is told of its change is the truth about the file, and stays so
\* whatever is written afterwards.
THEOREM ToldCorrect == Spec => []ToldTheTruth
<1>1. TypeOK /\ RecentsInv => ToldTheTruth
  <2> SUFFICES ASSUME TypeOK, RecentsInv, NEW c \in Changes, told[c] = "failed"
               PROVE  c \notin disk /\ ~OnItsWay(c)
    BY DEF ToldTheTruth, RecentsInv, ToldInv
  <2>1. c \notin disk /\ number[c] <= written
    BY DEF RecentsInv, ToldInv
  <2>2. c \notin pending
    <3>1. written \in Nat /\ number[c] \in Nat
      BY DEF TypeOK
    <3>2. c \in pending \ disk => number[c] > written
      BY DEF RecentsInv, ListsInv
    <3> QED BY <2>1, <3>1, <3>2
  <2>3. writer = "write" => c \notin list
    BY <2>2 DEF RecentsInv, WriterInv
  <2>4. \A d \in Changes : at[d] = "make" => c \notin read[d]
    BY <2>1, <2>2 DEF RecentsInv, MutexInv
  <2> QED BY <2>1, <2>2, <2>3, <2>4 DEF OnItsWay
<1> QED BY <1>1, TypeCorrect, RecentsCorrect, PTL

\* A change that was made is in the newest state until it is settled: no other
\* caller's change, made at the same time, writes over it.
THEOREM LostCorrect == Spec => []NoChangeIsLost
<1>1. RecentsInv => NoChangeIsLost
  BY DEF RecentsInv, ListsInv, NoChangeIsLost
<1> QED BY <1>1, RecentsCorrect, PTL

\* When FlushRecents returns, every change made before it has been settled.
THEOREM FlushCorrect == Spec => []FlushLeavesNothing
<1>1. RecentsInv => FlushLeavesNothing
  BY DEF RecentsInv, ToldInv, FlushLeavesNothing
<1> QED BY <1>1, RecentsCorrect, PTL

-----------------------------------------------------------------------------
(* The refinement: every step of the writer and of its callers is a step of   *)
(* RecentsRegister, or none.                                                  *)

\* The register's variables that are not the writer's own.
proposed == pending \ disk
dead == Made \ (disk \cup pending)

\* The first state is a first state of the register.
LEMMA RegisterInit == Init => Register!Init
  BY DEF Init, Register!Init

\* The changes that are settled are those that are kept or dead.
LEMMA SettledLemma ==
    ASSUME TypeOK, RecentsInv, NEW c \in Made, number[c] <= written
    PROVE  c \notin proposed
<1>1. written \in Nat /\ number[c] \in Nat
  BY DEF TypeOK
<1>2. c \in pending \ disk => number[c] > written
  BY DEF RecentsInv, ListsInv
<1> QED BY <1>1, <1>2 DEF proposed

\* A step of a caller is one of the register's, or none.
LEMMA CallerSimulates ==
    ASSUME TypeOK, RecentsInv, NEW c \in Changes, Modify(c)
    PROVE  [Register!Next]_(Register!vars)
<1>1. CASE ChangeBegins(c) \/ ReadsPending(c) \/ ReadsFile(c)
  BY <1>1 DEF ChangeBegins, ReadsPending, ReadsFile, Register!vars, stateVars
<1>2. CASE NoChange(c)
  <2>1. number[c] = 0 /\ told[c] = "nothing" /\ c \notin disk /\ c \notin pending
    BY <1>2 DEF NoChange, RecentsInv, NumbersInv, ToldInv, ListsInv
  <2>2. Register!Tell(c, "no change")
    BY <1>2, <2>1 DEF NoChange, Register!Tell, Register!Truth, stateVars
  <2> QED BY <2>2 DEF Register!Next, Register!Answers
<1>3. CASE Enqueue(c)
  <2>1. number[c] = 0 /\ c \notin disk /\ c \notin pending /\ at[c] = "make"
    BY <1>3 DEF Enqueue, RecentsInv, NumbersInv, ListsInv
  <2>2. read[c] = IF pending = {} THEN disk ELSE pending
    BY <2>1 DEF RecentsInv, MutexInv
  <2>3. pending' \ disk' = (pending \ disk) \cup {c} /\ disk' = disk /\ told' = told
    BY <1>3, <2>1, <2>2 DEF Enqueue
  <2>4. Made' = Made \cup {c}
    <3>1. gen \in Nat /\ number \in [Changes -> Nat]
      BY DEF TypeOK
    <3>2. number' = [number EXCEPT ![c] = gen + 1]
      BY <1>3 DEF Enqueue
    <3> QED BY <3>1, <3>2
  <2>5. disk' \cup pending' = disk \cup pending \cup {c}
    BY <2>3
  <2>6. Made' \ (disk' \cup pending') = Made \ (disk \cup pending)
    BY <2>1, <2>4, <2>5
  <2>7. Register!Propose(c)
    BY <2>1, <2>3, <2>6 DEF Register!Propose
  <2> QED BY <2>7 DEF Register!Next
<1>4. CASE Wait(c)
  <2>1. /\ at[c] = "wait" /\ c \in Made /\ number[c] <= written /\ told[c] = "nothing"
        /\ told' = [told EXCEPT ![c] = Answer(number[c])] /\ UNCHANGED <<disk, pending, number>>
    BY <1>4 DEF Wait, RecentsInv, NumbersInv, ToldInv, stateVars
  <2>2. c \in disk \/ c \in dead
    BY <2>1, SettledLemma DEF proposed, dead
  <2>3. Answer(number[c]) \in {"unknown", "written", "failed"}
    BY DEF Answer
  <2>4. /\ Answer(number[c]) = "written" => c \in disk
        /\ Answer(number[c]) = "failed" => c \notin disk
    <3>1. told'[c] = Answer(number[c])
      BY <2>1 DEF TypeOK
    <3>2. ToldInv'
      BY <1>4, WaitStep DEF RecentsInv
    <3> QED BY <2>1, <3>1, <3>2 DEF ToldInv
  <2>5. Register!Tell(c, Answer(number[c]))
    BY <2>1, <2>2, <2>3, <2>4 DEF Register!Tell, Register!Truth, dead
  <2> QED BY <2>3, <2>5 DEF Register!Next, Register!Answers
<1> QED BY <1>1, <1>2, <1>3, <1>4 DEF Modify

\* So is one of the writer's goroutine.
LEMMA WriterSimulates ==
    ASSUME TypeOK, RecentsInv, Run
    PROVE  [Register!Next]_(Register!vars)
<1>1. CASE Take \/ WriteFails \/ FailureLocks
  BY <1>1 DEF Take, WriteFails, FailureLocks, Register!vars, stateVars, callVars
<1>2. CASE Write
  <2>1. disk' = list /\ list \subseteq pending /\ disk \subseteq list
    <3>1. disk' = list /\ writer = "write" /\ list # {} /\ list \subseteq pending /\ written < g
      BY <1>2 DEF Write, RecentsInv, WriterInv
    <3>2. \A d \in pending : d \in list <=> number[d] <= g
      BY <3>1 DEF RecentsInv, WriterInv
    <3>3. disk \subseteq pending /\ disk \subseteq Changes /\ \A d \in disk : number[d] <= written
      BY <3>1 DEF TypeOK, RecentsInv, ListsInv
    <3>4. written \in Nat /\ g \in Nat /\ number \in [Changes -> Nat]
      BY DEF TypeOK
    <3>5. \A d \in disk : number[d] <= g
      BY <3>1, <3>3, <3>4
    <3> QED BY <3>1, <3>2, <3>3, <3>5
  <2>2. UNCHANGED <<pending, number, told>>
    BY <1>2 DEF Write, stateVars, callVars
  <2>3. Register!Keep(list \ disk)
    BY <2>1, <2>2 DEF Register!Keep
  <2>4. list \ disk \in SUBSET Changes
    BY DEF TypeOK
  <2> QED BY <2>3, <2>4 DEF Register!Next
<1>3. CASE SettleWritten
  <2>1. writer = "written" /\ UNCHANGED <<disk, number, told>> /\ pending' = StillPending(TRUE)
    BY <1>3 DEF SettleWritten, Settle, callVars
  <2>2. gen = g => pending = disk
    <3>1. disk = list /\ list \subseteq pending /\ \A d \in pending : d \in list <=> number[d] <= g
      BY <2>1 DEF RecentsInv, WriterInv
    <3>2. pending \subseteq Changes /\ \A d \in Changes : number[d] <= gen
      BY DEF TypeOK, RecentsInv, NumbersInv
    <3> QED BY <3>1, <3>2
  <2>3. pending' \ disk = pending \ disk /\ disk \cup pending' = disk \cup pending
    BY <2>1, <2>2 DEF StillPending
  <2> QED BY <2>1, <2>3 DEF Register!vars
<1>4. CASE SettleFailed
  <2>1. UNCHANGED <<disk, number, told>> /\ pending' = {}
    BY <1>4 DEF SettleFailed, Settle, StillPending, callVars
  <2>2. pending \subseteq Made
    BY DEF RecentsInv, ListsInv
  <2>3. Register!TakeBack
    BY <2>1, <2>2 DEF Register!TakeBack
  <2> QED BY <2>3 DEF Register!Next
<1> QED BY <1>1, <1>2, <1>3, <1>4 DEF Run

\* And any step.
LEMMA StepSimulates == TypeOK /\ RecentsInv /\ [Next]_vars => [Register!Next]_(Register!vars)
<1> SUFFICES ASSUME TypeOK, RecentsInv, [Next]_vars PROVE [Register!Next]_(Register!vars)
  OBVIOUS
<1>1. ASSUME NEW c \in Changes, Modify(c) PROVE [Register!Next]_(Register!vars)
  BY <1>1, CallerSimulates
<1>2. CASE Run
  BY <1>2, WriterSimulates
<1>3. CASE FlushBegins \/ FlushReturns \/ UNCHANGED vars
  BY <1>3 DEF FlushBegins, FlushReturns, vars, Register!vars, stateVars, callVars
<1> QED BY <1>1, <1>2, <1>3 DEF Next

\* The list of recent projects implements RecentsRegister: a change is kept for
\* good or taken back with all that were built beside it, and callers are told
\* the truth, under any interleaving of callers, writes and failures.
THEOREM RegisterCorrect == Spec => RegisterSpec
  BY RegisterInit, StepSimulates, TypeCorrect, RecentsCorrect, PTL DEF Spec, RegisterSpec, Register!Spec
=============================================================================
