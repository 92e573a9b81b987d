-------------------------- MODULE ConversionProofs --------------------------
(***************************************************************************)
(* Proofs for module Conversion, for any set of calls, every mix of        *)
(* requests, any number of workers, of errors and of restarts: no job      *)
(* completes on a missing or half-written output unless jobs overlapped,   *)
(* and a retry starts nothing.                                             *)
(*                                                                         *)
(* The inductive invariant follows a job from the call that creates it to  *)
(* its worker (Placed), and says what the absence of overlap buys (Alone): *)
(* one live job at most, none while a call looks at the output, and every  *)
(* half-written output under a row that is still running, which later      *)
(* calls join instead of trusting the files.                               *)
(***************************************************************************)
EXTENDS Conversion, SequenceFacts

Untaken   == {"new", "jobs", "artifact", "recover", "recovered", "cached", "clean", "decide"}
Looking   == {"artifact", "recover", "recovered", "cached", "clean"}
Stages    == Untaken \cup {"idem", "hand", "done", "raised"}
Underway  == {"convert", "target", "removing", "copy", "copying", "record", "complete"}

MoreTypes ==
    /\ request \in [Clients -> [force : BOOLEAN, keyed : BOOLEAN]]
    /\ at \in [Clients -> Stages]
    /\ queue \in Seq(Clients)
    /\ orphans \subseteq Clients /\ retry \subseteq Clients /\ half \subseteq Clients
    /\ overlap \in BOOLEAN /\ clears \in Nat

Types == TypeOK /\ MoreTypes

\* How far the call that created a job and the job's worker are.
Placed(c) ==
    /\ at[c] \in Untaken => job[c] = "none"
    /\ at[c] = "idem" => found[c] # None
    /\ at[c] = "hand" => job[c] = "queued"
    /\ at[c] \in Untaken \cup {"idem", "hand"} => run[c] = "none" /\ c \notin ToSet(queue) \cup orphans
    /\ c \in ToSet(queue) => job[c] = "queued" /\ run[c] = "none"
    /\ run[c] = "start" => job[c] = "queued"
    /\ run[c] \in Underway => job[c] = "running"
    /\ run[c] = "after" => job[c] = "completed"
    /\ run[c] = "failing" => job[c] \in {"running", "completed"}
    /\ c \in orphans => Unfinished(c) /\ run[c] = "none" /\ c \notin ToSet(queue)

Answered ==
    /\ clear # "none" => clears # 0
    /\ \A c \in Clients : at[c] \in {"hand", "done"} /\ request[c].keyed /\ clears = 0 => idem.job # None

Retried == \A c \in retry : at[c] \in {"done", "raised"} /\ job[c] = "none"

\* What holds as long as nobody queued a job, or removed an output, under
\* another's feet.
Alone ==
    /\ \A i, j \in Clients : Live(i) /\ Live(j) => i = j
    /\ \A c, j \in Clients : at[c] \in Looking => ~Unfinished(j)
    /\ \A c \in Clients : /\ at[c] \in {"recovered", "cached"} => output.state \in {"whole", "torn"}
                          /\ run[c] = "copying" => output.state = "partial" /\ output.by = c
                          /\ run[c] \in {"record", "complete"} => output.state = "whole"
    /\ output.state = "partial" =>
        /\ output.by \in Clients /\ job[output.by] = "running"
        /\ run[output.by] = "copying" \/ output.by \in orphans
    /\ half = {}

ConvInv == /\ Types /\ \A c \in Clients : Placed(c)
           /\ Distinct(queue) /\ Answered /\ Retried
           /\ ~overlap => Alone

-----------------------------------------------------------------------------
USE DEF rows, calls, workers, history, Goto, SetJob, Step, CompleteOn, Absent, Torn, Leftover

\* The queue of the executor.
LEMMA QueueFacts ==
    ASSUME Types, Distinct(queue)
    PROVE  /\ ToSet(queue) \subseteq Clients
           /\ queue # <<>> => /\ Head(queue) \in ToSet(queue)
                              /\ Tail(queue) \in Seq(Clients)
                              /\ Distinct(Tail(queue))
                              /\ ToSet(Tail(queue)) = ToSet(queue) \ {Head(queue)}
<1>1. queue \in Seq(Clients)
    BY DEF Types, MoreTypes
<1>2. ToSet(queue) \subseteq Clients
    BY <1>1, LenProperties, ElementOfSeq DEF ToSet
<1>3. ASSUME queue # <<>>
      PROVE  /\ Head(queue) \in ToSet(queue)
             /\ Tail(queue) \in Seq(Clients)
             /\ Distinct(Tail(queue))
             /\ ToSet(Tail(queue)) = ToSet(queue) \ {Head(queue)}
  <2>1. /\ Tail(queue) \in Seq(Clients) /\ Len(queue) \in Nat /\ Len(queue) > 0
        /\ Len(Tail(queue)) = Len(queue) - 1 /\ Head(queue) = queue[1]
        /\ \A i \in 1..Len(Tail(queue)) : Tail(queue)[i] = queue[i + 1]
      BY <1>1, <1>3, HeadTailProperties, EmptySeq, LenProperties
  <2>2. DOMAIN queue = 1..Len(queue) /\ DOMAIN Tail(queue) = 1..Len(Tail(queue))
      BY <1>1, <2>1, LenProperties
  <2>3. Distinct(Tail(queue))
      BY <2>1 DEF Distinct
  <2>4. \A x : x \in ToSet(queue) <=> \E i \in 1..Len(queue) : queue[i] = x
      BY <2>2 DEF ToSet
  <2>5. \A x : x \in ToSet(Tail(queue)) <=> \E i \in 1..Len(Tail(queue)) : queue[i + 1] = x
      BY <2>1, <2>2 DEF ToSet
  <2>6. \A x : (\E i \in 1..Len(Tail(queue)) : queue[i + 1] = x) <=> \E i \in 2..Len(queue) : queue[i] = x
    <3>1. ASSUME NEW i \in 1..Len(Tail(queue)) PROVE i + 1 \in 2..Len(queue)
        BY <2>1
    <3>2. ASSUME NEW i \in 2..Len(queue) PROVE i - 1 \in 1..Len(Tail(queue)) /\ i = (i - 1) + 1
        BY <2>1
    <3>  QED  BY <3>1, <3>2
  <2>7. 1 \in 1..Len(queue) /\ \A i \in 2..Len(queue) : i \in 1..Len(queue) /\ queue[i] # queue[1]
      BY <2>1 DEF Distinct
  <2>8. \A i \in 1..Len(queue) : i = 1 \/ i \in 2..Len(queue)
      BY <2>1
  <2>  QED  BY <2>1, <2>3, <2>4, <2>5, <2>6, <2>7, <2>8
<1>  QED  BY <1>2, <1>3

\* The executor's queue is empty after a close and in a new process.
LEMMA EmptyQueue == <<>> \in Seq(Clients) /\ ToSet(<<>>) = {} /\ Distinct(<<>>)
BY DEF ToSet, Distinct

\* Every step keeps the types.
LEMMA TypesStep ==
    ASSUME ConvInv, [Next]_vars
    PROVE  Types'
<1>  USE DEF Types, TypeOK, MoreTypes, Stages, Untaken, Working, ConvInv, Placed
<1>0. CASE UNCHANGED vars
    BY <1>0 DEF vars
<1>1. ASSUME NEW c \in Clients, Begin(c) PROVE Types'
  <2>1. TypeOK'
      BY <1>1 DEF Begin
  <2>2. MoreTypes'
    <3>1. at' \in [Clients -> Stages]
        BY <1>1 DEF Begin
    <3>2. retry' \subseteq Clients
        BY <1>1 DEF Begin
    <3>  QED  BY <1>1, <3>1, <3>2 DEF Begin
  <2>  QED  BY <2>1, <2>2
<1>2. ASSUME NEW c \in Clients, FindJob(c) PROVE Types'
  <2>1. TypeOK'
    <3>1. CASE \E j \in Clients : Unfinished(j)
        BY <1>2, <3>1 DEF FindJob
    <3>2. CASE ~(\E j \in Clients : Unfinished(j))
        BY <1>2, <3>2 DEF FindJob
    <3>  QED  BY <3>1, <3>2
  <2>2. MoreTypes'
    <3>1. CASE \E j \in Clients : Unfinished(j)
        BY <1>2, <3>1 DEF FindJob
    <3>2. CASE ~(\E j \in Clients : Unfinished(j))
        BY <1>2, <3>2 DEF FindJob
    <3>  QED  BY <3>1, <3>2
  <2>  QED  BY <2>1, <2>2
<1>3. ASSUME NEW c \in Clients, UseArtifact(c) PROVE Types'
    BY <1>3 DEF UseArtifact
<1>4. ASSUME NEW c \in Clients, Inspect(c) PROVE Types'
    BY <1>4 DEF Inspect
<1>5. ASSUME NEW c \in Clients, Recover(c) PROVE Types'
    BY <1>5 DEF Recover
<1>6. ASSUME NEW c \in Clients, Clean(c) PROVE Types'
    BY <1>6 DEF Clean
<1>7. ASSUME NEW c \in Clients, CompleteCached(c) PROVE Types'
    BY <1>7 DEF CompleteCached
<1>8. ASSUME NEW c \in Clients, Decide(c) PROVE Types'
    BY <1>8 DEF Decide
<1>9. ASSUME NEW c \in Clients, StoreIdempotentJob(c) PROVE Types'
    BY <1>9 DEF StoreIdempotentJob
<1>10. ASSUME NEW c \in Clients, Hand(c) PROVE Types'
  <2>1. TypeOK'
      BY <1>10 DEF Hand
  <2>2. MoreTypes'
    <3>1. Append(queue, c) \in Seq(Clients)
        BY AppendProperties
    <3>  QED  BY <1>10, <3>1 DEF Hand
  <2>  QED  BY <2>1, <2>2
<1>11. ASSUME NEW c \in Clients, SubmitFails(c) PROVE Types'
    BY <1>11 DEF SubmitFails
<1>12. ASSUME NEW c \in Clients, StartJob(c) PROVE Types'
    BY <1>12 DEF StartJob
<1>13. ASSUME NEW c \in Clients, StartFails(c) PROVE Types'
    BY <1>13 DEF StartFails
<1>14. ASSUME NEW c \in Clients, Converted(c) PROVE Types'
    BY <1>14 DEF Converted
<1>15. ASSUME NEW c \in Clients, JobFails(c) PROVE Types'
    BY <1>15 DEF JobFails
<1>16. ASSUME NEW c \in Clients, FailJob(c) PROVE Types'
    BY <1>16 DEF FailJob
<1>17. ASSUME NEW c \in Clients, FailUnrecorded(c) PROVE Types'
    BY <1>17 DEF FailUnrecorded
<1>18. ASSUME NEW c \in Clients, CheckTarget(c) PROVE Types'
  <2>1. TypeOK'
    <3>1. CASE output' = output /\ (Step(c, "copy") \/ Step(c, "failing"))
        BY <1>18, <3>1 DEF CheckTarget
    <3>2. CASE output' = Torn /\ Step(c, "removing")
        BY <1>18, <3>2 DEF CheckTarget
    <3>  QED  BY <1>18, <3>1, <3>2 DEF CheckTarget
  <2>2. MoreTypes'
      BY <1>18 DEF CheckTarget
  <2>  QED  BY <2>1, <2>2
<1>19. ASSUME NEW c \in Clients, Removed(c) PROVE Types'
    BY <1>19 DEF Removed
<1>20. ASSUME NEW c \in Clients, CopyStarts(c) PROVE Types'
  <2>1. TypeOK'
    <3>1. CASE output.state = "none"
        BY <1>20, <3>1 DEF CopyStarts
    <3>2. CASE ~(output.state = "none")
        BY <1>20, <3>2 DEF CopyStarts
    <3>  QED  BY <3>1, <3>2
  <2>2. MoreTypes'
      BY <1>20 DEF CopyStarts
  <2>  QED  BY <2>1, <2>2
<1>21. ASSUME NEW c \in Clients, CopyEnds(c) PROVE Types'
    BY <1>21 DEF CopyEnds
<1>22. ASSUME NEW c \in Clients, CopyFails(c) PROVE Types'
    BY <1>22 DEF CopyFails
<1>23. ASSUME NEW c \in Clients, RecordArtifact(c) PROVE Types'
    BY <1>23 DEF RecordArtifact
<1>24. ASSUME NEW c \in Clients, CompleteJob(c) PROVE Types'
    BY <1>24 DEF CompleteJob
<1>25. ASSUME NEW c \in Clients, JobEnds(c) PROVE Types'
    BY <1>25 DEF JobEnds
<1>26. CASE Pick
  <2>1. TypeOK'
    <3>1. Head(queue) \in Clients
        BY <1>26, QueueFacts DEF Pick
    <3>  QED  BY <1>26, <3>1 DEF Pick
  <2>2. MoreTypes'
    <3>1. Tail(queue) \in Seq(Clients)
        BY <1>26, QueueFacts DEF Pick
    <3>  QED  BY <1>26, <3>1 DEF Pick
  <2>  QED  BY <2>1, <2>2
<1>27. CASE Close
  <2>1. TypeOK'
      BY <1>27 DEF Close
  <2>2. MoreTypes'
    <3>1. ToSet(queue) \subseteq Clients /\ <<>> \in Seq(Clients)
        BY QueueFacts, EmptyQueue
    <3>  QED  BY <1>27, <3>1 DEF Close
  <2>  QED  BY <2>1, <2>2
<1>28. CASE Restart
  <2>1. TypeOK'
      BY <1>28 DEF Restart
  <2>2. MoreTypes'
    <3>1. ToSet(queue) \subseteq Clients /\ <<>> \in Seq(Clients)
        BY QueueFacts, EmptyQueue
    <3>  QED  BY <1>28, <3>1 DEF Restart
  <2>  QED  BY <2>1, <2>2
<1>29. CASE ClearStarts
    BY <1>29 DEF ClearStarts
<1>30. CASE ClearSome
    BY <1>30 DEF ClearSome
<1>31. CASE ClearFiles
    BY <1>31 DEF ClearFiles
<1>32. CASE ClearArtifacts
    BY <1>32 DEF ClearArtifacts
<1>33. CASE ClearIdempotent
    BY <1>33 DEF ClearIdempotent
<1>34. CASE ClearStops
    BY <1>34 DEF ClearStops
<1>  HIDE DEF Types, TypeOK, MoreTypes, Stages, Untaken, Working, ConvInv, Placed
<1>  QED  BY <1>0, <1>1, <1>2, <1>3, <1>4, <1>5, <1>6, <1>7, <1>8, <1>9, <1>10, <1>11, <1>12, <1>13,
             <1>14, <1>15, <1>16, <1>17, <1>18, <1>19, <1>20, <1>21, <1>22, <1>23, <1>24, <1>25, <1>26,
             <1>27, <1>28, <1>29, <1>30, <1>31, <1>32, <1>33, <1>34
          DEF Next, SubmitStep, WorkerStep, ClearStep

\* Every step moves a job along its way, or leaves it.
LEMMA PlacedStep ==
    ASSUME ConvInv, [Next]_vars, NEW d \in Clients, Types'
    PROVE  Placed(d)'
<1>  USE DEF Types, TypeOK, MoreTypes, Stages, Untaken, Working, ConvInv, Placed, Unfinished, Underway
<1>0. CASE UNCHANGED vars
    BY <1>0 DEF vars
<1>1. ASSUME NEW c \in Clients, Begin(c) PROVE Placed(d)'
    BY <1>1 DEF Begin
<1>2. ASSUME NEW c \in Clients, FindJob(c) PROVE Placed(d)'
    BY <1>2, ConversionAssumption DEF FindJob
<1>3. ASSUME NEW c \in Clients, UseArtifact(c) PROVE Placed(d)'
    BY <1>3 DEF UseArtifact
<1>4. ASSUME NEW c \in Clients, Inspect(c) PROVE Placed(d)'
    BY <1>4 DEF Inspect
<1>5. ASSUME NEW c \in Clients, Recover(c) PROVE Placed(d)'
    BY <1>5 DEF Recover
<1>6. ASSUME NEW c \in Clients, Clean(c) PROVE Placed(d)'
    BY <1>6 DEF Clean
<1>7. ASSUME NEW c \in Clients, CompleteCached(c) PROVE Placed(d)'
    BY <1>7, ConversionAssumption DEF CompleteCached
<1>8. ASSUME NEW c \in Clients, Decide(c) PROVE Placed(d)'
    BY <1>8, ConversionAssumption DEF Decide
<1>9. ASSUME NEW c \in Clients, StoreIdempotentJob(c) PROVE Placed(d)'
    BY <1>9 DEF StoreIdempotentJob
<1>10. ASSUME NEW c \in Clients, Hand(c) PROVE Placed(d)'
  <2>1. ToSet(Append(queue, c)) = ToSet(queue) \cup {c}
      BY AppendRange
  <2>2. ToSet(queue') = ToSet(queue) \cup {c}
      BY <1>10, <2>1 DEF Hand
  <2>3. /\ at[c] = "hand" /\ UNCHANGED <<job, found, run, orphans>>
        /\ \A e \in Clients : at'[e] = IF e = c THEN "done" ELSE at[e]
      BY <1>10 DEF Hand
  <2>  QED  BY <2>2, <2>3
<1>11. ASSUME NEW c \in Clients, SubmitFails(c) PROVE Placed(d)'
    BY <1>11 DEF SubmitFails
<1>12. ASSUME NEW c \in Clients, StartJob(c) PROVE Placed(d)'
    BY <1>12 DEF StartJob
<1>13. ASSUME NEW c \in Clients, StartFails(c) PROVE Placed(d)'
    BY <1>13 DEF StartFails
<1>14. ASSUME NEW c \in Clients, Converted(c) PROVE Placed(d)'
    BY <1>14 DEF Converted
<1>15. ASSUME NEW c \in Clients, JobFails(c) PROVE Placed(d)'
    BY <1>15 DEF JobFails
<1>16. ASSUME NEW c \in Clients, FailJob(c) PROVE Placed(d)'
    BY <1>16 DEF FailJob
<1>17. ASSUME NEW c \in Clients, FailUnrecorded(c) PROVE Placed(d)'
    BY <1>17 DEF FailUnrecorded
<1>18. ASSUME NEW c \in Clients, CheckTarget(c) PROVE Placed(d)'
    BY <1>18 DEF CheckTarget
<1>19. ASSUME NEW c \in Clients, Removed(c) PROVE Placed(d)'
    BY <1>19 DEF Removed
<1>20. ASSUME NEW c \in Clients, CopyStarts(c) PROVE Placed(d)'
    BY <1>20 DEF CopyStarts
<1>21. ASSUME NEW c \in Clients, CopyEnds(c) PROVE Placed(d)'
    BY <1>21 DEF CopyEnds
<1>22. ASSUME NEW c \in Clients, CopyFails(c) PROVE Placed(d)'
    BY <1>22 DEF CopyFails
<1>23. ASSUME NEW c \in Clients, RecordArtifact(c) PROVE Placed(d)'
    BY <1>23 DEF RecordArtifact
<1>24. ASSUME NEW c \in Clients, CompleteJob(c) PROVE Placed(d)'
    BY <1>24 DEF CompleteJob
<1>25. ASSUME NEW c \in Clients, JobEnds(c) PROVE Placed(d)'
    BY <1>25 DEF JobEnds
<1>26. CASE Pick
  <2>1. /\ Head(queue) \in ToSet(queue) /\ ToSet(queue) \subseteq Clients
        /\ ToSet(Tail(queue)) = ToSet(queue) \ {Head(queue)}
      BY <1>26, QueueFacts DEF Pick
  <2>  QED  BY <1>26, <2>1 DEF Pick
<1>27. CASE Close
  <2>1. ToSet(queue') = {} /\ ToSet(queue) \subseteq Clients
      BY <1>27, EmptyQueue, QueueFacts DEF Close
  <2>  QED  BY <1>27, <2>1 DEF Close
<1>28. CASE Restart
  <2>1. ToSet(queue') = {} /\ ToSet(queue) \subseteq Clients
      BY <1>28, EmptyQueue, QueueFacts DEF Restart
  <2>  QED  BY <1>28, <2>1 DEF Restart
<1>29. CASE ClearStarts
    BY <1>29 DEF ClearStarts
<1>30. CASE ClearSome
    BY <1>30 DEF ClearSome
<1>31. CASE ClearFiles
    BY <1>31 DEF ClearFiles
<1>32. CASE ClearArtifacts
    BY <1>32 DEF ClearArtifacts
<1>33. CASE ClearIdempotent
    BY <1>33 DEF ClearIdempotent
<1>34. CASE ClearStops
    BY <1>34 DEF ClearStops
<1>  HIDE DEF Types, TypeOK, MoreTypes, Stages, Untaken, Working, ConvInv, Placed, Unfinished, Underway
<1>  QED  BY <1>0, <1>1, <1>2, <1>3, <1>4, <1>5, <1>6, <1>7, <1>8, <1>9, <1>10, <1>11, <1>12, <1>13,
             <1>14, <1>15, <1>16, <1>17, <1>18, <1>19, <1>20, <1>21, <1>22, <1>23, <1>24, <1>25, <1>26,
             <1>27, <1>28, <1>29, <1>30, <1>31, <1>32, <1>33, <1>34
          DEF Next, SubmitStep, WorkerStep, ClearStep

\* A key is recorded before it is answered, and only clear_cache forgets it.
LEMMA AnsweredStep ==
    ASSUME ConvInv, [Next]_vars, Types'
    PROVE  Answered'
<1>  USE DEF Types, TypeOK, MoreTypes, Stages, Untaken, Working, ConvInv, Placed, Answered
<1>0. CASE UNCHANGED vars
    BY <1>0 DEF vars
<1>1. ASSUME NEW c \in Clients, Begin(c) PROVE Answered'
    BY <1>1 DEF Begin
<1>2. ASSUME NEW c \in Clients, FindJob(c) PROVE Answered'
    BY <1>2 DEF FindJob
<1>3. ASSUME NEW c \in Clients, UseArtifact(c) PROVE Answered'
    BY <1>3 DEF UseArtifact
<1>4. ASSUME NEW c \in Clients, Inspect(c) PROVE Answered'
    BY <1>4 DEF Inspect
<1>5. ASSUME NEW c \in Clients, Recover(c) PROVE Answered'
    BY <1>5 DEF Recover
<1>6. ASSUME NEW c \in Clients, Clean(c) PROVE Answered'
    BY <1>6 DEF Clean
<1>7. ASSUME NEW c \in Clients, CompleteCached(c) PROVE Answered'
    BY <1>7 DEF CompleteCached
<1>8. ASSUME NEW c \in Clients, Decide(c) PROVE Answered'
    BY <1>8 DEF Decide
<1>9. ASSUME NEW c \in Clients, StoreIdempotentJob(c) PROVE Answered'
    BY <1>9 DEF StoreIdempotentJob
<1>10. ASSUME NEW c \in Clients, Hand(c) PROVE Answered'
    BY <1>10 DEF Hand
<1>11. ASSUME NEW c \in Clients, SubmitFails(c) PROVE Answered'
    BY <1>11 DEF SubmitFails
<1>12. ASSUME NEW c \in Clients, StartJob(c) PROVE Answered'
    BY <1>12 DEF StartJob
<1>13. ASSUME NEW c \in Clients, StartFails(c) PROVE Answered'
    BY <1>13 DEF StartFails
<1>14. ASSUME NEW c \in Clients, Converted(c) PROVE Answered'
    BY <1>14 DEF Converted
<1>15. ASSUME NEW c \in Clients, JobFails(c) PROVE Answered'
    BY <1>15 DEF JobFails
<1>16. ASSUME NEW c \in Clients, FailJob(c) PROVE Answered'
    BY <1>16 DEF FailJob
<1>17. ASSUME NEW c \in Clients, FailUnrecorded(c) PROVE Answered'
    BY <1>17 DEF FailUnrecorded
<1>18. ASSUME NEW c \in Clients, CheckTarget(c) PROVE Answered'
    BY <1>18 DEF CheckTarget
<1>19. ASSUME NEW c \in Clients, Removed(c) PROVE Answered'
    BY <1>19 DEF Removed
<1>20. ASSUME NEW c \in Clients, CopyStarts(c) PROVE Answered'
    BY <1>20 DEF CopyStarts
<1>21. ASSUME NEW c \in Clients, CopyEnds(c) PROVE Answered'
    BY <1>21 DEF CopyEnds
<1>22. ASSUME NEW c \in Clients, CopyFails(c) PROVE Answered'
    BY <1>22 DEF CopyFails
<1>23. ASSUME NEW c \in Clients, RecordArtifact(c) PROVE Answered'
    BY <1>23 DEF RecordArtifact
<1>24. ASSUME NEW c \in Clients, CompleteJob(c) PROVE Answered'
    BY <1>24 DEF CompleteJob
<1>25. ASSUME NEW c \in Clients, JobEnds(c) PROVE Answered'
    BY <1>25 DEF JobEnds
<1>26. CASE Pick
    BY <1>26 DEF Pick
<1>27. CASE Close
    BY <1>27 DEF Close
<1>28. CASE Restart
    BY <1>28 DEF Restart
<1>29. CASE ClearStarts
    BY <1>29 DEF ClearStarts
<1>30. CASE ClearSome
    BY <1>30 DEF ClearSome
<1>31. CASE ClearFiles
    BY <1>31 DEF ClearFiles
<1>32. CASE ClearArtifacts
    BY <1>32 DEF ClearArtifacts
<1>33. CASE ClearIdempotent
    BY <1>33 DEF ClearIdempotent
<1>34. CASE ClearStops
    BY <1>34 DEF ClearStops
<1>  HIDE DEF Types, TypeOK, MoreTypes, Stages, Untaken, Working, ConvInv, Placed, Answered
<1>  QED  BY <1>0, <1>1, <1>2, <1>3, <1>4, <1>5, <1>6, <1>7, <1>8, <1>9, <1>10, <1>11, <1>12, <1>13,
             <1>14, <1>15, <1>16, <1>17, <1>18, <1>19, <1>20, <1>21, <1>22, <1>23, <1>24, <1>25, <1>26,
             <1>27, <1>28, <1>29, <1>30, <1>31, <1>32, <1>33, <1>34
          DEF Next, SubmitStep, WorkerStep, ClearStep

\* A retry finds the record: it is answered or refused at once.
LEMMA RetriedStep ==
    ASSUME ConvInv, [Next]_vars, Types'
    PROVE  Retried'
<1>  USE DEF Types, TypeOK, MoreTypes, Stages, Untaken, Working, ConvInv, Placed, Answered, Retried,
             Underway
<1>0. CASE UNCHANGED vars
    BY <1>0 DEF vars
<1>1. ASSUME NEW c \in Clients, Begin(c) PROVE Retried'
    BY <1>1 DEF Begin
<1>2. ASSUME NEW c \in Clients, FindJob(c) PROVE Retried'
    BY <1>2 DEF FindJob
<1>3. ASSUME NEW c \in Clients, UseArtifact(c) PROVE Retried'
    BY <1>3 DEF UseArtifact
<1>4. ASSUME NEW c \in Clients, Inspect(c) PROVE Retried'
    BY <1>4 DEF Inspect
<1>5. ASSUME NEW c \in Clients, Recover(c) PROVE Retried'
    BY <1>5 DEF Recover
<1>6. ASSUME NEW c \in Clients, Clean(c) PROVE Retried'
    BY <1>6 DEF Clean
<1>7. ASSUME NEW c \in Clients, CompleteCached(c) PROVE Retried'
    BY <1>7 DEF CompleteCached
<1>8. ASSUME NEW c \in Clients, Decide(c) PROVE Retried'
    BY <1>8 DEF Decide
<1>9. ASSUME NEW c \in Clients, StoreIdempotentJob(c) PROVE Retried'
    BY <1>9 DEF StoreIdempotentJob
<1>10. ASSUME NEW c \in Clients, Hand(c) PROVE Retried'
  <2>1. retry' = retry /\ job' = job /\ at[c] = "hand" /\ \A d \in Clients : d # c => at'[d] = at[d]
      BY <1>10 DEF Hand
  <2>  QED  BY <2>1
<1>11. ASSUME NEW c \in Clients, SubmitFails(c) PROVE Retried'
    BY <1>11 DEF SubmitFails
<1>12. ASSUME NEW c \in Clients, StartJob(c) PROVE Retried'
    BY <1>12 DEF StartJob
<1>13. ASSUME NEW c \in Clients, StartFails(c) PROVE Retried'
    BY <1>13 DEF StartFails
<1>14. ASSUME NEW c \in Clients, Converted(c) PROVE Retried'
    BY <1>14 DEF Converted
<1>15. ASSUME NEW c \in Clients, JobFails(c) PROVE Retried'
    BY <1>15 DEF JobFails
<1>16. ASSUME NEW c \in Clients, FailJob(c) PROVE Retried'
    BY <1>16 DEF FailJob
<1>17. ASSUME NEW c \in Clients, FailUnrecorded(c) PROVE Retried'
    BY <1>17 DEF FailUnrecorded
<1>18. ASSUME NEW c \in Clients, CheckTarget(c) PROVE Retried'
    BY <1>18 DEF CheckTarget
<1>19. ASSUME NEW c \in Clients, Removed(c) PROVE Retried'
    BY <1>19 DEF Removed
<1>20. ASSUME NEW c \in Clients, CopyStarts(c) PROVE Retried'
    BY <1>20 DEF CopyStarts
<1>21. ASSUME NEW c \in Clients, CopyEnds(c) PROVE Retried'
    BY <1>21 DEF CopyEnds
<1>22. ASSUME NEW c \in Clients, CopyFails(c) PROVE Retried'
    BY <1>22 DEF CopyFails
<1>23. ASSUME NEW c \in Clients, RecordArtifact(c) PROVE Retried'
    BY <1>23 DEF RecordArtifact
<1>24. ASSUME NEW c \in Clients, CompleteJob(c) PROVE Retried'
    BY <1>24 DEF CompleteJob
<1>25. ASSUME NEW c \in Clients, JobEnds(c) PROVE Retried'
    BY <1>25 DEF JobEnds
<1>26. CASE Pick
    BY <1>26 DEF Pick
<1>27. CASE Close
    BY <1>27 DEF Close
<1>28. CASE Restart
    BY <1>28 DEF Restart
<1>29. CASE ClearStarts
    BY <1>29 DEF ClearStarts
<1>30. CASE ClearSome
    BY <1>30 DEF ClearSome
<1>31. CASE ClearFiles
    BY <1>31 DEF ClearFiles
<1>32. CASE ClearArtifacts
    BY <1>32 DEF ClearArtifacts
<1>33. CASE ClearIdempotent
    BY <1>33 DEF ClearIdempotent
<1>34. CASE ClearStops
    BY <1>34 DEF ClearStops
<1>  HIDE DEF Types, TypeOK, MoreTypes, Stages, Untaken, Working, ConvInv, Placed, Answered, Retried,
              Underway
<1>  QED  BY <1>0, <1>1, <1>2, <1>3, <1>4, <1>5, <1>6, <1>7, <1>8, <1>9, <1>10, <1>11, <1>12, <1>13,
             <1>14, <1>15, <1>16, <1>17, <1>18, <1>19, <1>20, <1>21, <1>22, <1>23, <1>24, <1>25, <1>26,
             <1>27, <1>28, <1>29, <1>30, <1>31, <1>32, <1>33, <1>34
          DEF Next, SubmitStep, WorkerStep, ClearStep

\* As long as nothing overlaps, the output belongs to the one live job.
LEMMA AloneStep ==
    ASSUME ConvInv, [Next]_vars, Types'
    PROVE  ~overlap' => Alone'
<1>  USE DEF Types, TypeOK, MoreTypes, Stages, Untaken, Working, ConvInv, Placed, Alone, Deciding,
             Looking, Unfinished, Live, UnderFeet, Valid, Underway
<1>0. CASE UNCHANGED vars
    BY <1>0 DEF vars
<1>1. ASSUME NEW c \in Clients, Begin(c) PROVE ~overlap' => Alone'
    BY <1>1 DEF Begin
<1>2. ASSUME NEW c \in Clients, FindJob(c) PROVE ~overlap' => Alone'
    BY <1>2 DEF FindJob
<1>3. ASSUME NEW c \in Clients, UseArtifact(c) PROVE ~overlap' => Alone'
    BY <1>3 DEF UseArtifact
<1>4. ASSUME NEW c \in Clients, Inspect(c) PROVE ~overlap' => Alone'
    BY <1>4 DEF Inspect
<1>5. ASSUME NEW c \in Clients, Recover(c) PROVE ~overlap' => Alone'
    BY <1>5 DEF Recover
<1>6. ASSUME NEW c \in Clients, Clean(c) PROVE ~overlap' => Alone'
  <2>1. ASSUME ~overlap' PROVE ~overlap /\ Alone /\ Deciding \subseteq {c} /\ \A j \in Clients : ~Live(j)
      BY <1>6, <2>1 DEF Clean
  <2>2. output'.state \in {"none", "torn"} /\ at[c] = "clean"
      BY <1>6 DEF Clean
  <2>3. /\ \A d \in Clients : at'[d] = IF d = c THEN "decide" ELSE at[d]
        /\ UNCHANGED <<job, run, orphans, half>>
      BY <1>6 DEF Clean
  <2>4. ASSUME ~overlap', NEW d \in Clients
        PROVE  at'[d] \notin Looking /\ run'[d] \notin {"copying", "record", "complete"}
    <3>1. ~Live(d) /\ (at[d] \in Looking => d = c)
        BY <2>1, <2>4
    <3>2. at'[d] \notin Looking
        BY <2>3, <3>1
    <3>3. run[d] \in {"copying", "record", "complete"} => job[d] = "running" /\ d \notin orphans
        OBVIOUS
    <3>  QED  BY <2>3, <3>1, <3>2, <3>3
  <2>  QED  BY <2>1, <2>2, <2>3, <2>4
<1>7. ASSUME NEW c \in Clients, CompleteCached(c) PROVE ~overlap' => Alone'
    BY <1>7 DEF CompleteCached
<1>8. ASSUME NEW c \in Clients, Decide(c) PROVE ~overlap' => Alone'
  <2>1. PICK status \in {"completed", "failed", "queued"} :
            /\ SetJob(c, status)
            /\ overlap' = (overlap \/ (status = "queued" /\ UnderFeet(Deciding \ {c})))
      BY <1>8 DEF Decide
  <2>2. ASSUME ~overlap' PROVE ~overlap /\ (status = "queued" => Deciding \subseteq {c} /\ \A j \in Clients : ~Live(j))
    <3>  HIDE DEF Types, TypeOK, MoreTypes, ConvInv, Deciding, Live
    <3>  QED  BY <2>1, <2>2
  <2>3. \A d \in Clients : at[d] \in Looking => d \in Deciding
      OBVIOUS
  <2>4. job[c] = "none" /\ run[c] = "none" /\ c \notin orphans
      BY <1>8 DEF Decide
  <2>5. \A d \in Clients : /\ at'[d] = IF d = c THEN "idem" ELSE at[d]
                           /\ job'[d] = IF d = c THEN status ELSE job[d]
    <3>1. at' = [at EXCEPT ![c] = "idem"]
        BY <1>8 DEF Decide
    <3>  QED  BY <2>1, <3>1
  <2>6. UNCHANGED <<output, run, orphans, half>>
      BY <1>8 DEF Decide
  <2>7. ASSUME ~overlap', NEW j \in Clients, Live(j)'
        PROVE  Live(j) \/ (j = c /\ status = "queued")
      BY <2>5, <2>6, <2>7
  <2>8. ASSUME ~overlap', NEW d \in Clients, at'[d] \in Looking
        PROVE  at[d] \in Looking /\ d # c
      BY <2>5, <2>8
  <2>9. ASSUME ~overlap', NEW j \in Clients, Unfinished(j)'
        PROVE  Unfinished(j) \/ (j = c /\ status = "queued")
      BY <2>5, <2>9
  <2>10. ASSUME ~overlap' PROVE Alone
      BY <2>2, <2>10
  <2>11. ASSUME ~overlap', NEW i \in Clients, NEW j \in Clients, Live(i)', Live(j)' PROVE i = j
      BY <2>2, <2>7, <2>10, <2>11
  <2>12. ASSUME ~overlap', NEW d \in Clients, NEW j \in Clients, at'[d] \in Looking PROVE ~Unfinished(j)'
    <3>  HIDE DEF Types, TypeOK, MoreTypes, ConvInv, Deciding, Live, Unfinished, Looking
    <3>  QED  BY <2>2, <2>3, <2>8, <2>9, <2>10, <2>12
  <2>13. ASSUME ~overlap', NEW d \in Clients
         PROVE  /\ at'[d] \in {"recovered", "cached"} => output'.state \in {"whole", "torn"}
                /\ run'[d] = "copying" => output'.state = "partial" /\ output'.by = d
                /\ run'[d] \in {"record", "complete"} => output'.state = "whole"
      BY <2>5, <2>6, <2>10, <2>13
  <2>14. ASSUME ~overlap', output'.state = "partial"
         PROVE  /\ output'.by \in Clients /\ job'[output'.by] = "running"
                /\ run'[output'.by] = "copying" \/ output'.by \in orphans'
      BY <2>4, <2>5, <2>6, <2>10, <2>14
  <2>15. ~overlap' => half' = {}
      BY <2>6, <2>10
  <2>  HIDE DEF Types, TypeOK, MoreTypes, ConvInv, Deciding, Live, Unfinished, Looking
  <2>  QED  BY <2>11, <2>12, <2>13, <2>14, <2>15
<1>9. ASSUME NEW c \in Clients, StoreIdempotentJob(c) PROVE ~overlap' => Alone'
    BY <1>9 DEF StoreIdempotentJob
<1>10. ASSUME NEW c \in Clients, Hand(c) PROVE ~overlap' => Alone'
    BY <1>10 DEF Hand
<1>11. ASSUME NEW c \in Clients, SubmitFails(c) PROVE ~overlap' => Alone'
    BY <1>11 DEF SubmitFails
<1>12. ASSUME NEW c \in Clients, StartJob(c) PROVE ~overlap' => Alone'
    BY <1>12 DEF StartJob
<1>13. ASSUME NEW c \in Clients, StartFails(c) PROVE ~overlap' => Alone'
    BY <1>13 DEF StartFails
<1>14. ASSUME NEW c \in Clients, Converted(c) PROVE ~overlap' => Alone'
    BY <1>14 DEF Converted
<1>15. ASSUME NEW c \in Clients, JobFails(c) PROVE ~overlap' => Alone'
    BY <1>15 DEF JobFails
<1>16. ASSUME NEW c \in Clients, FailJob(c) PROVE ~overlap' => Alone'
    BY <1>16 DEF FailJob
<1>17. ASSUME NEW c \in Clients, FailUnrecorded(c) PROVE ~overlap' => Alone'
    BY <1>17 DEF FailUnrecorded
<1>18. ASSUME NEW c \in Clients, CheckTarget(c) PROVE ~overlap' => Alone'
    BY <1>18 DEF CheckTarget
<1>19. ASSUME NEW c \in Clients, Removed(c) PROVE ~overlap' => Alone'
    BY <1>19 DEF Removed
<1>20. ASSUME NEW c \in Clients, CopyStarts(c) PROVE ~overlap' => Alone'
    BY <1>20 DEF CopyStarts
<1>21. ASSUME NEW c \in Clients, CopyEnds(c) PROVE ~overlap' => Alone'
    BY <1>21 DEF CopyEnds
<1>22. ASSUME NEW c \in Clients, CopyFails(c) PROVE ~overlap' => Alone'
    BY <1>22 DEF CopyFails
<1>23. ASSUME NEW c \in Clients, RecordArtifact(c) PROVE ~overlap' => Alone'
    BY <1>23 DEF RecordArtifact
<1>24. ASSUME NEW c \in Clients, CompleteJob(c) PROVE ~overlap' => Alone'
    BY <1>24 DEF CompleteJob
<1>25. ASSUME NEW c \in Clients, JobEnds(c) PROVE ~overlap' => Alone'
    BY <1>25 DEF JobEnds
<1>26. CASE Pick
  <2>1. Head(queue) \in Clients
      BY <1>26, QueueFacts DEF Pick
  <2>2. /\ \A j \in Clients : j # Head(queue) => run'[j] = run[j]
        /\ run'[Head(queue)] = "start" /\ run[Head(queue)] = "none"
      BY <1>26, <2>1, QueueFacts DEF Pick
  <2>  QED  BY <1>26, <2>1, <2>2 DEF Pick
<1>27. CASE Close
    BY <1>27 DEF Close
<1>28. CASE Restart
    BY <1>28 DEF Restart
<1>29. CASE ClearStarts
    BY <1>29 DEF ClearStarts
<1>30. CASE ClearSome
    BY <1>30 DEF ClearSome
<1>31. CASE ClearFiles
    BY <1>31 DEF ClearFiles
<1>32. CASE ClearArtifacts
    BY <1>32 DEF ClearArtifacts
<1>33. CASE ClearIdempotent
    BY <1>33 DEF ClearIdempotent
<1>34. CASE ClearStops
    BY <1>34 DEF ClearStops
<1>  HIDE DEF Types, TypeOK, MoreTypes, Stages, Untaken, Working, ConvInv, Placed, Alone, Deciding,
              Looking, Unfinished, Live, UnderFeet, Valid, Underway
<1>  QED  BY <1>0, <1>1, <1>2, <1>3, <1>4, <1>5, <1>6, <1>7, <1>8, <1>9, <1>10, <1>11, <1>12, <1>13,
             <1>14, <1>15, <1>16, <1>17, <1>18, <1>19, <1>20, <1>21, <1>22, <1>23, <1>24, <1>25, <1>26,
             <1>27, <1>28, <1>29, <1>30, <1>31, <1>32, <1>33, <1>34
          DEF Next, SubmitStep, WorkerStep, ClearStep

\* A job is handed to the executor once.
LEMMA DistinctStep ==
    ASSUME ConvInv, [Next]_vars
    PROVE  Distinct(queue)'
<1>  USE DEF ConvInv, Types, MoreTypes, Placed
<1>1. ASSUME NEW c \in Clients, Hand(c) PROVE Distinct(queue)'
  <2>1. c \notin ToSet(queue)
      BY <1>1 DEF Hand
  <2>2. Distinct(Append(queue, c))
      BY <2>1, AppendDistinct
  <2>  QED  BY <1>1, <2>2 DEF Hand
<1>2. CASE Pick
    BY <1>2, QueueFacts DEF Pick
<1>3. CASE Close \/ Restart
    BY <1>3, EmptyQueue DEF Close, Restart
<1>4. CASE UNCHANGED vars \/ ClearStep
    BY <1>4 DEF vars, ClearStep, ClearStarts, ClearSome, ClearFiles, ClearArtifacts, ClearIdempotent, ClearStops
<1>5. ASSUME NEW c \in Clients, Begin(c) PROVE Distinct(queue)'
    BY <1>5 DEF Begin
<1>6. ASSUME NEW c \in Clients, SubmitStep(c) PROVE Distinct(queue)'
    BY <1>1, <1>6 DEF SubmitStep, FindJob, UseArtifact, Inspect, Recover, Clean, CompleteCached, Decide,
                     StoreIdempotentJob, SubmitFails
<1>7. ASSUME NEW c \in Clients, WorkerStep(c) PROVE Distinct(queue)'
    BY <1>7 DEF WorkerStep, StartJob, StartFails, Converted, JobFails, FailJob, FailUnrecorded, CheckTarget,
                Removed, CopyStarts, CopyEnds, CopyFails, RecordArtifact, CompleteJob, JobEnds
<1>  QED  BY <1>2, <1>3, <1>4, <1>5, <1>6, <1>7 DEF Next

-----------------------------------------------------------------------------
(* The theorems.                                                           *)

LEMMA ConvInit == Init => ConvInv
<1>  SUFFICES ASSUME Init PROVE ConvInv
    OBVIOUS
<1>  USE DEF Init
<1>1. Types
    BY ConversionAssumption, EmptyQueue DEF Types, TypeOK, MoreTypes, Stages, Untaken
<1>2. \A c \in Clients : Placed(c)
    BY EmptyQueue DEF Placed, Untaken, Underway
<1>3. Distinct(queue) /\ Answered /\ Retried
    BY EmptyQueue DEF Answered, Retried
<1>4. Alone
    BY DEF Alone, Live, Unfinished, Looking
<1>  QED  BY <1>1, <1>2, <1>3, <1>4 DEF ConvInv

LEMMA ConvStep == ConvInv /\ [Next]_vars => ConvInv'
<1>  SUFFICES ASSUME ConvInv, [Next]_vars PROVE ConvInv'
    OBVIOUS
<1>1. Types'
    BY TypesStep
<1>2. \A c \in Clients : Placed(c)'
    BY <1>1, PlacedStep
<1>3. Distinct(queue)' /\ Answered' /\ Retried' /\ (~overlap' => Alone')
    BY <1>1, DistinctStep, AnsweredStep, RetriedStep, AloneStep
<1>  QED  BY <1>1, <1>2, <1>3 DEF ConvInv

\* The inductive invariant holds in every reachable state, with any number of
\* calls, workers, errors, restarts and cleared caches: rows, calls and workers of
\* a job agree, an answered key is recorded, and as long as nobody queued a job or
\* removed an output under another's feet, at most one job is live and every
\* half-written output is under a running row.
THEOREM ConversionInvariant == Spec => []ConvInv
BY ConvInit, ConvStep, PTL DEF Spec

\* No job is reported completed on a half-written or missing output unless jobs
\* overlapped, wherever a call, a worker or clear_cache fails and wherever the
\* process ends: the row of an interrupted copy stays running, and later calls
\* join it.  An output whose removal was cut short is neither half-written nor
\* missing here: nothing in the code tells it from a whole one.
THEOREM CompletedOutputsAreWhole == Spec => []WholeUnlessOverlap
<1>1. ConvInv => WholeUnlessOverlap
    BY DEF ConvInv, Types, Alone, WholeUnlessOverlap
<1>  QED  BY <1>1, ConversionInvariant, PTL

\* A client that repeats a request under its idempotency key after the key was
\* answered creates no job, in this process or a later one.
THEOREM RetriesStartNothing == Spec => []RetryStartsNothing
<1>1. ConvInv => RetryStartsNothing
    BY DEF ConvInv, Retried, RetryStartsNothing
<1>  QED  BY <1>1, ConversionInvariant, PTL
=============================================================================
