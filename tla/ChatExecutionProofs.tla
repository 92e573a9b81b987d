------------------------ MODULE ChatExecutionProofs ------------------------
(***************************************************************************)
(* Proofs for module ChatExecution, for every set of requests, every mix   *)
(* of kinds, and every number of slots, batch members and deltas: what the *)
(* jobs at work hold, that verdicts agree, and that a verdict stands.      *)
(*                                                                         *)
(* The inductive invariant has three layers.  Teams: a request waits in    *)
(* one queue or is a member of one job.  Held: the admissions and leases   *)
(* of jobs at work.  Verdicts: the members of a job that has not concluded *)
(* are undecided.                                                          *)
(***************************************************************************)
EXTENDS ChatExecution, SequenceFacts, FiniteSetTheorems

MoreTypes ==
    /\ kind \in [Requests -> {"complete", "stream", "absent"} \cup Batched]
    /\ waiting \in [Batched -> Seq(Requests)]
    /\ team \in [Requests -> Seq(Requests)]

Queued ==
    \A k \in Batched :
        /\ Distinct(waiting[k])
        /\ \A r \in ToSet(waiting[k]) :
            /\ kind[r] = k /\ caller[r] # "new"
            /\ \A j \in Requests : r \notin Team(j)

Teamed ==
    \A j \in Requests :
        /\ job[j] = "none" => Team(j) = {}
        /\ job[j] # "none" => j \in Team(j)
        /\ \A r \in Team(j) : kind[r] = kind[j] /\ caller[r] # "new"
        /\ kind[j] \notin Batched => Team(j) \subseteq {j}
        /\ kind[j] \notin Batched /\ caller[j] = "waiting" => job[j] # "none"
        /\ \A i \in Requests : i # j => Team(i) \cap Team(j) = {}

Teams == TypeOK /\ MoreTypes /\ Queued /\ Teamed

Held ==
    /\ HeldByWork
    /\ IsFiniteSet(slot)
    /\ \A r \in stray : r \in Requests /\ job[r] = "over"

Undecided(r) == seq[r] = "active" /\ event[r] = "none"
Open         == {"acquire", "lease", "prepare", "run", "stream"}

Verdicts ==
    /\ \A r \in Requests : caller[r] = "new" => seq[r] = "none" /\ event[r] = "none"
    /\ \A k \in Batched : \A r \in ToSet(waiting[k]) : Undecided(r)
    /\ \A j \in Requests : job[j] \in Open => \A r \in Team(j) : Undecided(r)
    /\ \A j \in Requests : job[j] \in {"ending", "failing"} => kind[j] = "stream" /\ seq[j] # "active"
    /\ \A j \in kill : kind[j] = "stream" /\ j \in asked

ChatInv == Teams /\ Held /\ Verdicts /\ VerdictsAgree

-----------------------------------------------------------------------------
(* What most steps leave alone.                                            *)

LEMMA AdvanceFacts ==
    ASSUME TypeOK, NEW j \in Requests, NEW stage, Advance(j, stage)
    PROVE  \A i \in Requests : job'[i] = IF i = j THEN stage ELSE job[i]
BY DEF TypeOK, Advance

LEMMA AnswerFacts ==
    ASSUME TypeOK, NEW S, NEW v \in {"answered", "raised"}, Answer(S, v)
    PROVE  /\ caller' \in [Requests -> {"new", "waiting", "answered", "raised", "gone"}]
           /\ \A r \in Requests : /\ caller'[r] = "new" <=> caller[r] = "new"
                                  /\ caller'[r] = "waiting" => caller[r] = "waiting"
BY DEF TypeOK, Answer

LEMMA ConcludeFacts ==
    ASSUME TypeOK, NEW S, NEW v \in {"completed", "failed"}, Conclude(S, v)
    PROVE  /\ seq' \in [Requests -> {"none", "active", "completed", "failed"}]
           /\ event' \in [Requests -> {"none", "completed", "failed"}]
           /\ \A r \in Requests : /\ seq'[r] = IF r \in S THEN v ELSE seq[r]
                                  /\ event'[r] = IF r \in S THEN v ELSE event[r]
BY DEF TypeOK, Conclude, SetAll

LEMMA DrainedFacts ==
    ASSUME TypeOK, NEW j \in Requests, Drained(j)
    PROVE  drain' \in [Batched -> {"idle", "window", "busy"}]
BY DEF TypeOK, Drained

\* Queues and teams stay, and nobody is new again.
LEMMA TeamsFrame ==
    ASSUME Teams, TypeOK', UNCHANGED <<kind, waiting, team>>,
           \A r \in Requests : job'[r] = "none" <=> job[r] = "none",
           \A r \in Requests : /\ caller'[r] = "new" => caller[r] = "new"
                               /\ caller'[r] = "waiting" => caller[r] = "waiting"
    PROVE  Teams'
<1>1. \A j \in Requests : Team(j)' = Team(j)
    BY DEF Team
<1>2. MoreTypes'
    BY DEF Teams, MoreTypes
<1>3. \A k \in Batched : ToSet(waiting[k]) \subseteq Requests
    BY LenProperties, ElementOfSeq DEF Teams, MoreTypes, ToSet
<1>4. \A j \in Requests : Team(j) \subseteq Requests
    BY LenProperties, ElementOfSeq DEF Teams, MoreTypes, Team, ToSet
<1>5. Queued'
    BY <1>1, <1>3 DEF Teams, Queued
<1>6. Teamed'
    BY <1>1, <1>4 DEF Teams, Teamed
<1>  QED  BY <1>2, <1>5, <1>6 DEF Teams

\* The jobs at work stay the same, and so does what they hold.
LEMMA HeldFrame ==
    ASSUME Held, TypeOK', UNCHANGED <<slot, lease, stuck, stray>>,
           \A j \in Requests : /\ job'[j] \in Working <=> job[j] \in Working
                               /\ job'[j] \in Working \ {"lease"} <=> job[j] \in Working \ {"lease"}
                               /\ job[j] = "over" => job'[j] = "over"
                               /\ job[j] \in Working => Team(j)' = Team(j)
    PROVE  Held'
<1>1. {j \in Requests : job'[j] \in Working} = {j \in Requests : job[j] \in Working}
    OBVIOUS
<1>2. {i \in Requests : job'[i] \in Working \ {"lease"}} = {i \in Requests : job[i] \in Working \ {"lease"}}
    OBVIOUS
<1>3. UNION {Team(j)' : j \in {i \in Requests : job'[i] \in Working \ {"lease"}}}
        = UNION {Team(j) : j \in {i \in Requests : job[i] \in Working \ {"lease"}}}
    BY <1>2
<1>4. HeldByWork'
    BY <1>1, <1>2, <1>3 DEF Held, HeldByWork
<1>  QED  BY <1>4 DEF Held

\* Leases of the jobs past loading, without the set of sets.
LEMMA LeaseMeaning ==
    lease \subseteq stray \cup UNION {Team(j) : j \in {i \in Requests : job[i] \in Working \ {"lease"}}}
      <=> \A r \in lease : r \in stray \/ \E j \in Requests : job[j] \in Working \ {"lease"} /\ r \in Team(j)
OBVIOUS

\* A job ends.  What it does not return is stuck or stray.
LEMMA HeldEnds ==
    ASSUME Teams, Held, TypeOK', NEW j \in Requests, job[j] # "none",
           Advance(j, "over"), UNCHANGED team,
           slot' = slot \ {j} \/ (slot' = slot /\ {j} \cap slot \subseteq stuck'),
           lease' \subseteq lease, lease \ Team(j) \subseteq lease', lease' \cap Team(j) \subseteq stray',
           stuck \subseteq stuck', stray \subseteq stray', stray' \subseteq stray \cup {j}
    PROVE  Held'
<1>1. \A i \in Requests : Team(i)' = Team(i)
    BY DEF Team
<1>2. \A i \in Requests : job'[i] = IF i = j THEN "over" ELSE job[i]
    BY AdvanceFacts DEF Teams
<1>3. "over" \notin Working
    BY DEF Working, Producing
<1>4. \A i \in Requests : i # j => Team(i) \cap Team(j) = {}
    BY DEF Teams, Teamed
<1>5. IsFiniteSet(slot') /\ Cardinality(slot') <= Cardinality(slot)
    BY FS_RemoveElement, FS_Subset, FS_CardinalityType DEF Held
<1>6. Cardinality(slot') <= MaxSlots
  <2>1. Cardinality(slot') \in Nat /\ Cardinality(slot) \in Nat /\ MaxSlots \in Nat
      BY <1>5, FS_CardinalityType, ChatAssumption DEF Held
  <2>2. Cardinality(slot) <= MaxSlots
      BY DEF Held, HeldByWork
  <2>  QED  BY <1>5, <2>1, <2>2
<1>7. /\ {i \in Requests : job'[i] \in Working} \subseteq slot'
      /\ slot' \subseteq {i \in Requests : job'[i] \in Working} \cup stuck'
    BY <1>2, <1>3 DEF Held, HeldByWork
<1>8. \A i \in Requests : job'[i] \in Working \ {"lease"} => Team(i)' \subseteq lease'
    BY <1>1, <1>2, <1>3, <1>4 DEF Held, HeldByWork
<1>9. \A r \in lease' : r \in stray' \/ \E i \in Requests : job'[i] \in Working \ {"lease"} /\ r \in Team(i)'
  <2>  SUFFICES ASSUME NEW r \in lease', r \notin stray'
                PROVE  \E i \in Requests : job'[i] \in Working \ {"lease"} /\ r \in Team(i)'
      OBVIOUS
  <2>1. PICK i \in Requests : job[i] \in Working \ {"lease"} /\ r \in Team(i)
      BY LeaseMeaning DEF Held, HeldByWork
  <2>2. i # j
      BY <2>1
  <2>  QED  BY <1>1, <1>2, <2>1, <2>2
<1>10. lease' \subseteq stray' \cup UNION {Team(i)' : i \in {k \in Requests : job'[k] \in Working \ {"lease"}}}
    BY <1>9
<1>11. HeldByWork'
    BY <1>6, <1>7, <1>8, <1>10 DEF HeldByWork
<1>12. \A r \in stray' : r \in Requests /\ job'[r] = "over"
    BY <1>2 DEF Held
<1>  QED  BY <1>5, <1>11, <1>12 DEF Held

\* A job ends and returns its admission and its members' leases.
LEMMA HeldRelease ==
    ASSUME Teams, Held, TypeOK', NEW j \in Requests, job[j] # "none",
           Advance(j, "over"), ReleaseAll(j), UNCHANGED <<team, stuck, stray>>
    PROVE  Held'
<1>1. slot' = slot \ {j} /\ lease' = lease \ Team(j)
    BY DEF ReleaseAll
<1>  QED  BY <1>1, HeldEnds

Active == {"acquire"} \cup Working

\* No verdict is reached: a job that stops leaves its undecided members to
\* forgotten and asked.
LEMMA VerdictFrame ==
    ASSUME Teams, Verdicts, VerdictsAgree,
           UNCHANGED <<kind, waiting, team, seq, event>>,
           \A r \in Requests : caller'[r] = "new" <=> caller[r] = "new",
           forgotten \subseteq forgotten', asked \subseteq asked',
           \A j \in kill' : kind[j] = "stream" /\ j \in asked',
           \A j \in Requests :
               /\ job'[j] \in Open => job[j] \in Open
               /\ job'[j] \in {"ending", "failing"} => job[j] \in {"ending", "failing"}
               /\ job[j] \in Active /\ job'[j] \notin Active =>
                    \A r \in Team(j) : seq[r] = "active" => r \in forgotten' \cup asked'
    PROVE  Verdicts' /\ VerdictsAgree'
<1>1. \A j \in Requests : Team(j)' = Team(j)
    BY DEF Team
<1>2. \A r : Undecided(r)' <=> Undecided(r)
    BY DEF Undecided
<1>3. Verdicts'
    BY <1>1, <1>2 DEF Verdicts
<1>4. ASSUME NEW r \in Requests, seq'[r] = "active"
      PROVE  \/ \E k \in Batched : Contains(waiting'[k], r)
             \/ \E j \in Requests : r \in Team(j)' /\ job'[j] \in Active
             \/ r \in forgotten' \cup asked'
  <2>1. \/ \E k \in Batched : Contains(waiting[k], r)
        \/ \E j \in Requests : r \in Team(j) /\ job[j] \in Active
        \/ r \in forgotten \cup asked
      BY <1>4 DEF VerdictsAgree, Active
  <2>2. ASSUME NEW j \in Requests, r \in Team(j), job[j] \in Active
        PROVE  job'[j] \in Active \/ r \in forgotten' \cup asked'
      BY <1>4, <2>2
  <2>  QED  BY <1>1, <2>1, <2>2
<1>5. VerdictsAgree'
    BY <1>4 DEF VerdictsAgree, Active
<1>  QED  BY <1>3, <1>5

\* A job concludes all its members and ends.
LEMMA ConcludeFrame ==
    ASSUME Teams, Verdicts, VerdictsAgree, NEW j \in Requests, job[j] # "none",
           NEW v \in {"completed", "failed"}, Conclude(Team(j), v), Advance(j, "over"),
           UNCHANGED <<kind, waiting, team, kill>>,
           forgotten \subseteq forgotten', asked \subseteq asked',
           \A r \in Requests : caller'[r] = "new" <=> caller[r] = "new"
    PROVE  Verdicts' /\ VerdictsAgree'
<1>1. \A i \in Requests : Team(i)' = Team(i)
    BY DEF Team
<1>2. \A i \in Requests : job'[i] = IF i = j THEN "over" ELSE job[i]
    BY AdvanceFacts DEF Teams
<1>3. \A r \in Requests : /\ seq'[r] = IF r \in Team(j) THEN v ELSE seq[r]
                          /\ event'[r] = IF r \in Team(j) THEN v ELSE event[r]
    BY ConcludeFacts DEF Teams
<1>4. \A i \in Requests : i # j => Team(i) \cap Team(j) = {}
    BY DEF Teams, Teamed
<1>5. \A i \in Requests : Team(i) \subseteq Requests
    BY LenProperties, ElementOfSeq DEF Teams, MoreTypes, Team, ToSet
<1>6. \A k \in Batched : ToSet(waiting[k]) \subseteq Requests
    BY LenProperties, ElementOfSeq DEF Teams, MoreTypes, ToSet
<1>7. "over" \notin Open \cup {"ending", "failing"} \cup Active
    BY DEF Open, Active, Working, Producing
<1>8. \A r \in Requests : caller'[r] = "new" => seq'[r] = "none" /\ event'[r] = "none"
    BY <1>3 DEF Verdicts, Teams, Teamed
<1>9. \A k \in Batched : \A r \in ToSet(waiting'[k]) : Undecided(r)'
    BY <1>3, <1>6 DEF Verdicts, Teams, Queued, Undecided
<1>10. \A i \in Requests : job'[i] \in Open => \A r \in Team(i)' : Undecided(r)'
    BY <1>1, <1>2, <1>3, <1>4, <1>5, <1>7 DEF Verdicts, Undecided
<1>11. ASSUME NEW i \in Requests, job'[i] \in {"ending", "failing"}
       PROVE  kind'[i] = "stream" /\ seq'[i] # "active"
  <2>1. job[i] \in {"ending", "failing"}
      BY <1>2, <1>7, <1>11
  <2>  QED  BY <1>3, <2>1 DEF Verdicts
<1>12. \A i \in kill' : kind'[i] = "stream" /\ i \in asked'
    BY DEF Verdicts
<1>13. Verdicts'
    BY <1>8, <1>9, <1>10, <1>11, <1>12 DEF Verdicts
<1>14. ASSUME NEW r \in Requests, seq'[r] = "active"
       PROVE  \/ \E k \in Batched : Contains(waiting'[k], r)
              \/ \E i \in Requests : r \in Team(i)' /\ job'[i] \in Active
              \/ r \in forgotten' \cup asked'
  <2>1. r \notin Team(j) /\ seq[r] = "active"
      BY <1>3, <1>14
  <2>2. \/ \E k \in Batched : Contains(waiting[k], r)
        \/ \E i \in Requests : r \in Team(i) /\ job[i] \in Active
        \/ r \in forgotten \cup asked
      BY <2>1 DEF VerdictsAgree, Active
  <2>  QED  BY <1>1, <1>2, <2>1, <2>2
<1>15. \A r \in Requests :
        /\ event'[r] = "completed" <=> seq'[r] = "completed"
        /\ event'[r] = "failed" => seq'[r] = "failed" \/ (kind'[r] = "bstream" /\ r \in asked')
    BY <1>3 DEF VerdictsAgree
<1>16. VerdictsAgree'
    BY <1>14, <1>15 DEF VerdictsAgree, Active
<1>  QED  BY <1>13, <1>16

\* A step of a reader or of a producer between two stages.
LEMMA QuietFrame ==
    ASSUME ChatInv, TypeOK',
           UNCHANGED <<kind, caller, waiting, job, team, slot, lease, seq, event, stuck, stray, forgotten>>,
           asked \subseteq asked', \A j \in kill' : kind[j] = "stream" /\ j \in asked'
    PROVE  ChatInv'
<1>1. Teams'
    BY TeamsFrame DEF ChatInv
<1>2. Held'
    BY HeldFrame DEF ChatInv, Team
<1>3. Verdicts' /\ VerdictsAgree'
    BY VerdictFrame DEF ChatInv
<1>  QED  BY <1>1, <1>2, <1>3 DEF ChatInv

-----------------------------------------------------------------------------
(* The producer of a stream, and the response.                             *)

LEMMA QuietSteps ==
    ASSUME ChatInv, NEW r \in Requests,
           CancelNamed(r) \/ Delta(r) \/ (\E q \in Requests : BatchDelta(r, q)) \/ Opened(r) \/ Begin(r) \/ Forward(r)
    PROVE  ChatInv'
<1>1. TypeOK /\ \A j \in kill : kind[j] = "stream" /\ j \in asked
    BY DEF ChatInv, Teams, Verdicts
<1>2. /\ TypeOK'
      /\ UNCHANGED <<kind, caller, waiting, job, team, slot, lease, seq, event, stuck, stray, forgotten>>
      /\ UNCHANGED <<asked, kill>>
  <2>1. CASE CancelNamed(r)
      BY <1>1, <2>1 DEF CancelNamed, TypeOK, frontier, held, verdict, stream, reader, holes
  <2>2. CASE Delta(r)
      BY <1>1, <2>2 DEF Delta, TypeOK, frontier, held, verdict, reader, holes
  <2>3. CASE \E q \in Requests : BatchDelta(r, q)
      BY <1>1, <2>3 DEF BatchDelta, TypeOK, frontier, held, verdict, reader, holes
  <2>4. CASE Opened(r)
      BY <1>1, <2>4 DEF Opened, EndResponse, TypeOK, frontier, held, verdict, stream, holes
  <2>5. CASE Begin(r)
      BY <1>1, <2>5 DEF Begin, EndResponse, TypeOK, frontier, held, verdict, stream
  <2>6. CASE Forward(r)
      BY <1>1, <2>6 DEF Forward, EndResponse, TypeOK, frontier, held, verdict, stream, holes
  <2>  QED  BY <2>1, <2>2, <2>3, <2>4, <2>5, <2>6
<1>  QED  BY <1>1, <1>2, QuietFrame

\* Closing a source marks the sequence and at most kills a stream of its own.
LEMMA CloseFacts ==
    ASSUME ChatInv, NEW r \in Requests, CloseSource(r) \/ UNCHANGED <<source, asked, kill>>
    PROVE  /\ source' \in [Requests -> {"none", "open", "closed"}]
           /\ kill' \subseteq Requests
           /\ asked \subseteq asked' /\ \A j \in kill' : kind[j] = "stream" /\ j \in asked'
<1>1. TypeOK /\ \A j \in kill : kind[j] = "stream" /\ j \in asked
    BY DEF ChatInv, Teams, Verdicts
<1>  QED  BY <1>1 DEF CloseSource, TypeOK

LEMMA ClosingSteps ==
    ASSUME ChatInv, NEW r \in Requests,
           TakeItem(r) \/ OpenCancelled(r) \/ SeeCancel(r) \/ Disconnect(r)
    PROVE  ChatInv'
<1>1. TypeOK
    BY DEF ChatInv, Teams
<1>2. ASSUME CloseIfOpen(r) PROVE CloseSource(r) \/ UNCHANGED <<source, asked, kill>>
    BY <1>2 DEF CloseIfOpen
<1>3. ASSUME EndResponse(r)
      PROVE  /\ resp' \in [Requests -> {"none", "opening", "headers", "reading", "over"}]
             /\ hold' \in [Requests -> {"none", "delta", "end", "exc"}]
    BY <1>1, <1>3 DEF EndResponse, TypeOK
<1>4. CASE TakeItem(r)
  <2>1. /\ UNCHANGED <<kind, caller, waiting, job, team, slot, lease, seq, event, stuck, stray, forgotten>>
        /\ UNCHANGED <<drain, resp>>
      BY <1>4 DEF TakeItem, frontier, held, holes
  <2>2. hold' \in [Requests -> {"none", "delta", "end", "exc"}]
      BY <1>1, <1>4 DEF TakeItem, TypeOK
  <2>3. /\ source' \in [Requests -> {"none", "open", "closed"}] /\ kill' \subseteq Requests
        /\ asked \subseteq asked' /\ \A j \in kill' : kind[j] = "stream" /\ j \in asked'
    <3>1. CASE CloseSource(r) \/ UNCHANGED <<source, asked, kill>>
        BY <3>1, CloseFacts
    <3>2. CASE source' = [source EXCEPT ![r] = "closed"] /\ UNCHANGED <<asked, kill>>
        BY <1>1, <3>2 DEF TypeOK, ChatInv, Verdicts
    <3>  QED  BY <1>4, <3>1, <3>2 DEF TakeItem
  <2>4. TypeOK'
      BY <1>1, <2>1, <2>2, <2>3 DEF TypeOK
  <2>  QED  BY <2>1, <2>3, <2>4, QuietFrame
<1>5. CASE OpenCancelled(r) \/ SeeCancel(r) \/ Disconnect(r)
  <2>1. /\ UNCHANGED <<kind, caller, waiting, job, team, slot, lease, seq, event, stuck, stray, forgotten>>
        /\ UNCHANGED drain
        /\ EndResponse(r)
      BY <1>5 DEF OpenCancelled, SeeCancel, Disconnect, frontier, held, holes
  <2>2. CloseSource(r) \/ UNCHANGED <<source, asked, kill>>
      BY <1>2, <1>5 DEF OpenCancelled, SeeCancel, Disconnect
  <2>3. /\ source' \in [Requests -> {"none", "open", "closed"}] /\ kill' \subseteq Requests
        /\ asked \subseteq asked' /\ \A j \in kill' : kind[j] = "stream" /\ j \in asked'
      BY <2>2, CloseFacts
  <2>4. TypeOK'
      BY <1>1, <1>3, <2>1, <2>3 DEF TypeOK
  <2>  QED  BY <2>1, <2>3, <2>4, QuietFrame
<1>  QED  BY <1>4, <1>5

LEMMA CollectInv ==
    ASSUME ChatInv, NEW r \in Requests, Collect(r)
    PROVE  ChatInv'
<1>1. TypeOK
    BY DEF ChatInv, Teams
<1>2. CASE r \in unclosed /\ source[r] = "open" /\ CloseSource(r) /\
           UNCHANGED <<kind, caller, cancelled, frontier, job, team, held, seq, event, queue, left, hold, resp, holes>>
  <2>1. /\ source' \in [Requests -> {"none", "open", "closed"}] /\ kill' \subseteq Requests
        /\ asked \subseteq asked' /\ \A j \in kill' : kind[j] = "stream" /\ j \in asked'
      BY <1>2, CloseFacts
  <2>2. TypeOK'
      BY <1>1, <1>2, <2>1 DEF TypeOK, frontier, held
  <2>  QED  BY <1>2, <2>1, <2>2, QuietFrame DEF frontier, held, holes
<1>3. CASE r \in stray \cap lease /\ lease' = lease \ {r} /\
           UNCHANGED <<kind, caller, cancelled, frontier, job, team, slot, verdict, stream, reader, holes>>
  <2>1. TypeOK'
      BY <1>1, <1>3 DEF TypeOK, frontier, verdict, stream, reader
  <2>2. Teams'
      BY <1>3, <2>1, TeamsFrame DEF ChatInv, frontier
  <2>3. Verdicts' /\ VerdictsAgree'
      BY <1>3, VerdictFrame DEF ChatInv, frontier, verdict, stream, holes, Verdicts
  <2>4. \A i \in Requests : Team(i)' = Team(i) /\ job'[i] = job[i]
      BY <1>3 DEF Team
  <2>5. job[r] = "over" /\ "over" \notin Working /\ "over" # "none"
      BY <1>3 DEF ChatInv, Held, Working, Producing
  <2>6. \A i \in Requests : job[i] \in Working => r \notin Team(i)
      BY <2>5 DEF ChatInv, Teams, Teamed
  <2>7. \A i \in Requests : job'[i] \in Working \ {"lease"} => Team(i)' \subseteq lease'
      BY <1>3, <2>4, <2>6 DEF ChatInv, Held, HeldByWork
  <2>8. lease' \subseteq stray' \cup UNION {Team(j)' : j \in {i \in Requests : job'[i] \in Working \ {"lease"}}}
    <3>1. UNION {Team(j)' : j \in {i \in Requests : job'[i] \in Working \ {"lease"}}}
            = UNION {Team(j) : j \in {i \in Requests : job[i] \in Working \ {"lease"}}}
        BY <2>4
    <3>  QED  BY <1>3, <3>1 DEF ChatInv, Held, HeldByWork, holes
  <2>9. HeldByWork'
      BY <1>3, <2>1, <2>7, <2>8 DEF ChatInv, Held, HeldByWork, holes
  <2>10. Held'
      BY <1>3, <2>9 DEF ChatInv, Held, holes
  <2>  QED  BY <2>2, <2>3, <2>10 DEF ChatInv
<1>  QED  BY <1>2, <1>3 DEF Collect

LEMMA FinishInv ==
    ASSUME ChatInv, NEW j \in Requests, Finish(j)
    PROVE  ChatInv'
<1>1. TypeOK /\ Teams /\ Held /\ Verdicts /\ VerdictsAgree
    BY DEF ChatInv, Teams
<1>2. PICK v \in {"completed", "failed"}, x \in {"ending", "failing"} : Conclude({j}, v) /\ Advance(j, x)
    BY DEF Finish
<1>3. /\ job[j] = "stream" /\ kind[j] = "stream"
      /\ UNCHANGED <<kind, caller, waiting, drain, team, slot, lease, asked, kill, source, hold, resp,
                     stuck, stray, forgotten>>
    BY DEF Finish, frontier, held, stream, reader, holes
<1>4. \A i \in Requests : job'[i] = IF i = j THEN x ELSE job[i]
    BY <1>1, <1>2, AdvanceFacts
<1>5. /\ seq' \in [Requests -> {"none", "active", "completed", "failed"}]
      /\ event' \in [Requests -> {"none", "completed", "failed"}]
      /\ \A r \in Requests : /\ seq'[r] = IF r = j THEN v ELSE seq[r]
                             /\ event'[r] = IF r = j THEN v ELSE event[r]
    BY <1>1, <1>2, ConcludeFacts
<1>6. TypeOK'
  <2>1. job' \in [Requests -> {"none", "acquire", "over"} \cup Working]
      BY <1>1, <1>2 DEF TypeOK, Advance, Working, Producing
  <2>  QED  BY <1>1, <1>3, <1>5, <2>1 DEF TypeOK
<1>7. Teams'
    BY <1>1, <1>3, <1>4, <1>6, TeamsFrame
<1>8. Held'
    BY <1>1, <1>3, <1>4, <1>6, HeldFrame DEF Team, Working, Producing
<1>9. j \in Team(j) /\ \A i \in Requests : i # j => j \notin Team(i)
    BY <1>1, <1>3 DEF Teams, Teamed
<1>10. \A k \in Batched : j \notin ToSet(waiting[k])
    BY <1>1, <1>9 DEF Teams, Queued
<1>11. /\ \A i \in Requests : Team(i)' = Team(i) /\ Team(i) \subseteq Requests
       /\ \A k \in Batched : ToSet(waiting[k]) \subseteq Requests
    BY <1>1, <1>3, LenProperties, ElementOfSeq DEF Teams, MoreTypes, Team, ToSet
<1>12. x \notin Open /\ x \in Active /\ caller[j] # "new" /\ v # "active"
    BY <1>1, <1>9 DEF Open, Active, Working, Producing, Teams, Teamed
<1>13. Verdicts'
  <2>1. \A r \in Requests : caller'[r] = "new" => seq'[r] = "none" /\ event'[r] = "none"
      BY <1>1, <1>3, <1>5, <1>12 DEF Verdicts
  <2>2. \A k \in Batched : \A r \in ToSet(waiting'[k]) : Undecided(r)'
      BY <1>1, <1>3, <1>5, <1>10, <1>11 DEF Verdicts, Undecided
  <2>3. \A i \in Requests : job'[i] \in Open => \A r \in Team(i)' : Undecided(r)'
      BY <1>1, <1>4, <1>5, <1>9, <1>11, <1>12 DEF Verdicts, Undecided
  <2>4. \A i \in Requests : job'[i] \in {"ending", "failing"} => kind'[i] = "stream" /\ seq'[i] # "active"
      BY <1>1, <1>3, <1>4, <1>5, <1>12 DEF Verdicts
  <2>5. \A i \in kill' : kind'[i] = "stream" /\ i \in asked'
      BY <1>1, <1>3 DEF Verdicts
  <2>  QED  BY <2>1, <2>2, <2>3, <2>4, <2>5 DEF Verdicts
<1>14. ASSUME NEW r \in Requests, seq'[r] = "active"
       PROVE  \/ \E k \in Batched : Contains(waiting'[k], r)
              \/ \E i \in Requests : r \in Team(i)' /\ job'[i] \in Active
              \/ r \in forgotten' \cup asked'
  <2>1. seq[r] = "active"
      BY <1>5, <1>12, <1>14
  <2>2. \/ \E k \in Batched : Contains(waiting[k], r)
        \/ \E i \in Requests : r \in Team(i) /\ job[i] \in Active
        \/ r \in forgotten \cup asked
      BY <1>1, <2>1 DEF VerdictsAgree, Active
  <2>  QED  BY <1>3, <1>4, <1>11, <1>12, <2>2
<1>15. \A r \in Requests :
        /\ event'[r] = "completed" <=> seq'[r] = "completed"
        /\ event'[r] = "failed" => seq'[r] = "failed" \/ (kind'[r] = "bstream" /\ r \in asked')
    BY <1>1, <1>3, <1>5 DEF VerdictsAgree
<1>16. VerdictsAgree'
    BY <1>14, <1>15 DEF VerdictsAgree, Active
<1>  QED  BY <1>7, <1>8, <1>13, <1>16 DEF ChatInv

\* The last item is put, or a killed producer's finally block runs.
LEMMA ProducerEnds ==
    ASSUME ChatInv, NEW j \in Requests, LastItem(j) \/ Killed(j)
    PROVE  ChatInv'
<1>1. TypeOK /\ Teams /\ Held /\ Verdicts /\ VerdictsAgree
    BY DEF ChatInv, Teams
<1>2. /\ job[j] \in Producing /\ ReleaseAll(j) /\ Advance(j, "over")
      /\ UNCHANGED <<kind, caller, waiting, drain, team, seq, event, asked, source, hold, resp,
                     stuck, stray, forgotten>>
      /\ kill' \subseteq kill
    BY DEF LastItem, Killed, Producing, frontier, verdict, reader, holes
<1>3. kind[j] = "stream" /\ (seq[j] = "active" => j \in asked)
    BY <1>1 DEF LastItem, Killed, Verdicts
<1>4. \A i \in Requests : job'[i] = IF i = j THEN "over" ELSE job[i]
    BY <1>1, <1>2, AdvanceFacts
<1>5. TypeOK'
  <2>1. job' \in [Requests -> {"none", "acquire", "over"} \cup Working]
      BY <1>1, <1>2 DEF TypeOK, Advance
  <2>  QED  BY <1>1, <1>2, <2>1 DEF TypeOK, ReleaseAll
<1>6. job[j] # "none" /\ "over" \notin Open \cup {"ending", "failing"}
    BY <1>2 DEF Producing, Open
<1>7. Teams'
    BY <1>1, <1>2, <1>4, <1>5, <1>6, TeamsFrame
<1>8. Held'
    BY <1>1, <1>2, <1>5, <1>6, HeldRelease
<1>9. Team(j) \subseteq {j}
    BY <1>1, <1>3 DEF Teams, Teamed, Batched
<1>10. \A i \in kill' : kind[i] = "stream" /\ i \in asked'
    BY <1>1, <1>2 DEF Verdicts
<1>11. Verdicts' /\ VerdictsAgree'
    BY <1>1, <1>2, <1>3, <1>4, <1>6, <1>9, <1>10, VerdictFrame
<1>  QED  BY <1>7, <1>8, <1>11 DEF ChatInv

-----------------------------------------------------------------------------
(* Executing a job.                                                        *)

LEMMA AcquireInv ==
    ASSUME ChatInv, NEW j \in Requests, Acquire(j)
    PROVE  ChatInv'
<1>1. TypeOK /\ Teams /\ Held /\ Verdicts /\ VerdictsAgree
    BY DEF ChatInv, Teams
<1>2. /\ job[j] = "acquire" /\ Cardinality(slot) < MaxSlots /\ slot' = slot \cup {j}
      /\ Advance(j, "lease")
      /\ UNCHANGED <<kind, caller, waiting, drain, team, lease, seq, event, asked, kill, source, hold, resp,
                     stuck, stray, forgotten>>
    BY DEF Acquire, frontier, verdict, stream, reader, holes
<1>3. \A i \in Requests : job'[i] = IF i = j THEN "lease" ELSE job[i]
    BY <1>1, <1>2, AdvanceFacts
<1>4. TypeOK'
  <2>1. job' \in [Requests -> {"none", "acquire", "over"} \cup Working]
      BY <1>1, <1>2 DEF TypeOK, Advance, Working
  <2>  QED  BY <1>1, <1>2, <2>1 DEF TypeOK
<1>5. Teams'
    BY <1>1, <1>2, <1>3, <1>4, TeamsFrame
<1>6. Verdicts' /\ VerdictsAgree'
  <2>1. "lease" \in Open /\ "acquire" \in Open /\ "lease" \in Active
      BY DEF Open, Active, Working
  <2>2. \A i \in kill' : kind[i] = "stream" /\ i \in asked'
      BY <1>1, <1>2 DEF Verdicts
  <2>  QED  BY <1>1, <1>2, <1>3, <2>1, <2>2, VerdictFrame
<1>7. IsFiniteSet(slot') /\ Cardinality(slot') <= MaxSlots
  <2>1. IsFiniteSet(slot) /\ Cardinality(slot) \in Nat /\ MaxSlots \in Nat
      BY <1>1, FS_CardinalityType, ChatAssumption DEF Held
  <2>2. IsFiniteSet(slot') /\ (Cardinality(slot') = Cardinality(slot) \/ Cardinality(slot') = Cardinality(slot) + 1)
      BY <1>2, <2>1, FS_AddElement
  <2>  QED  BY <1>2, <2>1, <2>2
<1>8. "lease" \in Working /\ "acquire" \notin Working
    BY DEF Working, Producing
<1>9. \A i \in Requests : /\ Team(i)' = Team(i)
                          /\ job'[i] \in Working \ {"lease"} <=> job[i] \in Working \ {"lease"}
    BY <1>2, <1>3, <1>8 DEF Team
<1>10. lease' \subseteq stray' \cup UNION {Team(i)' : i \in {k \in Requests : job'[k] \in Working \ {"lease"}}}
  <2>1. UNION {Team(i)' : i \in {k \in Requests : job'[k] \in Working \ {"lease"}}}
          = UNION {Team(i) : i \in {k \in Requests : job[k] \in Working \ {"lease"}}}
      BY <1>9
  <2>  QED  BY <1>1, <1>2, <2>1 DEF Held, HeldByWork
<1>11. /\ {i \in Requests : job'[i] \in Working} \subseteq slot'
       /\ slot' \subseteq {i \in Requests : job'[i] \in Working} \cup stuck'
    BY <1>1, <1>2, <1>3, <1>8 DEF Held, HeldByWork
<1>12. HeldByWork'
    BY <1>1, <1>2, <1>4, <1>7, <1>9, <1>10, <1>11 DEF Held, HeldByWork
<1>13. Held'
    BY <1>1, <1>2, <1>3, <1>7, <1>12 DEF Held
<1>  QED  BY <1>5, <1>6, <1>13 DEF ChatInv

LEMMA AcquireFailsInv ==
    ASSUME ChatInv, NEW j \in Requests, AcquireFails(j)
    PROVE  ChatInv'
<1>1. TypeOK /\ Teams /\ Held /\ Verdicts /\ VerdictsAgree
    BY DEF ChatInv, Teams
<1>2. /\ job[j] = "acquire" /\ Advance(j, "over")
      /\ Conclude(Team(j), "failed") /\ Answer(Team(j), "raised") /\ Drained(j)
      /\ UNCHANGED <<kind, waiting, team, slot, lease, asked, kill, source, hold, resp,
                     stuck, stray, forgotten>>
    BY DEF AcquireFails, held, stream, reader, holes
<1>3. \A i \in Requests : job'[i] = IF i = j THEN "over" ELSE job[i]
    BY <1>1, <1>2, AdvanceFacts
<1>4. TypeOK'
  <2>1. job' \in [Requests -> {"none", "acquire", "over"} \cup Working]
      BY <1>1, <1>2 DEF TypeOK, Advance
  <2>  QED  BY <1>1, <1>2, <2>1, AnswerFacts, ConcludeFacts, DrainedFacts DEF TypeOK
<1>5. \A r \in Requests : /\ caller'[r] = "new" <=> caller[r] = "new"
                          /\ caller'[r] = "waiting" => caller[r] = "waiting"
    BY <1>1, <1>2, AnswerFacts
<1>6. Teams'
    BY <1>1, <1>2, <1>3, <1>4, <1>5, TeamsFrame
<1>7. Held'
    BY <1>1, <1>2, <1>3, <1>4, HeldFrame DEF Team, Working, Producing
<1>8. Verdicts' /\ VerdictsAgree'
    BY <1>1, <1>2, <1>5, ConcludeFrame
<1>  QED  BY <1>6, <1>7, <1>8 DEF ChatInv

LEMMA EnterLeaseInv ==
    ASSUME ChatInv, NEW j \in Requests, EnterLease(j)
    PROVE  ChatInv'
<1>1. TypeOK /\ Teams /\ Held /\ Verdicts /\ VerdictsAgree
    BY DEF ChatInv, Teams
<1>2. /\ job[j] = "lease" /\ lease' = lease \cup Team(j) /\ Advance(j, "prepare")
      /\ UNCHANGED <<kind, caller, waiting, drain, team, slot, seq, event, asked, kill, source, hold, resp,
                     stuck, stray, forgotten>>
    BY DEF EnterLease, frontier, verdict, stream, reader, holes
<1>3. \A i \in Requests : job'[i] = IF i = j THEN "prepare" ELSE job[i]
    BY <1>1, <1>2, AdvanceFacts
<1>4. \A i \in Requests : Team(i)' = Team(i) /\ Team(i) \subseteq Requests
    BY <1>1, <1>2, LenProperties, ElementOfSeq DEF Teams, MoreTypes, Team, ToSet
<1>5. TypeOK'
  <2>1. job' \in [Requests -> {"none", "acquire", "over"} \cup Working]
      BY <1>1, <1>2 DEF TypeOK, Advance, Working
  <2>  QED  BY <1>1, <1>2, <1>4, <2>1 DEF TypeOK
<1>6. Teams'
    BY <1>1, <1>2, <1>3, <1>5, TeamsFrame
<1>7. Verdicts' /\ VerdictsAgree'
  <2>1. "lease" \in Open /\ "prepare" \in Open /\ "prepare" \in Active
      BY DEF Open, Active, Working
  <2>2. \A i \in kill' : kind[i] = "stream" /\ i \in asked'
      BY <1>1, <1>2 DEF Verdicts
  <2>  QED  BY <1>1, <1>2, <1>3, <2>1, <2>2, VerdictFrame
<1>8. "prepare" \in Working \ {"lease"} /\ "lease" \in Working
    BY DEF Working
<1>9. \A i \in Requests : job'[i] \in Working <=> job[i] \in Working
    BY <1>2, <1>3, <1>8
<1>10. \A i \in Requests : job'[i] \in Working \ {"lease"} => Team(i)' \subseteq lease'
    BY <1>1, <1>2, <1>3, <1>4, <1>8 DEF Held, HeldByWork
<1>11. \A r \in lease' : r \in stray' \/ \E i \in Requests : job'[i] \in Working \ {"lease"} /\ r \in Team(i)'
  <2>  SUFFICES ASSUME NEW r \in lease', r \notin stray'
                PROVE  \E i \in Requests : job'[i] \in Working \ {"lease"} /\ r \in Team(i)'
      OBVIOUS
  <2>1. CASE r \in Team(j)
      BY <1>3, <1>4, <1>8, <2>1
  <2>2. CASE r \notin Team(j)
    <3>1. PICK i \in Requests : job[i] \in Working \ {"lease"} /\ r \in Team(i)
        BY <1>1, <1>2, <2>2, LeaseMeaning DEF Held, HeldByWork
    <3>2. i # j
        BY <2>2, <3>1
    <3>  QED  BY <1>3, <1>4, <3>1, <3>2
  <2>  QED  BY <2>1, <2>2
<1>12. lease' \subseteq stray' \cup UNION {Team(i)' : i \in {k \in Requests : job'[k] \in Working \ {"lease"}}}
    BY <1>11
<1>13. HeldByWork'
    BY <1>1, <1>2, <1>5, <1>9, <1>10, <1>12 DEF Held, HeldByWork
<1>14. Held'
    BY <1>1, <1>2, <1>3, <1>13 DEF Held
<1>  QED  BY <1>6, <1>7, <1>14 DEF ChatInv

LEMMA PrepareInv ==
    ASSUME ChatInv, NEW j \in Requests, Prepare(j)
    PROVE  ChatInv'
<1>1. TypeOK /\ Teams /\ Held /\ Verdicts /\ VerdictsAgree
    BY DEF ChatInv, Teams
<1>2. /\ job[j] = "prepare"
      /\ UNCHANGED <<kind, waiting, team, slot, lease, seq, event, asked, kill, hold, stuck, stray, forgotten>>
    BY DEF Prepare, held, verdict, holes
<1>3. PICK x \in {"run", "stream"} : Advance(j, x)
    BY DEF Prepare
<1>4. \A i \in Requests : job'[i] = IF i = j THEN x ELSE job[i]
    BY <1>1, <1>3, AdvanceFacts
<1>5. /\ caller' \in [Requests -> {"new", "waiting", "answered", "raised", "gone"}]
      /\ \A r \in Requests : /\ caller'[r] = "new" <=> caller[r] = "new"
                             /\ caller'[r] = "waiting" => caller[r] = "waiting"
      /\ drain' \in [Batched -> {"idle", "window", "busy"}]
      /\ source' \in [Requests -> {"none", "open", "closed"}]
      /\ resp' \in [Requests -> {"none", "opening", "headers", "reading", "over"}]
  <2>1. CASE kind[j] \notin Streams
      BY <1>1, <2>1 DEF Prepare, TypeOK
  <2>2. CASE kind[j] \in Streams
    <3>1. Answer(Team(j), "answered") /\ Drained(j)
        BY <2>2 DEF Prepare
    <3>2. /\ source' \in [Requests -> {"none", "open", "closed"}]
          /\ resp' \in [Requests -> {"none", "opening", "headers", "reading", "over"}]
        BY <1>1, <2>2 DEF Prepare, SetAll, TypeOK
    <3>  QED  BY <1>1, <3>1, <3>2, AnswerFacts, DrainedFacts
  <2>  QED  BY <2>1, <2>2
<1>6. TypeOK'
  <2>1. job' \in [Requests -> {"none", "acquire", "over"} \cup Working]
      BY <1>1, <1>3 DEF TypeOK, Advance, Working, Producing
  <2>  QED  BY <1>1, <1>2, <1>5, <2>1 DEF TypeOK
<1>7. Teams'
    BY <1>1, <1>2, <1>4, <1>5, <1>6, TeamsFrame
<1>8. Held'
    BY <1>1, <1>2, <1>4, <1>6, HeldFrame DEF Team, Working, Producing
<1>9. Verdicts' /\ VerdictsAgree'
  <2>1. "prepare" \in Open /\ x \in Open /\ x \in Active /\ x \notin {"ending", "failing"}
      BY DEF Open, Active, Working, Producing
  <2>2. \A i \in kill' : kind[i] = "stream" /\ i \in asked'
      BY <1>1, <1>2 DEF Verdicts
  <2>  QED  BY <1>1, <1>2, <1>4, <1>5, <2>1, <2>2, VerdictFrame
<1>  QED  BY <1>7, <1>8, <1>9 DEF ChatInv

\* A complete() ends, alone or batched, with a response or an error.
LEMMA CompleteInv ==
    ASSUME ChatInv, NEW j \in Requests, RunComplete(j) \/ CompleteFails(j)
    PROVE  ChatInv'
<1>1. TypeOK /\ Teams /\ Held /\ Verdicts /\ VerdictsAgree
    BY DEF ChatInv, Teams
<1>2. PICK v \in {"completed", "failed"}, a \in {"answered", "raised"} :
          Conclude(Team(j), v) /\ Answer(Team(j), a)
    BY DEF RunComplete, CompleteFails
<1>3. /\ job[j] # "none" /\ Advance(j, "over") /\ ReleaseAll(j) /\ Drained(j)
      /\ UNCHANGED <<kind, waiting, team, asked, kill, source, hold, resp, stuck, stray, forgotten>>
    BY DEF RunComplete, CompleteFails, stream, reader, holes
<1>4. \A i \in Requests : job'[i] = IF i = j THEN "over" ELSE job[i]
    BY <1>1, <1>3, AdvanceFacts
<1>5. TypeOK'
  <2>1. job' \in [Requests -> {"none", "acquire", "over"} \cup Working]
      BY <1>1, <1>3 DEF TypeOK, Advance
  <2>2. slot' \subseteq Requests /\ lease' \subseteq Requests
      BY <1>1, <1>3 DEF TypeOK, ReleaseAll
  <2>  QED  BY <1>1, <1>2, <1>3, <2>1, <2>2, AnswerFacts, ConcludeFacts, DrainedFacts DEF TypeOK
<1>6. \A r \in Requests : /\ caller'[r] = "new" <=> caller[r] = "new"
                          /\ caller'[r] = "waiting" => caller[r] = "waiting"
    BY <1>1, <1>2, AnswerFacts
<1>7. Teams'
    BY <1>1, <1>3, <1>4, <1>5, <1>6, TeamsFrame
<1>8. Held'
    BY <1>1, <1>3, <1>5, HeldRelease
<1>9. Verdicts' /\ VerdictsAgree'
    BY <1>1, <1>2, <1>3, <1>6, ConcludeFrame
<1>  QED  BY <1>7, <1>8, <1>9 DEF ChatInv

\* The set-up of a stream fails, and may leave its lease and its admission.
LEMMA StreamSetupFailsInv ==
    ASSUME ChatInv, NEW j \in Requests, StreamSetupFails(j)
    PROVE  ChatInv'
<1>1. TypeOK /\ Teams /\ Held /\ Verdicts /\ VerdictsAgree
    BY DEF ChatInv, Teams
<1>2. /\ job[j] # "none" /\ kind[j] = "stream" /\ Advance(j, "over")
      /\ Conclude(Team(j), "failed") /\ Answer(Team(j), "raised")
      /\ UNCHANGED <<kind, waiting, drain, team, lease, asked, kill, source, hold, resp, forgotten>>
      /\ stray' = stray \cup ({j} \cap lease)
    BY DEF StreamSetupFails, frontier, stream, reader
<1>3. /\ slot' = slot \ {j} \/ (slot' = slot /\ {j} \cap slot \subseteq stuck')
      /\ stuck \subseteq stuck'
    BY DEF StreamSetupFails
<1>4. \A i \in Requests : job'[i] = IF i = j THEN "over" ELSE job[i]
    BY <1>1, <1>2, AdvanceFacts
<1>5. TypeOK'
  <2>1. job' \in [Requests -> {"none", "acquire", "over"} \cup Working]
      BY <1>1, <1>2 DEF TypeOK, Advance
  <2>2. slot' \subseteq Requests
      BY <1>1, <1>3 DEF TypeOK
  <2>  QED  BY <1>1, <1>2, <2>1, <2>2, AnswerFacts, ConcludeFacts DEF TypeOK
<1>6. \A r \in Requests : /\ caller'[r] = "new" <=> caller[r] = "new"
                          /\ caller'[r] = "waiting" => caller[r] = "waiting"
    BY <1>1, <1>2, AnswerFacts
<1>7. Teams'
    BY <1>1, <1>2, <1>4, <1>5, <1>6, TeamsFrame
<1>8. Team(j) \subseteq {j}
    BY <1>1, <1>2 DEF Teams, Teamed, Batched
<1>9. Held'
    BY <1>1, <1>2, <1>3, <1>5, <1>8, HeldEnds
<1>10. Verdicts' /\ VerdictsAgree'
    BY <1>1, <1>2, <1>6, ConcludeFrame
<1>  QED  BY <1>7, <1>9, <1>10 DEF ChatInv

\* The set-up of a batch fails, and may leave its admission and its sequences.
LEMMA BatchSetupFailsInv ==
    ASSUME ChatInv, NEW j \in Requests, BatchSetupFails(j)
    PROVE  ChatInv'
<1>1. TypeOK /\ Teams /\ Held /\ Verdicts /\ VerdictsAgree
    BY DEF ChatInv, Teams
<1>2. /\ job[j] # "none" /\ Advance(j, "over") /\ lease' = lease \ Team(j)
      /\ Answer(Team(j), "raised") /\ Drained(j)
      /\ UNCHANGED <<kind, waiting, team, asked, kill, source, hold, resp, stray>>
    BY DEF BatchSetupFails, stream, reader
<1>3. /\ slot' = slot \ {j} \/ (slot' = slot /\ {j} \cap slot \subseteq stuck')
      /\ stuck \subseteq stuck' /\ forgotten \subseteq forgotten'
    BY DEF BatchSetupFails
<1>4. \/ Conclude(Team(j), "failed")
      \/ UNCHANGED <<seq, event>> /\ Team(j) \subseteq forgotten'
    BY DEF BatchSetupFails
<1>5. \A i \in Requests : job'[i] = IF i = j THEN "over" ELSE job[i]
    BY <1>1, <1>2, AdvanceFacts
<1>6. TypeOK'
  <2>1. job' \in [Requests -> {"none", "acquire", "over"} \cup Working]
      BY <1>1, <1>2 DEF TypeOK, Advance
  <2>2. slot' \subseteq Requests /\ lease' \subseteq Requests
      BY <1>1, <1>2, <1>3 DEF TypeOK
  <2>3. /\ seq' \in [Requests -> {"none", "active", "completed", "failed"}]
        /\ event' \in [Requests -> {"none", "completed", "failed"}]
    <3>1. CASE Conclude(Team(j), "failed")
        BY <1>1, <3>1, ConcludeFacts
    <3>2. CASE UNCHANGED <<seq, event>>
        BY <1>1, <3>2 DEF TypeOK
    <3>  QED  BY <1>4, <3>1, <3>2
  <2>  QED  BY <1>1, <1>2, <2>1, <2>2, <2>3, AnswerFacts, DrainedFacts DEF TypeOK
<1>7. \A r \in Requests : /\ caller'[r] = "new" <=> caller[r] = "new"
                          /\ caller'[r] = "waiting" => caller[r] = "waiting"
    BY <1>1, <1>2, AnswerFacts
<1>8. Teams'
    BY <1>1, <1>2, <1>5, <1>6, <1>7, TeamsFrame
<1>9. Held'
    BY <1>1, <1>2, <1>3, <1>6, HeldEnds
<1>10. Verdicts' /\ VerdictsAgree'
  <2>1. CASE Conclude(Team(j), "failed")
      BY <1>1, <1>2, <1>3, <1>7, <2>1, ConcludeFrame
  <2>2. CASE UNCHANGED <<seq, event>> /\ Team(j) \subseteq forgotten'
    <3>1. \A i \in kill' : kind[i] = "stream" /\ i \in asked'
        BY <1>1, <1>2 DEF Verdicts
    <3>2. "over" \notin Open \cup {"ending", "failing"}
        BY DEF Open
    <3>  QED  BY <1>1, <1>2, <1>3, <1>5, <1>7, <2>2, <3>1, <3>2, VerdictFrame
  <2>  QED  BY <1>4, <2>1, <2>2
<1>  QED  BY <1>8, <1>9, <1>10 DEF ChatInv

-----------------------------------------------------------------------------
(* Verdicts reached member by member.                                      *)

\* Of the members of a job some are completed, and others, asked to cancel, get
\* the event; the job ends with the last of them, or is about to raise.
LEMMA PartFrame ==
    ASSUME Teams, Verdicts, VerdictsAgree, NEW j \in Requests, job[j] \in Open,
           NEW x \in {"over", "concluding"}, Advance(j, x),
           NEW served, NEW closed, served \cup closed \subseteq Team(j), served \cap closed = {},
           x = "over" => Team(j) \subseteq served \cup closed,
           closed # {} => kind[j] = "bstream",
           \A r \in Requests :
               /\ seq'[r] = IF r \in served THEN "completed" ELSE seq[r]
               /\ event'[r] = IF r \in served THEN "completed" ELSE IF r \in closed THEN "failed" ELSE event[r],
           asked' = asked \cup closed,
           UNCHANGED <<kind, caller, waiting, team, kill, forgotten>>
    PROVE  Verdicts' /\ VerdictsAgree'
<1>1. \A i \in Requests : job'[i] = IF i = j THEN x ELSE job[i]
    BY AdvanceFacts DEF Teams
<1>2. /\ \A i \in Requests : Team(i)' = Team(i) /\ Team(i) \subseteq Requests
      /\ \A k \in Batched : ToSet(waiting[k]) \subseteq Requests
    BY LenProperties, ElementOfSeq DEF Teams, MoreTypes, Team, ToSet
<1>3. /\ \A i \in Requests : i # j => Team(i) \cap Team(j) = {}
      /\ \A r \in Team(j) : Undecided(r) /\ kind[r] = kind[j]
    BY DEF Teams, Teamed, Verdicts
<1>4. x \notin Open \cup {"ending", "failing"} /\ "concluding" \in Active
    BY DEF Open, Active, Working, Producing
<1>5. Verdicts'
  <2>1. \A r \in Requests : caller'[r] = "new" => seq'[r] = "none" /\ event'[r] = "none"
      BY DEF Verdicts, Teams, Teamed
  <2>2. \A k \in Batched : \A r \in ToSet(waiting'[k]) : Undecided(r)'
      BY <1>2 DEF Verdicts, Undecided, Teams, Queued
  <2>3. \A i \in Requests : job'[i] \in Open => \A r \in Team(i)' : Undecided(r)'
      BY <1>1, <1>2, <1>3, <1>4 DEF Verdicts, Undecided
  <2>4. ASSUME NEW i \in Requests, job'[i] \in {"ending", "failing"}
        PROVE  kind'[i] = "stream" /\ seq'[i] # "active"
    <3>1. job[i] \in {"ending", "failing"}
        BY <1>1, <1>4, <2>4
    <3>  QED  BY <3>1 DEF Verdicts
  <2>5. \A i \in kill' : kind'[i] = "stream" /\ i \in asked'
      BY DEF Verdicts
  <2>  QED  BY <2>1, <2>2, <2>3, <2>4, <2>5 DEF Verdicts
<1>6. ASSUME NEW r \in Requests, seq'[r] = "active"
      PROVE  \/ \E k \in Batched : Contains(waiting'[k], r)
             \/ \E i \in Requests : r \in Team(i)' /\ job'[i] \in Active
             \/ r \in forgotten' \cup asked'
  <2>1. seq[r] = "active" /\ (r \in Team(j) => r \in asked' \/ x = "concluding")
      BY <1>6
  <2>2. \/ \E k \in Batched : Contains(waiting[k], r)
        \/ \E i \in Requests : r \in Team(i) /\ job[i] \in Active
        \/ r \in forgotten \cup asked
      BY <2>1 DEF VerdictsAgree, Active
  <2>  QED  BY <1>1, <1>2, <1>4, <2>1, <2>2
<1>7. \A r \in Requests :
        /\ event'[r] = "completed" <=> seq'[r] = "completed"
        /\ event'[r] = "failed" => seq'[r] = "failed" \/ (kind'[r] = "bstream" /\ r \in asked')
    BY <1>3 DEF VerdictsAgree, Undecided
<1>8. VerdictsAgree'
    BY <1>6, <1>7 DEF VerdictsAgree, Active
<1>  QED  BY <1>5, <1>8

\* The first members of a job are members of it.
LEMMA FirstMembers ==
    ASSUME Teams, NEW j \in Requests, NEW n \in 1 .. Len(team[j])
    PROVE  ToSet(SubSeq(team[j], 1, n)) \subseteq Team(j)
<1>  DEFINE w == team[j]
<1>1. w \in Seq(Requests)
    BY DEF Teams, MoreTypes
<1>  HIDE DEF w
<1>2. Len(w) \in Nat
    BY <1>1, LenProperties
<1>3. n \in 0..Len(w)
    BY <1>2 DEF w
<1>4. ToSet(SubSeq(w, 1, n)) \subseteq ToSet(w)
    BY <1>1, <1>2, <1>3 DEF ToSet
<1>  QED  BY <1>4 DEF w, Team

\* A job at work goes from one stage to another that holds the same.
LEMMA ConcludingFrame ==
    ASSUME ChatInv, NEW j \in Requests, job[j] \in {"run", "stream"}, Advance(j, "concluding"),
           seq' \in [Requests -> {"none", "active", "completed", "failed"}],
           event' \in [Requests -> {"none", "completed", "failed"}],
           UNCHANGED <<kind, caller, waiting, drain, team, slot, lease, kill, source, hold, resp, stuck, stray>>
    PROVE  Teams' /\ Held'
<1>1. TypeOK /\ Teams /\ Held
    BY DEF ChatInv, Teams
<1>2. \A i \in Requests : job'[i] = IF i = j THEN "concluding" ELSE job[i]
    BY <1>1, AdvanceFacts
<1>3. TypeOK'
  <2>1. job' \in [Requests -> {"none", "acquire", "over"} \cup Working]
      BY <1>1 DEF TypeOK, Advance, Working, Producing
  <2>  QED  BY <1>1, <2>1 DEF TypeOK
<1>4. Teams'
    BY <1>1, <1>2, <1>3, TeamsFrame
<1>5. Held'
    BY <1>1, <1>2, <1>3, HeldFrame DEF Team, Working, Producing
<1>  QED  BY <1>4, <1>5

LEMMA CompleteSomeInv ==
    ASSUME ChatInv, NEW j \in Requests, CompleteSome(j)
    PROVE  ChatInv'
<1>1. TypeOK /\ Teams /\ Verdicts /\ VerdictsAgree
    BY DEF ChatInv, Teams
<1>2. PICK n \in 1 .. Len(team[j]) : Conclude(ToSet(SubSeq(team[j], 1, n)), "completed")
    BY DEF CompleteSome
<1>3. /\ job[j] = "run" /\ job[j] \in Open /\ Advance(j, "concluding")
      /\ UNCHANGED <<kind, caller, waiting, drain, team, slot, lease, kill, source, hold, resp, stuck, stray>>
      /\ UNCHANGED <<asked, forgotten>>
    BY DEF CompleteSome, frontier, held, stream, reader, holes, Open
<1>  DEFINE S == ToSet(SubSeq(team[j], 1, n))
<1>4. S \subseteq Team(j)
    BY <1>1, FirstMembers
<1>  HIDE DEF S
<1>5. /\ seq' \in [Requests -> {"none", "active", "completed", "failed"}]
      /\ event' \in [Requests -> {"none", "completed", "failed"}]
      /\ \A r \in Requests : /\ seq'[r] = IF r \in S THEN "completed" ELSE seq[r]
                             /\ event'[r] = IF r \in S THEN "completed" ELSE event[r]
    BY <1>1, <1>2, ConcludeFacts DEF S
<1>6. Teams' /\ Held'
    BY <1>3, <1>5, ConcludingFrame
<1>7. Verdicts' /\ VerdictsAgree'
  <2>1. /\ asked' = asked \cup {} /\ S \cup {} \subseteq Team(j) /\ S \cap {} = {}
        /\ \A r \in Requests :
               /\ seq'[r] = IF r \in S THEN "completed" ELSE seq[r]
               /\ event'[r] = IF r \in S THEN "completed" ELSE IF r \in {} THEN "failed" ELSE event[r]
      BY <1>3, <1>4, <1>5
  <2>2. "concluding" \in {"over", "concluding"} /\ ("concluding" = "over" => Team(j) \subseteq S \cup {})
      OBVIOUS
  <2>  QED  BY <1>1, <1>3, <2>1, <2>2, PartFrame
<1>  QED  BY <1>6, <1>7 DEF ChatInv

\* What ConcludeStreams does to the members it is given.
LEMMA ConcludeStreamsFacts ==
    ASSUME TypeOK, NEW S, ConcludeStreams(S)
    PROVE  \E served, closed :
              /\ served \cup closed = S /\ served \cap closed = {} /\ asked' = asked \cup closed
              /\ seq' \in [Requests -> {"none", "active", "completed", "failed"}]
              /\ event' \in [Requests -> {"none", "completed", "failed"}]
              /\ \A r \in Requests :
                    /\ seq'[r] = IF r \in served THEN "completed" ELSE seq[r]
                    /\ event'[r] = IF r \in served THEN "completed"
                                   ELSE IF r \in closed THEN "failed" ELSE event[r]
<1>  DEFINE closed == {r \in S : source[r] = "closed"}
            served == S \ closed
<1>1. /\ asked' = asked \cup closed
      /\ seq' = SetAll(seq, served, "completed")
      /\ event' = SetAll(SetAll(event, served, "completed"), closed, "failed")
    BY DEF ConcludeStreams
<1>2. served \cup closed = S /\ served \cap closed = {}
    OBVIOUS
<1>  HIDE DEF closed, served
<1>3. /\ seq' \in [Requests -> {"none", "active", "completed", "failed"}]
      /\ event' \in [Requests -> {"none", "completed", "failed"}]
      /\ \A r \in Requests :
            /\ seq'[r] = IF r \in served THEN "completed" ELSE seq[r]
            /\ event'[r] = IF r \in served THEN "completed" ELSE IF r \in closed THEN "failed" ELSE event[r]
    BY <1>1, <1>2 DEF TypeOK, SetAll
<1>  QED  BY <1>1, <1>2, <1>3

LEMMA BatchSomeInv ==
    ASSUME ChatInv, NEW j \in Requests, BatchSome(j)
    PROVE  ChatInv'
<1>1. TypeOK /\ Teams /\ Verdicts /\ VerdictsAgree
    BY DEF ChatInv, Teams
<1>2. PICK n \in 1 .. Len(team[j]) : ConcludeStreams(ToSet(SubSeq(team[j], 1, n)))
    BY DEF BatchSome
<1>3. /\ job[j] = "stream" /\ job[j] \in Open /\ kind[j] = "bstream" /\ Advance(j, "concluding")
      /\ UNCHANGED <<kind, caller, waiting, drain, team, slot, lease, kill, source, hold, resp, stuck, stray>>
      /\ UNCHANGED forgotten
    BY DEF BatchSome, frontier, held, reader, holes, Open
<1>4. ToSet(SubSeq(team[j], 1, n)) \subseteq Team(j)
    BY <1>1, FirstMembers
<1>5. PICK S : S \subseteq Team(j) /\ ConcludeStreams(S)
    BY <1>2, <1>4
<1>6. PICK served, closed :
          /\ served \cup closed = S /\ served \cap closed = {} /\ asked' = asked \cup closed
          /\ seq' \in [Requests -> {"none", "active", "completed", "failed"}]
          /\ event' \in [Requests -> {"none", "completed", "failed"}]
          /\ \A r \in Requests :
                /\ seq'[r] = IF r \in served THEN "completed" ELSE seq[r]
                /\ event'[r] = IF r \in served THEN "completed" ELSE IF r \in closed THEN "failed" ELSE event[r]
    BY <1>1, <1>5, ConcludeStreamsFacts
<1>7. Teams' /\ Held'
    BY <1>3, <1>6, ConcludingFrame
<1>8. Verdicts' /\ VerdictsAgree'
  <2>1. "concluding" \in {"over", "concluding"} /\ ("concluding" = "over" => Team(j) \subseteq served \cup closed)
      OBVIOUS
  <2>2. served \cup closed \subseteq Team(j)
      BY <1>5, <1>6
  <2>  QED  BY <1>1, <1>3, <1>6, <2>1, <2>2, PartFrame
<1>  QED  BY <1>7, <1>8 DEF ChatInv

LEMMA BatchFinishInv ==
    ASSUME ChatInv, NEW j \in Requests, BatchFinish(j)
    PROVE  ChatInv'
<1>1. TypeOK /\ Teams /\ Held /\ Verdicts /\ VerdictsAgree
    BY DEF ChatInv, Teams
<1>2. /\ job[j] = "stream" /\ job[j] \in Open /\ kind[j] = "bstream" /\ Advance(j, "over") /\ ReleaseAll(j)
      /\ UNCHANGED <<kind, caller, waiting, drain, team, kill, source, hold, resp, stuck, stray, forgotten>>
    BY DEF BatchFinish, frontier, reader, holes, Open
<1>3. PICK served, closed :
          /\ served \cup closed = Team(j) /\ served \cap closed = {} /\ asked' = asked \cup closed
          /\ seq' \in [Requests -> {"none", "active", "completed", "failed"}]
          /\ event' \in [Requests -> {"none", "completed", "failed"}]
          /\ \A r \in Requests :
                /\ seq'[r] = IF r \in served THEN "completed" ELSE seq[r]
                /\ event'[r] = IF r \in served THEN "completed" ELSE IF r \in closed THEN "failed" ELSE event[r]
  <2>1. ConcludeStreams(Team(j))
      BY DEF BatchFinish
  <2>  QED  BY <1>1, <2>1, ConcludeStreamsFacts
<1>4. \A i \in Requests : job'[i] = IF i = j THEN "over" ELSE job[i]
    BY <1>1, <1>2, AdvanceFacts
<1>5. TypeOK'
  <2>1. job' \in [Requests -> {"none", "acquire", "over"} \cup Working]
      BY <1>1, <1>2 DEF TypeOK, Advance
  <2>2. slot' \subseteq Requests /\ lease' \subseteq Requests
      BY <1>1, <1>2 DEF TypeOK, ReleaseAll
  <2>  QED  BY <1>1, <1>2, <1>3, <2>1, <2>2 DEF TypeOK
<1>6. Teams'
    BY <1>1, <1>2, <1>4, <1>5, TeamsFrame
<1>7. Held'
    BY <1>1, <1>2, <1>5, HeldRelease
<1>8. Verdicts' /\ VerdictsAgree'
  <2>1. "over" \in {"over", "concluding"} /\ ("over" = "over" => Team(j) \subseteq served \cup closed)
      BY <1>3
  <2>2. served \cup closed \subseteq Team(j)
      BY <1>3
  <2>  QED  BY <1>1, <1>2, <1>3, <2>1, <2>2, PartFrame
<1>  QED  BY <1>6, <1>7, <1>8 DEF ChatInv

LEMMA BatchBreaksInv ==
    ASSUME ChatInv, NEW j \in Requests, BatchBreaks(j)
    PROVE  ChatInv'
<1>1. TypeOK /\ Teams /\ Held /\ Verdicts /\ VerdictsAgree
    BY DEF ChatInv, Teams
<1>2. /\ job[j] # "none" /\ Advance(j, "over") /\ ReleaseAll(j) /\ Conclude(Team(j), "failed")
      /\ UNCHANGED <<kind, caller, waiting, drain, team, asked, kill, source, hold, resp, stuck, stray, forgotten>>
    BY DEF BatchBreaks, frontier, reader
<1>3. \A i \in Requests : job'[i] = IF i = j THEN "over" ELSE job[i]
    BY <1>1, <1>2, AdvanceFacts
<1>4. TypeOK'
  <2>1. job' \in [Requests -> {"none", "acquire", "over"} \cup Working]
      BY <1>1, <1>2 DEF TypeOK, Advance
  <2>2. slot' \subseteq Requests /\ lease' \subseteq Requests
      BY <1>1, <1>2 DEF TypeOK, ReleaseAll
  <2>  QED  BY <1>1, <1>2, <2>1, <2>2, ConcludeFacts DEF TypeOK
<1>5. Teams'
    BY <1>1, <1>2, <1>3, <1>4, TeamsFrame
<1>6. Held'
    BY <1>1, <1>2, <1>4, HeldRelease
<1>7. Verdicts' /\ VerdictsAgree'
    BY <1>1, <1>2, ConcludeFrame
<1>  QED  BY <1>5, <1>6, <1>7 DEF ChatInv

-----------------------------------------------------------------------------
(* Callers.                                                                *)

LEMMA CancelCallerInv ==
    ASSUME ChatInv, NEW r \in Requests, CancelCaller(r)
    PROVE  ChatInv'
<1>1. TypeOK /\ Teams /\ Held /\ Verdicts /\ VerdictsAgree
    BY DEF ChatInv, Teams
<1>2. /\ caller[r] = "waiting" /\ caller' = [caller EXCEPT ![r] = "gone"]
      /\ UNCHANGED <<kind, waiting, drain, team, seq, event, asked, kill, source, hold, resp>>
    BY DEF CancelCaller, frontier, verdict, stream, reader
<1>3. /\ caller' \in [Requests -> {"new", "waiting", "answered", "raised", "gone"}]
      /\ \A q \in Requests : /\ caller'[q] = "new" <=> caller[q] = "new"
                             /\ caller'[q] = "waiting" => caller[q] = "waiting"
    BY <1>1, <1>2 DEF TypeOK
<1>4. \A i \in kill' : kind[i] = "stream" /\ i \in asked'
    BY <1>1, <1>2 DEF Verdicts
<1>5. CASE kind[r] \in Batched
  <2>1. UNCHANGED <<job, slot, lease, stuck, stray, forgotten>>
      BY <1>5 DEF CancelCaller, held
  <2>2. TypeOK'
      BY <1>1, <1>2, <1>3, <2>1 DEF TypeOK
  <2>3. Teams'
      BY <1>1, <1>2, <1>3, <2>1, <2>2, TeamsFrame
  <2>4. Held'
      BY <1>1, <1>2, <2>1, <2>2, HeldFrame DEF Team
  <2>5. Verdicts' /\ VerdictsAgree'
      BY <1>1, <1>2, <1>3, <1>4, <2>1, VerdictFrame
  <2>  QED  BY <2>3, <2>4, <2>5 DEF ChatInv
<1>6. CASE kind[r] \notin Batched
  <2>1. /\ Advance(r, "over") /\ forgotten' = forgotten \cup {r}
        /\ slot' = slot \ {r} \/ (slot' = slot /\ {r} \cap slot \subseteq stuck')
        /\ stuck \subseteq stuck' /\ stray \subseteq stray' /\ stray' \subseteq stray \cup {r}
      BY <1>6 DEF CancelCaller, ReleaseAll, held
  <2>2. \/ lease' = lease \ Team(r)
        \/ lease' = lease /\ {r} \cap lease \subseteq stray'
      BY <1>6 DEF CancelCaller, ReleaseAll, held
  <2>3. Team(r) \subseteq {r} /\ job[r] # "none"
      BY <1>1, <1>2, <1>6 DEF Teams, Teamed
  <2>4. \A i \in Requests : job'[i] = IF i = r THEN "over" ELSE job[i]
      BY <1>1, <2>1, AdvanceFacts
  <2>5. TypeOK'
    <3>1. job' \in [Requests -> {"none", "acquire", "over"} \cup Working]
        BY <1>1, <2>1 DEF TypeOK, Advance
    <3>2. slot' \subseteq Requests /\ lease' \subseteq Requests
        BY <1>1, <2>1, <2>2 DEF TypeOK
    <3>  QED  BY <1>1, <1>2, <1>3, <3>1, <3>2 DEF TypeOK
  <2>6. Teams'
      BY <1>1, <1>2, <1>3, <2>3, <2>4, <2>5, TeamsFrame
  <2>7. Held'
      BY <1>1, <1>2, <2>1, <2>2, <2>3, <2>5, HeldEnds
  <2>8. "over" \notin Open \cup {"ending", "failing"}
      BY DEF Open
  <2>9. Verdicts' /\ VerdictsAgree'
      BY <1>1, <1>2, <1>3, <1>4, <2>1, <2>3, <2>4, <2>8, VerdictFrame
  <2>  QED  BY <2>6, <2>7, <2>9 DEF ChatInv
<1>  QED  BY <1>5, <1>6

LEMMA ContainsRange ==
    ASSUME NEW S, NEW s \in Seq(S), NEW e
    PROVE  Contains(s, e) <=> e \in ToSet(s)
BY LenProperties DEF Contains, ToSet

\* A request whose caller is new is in no queue and in no team.
LEMMA NewIsNowhere ==
    ASSUME Teams, NEW r \in Requests, caller[r] = "new"
    PROVE  /\ job[r] = "none" /\ Team(r) = {}
           /\ \A j \in Requests : r \notin Team(j)
           /\ \A k \in Batched : r \notin ToSet(waiting[k])
<1>1. \A j \in Requests : r \notin Team(j)
    BY DEF Teams, Teamed
<1>2. \A k \in Batched : r \notin ToSet(waiting[k])
    BY DEF Teams, Queued
<1>3. job[r] = "none"
    BY <1>1 DEF Teams, Teamed
<1>4. Team(r) = {}
    BY <1>3 DEF Teams, Teamed
<1>  QED  BY <1>1, <1>2, <1>3, <1>4

\* A new sequence is active and queued, or has its job, or is forgotten.
LEMMA StartVerdicts ==
    ASSUME Teams, Verdicts, VerdictsAgree, MoreTypes', NEW r \in Requests, caller[r] = "new",
           seq' = [seq EXCEPT ![r] = "active"], caller'[r] # "new",
           \A i \in Requests : i # r => caller'[i] = caller[i],
           UNCHANGED <<kind, event, asked, kill>>, forgotten \subseteq forgotten',
           \A k \in Batched : ToSet(waiting'[k]) = ToSet(waiting[k])
                              \/ (ToSet(waiting'[k]) = ToSet(waiting[k]) \cup {r}),
           NEW x \in {"none", "acquire"},
           \A i \in Requests : job'[i] = IF i = r THEN x ELSE job[i],
           \A i \in Requests : i # r => Team(i)' = Team(i),
           Team(r)' \subseteq {r},
           r \in forgotten' \/ (\E k \in Batched : r \in ToSet(waiting'[k])) \/ (x = "acquire" /\ r \in Team(r)')
    PROVE  Verdicts' /\ VerdictsAgree'
<1>1. job[r] = "none" /\ Team(r) = {} /\ \A j \in Requests : r \notin Team(j)
    BY NewIsNowhere
<1>2. \A q \in Requests : seq'[q] = IF q = r THEN "active" ELSE seq[q]
    BY DEF Teams, TypeOK
<1>3. seq[r] = "none" /\ event[r] = "none" /\ Undecided(r)'
    BY <1>2 DEF Verdicts, Undecided
<1>4. /\ \A i \in Requests : Team(i) \subseteq Requests
      /\ \A k \in Batched : ToSet(waiting[k]) \subseteq Requests
    BY LenProperties, ElementOfSeq DEF Teams, MoreTypes, Team, ToSet
<1>5. \A q \in Requests : Undecided(q) => Undecided(q)'
    BY <1>2 DEF Undecided
<1>6. x \notin {"ending", "failing"} \cup Working /\ "none" \notin Open
    BY DEF Open, Working, Producing
<1>7. Verdicts'
  <2>1. \A q \in Requests : caller'[q] = "new" => seq'[q] = "none" /\ event'[q] = "none"
      BY <1>2 DEF Verdicts
  <2>2. \A k \in Batched : \A q \in ToSet(waiting'[k]) : Undecided(q)'
      BY <1>3, <1>4, <1>5 DEF Verdicts
  <2>3. \A i \in Requests : job'[i] \in Open => \A q \in Team(i)' : Undecided(q)'
    <3>1. ASSUME NEW i \in Requests, job'[i] \in Open, NEW q \in Team(i)' PROVE Undecided(q)'
      <4>1. CASE i = r
          BY <1>3, <3>1, <4>1
      <4>2. CASE i # r
          BY <1>4, <1>5, <3>1, <4>2 DEF Verdicts
      <4>  QED  BY <4>1, <4>2
    <3>  QED  BY <3>1
  <2>4. \A i \in Requests : job'[i] \in {"ending", "failing"} => kind'[i] = "stream" /\ seq'[i] # "active"
      BY <1>2, <1>6 DEF Verdicts
  <2>5. \A i \in kill' : kind'[i] = "stream" /\ i \in asked'
      BY DEF Verdicts
  <2>  QED  BY <2>1, <2>2, <2>3, <2>4, <2>5 DEF Verdicts
<1>8. ASSUME NEW q \in Requests, seq'[q] = "active"
      PROVE  \/ \E k \in Batched : Contains(waiting'[k], q)
             \/ \E i \in Requests : q \in Team(i)' /\ job'[i] \in Active
             \/ q \in forgotten' \cup asked'
  <2>1. \A k \in Batched : /\ Contains(waiting'[k], q) <=> q \in ToSet(waiting'[k])
                           /\ Contains(waiting[k], q) <=> q \in ToSet(waiting[k])
      BY ContainsRange DEF Teams, MoreTypes
  <2>2. CASE q = r
      BY <2>1, <2>2 DEF Active
  <2>3. CASE q # r
    <3>1. \/ \E k \in Batched : Contains(waiting[k], q)
          \/ \E i \in Requests : q \in Team(i) /\ job[i] \in Active
          \/ q \in forgotten \cup asked
        BY <1>2, <1>8, <2>3 DEF VerdictsAgree, Active
    <3>2. ASSUME NEW i \in Requests, q \in Team(i), job[i] \in Active
          PROVE  q \in Team(i)' /\ job'[i] \in Active
        BY <1>1, <3>2
    <3>  QED  BY <2>1, <3>1, <3>2
  <2>  QED  BY <2>2, <2>3
<1>9. \A q \in Requests :
        /\ event'[q] = "completed" <=> seq'[q] = "completed"
        /\ event'[q] = "failed" => seq'[q] = "failed" \/ (kind'[q] = "bstream" /\ q \in asked')
    BY <1>2, <1>3 DEF VerdictsAgree
<1>10. VerdictsAgree'
    BY <1>8, <1>9 DEF VerdictsAgree, Active
<1>  QED  BY <1>7, <1>10

LEMMA StartInv ==
    ASSUME ChatInv, NEW r \in Requests, Start(r)
    PROVE  ChatInv'
<1>1. TypeOK /\ Teams /\ MoreTypes /\ Queued /\ Teamed /\ Held /\ Verdicts /\ VerdictsAgree
    BY DEF ChatInv, Teams
<1>2. /\ caller[r] = "new" /\ seq' = [seq EXCEPT ![r] = "active"]
      /\ UNCHANGED <<kind, slot, lease, asked, event, kill, source, hold, resp, stuck, stray>>
      /\ forgotten \subseteq forgotten'
    BY DEF Start, held, stream, reader
<1>3. /\ job[r] = "none" /\ Team(r) = {}
      /\ \A j \in Requests : r \notin Team(j)
      /\ \A k \in Batched : r \notin ToSet(waiting[k])
    BY <1>1, <1>2, NewIsNowhere
<1>4. PICK y \in {"raised", "waiting"} : caller' = [caller EXCEPT ![r] = y]
    BY DEF Start
<1>5. /\ caller' \in [Requests -> {"new", "waiting", "answered", "raised", "gone"}]
      /\ \A i \in Requests : caller'[i] = IF i = r THEN y ELSE caller[i]
    BY <1>1, <1>4 DEF TypeOK
<1>6. seq' \in [Requests -> {"none", "active", "completed", "failed"}]
    BY <1>1, <1>2 DEF TypeOK
<1>7. /\ \A i \in Requests : Team(i) \subseteq Requests
      /\ \A k \in Batched : ToSet(waiting[k]) \subseteq Requests
    BY <1>1, LenProperties, ElementOfSeq DEF MoreTypes, Team, ToSet
<1>8. "none" \notin Working /\ "acquire" \notin Working
    BY DEF Working, Producing
<1>9. CASE r \in cancelled
  <2>1. y = "raised" /\ r \in forgotten' /\ UNCHANGED <<waiting, drain, job, team>>
      BY <1>1, <1>5, <1>9 DEF Start, frontier, TypeOK
  <2>2. TypeOK' /\ MoreTypes'
      BY <1>1, <1>2, <1>5, <1>6, <2>1 DEF TypeOK, MoreTypes
  <2>3. Teams'
      BY <1>1, <1>2, <1>5, <2>1, <2>2, TeamsFrame
  <2>4. Held'
      BY <1>1, <1>2, <2>1, <2>2, HeldFrame DEF Team
  <2>5. \A i \in Requests : Team(i)' = Team(i) /\ job'[i] = IF i = r THEN "none" ELSE job[i]
      BY <1>3, <2>1 DEF Team
  <2>6. Verdicts' /\ VerdictsAgree'
      BY <1>1, <1>2, <1>3, <1>5, <2>1, <2>2, <2>5, StartVerdicts
  <2>  QED  BY <2>3, <2>4, <2>6 DEF ChatInv
<1>10. CASE r \notin cancelled /\ kind[r] \in Batched
  <2>1. y = "waiting" /\ Enqueue(r) /\ UNCHANGED <<job, team, forgotten>>
      BY <1>1, <1>5, <1>10 DEF Start, TypeOK
  <2>2. /\ drain' \in [Batched -> {"idle", "window", "busy"}]
        /\ waiting' = [waiting EXCEPT ![kind[r]] = Append(waiting[kind[r]], r)]
      BY <1>1, <1>10, <2>1 DEF Enqueue, TypeOK
  <2>3. \A k \in Batched : waiting'[k] = IF k = kind[r] THEN Append(waiting[k], r) ELSE waiting[k]
      BY <1>1, <1>10, <2>2 DEF MoreTypes
  <2>4. /\ Append(waiting[kind[r]], r) \in Seq(Requests)
        /\ ToSet(Append(waiting[kind[r]], r)) = ToSet(waiting[kind[r]]) \cup {r}
        /\ Distinct(Append(waiting[kind[r]], r))
      BY <1>1, <1>3, <1>10, AppendRange, AppendDistinct DEF MoreTypes, Queued
  <2>5. TypeOK' /\ MoreTypes'
      BY <1>1, <1>2, <1>5, <1>6, <2>1, <2>2, <2>4 DEF TypeOK, MoreTypes
  <2>6. \A i \in Requests : Team(i)' = Team(i) /\ job'[i] = IF i = r THEN "none" ELSE job[i]
      BY <1>3, <2>1 DEF Team
  <2>7. \A k \in Batched : ToSet(waiting'[k]) = IF k = kind[r] THEN ToSet(waiting[k]) \cup {r} ELSE ToSet(waiting[k])
      BY <2>3, <2>4
  <2>8. Queued'
    <3>1. \A k \in Batched : Distinct(waiting'[k])
        BY <1>1, <2>3, <2>4 DEF Queued
    <3>2. \A k \in Batched : \A q \in ToSet(waiting'[k]) :
            kind'[q] = k /\ caller'[q] # "new" /\ \A j \in Requests : q \notin Team(j)'
      <4>1. ASSUME NEW k \in Batched, NEW q \in ToSet(waiting'[k])
            PROVE  kind'[q] = k /\ caller'[q] # "new" /\ \A j \in Requests : q \notin Team(j)'
        <5>1. CASE q = r
            BY <1>2, <1>3, <1>5, <2>6, <2>7, <4>1, <5>1
        <5>2. CASE q # r
          <6>1. q \in ToSet(waiting[k]) /\ q \in Requests
              BY <1>7, <2>7, <4>1, <5>2
          <6>  QED  BY <1>1, <1>2, <1>5, <2>6, <4>1, <5>2, <6>1 DEF Queued
        <5>  QED  BY <5>1, <5>2
      <4>  QED  BY <4>1
    <3>  QED  BY <3>1, <3>2 DEF Queued
  <2>9. Teamed'
      BY <1>1, <1>2, <1>3, <1>5, <1>7, <1>10, <2>1, <2>6 DEF Teamed
  <2>10. Held'
      BY <1>1, <1>2, <2>1, <2>5, <2>6, HeldFrame
  <2>11. Verdicts' /\ VerdictsAgree'
      BY <1>1, <1>2, <1>3, <1>5, <1>10, <2>5, <2>6, <2>7, StartVerdicts
  <2>  QED  BY <2>5, <2>8, <2>9, <2>10, <2>11 DEF ChatInv, Teams
<1>11. CASE r \notin cancelled /\ kind[r] \notin Batched
  <2>1. /\ y = "waiting" /\ Advance(r, "acquire") /\ team' = [team EXCEPT ![r] = <<r>>]
        /\ UNCHANGED <<waiting, drain, forgotten>>
      BY <1>1, <1>5, <1>11 DEF Start, frontier, TypeOK
  <2>2. <<r>> \in Seq(Requests) /\ ToSet(<<r>>) = {r}
      BY DEF ToSet
  <2>3. TypeOK' /\ MoreTypes'
    <3>1. job' \in [Requests -> {"none", "acquire", "over"} \cup Working]
        BY <1>1, <2>1 DEF TypeOK, Advance
    <3>2. team' \in [Requests -> Seq(Requests)]
        BY <1>1, <2>1, <2>2 DEF MoreTypes
    <3>  QED  BY <1>1, <1>2, <1>5, <1>6, <2>1, <3>1, <3>2 DEF TypeOK, MoreTypes
  <2>4. \A i \in Requests : /\ Team(i)' = IF i = r THEN {r} ELSE Team(i)
                            /\ job'[i] = IF i = r THEN "acquire" ELSE job[i]
      BY <1>1, <2>1, <2>2, AdvanceFacts DEF Team, MoreTypes
  <2>5. Queued'
      BY <1>1, <1>2, <1>3, <1>5, <1>7, <2>1, <2>4 DEF Queued
  <2>6. Teamed'
    <3>1. ASSUME NEW j \in Requests
          PROVE  /\ job'[j] = "none" => Team(j)' = {}
                 /\ job'[j] # "none" => j \in Team(j)'
                 /\ \A q \in Team(j)' : kind'[q] = kind'[j] /\ caller'[q] # "new"
                 /\ kind'[j] \notin Batched => Team(j)' \subseteq {j}
                 /\ kind'[j] \notin Batched /\ caller'[j] = "waiting" => job'[j] # "none"
                 /\ \A i \in Requests : i # j => Team(i)' \cap Team(j)' = {}
      <4>1. CASE j = r
          BY <1>1, <1>2, <1>3, <1>5, <2>1, <2>4, <4>1 DEF Teamed
      <4>2. CASE j # r
          BY <1>1, <1>2, <1>3, <1>5, <1>7, <2>1, <2>4, <4>2 DEF Teamed
      <4>  QED  BY <4>1, <4>2
    <3>  QED  BY <3>1 DEF Teamed
  <2>7. Held'
      BY <1>1, <1>2, <1>3, <1>8, <2>1, <2>3, <2>4, HeldFrame
  <2>8. Verdicts' /\ VerdictsAgree'
      BY <1>1, <1>2, <1>3, <1>5, <2>1, <2>3, <2>4, StartVerdicts
  <2>  QED  BY <2>3, <2>5, <2>6, <2>7, <2>8 DEF ChatInv, Teams
<1>  QED  BY <1>9, <1>10, <1>11

\* The first members of a queue become the team of a job their first leads.
LEMMA TakeBatchInv ==
    ASSUME ChatInv, NEW k \in Batched, TakeBatch(k)
    PROVE  ChatInv'
<1>  DEFINE w == waiting[k]
            n == IF Len(w) < MaxBatch THEN Len(w) ELSE MaxBatch
            a == SubSeq(w, 1, n)
            b == SubSeq(w, n + 1, Len(w))
            j == Head(a)
<1>1. TypeOK /\ Teams /\ MoreTypes /\ Queued /\ Teamed /\ Held /\ Verdicts /\ VerdictsAgree
    BY DEF ChatInv, Teams
<1>2. w \in Seq(Requests) /\ w # <<>> /\ Len(w) \in Nat \ {0} /\ MaxBatch \in Nat \ {0}
    BY <1>1, ChatAssumption, LenProperties, EmptySeq DEF TakeBatch, MoreTypes
<1>3. n \in 0..Len(w) /\ n > 0
    BY <1>2
<1>4. Distinct(w)
    BY <1>1 DEF Queued
<1>  HIDE DEF n
<1>5. /\ a \in Seq(Requests) /\ b \in Seq(Requests) /\ Len(a) = n
      /\ ToSet(w) = ToSet(a) \cup ToSet(b) /\ ToSet(a) \cap ToSet(b) = {} /\ Distinct(b)
      /\ j \in ToSet(a)
    BY <1>2, <1>3, <1>4, Cut
<1>6. /\ waiting' = [waiting EXCEPT ![k] = b]
      /\ drain' = [drain EXCEPT ![k] = "busy"]
      /\ Advance(j, "acquire") /\ team' = [team EXCEPT ![j] = a]
      /\ UNCHANGED <<kind, caller, slot, lease, seq, asked, event, kill, source, hold, resp, stuck, stray, forgotten>>
    BY <1>5 DEF TakeBatch, n, held, verdict, stream, reader, holes
<1>  HIDE DEF w, a, b, j
<1>7. /\ \A i \in Requests : Team(i) \subseteq Requests
      /\ \A l \in Batched : ToSet(waiting[l]) \subseteq Requests
    BY <1>1, LenProperties, ElementOfSeq DEF MoreTypes, Team, ToSet
<1>8. /\ j \in Requests /\ ToSet(a) \subseteq Requests
      /\ \A r \in ToSet(w) : kind[r] = k /\ caller[r] # "new" /\ Undecided(r) /\ \A i \in Requests : r \notin Team(i)
    BY <1>1, <1>5, <1>7 DEF Queued, Verdicts, w
<1>9. job[j] = "none" /\ Team(j) = {} /\ kind[j] = k
    BY <1>1, <1>5, <1>8 DEF Teamed
<1>10. \A i \in Requests : /\ Team(i)' = IF i = j THEN ToSet(a) ELSE Team(i)
                           /\ job'[i] = IF i = j THEN "acquire" ELSE job[i]
    BY <1>1, <1>6, <1>8, AdvanceFacts DEF Team, MoreTypes
<1>11. \A l \in Batched : waiting'[l] = IF l = k THEN b ELSE waiting[l]
    BY <1>1, <1>6 DEF MoreTypes
<1>12. TypeOK' /\ MoreTypes'
  <2>1. job' \in [Requests -> {"none", "acquire", "over"} \cup Working]
      BY <1>1, <1>6 DEF TypeOK, Advance
  <2>2. drain' \in [Batched -> {"idle", "window", "busy"}]
      BY <1>1, <1>6 DEF TypeOK
  <2>3. waiting' \in [Batched -> Seq(Requests)] /\ team' \in [Requests -> Seq(Requests)]
      BY <1>1, <1>5, <1>6 DEF MoreTypes
  <2>  QED  BY <1>1, <1>6, <2>1, <2>2, <2>3 DEF TypeOK, MoreTypes
<1>13. \A l \in Batched : \A r \in ToSet(waiting'[l]) :
          r \in ToSet(waiting[l]) /\ r \in Requests /\ r \notin ToSet(a) /\ kind[r] = l
  <2>1. ASSUME NEW l \in Batched, NEW r \in ToSet(waiting'[l])
        PROVE  r \in ToSet(waiting[l]) /\ r \in Requests /\ r \notin ToSet(a) /\ kind[r] = l
    <3>1. CASE l = k
        BY <1>5, <1>7, <1>8, <1>11, <2>1, <3>1 DEF w
    <3>2. CASE l # k
      <4>1. r \in ToSet(waiting[l]) /\ kind[r] = l
          BY <1>1, <1>11, <2>1, <3>2 DEF Queued
      <4>2. r \notin ToSet(a)
          BY <1>5, <1>8, <3>2, <4>1
      <4>  QED  BY <1>7, <4>1, <4>2
    <3>  QED  BY <3>1, <3>2
  <2>  QED  BY <2>1
<1>14. Queued'
  <2>1. \A l \in Batched : Distinct(waiting'[l])
      BY <1>1, <1>5, <1>11 DEF Queued
  <2>2. ASSUME NEW l \in Batched, NEW r \in ToSet(waiting'[l])
        PROVE  kind'[r] = l /\ caller'[r] # "new" /\ \A i \in Requests : r \notin Team(i)'
      BY <1>1, <1>6, <1>10, <1>13, <2>2 DEF Queued
  <2>  QED  BY <2>1, <2>2 DEF Queued
<1>15. Teamed'
  <2>1. ASSUME NEW i \in Requests
        PROVE  /\ job'[i] = "none" => Team(i)' = {}
               /\ job'[i] # "none" => i \in Team(i)'
               /\ \A q \in Team(i)' : kind'[q] = kind'[i] /\ caller'[q] # "new"
               /\ kind'[i] \notin Batched => Team(i)' \subseteq {i}
               /\ kind'[i] \notin Batched /\ caller'[i] = "waiting" => job'[i] # "none"
               /\ \A h \in Requests : h # i => Team(h)' \cap Team(i)' = {}
    <3>1. CASE i = j
      <4>1. \A h \in Requests : h # i => Team(h)' \cap Team(i)' = {}
          BY <1>5, <1>8, <1>10, <3>1
      <4>  QED  BY <1>5, <1>6, <1>8, <1>9, <1>10, <3>1, <4>1
    <3>2. CASE i # j
      <4>1. \A h \in Requests : h # i => Team(h)' \cap Team(i)' = {}
          BY <1>1, <1>5, <1>8, <1>10, <3>2 DEF Teamed
      <4>2. Team(i)' = Team(i) /\ job'[i] = job[i]
          BY <1>10, <3>2
      <4>  QED  BY <1>1, <1>6, <4>1, <4>2 DEF Teamed
    <3>  QED  BY <3>1, <3>2
  <2>  QED  BY <2>1 DEF Teamed
<1>16. Held'
  <2>1. "none" \notin Working /\ "acquire" \notin Working
      BY DEF Working, Producing
  <2>  QED  BY <1>1, <1>6, <1>9, <1>10, <1>12, <2>1, HeldFrame
<1>17. \A r : Undecided(r)' <=> Undecided(r)
    BY <1>6 DEF Undecided
<1>18. Verdicts'
  <2>1. \A r \in Requests : caller'[r] = "new" => seq'[r] = "none" /\ event'[r] = "none"
      BY <1>1, <1>6 DEF Verdicts
  <2>2. \A l \in Batched : \A r \in ToSet(waiting'[l]) : Undecided(r)'
      BY <1>1, <1>13, <1>17 DEF Verdicts
  <2>3. \A i \in Requests : job'[i] \in Open => \A r \in Team(i)' : Undecided(r)'
      BY <1>1, <1>5, <1>8, <1>10, <1>17 DEF Verdicts
  <2>4. \A i \in Requests : job'[i] \in {"ending", "failing"} => kind'[i] = "stream" /\ seq'[i] # "active"
      BY <1>1, <1>6, <1>10 DEF Verdicts
  <2>5. \A i \in kill' : kind'[i] = "stream" /\ i \in asked'
      BY <1>1, <1>6 DEF Verdicts
  <2>  QED  BY <2>1, <2>2, <2>3, <2>4, <2>5 DEF Verdicts
<1>19. ASSUME NEW r \in Requests, seq'[r] = "active"
       PROVE  \/ \E l \in Batched : Contains(waiting'[l], r)
              \/ \E i \in Requests : r \in Team(i)' /\ job'[i] \in Active
              \/ r \in forgotten' \cup asked'
  <2>1. \A l \in Batched : /\ Contains(waiting'[l], r) <=> r \in ToSet(waiting'[l])
                           /\ Contains(waiting[l], r) <=> r \in ToSet(waiting[l])
      BY <1>1, <1>12, ContainsRange DEF MoreTypes
  <2>2. \/ \E l \in Batched : r \in ToSet(waiting[l])
        \/ \E i \in Requests : r \in Team(i) /\ job[i] \in Active
        \/ r \in forgotten \cup asked
      BY <1>1, <1>6, <1>19, <2>1 DEF VerdictsAgree, Active
  <2>3. ASSUME NEW l \in Batched, r \in ToSet(waiting[l])
        PROVE  r \in ToSet(waiting'[l]) \/ \E i \in Requests : r \in Team(i)' /\ job'[i] \in Active
    <3>1. CASE l = k /\ r \in ToSet(b)
        BY <1>11, <3>1
    <3>2. CASE l = k /\ r \notin ToSet(b)
      <4>1. r \in ToSet(a)
          BY <1>5, <2>3, <3>2 DEF w
      <4>  QED  BY <1>8, <1>10, <4>1 DEF Active
    <3>3. CASE l # k
        BY <1>11, <2>3, <3>3
    <3>  QED  BY <3>1, <3>2, <3>3
  <2>4. ASSUME NEW i \in Requests, r \in Team(i), job[i] \in Active
        PROVE  r \in Team(i)' /\ job'[i] \in Active
    <3>1. i # j
        BY <1>9, <2>4
    <3>  QED  BY <1>10, <2>4, <3>1
  <2>  QED  BY <1>6, <1>8, <2>1, <2>2, <2>3, <2>4
<1>20. VerdictsAgree'
    BY <1>1, <1>6, <1>19 DEF VerdictsAgree, Active
<1>  QED  BY <1>12, <1>14, <1>15, <1>16, <1>18, <1>20 DEF ChatInv, Teams

-----------------------------------------------------------------------------
(* The invariant.                                                          *)

LEMMA InitChatInv == Init => ChatInv
<1>  SUFFICES ASSUME Init PROVE ChatInv
    OBVIOUS
<1>1. TypeOK
    BY DEF Init, TypeOK
<1>2. MoreTypes
    BY ChatAssumption, EmptySeq DEF Init, MoreTypes
<1>3. (\A k \in Batched : waiting[k] = <<>>) /\ (\A r \in Requests : team[r] = <<>>)
    BY DEF Init
<1>4. ToSet(<<>>) = {} /\ Distinct(<<>>)
    BY DEF ToSet, Distinct
<1>5. (\A k \in Batched : ToSet(waiting[k]) = {}) /\ (\A r \in Requests : Team(r) = {})
    BY <1>3, <1>4 DEF Team
<1>6. Queued
    BY <1>3, <1>4, <1>5 DEF Queued
<1>7. Teamed
    BY <1>5 DEF Init, Teamed
<1>8. HeldByWork
  <2>1. \A j \in Requests : job[j] \notin Working
      BY DEF Init, Working, Producing
  <2>2. slot = {} /\ lease = {} /\ Cardinality({}) = 0
      BY FS_EmptySet DEF Init
  <2>3. Cardinality(slot) <= MaxSlots
      BY <2>2, ChatAssumption
  <2>  QED  BY <1>1, <2>1, <2>2, <2>3 DEF HeldByWork
<1>9. Held
    BY <1>8, FS_EmptySet DEF Held, Init
<1>10. Verdicts
    BY <1>5 DEF Verdicts, Init, Open
<1>11. VerdictsAgree
    BY DEF VerdictsAgree, Init
<1>  QED  BY <1>1, <1>2, <1>6, <1>7, <1>9, <1>10, <1>11 DEF ChatInv, Teams

LEMMA NextChatInv == ChatInv /\ [Next]_vars => ChatInv'
<1>  SUFFICES ASSUME ChatInv, [Next]_vars PROVE ChatInv'
    OBVIOUS
<1>1. ASSUME NEW r \in Requests, Execute(r) PROVE ChatInv'
    BY <1>1, AcquireInv, AcquireFailsInv, EnterLeaseInv, PrepareInv, CompleteInv, CompleteSomeInv,
       StreamSetupFailsInv, BatchSetupFailsInv, QuietSteps, FinishInv, ProducerEnds,
       BatchFinishInv, BatchSomeInv, BatchBreaksInv DEF Execute
<1>2. ASSUME NEW r \in Requests, Respond(r) PROVE ChatInv'
    BY <1>2, ClosingSteps, QuietSteps DEF Respond
<1>3. ASSUME NEW r \in Requests,
             \/ Start(r) \/ CancelNamed(r) \/ CancelCaller(r)
             \/ OpenCancelled(r) \/ Disconnect(r) \/ Collect(r)
      PROVE  ChatInv'
    BY <1>3, StartInv, QuietSteps, CancelCallerInv, ClosingSteps, CollectInv
<1>4. CASE UNCHANGED vars
  <2>1. /\ UNCHANGED <<kind, caller, waiting, job, team, slot, lease, seq, event, stuck, stray, forgotten>>
        /\ UNCHANGED <<drain, asked, kill, source, hold, resp>>
      BY <1>4 DEF vars, frontier, held, verdict, stream, reader, holes
  <2>2. TypeOK' /\ \A j \in kill' : kind[j] = "stream" /\ j \in asked'
      BY <2>1 DEF ChatInv, Teams, TypeOK, Verdicts
  <2>  QED  BY <2>1, <2>2, QuietFrame
<1>  QED  BY <1>1, <1>2, <1>3, <1>4, TakeBatchInv DEF Next

\* The inductive invariant holds of every behaviour.
THEOREM ChatInvariant == Spec => []ChatInv
<1>1. Init => ChatInv
    BY InitChatInv
<1>2. ChatInv /\ [Next]_vars => ChatInv'
    BY NextChatInv
<1>  QED  BY <1>1, <1>2, PTL DEF Spec

\* Whatever callers, readers and failures do, the jobs at work hold exactly
\* their admission and, past loading, their members' leases; what else is held
\* was left behind by the set-up of a stream.
THEOREM AdmissionsAndLeasesAreHeldByWork == Spec => []HeldByWork
<1>1. ChatInv => HeldByWork
    BY DEF ChatInv, Held
<1>  QED  BY <1>1, ChatInvariant, PTL

\* The event published and the serving core agree about every request, and an
\* active sequence is queued, at work, asked to cancel or known to be forgotten.
THEOREM EventsAgreeWithSequences == Spec => []VerdictsAgree
<1>1. ChatInv => VerdictsAgree
    BY DEF ChatInv
<1>  QED  BY <1>1, ChatInvariant, PTL

-----------------------------------------------------------------------------
(* A verdict stands: every job that concludes its members finds them       *)
(* undecided, but for one that raises after it had concluded some.         *)

Stands ==
    \A r \in Requests :
        event[r] # "none" /\ r \notin again' => event'[r] = event[r] /\ seq'[r] = seq[r]

LEMMA ConcludingStands ==
    ASSUME ChatInv, NEW j \in Requests, NEW v \in {"completed", "failed"}, Conclude(Team(j), v),
           job[j] \in Open \/ {r \in Team(j) : event[r] # "none"} \subseteq again'
    PROVE  Stands
<1>1. TypeOK /\ \A r \in Team(j) : event[r] = "none" \/ r \in again'
    BY DEF ChatInv, Teams, Verdicts, Undecided
<1>2. \A r \in Requests : /\ seq'[r] = IF r \in Team(j) THEN v ELSE seq[r]
                          /\ event'[r] = IF r \in Team(j) THEN v ELSE event[r]
    BY <1>1, ConcludeFacts
<1>  QED  BY <1>1, <1>2 DEF Stands

\* The members concluded one by one were undecided.
LEMMA StreamsStand ==
    ASSUME ChatInv, NEW j \in Requests, job[j] \in Open,
           NEW S, S \subseteq Team(j), ConcludeStreams(S)
    PROVE  Stands
<1>1. TypeOK /\ \A r \in Team(j) : event[r] = "none"
    BY DEF ChatInv, Teams, Verdicts, Undecided
<1>2. PICK served, closed :
          /\ served \cup closed = S
          /\ \A r \in Requests :
                /\ seq'[r] = IF r \in served THEN "completed" ELSE seq[r]
                /\ event'[r] = IF r \in served THEN "completed" ELSE IF r \in closed THEN "failed" ELSE event[r]
    BY <1>1, ConcludeStreamsFacts
<1>  QED  BY <1>1, <1>2 DEF Stands

LEMMA ExecuteStands ==
    ASSUME ChatInv, NEW j \in Requests, Execute(j)
    PROVE  Stands
<1>1. CASE AcquireFails(j) \/ RunComplete(j) \/ CompleteFails(j) \/ StreamSetupFails(j) \/ BatchBreaks(j)
  <2>1. PICK v \in {"completed", "failed"} : Conclude(Team(j), v)
      BY <1>1 DEF AcquireFails, RunComplete, CompleteFails, StreamSetupFails, BatchBreaks
  <2>2. job[j] \in Open \/ {r \in Team(j) : event[r] # "none"} \subseteq again'
      BY <1>1 DEF AcquireFails, RunComplete, CompleteFails, StreamSetupFails, BatchBreaks, Open
  <2>  QED  BY <2>1, <2>2, ConcludingStands
<1>2. CASE BatchSetupFails(j)
  <2>1. Conclude(Team(j), "failed") \/ UNCHANGED <<seq, event>>
      BY <1>2 DEF BatchSetupFails
  <2>2. job[j] \in Open
      BY <1>2 DEF BatchSetupFails, Open
  <2>  QED  BY <2>1, <2>2, ConcludingStands DEF Stands
<1>3. CASE Finish(j) \/ CompleteSome(j)
  <2>1. TypeOK /\ Teams /\ job[j] \in Open /\ j \in Team(j)
      BY <1>3 DEF ChatInv, Teams, Teamed, Finish, CompleteSome, Open
  <2>2. \E S : S \subseteq Team(j) /\ \E v \in {"completed", "failed"} : Conclude(S, v)
    <3>1. CASE Finish(j)
      <4>1. {j} \subseteq Team(j)
          BY <2>1
      <4>  QED  BY <3>1, <4>1 DEF Finish
    <3>2. CASE CompleteSome(j)
      <4>1. PICK n \in 1 .. Len(team[j]) : Conclude(ToSet(SubSeq(team[j], 1, n)), "completed")
          BY <3>2 DEF CompleteSome
      <4>2. ToSet(SubSeq(team[j], 1, n)) \subseteq Team(j)
          BY <2>1, FirstMembers
      <4>  QED  BY <4>1, <4>2
    <3>  QED  BY <1>3, <3>1, <3>2
  <2>3. PICK S : S \subseteq Team(j) /\ \E v \in {"completed", "failed"} : Conclude(S, v)
      BY <2>2
  <2>4. PICK v \in {"completed", "failed"} : Conclude(S, v)
      BY <2>3
  <2>5. \A r \in S : event[r] = "none"
      BY <2>1, <2>3 DEF ChatInv, Verdicts, Undecided
  <2>6. \A r \in Requests : /\ seq'[r] = IF r \in S THEN v ELSE seq[r]
                            /\ event'[r] = IF r \in S THEN v ELSE event[r]
      BY <2>1, <2>4, ConcludeFacts
  <2>  QED  BY <2>5, <2>6 DEF Stands
<1>4. CASE BatchFinish(j)
    BY <1>4, StreamsStand DEF BatchFinish, Open
<1>5. CASE BatchSome(j)
  <2>1. PICK n \in 1 .. Len(team[j]) : ConcludeStreams(ToSet(SubSeq(team[j], 1, n)))
      BY <1>5 DEF BatchSome
  <2>2. ToSet(SubSeq(team[j], 1, n)) \subseteq Team(j) /\ job[j] \in Open
      BY <1>5, FirstMembers DEF ChatInv, BatchSome, Open
  <2>  QED  BY <2>1, <2>2, StreamsStand
<1>6. CASE \/ Acquire(j) \/ EnterLease(j) \/ Prepare(j) \/ Delta(j) \/ LastItem(j) \/ Killed(j)
           \/ \E r \in Requests : BatchDelta(j, r)
  <2>1. UNCHANGED <<seq, event>>
      BY <1>6 DEF Acquire, EnterLease, Prepare, Delta, LastItem, Killed, BatchDelta, verdict
  <2>  QED  BY <2>1 DEF Stands
<1>  QED  BY <1>1, <1>2, <1>3, <1>4, <1>5, <1>6 DEF Execute

LEMMA NextStands == ChatInv /\ [Next]_vars => Stands
<1>  SUFFICES ASSUME ChatInv, [Next]_vars PROVE Stands
    OBVIOUS
<1>1. ASSUME NEW r \in Requests, Start(r) PROVE Stands
  <2>1. caller[r] = "new" /\ seq' = [seq EXCEPT ![r] = "active"] /\ UNCHANGED event
      BY <1>1 DEF Start
  <2>2. TypeOK /\ event[r] = "none"
      BY <2>1 DEF ChatInv, Teams, Verdicts
  <2>  QED  BY <2>1, <2>2 DEF Stands, TypeOK
<1>2. ASSUME NEW r \in Requests,
             \/ CancelNamed(r) \/ CancelCaller(r) \/ Respond(r)
             \/ OpenCancelled(r) \/ Disconnect(r) \/ Collect(r)
      PROVE  Stands
  <2>1. UNCHANGED <<seq, event>>
      BY <1>2 DEF CancelNamed, CancelCaller, Respond, TakeItem, Opened, Begin, Forward, SeeCancel,
                  OpenCancelled, Disconnect, Collect, verdict
  <2>  QED  BY <2>1 DEF Stands
<1>3. ASSUME NEW k \in Batched, TakeBatch(k) PROVE Stands
    BY <1>3 DEF TakeBatch, verdict, Stands
<1>4. CASE UNCHANGED vars
    BY <1>4 DEF vars, verdict, Stands
<1>  QED  BY <1>1, <1>2, <1>3, <1>4, ExecuteStands DEF Next

\* Once a request's terminal event is out, no step publishes another one or
\* changes its sequence: not a reader that leaves, and not a producer that is
\* killed.  The exception stays with the members that a complete() or a batch
\* fails because it raised after it had published their verdicts.
THEOREM VerdictsStand == Spec => VerdictStands
<1>1. ChatInv /\ [Next]_vars =>
        [\A r \in Requests :
            event[r] # "none" /\ r \notin again' => event'[r] = event[r] /\ seq'[r] = seq[r]]_vars
    BY NextStands DEF Stands
<1>  QED  BY <1>1, ChatInvariant, PTL DEF Spec, VerdictStands
=============================================================================
