-------------------------- MODULE BacktestRunsProofs --------------------------
(***************************************************************************)
(* What the run store guarantees for every number of runs, processes and   *)
(* faults, and what it guarantees to a sole process.                       *)
(***************************************************************************)
EXTENDS BacktestRuns, TLAPS

\* The steps of one process, by which Next is split in every proof.
Move(a) ==
    \/ \E r \in Runs, e \in Entries : Submit(a, r, e) \/ Resume(a, r, e)
    \/ \E r \in Runs : CancelRecord(a, r)
    \/ Work(a) \/ FailToWrite(a) \/ FireToken(a) \/ Crash(a)

\* Every step is a step of one process.
LEMMA NextIsMove == Next => \E a \in Processes : Move(a)
BY DEF Next, Move

(***************************************************************************)
(* Type correctness.                                                       *)
(***************************************************************************)

\* The records a process writes.
LEMMA ConcludedRecord ==
  ASSUME NEW e \in Entries, NEW s \in {"SUCCEEDED", "FAILED", "CANCELLED"}
  PROVE  [state |-> s, bound |-> IF s = "SUCCEEDED" THEN Bound(e) ELSE {}] \in Records
BY DEF Records, States, Bound, Artifacts

\* A record that binds nothing.
LEMMA PlainRecord ==
  ASSUME NEW s \in States
  PROVE  Record(s) \in Records /\ Record(s).state = s /\ Record(s).bound = {}
BY DEF Records, Record

\* No run is recorded and every process is idle.
LEMMA TypeInit == Init => TypeOK
BY FaultsAssumption, PlainRecord DEF Init, TypeOK, Stages, States, Records, Record

\* Starting to write a record keeps the process typed.
LEMMA WriteType ==
  ASSUME TypeOK, NEW a \in Processes, NEW r \in Records, r.state # "absent",
         NEW stage \in {"idle", "start", "load", "engine", "build"},
         Write(a, r, stage)
  PROVE  /\ pc' \in [Processes -> Stages]
         /\ intent' \in [Processes -> Records]
         /\ after' \in [Processes -> Stages]
         /\ \A b \in Processes : pc'[b] \in {"check", "replace"} => intent'[b].state # "absent"
         /\ \A b \in Processes : after'[b] \in {"idle", "start", "load", "engine", "build"}
BY DEF TypeOK, Write, Stages

\* So does going on without one.
LEMMA GoToType ==
  ASSUME TypeOK, NEW a \in Processes, NEW stage \in Stages \ {"check", "replace"},
         GoTo(a, stage)
  PROVE  /\ pc' \in [Processes -> Stages]
         /\ intent' \in [Processes -> Records]
         /\ after' \in [Processes -> Stages]
         /\ \A b \in Processes : pc'[b] \in {"check", "replace"} => intent'[b].state # "absent"
         /\ \A b \in Processes : after'[b] \in {"idle", "start", "load", "engine", "build"}
BY DEF TypeOK, GoTo

\* The end of a run is written like any other record.
LEMMA ConcludeType ==
  ASSUME TypeOK, NEW a \in Processes, NEW s \in {"SUCCEEDED", "FAILED", "CANCELLED"},
         Conclude(a, s)
  PROVE  /\ pc' \in [Processes -> Stages]
         /\ intent' \in [Processes -> Records]
         /\ after' \in [Processes -> Stages]
         /\ \A b \in Processes : pc'[b] \in {"check", "replace"} => intent'[b].state # "absent"
         /\ \A b \in Processes : after'[b] \in {"idle", "start", "load", "engine", "build"}
<1> DEFINE r == [state |-> s, bound |-> IF s = "SUCCEEDED" THEN Bound(entry[a]) ELSE {}]
<1>1. entry[a] \in Entries
  BY DEF TypeOK
<1>2. r \in Records /\ r.state # "absent"
  BY <1>1, ConcludedRecord
<1>3. Write(a, r, "idle")
  BY DEF Conclude
<1> HIDE DEF r
<1> QED BY <1>2, <1>3, WriteType

\* Data and control of each step, one case per action.
LEMMA TypeStep == TypeOK /\ [Next]_vars => TypeOK'
<1> SUFFICES ASSUME TypeOK, [Next]_vars PROVE TypeOK'
  OBVIOUS
<1> DEFINE Control ==
       /\ pc' \in [Processes -> Stages]
       /\ intent' \in [Processes -> Records]
       /\ after' \in [Processes -> Stages]
       /\ \A b \in Processes : pc'[b] \in {"check", "replace"} => intent'[b].state # "absent"
       /\ \A b \in Processes : after'[b] \in {"idle", "start", "load", "engine", "build"}
     Data ==
       /\ record' \in [Runs -> Records]
       /\ published' \in [Runs -> SUBSET Artifacts]
       /\ job' \in [Processes -> Runs]
       /\ entry' \in [Processes -> Entries]
       /\ token' \in [Processes -> BOOLEAN]
       /\ faults' \in 0 .. MaxFaults
<1>1. CASE UNCHANGED vars
  BY <1>1 DEF vars, disk, TypeOK
<1>2. ASSUME NEW a \in Processes, Move(a) PROVE Data /\ Control
  <2> USE DEF Stages, States
  <2>1. ASSUME NEW r \in Runs, NEW e \in Entries, Submit(a, r, e) PROVE Data /\ Control
    BY <2>1, GoToType DEF Submit, Take, TypeOK, disk
  <2>2. ASSUME NEW r \in Runs, NEW e \in Entries, Resume(a, r, e) PROVE Data /\ Control
    BY <2>2, GoToType DEF Resume, Take, TypeOK, disk
  <2>3. ASSUME NEW r \in Runs, CancelRecord(a, r) PROVE Data /\ Control
    BY <2>3, WriteType, PlainRecord DEF CancelRecord, TypeOK, disk
  <2>4. ASSUME FailToWrite(a) PROVE Data /\ Control
    <3>1. Control
      BY <2>4, WriteType, GoToType, PlainRecord DEF FailToWrite
    <3> QED BY <2>4, <3>1, FaultsAssumption DEF FailToWrite, TypeOK, disk
  <2>5. ASSUME FireToken(a) PROVE Data /\ Control
    BY <2>5 DEF FireToken, TypeOK, disk
  <2>6. ASSUME Crash(a) PROVE Data /\ Control
    <3>1. Control
      BY <2>6, GoToType DEF Crash
    <3> QED BY <2>6, <3>1, FaultsAssumption DEF Crash, TypeOK, disk
  <2>7. ASSUME CheckRecord(a) PROVE Data /\ Control
    BY <2>7 DEF CheckRecord, GoTo, TypeOK, disk
  <2>8. ASSUME ReplaceRecord(a) PROVE Data /\ Control
    BY <2>8 DEF ReplaceRecord, GoTo, TypeOK
  <2>9. ASSUME Validate(a) PROVE Data /\ Control
    <3>1. Control
      BY <2>9, GoToType, ConcludeType DEF Validate
    <3> QED BY <2>9, <3>1 DEF Validate, TypeOK, disk
  <2>10. ASSUME Reserve(a) PROVE Data /\ Control
    <3>1. Control
      BY <2>10, GoToType, WriteType, PlainRecord DEF Reserve
    <3> QED BY <2>10, <3>1 DEF Reserve, TypeOK, disk
  <2>11. ASSUME Start(a) PROVE Data /\ Control
    <3>1. Control
      BY <2>11, WriteType, PlainRecord DEF Start
    <3> QED BY <2>11, <3>1 DEF Start, TypeOK, disk
  <2>12. ASSUME Compute(a) PROVE Data /\ Control
    <3>1. NextStage(pc[a]) \in {"engine", "build"}
      BY <2>12 DEF Compute, NextStage
    <3>2. CancelledState(entry[a]) \in {"SUCCEEDED", "FAILED", "CANCELLED"}
      BY DEF CancelledState
    <3>3. CASE Conclude(a, "FAILED") \/ Conclude(a, CancelledState(entry[a]))
      <4>1. Control
        BY <3>2, <3>3, ConcludeType
      <4> QED BY <2>12, <4>1 DEF Compute, TypeOK, disk
    <3>4. CASE Proceed(a, NextStage(pc[a]))
      <4>1. Control
        BY <3>1, <3>4, WriteType, GoToType, PlainRecord DEF Proceed
      <4> QED BY <2>12, <4>1 DEF Compute, TypeOK, disk
    <3> QED BY <2>12, <3>3, <3>4 DEF Compute
  <2>13. ASSUME Build(a) PROVE Data /\ Control
    <3>1. FirstArtifact(entry[a]) \in {"evidence", "manifest"}
      BY DEF FirstArtifact
    <3>2. Control
      BY <2>13, <3>1, GoToType, ConcludeType DEF Build
    <3> QED BY <2>13, <3>2 DEF Build, TypeOK, disk
  <2>14. ASSUME Publish(a) PROVE Data /\ Control
    <3>1. ArtifactAfter(entry[a], pc[a]) \in {"manifest", "report", "evidence", "settle"}
      BY DEF ArtifactAfter
    <3>2. Control
      BY <2>14, <3>1, GoToType, ConcludeType DEF Publish
    <3>3. published' \in [Runs -> SUBSET Artifacts]
      BY <2>14 DEF Publish, TypeOK
    <3> QED BY <2>14, <3>2, <3>3 DEF Publish, TypeOK
  <2>15. ASSUME Settle(a) PROVE Data /\ Control
    <3>1. \E s \in {"SUCCEEDED", "FAILED", "CANCELLED"} : Conclude(a, s)
      BY <2>15 DEF Settle, CancelledState
    <3>2. Control
      BY <3>1, ConcludeType
    <3> QED BY <2>15, <3>2 DEF Settle, TypeOK, disk
  <2> QED BY <1>2, <2>1, <2>2, <2>3, <2>4, <2>5, <2>6, <2>7, <2>8, <2>9, <2>10, <2>11,
             <2>12, <2>13, <2>14, <2>15 DEF Move, Work
<1>3. ASSUME NEW a \in Processes, Move(a) PROVE TypeOK'
  <2>1. Data /\ Control
    BY <1>2, <1>3
  <2> QED BY <2>1 DEF TypeOK
<1> QED BY <1>1, <1>3, NextIsMove

\* Records, artifacts and processes stay typed, for any number of runs and
\* processes and under any faults.
THEOREM TypesAreKept == Spec => []TypeOK
BY TypeInit, TypeStep, PTL DEF Spec

-----------------------------------------------------------------------------
(***************************************************************************)
(* Records bind only what was published.                                   *)
(***************************************************************************)

\* What a run has published when it stands at a stage.
Earlier(e, stage) ==
    IF stage = "settle" THEN Bound(e)
    ELSE IF stage = "report" THEN {"evidence", "manifest"}
    ELSE IF stage = "manifest" /\ e = "T069" THEN {"evidence"}
    ELSE IF stage = "evidence" /\ e = "T113" THEN {"manifest"}
    ELSE {}

\* A process stands where its artifacts allow, and a record about to be
\* written binds only files that are there.
Backed(a) ==
    /\ Earlier(entry[a], pc[a]) \subseteq published[job[a]]
    /\ pc[a] \in {"check", "replace"} => intent[a].bound \subseteq published[job[a]]

ArtifactInv == TypeOK /\ RecordedArtifactsExist /\ \A a \in Processes : Backed(a)

\* Publishing the artifacts in the order of the entry leads to its last stage
\* with all of them.
LEMMA ArtifactOrder ==
  ASSUME NEW e \in Entries, NEW x \in Artifacts
  PROVE  /\ Earlier(e, ArtifactAfter(e, x)) \subseteq Earlier(e, x) \cup {x}
         /\ Earlier(e, FirstArtifact(e)) = {}
         /\ ArtifactAfter(e, x) \in Stages \ {"check", "replace"}
         /\ FirstArtifact(e) \in Stages \ {"check", "replace"}
<1>1. Earlier(e, FirstArtifact(e)) = {} /\ FirstArtifact(e) \in Stages \ {"check", "replace"}
  BY DEF Earlier, FirstArtifact, Stages, Entries
<1>2. CASE e = "T069"
  <2>1. /\ ArtifactAfter("T069", "evidence") = "manifest"
        /\ ArtifactAfter("T069", "manifest") = "report"
        /\ ArtifactAfter("T069", "report") = "settle"
    BY DEF ArtifactAfter
  <2> QED BY <1>1, <1>2, <2>1 DEF Earlier, Bound, Artifacts, Stages
<1>3. CASE e = "T113"
  <2>1. /\ ArtifactAfter("T113", "evidence") = "settle"
        /\ ArtifactAfter("T113", "manifest") = "evidence"
        /\ ArtifactAfter("T113", "report") = "settle"
    BY DEF ArtifactAfter
  <2> QED BY <1>1, <1>3, <2>1 DEF Earlier, Bound, Artifacts, Stages
<1> QED BY <1>2, <1>3 DEF Entries

\* Starting to write a record whose artifacts are there.
LEMMA BackedWrite ==
  ASSUME TypeOK, NEW a \in Processes, NEW r, NEW stage, Write(a, r, stage),
         r.bound \subseteq published[job[a]], UNCHANGED <<published, job, entry>>
  PROVE  Backed(a)'
<1>1. pc'[a] = "check" /\ intent'[a] = r
  BY DEF Write, TypeOK
<1> QED BY <1>1 DEF Backed, Earlier

\* The end of a run binds what its settle stage stands for, or nothing.
LEMMA BackedConclude ==
  ASSUME ArtifactInv, NEW a \in Processes, NEW s \in {"SUCCEEDED", "FAILED", "CANCELLED"},
         Conclude(a, s), s = "SUCCEEDED" => pc[a] = "settle",
         UNCHANGED <<published, job, entry>>
  PROVE  Backed(a)'
<1> DEFINE r == [state |-> s, bound |-> IF s = "SUCCEEDED" THEN Bound(entry[a]) ELSE {}]
<1>1. r.bound \subseteq published[job[a]]
  BY DEF ArtifactInv, Backed, Earlier
<1>2. Write(a, r, "idle")
  BY DEF Conclude
<1> HIDE DEF r
<1> QED BY <1>1, <1>2, BackedWrite DEF ArtifactInv

\* A move to a stage whose artifacts are there.
LEMMA BackedGoTo ==
  ASSUME TypeOK, NEW a \in Processes, NEW stage \in Stages \ {"check", "replace"},
         GoTo(a, stage), Earlier(entry'[a], stage) \subseteq published'[job'[a]]
  PROVE  Backed(a)'
<1>1. pc'[a] = stage
  BY DEF GoTo, TypeOK
<1> QED BY <1>1 DEF Backed

\* A step of one process moves no other.
LEMMA OtherProcessStands ==
  ASSUME TypeOK, NEW a \in Processes, NEW b \in Processes, a # b, Move(a)
  PROVE  /\ job'[b] = job[b] /\ entry'[b] = entry[b]
         /\ pc'[b] = pc[b] /\ intent'[b] = intent[b]
<1>1. job'[b] = job[b] /\ entry'[b] = entry[b]
  BY DEF Move, Work, Submit, Resume, Take, CancelRecord, FailToWrite, FireToken, Crash,
         CheckRecord, ReplaceRecord, Validate, Reserve, Start, Compute, Build, Publish, Settle,
         TypeOK
<1>2. pc'[b] = pc[b] /\ intent'[b] = intent[b]
  <2>1. ASSUME NEW r, NEW stage, Write(a, r, stage) \/ GoTo(a, stage)
        PROVE  pc'[b] = pc[b] /\ intent'[b] = intent[b]
    BY <2>1 DEF Write, GoTo, TypeOK
  <2> QED BY <2>1 DEF Move, Work, Submit, Resume, CancelRecord, FailToWrite, FireToken, Crash,
            CheckRecord, ReplaceRecord, Validate, Reserve, Start, Compute, Build, Publish, Settle,
            Conclude, Proceed
<1> QED BY <1>1, <1>2

\* A step of one process leaves what every other is backed by.
LEMMA OthersBacked ==
  ASSUME TypeOK, NEW a \in Processes, NEW b \in Processes, a # b, Backed(b), Move(a)
  PROVE  Backed(b)'
<1>1. \A r \in Runs : published[r] \subseteq published'[r]
  BY DEF Move, Work, Submit, Resume, Take, CancelRecord, FailToWrite, FireToken, Crash,
         CheckRecord, ReplaceRecord, Validate, Reserve, Start, Compute, Build, Publish, Settle,
         disk, TypeOK
<1>2. job'[b] = job[b] /\ entry'[b] = entry[b] /\ pc'[b] = pc[b] /\ intent'[b] = intent[b]
  BY OtherProcessStands
<1>3. job[b] \in Runs
  BY DEF TypeOK
<1> QED BY <1>1, <1>2, <1>3 DEF Backed

\* Nothing is recorded, so nothing is bound.
LEMMA ArtifactInit == Init => ArtifactInv
<1> SUFFICES ASSUME Init PROVE RecordedArtifactsExist /\ \A a \in Processes : Backed(a)
  BY TypeInit DEF ArtifactInv
<1> QED BY DEF Init, RecordedArtifactsExist, Backed, Earlier, Record

\* Files only accumulate, so a step keeps what the records and the other
\* processes are backed by.
LEMMA ArtifactStep == ArtifactInv /\ [Next]_vars => ArtifactInv'
<1> SUFFICES ASSUME ArtifactInv, [Next]_vars
             PROVE  RecordedArtifactsExist' /\ \A a \in Processes : Backed(a)'
  BY TypeStep DEF ArtifactInv
<1>0. TypeOK
  BY DEF ArtifactInv
<1>1. CASE UNCHANGED vars
  BY <1>1 DEF vars, disk, ArtifactInv, RecordedArtifactsExist, Backed
<1>2. ASSUME NEW a \in Processes, Move(a)
      PROVE  RecordedArtifactsExist' /\ \A b \in Processes : Backed(b)'
  <2> DEFINE Kept == RecordedArtifactsExist' /\ Backed(a)'
  <2>0. ASSUME UNCHANGED disk PROVE RecordedArtifactsExist'
    BY <2>0 DEF disk, ArtifactInv, RecordedArtifactsExist
  <2>1. ASSUME NEW r \in Runs, NEW e \in Entries, Submit(a, r, e) \/ Resume(a, r, e) PROVE Kept
    <3>1. UNCHANGED disk /\ \E stage \in {"validate", "start", "load"} : GoTo(a, stage)
      BY <2>1 DEF Submit, Resume
    <3>2. \A stage \in {"validate", "start", "load"} :
             stage \in Stages \ {"check", "replace"} /\ \A x : Earlier(x, stage) = {}
      BY DEF Stages, Earlier
    <3> QED BY <1>0, <2>0, <3>1, <3>2, BackedGoTo
  <2>2. ASSUME NEW r \in Runs, CancelRecord(a, r) PROVE Kept
    <3>1. /\ UNCHANGED disk /\ pc'[a] = "check" /\ intent'[a] = Record("CANCELLED")
      BY <1>0, <2>2 DEF CancelRecord, Write, TypeOK
    <3> QED BY <2>0, <3>1 DEF Backed, Earlier, Record
  <2>3. ASSUME FailToWrite(a) PROVE Kept
    <3>1. UNCHANGED disk /\ UNCHANGED <<published, job, entry>>
      BY <2>3 DEF FailToWrite, disk
    <3>2. CASE Write(a, Record("FAILED"), "idle")
      BY <1>0, <2>0, <3>1, <3>2, BackedWrite DEF Record
    <3>3. CASE GoTo(a, "idle")
      BY <1>0, <2>0, <3>1, <3>3, BackedGoTo DEF Stages, Earlier
    <3> QED BY <2>3, <3>2, <3>3 DEF FailToWrite
  <2>4. ASSUME FireToken(a) PROVE Kept
    BY <2>0, <2>4 DEF FireToken, ArtifactInv, Backed, disk
  <2>5. ASSUME Crash(a) PROVE Kept
    BY <1>0, <2>0, <2>5, BackedGoTo DEF Crash, Stages, Earlier
  <2>6. ASSUME CheckRecord(a) PROVE Kept
    <3>1. /\ UNCHANGED disk /\ UNCHANGED <<intent, job, entry>>
          /\ pc'[a] \in {"replace", "idle", "start", "load", "engine", "build"}
          /\ pc[a] = "check"
      BY <1>0, <2>6 DEF CheckRecord, GoTo, TypeOK
    <3> QED BY <2>0, <3>1 DEF ArtifactInv, Backed, Earlier, disk
  <2>7. ASSUME ReplaceRecord(a) PROVE Kept
    <3>1. /\ UNCHANGED <<published, job, entry>> /\ pc[a] = "replace"
          /\ pc'[a] \in {"idle", "start", "load", "engine", "build"}
      BY <1>0, <2>7 DEF ReplaceRecord, GoTo, TypeOK
    <3>2. record' = [record EXCEPT ![job[a]] = intent[a]] /\ job[a] \in Runs
      BY <1>0, <2>7 DEF ReplaceRecord, TypeOK
    <3>3. intent[a].bound \subseteq published[job[a]]
      BY <3>1 DEF ArtifactInv, Backed
    <3>4. RecordedArtifactsExist'
      BY <1>0, <3>1, <3>2, <3>3 DEF ArtifactInv, RecordedArtifactsExist, TypeOK
    <3> QED BY <3>1, <3>4 DEF Backed, Earlier
  <2>8. ASSUME Validate(a) \/ Reserve(a) \/ Start(a) \/ Compute(a) \/ Settle(a) \/ Build(a)
        PROVE  Kept
    <3>1. UNCHANGED disk /\ UNCHANGED <<published, job, entry>>
      BY <2>8 DEF Validate, Reserve, Start, Compute, Settle, Build, disk
    <3>2. ASSUME NEW s \in States, NEW stage, Write(a, Record(s), stage) PROVE Backed(a)'
      BY <1>0, <3>1, <3>2, BackedWrite DEF Record
    <3>3. ASSUME NEW s \in {"FAILED", "CANCELLED"}, Conclude(a, s) PROVE Backed(a)'
      BY <3>1, <3>3, BackedConclude
    <3>4. ASSUME NEW stage \in {"idle", "reserve", "engine", "build"}, GoTo(a, stage)
          PROVE  Backed(a)'
      BY <1>0, <3>1, <3>4, BackedGoTo DEF Stages, Earlier
    <3>5. ASSUME Validate(a) PROVE Backed(a)'
      BY <3>3, <3>4, <3>5 DEF Validate
    <3>6. ASSUME Reserve(a) \/ Start(a) PROVE Backed(a)'
      BY <3>2, <3>4, <3>6 DEF Reserve, Start, States
    <3>7. ASSUME Compute(a) PROVE Backed(a)'
      <4>1. NextStage(pc[a]) \in {"engine", "build"}
        BY <3>7 DEF Compute, NextStage
      <4>2. CancelledState(entry[a]) \in {"FAILED", "CANCELLED"}
        BY DEF CancelledState
      <4> QED BY <3>2, <3>3, <3>4, <3>7, <4>1, <4>2 DEF Compute, Proceed, States
    <3>8. ASSUME Settle(a) PROVE Backed(a)'
      <4>1. pc[a] = "settle" /\ \E s \in {"SUCCEEDED", "FAILED", "CANCELLED"} : Conclude(a, s)
        BY <3>8 DEF Settle, CancelledState
      <4> QED BY <3>1, <4>1, BackedConclude
    <3>9. ASSUME Build(a) PROVE Backed(a)'
      <4>1. ASSUME GoTo(a, FirstArtifact(entry[a])) PROVE Backed(a)'
        <5>1. entry[a] \in Entries /\ "report" \in Artifacts
          BY <1>0 DEF TypeOK, Artifacts
        <5>2. /\ Earlier(entry[a], FirstArtifact(entry[a])) = {}
              /\ FirstArtifact(entry[a]) \in Stages \ {"check", "replace"}
          BY <5>1, ArtifactOrder
        <5> HIDE DEF Kept
        <5> QED BY <1>0, <3>1, <4>1, <5>2, BackedGoTo
      <4> QED BY <3>3, <3>9, <4>1 DEF Build
    <3> QED BY <2>0, <2>8, <3>1, <3>5, <3>6, <3>7, <3>8, <3>9
  <2>9. ASSUME Publish(a) PROVE Kept
    <3>0. pc[a] \in Artifacts /\ entry[a] \in Entries /\ job[a] \in Runs
          /\ UNCHANGED <<record, job, entry>>
      BY <1>0, <2>9 DEF Publish, TypeOK
    <3>1. CASE Conclude(a, "FAILED") /\ UNCHANGED published
      BY <2>0, <3>0, <3>1, BackedConclude DEF disk
    <3>2. CASE /\ published' = [published EXCEPT ![job[a]] = @ \cup {pc[a]}]
               /\ GoTo(a, ArtifactAfter(entry[a], pc[a]))
      <4>1. published'[job[a]] = published[job[a]] \cup {pc[a]}
        BY <1>0, <3>0, <3>2 DEF TypeOK
      <4>2. Earlier(entry[a], pc[a]) \subseteq published[job[a]]
        BY DEF ArtifactInv, Backed
      <4>3. Earlier(entry[a], ArtifactAfter(entry[a], pc[a])) \subseteq published'[job[a]]
        BY <3>0, <4>1, <4>2, ArtifactOrder
      <4>4. Backed(a)'
        BY <1>0, <3>0, <3>2, <4>3, ArtifactOrder, BackedGoTo
      <4>5. \A r \in Runs : published[r] \subseteq published'[r]
        BY <1>0, <3>2 DEF TypeOK
      <4>6. RecordedArtifactsExist'
        BY <3>0, <4>5 DEF ArtifactInv, RecordedArtifactsExist
      <4> QED BY <4>4, <4>6
    <3> QED BY <2>9, <3>1, <3>2 DEF Publish
  <2>10. Kept
    BY <1>2, <2>1, <2>2, <2>3, <2>4, <2>5, <2>6, <2>7, <2>8, <2>9 DEF Move, Work
  <2>11. ASSUME NEW b \in Processes PROVE Backed(b)'
    BY <1>0, <1>2, <2>10, OthersBacked DEF ArtifactInv
  <2> QED BY <2>10, <2>11
<1> QED BY <1>1, <1>2, NextIsMove

\* A record never binds an artifact that is not there, for any number of
\* processes that submit, resume, cancel and die over one store.
THEOREM RecordsBindPublished == Spec => []RecordedArtifactsExist
<1>1. ArtifactInv => RecordedArtifactsExist
  BY DEF ArtifactInv
<1> QED BY ArtifactInit, ArtifactStep, <1>1, PTL DEF Spec

-----------------------------------------------------------------------------
(***************************************************************************)
(* One write per run at a time: the check of the record still holds when   *)
(* the record is replaced, since nobody else writes that record between.   *)
(* The store takes no lock, so two processes can be in one record, and     *)
(* then it does not hold.                                                  *)
(***************************************************************************)
Writing(a) == pc[a] \in {"check", "replace"}

\* No two processes are between the check and the replacement of one record.
OneWritePerRun ==
    \A a, b \in Processes : Writing(a) /\ Writing(b) /\ job[a] = job[b] => a = b

\* One process at a time, as the command line is used.
SoleProcess == \A a, b \in Processes : a = b

\* What the process found when it reserved or checked is still so.
Current(a) ==
    /\ pc[a] \in {"check", "replace"} /\ intent[a].state = "QUEUED" =>
          record[job[a]].state = "absent"
    /\ pc[a] = "replace" => ~IsTerminal(record[job[a]])

LifeInv == TypeOK /\ \A a \in Processes : Current(a)

\* What LifecycleOnlyAdvances asks of a step.
Advances ==
    \A r \in Runs :
        /\ IsTerminal(record[r]) => record'[r] = record[r]
        /\ Rank(record'[r].state) >= Rank(record[r].state)

\* The ranks, state by state.
LEMMA Ranks ==
  /\ Rank("absent") = 0 /\ Rank("QUEUED") = 1 /\ Rank("RUNNING") = 2
  /\ \A s \in {"SUCCEEDED", "FAILED", "CANCELLED"} : Rank(s) = 3
<1>1. Rank("absent") = 0 /\ Rank("QUEUED") = 1 /\ Rank("RUNNING") = 2
  BY DEF Rank
<1>2. ASSUME NEW s \in {"SUCCEEDED", "FAILED", "CANCELLED"} PROVE Rank(s) = 3
  <2>1. CASE s = "SUCCEEDED"
    BY <2>1 DEF Rank
  <2>2. CASE s = "FAILED"
    BY <2>2 DEF Rank
  <2>3. CASE s = "CANCELLED"
    BY <2>3 DEF Rank
  <2> QED BY <2>1, <2>2, <2>3
<1> QED BY <1>1, <1>2

\* Starting to write a record that is not a reservation asks nothing of the store.
LEMMA CurrentWrite ==
  ASSUME TypeOK, NEW a \in Processes, NEW r, NEW stage, Write(a, r, stage), r.state # "QUEUED"
  PROVE  Current(a)'
<1>1. pc'[a] = "check" /\ intent'[a] = r
  BY DEF Write, TypeOK
<1> QED BY <1>1 DEF Current

\* Nor does going on without a record.
LEMMA CurrentGoTo ==
  ASSUME TypeOK, NEW a \in Processes, NEW stage \in Stages \ {"check", "replace"}, GoTo(a, stage)
  PROVE  Current(a)'
<1>1. pc'[a] = stage
  BY DEF GoTo, TypeOK
<1> QED BY <1>1 DEF Current

\* The end of a run is no reservation.
LEMMA CurrentConclude ==
  ASSUME TypeOK, NEW a \in Processes, NEW s \in {"SUCCEEDED", "FAILED", "CANCELLED"}, Conclude(a, s)
  PROVE  Current(a)'
<1> DEFINE r == [state |-> s, bound |-> IF s = "SUCCEEDED" THEN Bound(entry[a]) ELSE {}]
<1>1. r.state # "QUEUED" /\ Write(a, r, "idle")
  BY DEF Conclude
<1> HIDE DEF r
<1> QED BY <1>1, CurrentWrite

\* One step of a process over a store that is current for it.
LEMMA CurrentMove ==
  ASSUME TypeOK, NEW a \in Processes, Current(a), Move(a)
  PROVE  Current(a)' /\ Advances
<1>1. ASSUME UNCHANGED record PROVE Advances
  <2>1. \A s \in States : Rank(s) \in Int
    BY Ranks DEF States
  <2>2. \A r \in Runs : record[r].state \in States
    BY DEF TypeOK, Records
  <2> QED BY <1>1, <2>1, <2>2 DEF Advances
<1>2. ASSUME NEW r, NEW stage, Write(a, r, stage), r.state # "QUEUED" PROVE Current(a)'
  BY <1>2, CurrentWrite
<1>3. ASSUME NEW stage \in Stages \ {"check", "replace"}, GoTo(a, stage) PROVE Current(a)'
  BY <1>3, CurrentGoTo
<1>4. ASSUME NEW s \in {"SUCCEEDED", "FAILED", "CANCELLED"}, Conclude(a, s) PROVE Current(a)'
  BY <1>4, CurrentConclude
<1>5. ASSUME NEW s PROVE Record(s).state = s
  BY DEF Record
<1>6. ASSUME NEW r \in Runs, NEW e \in Entries, Submit(a, r, e) \/ Resume(a, r, e)
      PROVE  Current(a)' /\ Advances
  <2>1. UNCHANGED record /\ \E stage \in {"validate", "start", "load"} : GoTo(a, stage)
    BY <1>6 DEF Submit, Resume, disk
  <2> QED BY <1>1, <1>3, <2>1 DEF Stages
<1>7. ASSUME NEW r \in Runs, CancelRecord(a, r) PROVE Current(a)' /\ Advances
  BY <1>1, <1>2, <1>5, <1>7 DEF CancelRecord, disk
<1>8. ASSUME FailToWrite(a) PROVE Current(a)' /\ Advances
  BY <1>1, <1>2, <1>3, <1>5, <1>8 DEF FailToWrite, disk, Stages
<1>9. ASSUME FireToken(a) PROVE Current(a)' /\ Advances
  BY <1>1, <1>9 DEF FireToken, disk, Current
<1>10. ASSUME Crash(a) PROVE Current(a)' /\ Advances
  BY <1>1, <1>3, <1>10 DEF Crash, disk, Stages
<1>11. ASSUME CheckRecord(a) PROVE Current(a)' /\ Advances
  <2>1. UNCHANGED <<record, job, intent>> /\ pc[a] = "check"
    BY <1>11 DEF CheckRecord, disk, GoTo
  <2>2. pc'[a] = IF IsTerminal(record[job[a]]) THEN after[a] ELSE "replace"
    BY <1>11 DEF CheckRecord, GoTo, TypeOK
  <2>3. after[a] \notin {"check", "replace"}
    BY DEF TypeOK
  <2> QED BY <1>1, <2>1, <2>2, <2>3 DEF Current, IsTerminal
<1>12. ASSUME ReplaceRecord(a) PROVE Current(a)' /\ Advances
  <2> DEFINE old == record[job[a]]
             new == intent[a]
  <2>1. pc[a] = "replace" /\ record' = [record EXCEPT ![job[a]] = new]
    BY <1>12 DEF ReplaceRecord
  <2>2. /\ old.state \in States /\ new.state \in States
        /\ new.state # "absent" /\ ~IsTerminal(old)
        /\ new.state = "QUEUED" => old.state = "absent"
    BY <2>1 DEF Current, TypeOK, Records
  <2>3. Rank(new.state) >= Rank(old.state)
    BY <2>2, Ranks DEF States, IsTerminal
  <2>4. ASSUME NEW r \in Runs
        PROVE  /\ IsTerminal(record[r]) => record'[r] = record[r]
               /\ Rank(record'[r].state) >= Rank(record[r].state)
    <3>1. CASE r = job[a]
      <4>1. record'[r] = new
        BY <2>1, <3>1 DEF TypeOK
      <4> QED BY <2>2, <2>3, <3>1, <4>1
    <3>2. CASE r # job[a]
      <4>1. record'[r] = record[r] /\ record[r].state \in States
        BY <2>1, <3>2 DEF TypeOK, Records
      <4>2. Rank(record[r].state) \in Int
        BY <4>1, Ranks DEF States
      <4> QED BY <4>1, <4>2
    <3> QED BY <3>1, <3>2
  <2>5. Current(a)'
    <3>1. GoTo(a, after[a]) /\ after[a] \in Stages \ {"check", "replace"}
      BY <1>12 DEF ReplaceRecord, TypeOK
    <3> QED BY <1>3, <3>1
  <2> QED BY <2>4, <2>5 DEF Advances
<1>13. ASSUME Reserve(a) PROVE Current(a)' /\ Advances
  <2>1. UNCHANGED <<record, job>>
    BY <1>13 DEF Reserve, disk
  <2>2. CASE record[job[a]].state # "absent"
    BY <1>1, <1>3, <1>13, <2>1, <2>2 DEF Reserve, Stages
  <2>3. CASE record[job[a]].state = "absent"
    <3>1. pc'[a] = "check"
      BY <1>13, <2>3 DEF Reserve, Write, TypeOK
    <3> QED BY <1>1, <2>1, <2>3, <3>1 DEF Current
  <2> QED BY <2>2, <2>3
<1>14. ASSUME Validate(a) \/ Start(a) \/ Compute(a) \/ Build(a) \/ Publish(a) \/ Settle(a)
       PROVE  Current(a)' /\ Advances
  <2>1. UNCHANGED record
    BY <1>14 DEF Validate, Start, Compute, Build, Publish, Settle, disk
  <2>2. \/ \E stage \in Stages \ {"check", "replace"} : GoTo(a, stage)
        \/ \E s \in {"SUCCEEDED", "FAILED", "CANCELLED"} : Conclude(a, s)
        \/ \E stage : Write(a, Record("RUNNING"), stage)
    <3>1. CASE Validate(a) \/ Start(a)
      BY <3>1 DEF Validate, Start, Stages
    <3>2. CASE Compute(a)
      <4>1. CancelledState(entry[a]) \in {"FAILED", "CANCELLED"}
        BY DEF CancelledState
      <4>2. NextStage(pc[a]) \in Stages \ {"check", "replace"}
        BY <3>2 DEF Compute, NextStage, Stages
      <4> QED BY <3>2, <4>1, <4>2 DEF Compute, Proceed
    <3>3. CASE Build(a)
      BY <3>3 DEF Build, FirstArtifact, Stages
    <3>4. CASE Publish(a)
      <4>1. ArtifactAfter(entry[a], pc[a]) \in Stages \ {"check", "replace"}
        BY DEF ArtifactAfter, Stages
      <4> QED BY <3>4, <4>1 DEF Publish
    <3>5. CASE Settle(a)
      BY <3>5 DEF Settle, CancelledState
    <3> QED BY <1>14, <3>1, <3>2, <3>3, <3>4, <3>5
  <2> QED BY <1>1, <1>2, <1>3, <1>4, <1>5, <2>1, <2>2
<1> QED BY <1>6, <1>7, <1>8, <1>9, <1>10, <1>11, <1>12, <1>13, <1>14 DEF Move, Work

\* A step of one process leaves the store current for every other.
LEMMA OthersCurrent ==
  ASSUME TypeOK, OneWritePerRun, NEW a \in Processes, NEW b \in Processes, a # b,
         Current(b), Move(a)
  PROVE  Current(b)'
<1>1. /\ job'[b] = job[b] /\ job[b] \in Runs
      /\ pc'[b] = pc[b] /\ intent'[b] = intent[b]
  BY OtherProcessStands DEF TypeOK
<1>2. CASE UNCHANGED record
  BY <1>1, <1>2 DEF Current
<1>3. CASE ~UNCHANGED record
  <2>1. ReplaceRecord(a)
    BY <1>3 DEF Move, Work, Submit, Resume, CancelRecord, FailToWrite, FireToken, Crash,
         CheckRecord, Validate, Reserve, Start, Compute, Build, Publish, Settle, disk
  <2>2. Writing(b) => record'[job[b]] = record[job[b]]
    BY <1>1, <2>1 DEF ReplaceRecord, OneWritePerRun, Writing, TypeOK
  <2> QED
    BY <1>1, <2>2 DEF Current, Writing
<1> QED
  BY <1>2, <1>3

\* While no two processes write one record, the store is current for each of them
\* and their steps advance it.
LEMMA LifeStep ==
  ASSUME OneWritePerRun, LifeInv, [Next]_vars
  PROVE  LifeInv' /\ [Advances]_vars
<1>1. TypeOK'
  BY TypeStep DEF LifeInv
<1>2. CASE UNCHANGED vars
  BY <1>1, <1>2 DEF vars, disk, LifeInv, Current
<1>3. CASE Next
  <2>1. PICK a \in Processes : Move(a)
    BY <1>3, NextIsMove
  <2>2. Current(a)' /\ Advances
    BY <2>1, CurrentMove DEF LifeInv
  <2>3. \A b \in Processes : b # a => Current(b)'
    BY <2>1, OthersCurrent DEF LifeInv
  <2> QED BY <1>1, <2>2, <2>3 DEF LifeInv
<1> QED BY <1>2, <1>3

\* Any number of processes that submit, resume and cancel any number of runs, as
\* long as no two are between check and replacement of one record: a record only
\* advances and a terminal one stands, across retries, resubmissions, crashes and
\* failing writes, and also when the record of a run under way is cancelled by
\* another process.
THEOREM ExclusiveWritesAdvance ==
  Spec /\ []OneWritePerRun => LifecycleOnlyAdvances
<1>1. Init => LifeInv
  BY TypeInit DEF Init, LifeInv, Current
<1>2. OneWritePerRun /\ LifeInv /\ [Next]_vars => LifeInv' /\ [Advances]_vars
  BY LifeStep
<1>3. LifecycleOnlyAdvances <=> [][Advances]_vars
  BY PTL DEF LifecycleOnlyAdvances, Advances
<1> QED BY <1>1, <1>2, <1>3, PTL DEF Spec

\* So with a sole process, and no exclusion to ask for.
THEOREM SoleProcessAdvances ==
  ASSUME SoleProcess
  PROVE  Spec => LifecycleOnlyAdvances
<1>1. OneWritePerRun
  BY DEF OneWritePerRun, SoleProcess
<1> QED BY <1>1, ExclusiveWritesAdvance, PTL
=============================================================================
