----------------------------- MODULE BacktestRuns -----------------------------
(***************************************************************************)
(* The durable lifecycle of backtest runs: RunStateStore, the T069         *)
(* BacktestOrchestrator (submit, cancel, resume_in_flight), the T112 entry *)
(* path under the T113 BacktestUseCase (start, resume) and the CLI's       *)
(* cancel, over one runs_root.                                             *)
(*                                                                         *)
(* RunStateStore.write reads the record, refuses to replace a terminal     *)
(* one, writes a temporary file and renames it: the read and the rename    *)
(* are two steps.  A record is its state and the artifact paths it binds;  *)
(* the engine, the metrics and the content of the artifacts are left out:  *)
(* each stage of the pipeline succeeds or raises.                          *)
(***************************************************************************)
EXTENDS Integers

CONSTANTS
    Runs,         \* run ids
    Processes,    \* consoles and CLI calls over one runs_root
    MaxFaults     \* bound: how often a process dies or a record write fails

ASSUME FaultsAssumption == MaxFaults \in Nat

Artifacts == {"evidence", "manifest", "report"}

\* T069 is BacktestOrchestrator, T113 the use case over BacktestOrchestratorT112.
Entries == {"T069", "T113"}

States == {"absent", "QUEUED", "RUNNING", "SUCCEEDED", "FAILED", "CANCELLED"}
Records == [state : States, bound : SUBSET Artifacts]

Record(state) == [state |-> state, bound |-> {}]
IsTerminal(r) == r.state \in {"SUCCEEDED", "FAILED", "CANCELLED"}

\* What a successful run records: the T112 path publishes no report.
Bound(entry) == IF entry = "T069" THEN Artifacts ELSE {"evidence", "manifest"}

VARIABLES
    record,      \* run -> what its .run.json holds
    published,   \* run -> the artifact files of the run that exist
    pc,          \* process -> the stage it is at
    job,         \* process -> the run it works on
    entry,       \* process -> by which entry path
    intent,      \* process -> the record it is writing
    after,       \* process -> the stage that follows the write
    token,       \* process -> its cancel token
    faults

disk == <<record, published>>
vars == <<disk, pc, job, entry, intent, after, token, faults>>

Stages == {"idle", "validate", "reserve", "start", "load", "engine", "build",
           "evidence", "manifest", "report", "settle", "check", "replace"}

TypeOK ==
    /\ record \in [Runs -> Records]
    /\ published \in [Runs -> SUBSET Artifacts]
    /\ pc \in [Processes -> Stages]
    /\ job \in [Processes -> Runs]
    /\ entry \in [Processes -> Entries]
    /\ intent \in [Processes -> Records]
    /\ after \in [Processes -> Stages]
    /\ token \in [Processes -> BOOLEAN]
    /\ faults \in 0 .. MaxFaults
    /\ \A a \in Processes : pc[a] \in {"check", "replace"} => intent[a].state # "absent"
    /\ \A a \in Processes : after[a] \in {"idle", "start", "load", "engine", "build"}

Init ==
    /\ record = [r \in Runs |-> Record("absent")]
    /\ published = [r \in Runs |-> {}]
    /\ pc = [a \in Processes |-> "idle"]
    /\ job \in [Processes -> Runs]
    /\ entry \in [Processes -> Entries]
    /\ intent = [a \in Processes |-> Record("absent")]
    /\ after = [a \in Processes |-> "idle"]
    /\ token = [a \in Processes |-> FALSE]
    /\ faults = 0

GoTo(a, stage) ==
    /\ pc' = [pc EXCEPT ![a] = stage]
    /\ UNCHANGED <<intent, after>>

-----------------------------------------------------------------------------
(***************************************************************************)
(* RunStateStore.                                                          *)
(***************************************************************************)

\* Mutant: the record built is not the one handed to the store.
WriteStale(a, r, stage) ==
    /\ pc' = [pc EXCEPT ![a] = "check"]
    /\ after' = [after EXCEPT ![a] = stage]
    /\ UNCHANGED intent

\* Start writing a record; the process goes on at stage when it is written.
Write(a, r, stage) ==
    /\ pc' = [pc EXCEPT ![a] = "check"]
    /\ intent' = [intent EXCEPT ![a] = r]
    /\ after' = [after EXCEPT ![a] = stage]

\* Mutant: the store does not look at the record it replaces.
CheckRecordBlindly(a) ==
    /\ pc[a] = "check"
    /\ GoTo(a, "replace")
    /\ UNCHANGED <<disk, job, entry, token, faults>>

\* A terminal record is left alone and the caller goes on as if it had been
\* replaced: only the last write of a T069 run hands it the record kept.
CheckRecord(a) ==
    /\ pc[a] = "check"
    /\ GoTo(a, IF IsTerminal(record[job[a]]) THEN after[a] ELSE "replace")
    /\ UNCHANGED <<disk, job, entry, token, faults>>

\* os.replace of the temporary file.
ReplaceRecord(a) ==
    /\ pc[a] = "replace"
    /\ record' = [record EXCEPT ![job[a]] = intent[a]]
    /\ GoTo(a, after[a])
    /\ UNCHANGED <<published, job, entry, token, faults>>

\* The records written inside _execute's try: the progress between two stages
\* and, by the T069 path, the success.  A handler's own record is not, nor is
\* the success of the T113 path.
Guarded(a) ==
    \/ after[a] \in {"engine", "build"}
    \/ entry[a] = "T069" /\ intent[a].state = "SUCCEEDED"

\* The temporary file cannot be written: its leftovers are unlinked, the record
\* stands, and the exception fails the run, be it after everything is
\* published, or leaves the call.
FailToWrite(a) ==
    /\ pc[a] = "replace" /\ faults < MaxFaults
    /\ faults' = faults + 1
    /\ IF Guarded(a) THEN Write(a, Record("FAILED"), "idle") ELSE GoTo(a, "idle")
    /\ UNCHANGED <<disk, job, entry, token>>

-----------------------------------------------------------------------------
(***************************************************************************)
(* Entering the lifecycle.                                                 *)
(***************************************************************************)

Take(a, r, e) ==
    /\ pc[a] = "idle"
    /\ job' = [job EXCEPT ![a] = r]
    /\ entry' = [entry EXCEPT ![a] = e]
    /\ token' = [token EXCEPT ![a] = FALSE]

\* BacktestOrchestrator.submit validates before it looks at the store;
\* BacktestUseCase.start reserves nothing and goes straight to the T112 path.
Submit(a, r, e) ==
    /\ Take(a, r, e)
    /\ GoTo(a, IF e = "T069" THEN "validate" ELSE "load")
    /\ UNCHANGED <<disk, faults>>

\* Mutant: only reservations are picked up after a restart.
ResumeReserved(a, r, e) ==
    /\ Take(a, r, e)
    /\ record[r].state = "QUEUED"
    /\ GoTo(a, IF e = "T069" THEN "start" ELSE "load")
    /\ UNCHANGED <<disk, faults>>

\* Every record that is RUNNING is executed again, from the beginning.
Resume(a, r, e) ==
    /\ Take(a, r, e)
    /\ record[r].state = "RUNNING"
    /\ GoTo(a, IF e = "T069" THEN "start" ELSE "load")
    /\ UNCHANGED <<disk, faults>>

\* cancel, of the orchestrator and of the CLI: a record is written, no token
\* of a running execution is reached.
CancelRecord(a, r) ==
    /\ pc[a] = "idle"
    /\ record[r].state \in {"QUEUED", "RUNNING"}
    /\ job' = [job EXCEPT ![a] = r]
    /\ Write(a, Record("CANCELLED"), "idle")
    /\ UNCHANGED <<disk, entry, token, faults>>

\* The caller that supplied the token fires it.
FireToken(a) ==
    /\ pc[a] # "idle" /\ ~token[a]
    /\ token' = [token EXCEPT ![a] = TRUE]
    /\ UNCHANGED <<disk, pc, job, entry, intent, after, faults>>

-----------------------------------------------------------------------------
(***************************************************************************)
(* Executing a run.                                                        *)
(***************************************************************************)

Conclude(a, state) ==
    Write(a, [state |-> state, bound |-> IF state = "SUCCEEDED" THEN Bound(entry[a]) ELSE {}],
          "idle")

\* A request that fails validation is recorded FAILED, whatever is recorded.
Validate(a) ==
    /\ pc[a] = "validate"
    /\ GoTo(a, "reserve") \/ Conclude(a, "FAILED")
    /\ UNCHANGED <<disk, job, entry, token, faults>>

\* A run id that is taken is returned (terminal) or refused; a free one is
\* reserved as QUEUED.
Reserve(a) ==
    /\ pc[a] = "reserve"
    /\ IF record[job[a]].state # "absent"
         THEN GoTo(a, "idle")
         ELSE Write(a, Record("QUEUED"), "start")
    /\ UNCHANGED <<disk, job, entry, token, faults>>

\* _execute: RUNNING, then the stages.
Start(a) ==
    /\ pc[a] = "start"
    /\ Write(a, Record("RUNNING"), "load")
    /\ UNCHANGED <<disk, job, entry, token, faults>>

\* RunCancelled is CANCELLED for the orchestrator and, not being one of the
\* errors the use case names, FAILED for it.
CancelledState(e) == IF e = "T069" THEN "CANCELLED" ELSE "FAILED"

\* The stages the T069 path records progress after; its token is polled
\* after the first two, the T112 path's after the engine.
NextStage(s) == CASE s = "load" -> "engine" [] s = "engine" -> "build"

Proceed(a, stage) ==
    IF entry[a] = "T069" THEN Write(a, Record("RUNNING"), stage) ELSE GoTo(a, stage)

Polls(a) == entry[a] = "T069" \/ pc[a] # "load"

\* Loading the events and running the engine: each raises, or finds the token
\* fired, or goes on.
Compute(a) ==
    /\ pc[a] \in {"load", "engine"}
    /\ \/ Conclude(a, "FAILED")
       \/ /\ token[a] /\ Polls(a)
          /\ Conclude(a, CancelledState(entry[a]))
       \/ /\ ~token[a] \/ ~Polls(a)
          /\ Proceed(a, NextStage(pc[a]))
    /\ UNCHANGED <<disk, job, entry, token, faults>>

\* The artifacts in the order they are written: evidence, manifest and report
\* by T069, manifest and evidence by T112.
FirstArtifact(e) == IF e = "T069" THEN "evidence" ELSE "manifest"

ArtifactAfter(e, x) ==
    CASE e = "T069" /\ x = "evidence" -> "manifest"
      [] e = "T069" /\ x = "manifest" -> "report"
      [] e = "T113" /\ x = "manifest" -> "evidence"
      [] OTHER -> "settle"

\* Metrics, coverage, binding, checksums: nothing is published when one raises.
Build(a) ==
    /\ pc[a] = "build"
    /\ Conclude(a, "FAILED") \/ GoTo(a, FirstArtifact(entry[a]))
    /\ UNCHANGED <<disk, job, entry, token, faults>>

\* Mutant: an artifact that cannot be written is skipped.
PublishBestEffort(a) ==
    /\ pc[a] \in Artifacts
    /\ published' \in {published, [published EXCEPT ![job[a]] = @ \cup {pc[a]}]}
    /\ GoTo(a, ArtifactAfter(entry[a], pc[a]))
    /\ UNCHANGED <<record, job, entry, token, faults>>

\* One atomic file; a write that raises leaves the earlier ones in place.
Publish(a) ==
    /\ pc[a] \in Artifacts
    /\ \/ /\ published' = [published EXCEPT ![job[a]] = @ \cup {pc[a]}]
          /\ GoTo(a, ArtifactAfter(entry[a], pc[a]))
       \/ /\ Conclude(a, "FAILED")
          /\ UNCHANGED published
    /\ UNCHANGED <<record, job, entry, token, faults>>

\* The token is polled a last time, after everything is published.
Settle(a) ==
    /\ pc[a] = "settle"
    /\ Conclude(a, IF token[a] THEN CancelledState(entry[a]) ELSE "SUCCEEDED")
    /\ UNCHANGED <<disk, job, entry, token, faults>>

Crash(a) ==
    /\ pc[a] # "idle" /\ faults < MaxFaults
    /\ faults' = faults + 1
    /\ GoTo(a, "idle")
    /\ UNCHANGED <<disk, job, entry, token>>

Work(a) ==
    \/ CheckRecord(a) \/ ReplaceRecord(a)
    \/ Validate(a) \/ Reserve(a) \/ Start(a)
    \/ Compute(a) \/ Build(a) \/ Publish(a) \/ Settle(a)

Next ==
    \/ \E a \in Processes, r \in Runs, e \in Entries : Submit(a, r, e) \/ Resume(a, r, e)
    \/ \E a \in Processes, r \in Runs : CancelRecord(a, r)
    \/ \E a \in Processes : Work(a) \/ FailToWrite(a) \/ FireToken(a) \/ Crash(a)

Spec == Init /\ [][Next]_vars

\* A call that runs goes on, and every run found RUNNING is resumed in the
\* end: the restart the store is durable for.
FairSpec ==
    /\ Spec
    /\ \A a \in Processes : WF_vars(Work(a))
    /\ \A a \in Processes, r \in Runs : SF_vars(\E e \in Entries : Resume(a, r, e))

-----------------------------------------------------------------------------
(***************************************************************************)
(* Properties.                                                             *)
(***************************************************************************)

\* Every artifact path a record binds names a file that was published, also
\* when several processes write records and artifacts of the same run.
RecordedArtifactsExist ==
    \A r \in Runs : record[r].bound \subseteq published[r]

Rank(s) == CASE s = "absent" -> 0 [] s = "QUEUED" -> 1 [] s = "RUNNING" -> 2 [] OTHER -> 3

\* RunStateStore.write: "Terminal records are read-only: the store refuses to
\* overwrite a SUCCEEDED / FAILED / CANCELLED record".
TerminalIsFinal ==
    [][\A r \in Runs : IsTerminal(record[r]) => record'[r] = record[r]]_vars

\* A run's record only advances, QUEUED, RUNNING, terminal, across retries,
\* resubmissions, validation failures, crashes and resumes by one process.
LifecycleOnlyAdvances ==
    [][\A r \in Runs :
          /\ IsTerminal(record[r]) => record'[r] = record[r]
          /\ Rank(record'[r].state) >= Rank(record[r].state)]_vars

\* A run recorded RUNNING ends, across crashes and resumes.
RunningSettles ==
    \A r \in Runs : record[r].state = "RUNNING" ~> IsTerminal(record[r])

\* Module docstring: "A cancelled run publishes no manifest and no report. A
\* failed run publishes no manifest and no report."
UnsuccessfulPublishesNothing ==
    \A r \in Runs :
        record[r].state \in {"FAILED", "CANCELLED"} =>
            published[r] \cap {"manifest", "report"} = {}
=============================================================================
