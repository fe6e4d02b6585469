----------------------------- MODULE SpaceWatch -----------------------------
(***************************************************************************)
(* The workflows of the router's public Space: hf_space_deploy.py writes a *)
(* revision, wait_hf_space_runtime.py waits until the runtime has come to  *)
(* it, hf_space_drift_check.py tries to witness publication and runtime    *)
(* and keeps one evidence document over all its attempts.  Every request   *)
(* to the provider is a step, so other commits and the runtime's own steps *)
(* fall between any two.                                                   *)
(***************************************************************************)
EXTENDS SpaceHub

CONSTANT MaxAttempts  \* bound on deployments, polls and attempts

VARIABLES
  task,    \* [pc, parent, published, hidden, tries]: the workflow under way
  report,  \* how the last deploy or wait ended, and at which revision
  ev,      \* the drift check's evidence
  met      \* (history) the tip was the attempt's revision and was running

watchVars == <<task, report, ev, met>>

Resting == [pc |-> "rest", parent |-> 0, published |-> 0, hidden |-> FALSE, tries |-> 0]

\* new_evidence; "compared" (history) is the revision whose bytes were compared.
NewEvidence ==
  [revision |-> 0, stability |-> "UNVERIFIED", bytes |-> "UNVERIFIED", compared |-> 0,
   built |-> 0, stage |-> "UNVERIFIED", attested |-> 0, verdict |-> "REJECTED"]

WatchInit ==
  /\ task = Resting /\ met = FALSE /\ ev = NewEvidence
  /\ report = [state |-> "none", revision |-> 0]

Is(pc) == task.pc = pc
Goes(pc) == task' = [task EXCEPT !.pc = pc]
Quiet == UNCHANGED <<report, ev, met>>
Report(state, revision) ==
  /\ task' = [task EXCEPT !.pc = "rest"]
  /\ report' = [state |-> state, revision |-> revision]
  /\ UNCHANGED <<ev, met>>

Start(pc) ==
  /\ space = "router" /\ Is("rest") /\ task.tries < MaxAttempts
  /\ task' = [Resting EXCEPT !.pc = pc, !.tries = task.tries + 1]

-----------------------------------------------------------------------------
\* hf_space_deploy.main: the existing Space only, parent_commit, then visibility,
\* restart and a readback.  A failing call ends it anywhere.
Deploy ==
  \/ Start("parent") /\ Quiet /\ UNCHANGED hubVars
  \/ /\ Is("parent") /\ Quiet /\ tree # << >> /\ UNCHANGED hubVars
     /\ task' = [task EXCEPT !.pc = "write", !.parent = Tip]
  \/ /\ Is("write") /\ Quiet /\ Tip = task.parent /\ Tip < MaxRevisions /\ Commit("ours")
     /\ task' = [task EXCEPT !.pc = "show", !.published = Tip + 1]
  \/ /\ Is("show") /\ Quiet /\ private' = FALSE /\ UNCHANGED <<space, tree, runtime>>
     /\ Goes("restart")
  \/ /\ Is("restart") /\ Quiet /\ UNCHANGED <<space, tree, private>>
     /\ runtime' = [runtime EXCEPT !.stage = "BUILDING"]
     /\ Goes("confirm")
  \/ /\ Is("confirm") /\ UNCHANGED hubVars
     /\ Tip = task.published /\ ~private
     /\ Report("DEPLOYED", task.published)
  \/ /\ task.pc \in {"parent", "write", "show", "restart", "confirm"} /\ UNCHANGED hubVars
     /\ Report("FAILED", task.published)

-----------------------------------------------------------------------------
\* wait_for_runtime reads the repository, its visibility with it, then the runtime,
\* and classifies the pair.
Converged == ~task.hidden /\ runtime.stage = "RUNNING" /\ runtime.built = task.published

WaitInfo ==
  \/ Start("wait_info") /\ Quiet /\ UNCHANGED hubVars
  \/ /\ Is("wait_info") /\ Quiet /\ tree # << >> /\ UNCHANGED hubVars
     /\ task' = [task EXCEPT !.pc = "wait_runtime", !.published = Tip, !.hidden = private]

WaitRuntime ==
  /\ Is("wait_runtime") /\ UNCHANGED hubVars
  /\ \/ Goes("wait_info") /\ Quiet  \* hidden, in transition, stale, or no answer yet
     \/ Converged /\ Report("CONVERGED", task.published)

\* The deadline, a terminal stage, or a response that no retry can mend.
WaitEnds ==
  /\ task.pc \in {"wait_info", "wait_runtime"} /\ UNCHANGED hubVars
  /\ Report("REJECTED", task.published)

-----------------------------------------------------------------------------
\* hf_space_drift_check.py.  A failed step ends the attempt; when the failure is
\* retryable the next attempt goes on with the same evidence.
DriftStart ==
  /\ Start("info") /\ ev' = NewEvidence /\ met' = FALSE
  /\ UNCHANGED <<hubVars, report>>

DriftReads(pc) == Is(pc) /\ UNCHANGED <<hubVars, report>>

Pass(pc, evidence) == Goes(pc) /\ ev' = evidence

Reject(retryable, evidence) ==
  /\ ev' = evidence
  /\ IF retryable /\ task.tries < MaxAttempts
     THEN task' = [task EXCEPT !.pc = "info", !.tries = @ + 1]
     ELSE task' = [task EXCEPT !.pc = "rest"]

\* A request that fails, an answer that is malformed, or the deadline.
NoAnswer == \E retryable \in BOOLEAN : Reject(retryable, ev)

ProviderInfo ==
  /\ DriftReads("info") /\ met' = FALSE
  /\ \/ NoAnswer
     \/ /\ tree # << >>
        /\ Pass("stage", [ev EXCEPT !.revision = Tip, !.stability = "OBSERVED"])

\* _provider_stage, before the witness and after it.
ProviderStage(pc, next, accepted) ==
  /\ DriftReads(pc)
  /\ LET seen == [ev EXCEPT !.built = runtime.built, !.stage = "ACCEPTED"]
         running == runtime.stage = "RUNNING" IN
     \/ NoAnswer /\ UNCHANGED met
     \/ /\ ~running /\ UNCHANGED met
        /\ Reject(runtime.stage = "BUILDING", [seen EXCEPT !.stage = "REJECTED"])
     \/ /\ running /\ runtime.built # ev.revision /\ UNCHANGED met
        /\ Reject(TRUE, [seen EXCEPT !.stage = "REVISION_MISMATCH"])
     \/ /\ running /\ runtime.built = ev.revision
        /\ Pass(next, IF accepted THEN [seen EXCEPT !.stability = "EXACT_STABLE",
                                                    !.verdict = "ACCEPTED"] ELSE seen)
        /\ met' = (met \/ Tip = ev.revision)

FirstStage == ProviderStage("stage", "files", FALSE)

\* _verify_source_publication compares the files of the immutable revision.  Only a
\* byte that differs marks the bytes; a wrong output set or binding leaves what an
\* earlier attempt found of them.
VerifyPublication ==
  /\ DriftReads("files") /\ UNCHANGED met
  /\ \/ NoAnswer
     \/ tree[ev.revision] # "ours" /\ Reject(FALSE, ev)
     \/ /\ tree[ev.revision] # "ours"
        /\ Reject(FALSE, [ev EXCEPT !.bytes = "DRIFT", !.compared = ev.revision])
     \/ /\ tree[ev.revision] = "ours"
        /\ Pass("witness", [ev EXCEPT !.bytes = "ALIGNED", !.compared = ev.revision])

\* The container that answers attests the source it carries, which may stand in a
\* revision of others too, and as the Space's revision its own
\* (SPACE_REPOSITORY_COMMIT) or the head it asked the Hub for up to a minute ago
\* (HUGGINGFACE_API).
Attests(revision) ==
  /\ runtime.live # 0 /\ tree[runtime.live] \in {"ours", "foreign"}
  /\ revision \in runtime.live..Tip

\* _verify_runtime_witness.
RuntimeWitness ==
  /\ DriftReads("witness") /\ UNCHANGED met
  /\ \/ NoAnswer
     \/ Attests(ev.revision) /\ Pass("final_info", [ev EXCEPT !.attested = ev.revision])

\* Wrong: takes the revision for stable.
FinalInfoTrusting ==
  DriftReads("final_info") /\ UNCHANGED met /\ Pass("final_stage", ev)

FinalInfo ==
  /\ DriftReads("final_info") /\ UNCHANGED met
  /\ \/ Tip = ev.revision /\ Pass("final_stage", ev)
     \/ Tip # ev.revision /\ Reject(TRUE, [ev EXCEPT !.stability = "CHANGED_DURING_WITNESS"])
     \/ NoAnswer

FinalStage == ProviderStage("final_stage", "rest", TRUE)

DriftCheck ==
  \/ DriftStart \/ ProviderInfo \/ FirstStage \/ VerifyPublication \/ RuntimeWitness
  \/ FinalInfo \/ FinalStage

Watch == Deploy \/ WaitInfo \/ WaitRuntime \/ WaitEnds \/ DriftCheck

-----------------------------------------------------------------------------
\* Accepted evidence is about one revision throughout, and at some instant of the
\* attempt that revision was the Space's tip and was running: no commit or
\* rebuild between the requests makes a mixture look accepted (the attempt is
\* "race-bracketed").  A revision the waiter calls converged is one the runtime
\* has come to.
AcceptedCoherent ==
  /\ ev.verdict = "ACCEPTED" =>
       /\ met
       /\ ev.bytes = "ALIGNED" /\ ev.compared = ev.revision
       /\ ev.built = ev.revision /\ ev.attested = ev.revision
       /\ tree[ev.revision] = "ours"
  /\ report.state = "CONVERGED" => runtime.built >= report.revision

\* "verifies the complete remote file set and every byte at one immutable HF
\* revision": the bytes the evidence calls aligned are those of the revision it
\* names, in rejected evidence too.
EvidenceOneRevision == ev.bytes = "ALIGNED" => ev.compared = ev.revision
=============================================================================
