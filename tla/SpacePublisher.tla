--------------------------- MODULE SpacePublisher ---------------------------
(***************************************************************************)
(* scripts/router_control_space.py: publish and main.  Every call to the   *)
(* Hub is a step, and so is every checkpoint, which replaces the receipt   *)
(* file; the process may be killed between any two of them and the         *)
(* workflow run again.                                                     *)
(***************************************************************************)
EXTENDS SpaceHub

CONSTANT MaxRuns  \* bound on runs of the workflow

VARIABLES
  runs,     \* runs so far
  job,      \* [pc, created, parent, published] of the run under way
  receipt,  \* the file: phase, outcomes, published revision, status
  made,     \* the run has created the Space (history)
  wrote     \* the revision it has committed, or 0 (history)

publisherVars == <<runs, job, receipt, made, wrote>>

Idle == [pc |-> "idle", created |-> FALSE, parent |-> 0, published |-> 0]

PublisherInit ==
  /\ runs = 0 /\ job = Idle /\ made = FALSE /\ wrote = 0
  /\ receipt = [phase |-> "none", creation |-> "NOT_ATTEMPTED", write |-> "NOT_ATTEMPTED",
                revision |-> 0, status |-> "BLOCKED"]

\* main writes the first receipt before anything else.
Begin ==
  /\ space = "control" /\ job.pc = "idle" /\ runs < MaxRuns
  /\ runs' = runs + 1
  /\ job' = [Idle EXCEPT !.pc = "preflight"]
  /\ receipt' = [phase |-> "PREFLIGHT", creation |-> "NOT_ATTEMPTED", write |-> "NOT_ATTEMPTED",
                 revision |-> 0, status |-> "BLOCKED"]
  /\ made' = FALSE /\ wrote' = 0
  /\ UNCHANGED hubVars

At(pc) == job.pc = pc /\ UNCHANGED runs
Goto(pc) == job' = [job EXCEPT !.pc = pc]
Silent == UNCHANGED <<receipt, made, wrote>>

\* A refusal of the script (BLOCKED) or any other exception (UNKNOWN): main
\* writes the receipt as it stands.
Stop(status) ==
  /\ Goto("idle")
  /\ receipt' = [receipt EXCEPT !.status = status]
  /\ UNCHANGED <<made, wrote>>

\* Any call may fail, in either way.
Fails == Stop("BLOCKED") \/ Stop("UNKNOWN")

\* Token, main branch, image manifest and card.
Preflight ==
  /\ At("preflight") /\ UNCHANGED hubVars
  /\ Fails \/ (Goto("look") /\ Silent)

Look ==
  /\ At("look") /\ UNCHANGED hubVars
  /\ \/ Fails
     \/ tree # << >> /\ job' = [job EXCEPT !.pc = "identity", !.parent = Tip] /\ Silent
     \/ /\ tree = << >>
        /\ Goto("create")
        /\ receipt' = [receipt EXCEPT !.phase = "CREATE_REQUESTED", !.creation = "UNKNOWN"]
        /\ UNCHANGED <<made, wrote>>

\* create_repo: it may fail before or after its effect.
Create ==
  /\ At("create")
  /\ \/ Stop("UNKNOWN") /\ UNCHANGED hubVars
     \/ /\ tree = << >>
        /\ tree' = <<"system">> /\ private' = FALSE
        /\ made' = TRUE /\ UNCHANGED <<space, runtime, wrote>>
        /\ \/ job' = [job EXCEPT !.pc = "created", !.created = TRUE] /\ UNCHANGED receipt
           \/ Goto("idle") /\ receipt' = [receipt EXCEPT !.status = "UNKNOWN"]

Created ==
  /\ At("created") /\ UNCHANGED hubVars
  /\ receipt' = [receipt EXCEPT !.phase = "CREATED", !.creation = "MEASURED"]
  /\ job' = [job EXCEPT !.pc = "identity", !.parent = Tip]
  /\ UNCHANGED <<made, wrote>>

\* The parent revisions a run may write over: of a Space it found, by their bytes
\* (_existing_target_admitted); of the one it created, by the names of their files
\* alone (_new_target_metadata), whoever wrote them.
Admissible ==
  IF job.created THEN {"system", "bare"} ELSE {"ours", "older", "bootstrap"}

\* The Space's identity and visibility, write access, and the files of its parent.
Admit ==
  /\ At("identity") /\ UNCHANGED hubVars
  /\ \/ Fails
     \/ ~private /\ tree[job.parent] \in Admissible /\ Goto("main") /\ Silent

\* The source is still the protected main; then the checkpoint before the write.
\* Wrong: the checkpoint comes with the upload's answer only.
RequestUploadUnrecorded ==
  /\ At("main") /\ UNCHANGED hubVars
  /\ Fails \/ (Goto("upload") /\ Silent)

RequestUpload ==
  /\ At("main") /\ UNCHANGED hubVars
  /\ \/ Fails
     \/ /\ Goto("upload")
        /\ receipt' = [receipt EXCEPT !.phase = "UPLOAD_REQUESTED", !.write = "UNKNOWN"]
        /\ UNCHANGED <<made, wrote>>

\* Wrong: no parent_commit.
UploadOnAnything ==
  /\ At("upload")
  /\ \/ Stop("UNKNOWN") /\ UNCHANGED hubVars
     \/ /\ Tip < MaxRevisions /\ Commit("ours")
        /\ wrote' = Tip + 1 /\ UNCHANGED made
        /\ \/ job' = [job EXCEPT !.pc = "uploaded", !.published = Tip + 1] /\ UNCHANGED receipt
           \/ Goto("idle") /\ receipt' = [receipt EXCEPT !.status = "UNKNOWN"]

\* upload_folder with parent_commit: refused when another commit came first; it
\* may fail before or after its effect.
Upload ==
  /\ At("upload")
  /\ \/ Stop("UNKNOWN") /\ UNCHANGED hubVars
     \/ /\ Tip = job.parent /\ Tip < MaxRevisions /\ Commit("ours")
        /\ wrote' = Tip + 1 /\ UNCHANGED made
        /\ \/ job' = [job EXCEPT !.pc = "uploaded", !.published = Tip + 1] /\ UNCHANGED receipt
           \/ Goto("idle") /\ receipt' = [receipt EXCEPT !.status = "UNKNOWN"]

Uploaded ==
  /\ At("uploaded") /\ UNCHANGED <<hubVars, made, wrote>>
  /\ Goto("readback")
  /\ receipt' = [receipt EXCEPT !.phase = "UPLOADED", !.write = "MEASURED",
                                !.revision = job.published]

\* The head is the published revision and its files are the expected ones.
Readback ==
  /\ At("readback") /\ UNCHANGED hubVars
  /\ \/ Fails
     \/ /\ Tip = job.published /\ ~private /\ tree[job.published] = "ours"
        /\ Goto("poll")
        /\ receipt' = [receipt EXCEPT !.phase = "FILES_VERIFIED"]
        /\ UNCHANGED <<made, wrote>>

\* One turn of the wait: the head again, the runtime, its witness; or the timeout.
PollHead ==
  /\ At("poll") /\ UNCHANGED hubVars
  /\ \/ Fails
     \/ Tip = job.published /\ ~private /\ Goto("runtime") /\ Silent

PollRuntime ==
  /\ At("runtime") /\ UNCHANGED hubVars
  /\ \/ Goto("poll") /\ Silent  \* no answer, another revision, or in transition
     \/ Fails                   \* a terminal or unknown stage, no identity
     \/ runtime.built = job.published /\ runtime.stage = "RUNNING" /\ Goto("witness") /\ Silent

\* deployment.json names the source of the container that answers.
ServesOurs == IF runtime.live = 0 THEN FALSE ELSE tree[runtime.live] = "ours"

Witness ==
  /\ At("witness") /\ UNCHANGED hubVars
  /\ \/ Goto("poll") /\ Silent  \* it does not answer
     \/ Fails
     \/ ServesOurs /\ Goto("final") /\ Silent

Measured ==
  /\ At("final") /\ UNCHANGED hubVars
  /\ \/ Fails
     \/ /\ Goto("idle")
        /\ receipt' = [receipt EXCEPT !.phase = "RUNTIME_VERIFIED", !.status = "MEASURED"]
        /\ UNCHANGED <<made, wrote>>

\* The runner is killed.
Kill == job.pc # "idle" /\ Goto("idle") /\ Silent /\ UNCHANGED <<hubVars, runs>>

Publish ==
  \/ Begin \/ Preflight \/ Look \/ Create \/ Created \/ Admit \/ RequestUpload \/ Upload
  \/ Uploaded \/ Readback \/ PollHead \/ PollRuntime \/ Witness \/ Measured \/ Kill

-----------------------------------------------------------------------------
\* Whenever the runner is killed, the receipt on disk claims neither more nor less
\* than the run did: "not attempted" means nothing was created or written, and a
\* measured outcome names what was (the record before each remote write).
ReceiptHonest ==
  /\ receipt.write = "NOT_ATTEMPTED" => wrote = 0
  /\ receipt.write = "MEASURED" => wrote # 0 /\ receipt.revision = wrote
  /\ receipt.creation = "NOT_ATTEMPTED" => ~made
  /\ receipt.creation = "MEASURED" => made

\* No run writes over somebody else's files, whoever commits meanwhile and whatever
\* an earlier run left behind (parent_commit), but for one case: in a Space the
\* publisher has created, its first upload may come on top of a revision of others
\* that has no file but .gitattributes and README.md.
NothingLost ==
  \A i \in 2..Tip : space = "control" /\ tree[i] = "ours" =>
    /\ tree[i - 1] # "foreign"
    /\ tree[i - 1] = "bare" => tree[1] = "system" /\ \A j \in 1..i - 1 : tree[j] # "ours"
=============================================================================
