--------------------------- MODULE Spaces_proofs ---------------------------
(***************************************************************************)
(* Proofs about Spaces, for any number of revisions, runs and attempts.    *)
(*                                                                         *)
(* Everything rests on what no step may undo (Grown): revisions are        *)
(* immutable and only added, and the runtime never goes back.  So what a   *)
(* run has read of a revision stays true whoever acts before its next      *)
(* request, and a tip that has been left is never the tip again.           *)
(***************************************************************************)
EXTENDS Spaces, TLAPS

HubTyped ==
  /\ tree \in Seq(Contents)
  /\ runtime \in [built : Nat, stage : Stages, live : Nat]
  /\ runtime.built <= Len(tree)
  /\ private \in BOOLEAN

Claims == {"NOT_ATTEMPTED", "UNKNOWN", "MEASURED"}
Phases == {"none", "PREFLIGHT", "CREATE_REQUESTED", "CREATED", "UPLOAD_REQUESTED", "UPLOADED",
           "FILES_VERIFIED", "RUNTIME_VERIFIED"}
Statuses == {"BLOCKED", "UNKNOWN", "MEASURED"}
Places == {"idle", "preflight", "look", "create", "created", "identity", "main", "upload",
           "uploaded", "readback", "poll", "runtime", "witness", "final"}

Jobs == [pc : Places, created : BOOLEAN, parent : Nat, published : Nat]
Receipts == [phase : Phases, creation : Claims, write : Claims, revision : Nat,
             status : Statuses]

PublisherTyped == job \in Jobs /\ receipt \in Receipts /\ made \in BOOLEAN /\ wrote \in Nat

Deploying == {"parent", "write", "show", "restart", "confirm"}
Waiting == {"wait_info", "wait_runtime"}
Checking == {"info", "stage", "files", "witness", "final_info", "final_stage"}

Tasks == [pc : Deploying \cup Waiting \cup Checking \cup {"rest"}, parent : Nat,
          published : Nat, hidden : BOOLEAN, tries : Nat]
Reports == [state : {"none", "DEPLOYED", "FAILED", "CONVERGED", "REJECTED"}, revision : Nat]
Evidence ==
  [revision : Nat,
   stability : {"UNVERIFIED", "OBSERVED", "CHANGED_DURING_WITNESS", "EXACT_STABLE"},
   bytes : {"UNVERIFIED", "DRIFT", "ALIGNED"}, compared : Nat, built : Nat,
   stage : {"UNVERIFIED", "ACCEPTED", "REJECTED", "REVISION_MISMATCH"}, attested : Nat,
   verdict : {"REJECTED", "ACCEPTED"}]

WatchTyped == task \in Tasks /\ report \in Reports /\ ev \in Evidence /\ met \in BOOLEAN

\* The record before each remote write, and what is known after it.
Recorded ==
  /\ job.pc \in {"create", "created"} => receipt.creation = "UNKNOWN"
  /\ job.pc = "created" => made
  /\ job.pc \in {"upload", "uploaded"} => receipt.write = "UNKNOWN"
  /\ job.pc = "uploaded" => wrote = job.published /\ wrote # 0

\* What the publisher has admitted; the public Space's workflows are not about its Space.
Admitted ==
  /\ job.pc = "created" => tree # << >>
  /\ job.pc \in {"identity", "main", "upload"} => job.parent \in 1..Tip
  /\ job.pc \in {"main", "upload"} =>
       tree[job.parent] # "foreign" /\ (tree[job.parent] = "bare" => job.created)
  /\ space = "control" => task.pc = "rest"

\* The Space a run has created holds nothing of the publisher until it uploads.
Looking == {"preflight", "look", "create"}
Filling == {"created", "identity", "main", "upload"}

Fresh ==
  /\ job.pc \in Looking => ~job.created
  /\ space = "control" /\ job.created /\ job.pc \in Filling =>
       tree # << >> /\ tree[1] = "system" /\ \A j \in 1..Tip : tree[j] # "ours"

\* What the drift check has established when it comes to each of its requests.
Witnessed ==
  /\ task.pc \in Checking => ev.verdict = "REJECTED"
  /\ task.pc \in Checking \ {"info"} => ev.revision \in 1..Tip
  /\ task.pc \in {"files", "witness", "final_info"} => met \/ Tip > ev.revision
  /\ task.pc = "final_stage" => met
  /\ task.pc \in {"witness", "final_info", "final_stage"} =>
       ev.bytes = "ALIGNED" /\ ev.compared = ev.revision /\ tree[ev.revision] = "ours"
  /\ task.pc \in {"final_info", "final_stage"} => ev.attested = ev.revision
  /\ ev.verdict = "ACCEPTED" => ev.revision \in 1..Tip

PublisherInv == PublisherTyped /\ Recorded /\ ReceiptHonest
ParentInv == Admitted /\ Fresh /\ NothingLost
WatchInv == WatchTyped /\ Witnessed /\ AcceptedCoherent

IInv == HubTyped /\ PublisherInv /\ ParentInv /\ WatchInv

-----------------------------------------------------------------------------
\* What no step may undo.
Grown ==
  /\ space' = space
  /\ Len(tree) \in Nat /\ Len(tree') \in Nat /\ Len(tree) <= Len(tree')
  /\ \A i \in 1..Len(tree) : tree'[i] = tree[i]
  /\ runtime.built \in Nat /\ runtime'.built \in Nat /\ runtime.built <= runtime'.built

\* A commit adds one revision at the tip.
LEMMA OneRevision ==
  ASSUME HubTyped, NEW content \in Contents, Commit(content)
  PROVE  /\ HubTyped' /\ Grown
         /\ Len(tree') = Len(tree) + 1 /\ tree'[Len(tree) + 1] = content
<1>1. tree \in Seq(Contents) /\ Len(tree) \in Nat /\ tree' = Append(tree, content)
      /\ UNCHANGED <<space, runtime, private>>
  BY DEF HubTyped, Commit
<1>2. /\ tree' \in Seq(Contents) /\ Len(tree') = Len(tree) + 1
      /\ tree'[Len(tree) + 1] = content
  BY <1>1
<1>3. \A i \in 1..Len(tree) : tree'[i] = tree[i]
  BY <1>1
<1>4. runtime.built \in Nat /\ runtime.built <= Len(tree) /\ private \in BOOLEAN
  BY DEF HubTyped
<1> QED
  BY <1>1, <1>2, <1>3, <1>4 DEF HubTyped, Grown

\* A step that leaves the revisions alone and does not take the runtime back.
LEMMA SameRevisions ==
  ASSUME HubTyped, UNCHANGED <<space, tree>>, private' \in BOOLEAN,
         runtime' \in [built : Nat, stage : Stages, live : Nat],
         runtime.built <= runtime'.built, runtime'.built <= Len(tree)
  PROVE  HubTyped' /\ Grown
<1>1. Len(tree) \in Nat /\ runtime.built \in Nat /\ runtime'.built \in Nat
  BY DEF HubTyped
<1> QED
  BY <1>1 DEF HubTyped, Grown

\* The Space is created where none was.
LEMMA FirstRevision ==
  ASSUME HubTyped, tree = << >>, tree' = <<"system">>, private' = FALSE,
         UNCHANGED <<space, runtime>>
  PROVE  HubTyped' /\ Grown
<1>1. Len(tree) = 0 /\ Len(tree') = 1 /\ tree' \in Seq(Contents)
  BY DEF Contents
<1>2. runtime.built \in Nat /\ runtime.built <= 0
  BY <1>1 DEF HubTyped
<1>3. private' \in BOOLEAN
  BY Zenon
<1> QED
  BY <1>1, <1>2, <1>3 DEF HubTyped, Grown

\* Nobody rewrites a revision: not the Hub, not the publisher, not the workflows.
LEMMA HubGrows ==
  ASSUME HubTyped, [Next]_vars
  PROVE  HubTyped' /\ Grown
<1>1. CASE UNCHANGED <<space, tree, runtime>> /\ (UNCHANGED private \/ private' = FALSE)
  <2>1. private' \in BOOLEAN
    BY <1>1, Zenon DEF HubTyped
  <2> QED
    BY <1>1, <2>1, SameRevisions DEF HubTyped
<1>2. CASE \E content \in Contents : Commit(content)
  BY <1>2, OneRevision
<1>3. CASE HubStep
  <2>1. CASE OtherCommit
    BY <1>2, <2>1 DEF OtherCommit, Contents
  <2>2. CASE Rebuild
    <3>1. PICK built \in runtime.built..Tip, stage \in Stages :
            \E live \in {runtime.live, built} :
              runtime' = [built |-> built, stage |-> stage, live |-> live]
      BY <2>2 DEF Rebuild
    <3>2. runtime.built \in Nat /\ runtime.live \in Nat /\ Len(tree) \in Nat
      BY DEF HubTyped
    <3>3. /\ built \in Nat /\ runtime.built <= built /\ built <= Len(tree)
          /\ \A live \in {runtime.live, built} : live \in Nat
      BY <3>2 DEF Tip
    <3>4. UNCHANGED <<space, tree>> /\ private' \in BOOLEAN
      BY <2>2 DEF Rebuild, HubTyped
    <3> QED
      BY <3>1, <3>3, <3>4, SameRevisions
  <2> QED
    BY <1>3, <2>1, <2>2 DEF HubStep
<1>4. CASE Publish
  <2>1. CASE Create
    <3>1. \/ UNCHANGED hubVars
          \/ /\ tree = << >> /\ tree' = <<"system">> /\ private' = FALSE
             /\ UNCHANGED <<space, runtime>>
      BY <2>1 DEF Create
    <3> QED
      BY <1>1, <3>1, FirstRevision DEF hubVars
  <2>2. CASE Upload
    BY <1>1, <1>2, <2>2 DEF Upload, hubVars, Contents
  <2>3. CASE Begin \/ Preflight \/ Look \/ Created \/ Admit \/ RequestUpload \/ Uploaded
             \/ Readback \/ PollHead \/ PollRuntime \/ Witness \/ Measured \/ Kill
    BY <1>1, <2>3 DEF Begin, Preflight, Look, Created, Admit, RequestUpload, Uploaded, Readback,
       PollHead, PollRuntime, Witness, Measured, Kill, hubVars
  <2> QED
    BY <1>4, <2>1, <2>2, <2>3 DEF Publish
<1>5. CASE Watch
  <2>1. CASE Deploy
    <3>1. \/ UNCHANGED <<space, tree, runtime>> /\ (UNCHANGED private \/ private' = FALSE)
          \/ Commit("ours")
          \/ /\ UNCHANGED <<space, tree, private>>
             /\ runtime' = [runtime EXCEPT !.stage = "BUILDING"]
      BY <2>1 DEF Deploy, hubVars
    <3>2. CASE Commit("ours")
      BY <1>2, <3>2 DEF Contents
    <3>3. CASE /\ UNCHANGED <<space, tree, private>>
               /\ runtime' = [runtime EXCEPT !.stage = "BUILDING"]
      <4>1. /\ runtime' \in [built : Nat, stage : Stages, live : Nat]
            /\ runtime.built \in Nat /\ runtime'.built = runtime.built
            /\ runtime.built <= Len(tree) /\ private' \in BOOLEAN
        BY <3>3 DEF HubTyped, Stages
      <4> QED
        BY <3>3, <4>1, SameRevisions
    <3> QED
      BY <1>1, <3>1, <3>2, <3>3
  <2>2. CASE WaitInfo \/ WaitRuntime \/ WaitEnds \/ DriftCheck
    BY <1>1, <2>2 DEF WaitInfo, WaitRuntime, WaitEnds, DriftCheck, DriftStart, ProviderInfo,
       FirstStage, FinalStage, ProviderStage, VerifyPublication, RuntimeWitness, FinalInfo,
       DriftReads, hubVars
  <2> QED
    BY <1>5, <2>1, <2>2 DEF Watch
<1>6. CASE UNCHANGED vars
  BY <1>1, <1>6 DEF vars, hubVars
<1> QED
  BY <1>3, <1>4, <1>5, <1>6 DEF Next

-----------------------------------------------------------------------------
\* The publisher.  What a step leaves of the record of it.
Outcomes(new) ==
  /\ new \in Receipts
  /\ new.creation = receipt.creation /\ new.write = receipt.write
  /\ new.revision = receipt.revision

LEMMA Rephased ==
  ASSUME receipt \in Receipts, NEW phase \in Phases, NEW status \in Statuses
  PROVE  /\ Outcomes(receipt)
         /\ Outcomes([receipt EXCEPT !.status = status])
         /\ Outcomes([receipt EXCEPT !.phase = phase])
         /\ Outcomes([receipt EXCEPT !.phase = phase, !.status = status])
<1>1. Outcomes(receipt) /\ Outcomes([receipt EXCEPT !.status = status])
  BY DEF Outcomes, Receipts
<1>2. Outcomes([receipt EXCEPT !.phase = phase])
  BY DEF Outcomes, Receipts
<1>3. Outcomes([receipt EXCEPT !.phase = phase, !.status = status])
  BY DEF Outcomes, Receipts
<1> QED
  BY <1>1, <1>2, <1>3

\* Moving to another place.
LEMMA Gone ==
  ASSUME job \in Jobs, NEW pc \in Places, job' = [job EXCEPT !.pc = pc]
  PROVE  job' \in Jobs /\ job'.pc = pc
BY DEF Jobs

\* A step that only moves the publisher, or that ends its run, claims nothing.
LEMMA Moved ==
  ASSUME PublisherInv, NEW pc \in Places, Goto(pc), Outcomes(receipt'),
         UNCHANGED <<made, wrote>>, pc \notin {"create", "created", "upload", "uploaded"}
  PROVE  PublisherInv'
<1>1. job' \in Jobs /\ job'.pc = pc
  BY Gone DEF Goto, PublisherInv, PublisherTyped
<1> QED
  BY <1>1 DEF PublisherInv, PublisherTyped, Recorded, ReceiptHonest, Outcomes

LEMMA Stopped ==
  ASSUME PublisherInv, NEW status \in Statuses, Stop(status)
  PROVE  PublisherInv'
<1>1. "idle" \in Places /\ "none" \in Phases
  BY DEF Places, Phases
<1>2. receipt \in Receipts
  BY DEF PublisherInv, PublisherTyped
<1>3. Outcomes(receipt')
  BY <1>1, <1>2, Rephased DEF Stop
<1> QED
  BY <1>1, <1>3, Moved DEF Stop

LEMMA Begun ==
  ASSUME PublisherInv, Begin
  PROVE  PublisherInv'
<1>1. job' = [pc |-> "preflight", created |-> FALSE, parent |-> 0, published |-> 0]
  BY DEF Begin, Idle
<1>2. /\ job' \in Jobs /\ job'.pc = "preflight"
  BY <1>1 DEF Jobs, Places
<1>3. /\ receipt' \in Receipts
      /\ receipt'.creation = "NOT_ATTEMPTED" /\ receipt'.write = "NOT_ATTEMPTED"
      /\ made' = FALSE /\ wrote' = 0
  BY DEF Begin, Receipts, Phases, Claims, Statuses
<1> QED
  BY <1>2, <1>3 DEF PublisherInv, PublisherTyped, Recorded, ReceiptHonest

\* The Space is looked up; the checkpoint before its creation.
LEMMA Looked ==
  ASSUME PublisherInv, HubTyped, Look
  PROVE  PublisherInv'
<1>1. Tip \in Nat /\ job \in Jobs /\ receipt \in Receipts
  BY DEF HubTyped, Tip, PublisherInv, PublisherTyped
<1>2. CASE tree # << >> /\ ~Fails
  <2>1. job' = [job EXCEPT !.pc = "identity", !.parent = Tip] /\ Silent
    BY <1>2 DEF Look
  <2>2. job' \in Jobs /\ job'.pc = "identity"
    BY <1>1, <2>1 DEF Jobs, Places
  <2> QED
    BY <2>1, <2>2 DEF PublisherInv, PublisherTyped, Recorded, ReceiptHonest, Silent
<1>3. CASE tree = << >> /\ ~Fails
  <2>1. /\ job' = [job EXCEPT !.pc = "create"]
        /\ receipt' = [receipt EXCEPT !.phase = "CREATE_REQUESTED", !.creation = "UNKNOWN"]
        /\ UNCHANGED <<made, wrote>>
    BY <1>3 DEF Look, Goto
  <2>2. job' \in Jobs /\ job'.pc = "create"
    BY <1>1, <2>1 DEF Jobs, Places
  <2>3. /\ receipt' \in Receipts /\ receipt'.creation = "UNKNOWN"
        /\ receipt'.write = receipt.write /\ receipt'.revision = receipt.revision
    BY <1>1, <2>1 DEF Receipts, Phases, Claims
  <2> QED
    BY <2>1, <2>2, <2>3 DEF PublisherInv, PublisherTyped, Recorded, ReceiptHonest
<1>4. CASE Fails
  BY <1>4, Stopped DEF Fails, Statuses
<1> QED
  BY <1>2, <1>3, <1>4

\* The Space is created, and the run may fail all the same.
LEMMA CreatedSpace ==
  ASSUME PublisherInv, HubTyped, Create \/ Created
  PROVE  PublisherInv'
<1>1. Tip \in Nat /\ job \in Jobs /\ receipt \in Receipts /\ "UNKNOWN" \in Statuses
      /\ "none" \in Phases
  BY DEF HubTyped, Tip, PublisherInv, PublisherTyped, Statuses, Phases
<1>2. CASE Create /\ Stop("UNKNOWN")
  BY <1>1, <1>2, Stopped
<1>3. CASE Create /\ ~Stop("UNKNOWN")
  <2>1. receipt.creation = "UNKNOWN"
    BY <1>3 DEF Create, At, PublisherInv, Recorded
  <2>2. /\ made' = TRUE /\ wrote' = wrote
        /\ \/ job' = [job EXCEPT !.pc = "created", !.created = TRUE] /\ UNCHANGED receipt
           \/ /\ job' = [job EXCEPT !.pc = "idle"]
              /\ receipt' = [receipt EXCEPT !.status = "UNKNOWN"]
    BY <1>3 DEF Create, Goto
  <2>3. job' \in Jobs /\ job'.pc \in {"created", "idle"}
    BY <1>1, <2>2 DEF Jobs, Places
  <2>4. Outcomes(receipt')
    BY <1>1, <2>2, Rephased
  <2> QED
    BY <2>1, <2>2, <2>3, <2>4 DEF PublisherInv, PublisherTyped, Recorded, ReceiptHonest, Outcomes
<1>4. CASE Created
  <2>1. made /\ job' = [job EXCEPT !.pc = "identity", !.parent = Tip]
        /\ receipt' = [receipt EXCEPT !.phase = "CREATED", !.creation = "MEASURED"]
        /\ UNCHANGED <<made, wrote>>
    BY <1>4 DEF Created, At, PublisherInv, Recorded
  <2>2. job' \in Jobs /\ job'.pc = "identity"
    BY <1>1, <2>1 DEF Jobs, Places
  <2>3. /\ receipt' \in Receipts /\ receipt'.creation = "MEASURED"
        /\ receipt'.write = receipt.write /\ receipt'.revision = receipt.revision
    BY <1>1, <2>1 DEF Receipts, Phases, Claims
  <2> QED
    BY <2>1, <2>2, <2>3 DEF PublisherInv, PublisherTyped, Recorded, ReceiptHonest
<1> QED
  BY <1>2, <1>3, <1>4

\* The checkpoint before the upload, the upload, and its checkpoint.
LEMMA UploadedFiles ==
  ASSUME PublisherInv, HubTyped, RequestUpload \/ Upload \/ Uploaded
  PROVE  PublisherInv'
<1>1. Tip \in Nat /\ job \in Jobs /\ receipt \in Receipts /\ "UNKNOWN" \in Statuses
      /\ "BLOCKED" \in Statuses /\ "none" \in Phases
  BY DEF HubTyped, Tip, PublisherInv, PublisherTyped, Statuses, Phases
<1>2. CASE Stop("BLOCKED") \/ Stop("UNKNOWN")
  BY <1>1, <1>2, Stopped
<1>3. CASE RequestUpload /\ ~Fails
  <2>1. /\ job' = [job EXCEPT !.pc = "upload"] /\ UNCHANGED <<made, wrote>>
        /\ receipt' = [receipt EXCEPT !.phase = "UPLOAD_REQUESTED", !.write = "UNKNOWN"]
    BY <1>3 DEF RequestUpload, Goto
  <2>2. job' \in Jobs /\ job'.pc = "upload"
    BY <1>1, <2>1 DEF Jobs, Places
  <2>3. /\ receipt' \in Receipts /\ receipt'.write = "UNKNOWN"
        /\ receipt'.creation = receipt.creation
    BY <1>1, <2>1 DEF Receipts, Phases, Claims
  <2> QED
    BY <2>1, <2>2, <2>3 DEF PublisherInv, PublisherTyped, Recorded, ReceiptHonest
<1>4. CASE Upload /\ ~Stop("UNKNOWN")
  <2>1. receipt.write = "UNKNOWN"
    BY <1>4 DEF Upload, At, PublisherInv, Recorded
  <2>2. /\ wrote' = Tip + 1 /\ made' = made
        /\ \/ job' = [job EXCEPT !.pc = "uploaded", !.published = Tip + 1] /\ UNCHANGED receipt
           \/ /\ job' = [job EXCEPT !.pc = "idle"]
              /\ receipt' = [receipt EXCEPT !.status = "UNKNOWN"]
    BY <1>4 DEF Upload, Goto
  <2>3. wrote' \in Nat /\ wrote' # 0
    BY <1>1, <2>2
  <2>4. job' \in Jobs /\ (job'.pc = "idle" \/ (job'.pc = "uploaded" /\ job'.published = wrote'))
    BY <1>1, <2>2, <2>3 DEF Jobs, Places
  <2>5. Outcomes(receipt')
    BY <1>1, <2>2, Rephased
  <2> QED
    BY <2>1, <2>2, <2>3, <2>4, <2>5
    DEF PublisherInv, PublisherTyped, Recorded, ReceiptHonest, Outcomes
<1>5. CASE Uploaded
  <2>1. /\ wrote = job.published /\ wrote # 0 /\ UNCHANGED <<made, wrote>>
        /\ job' = [job EXCEPT !.pc = "readback"]
        /\ receipt' = [receipt EXCEPT !.phase = "UPLOADED", !.write = "MEASURED",
                                      !.revision = job.published]
    BY <1>5 DEF Uploaded, At, Goto, PublisherInv, Recorded
  <2>2. job' \in Jobs /\ job'.pc = "readback" /\ job.published \in Nat
    BY <1>1, <2>1 DEF Jobs, Places
  <2>3. /\ receipt' \in Receipts /\ receipt'.write = "MEASURED"
        /\ receipt'.revision = job.published /\ receipt'.creation = receipt.creation
    BY <1>1, <2>1, <2>2 DEF Receipts, Phases, Claims
  <2> QED
    BY <2>1, <2>2, <2>3 DEF PublisherInv, PublisherTyped, Recorded, ReceiptHonest
<1> QED
  BY <1>2, <1>3, <1>4, <1>5 DEF Fails

\* Reading the Hub, whatever it answers.
LEMMA Read ==
  ASSUME PublisherInv,
         Preflight \/ Admit \/ Readback \/ PollHead \/ PollRuntime \/ Witness \/ Measured \/ Kill
  PROVE  PublisherInv'
<1> DEFINE Reads == {"look", "main", "poll", "runtime", "witness", "final", "idle"}
<1>1. receipt \in Receipts /\ {"BLOCKED", "UNKNOWN", "MEASURED"} \subseteq Statuses
      /\ {"FILES_VERIFIED", "RUNTIME_VERIFIED"} \subseteq Phases
  BY DEF PublisherInv, PublisherTyped, Statuses, Phases
<1>2. CASE Stop("BLOCKED") \/ Stop("UNKNOWN")
  BY <1>1, <1>2, Stopped
<1>3. CASE \E pc \in Reads : Goto(pc) /\ Outcomes(receipt') /\ UNCHANGED <<made, wrote>>
  <2>1. PICK pc \in Reads : Goto(pc) /\ Outcomes(receipt') /\ UNCHANGED <<made, wrote>>
    BY <1>3
  <2>2. pc \in Places /\ pc \notin {"create", "created", "upload", "uploaded"}
    BY DEF Places
  <2> QED
    BY <2>1, <2>2, Moved
<1>4. CASE Readback \/ Measured
  <2>1. \/ Stop("BLOCKED") \/ Stop("UNKNOWN")
        \/ /\ Goto("poll") \/ Goto("idle")
           /\ \/ receipt' = [receipt EXCEPT !.phase = "FILES_VERIFIED"]
              \/ receipt' = [receipt EXCEPT !.phase = "RUNTIME_VERIFIED", !.status = "MEASURED"]
           /\ UNCHANGED <<made, wrote>>
    BY <1>4 DEF Readback, Measured, Fails
  <2>2. /\ Outcomes([receipt EXCEPT !.phase = "FILES_VERIFIED"])
        /\ Outcomes([receipt EXCEPT !.phase = "RUNTIME_VERIFIED", !.status = "MEASURED"])
    BY <1>1, Rephased
  <2>3. "poll" \in Reads /\ "idle" \in Reads
    OBVIOUS
  <2> QED
    BY <1>2, <1>3, <2>1, <2>2, <2>3
<1>5. CASE Preflight \/ Admit \/ PollHead \/ PollRuntime \/ Witness \/ Kill
  <2>1. Stop("BLOCKED") \/ Stop("UNKNOWN") \/ (\E pc \in Reads : Goto(pc) /\ Silent)
    BY <1>5 DEF Preflight, Admit, PollHead, PollRuntime, Witness, Kill, Fails
  <2>2. Silent => Outcomes(receipt') /\ UNCHANGED <<made, wrote>>
    BY <1>1 DEF Silent, Outcomes
  <2> QED
    BY <1>2, <1>3, <2>1, <2>2
<1> QED
  BY <1>4, <1>5

LEMMA PublisherKept ==
  ASSUME HubTyped, PublisherInv, [Next]_vars
  PROVE  PublisherInv'
<1>1. CASE Publish
  BY <1>1, Begun, Looked, CreatedSpace, UploadedFiles, Read DEF Publish
<1>2. CASE UNCHANGED publisherVars
  BY <1>2 DEF publisherVars, PublisherInv, PublisherTyped, Recorded, ReceiptHonest
<1> QED
  BY <1>1, <1>2 DEF Next, vars

-----------------------------------------------------------------------------
\* Parents.  The history is the same as before a step, however far it goes.
LEMMA HistoryKept ==
  ASSUME HubTyped, Grown, NothingLost, NEW i \in 2..Len(tree), space = "control",
         tree'[i] = "ours"
  PROVE  /\ tree'[i - 1] # "foreign"
         /\ tree'[i - 1] = "bare" => tree'[1] = "system" /\ \A j \in 1..i - 1 : tree'[j] # "ours"
<1>1. Len(tree) \in Nat /\ \A j \in 1..Len(tree) : tree'[j] = tree[j]
  BY DEF Grown
<1>2. /\ i \in 1..Len(tree) /\ i - 1 \in 1..Len(tree) /\ 1 \in 1..Len(tree)
      /\ \A j \in 1..i - 1 : j \in 1..Len(tree)
  BY <1>1
<1>3. /\ tree[i - 1] # "foreign"
      /\ tree[i - 1] = "bare" => tree[1] = "system" /\ \A j \in 1..i - 1 : tree[j] # "ours"
  BY <1>1, <1>2 DEF NothingLost, Tip
<1> QED
  BY <1>1, <1>2, <1>3

\* A step that publishes nothing leaves what was admitted.
LEMMA StillAdmitted ==
  ASSUME HubTyped, Grown, ParentInv, UNCHANGED job, space = "control" => task'.pc = "rest",
         \A i \in Len(tree) + 1..Len(tree') : space = "control" => tree'[i] # "ours"
  PROVE  ParentInv'
<1>1. Len(tree) \in Nat /\ Len(tree') \in Nat /\ Len(tree) <= Len(tree') /\ space' = space
      /\ \A i \in 1..Len(tree) : tree'[i] = tree[i]
  BY DEF Grown
<1>2. tree # << >> => tree' # << >> /\ 1 \in 1..Len(tree)
  <2>1. tree # << >> => Len(tree) # 0
    BY DEF HubTyped
  <2> QED
    BY <1>1, <2>1
<1>3. Admitted'
  BY <1>1, <1>2 DEF ParentInv, Admitted, Tip
<1>4. Fresh'
  <2> SUFFICES ASSUME space = "control", job.created, job.pc \in Filling
               PROVE  /\ tree' # << >> /\ tree'[1] = "system"
                      /\ \A j \in 1..Len(tree') : tree'[j] # "ours"
    BY <1>1 DEF ParentInv, Fresh, Tip
  <2>1. tree # << >> /\ tree[1] = "system" /\ \A j \in 1..Len(tree) : tree[j] # "ours"
    BY DEF ParentInv, Fresh, Tip
  <2>2. \A j \in 1..Len(tree') : j \in 1..Len(tree) \/ j \in Len(tree) + 1..Len(tree')
    BY <1>1
  <2> QED
    BY <1>1, <1>2, <2>1, <2>2
<1>5. NothingLost'
  <2> SUFFICES ASSUME NEW i \in 2..Len(tree'), space = "control", tree'[i] = "ours"
               PROVE  /\ tree'[i - 1] # "foreign"
                      /\ tree'[i - 1] = "bare" =>
                           tree'[1] = "system" /\ \A j \in 1..i - 1 : tree'[j] # "ours"
    BY <1>1 DEF NothingLost, Tip
  <2>1. i \in 2..Len(tree)
    BY <1>1
  <2> QED
    BY <2>1, HistoryKept DEF ParentInv
<1> QED
  BY <1>3, <1>4, <1>5 DEF ParentInv

\* The publisher's own steps over an unchanged tree.
LEMMA Advanced ==
  ASSUME HubTyped, PublisherInv, ParentInv, UNCHANGED <<space, tree, task>>,
         job' \in Jobs,
         \/ job'.pc \notin Filling \cup Looking
         \/ job'.pc \in Looking /\ ~job'.created
         \/ /\ job'.pc = "identity" /\ job'.parent = Tip /\ tree # << >>
            /\ job'.created => job.created /\ job.pc = "created"
         \/ /\ job'.pc \in {"main", "upload"} /\ job'.parent = job.parent
            /\ job.parent \in 1..Tip /\ tree[job.parent] # "foreign"
            /\ job'.created = job.created /\ job.pc \in Filling
            /\ tree[job.parent] = "bare" => job.created
  PROVE  ParentInv'
<1>1. Tip \in Nat /\ (tree # << >> => Tip \in 1..Tip)
  BY DEF HubTyped, Tip
<1>2. Tip' = Tip
  BY DEF Tip
<1>3. Admitted'
  BY <1>1, <1>2 DEF ParentInv, Admitted, Looking, Filling
<1>4. Fresh'
  BY <1>2 DEF ParentInv, Fresh, Looking, Filling
<1> QED
  BY <1>2, <1>3, <1>4 DEF ParentInv, NothingLost

LEMMA ParentKept ==
  ASSUME HubTyped, PublisherInv, ParentInv, [Next]_vars
  PROVE  ParentInv'
<1>1. /\ HubTyped' /\ Grown /\ Len(tree) \in Nat /\ job \in Jobs /\ Tip \in Nat
      /\ job' \in Jobs
  BY HubGrows, PublisherKept DEF Grown, PublisherInv, PublisherTyped, Tip
<1>2. ASSUME UNCHANGED job, space = "control" => task'.pc = "rest",
             \/ UNCHANGED tree
             \/ \E content \in Contents :
                  Commit(content) /\ (space = "control" => content # "ours")
      PROVE  ParentInv'
  <2>1. \A i \in Len(tree) + 1..Len(tree') : space = "control" => tree'[i] # "ours"
    <3>1. CASE UNCHANGED tree
      BY <1>1, <3>1
    <3>2. ASSUME NEW content \in Contents, Commit(content), space = "control" => content # "ours"
          PROVE  \A i \in Len(tree) + 1..Len(tree') : space = "control" => tree'[i] # "ours"
      <4>1. Len(tree') = Len(tree) + 1 /\ tree'[Len(tree) + 1] = content
        BY <3>2, OneRevision
      <4> QED
        BY <1>1, <3>2, <4>1
    <3> QED
      BY <1>2, <3>1, <3>2
  <2> QED
    BY <1>1, <1>2, <2>1, StillAdmitted
<1>3. CASE HubStep /\ UNCHANGED <<publisherVars, watchVars>>
  <2>1. UNCHANGED <<job, task>> /\ (space = "control" => task.pc = "rest")
    BY <1>3 DEF publisherVars, watchVars, ParentInv, Admitted
  <2>2. \/ UNCHANGED tree
        \/ \E content \in Contents :
             Commit(content) /\ (space = "control" => content # "ours")
    BY <1>3 DEF HubStep, OtherCommit, Rebuild, Contents
  <2> QED
    BY <1>2, <2>1, <2>2
<1>4. CASE Watch /\ UNCHANGED publisherVars
  <2>1. UNCHANGED job /\ (space = "control" => task.pc = "rest")
    BY <1>4 DEF publisherVars, ParentInv, Admitted
  <2>2. space # "control"
    BY <1>4, <2>1 DEF Watch, Deploy, WaitInfo, WaitRuntime, WaitEnds, DriftCheck, DriftStart,
       ProviderInfo, FirstStage, FinalStage, ProviderStage, VerifyPublication, RuntimeWitness,
       FinalInfo, DriftReads, Start, Is
  <2>3. UNCHANGED tree \/ Commit("ours")
    BY <1>4 DEF Watch, Deploy, WaitInfo, WaitRuntime, WaitEnds, DriftCheck, DriftStart,
       ProviderInfo, FirstStage, FinalStage, ProviderStage, VerifyPublication, RuntimeWitness,
       FinalInfo, DriftReads, hubVars
  <2> QED
    BY <1>2, <2>1, <2>2, <2>3 DEF Contents
<1>5. CASE Publish /\ UNCHANGED watchVars
  <2>1. UNCHANGED task
    BY <1>5 DEF watchVars
  <2>2. CASE Upload
    <3>1. CASE Stop("UNKNOWN") /\ UNCHANGED hubVars
      <4>1. UNCHANGED <<space, tree>> /\ job'.pc = "idle"
        BY <1>1, <3>1 DEF Stop, Goto, hubVars, Jobs
      <4> QED
        BY <1>1, <2>1, <4>1, Advanced DEF Looking, Filling
    <3>2. CASE ~(Stop("UNKNOWN") /\ UNCHANGED hubVars)
      <4>1. /\ job.pc = "upload" /\ Tip = job.parent /\ Commit("ours")
            /\ \/ job' = [job EXCEPT !.pc = "uploaded", !.published = Tip + 1]
               \/ job' = [job EXCEPT !.pc = "idle"]
        BY <2>2, <3>2 DEF Upload, At, Goto
      <4>2. job'.pc \in {"uploaded", "idle"}
        BY <1>1, <4>1 DEF Jobs
      <4>3. /\ Tip \in 1..Tip /\ tree[Tip] # "foreign"
            /\ space = "control" /\ tree[Tip] = "bare" =>
                 tree[1] = "system" /\ \A j \in 1..Tip : tree[j] # "ours"
        BY <4>1 DEF ParentInv, Admitted, Fresh, Filling
      <4>4. /\ Len(tree') = Len(tree) + 1 /\ \A i \in 1..Len(tree) : tree'[i] = tree[i]
            /\ space' = space
        BY <4>1, OneRevision DEF Contents, Grown
      <4>5. NothingLost'
        <5> SUFFICES ASSUME NEW i \in 2..Len(tree'), space = "control", tree'[i] = "ours"
                     PROVE  /\ tree'[i - 1] # "foreign"
                            /\ tree'[i - 1] = "bare" =>
                                 tree'[1] = "system" /\ \A j \in 1..i - 1 : tree'[j] # "ours"
          BY <4>4 DEF NothingLost, Tip
        <5>1. CASE i = Len(tree) + 1
          <6>1. i - 1 = Len(tree) /\ Len(tree) \in 1..Len(tree) /\ 1 \in 1..Len(tree)
            BY <1>1, <4>3, <5>1 DEF Tip
          <6> QED
            BY <4>3, <4>4, <6>1 DEF Tip
        <5>2. CASE i \in 2..Len(tree)
          BY <1>1, <5>2, HistoryKept DEF ParentInv
        <5> QED
          BY <1>1, <4>4, <5>1, <5>2
      <4>6. Admitted' /\ Fresh'
        BY <2>1, <4>2, <4>4 DEF ParentInv, Admitted, Fresh, Looking, Filling
      <4> QED
        BY <4>5, <4>6 DEF ParentInv
    <3> QED
      BY <3>1, <3>2
  <2>3. CASE Create
    <3>1. CASE Stop("UNKNOWN") /\ UNCHANGED hubVars
      <4>1. UNCHANGED <<space, tree>> /\ job'.pc = "idle"
        BY <1>1, <3>1 DEF Stop, Goto, hubVars, Jobs
      <4> QED
        BY <1>1, <2>1, <4>1, Advanced DEF Looking, Filling
    <3>2. CASE ~(Stop("UNKNOWN") /\ UNCHANGED hubVars)
      <4>1. /\ tree' = <<"system">> /\ space' = space
            /\ \/ job' = [job EXCEPT !.pc = "created", !.created = TRUE]
               \/ job' = [job EXCEPT !.pc = "idle"]
        BY <2>3, <3>2 DEF Create, Goto
      <4>2. job'.pc \in {"created", "idle"}
        BY <1>1, <4>1 DEF Jobs
      <4>3. tree' # << >> /\ Len(tree') = 1 /\ tree'[1] = "system"
        BY <4>1
      <4>4. Admitted'
        BY <2>1, <4>1, <4>2, <4>3 DEF ParentInv, Admitted
      <4>5. Fresh'
        BY <4>2, <4>3 DEF Fresh, Looking, Tip
      <4>6. NothingLost'
        BY <4>3 DEF NothingLost, Tip
      <4> QED
        BY <4>4, <4>5, <4>6 DEF ParentInv
    <3> QED
      BY <3>1, <3>2
  <2>4. CASE Look \/ Created
    <3>1. UNCHANGED <<space, tree>>
      BY <2>4 DEF Look, Created, hubVars
    <3>2. \/ job' = [job EXCEPT !.pc = "idle"]
          \/ job' = [job EXCEPT !.pc = "create"] /\ ~job.created
          \/ /\ job' = [job EXCEPT !.pc = "identity", !.parent = Tip] /\ tree # << >>
             /\ job.created => job.pc = "created"
      BY <2>4 DEF Look, Created, At, Goto, Fails, Stop, ParentInv, Admitted, Fresh, Looking
    <3>3. \/ job'.pc = "idle"
          \/ job'.pc = "create" /\ ~job'.created
          \/ /\ job'.pc = "identity" /\ job'.parent = Tip /\ tree # << >>
             /\ job'.created => job.created /\ job.pc = "created"
      BY <1>1, <3>2 DEF Jobs
    <3> QED
      BY <1>1, <2>1, <3>1, <3>3, Advanced DEF Looking, Filling
  <2>5. CASE Admit \/ RequestUpload
    <3>1. UNCHANGED <<space, tree>>
      BY <2>5 DEF Admit, RequestUpload, hubVars
    <3>2. /\ job.pc \in {"identity", "main"} /\ job.parent \in 1..Tip
          /\ job.pc = "main" =>
               tree[job.parent] # "foreign" /\ (tree[job.parent] = "bare" => job.created)
      BY <2>5 DEF Admit, RequestUpload, At, ParentInv, Admitted
    <3>3. \/ job' = [job EXCEPT !.pc = "idle"]
          \/ /\ job' = [job EXCEPT !.pc = "main"] \/ job' = [job EXCEPT !.pc = "upload"]
             /\ tree[job.parent] # "foreign" /\ (tree[job.parent] = "bare" => job.created)
      BY <2>5, <3>2 DEF Admit, RequestUpload, At, Fails, Stop, Goto, Admissible
    <3>4. \/ job'.pc = "idle"
          \/ /\ job'.pc \in {"main", "upload"} /\ job'.parent = job.parent
             /\ job'.created = job.created
             /\ tree[job.parent] # "foreign" /\ (tree[job.parent] = "bare" => job.created)
      BY <1>1, <3>3 DEF Jobs
    <3> QED
      BY <1>1, <2>1, <3>1, <3>2, <3>4, Advanced DEF Looking, Filling
  <2>6. CASE Begin \/ Preflight \/ Uploaded \/ Readback \/ PollHead \/ PollRuntime \/ Witness
             \/ Measured \/ Kill
    <3>1. UNCHANGED <<space, tree>>
      BY <2>6 DEF Begin, Preflight, Uploaded, Readback, PollHead, PollRuntime, Witness, Measured,
         Kill, hubVars
    <3>2. \/ job' = [Idle EXCEPT !.pc = "preflight"]
          \/ job' = [job EXCEPT !.pc = "look"] /\ job.pc = "preflight"
          \/ \E to \in {"idle", "readback", "poll", "runtime", "witness", "final"} :
               job' = [job EXCEPT !.pc = to]
      BY <2>6 DEF Begin, Preflight, Uploaded, Readback, PollHead, PollRuntime, Witness, Measured,
         Kill, Fails, Stop, Goto, At
    <3>3. \/ job'.pc \notin Filling \cup Looking
          \/ job'.pc \in Looking /\ ~job'.created
      BY <1>1, <3>2 DEF Idle, Jobs, Looking, Filling, ParentInv, Fresh
    <3> QED
      BY <1>1, <2>1, <3>1, <3>3, Advanced
  <2> QED
    BY <1>5, <2>2, <2>3, <2>4, <2>5, <2>6 DEF Publish
<1>6. CASE UNCHANGED vars
  <2>1. UNCHANGED <<space, tree, job, task>>
    BY <1>6 DEF vars, hubVars, publisherVars, watchVars
  <2> QED
    BY <2>1 DEF ParentInv, Admitted, Fresh, NothingLost, Tip
<1> QED
  BY <1>3, <1>4, <1>5, <1>6 DEF Next

-----------------------------------------------------------------------------
\* The workflows of the public Space.  What they know of a revision stays true,
\* whoever acts.
LEMMA StillWitnessed ==
  ASSUME HubTyped, Grown, WatchInv, UNCHANGED <<ev, met>>,
         UNCHANGED task \/ (task' \in Tasks /\ task'.pc \notin Checking),
         UNCHANGED report \/ (report' \in Reports /\ report'.state # "CONVERGED")
           \/ (report' \in Reports /\ report'.revision = runtime'.built)
  PROVE  WatchInv'
<1>1. /\ Tip \in Nat /\ Tip' \in Nat /\ Tip <= Tip'
      /\ \A i \in 1..Tip : i \in 1..Tip' /\ tree'[i] = tree[i]
      /\ runtime.built \in Nat /\ runtime'.built \in Nat /\ runtime.built <= runtime'.built
  BY DEF Grown, Tip
<1>2. WatchTyped'
  BY DEF WatchInv, WatchTyped
<1>3. ev.revision \in Nat /\ report.revision \in Nat
  BY DEF WatchInv, WatchTyped, Evidence, Reports
<1>4. Witnessed'
  <2>1. /\ ev.revision \in 1..Tip => ev.revision \in 1..Tip' /\ tree'[ev.revision] = tree[ev.revision]
        /\ Tip > ev.revision => Tip' > ev.revision
    BY <1>1, <1>3
  <2>2. CASE UNCHANGED task
    BY <2>1, <2>2 DEF WatchInv, Witnessed, Checking
  <2>3. CASE task'.pc \notin Checking
    BY <2>1, <2>3 DEF WatchInv, Witnessed, Checking
  <2> QED
    BY <2>2, <2>3
<1>5. AcceptedCoherent'
  <2>1. ev.verdict = "ACCEPTED" => tree'[ev.revision] = tree[ev.revision]
    BY <1>1 DEF WatchInv, Witnessed
  <2>2. report'.state = "CONVERGED" => runtime'.built >= report'.revision
    <3>1. CASE UNCHANGED report
      BY <1>1, <1>3, <3>1 DEF WatchInv, AcceptedCoherent
    <3>2. CASE report'.revision = runtime'.built
      BY <1>1, <3>2
    <3> QED
      BY <3>1, <3>2
  <2> QED
    BY <2>1, <2>2 DEF WatchInv, AcceptedCoherent
<1> QED
  BY <1>2, <1>4, <1>5 DEF WatchInv

\* The deployment and the wait leave the evidence alone.
LEMMA Deployed ==
  ASSUME HubTyped, Grown, WatchInv, Deploy \/ WaitInfo \/ WaitRuntime \/ WaitEnds
  PROVE  WatchInv'
<1>1. /\ task \in Tasks /\ report \in Reports /\ Tip \in Nat /\ Tip + 1 \in Nat
      /\ task.tries + 1 \in Nat /\ task.published \in Nat /\ private \in BOOLEAN
  BY DEF WatchInv, WatchTyped, Tasks, HubTyped, Tip
<1>2. ASSUME NEW pc \in Deploying \cup Waiting \cup {"rest"}, Quiet,
             \/ task' = [Resting EXCEPT !.pc = pc, !.tries = task.tries + 1]
             \/ task' = [task EXCEPT !.pc = pc]
             \/ task' = [task EXCEPT !.pc = pc, !.parent = Tip]
             \/ \E published \in Nat : task' = [task EXCEPT !.pc = pc, !.published = published]
             \/ task' = [task EXCEPT !.pc = pc, !.published = Tip, !.hidden = private]
      PROVE  WatchInv'
  <2>1. task' \in Tasks /\ task'.pc = pc
    <3>1. CASE task' = [Resting EXCEPT !.pc = pc, !.tries = task.tries + 1]
      BY <1>1, <3>1 DEF Tasks, Resting
    <3>2. CASE task' = [task EXCEPT !.pc = pc] \/ task' = [task EXCEPT !.pc = pc, !.parent = Tip]
      BY <1>1, <3>2 DEF Tasks
    <3>3. CASE \E published \in Nat : task' = [task EXCEPT !.pc = pc, !.published = published]
      BY <1>1, <3>3 DEF Tasks
    <3>4. CASE task' = [task EXCEPT !.pc = pc, !.published = Tip, !.hidden = private]
      BY <1>1, <3>4 DEF Tasks
    <3> QED
      BY <1>2, <3>1, <3>2, <3>3, <3>4
  <2>2. pc \notin Checking
    BY DEF Checking, Deploying, Waiting
  <2> QED
    BY <1>2, <2>1, <2>2, StillWitnessed DEF Quiet
<1>3. ASSUME NEW state \in {"DEPLOYED", "FAILED", "REJECTED", "CONVERGED"},
             Report(state, task.published),
             state = "CONVERGED" => runtime.built = task.published /\ UNCHANGED runtime
      PROVE  WatchInv'
  <2>1. task' \in Tasks /\ task'.pc = "rest" /\ "rest" \notin Checking
    BY <1>1, <1>3 DEF Report, Tasks, Checking
  <2>2. report' \in Reports /\ report'.state = state /\ report'.revision = task.published
    BY <1>1, <1>3 DEF Report, Reports
  <2> QED
    BY <1>3, <2>1, <2>2, StillWitnessed DEF Report
<1>4. CASE Deploy
  <2>1. \/ \E pc \in {"parent", "write", "show", "restart", "confirm"} :
             /\ Quiet
             /\ \/ task' = [Resting EXCEPT !.pc = pc, !.tries = task.tries + 1]
                \/ task' = [task EXCEPT !.pc = pc]
                \/ task' = [task EXCEPT !.pc = pc, !.parent = Tip]
                \/ task' = [task EXCEPT !.pc = pc, !.published = Tip + 1]
        \/ Report("DEPLOYED", task.published) \/ Report("FAILED", task.published)
    BY <1>4 DEF Deploy, Start, Goes
  <2> QED
    BY <1>1, <1>2, <1>3, <2>1 DEF Deploying
<1>5. CASE WaitInfo \/ WaitRuntime \/ WaitEnds
  <2>1. \/ \E pc \in {"wait_info", "wait_runtime"} :
             /\ Quiet
             /\ \/ task' = [Resting EXCEPT !.pc = pc, !.tries = task.tries + 1]
                \/ task' = [task EXCEPT !.pc = pc]
                \/ task' = [task EXCEPT !.pc = pc, !.published = Tip, !.hidden = private]
        \/ Report("REJECTED", task.published)
        \/ /\ Report("CONVERGED", task.published)
           /\ runtime.built = task.published /\ UNCHANGED runtime
    BY <1>5 DEF WaitInfo, WaitRuntime, WaitEnds, Converged, Start, Goes, hubVars
  <2> QED
    BY <1>1, <1>2, <1>3, <2>1 DEF Waiting
<1> QED
  BY <1>4, <1>5

\* A failed attempt: the next one starts over, with evidence not accepted.
LEMMA Rejected ==
  ASSUME HubTyped, WatchInv, NEW retryable \in BOOLEAN, NEW evidence \in Evidence,
         evidence.verdict = "REJECTED", Reject(retryable, evidence),
         UNCHANGED <<hubVars, report>>, met' \in BOOLEAN
  PROVE  WatchInv'
<1>1. task \in Tasks /\ task.tries + 1 \in Nat
  BY DEF WatchInv, WatchTyped, Tasks
<1>2. ev' = evidence
      /\ \/ task' = [task EXCEPT !.pc = "info", !.tries = task.tries + 1]
         \/ task' = [task EXCEPT !.pc = "rest"]
  BY <1>1 DEF Reject, Tasks
<1>3. task' \in Tasks /\ task'.pc \in {"info", "rest"}
  BY <1>1, <1>2 DEF Tasks, Checking
<1>4. WatchTyped'
  BY <1>2, <1>3 DEF WatchInv, WatchTyped
<1> QED
  BY <1>2, <1>3, <1>4 DEF WatchInv, Witnessed, AcceptedCoherent, Checking, hubVars

\* So it is when a request has no answer.
LEMMA Unanswered ==
  ASSUME HubTyped, WatchInv, NoAnswer, ev.verdict = "REJECTED",
         UNCHANGED <<hubVars, report>>, met' \in BOOLEAN
  PROVE  WatchInv'
<1>1. PICK retryable \in BOOLEAN : Reject(retryable, ev)
  BY DEF NoAnswer
<1>2. ev \in Evidence
  BY DEF WatchInv, WatchTyped
<1> QED
  BY <1>1, <1>2, Rejected

\* An attempt comes to its next request knowing what Witnessed says there.
LEMMA Passed ==
  ASSUME HubTyped, WatchInv, NEW pc \in Checking \ {"info"}, Pass(pc, ev'), ev' \in Evidence,
         ev'.verdict = "REJECTED", UNCHANGED <<hubVars, report>>, met' \in BOOLEAN,
         ev'.revision \in 1..Tip,
         pc \in {"files", "witness", "final_info"} => met' \/ Tip > ev'.revision,
         pc = "final_stage" => met',
         pc \in {"witness", "final_info", "final_stage"} =>
           ev'.bytes = "ALIGNED" /\ ev'.compared = ev'.revision /\ tree[ev'.revision] = "ours",
         pc \in {"final_info", "final_stage"} => ev'.attested = ev'.revision
  PROVE  WatchInv'
<1>1. task \in Tasks /\ task' = [task EXCEPT !.pc = pc]
  BY DEF Pass, Goes, WatchInv, WatchTyped
<1>2. task' \in Tasks /\ task'.pc = pc
  BY <1>1 DEF Tasks
<1>3. WatchTyped'
  BY <1>2 DEF WatchInv, WatchTyped
<1>4. Tip' = Tip /\ tree' = tree /\ runtime' = runtime
  BY DEF Tip, hubVars
<1> QED
  BY <1>2, <1>3, <1>4 DEF WatchInv, Witnessed, AcceptedCoherent, Checking

LEMMA CheckBegun ==
  ASSUME HubTyped, WatchInv, DriftStart
  PROVE  WatchInv'
<1>1. /\ task.tries + 1 \in Nat /\ task' = [Resting EXCEPT !.pc = "info", !.tries = task.tries + 1]
      /\ ev' = NewEvidence /\ met' = FALSE /\ UNCHANGED <<runtime, report>>
  BY DEF WatchInv, WatchTyped, Tasks, DriftStart, Start, hubVars
<1>2. task' \in Tasks /\ task'.pc = "info"
  BY <1>1 DEF Tasks, Resting, Checking
<1>3. ev' \in Evidence /\ ev'.verdict = "REJECTED"
  BY <1>1 DEF NewEvidence, Evidence
<1>4. WatchTyped'
  BY <1>1, <1>2, <1>3 DEF WatchInv, WatchTyped
<1> QED
  BY <1>1, <1>2, <1>3, <1>4 DEF WatchInv, Witnessed, AcceptedCoherent, Checking

\* What holds of an attempt that has a revision.
LEMMA Established ==
  ASSUME HubTyped, WatchInv, task.pc \in Checking \ {"info"}
  PROVE  /\ ev \in Evidence /\ ev.verdict = "REJECTED" /\ met \in BOOLEAN /\ task \in Tasks
         /\ ev.revision \in 1..Tip /\ ev.revision \in Nat /\ runtime.built \in Nat
         /\ Tip \in Nat
<1>1. Tip \in Nat /\ runtime.built \in Nat
  BY DEF HubTyped, Tip
<1>2. ev \in Evidence /\ met \in BOOLEAN /\ task \in Tasks
  BY DEF WatchInv, WatchTyped
<1>3. ev.verdict = "REJECTED" /\ ev.revision \in 1..Tip
  BY DEF WatchInv, Witnessed
<1> QED
  BY <1>1, <1>2, <1>3

\* The tip is read, and becomes the attempt's revision.
LEMMA InfoRead ==
  ASSUME HubTyped, WatchInv, ProviderInfo
  PROVE  WatchInv'
<1>1. /\ ev \in Evidence /\ ev.verdict = "REJECTED" /\ met' = FALSE
      /\ UNCHANGED <<hubVars, report>>
  BY DEF WatchInv, WatchTyped, Witnessed, Checking, ProviderInfo, DriftReads, Is
<1>2. CASE NoAnswer
  BY <1>1, <1>2, Unanswered
<1>3. CASE tree # << >> /\ Pass("stage", [ev EXCEPT !.revision = Tip, !.stability = "OBSERVED"])
  <2>1. Tip \in 1..Tip /\ Tip \in Nat
    BY <1>3 DEF HubTyped, Tip
  <2>2. ev' = [ev EXCEPT !.revision = Tip, !.stability = "OBSERVED"]
    BY <1>3 DEF Pass
  <2>3. ev' \in Evidence
    BY <1>1, <2>1, <2>2 DEF Evidence
  <2>4. ev'.revision = Tip /\ ev'.verdict = "REJECTED"
    BY <1>1, <2>2 DEF Evidence
  <2>5. "stage" \in Checking \ {"info"}
    BY DEF Checking
  <2> QED
    BY <1>1, <1>3, <2>1, <2>2, <2>3, <2>4, <2>5, Passed
<1> QED
  BY <1>2, <1>3 DEF ProviderInfo

\* The runtime is read, at first and again at the end, when the evidence may be
\* accepted.
LEMMA StageRead ==
  ASSUME HubTyped, WatchInv, FirstStage \/ FinalStage
  PROVE  WatchInv'
<1>1. /\ ev \in Evidence /\ ev.verdict = "REJECTED" /\ met \in BOOLEAN /\ task \in Tasks
      /\ ev.revision \in 1..Tip /\ ev.revision \in Nat /\ runtime.built \in Nat
      /\ UNCHANGED <<hubVars, report>> /\ Tip \in Nat
  <2>1. task.pc \in {"stage", "final_stage"} /\ UNCHANGED <<hubVars, report>>
    BY DEF FirstStage, FinalStage, ProviderStage, DriftReads, Is
  <2> QED
    BY <2>1, Established DEF Checking
<1>2. PICK seen \in Evidence :
        /\ seen = [ev EXCEPT !.built = runtime.built, !.stage = "ACCEPTED"]
        /\ seen.built = runtime.built /\ seen.verdict = "REJECTED"
        /\ seen.revision = ev.revision /\ seen.bytes = ev.bytes /\ seen.compared = ev.compared
        /\ seen.attested = ev.attested
  <2> DEFINE seen == [ev EXCEPT !.built = runtime.built, !.stage = "ACCEPTED"]
  <2>1. seen \in Evidence
    BY <1>1 DEF Evidence
  <2>2. /\ seen.built = runtime.built /\ seen.verdict = "REJECTED"
        /\ seen.revision = ev.revision /\ seen.bytes = ev.bytes /\ seen.compared = ev.compared
        /\ seen.attested = ev.attested
    BY <1>1 DEF Evidence
  <2> QED
    BY <2>1, <2>2
<1>3. ASSUME NEW stage \in {"REJECTED", "REVISION_MISMATCH"}, NEW retryable \in BOOLEAN,
             Reject(retryable, [seen EXCEPT !.stage = stage]), UNCHANGED met
      PROVE  WatchInv'
  <2>1. [seen EXCEPT !.stage = stage] \in Evidence
    BY DEF Evidence
  <2>2. [seen EXCEPT !.stage = stage].verdict = "REJECTED"
    BY <1>2 DEF Evidence
  <2> QED
    BY <1>1, <1>3, <2>1, <2>2, Rejected
<1>4. CASE /\ FirstStage /\ ~(NoAnswer /\ UNCHANGED met)
          /\ runtime.stage = "RUNNING" /\ runtime.built = ev.revision
  <2>1. Pass("files", seen) /\ met' = (met \/ Tip = ev.revision)
    BY <1>2, <1>4 DEF FirstStage, ProviderStage
  <2>2. ev' = seen /\ met' \in BOOLEAN
    BY <1>1, <2>1 DEF Pass
  <2>3. met' \/ Tip > ev'.revision
    <3>1. Tip = ev.revision => met'
      BY <2>1, Zenon
    <3>2. Tip # ev.revision => Tip > ev'.revision
      BY <1>1, <1>2, <2>2
    <3> QED
      BY <3>1, <3>2
  <2>4. "files" \in Checking \ {"info"}
    BY DEF Checking
  <2> QED
    BY <1>1, <1>2, <2>1, <2>2, <2>3, <2>4, Passed
<1>5. CASE /\ FinalStage /\ ~(NoAnswer /\ UNCHANGED met)
          /\ runtime.stage = "RUNNING" /\ runtime.built = ev.revision
  <2>1. Pass("rest", [seen EXCEPT !.stability = "EXACT_STABLE", !.verdict = "ACCEPTED"])
        /\ met' = (met \/ Tip = ev.revision)
    BY <1>2, <1>5 DEF FinalStage, ProviderStage
  <2>2. /\ met /\ ev.bytes = "ALIGNED" /\ ev.compared = ev.revision
        /\ tree[ev.revision] = "ours" /\ ev.attested = ev.revision
    BY <1>5 DEF FinalStage, ProviderStage, DriftReads, Is, WatchInv, Witnessed
  <2>3. met' /\ met' \in BOOLEAN
    BY <2>1, <2>2
  <2>4. ev' = [seen EXCEPT !.stability = "EXACT_STABLE", !.verdict = "ACCEPTED"]
        /\ task' = [task EXCEPT !.pc = "rest"]
    BY <2>1 DEF Pass, Goes
  <2>5. ev' \in Evidence
    BY <2>4 DEF Evidence
  <2>6. /\ ev'.revision = ev.revision /\ ev'.built = runtime.built /\ ev'.bytes = ev.bytes
        /\ ev'.compared = ev.compared /\ ev'.attested = ev.attested
    BY <1>2, <2>4 DEF Evidence
  <2>7. task' \in Tasks /\ task'.pc = "rest"
    BY <1>1, <2>4 DEF Tasks
  <2>8. tree' = tree /\ Tip' = Tip /\ runtime' = runtime /\ report' = report
    BY <1>1 DEF hubVars, Tip
  <2>9. WatchTyped'
    BY <2>3, <2>5, <2>7, <2>8 DEF WatchInv, WatchTyped
  <2>10. Witnessed'
    BY <1>1, <2>6, <2>7, <2>8 DEF Witnessed, Checking
  <2>11. AcceptedCoherent'
    BY <1>5, <2>2, <2>3, <2>6, <2>8 DEF WatchInv, AcceptedCoherent
  <2> QED
    BY <2>9, <2>10, <2>11 DEF WatchInv
<1>6. CASE ~(NoAnswer /\ UNCHANGED met) /\ runtime.stage # "RUNNING"
  <2>1. /\ Reject(runtime.stage = "BUILDING", [seen EXCEPT !.stage = "REJECTED"])
        /\ UNCHANGED met
    BY <1>2, <1>6 DEF FirstStage, FinalStage, ProviderStage
  <2>2. (runtime.stage = "BUILDING") \in BOOLEAN
    OBVIOUS
  <2> QED
    BY <1>3, <2>1, <2>2
<1>7. CASE ~(NoAnswer /\ UNCHANGED met) /\ runtime.stage = "RUNNING" /\ runtime.built # ev.revision
  <2>1. Reject(TRUE, [seen EXCEPT !.stage = "REVISION_MISMATCH"]) /\ UNCHANGED met
    BY <1>2, <1>7 DEF FirstStage, FinalStage, ProviderStage
  <2> QED
    BY <1>3, <2>1
<1>8. CASE NoAnswer /\ UNCHANGED met
  BY <1>1, <1>8, Unanswered
<1> QED
  BY <1>4, <1>5, <1>6, <1>7, <1>8

\* The files of the revision are compared, and the container's own word is taken.
LEMMA FilesCompared ==
  ASSUME HubTyped, WatchInv, VerifyPublication \/ RuntimeWitness
  PROVE  WatchInv'
<1>1. /\ ev \in Evidence /\ ev.verdict = "REJECTED" /\ met' \in BOOLEAN /\ met' = met
      /\ ev.revision \in 1..Tip /\ ev.revision \in Nat /\ UNCHANGED <<hubVars, report>>
      /\ met \/ Tip > ev.revision
  BY DEF WatchInv, WatchTyped, Witnessed, Checking, VerifyPublication, RuntimeWitness,
     DriftReads, Is, Evidence
<1>2. CASE NoAnswer
  BY <1>1, <1>2, Unanswered
<1>3. ASSUME NEW bytes \in {"DRIFT", "ALIGNED"}
      PROVE  /\ [ev EXCEPT !.bytes = bytes, !.compared = ev.revision] \in Evidence
             /\ [ev EXCEPT !.bytes = bytes, !.compared = ev.revision].verdict = "REJECTED"
             /\ [ev EXCEPT !.bytes = bytes, !.compared = ev.revision].bytes = bytes
             /\ [ev EXCEPT !.bytes = bytes, !.compared = ev.revision].revision = ev.revision
             /\ [ev EXCEPT !.bytes = bytes, !.compared = ev.revision].compared = ev.revision
  <2>1. [ev EXCEPT !.bytes = bytes, !.compared = ev.revision] \in Evidence
    BY <1>1 DEF Evidence
  <2> QED
    BY <1>1, <2>1 DEF Evidence
<1>4. CASE VerifyPublication /\ ~NoAnswer
  <2>1. CASE tree[ev.revision] # "ours"
    <3>1. \/ Reject(FALSE, ev)
          \/ Reject(FALSE, [ev EXCEPT !.bytes = "DRIFT", !.compared = ev.revision])
      BY <1>4, <2>1 DEF VerifyPublication
    <3> QED
      BY <1>1, <1>3, <3>1, Rejected
  <2>2. CASE tree[ev.revision] = "ours"
    <3>1. Pass("witness", [ev EXCEPT !.bytes = "ALIGNED", !.compared = ev.revision])
      BY <1>4, <2>2 DEF VerifyPublication
    <3>2. ev' = [ev EXCEPT !.bytes = "ALIGNED", !.compared = ev.revision]
      BY <3>1 DEF Pass
    <3>3. /\ ev' \in Evidence /\ ev'.verdict = "REJECTED" /\ ev'.bytes = "ALIGNED"
          /\ ev'.revision = ev.revision /\ ev'.compared = ev.revision
      BY <1>3, <3>2
    <3>4. "witness" \in Checking \ {"info"} /\ Pass("witness", ev')
      BY <3>1, <3>2 DEF Checking
    <3> QED
      BY <1>1, <2>2, <3>3, <3>4, Passed
  <2> QED
    BY <2>1, <2>2
<1>5. CASE RuntimeWitness /\ ~NoAnswer
  <2>1. /\ ev.bytes = "ALIGNED" /\ ev.compared = ev.revision /\ tree[ev.revision] = "ours"
        /\ ev' = [ev EXCEPT !.attested = ev.revision] /\ Pass("final_info", ev')
    BY <1>5 DEF RuntimeWitness, DriftReads, Is, Pass, WatchInv, Witnessed
  <2>2. ev' \in Evidence
    BY <1>1, <2>1 DEF Evidence
  <2>3. /\ ev'.verdict = "REJECTED" /\ ev'.bytes = ev.bytes /\ ev'.compared = ev.compared
        /\ ev'.revision = ev.revision /\ ev'.attested = ev.revision
    BY <1>1, <2>1 DEF Evidence
  <2>4. "final_info" \in Checking \ {"info"}
    BY DEF Checking
  <2> QED
    BY <1>1, <2>1, <2>2, <2>3, <2>4, Passed
<1> QED
  BY <1>2, <1>4, <1>5

\* The tip is read again.  A revision that is still the tip has been the tip since
\* it was read, and so when the runtime was seen running it.
LEMMA InfoReread ==
  ASSUME HubTyped, WatchInv, FinalInfo
  PROVE  WatchInv'
<1>1. /\ ev \in Evidence /\ ev.verdict = "REJECTED" /\ met' \in BOOLEAN /\ met' = met
      /\ ev.revision \in 1..Tip /\ ev.revision \in Nat /\ Tip \in Nat
      /\ UNCHANGED <<hubVars, report>>
      /\ met \/ Tip > ev.revision
      /\ ev.bytes = "ALIGNED" /\ ev.compared = ev.revision /\ tree[ev.revision] = "ours"
      /\ ev.attested = ev.revision
  <2>1. task.pc = "final_info" /\ UNCHANGED <<hubVars, report, met>>
    BY DEF FinalInfo, DriftReads, Is
  <2>2. met' \in BOOLEAN /\ met' = met
    BY <2>1, Established DEF Checking
  <2> QED
    BY <2>1, <2>2, Established DEF WatchInv, Witnessed, Checking
<1>2. CASE NoAnswer
  BY <1>1, <1>2, Unanswered
<1>3. CASE Reject(TRUE, [ev EXCEPT !.stability = "CHANGED_DURING_WITNESS"])
  <2>1. [ev EXCEPT !.stability = "CHANGED_DURING_WITNESS"] \in Evidence
    BY <1>1 DEF Evidence
  <2>2. [ev EXCEPT !.stability = "CHANGED_DURING_WITNESS"].verdict = "REJECTED"
    BY <1>1 DEF Evidence
  <2> QED
    BY <1>1, <1>3, <2>1, <2>2, Rejected
<1>4. CASE Tip = ev.revision /\ Pass("final_stage", ev)
  <2>1. ev' = ev /\ Pass("final_stage", ev')
    BY <1>4 DEF Pass
  <2>2. "final_stage" \in Checking \ {"info"}
    BY DEF Checking
  <2>3. met'
    <3>1. ~(Tip > ev.revision)
      BY <1>1, <1>4
    <3> QED
      BY <1>1, <3>1, Zenon
  <2> QED
    BY <1>1, <2>1, <2>2, <2>3, Passed
<1> QED
  BY <1>2, <1>3, <1>4 DEF FinalInfo

LEMMA WatchKept ==
  ASSUME HubTyped, WatchInv, [Next]_vars
  PROVE  WatchInv'
<1>1. Grown
  BY HubGrows
<1>2. CASE UNCHANGED watchVars
  BY <1>1, <1>2, StillWitnessed DEF watchVars
<1>3. CASE Watch
  BY <1>1, <1>3, Deployed, CheckBegun, InfoRead, StageRead, FilesCompared, InfoReread
  DEF Watch, DriftCheck
<1> QED
  BY <1>2, <1>3 DEF Next, vars

-----------------------------------------------------------------------------
LEMMA InitInv ==
  ASSUME Init
  PROVE  IInv
<1>1. HubTyped /\ tree \in Seq(Contents)
  <2>1. \/ tree = << >>
        \/ \E content \in {"older", "foreign", "bare", "bootstrap"} : tree = <<content>>
    BY DEF Init, HubInit
  <2>2. ASSUME NEW content \in Contents
        PROVE  <<content>> \in Seq(Contents) /\ Len(<<content>>) = 1
    OBVIOUS
  <2>3. tree \in Seq(Contents) /\ Len(tree) \in Nat
    <3>1. {"older", "foreign", "bare", "bootstrap"} \subseteq Contents
      BY DEF Contents
    <3>2. << >> \in Seq(Contents) /\ Len(<< >>) = 0
      OBVIOUS
    <3> QED
      BY <2>1, <2>2, <3>1, <3>2
  <2> QED
    BY <2>3 DEF Init, HubInit, HubTyped, Stages
<1>2. PublisherInv
  BY DEF Init, PublisherInit, Idle, PublisherInv, PublisherTyped, Jobs, Places, Receipts, Phases,
     Claims, Statuses, Recorded, ReceiptHonest
<1>3. task \in Tasks /\ task.pc = "rest"
  BY DEF Init, WatchInit, Resting, Tasks
<1>4. ParentInv
  <2>1. job.pc = "idle"
    BY DEF Init, PublisherInit, Idle
  <2>2. Len(tree) \in {0, 1}
    BY DEF Init, HubInit
  <2> QED
    BY <1>3, <2>1, <2>2 DEF ParentInv, Admitted, Fresh, Looking, Filling, NothingLost, Tip
<1>5. WatchInv
  <2>1. ev \in Evidence /\ ev.verdict = "REJECTED"
    BY DEF Init, WatchInit, NewEvidence, Evidence
  <2>2. report \in Reports /\ report.state = "none" /\ met = FALSE
    BY DEF Init, WatchInit, Reports
  <2> QED
    BY <1>3, <2>1, <2>2 DEF WatchInv, WatchTyped, Witnessed, AcceptedCoherent, Checking
<1> QED
  BY <1>1, <1>2, <1>4, <1>5 DEF IInv

\* The inductive invariant of the publication of a Space: what each workflow knows
\* of the Hub is still true when it makes its next request, whoever acts between.
THEOREM Invariance == Spec => []IInv
<1>1. Init => IInv
  BY InitInv
<1>2. IInv /\ [Next]_vars => IInv'
  BY HubGrows, PublisherKept, ParentKept, WatchKept DEF IInv
<1> QED
  BY <1>1, <1>2, PTL DEF Spec

\* Wherever publish() is killed, its receipt claims neither more nor less than was
\* done, for any number of runs.
THEOREM ReceiptsAreHonest == Spec => []ReceiptHonest
<1>1. IInv => ReceiptHonest
  BY DEF IInv, PublisherInv
<1> QED
  BY <1>1, Invariance, PTL

\* No upload of publish() comes on top of files of others, for any number of
\* revisions, runs and other writers, but for the first one into a Space it has
\* created itself, whose parent it knows by the names of its files only.
THEOREM NothingWrittenOver == Spec => []NothingLost
<1>1. IInv => NothingLost
  BY DEF IInv, ParentInv
<1> QED
  BY <1>1, Invariance, PTL

\* Evidence the drift check accepts is of one revision, which was the Space's tip
\* and was running at one instant of the attempt; a converged wait is one the
\* runtime has come to.
THEOREM AcceptedIsCoherent == Spec => []AcceptedCoherent
<1>1. IInv => AcceptedCoherent
  BY DEF IInv, WatchInv
<1> QED
  BY <1>1, Invariance, PTL

\* No step of any workflow rewrites a revision, and the runtime never goes back.
THEOREM RevisionsImmutable == Spec => [][Grown]_vars
<1>1. IInv /\ [Next]_vars => Grown
  BY HubGrows DEF IInv
<1> QED
  BY <1>1, Invariance, PTL DEF Spec
=============================================================================
