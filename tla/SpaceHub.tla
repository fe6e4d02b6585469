------------------------------ MODULE SpaceHub ------------------------------
(***************************************************************************)
(* The Hub as the publication scripts use it: a Space is a repository      *)
(* whose revisions are immutable and only grow, a visibility, and a        *)
(* runtime that follows the repository in its own time.  Other writers may *)
(* commit at any moment, within MaxRevisions.                              *)
(***************************************************************************)
EXTENDS Naturals, Sequences

CONSTANT MaxRevisions  \* bound on commits

\* What the files of a revision are: of this source; an earlier release of this
\* publisher, exact; the Hub's system commit; the scaffold of the recorded failed
\* creation; anything else with no file but .gitattributes and README.md; any
\* other files.
Contents == {"ours", "older", "system", "bootstrap", "bare", "foreign"}
Stages == {"RUNNING", "BUILDING", "RUNTIME_ERROR"}

VARIABLES
  space,    \* "control" or "router": the Space this behaviour is about
  tree,     \* the contents of its revisions, << >> when it does not exist
  private,  \* its visibility
  runtime   \* [built, stage, live]: what the runtime API says, and who answers

hubVars == <<space, tree, private, runtime>>

Tip == Len(tree)

HubInit ==
  /\ space \in {"control", "router"}
  /\ tree \in {<< >>, <<"older">>, <<"foreign">>, <<"bare">>, <<"bootstrap">>}
  /\ private \in BOOLEAN
  /\ runtime = [built |-> 0, stage |-> "BUILDING", live |-> 0]

Commit(content) == tree' = Append(tree, content) /\ UNCHANGED <<space, private, runtime>>

OtherCommit ==
  /\ tree # << >> /\ Tip < MaxRevisions
  /\ \E content \in {"older", "bare", "foreign"} : Commit(content)

\* The runtime comes to a newer revision or another stage; the container that
\* answers may still be the one before.
Rebuild ==
  /\ \E built \in runtime.built..Tip, stage \in Stages :
       \E live \in {runtime.live, built} :
         runtime' = [built |-> built, stage |-> stage, live |-> live]
  /\ UNCHANGED <<space, tree, private>>

HubStep == OtherCommit \/ Rebuild
=============================================================================
