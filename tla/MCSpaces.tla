------------------------------ MODULE MCSpaces ------------------------------
(***************************************************************************)
(* Up to three revisions, two runs of the control Space's publisher, three *)
(* runs or attempts of the public Space's workflows, any commit and any    *)
(* rebuild between their requests.                                         *)
(***************************************************************************)
EXTENDS Spaces
=============================================================================
