---------------------------- MODULE DatasetJobsMC ----------------------------
(***************************************************************************)
(* Small instances of DatasetJobs.  Jobs are interchangeable.              *)
(***************************************************************************)
EXTENDS DatasetJobs, TLC

JobSymmetry == Permutations(Jobs)
=============================================================================
