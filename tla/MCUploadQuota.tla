---------------------------- MODULE MCUploadQuota ----------------------------
(* Instances of UploadQuota.  The attempts of two uploads already overlap,    *)
(* die and return in every order.                                             *)
EXTENDS UploadQuota, TLC

\* Sound: nothing orders the uploads, and the runs check invariants.
MCSymmetry == Permutations(Uploads)
=============================================================================
