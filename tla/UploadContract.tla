--------------------------- MODULE UploadContract ---------------------------
(***************************************************************************)
(* What UploadArtifact (pkg/artifact.go) promises its callers, who print   *)
(* "Completed uploading" and record the artifact as the file's copy when   *)
(* it returns nil: the artifact then is the file and stays so.  While the  *)
(* call runs, and after it failed, the data only grows; nothing is         *)
(* promised of what it holds.                                              *)
(***************************************************************************)
EXTENDS Naturals, Sequences

CONSTANT Size

VARIABLES file, data, outcome

contractVars == <<file, data, outcome>>

ContractInit ==
  /\ data = <<>>
  /\ outcome = "pending"

\* t continues s.
Extends(s, t) ==
  /\ Len(s) <= Len(t)
  /\ \A i \in 1..Len(s) : t[i] = s[i]

IsCopy(s) ==
  /\ Len(s) = Size
  /\ \A i \in 1..Size : s[i] = file[i]

Transfer ==
  /\ outcome \in {"pending", "failed"}
  /\ Extends(data, data')
  /\ UNCHANGED <<file, outcome>>

Succeed ==
  /\ outcome = "pending"
  /\ IsCopy(data)
  /\ outcome' = "ok"
  /\ UNCHANGED <<file, data>>

Fail ==
  /\ outcome = "pending"
  /\ outcome' = "failed"
  /\ UNCHANGED <<file, data>>

ContractNext == Transfer \/ Succeed \/ Fail

ContractSpec == ContractInit /\ [][ContractNext]_contractVars
=============================================================================
