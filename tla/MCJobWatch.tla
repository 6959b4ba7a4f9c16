----------------------------- MODULE MCJobWatch -----------------------------
(* The loops that poll a server, JobWatch and DeviceLogin, side by side:   *)
(* they share nothing, and every step is one of either.                    *)
EXTENDS JobWatch, DeviceLogin

PollInit == JobInit /\ DeviceInit

PollSpec ==
  /\ PollInit
  /\ [][\/ JobNext /\ UNCHANGED deviceVars
        \/ DeviceNext /\ UNCHANGED jobVars]_<<jobVars, deviceVars>>
  /\ WF_jobVars(ClientStep /\ client.pc # "events")
  /\ WF_deviceVars(DeviceClient) /\ WF_deviceVars(ExpireCode)
=============================================================================
