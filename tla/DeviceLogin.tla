----------------------------- MODULE DeviceLogin -----------------------------
(***************************************************************************)
(* `ivcap login` (cmd/login.go): a device code is requested, and the token *)
(* endpoint is polled until the user has approved it in a browser, or the  *)
(* provider says that there is no point in going on.  The command itself   *)
(* watches no clock.  What it does with the tokens is in ContextStore.     *)
(***************************************************************************)
EXTENDS Naturals

CONSTANT MaxInterval     \* seconds, where doubling the interval is cut off

ASSUME IntervalAssumption == MaxInterval \in Nat \ {0}

VARIABLES
  code,    \* the device code at the provider
  login    \* locals of the command

deviceVars == <<code, login>>

DeviceInit ==
  /\ code = "none"
  /\ login = [pc |-> "request", interval |-> 0, result |-> "none"]

DeviceStep(pc, result) ==
  login' = [login EXCEPT !.pc = pc, !.result = result]

\* requestDeviceCode; a reply without interval leaves it 0.
RequestDeviceCode ==
  /\ login.pc = "request"
  /\ \/ /\ code' = "pending"
        /\ \E interval \in 0..1 :
             login' = [login EXCEPT !.pc = "poll", !.interval = interval]
     \/ DeviceStep("done", "failed") /\ code' \in {"none", "pending"}

\* Mutant: the loop goes on after any error.
ToleratedEver == {"authorization_pending", "slow_down", "expired_token",
                  "access_denied", "invalid_grant"}

\* An error is given as 403, which getTokenResponse lets pass, or as another
\* status: 400 ends the login, 429 is tried again by the adapter first.
Tolerated == {"authorization_pending", "slow_down"}

\* What the token endpoint says of the code.
Errors ==
  CASE code = "pending"  -> {"authorization_pending", "slow_down"}
    [] code = "denied"   -> {"access_denied"}
    [] code = "expired"  -> {"expired_token"}
    [] code = "redeemed" -> {"invalid_grant"}
    [] OTHER -> {}

\* getTokenResponse and waitForTokens: the provider gives the tokens once; when
\* that reply is lost, the request is sent again and refused.
TokensGranted ==
  /\ login.pc = "poll" /\ code = "approved"
  /\ code' = "redeemed"
  /\ DeviceStep("done", "tokens") \/ UNCHANGED login

ErrorReturned ==
  /\ login.pc = "poll"
  /\ \E error \in Errors :
       IF error \in Tolerated
       THEN login' = [login EXCEPT
              !.pc = "sleep",
              !.interval = IF error = "slow_down" /\ 2 * @ <= MaxInterval
                           THEN 2 * @ ELSE @]
       ELSE DeviceStep("done", "failed")
  /\ UNCHANGED code

RequestFails ==
  /\ login.pc = "poll"
  /\ DeviceStep("done", "failed")
  /\ UNCHANGED code

PollAgain ==
  /\ login.pc = "sleep"
  /\ DeviceStep("poll", login.result)
  /\ UNCHANGED code

\* The user answers, or the code runs out.
Decide ==
  /\ code = "pending" /\ code' \in {"approved", "denied"}
  /\ UNCHANGED login

ExpireCode ==
  /\ code \in {"pending", "approved"} /\ code' = "expired"
  /\ UNCHANGED login

DeviceClient ==
  RequestDeviceCode \/ TokensGranted \/ ErrorReturned \/ RequestFails \/ PollAgain

DeviceNext == DeviceClient \/ Decide \/ ExpireCode

\* The command runs on, and the provider lets codes run out.
DeviceSpec ==
  /\ DeviceInit /\ [][DeviceNext]_deviceVars
  /\ WF_deviceVars(DeviceClient) /\ WF_deviceVars(ExpireCode)

-----------------------------------------------------------------------------

\* The login ends although its loop has no limit of its own (waitForTokens
\* leaves the expiry to the provider): whatever is answered before, refusals
\* and tokens get through.
LoginEnds == login.pc = "poll" ~> login.pc = "done"
=============================================================================
