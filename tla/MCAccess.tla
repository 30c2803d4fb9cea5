------------------------------ MODULE MCAccess ------------------------------
(***************************************************************************)
(* Getting access: a browser that signs in, works and signs out, and the   *)
(* pairing modal that makes a device the user's.  The two share no state;  *)
(* a behaviour is one of either.                                           *)
(***************************************************************************)
EXTENDS ConsoleSession, DevicePairing

VARIABLE at

AccessInit == at \in {"session", "pairing"} /\ Init /\ PairingInit

AccessNext ==
    \/ at = "session" /\ Next /\ UNCHANGED <<at, pairingVars>>
    \/ at = "pairing" /\ PairingNext /\ UNCHANGED <<at, vars>>

\* The routes answer and the browser goes where it is sent; the page goes on
\* asking.  The user may stop at any time.
SessionGoesOn(i) ==
    /\ at = "session" /\ UNCHANGED <<at, pairingVars>>
    /\ \/ i = 1 /\ RouteGoesOn("auth")
       \/ i = 2 /\ RouteGoesOn("page")
       \/ i = 3 /\ Arrive
       \/ i = 4 /\ LoginRedirect
       \/ i = 5 /\ Fetch("proxy")

\* The browser polls and receives answers, the control plane answers and its
\* cache entries expire.  The countdown is not relied on: a browser throttles
\* timers.
PairingGoesOn(i) ==
    /\ at = "pairing" /\ UNCHANGED <<at, vars>>
    /\ \/ i = 1 /\ PollRead
       \/ i = 2 /\ \E a \in polls : PollAnswer(a)
       \/ i = 3 /\ \E c \in confirms : ConfirmRoute(c)
       \/ i = 4 /\ \E c \in confirms : ConfirmAnswer(c)
       \/ i = 5 /\ \E s \in inits : InitAnswer(s)
       \/ i = 6 /\ SessionExpires(1)
       \/ i = 7 /\ SessionExpires(2)

AccessSpec ==
    /\ AccessInit /\ [][AccessNext]_<<at, vars, pairingVars>>
    /\ \A i \in 1 .. 7 : WF_<<at, vars, pairingVars>>(SessionGoesOn(i) \/ PairingGoesOn(i))

-----------------------------------------------------------------------------
\* AuthContext stops loading: no page waits for ever to know who is signed in.
LoadingEnds == []<>(at = "session" => ~loading)
=============================================================================
