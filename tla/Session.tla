------------------------------- MODULE Session -------------------------------
(***************************************************************************)
(* The browser's session with the node: AuthProvider                        *)
(* (frontend/src/lib/auth-context.tsx), the token in localStorage and the   *)
(* 401 listener (lib/api.ts), the pairing page (app/auth/page.tsx) and the  *)
(* guard of the dashboard; and what the node answers                        *)
(* (backend/app/routes/pairing.py).                                         *)
(*                                                                         *)
(* GET /session is in flight for the heartbeat (or the mount), after a      *)
(* claim and after a tunnel restart; its answer is a snapshot of the node    *)
(* that may arrive late.  Tokens are numbered by the pairing that issued     *)
(* them, 0 is no token; a pairing may bring no key for a tunnel.  A          *)
(* navigation takes effect at once.  The pill, the views and the banners     *)
(* are what the two pages show of this state.                               *)
(***************************************************************************)
EXTENDS Naturals

CONSTANT MaxTokens   \* bound on pairings

ASSUME TokensAssumption == MaxTokens \in Nat \ {0}

VARIABLES
    page,             \* "auth" or "dashboard"
    isLoading, isPaired, isSessionExpired, isExpiringSoon,            \* AuthProvider
    tunnelStatus, tunnelReady,
    token,            \* localStorage's session_token
    gets,             \* per caller of refreshSession: its request
    submit,           \* handleAuthorize of the pairing form
    errorMessage,     \* the form has an error message
    restart,          \* restartTunnel
    calls,            \* tokens that authenticated requests in flight carry
    issued,           \* the node's credentials: the last pairing
    bare,             \* pairings that brought no tunnel token
    ending, expired,  \* tokens with less than a day to live, and with none
    tunnel            \* the node's tunnel status

bridge   == <<tunnelStatus, tunnelReady>>
context  == <<isLoading, isPaired, isSessionExpired, isExpiringSoon, bridge>>
browser  == <<page, context, token, errorMessage>>
requests == <<gets, submit, restart, calls>>
node     == <<issued, bare, ending, expired, tunnel>>
vars     == <<browser, requests, node>>

Callers  == {"beat", "claim", "restart"}
Tokens   == 1..MaxTokens
Statuses == {"unpaired", "starting", "ready", "failed"}

NoGet == [at |-> "none", token |-> 0, tunnel |-> "unpaired"]
Sent  == [NoGet EXCEPT !.at = "out"]

TypeOK ==
    /\ page \in {"auth", "dashboard"}
    /\ isLoading \in BOOLEAN /\ isPaired \in BOOLEAN
    /\ isSessionExpired \in BOOLEAN /\ isExpiringSoon \in BOOLEAN /\ errorMessage \in BOOLEAN
    /\ tunnelStatus \in Statuses /\ tunnelReady \in BOOLEAN
    /\ token \in 0..MaxTokens
    /\ gets \in [Callers -> [at : {"none", "out", "back"}, token : 0..MaxTokens,
                             tunnel : Statuses]]
    /\ submit \in {"idle", "claiming", "served", "refreshing"}
    /\ restart \in {"idle", "sent", "served", "refreshing"}
    /\ (submit = "refreshing") = (gets["claim"].at # "none")
    /\ (restart = "refreshing") = (gets["restart"].at # "none")
    /\ calls \subseteq 0..MaxTokens
    /\ issued \in 0..MaxTokens /\ bare \subseteq 1..issued
    /\ expired \subseteq ending /\ ending \subseteq 1..issued
    /\ tunnel \in Statuses /\ (tunnel = "unpaired" <=> 1..issued \subseteq bare)

\* AuthProvider's mount asks for the session.
Mounted == [c \in Callers |-> IF c = "beat" THEN Sent ELSE NoGet]

Init ==
    /\ page \in {"auth", "dashboard"}
    /\ isLoading = TRUE /\ isPaired = FALSE /\ isSessionExpired = FALSE /\ isExpiringSoon = FALSE
    /\ tunnelStatus = "unpaired" /\ tunnelReady = FALSE
    /\ token = 0 /\ errorMessage = FALSE
    /\ gets = Mounted /\ submit = "idle" /\ restart = "idle" /\ calls = {}
    /\ issued = 0 /\ bare = {} /\ ending = {} /\ expired = {} /\ tunnel = "unpaired"

-----------------------------------------------------------------------------
(* State formulae *)

isAuthenticated == isPaired /\ ~isSessionExpired /\ (tunnelReady \/ tunnelStatus = "ready")

\* What the pairing page offers: the form for a connection code, or what the tunnel does.
FormShown     == ~isPaired \/ isSessionExpired
StartingShown == isPaired /\ ~isSessionExpired /\ tunnelStatus = "starting"
FailedShown   == isPaired /\ ~isSessionExpired /\ tunnelStatus = "failed"

\* getStatusBadge: the pill above it.
Pill == CASE isSessionExpired -> "SESSION EXPIRED"
          [] ~isSessionExpired /\ tunnelStatus = "failed" -> "TUNNEL OFFLINE"
          [] ~isSessionExpired /\ tunnelStatus # "failed" /\ isPaired ->
               IF tunnelStatus = "starting" \/ ~tunnelReady THEN "SYNCHRONIZING" ELSE "NODE ONLINE"
          [] OTHER -> "NODE STANDBY"

\* The dashboard is on the screen, and its banner about the token's last day.
Rendered       == page = "dashboard" /\ ~isLoading /\ isPaired
ExpiringBanner == Rendered /\ ~isSessionExpired /\ isExpiringSoon

\* get_current_node_user answers 401.
Unauthorized(t) == t = 0 \/ t \in expired

-----------------------------------------------------------------------------
(* refreshSession *)

Ask(c) == gets' = [gets EXCEPT ![c] = Sent]

\* What becomes of the caller when refreshSession returns.
Returned(c) ==
    /\ gets' = [gets EXCEPT ![c] = NoGet]
    /\ submit' = IF c = "claim" THEN "idle" ELSE submit
    /\ restart' = IF c = "restart" THEN "idle" ELSE restart
    /\ isLoading' = FALSE
    /\ UNCHANGED <<calls, node>>

\* The node answers with its credentials and the tunnel's status.
Answered(c) ==
    /\ gets[c].at = "out"
    /\ gets' = [gets EXCEPT ![c] = [at |-> "back", token |-> issued,
                                    tunnel |-> IF issued = 0 THEN "unpaired" ELSE tunnel]]
    /\ UNCHANGED <<browser, submit, restart, calls, node>>

\* setSessionToken, or clearSessionToken of an answer without a pairing.
Stored(g) == g.token

\* checkTokenExpiry: of a token that came; without one, it is not called.
CheckTokenExpiry(t) ==
    /\ isSessionExpired' = (isSessionExpired \/ t \in expired)
    /\ isExpiringSoon' = IF t = 0 THEN isExpiringSoon ELSE t \in ending \ expired

\* Mutant of Kept: an answer without a pairing leaves the page paired.
KeptPaired(g) == isPaired \/ g.token # 0

\* isPaired after an answer.
Kept(g) == g.token # 0

\* The answer is applied; handleAuthorize goes to the dashboard if the tunnel is up.
Applied(c) ==
    LET g == gets[c] IN
    /\ g.at = "back"
    /\ token' = Stored(g)
    /\ isPaired' = Kept(g)
    /\ tunnelStatus' = g.tunnel /\ tunnelReady' = (g.tunnel = "ready")
    /\ CheckTokenExpiry(g.token)
    /\ page' = IF c = "claim" /\ g.token # 0 /\ g.tunnel = "ready" THEN "dashboard" ELSE page
    /\ UNCHANGED errorMessage
    /\ Returned(c)

\* Mutants of Failed: an error leaves the page loading; it leaves the caller waiting.
FailedLoading(c) ==
    /\ gets[c].at = "out"
    /\ gets' = [gets EXCEPT ![c] = NoGet]
    /\ submit' = IF c = "claim" THEN "idle" ELSE submit
    /\ restart' = IF c = "restart" THEN "idle" ELSE restart
    /\ UNCHANGED <<browser, calls, node>>
FailedWaiting(c) ==
    /\ gets[c].at = "out"
    /\ gets' = [gets EXCEPT ![c] = NoGet]
    /\ isLoading' = FALSE
    /\ UNCHANGED <<page, isPaired, isSessionExpired, isExpiringSoon, bridge, token, errorMessage,
                   submit, restart, calls, node>>

\* The request fails; what the node would have answered makes no difference.
Failed(c) ==
    /\ gets[c].at = "out"
    /\ Returned(c)
    /\ UNCHANGED <<page, isPaired, isSessionExpired, isExpiringSoon, bridge, token, errorMessage>>

\* Mutant of Beat: the interval runs only until the first answer.
BeatOnce ==
    /\ page = "auth" /\ isLoading
    /\ gets["beat"].at = "none"
    /\ Ask("beat")
    /\ UNCHANGED <<browser, submit, restart, calls, node>>

\* The pairing page asks every 2.8 s until the session is authenticated.
Beat ==
    /\ page = "auth" /\ ~isAuthenticated
    /\ gets["beat"].at = "none"
    /\ Ask("beat")
    /\ UNCHANGED <<browser, submit, restart, calls, node>>

-----------------------------------------------------------------------------
(* handleAuthorize *)

\* The form is submitted with a code; one claim or restart at a time (a bound).
HandleAuthorize ==
    /\ page = "auth" /\ FormShown /\ submit = "idle" /\ restart = "idle" /\ issued < MaxTokens
    /\ submit' = "claiming" /\ errorMessage' = FALSE
    /\ UNCHANGED <<page, context, token, gets, restart, calls, node>>

\* Central's answer has a tunnel token, and the workflow starts; or it has none.
TunnelStarts ==
    \/ tunnel' = "starting" /\ UNCHANGED bare
    \/ bare' = bare \cup {issued'} /\ UNCHANGED tunnel

\* The node has Central's answer: new credentials.
ClaimServed ==
    /\ submit = "claiming"
    /\ issued' = issued + 1 /\ TunnelStarts
    /\ submit' = "served"
    /\ UNCHANGED <<browser, gets, restart, calls, ending, expired>>

ClaimBack ==
    /\ submit = "served"
    /\ submit' = "refreshing" /\ Ask("claim")
    /\ UNCHANGED <<browser, restart, calls, node>>

\* Central's refusal is passed on with its status, a 401 too; or the answer is lost.
ClaimFails ==
    /\ \/ submit = "claiming" /\ isSessionExpired' \in {isSessionExpired, TRUE}
       \/ submit = "served" /\ UNCHANGED isSessionExpired
    /\ submit' = "idle" /\ errorMessage' = TRUE
    /\ UNCHANGED <<page, isLoading, isPaired, isExpiringSoon, bridge, token, gets,
                   restart, calls, node>>

-----------------------------------------------------------------------------
(* restartTunnel *)

RestartTunnel ==
    /\ page = "auth" /\ FailedShown
    /\ restart = "idle" /\ submit = "idle"
    /\ tunnelStatus' = "starting"
    /\ restart' = "sent"
    /\ UNCHANGED <<page, isLoading, isPaired, isSessionExpired, isExpiringSoon, tunnelReady,
                   token, errorMessage, gets, submit, calls, node>>

\* The node refuses it when its credentials have no tunnel token.
RestartServed ==
    /\ restart = "sent" /\ issued \notin bare
    /\ tunnel' = "starting"
    /\ restart' = "served"
    /\ UNCHANGED <<browser, gets, submit, calls, issued, bare, ending, expired>>

RestartBack ==
    /\ restart = "served"
    /\ restart' = "refreshing" /\ Ask("restart")
    /\ UNCHANGED <<browser, submit, calls, node>>

RestartFails ==
    /\ restart \in {"sent", "served"}
    /\ tunnelStatus' = "failed"
    /\ restart' = "idle"
    /\ UNCHANGED <<page, isLoading, isPaired, isSessionExpired, isExpiringSoon, tunnelReady,
                   token, errorMessage, gets, submit, calls, node>>

-----------------------------------------------------------------------------
(* Authenticated requests, navigation *)

\* The dashboard sends a request with the token of that moment; one at a time (a bound).
Call ==
    /\ Rendered /\ calls = {}
    /\ calls' = {token}
    /\ UNCHANGED <<browser, gets, submit, restart, node>>

\* fetchApi notifies a 401; a request may also fail otherwise.
CallReturns(t) ==
    /\ t \in calls
    /\ calls' = calls \ {t}
    /\ isSessionExpired' \in {isSessionExpired, isSessionExpired \/ Unauthorized(t)}
    /\ UNCHANGED <<page, isLoading, isPaired, isExpiringSoon, bridge, token, errorMessage, gets,
                   submit, restart, node>>

\* The form forgets its message with the page.
Go(p) == page' = p /\ errorMessage' = FALSE /\ UNCHANGED <<context, token, requests, node>>

\* The effects of the two pages.
RedirectIn  == page = "auth" /\ ~isLoading /\ isAuthenticated /\ Go("dashboard")
RedirectOut == page = "dashboard" /\ ~isLoading /\ ~isPaired /\ Go("auth")

\* "Re-pair Node" in the banner, and "Node Pairing Status" in the sidebar.
RePairNode        == Rendered /\ isSessionExpired /\ Go("auth")
NodePairingStatus == Rendered /\ Go("auth")

\* "Enter Local Dashboard" and "Continue locally without tunnel".
EnterLocally == page = "auth" /\ (StartingShown \/ FailedShown) /\ Go("dashboard")

\* The page is loaded again, while no claim or restart is out (a bound).
Reload ==
    /\ submit = "idle" /\ restart = "idle"
    /\ isLoading' = TRUE /\ isPaired' = FALSE /\ isSessionExpired' = FALSE
    /\ isExpiringSoon' = FALSE /\ errorMessage' = FALSE
    /\ tunnelStatus' = "unpaired" /\ tunnelReady' = FALSE
    /\ gets' = Mounted /\ calls' = {}
    /\ UNCHANGED <<page, token, submit, restart, node>>

-----------------------------------------------------------------------------
(* The node, and the specification *)

\* The tunnel workflow ends.
TunnelSettles ==
    /\ tunnel = "starting"
    /\ tunnel' \in {"ready", "failed"}
    /\ UNCHANGED <<browser, requests, issued, bare, ending, expired>>

Expire(t) ==
    /\ t \in 1..issued \ expired
    /\ ending' = ending \cup {t}
    /\ expired' = expired \cup (ending \cap {t})
    /\ UNCHANGED <<browser, requests, issued, bare, tunnel>>

Claim   == ClaimServed \/ ClaimBack \/ ClaimFails
Restart == RestartServed \/ RestartBack \/ RestartFails
User    == HandleAuthorize \/ RestartTunnel \/ RePairNode \/ NodePairingStatus \/ EnterLocally \/ Reload

Next ==
    \/ \E c \in Callers : Answered(c) \/ Applied(c) \/ Failed(c)
    \/ Beat \/ Claim \/ Restart \/ Call \/ User
    \/ \E t \in 0..MaxTokens : CallReturns(t)
    \/ RedirectIn \/ RedirectOut
    \/ TunnelSettles
    \/ \E t \in Tokens : Expire(t)

Spec == Init /\ [][Next]_vars

\* Requests end, effects run and the interval fires.  The node on the same machine
\* answers a heartbeat that is repeated for ever, and a user who reloads for ever lets
\* an answer arrive now and then.
Fairness ==
    /\ \A c \in Callers : WF_vars(Answered(c) \/ Failed(c)) /\ WF_vars(Applied(c))
    /\ SF_vars(Answered("beat")) /\ SF_vars(Applied("beat"))
    /\ WF_vars(Beat) /\ WF_vars(Claim) /\ WF_vars(Restart)
    /\ SF_vars(RedirectIn) /\ SF_vars(RedirectOut)

FairSpec == Spec /\ Fairness

-----------------------------------------------------------------------------
(* Properties *)

\* What the pages show hangs together, whatever answers of before and after a pairing or
\* a restart arrive in which order.  A page that thinks the node is paired has a token
\* to send.  The pairing page offers the form, a spinner or the failure with their ways
\* on, unless it is leaving for the dashboard; it is blank only under a pairing that
\* brought no tunnel.  The pill speaks of the view below it.  The amber banner is shown
\* for no token but one in its last day.
PagesHold ==
    /\ isPaired => token # 0
    /\ ~(FormShown \/ StartingShown \/ FailedShown \/ isAuthenticated) =>
           bare # {} /\ Pill = "SYNCHRONIZING"
    /\ Pill = "NODE STANDBY" => FormShown
    /\ Pill = "TUNNEL OFFLINE" => FailedShown \/ FormShown
    /\ ExpiringBanner => token \in ending

Online == issued # 0 /\ issued \notin expired /\ tunnel = "ready"

\* A user who waits at the pairing page of a node that is paired and online gets in,
\* however many heartbeats fail or bring old news, unless the session is marked expired.
SignsIn ==
    (page = "auth" /\ Online) ~> (isAuthenticated \/ isSessionExpired \/ page # "auth" \/ ~Online)

\* Nobody is left on the dashboard of a node that is not paired, even if the node
\* never answers.
LeavesDashboard == (page = "dashboard" /\ ~isPaired) ~> (page = "auth" \/ isPaired)

\* app/dashboard/page.tsx:277 "Session expired — please re-pair this node from the
\* central dashboard": the first answer with the fresh token of a second pairing and
\* the tunnel up signs the user in again.
RePairedStep ==
    \A c \in Callers :
        LET g == gets[c] IN
        (/\ g.at = "back" /\ gets'[c].at = "none" /\ token' = g.token
         /\ token # 0 /\ g.token > token /\ g.token \notin expired /\ g.tunnel = "ready")
        => isAuthenticated'
RePairingUnlocks == [][RePairedStep]_vars
=============================================================================
