---------------------------- MODULE ClientProofs ----------------------------
(***************************************************************************)
(* Proofs about the two components of the client that ask the node for one   *)
(* small thing at a time: Session, for any number of pairings, and the      *)
(* share dialog, ShareModal, for any files, access levels and numbers of    *)
(* requests and timers.                                                     *)
(*                                                                         *)
(* Session: the type invariant, which ties the node's tunnel to its         *)
(* pairings and the pending callers to their requests, and that what the    *)
(* pages show hangs together.  The inductive invariant says what an answer  *)
(* on its way may bring (Snapshots) and what was stored of one              *)
(* (Remembered): no token that the node has not issued, and no tunnel       *)
(* "unpaired" beside a token but after a pairing that brought no key for    *)
(* one.                                                                    *)
(*                                                                         *)
(* ShareModal: the type invariant, and that the link on display and the one*)
(* in the clipboard are of the user's choice.  Behind it stand three facts *)
(* about the time since the last change of the choice: which requests are  *)
(* heeded (Current), what they left on display (Displayed), and what was   *)
(* copied of it (Copying).                                                 *)
(***************************************************************************)
EXTENDS Session, ShareModal, TLAPS

\* An answer on its way is of some moment of the node.
Snapshots ==
    \A c \in Callers :
        /\ gets[c].token <= issued
        /\ gets[c].token # 0 /\ gets[c].tunnel = "unpaired" => bare # {}

\* What the page remembers came from such an answer.
Remembered ==
    /\ token <= issued
    /\ isPaired => token # 0
    /\ isPaired /\ tunnelStatus = "unpaired" => bare # {}
    /\ isPaired /\ isExpiringSoon => token \in ending
    /\ restart # "idle" => issued # 0

\* A claim is sent only while the bound leaves room for its pairing.
Room == submit = "claiming" => issued < MaxTokens

IInv == TypeOK /\ Snapshots /\ Remembered /\ Room

\* TypeOK, variable by variable, as the browser, the requests and the node change.
BrowserTypes ==
    /\ page \in {"auth", "dashboard"}
    /\ isLoading \in BOOLEAN /\ isPaired \in BOOLEAN
    /\ isSessionExpired \in BOOLEAN /\ isExpiringSoon \in BOOLEAN /\ errorMessage \in BOOLEAN
    /\ tunnelStatus \in Statuses /\ tunnelReady \in BOOLEAN
    /\ token \in 0..MaxTokens

RequestTypes ==
    /\ gets \in [Callers -> [at : {"none", "out", "back"}, token : 0..MaxTokens,
                             tunnel : Statuses]]
    /\ submit \in {"idle", "claiming", "served", "refreshing"}
    /\ restart \in {"idle", "sent", "served", "refreshing"}
    /\ (submit = "refreshing") = (gets["claim"].at # "none")
    /\ (restart = "refreshing") = (gets["restart"].at # "none")
    /\ calls \subseteq 0..MaxTokens

NodeTypes ==
    /\ issued \in 0..MaxTokens /\ bare \subseteq 1..issued
    /\ expired \subseteq ending /\ ending \subseteq 1..issued
    /\ tunnel \in Statuses /\ (tunnel = "unpaired" <=> 1..issued \subseteq bare)

LEMMA TypeParts == TypeOK <=> BrowserTypes /\ RequestTypes /\ NodeTypes
BY Zenon DEF TypeOK, BrowserTypes, RequestTypes, NodeTypes

USE TokensAssumption DEF Callers, Statuses, Tokens

-----------------------------------------------------------------------------
(* Initial states *)

LEMMA InitIInv == Init => IInv
<1> SUFFICES ASSUME Init PROVE IInv
  OBVIOUS
<1>1. BrowserTypes
  <2>1. 0 \in 0..MaxTokens
    OBVIOUS
  <2> QED
    BY <2>1, Zenon DEF Init, BrowserTypes
<1>2. NodeTypes
  <2>1. 1..0 = {}
    OBVIOUS
  <2>2. /\ issued = 0 /\ bare = {} /\ ending = {} /\ expired = {} /\ tunnel = "unpaired"
    BY DEF Init
  <2>3. issued \in 0..MaxTokens /\ 1..issued = {}
    BY <2>1, <2>2
  <2> QED
    BY <2>2, <2>3 DEF NodeTypes
<1>3. RequestTypes
  BY DEF Init, RequestTypes, Mounted, Sent, NoGet
<1>4. Snapshots
  BY DEF Init, Snapshots, Mounted, Sent, NoGet
<1>5. Remembered /\ Room
  BY DEF Init, Remembered, Room
<1> QED
  BY <1>1, <1>2, <1>3, <1>4, <1>5, TypeParts DEF IInv

-----------------------------------------------------------------------------
(* The answers to refreshSession *)

LEMMA ReturnedTypes ==
    ASSUME RequestTypes, NEW c \in Callers, Returned(c), gets[c].at # "none"
    PROVE  /\ RequestTypes'
           /\ restart' # "idle" => restart # "idle"
           /\ submit' = "claiming" => submit = "claiming"
BY DEF RequestTypes, Returned, NoGet

LEMMA AnsweredStep == ASSUME IInv, NEW c \in Callers, Answered(c) PROVE IInv'
<1>1. BrowserTypes /\ RequestTypes /\ NodeTypes
  BY TypeParts DEF IInv
<1>2. UNCHANGED <<browser, submit, restart, calls, node>>
  BY DEF Answered
<1>3. BrowserTypes' /\ NodeTypes'
  BY <1>1, <1>2 DEF browser, context, bridge, node, BrowserTypes, NodeTypes
<1>4. RequestTypes'
  BY <1>1, <1>2 DEF Answered, RequestTypes, NodeTypes
<1>5. Snapshots'
  BY <1>1, <1>2 DEF Answered, IInv, Snapshots, NodeTypes, RequestTypes, node
<1>6. Remembered'
  BY <1>2 DEF IInv, Remembered, browser, context, bridge, node
<1>7. TypeOK'
  BY <1>3, <1>4, TypeParts, PTL
<1>8. Room'
  BY <1>2 DEF IInv, Room, node
<1> QED
  BY <1>5, <1>6, <1>7, <1>8 DEF IInv

LEMMA AppliedStep == ASSUME IInv, NEW c \in Callers, Applied(c) PROVE IInv'
<1>1. BrowserTypes /\ RequestTypes /\ NodeTypes
  BY TypeParts DEF IInv
<1>2. /\ gets[c].at = "back" /\ Returned(c) /\ UNCHANGED <<errorMessage, calls, node>>
      /\ isLoading' = FALSE /\ gets' = [gets EXCEPT ![c] = NoGet]
  BY DEF Applied, Returned
<1>3. /\ NodeTypes' /\ RequestTypes' /\ (restart' # "idle" => restart # "idle") /\ Room'
  BY <1>1, <1>2, ReturnedTypes DEF node, NodeTypes, IInv, Room
<1>4. gets[c].token \in 0..MaxTokens /\ gets[c].tunnel \in Statuses
  BY <1>1 DEF RequestTypes
<1>5. BrowserTypes'
  <2>1. /\ page \in {"auth", "dashboard"} /\ isExpiringSoon \in BOOLEAN /\ errorMessage \in BOOLEAN
    BY <1>1 DEF BrowserTypes
  <2>2. page' \in {"auth", "dashboard"}
    BY <2>1 DEF Applied
  <2>3. token' \in 0..MaxTokens /\ tunnelStatus' \in Statuses
    BY <1>4 DEF Applied, Stored
  <2>4. /\ isPaired' \in BOOLEAN /\ tunnelReady' \in BOOLEAN /\ errorMessage' \in BOOLEAN
        /\ isSessionExpired' \in BOOLEAN /\ isLoading' \in BOOLEAN
    BY <1>2, <2>1, Zenon DEF Applied, Kept, CheckTokenExpiry
  <2>5. isExpiringSoon' = IF gets[c].token = 0 THEN isExpiringSoon ELSE gets[c].token \in ending \ expired
    BY DEF Applied, CheckTokenExpiry
  <2>6. isExpiringSoon' \in BOOLEAN
    <3>1. CASE gets[c].token = 0
      BY <2>1, <2>5, <3>1
    <3>2. CASE gets[c].token # 0
      <4>1. isExpiringSoon' = (gets[c].token \in ending \ expired)
        BY <2>5, <3>2
      <4>2. (gets[c].token \in ending \ expired) \in BOOLEAN
        BY SMT
      <4> QED
        BY <4>1, <4>2, Zenon
    <3> QED
      BY <3>1, <3>2
  <2> QED
    BY <2>2, <2>3, <2>4, <2>6, Zenon DEF BrowserTypes
<1>6. Snapshots'
  BY <1>1, <1>2 DEF IInv, Snapshots, RequestTypes, NodeTypes, node, NoGet
<1>7. Remembered'
  <2>1. /\ token' = gets[c].token /\ isPaired' = (gets[c].token # 0) /\ tunnelStatus' = gets[c].tunnel
        /\ isExpiringSoon' = IF gets[c].token = 0 THEN isExpiringSoon
                             ELSE gets[c].token \in ending \ expired
        /\ issued' = issued /\ bare' = bare /\ ending' = ending
    BY <1>2 DEF Applied, Stored, Kept, CheckTokenExpiry, node
  <2>2. gets[c].token <= issued /\ (gets[c].token # 0 /\ gets[c].tunnel = "unpaired" => bare # {})
    BY DEF IInv, Snapshots
  <2>3. restart' # "idle" => issued' # 0
    BY <1>3, <2>1 DEF IInv, Remembered
  <2>4. isPaired' => token' # 0
    BY <2>1
  <2>5. isPaired' /\ isExpiringSoon' => token' \in ending'
    BY <2>1
  <2>6. isPaired' /\ tunnelStatus' = "unpaired" => bare' # {}
    BY <2>1, <2>2
  <2> QED
    BY <2>1, <2>2, <2>3, <2>4, <2>5, <2>6 DEF Remembered
<1>8. TypeOK'
  BY <1>3, <1>5, TypeParts, PTL
<1> QED
  BY <1>3, <1>6, <1>7, <1>8 DEF IInv

LEMMA FailedStep == ASSUME IInv, NEW c \in Callers, Failed(c) PROVE IInv'
<1>1. BrowserTypes /\ RequestTypes /\ NodeTypes
  BY TypeParts DEF IInv
<1>2. /\ gets[c].at = "out" /\ Returned(c) /\ isLoading' = FALSE
      /\ gets' = [gets EXCEPT ![c] = NoGet]
      /\ UNCHANGED <<page, isPaired, isSessionExpired, isExpiringSoon, bridge, token, errorMessage, node>>
  BY DEF Failed, Returned
<1>3. /\ NodeTypes' /\ RequestTypes' /\ (restart' # "idle" => restart # "idle") /\ Room'
  BY <1>1, <1>2, ReturnedTypes DEF node, NodeTypes, IInv, Room
<1>4. BrowserTypes'
  BY <1>1, <1>2 DEF BrowserTypes, bridge
<1>5. Snapshots'
  BY <1>1, <1>2 DEF IInv, Snapshots, RequestTypes, NodeTypes, node, NoGet
<1>6. Remembered'
  BY <1>2, <1>3 DEF IInv, Remembered, bridge, node
<1>7. TypeOK'
  BY <1>3, <1>4, TypeParts, PTL
<1> QED
  BY <1>3, <1>5, <1>6, <1>7 DEF IInv

-----------------------------------------------------------------------------
(* Requests are sent *)

LEMMA AskTypes ==
    ASSUME RequestTypes, Snapshots, NodeTypes, NEW c \in Callers, Ask(c), issued' = issued, bare' = bare
    PROVE  /\ gets' \in [Callers -> [at : {"none", "out", "back"}, token : 0..MaxTokens,
                                     tunnel : Statuses]]
           /\ gets'[c].at # "none" /\ \A d \in Callers \ {c} : gets'[d] = gets[d]
           /\ Snapshots'
BY DEF RequestTypes, Snapshots, NodeTypes, Ask, Sent, NoGet

LEMMA AskingStep ==
    ASSUME IInv, Beat \/ ClaimBack \/ RestartBack
    PROVE  IInv'
<1>1. BrowserTypes /\ RequestTypes /\ NodeTypes /\ Snapshots /\ Remembered
  BY TypeParts DEF IInv
<1>2. UNCHANGED <<browser, calls, node>>
  BY DEF Beat, ClaimBack, RestartBack
<1>3. BrowserTypes' /\ NodeTypes'
  BY <1>1, <1>2 DEF browser, context, bridge, node, BrowserTypes, NodeTypes
<1>4. RequestTypes' /\ Snapshots'
  <2>1. issued' = issued /\ bare' = bare
    BY <1>2 DEF node
  <2>2. CASE Beat
    BY <1>1, <1>2, <2>1, <2>2, AskTypes DEF Beat, RequestTypes
  <2>3. CASE ClaimBack
    BY <1>1, <1>2, <2>1, <2>3, AskTypes DEF ClaimBack, RequestTypes
  <2>4. CASE RestartBack
    BY <1>1, <1>2, <2>1, <2>4, AskTypes DEF RestartBack, RequestTypes
  <2> QED
    BY <2>2, <2>3, <2>4
<1>5. Remembered' /\ Room'
  BY <1>1, <1>2 DEF Beat, ClaimBack, RestartBack, Remembered, browser, context, bridge, node, IInv, Room
<1>6. TypeOK'
  BY <1>3, <1>4, TypeParts, PTL
<1> QED
  BY <1>4, <1>5, <1>6 DEF IInv

-----------------------------------------------------------------------------
(* The form, the restart, and the rest of the browser *)

\* A step that leaves token, pairing and the answers on their way alone.
LEMMA KeepsFacts ==
    ASSUME Snapshots, Remembered, NodeTypes,
           \/ UNCHANGED <<isPaired, tunnelStatus, isExpiringSoon>>
           \/ isPaired' = FALSE
           \/ UNCHANGED <<isPaired, isExpiringSoon>> /\ tunnelStatus' # "unpaired",
           token' = token, gets' = gets, issued' = issued, bare' = bare, ending' = ending,
           restart' # "idle" => issued # 0
    PROVE  Snapshots' /\ Remembered'
BY DEF Snapshots, Remembered

LEMMA FormStep ==
    ASSUME IInv, HandleAuthorize \/ ClaimFails \/ RestartTunnel \/ RestartFails
    PROVE  IInv'
<1>1. BrowserTypes /\ RequestTypes /\ NodeTypes /\ Snapshots /\ Remembered
  BY TypeParts DEF IInv
<1>2. /\ UNCHANGED <<page, isLoading, isPaired, isExpiringSoon, tunnelReady, token, gets, calls, node>>
      /\ tunnelStatus' \in {tunnelStatus, "starting", "failed"}
  BY DEF HandleAuthorize, ClaimFails, RestartTunnel, RestartFails, context, bridge
<1>3. BrowserTypes'
  BY <1>1, <1>2 DEF HandleAuthorize, ClaimFails, RestartTunnel, RestartFails, BrowserTypes, context, bridge
<1>4. RequestTypes'
  BY <1>1, <1>2 DEF HandleAuthorize, ClaimFails, RestartTunnel, RestartFails, RequestTypes
<1>5. NodeTypes'
  BY <1>1, <1>2 DEF NodeTypes, node
<1>6. restart' # "idle" => issued # 0
  <2>1. CASE RestartTunnel
    <3>1. token # 0 /\ token <= issued /\ token \in 0..MaxTokens
      BY <1>1, <2>1, Zenon DEF RestartTunnel, FailedShown, Remembered, BrowserTypes
    <3> QED
      BY <1>1, <3>1 DEF NodeTypes
  <2>2. CASE HandleAuthorize \/ ClaimFails \/ RestartFails
    BY <1>1, <2>2 DEF HandleAuthorize, ClaimFails, RestartFails, Remembered
  <2> QED
    BY <2>1, <2>2
<1>7. Snapshots' /\ Remembered'
  BY <1>1, <1>2, <1>6, KeepsFacts DEF node
<1>8. TypeOK'
  BY <1>3, <1>4, <1>5, TypeParts, PTL
<1>9. Room'
  BY <1>2 DEF HandleAuthorize, ClaimFails, RestartTunnel, RestartFails, IInv, Room, TypeOK, node
<1> QED
  BY <1>7, <1>8, <1>9 DEF IInv

LEMMA RequestStep ==
    ASSUME IInv, Call \/ \E t \in 0..MaxTokens : CallReturns(t)
    PROVE  IInv'
<1>1. BrowserTypes /\ RequestTypes /\ NodeTypes /\ Snapshots /\ Remembered
  BY TypeParts DEF IInv
<1>2. UNCHANGED <<page, isLoading, isPaired, isExpiringSoon, bridge, token, errorMessage, gets,
                  submit, restart, node>>
      /\ isSessionExpired' \in BOOLEAN /\ calls' \subseteq 0..MaxTokens
  <2>1. CASE Call
    BY <1>1, <2>1 DEF Call, browser, context, BrowserTypes, RequestTypes
  <2>2. ASSUME NEW t \in 0..MaxTokens, CallReturns(t)
        PROVE  UNCHANGED <<page, isLoading, isPaired, isExpiringSoon, bridge, token, errorMessage,
                           gets, submit, restart, node>>
               /\ isSessionExpired' \in BOOLEAN /\ calls' \subseteq 0..MaxTokens
    <3>1. (isSessionExpired \/ Unauthorized(t)) \in BOOLEAN
      OBVIOUS
    <3>2. isSessionExpired \in BOOLEAN
      BY <1>1 DEF BrowserTypes
    <3>3. isSessionExpired' \in BOOLEAN
      BY <2>2, <3>1, <3>2, Zenon DEF CallReturns
    <3> QED
      BY <1>1, <2>2, <3>3 DEF CallReturns, RequestTypes
  <2> QED
    BY <2>1, <2>2
<1>3. BrowserTypes' /\ RequestTypes' /\ NodeTypes'
  BY <1>1, <1>2 DEF bridge, node, BrowserTypes, RequestTypes, NodeTypes
<1>4. Snapshots' /\ Remembered' /\ Room'
  BY <1>1, <1>2, KeepsFacts DEF node, bridge, Remembered, IInv, Room
<1>5. TypeOK'
  BY <1>3, TypeParts, PTL
<1> QED
  BY <1>4, <1>5 DEF IInv

LEMMA NavigationStep ==
    ASSUME IInv, RedirectIn \/ RedirectOut \/ RePairNode \/ NodePairingStatus \/ EnterLocally
    PROVE  IInv'
<1>1. BrowserTypes /\ RequestTypes /\ NodeTypes /\ Snapshots /\ Remembered
  BY TypeParts DEF IInv
<1>2. /\ page' \in {"auth", "dashboard"} /\ errorMessage' = FALSE
      /\ UNCHANGED <<context, token, requests, node>>
  BY DEF RedirectIn, RedirectOut, RePairNode, NodePairingStatus, EnterLocally, Go
<1>3. BrowserTypes' /\ RequestTypes' /\ NodeTypes'
  <2>1. BrowserTypes'
    BY <1>1, <1>2 DEF context, bridge, BrowserTypes
  <2>2. RequestTypes'
    BY <1>1, <1>2 DEF requests, RequestTypes
  <2>3. NodeTypes'
    BY <1>1, <1>2 DEF node, NodeTypes
  <2> QED
    BY <2>1, <2>2, <2>3
<1>4. Snapshots' /\ Remembered' /\ Room'
  BY <1>1, <1>2, KeepsFacts DEF node, context, requests, bridge, Remembered, IInv, Room
<1>5. TypeOK'
  BY <1>3, TypeParts, PTL
<1> QED
  BY <1>4, <1>5 DEF IInv

LEMMA ReloadStep == ASSUME IInv, Reload PROVE IInv'
<1>1. BrowserTypes /\ RequestTypes /\ NodeTypes /\ Snapshots /\ Remembered
  BY TypeParts DEF IInv
<1>2. BrowserTypes'
  BY <1>1 DEF Reload, BrowserTypes
<1>3. NodeTypes'
  BY <1>1 DEF Reload, NodeTypes, node
<1>4. RequestTypes'
  BY <1>1 DEF Reload, RequestTypes, Mounted, Sent, NoGet
<1>5. Snapshots'
  BY <1>1 DEF Reload, Snapshots, Mounted, Sent, NoGet, node, NodeTypes
<1>6. Remembered' /\ Room'
  BY <1>1 DEF Reload, Remembered, node, IInv, Room
<1>7. TypeOK'
  BY <1>2, <1>3, <1>4, TypeParts, PTL
<1> QED
  BY <1>5, <1>6, <1>7 DEF IInv

-----------------------------------------------------------------------------
(* The node *)

\* What the node forgets of nothing keeps every answer and every memory of it true.
LEMMA NodeGrows ==
    ASSUME Snapshots, Remembered, NodeTypes, RequestTypes, BrowserTypes, UNCHANGED <<browser, gets>>,
           issued' \in {issued, issued + 1}, bare \subseteq bare', ending \subseteq ending',
           restart' # "idle" => restart # "idle"
    PROVE  Snapshots' /\ Remembered'
<1>1. issued \in Nat /\ issued <= issued' /\ (issued # 0 => issued' # 0)
  BY DEF NodeTypes
<1>2. /\ token' = token /\ isPaired' = isPaired /\ tunnelStatus' = tunnelStatus
      /\ isExpiringSoon' = isExpiringSoon /\ gets' = gets
  BY DEF browser, context, bridge
<1>3. token \in Nat /\ \A c \in Callers : gets[c].token \in Nat
  BY DEF BrowserTypes, RequestTypes
<1>4. issued' \in Nat
  BY <1>1
<1>5. Snapshots'
  BY <1>1, <1>2, <1>3, <1>4 DEF Snapshots
<1>6. Remembered'
  BY <1>1, <1>2, <1>3, <1>4 DEF Remembered
<1> QED
  BY <1>5, <1>6

LEMMA ClaimServedStep == ASSUME IInv, ClaimServed PROVE IInv'
<1>1. BrowserTypes /\ RequestTypes /\ NodeTypes /\ Snapshots /\ Remembered
  BY TypeParts DEF IInv
<1>2. /\ submit = "claiming" /\ submit' = "served" /\ issued' = issued + 1
      /\ UNCHANGED <<browser, gets, restart, calls, ending, expired>>
      /\ \/ tunnel' = "starting" /\ bare' = bare
         \/ bare' = bare \cup {issued'} /\ tunnel' = tunnel
  BY DEF ClaimServed, TunnelStarts
<1>3. BrowserTypes'
  BY <1>1, <1>2 DEF browser, context, bridge, BrowserTypes
<1>4. RequestTypes'
  BY <1>1, <1>2 DEF RequestTypes
<1>5. issued \in Nat /\ issued' \in 0..MaxTokens /\ Room'
  BY <1>1, <1>2 DEF NodeTypes, IInv, Room
<1>6. NodeTypes'
  <2>1. 1..issued' = 1..issued \cup {issued'} /\ issued' \notin 1..issued
    BY <1>2, <1>5
  <2>2. bare' \subseteq 1..issued' /\ expired' \subseteq ending' /\ ending' \subseteq 1..issued'
    BY <1>1, <1>2, <2>1 DEF NodeTypes
  <2>3. tunnel' \in Statuses /\ (tunnel' = "unpaired" <=> 1..issued' \subseteq bare')
    BY <1>1, <1>2, <2>1 DEF NodeTypes
  <2> QED
    BY <1>5, <2>2, <2>3 DEF NodeTypes
<1>7. Snapshots' /\ Remembered'
  BY <1>1, <1>2, NodeGrows
<1>8. TypeOK'
  BY <1>3, <1>4, <1>6, TypeParts, PTL
<1> QED
  BY <1>5, <1>7, <1>8 DEF IInv

LEMMA NodeStep ==
    ASSUME IInv, RestartServed \/ TunnelSettles \/ \E t \in Tokens : Expire(t)
    PROVE  IInv'
<1>1. BrowserTypes /\ RequestTypes /\ NodeTypes /\ Snapshots /\ Remembered
  BY TypeParts DEF IInv
<1>2. /\ UNCHANGED <<browser, gets, submit, calls, issued, bare>>
      /\ ending \subseteq ending' /\ (restart' # "idle" => restart # "idle")
  BY DEF RestartServed, TunnelSettles, Expire, requests
<1>3. BrowserTypes'
  BY <1>1, <1>2 DEF browser, context, bridge, BrowserTypes
<1>4. RequestTypes'
  BY <1>1, <1>2 DEF RestartServed, TunnelSettles, Expire, requests, RequestTypes
<1>5. NodeTypes'
  <2>1. CASE RestartServed
    <3>1. issued # 0 /\ issued \notin bare /\ issued \in Nat
      BY <1>1, <2>1 DEF RestartServed, Remembered, NodeTypes
    <3>2. issued \in 1..issued
      BY <3>1
    <3> QED
      BY <1>1, <1>2, <2>1, <3>1, <3>2 DEF RestartServed, NodeTypes
  <2>2. CASE TunnelSettles
    BY <1>1, <1>2, <2>2 DEF TunnelSettles, NodeTypes
  <2>3. CASE \E t \in Tokens : Expire(t)
    BY <1>1, <1>2, <2>3 DEF Expire, NodeTypes
  <2> QED
    BY <2>1, <2>2, <2>3
<1>6. Snapshots' /\ Remembered'
  BY <1>1, <1>2, NodeGrows
<1>7. Room'
  BY <1>2 DEF IInv, Room
<1>8. TypeOK'
  BY <1>3, <1>4, <1>5, TypeParts, PTL
<1> QED
  BY <1>6, <1>7, <1>8 DEF IInv

-----------------------------------------------------------------------------
(* Theorems *)

LEMMA NextIInv == IInv /\ [Next]_vars => IInv'
<1> SUFFICES ASSUME IInv, [Next]_vars PROVE IInv'
  OBVIOUS
<1>1. CASE \E c \in Callers : Answered(c) \/ Applied(c) \/ Failed(c)
  BY <1>1, AnsweredStep, AppliedStep, FailedStep
<1>2. CASE Beat \/ ClaimBack \/ RestartBack
  BY <1>2, AskingStep
<1>3. CASE HandleAuthorize \/ ClaimFails \/ RestartTunnel \/ RestartFails
  BY <1>3, FormStep
<1>4. CASE Call \/ \E t \in 0..MaxTokens : CallReturns(t)
  BY <1>4, RequestStep
<1>5. CASE RedirectIn \/ RedirectOut \/ RePairNode \/ NodePairingStatus \/ EnterLocally
  BY <1>5, NavigationStep
<1>6. CASE Reload
  BY <1>6, ReloadStep
<1>7. CASE ClaimServed
  BY <1>7, ClaimServedStep
<1>8. CASE RestartServed \/ TunnelSettles \/ \E t \in Tokens : Expire(t)
  BY <1>8, NodeStep
<1>9. CASE UNCHANGED vars
  BY <1>9 DEF vars, browser, context, bridge, requests, node, IInv, TypeOK, Snapshots, Remembered, Room
<1> QED
  BY <1>1, <1>2, <1>3, <1>4, <1>5, <1>6, <1>7, <1>8, <1>9, Zenon DEF Next, Claim, Restart, User

LEMMA Inductive == Spec => []IInv
BY InitIInv, NextIInv, PTL DEF Spec

\* The state has its type: a form that waits for refreshSession has its request out,
\* and the node says "unpaired" exactly when no pairing has brought a tunnel.
THEOREM TypeCorrect == Spec => []TypeOK
<1>1. IInv => TypeOK
  BY DEF IInv
<1> QED
  BY <1>1, Inductive, PTL

\* What the two pages show hangs together, for any number of pairings and whatever
\* answers come in which order.
THEOREM PagesConsistent == Spec => []PagesHold
<1>1. ASSUME IInv PROVE PagesHold
  <2>1. BrowserTypes /\ Remembered
    BY <1>1, TypeParts DEF IInv
  <2>2. isPaired => token # 0
    BY <2>1 DEF Remembered
  <2>3. ASSUME ~(FormShown \/ StartingShown \/ FailedShown \/ isAuthenticated)
        PROVE  bare # {} /\ Pill = "SYNCHRONIZING"
    <3>1. isPaired /\ ~isSessionExpired /\ tunnelStatus = "unpaired" /\ ~tunnelReady
      BY <2>1, <2>3 DEF BrowserTypes, FormShown, StartingShown, FailedShown, isAuthenticated
    <3>2. Pill = "SYNCHRONIZING"
      BY <3>1 DEF Pill
    <3> QED
      BY <2>1, <3>1, <3>2 DEF Remembered
  <2>4. Pill = "NODE STANDBY" => FormShown
    BY <2>1 DEF BrowserTypes, Pill, FormShown
  <2>5. Pill = "TUNNEL OFFLINE" => FailedShown \/ FormShown
    BY <2>1 DEF BrowserTypes, Pill, FailedShown, FormShown
  <2>6. ExpiringBanner => token \in ending
    BY <2>1 DEF ExpiringBanner, Rendered, Remembered
  <2> QED
    BY <2>2, <2>3, <2>4, <2>5, <2>6 DEF PagesHold
<1> QED
  BY <1>1, Inductive, PTL

-----------------------------------------------------------------------------
(* The share dialog *)

HIDE TokensAssumption DEF Callers, Statuses, Tokens

\* Unless a Retry was out when the choice changed, no answer to an earlier choice is heeded.
Current ==
    ~crossed =>
        \A s \in Slots : shares[s].by = "retry" => shares[s].file = file /\ shares[s].level = accessLevel

\* A link is on display when an answer has come since.
Displayed == LinkShown /\ ~crossed => shareData = Chosen

\* What is being copied, or was, is that link.
Copying ==
    ~crossed /\ ~outlived =>
        /\ writing \in {NoLink, Chosen}
        /\ copied => clipboard = Chosen

ShareIInv == ShareTypeOK /\ Current /\ Displayed /\ Copying

\* ShareTypeOK in two parts: the requests under their choice, and what is on the screen.
ShareAskTypes ==
    /\ open \in BOOLEAN /\ file \in Files \cup {None} /\ accessLevel \in Levels
    /\ open => file # None
    /\ shares \in [Slots -> ShareAsk \cup {NoAsk}]
    /\ \A s \in Slots : shares[s].by = "effect" =>
           /\ open /\ shares[s].file = file /\ shares[s].level = accessLevel
           /\ \A t \in Slots \ {s} : shares[t].by # "effect"

ScreenTypes ==
    /\ shareData \in Link \cup {NoLink} /\ error \in BOOLEAN /\ linkLoading \in BOOLEAN
    /\ copied \in BOOLEAN /\ timers \in 0..MaxTimers /\ (copied => timers > 0)
    /\ writing \in Link \cup {NoLink} /\ clipboard \in Link \cup {NoLink}
    /\ crossed \in BOOLEAN /\ outlived \in BOOLEAN

LEMMA ShareTypeParts == ShareTypeOK <=> ShareAskTypes /\ ScreenTypes
BY Zenon DEF ShareTypeOK, ShareAskTypes, ScreenTypes

USE ShareAssumption

-----------------------------------------------------------------------------
(* Lemmas *)

\* Cancelling changes who is heeded, and nothing else.
LEMMA CancelledIs ==
    ASSUME ShareAskTypes
    PROVE  /\ Cancelled \in [Slots -> ShareAsk \cup {NoAsk}]
           /\ \A s \in Slots : /\ Cancelled[s].by # "effect"
                               /\ Cancelled[s].by = "retry" => shares[s].by = "retry"
<1> SUFFICES ASSUME NEW s \in Slots
             PROVE  /\ Cancelled[s] \in ShareAsk \cup {NoAsk} /\ Cancelled[s].by # "effect"
                    /\ Cancelled[s].by = "retry" => shares[s].by = "retry"
  BY DEF Cancelled
<1>1. shares[s] \in ShareAsk \cup {NoAsk}
  BY DEF ShareAskTypes
<1>2. CASE shares[s].by = "effect"
  <2>1. shares[s] \in ShareAsk
    BY <1>1, <1>2 DEF NoAsk
  <2>2. Cancelled[s] = [shares[s] EXCEPT !.by = "cancelled"]
    BY <1>2 DEF Cancelled
  <2>3. Cancelled[s] \in ShareAsk /\ Cancelled[s].by = "cancelled"
    BY <2>1, <2>2 DEF ShareAsk
  <2> QED
    BY <2>3
<1>3. CASE shares[s].by # "effect"
  BY <1>1, <1>3 DEF Cancelled
<1> QED
  BY <1>2, <1>3

\* A request that is made asks for the choice.
LEMMA AskForIs ==
    ASSUME NEW cs \in [Slots -> ShareAsk \cup {NoAsk}], NEW by \in {"effect", "retry"}, AskFor(cs, by),
           file' \in Files, accessLevel' \in Levels
    PROVE  /\ shares' \in [Slots -> ShareAsk \cup {NoAsk}]
           /\ \E s \in Slots :
                 /\ shares[s] = NoAsk
                 /\ shares'[s] = [file |-> file', level |-> accessLevel', by |-> by]
                 /\ \A t \in Slots \ {s} : shares'[t] = cs[t]
<1>1. PICK s \in Slots : /\ shares[s] = NoAsk
                         /\ shares' = [cs EXCEPT ![s] = [file |-> file', level |-> accessLevel', by |-> by]]
  BY DEF AskFor
<1>2. [file |-> file', level |-> accessLevel', by |-> by] \in ShareAsk
  BY DEF ShareAsk
<1> QED
  BY <1>1, <1>2

\* An answered slot is free; the others are as they were.
LEMMA AnsweredIs ==
    ASSUME ShareAskTypes, NEW s \in Slots, Settled(s)
    PROVE  /\ shares' \in [Slots -> ShareAsk \cup {NoAsk}] /\ shares'[s].by = "none"
           /\ \A t \in Slots \ {s} : shares'[t] = shares[t]
BY DEF ShareAskTypes, Settled, NoAsk

\* The place of the link chosen is none while no file is.
LEMMA ChosenIs ==
    ShareAskTypes /\ open => Chosen \in Link /\ Chosen # NoLink
BY DEF ShareAskTypes, Chosen, Link, NoLink

-----------------------------------------------------------------------------
(* The choice changes *)

LEMMA InitShareIInv == ShareInit => ShareIInv
<1> SUFFICES ASSUME ShareInit PROVE ShareIInv
  OBVIOUS
<1>1. ShareAskTypes
  BY DEF ShareInit, ShareAskTypes, NoAsk
<1>2. ScreenTypes
  <2>1. 0 \in 0..MaxTimers
    OBVIOUS
  <2> QED
    BY <2>1, Zenon DEF ShareInit, ScreenTypes
<1>3. Current /\ Displayed /\ Copying
  BY DEF ShareInit, Current, NoAsk, Displayed, LinkShown, Copying
<1> QED
  BY <1>1, <1>2, <1>3, ShareTypeParts DEF ShareIInv

LEMMA EffectStep ==
    ASSUME ShareIInv, Effect, open' \in BOOLEAN, file' \in Files \cup {None}, accessLevel' \in Levels,
           open' => file' # None
    PROVE  ShareIInv'
<1>1. ShareAskTypes /\ ScreenTypes
  BY ShareTypeParts DEF ShareIInv
<1>2. crossed' = (\E s \in Slots : shares[s].by = "retry")
  BY DEF Effect
<1>3. /\ shares' \in [Slots -> ShareAsk \cup {NoAsk}]
      /\ ~crossed' => \A s \in Slots : shares'[s].by # "retry"
      /\ \A s \in Slots : shares'[s].by = "effect" =>
             /\ open' /\ shares'[s].file = file' /\ shares'[s].level = accessLevel'
             /\ \A t \in Slots \ {s} : shares'[t].by # "effect"
  <2>1. CASE ~open'
    BY <1>1, <1>2, <2>1, CancelledIs DEF Effect
  <2>2. CASE open'
    <3>1. AskFor(Cancelled, "effect") /\ file' \in Files
      BY <2>2 DEF Effect
    <3>2. PICK s \in Slots :
             /\ shares'[s] = [file |-> file', level |-> accessLevel', by |-> "effect"]
             /\ \A t \in Slots \ {s} : shares'[t] = Cancelled[t]
      BY <1>1, <3>1, CancelledIs, AskForIs
    <3>3. shares' \in [Slots -> ShareAsk \cup {NoAsk}]
      BY <1>1, <3>1, CancelledIs, AskForIs
    <3>4. ~crossed' => \A t \in Slots : shares'[t].by # "retry"
      BY <1>1, <1>2, <3>2, CancelledIs
    <3>5. \A t \in Slots \ {s} : shares'[t].by # "effect"
      BY <1>1, <3>2, CancelledIs
    <3> QED
      BY <2>2, <3>2, <3>3, <3>4, <3>5
  <2> QED
    BY <2>1, <2>2
<1>4. ShareAskTypes'
  BY <1>3 DEF ShareAskTypes
<1>5. ScreenTypes'
  <2>1. /\ timers' = timers /\ clipboard' = clipboard /\ writing' = writing
        /\ shareData' \in {shareData, NoLink} /\ error' = FALSE
    BY DEF Effect
  <2>2. shareData' \in Link \cup {NoLink}
    BY <1>1, <2>1 DEF ScreenTypes
  <2>3. copied' \in BOOLEAN /\ linkLoading' \in BOOLEAN /\ (copied' => timers' > 0)
    <3>1. linkLoading \in BOOLEAN /\ copied \in BOOLEAN /\ (copied => timers > 0)
      BY <1>1 DEF ScreenTypes
    <3>2. /\ (copied' = FALSE \/ copied' = copied)
          /\ (linkLoading' = TRUE \/ linkLoading' = linkLoading)
      BY DEF Effect
    <3>3. linkLoading' \in BOOLEAN /\ copied' \in BOOLEAN
      BY <3>1, <3>2, Zenon
    <3>4. copied' => timers > 0
      BY <3>1, <3>2, Zenon
    <3> QED
      BY <2>1, <3>3, <3>4
  <2>4. outlived' \in BOOLEAN
    BY Zenon DEF Effect
  <2>5. crossed' \in BOOLEAN
    BY <1>2, Zenon
  <2> QED
    BY <1>1, <2>1, <2>2, <2>3, <2>4, <2>5, Zenon DEF ScreenTypes
<1>6. Current'
  BY <1>3 DEF Current
<1>7. Displayed'
  BY DEF Effect, Displayed, LinkShown
<1>8. Copying'
  <2>1. ~outlived' => ~copied' /\ writing' = NoLink
    BY Zenon DEF Effect
  <2> QED
    BY <2>1 DEF Copying
<1>9. ShareTypeOK'
  BY <1>4, <1>5, ShareTypeParts, PTL
<1> QED
  BY <1>6, <1>7, <1>8, <1>9 DEF ShareIInv

LEMMA ChoiceStep == ASSUME ShareIInv, Open \/ Close \/ SetAccessLevel PROVE ShareIInv'
<1>1. open \in BOOLEAN /\ file \in Files \cup {None} /\ accessLevel \in Levels /\ (open => file # None)
  BY ShareTypeParts DEF ShareIInv, ShareAskTypes
<1>2. CASE Open
  BY <1>1, <1>2, EffectStep DEF Open
<1>3. CASE Close
  BY <1>1, <1>3, EffectStep DEF Close
<1>4. CASE SetAccessLevel
  BY <1>1, <1>4, EffectStep DEF SetAccessLevel
<1> QED
  BY <1>2, <1>3, <1>4

-----------------------------------------------------------------------------
(* Requests *)

LEMMA RetryStep == ASSUME ShareIInv, Retry PROVE ShareIInv'
<1>1. ShareAskTypes /\ ScreenTypes
  BY ShareTypeParts DEF ShareIInv
<1>2. /\ open' = open /\ file' = file /\ accessLevel' = accessLevel /\ linkLoading' = TRUE
      /\ error' = FALSE /\ shareData' = shareData
      /\ UNCHANGED <<copied, writing, clipboard, timers, crossed, outlived>>
      /\ file \in Files /\ AskFor(shares, "retry")
  BY <1>1 DEF Retry, choice, copy, ShareAskTypes
<1>3. PICK s \in Slots : /\ shares'[s] = [file |-> file', level |-> accessLevel', by |-> "retry"]
                         /\ \A t \in Slots \ {s} : shares'[t] = shares[t]
  BY <1>1, <1>2, AskForIs DEF ShareAskTypes
<1>4. shares' \in [Slots -> ShareAsk \cup {NoAsk}]
  BY <1>1, <1>2, AskForIs DEF ShareAskTypes
<1>5. ShareAskTypes'
  BY <1>1, <1>2, <1>3, <1>4 DEF ShareAskTypes
<1>6. ScreenTypes'
  BY <1>1, <1>2, Zenon DEF ScreenTypes
<1>7. Current'
  BY <1>2, <1>3 DEF ShareIInv, Current
<1>8. Displayed'
  BY <1>2 DEF Displayed, LinkShown
<1>9. Copying'
  BY <1>2 DEF ShareIInv, Copying, Chosen
<1>10. ShareTypeOK'
  BY <1>5, <1>6, ShareTypeParts, PTL
<1> QED
  BY <1>7, <1>8, <1>9, <1>10 DEF ShareIInv

LEMMA AnswerStep == ASSUME ShareIInv, NEW s \in Slots, Shared(s) \/ ShareFails(s) PROVE ShareIInv'
<1>1. ShareAskTypes /\ ScreenTypes
  BY ShareTypeParts DEF ShareIInv
<1>2. /\ shares[s] # NoAsk /\ Settled(s)
      /\ UNCHANGED <<open, file, accessLevel, copied, writing, clipboard, timers, crossed, outlived>>
  BY DEF Shared, ShareFails, choice, copy
<1>3. shares[s] \in ShareAsk
  BY <1>1, <1>2 DEF ShareAskTypes
<1>4. ShareAskTypes'
  BY <1>1, <1>2, AnsweredIs DEF ShareAskTypes
<1>5. Current'
  BY <1>1, <1>2, AnsweredIs DEF ShareIInv, Current
<1>6. Heeded(s) /\ ~crossed => shares[s].file = file /\ shares[s].level = accessLevel
  BY <1>1 DEF ShareIInv, Current, Heeded, ShareAskTypes
<1>7. Copying'
  BY <1>2 DEF ShareIInv, Copying, Chosen
<1>8. ScreenTypes' /\ Displayed'
  <2>1. CASE ~Heeded(s)
    <3>1. UNCHANGED <<shareData, linkLoading, error>>
      BY <2>1 DEF Shared, ShareFails
    <3>2. ScreenTypes'
      BY <1>1, <1>2, <3>1, Zenon DEF ScreenTypes
    <3> QED
      BY <1>2, <3>1, <3>2 DEF ShareIInv, Displayed, LinkShown, Chosen
  <2>2. CASE Shared(s) /\ Heeded(s)
    <3>1. /\ shareData' = [file |-> shares[s].file, level |-> shares[s].level]
          /\ linkLoading' = FALSE /\ error' = error
      BY <2>2 DEF Shared
    <3>2. shareData' \in Link
      BY <1>3, <3>1 DEF ShareAsk, Link
    <3>3. ScreenTypes'
      BY <1>1, <1>2, <3>1, <3>2, Zenon DEF ScreenTypes
    <3>4. Displayed'
      BY <1>2, <1>6, <2>2, <3>1 DEF Displayed, Chosen
    <3> QED
      BY <3>3, <3>4
  <2>3. CASE ShareFails(s) /\ Heeded(s)
    <3>1. error' = TRUE /\ linkLoading' = FALSE /\ shareData' = shareData
      BY <2>3 DEF ShareFails
    <3>2. ScreenTypes'
      BY <1>1, <1>2, <3>1, Zenon DEF ScreenTypes
    <3> QED
      BY <3>1, <3>2 DEF Displayed, LinkShown
  <2> QED
    BY <2>1, <2>2, <2>3
<1>9. ShareTypeOK'
  BY <1>4, <1>8, ShareTypeParts, PTL
<1> QED
  BY <1>5, <1>7, <1>8, <1>9 DEF ShareIInv

-----------------------------------------------------------------------------
(* The clipboard *)

LEMMA CopyStep ==
    ASSUME ShareIInv, HandleCopy \/ Written \/ NotWritten \/ CopiedTimeout
    PROVE  ShareIInv'
<1>1. ShareAskTypes /\ ScreenTypes
  BY ShareTypeParts DEF ShareIInv
<1>2. UNCHANGED <<open, file, accessLevel, shareData, error, linkLoading, shares, crossed, outlived>>
  BY DEF HandleCopy, Written, NotWritten, CopiedTimeout, choice, display
<1>3. ShareAskTypes' /\ Current'
  BY <1>1, <1>2 DEF ShareAskTypes, ShareIInv, Current
<1>4. Displayed'
  BY <1>2 DEF ShareIInv, Displayed, LinkShown, Chosen
<1>5. /\ shareData \in Link \cup {NoLink} /\ writing \in Link \cup {NoLink}
      /\ clipboard \in Link \cup {NoLink}
      /\ timers \in Nat /\ timers <= MaxTimers
  BY <1>1 DEF ScreenTypes
<1>6. /\ writing' \in {writing, NoLink, shareData}
      /\ clipboard' \in {clipboard, writing, shareData}
      /\ \/ copied' = copied /\ timers' = timers
         \/ copied' = TRUE /\ timers' = timers + 1 /\ timers < MaxTimers
         \/ copied' = FALSE /\ timers' = timers - 1 /\ timers > 0
  BY DEF HandleCopy, Written, NotWritten, CopiedTimeout, SayCopied, copy
<1>7. ScreenTypes'
  <2>1. timers' \in 0..MaxTimers
    BY <1>5, <1>6
  <2>2. copied \in BOOLEAN /\ (copied => timers > 0)
    BY <1>1 DEF ScreenTypes
  <2>3. copied' \in BOOLEAN
    BY <1>6, <2>2, Zenon
  <2>4. copied' => timers' > 0
    <3>1. CASE copied' = copied /\ timers' = timers
      BY <2>2, <3>1, Zenon
    <3>2. CASE timers' = timers + 1
      BY <1>5, <3>2
    <3>3. CASE copied' = FALSE
      BY <3>3, Zenon
    <3> QED
      BY <1>6, <3>1, <3>2, <3>3
  <2>5. writing' \in Link \cup {NoLink} /\ clipboard' \in Link \cup {NoLink}
    BY <1>5, <1>6
  <2> QED
    BY <1>1, <1>2, <2>1, <2>3, <2>4, <2>5, Zenon DEF ScreenTypes
<1>8. Copying'
  <2> SUFFICES ASSUME ~crossed, ~outlived
               PROVE  writing' \in {NoLink, Chosen} /\ (copied' => clipboard' = Chosen)
    BY <1>2 DEF Copying, Chosen
  <2>1. writing \in {NoLink, Chosen} /\ (copied => clipboard = Chosen)
    BY DEF ShareIInv, Copying
  <2>2. CASE HandleCopy
    <3>1. shareData = Chosen
      BY <2>2 DEF HandleCopy, ShareIInv, Displayed
    <3> QED
      BY <2>1, <2>2, <3>1 DEF HandleCopy
  <2>3. CASE Written
    BY <2>1, <2>3 DEF Written
  <2>4. CASE NotWritten
    <3>1. LinkShown => shareData = Chosen /\ shareData # NoLink
      BY <1>1, ChosenIs DEF ShareIInv, Displayed, LinkShown
    <3> QED
      BY <2>1, <2>4, <3>1 DEF NotWritten
  <2>5. CASE CopiedTimeout
    BY <2>1, <2>5 DEF CopiedTimeout
  <2> QED
    BY <2>2, <2>3, <2>4, <2>5
<1>9. ShareTypeOK'
  BY <1>3, <1>7, ShareTypeParts, PTL
<1> QED
  BY <1>3, <1>4, <1>8, <1>9 DEF ShareIInv

-----------------------------------------------------------------------------
(* Theorems *)

LEMMA NextShareIInv == ShareIInv /\ [ShareNext]_shareVars => ShareIInv'
<1> SUFFICES ASSUME ShareIInv, [ShareNext]_shareVars PROVE ShareIInv'
  OBVIOUS
<1>1. CASE Open \/ Close \/ SetAccessLevel
  BY <1>1, ChoiceStep
<1>2. CASE Retry
  BY <1>2, RetryStep
<1>3. CASE HandleCopy \/ Written \/ NotWritten \/ CopiedTimeout
  BY <1>3, CopyStep
<1>4. CASE \E s \in Slots : ShareAnswers(s)
  BY <1>4, AnswerStep DEF ShareAnswers
<1>5. CASE UNCHANGED shareVars
  <2>1. UNCHANGED <<open, file, accessLevel, shareData, error, linkLoading, shares, copied, writing,
                    clipboard, timers, crossed, outlived>>
    BY <1>5 DEF shareVars, choice, display, copy
  <2>2. ShareAskTypes' /\ ScreenTypes'
    BY <2>1, ShareTypeParts DEF ShareIInv, ShareAskTypes, ScreenTypes
  <2>3. Current' /\ Displayed' /\ Copying'
    BY <2>1 DEF ShareIInv, Current, Displayed, LinkShown, Copying, Chosen
  <2>4. ShareTypeOK'
    BY <2>2, ShareTypeParts, PTL
  <2> QED
    BY <2>3, <2>4 DEF ShareIInv
<1> QED
  BY <1>1, <1>2, <1>3, <1>4, <1>5 DEF ShareNext

LEMMA ShareInductive == ShareSpec => []ShareIInv
BY InitShareIInv, NextShareIInv, PTL DEF ShareSpec

\* The dialog's state has its type: at most one request is the effect's, and it asks for the
\* link of the file and the level chosen, in a dialog that is open.
THEOREM ShareTypeCorrect == ShareSpec => []ShareTypeOK
<1>1. ShareIInv => ShareTypeOK
  BY DEF ShareIInv
<1> QED
  BY <1>1, ShareInductive, PTL

\* The link on display is of the file and the level chosen, and "Copied!" beside it
\* means that the clipboard holds it, whatever requests, writes and timers of earlier
\* choices end in which order.
THEOREM ChoiceShown == ShareSpec => []LinkOfChoice
<1>1. ASSUME ShareIInv PROVE LinkOfChoice
  BY <1>1 DEF ShareIInv, Displayed, Copying, LinkOfChoice
<1> QED
  BY <1>1, ShareInductive, PTL
=============================================================================
