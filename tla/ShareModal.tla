------------------------------- MODULE ShareModal -------------------------------
(***************************************************************************)
(* The share dialog (frontend/src/components/dashboard/share-modal.tsx).    *)
(*                                                                         *)
(* Its effect asks for a link when the dialog opens and when the file or    *)
(* the access level changes, and cancels the request it made before; the    *)
(* request of the Retry button is not cancelled.  The Copy button writes    *)
(* the clipboard behind an await and takes its "Copied!" back by a timer.   *)
(*                                                                         *)
(* Its general names say share, for ClientProofs to extend it together with *)
(* Session.                                                                *)
(***************************************************************************)
EXTENDS Naturals, FiniteSets

CONSTANTS
    Files,       \* files that are shared
    Levels,      \* access levels: view, download
    Slots,       \* bound of apiShareFile requests in flight
    MaxTimers,   \* bound of "Copied!" timers running
    None

ASSUME ShareAssumption ==
    /\ None \notin Files \cup Levels /\ "view" \in Levels
    /\ MaxTimers \in Nat

VARIABLES
    open, file,   \* the dialog's properties
    accessLevel,
    shareData,    \* whose link it is
    error,
    linkLoading,  \* its isLoading
    shares,       \* apiShareFile requests in flight
    copied,       \* the Copy button says "Copied!"
    writing,      \* the link handleCopy is writing to the clipboard
    clipboard,    \* the link written last
    timers,       \* timeouts that take "Copied!" back
    crossed,      \* history: a Retry was out when the file or the level changed
    outlived      \* history: "Copied!" or a write was when they changed

choice  == <<open, file, accessLevel>>
display == <<shareData, error, linkLoading>>
copy    == <<copied, writing, clipboard, timers>>
shareVars == <<choice, display, shares, copy, crossed, outlived>>

-----------------------------------------------------------------------------
(* Types *)

Link   == [file : Files, level : Levels]
NoLink == [file |-> None, level |-> None]

\* by: asked by the effect, whose isMounted is set back when it is cancelled, or by
\* the Retry button.
ShareAsk   == [file : Files, level : Levels, by : {"effect", "cancelled", "retry"}]
NoAsk == [file |-> None, level |-> None, by |-> "none"]

\* At most one request is the effect's: the last one's, while the dialog is open.
ShareTypeOK ==
    /\ open \in BOOLEAN /\ file \in Files \cup {None} /\ accessLevel \in Levels
    /\ (open => file # None)
    /\ shareData \in Link \cup {NoLink} /\ error \in BOOLEAN /\ linkLoading \in BOOLEAN
    /\ shares \in [Slots -> ShareAsk \cup {NoAsk}]
    /\ \A s \in Slots : shares[s].by = "effect" =>
           /\ open /\ shares[s].file = file /\ shares[s].level = accessLevel
           /\ \A t \in Slots \ {s} : shares[t].by # "effect"
    /\ copied \in BOOLEAN /\ timers \in 0..MaxTimers /\ (copied => timers > 0)
    /\ writing \in Link \cup {NoLink} /\ clipboard \in Link \cup {NoLink}
    /\ crossed \in BOOLEAN /\ outlived \in BOOLEAN

ShareInit ==
    /\ open = FALSE /\ file = None /\ accessLevel = "view"
    /\ shareData = NoLink /\ error = FALSE /\ linkLoading = FALSE
    /\ shares = [s \in Slots |-> NoAsk]
    /\ copied = FALSE /\ writing = NoLink /\ clipboard = NoLink /\ timers = 0
    /\ crossed = FALSE /\ outlived = FALSE

-----------------------------------------------------------------------------
(* The effect *)

Chosen == [file |-> file, level |-> accessLevel]

\* Spinner, error or link: the link is on display.
LinkShown == open /\ ~linkLoading /\ ~error

CancelledNever == shares   \* mutant of Cancelled: no cleanup function

\* The effect's cleanup: isMounted = false for the request it made.
Cancelled == [s \in Slots |-> IF shares[s].by = "effect" THEN [shares[s] EXCEPT !.by = "cancelled"]
                              ELSE shares[s]]

\* apiShareFile in a free slot, beside the requests cs.
AskFor(cs, by) ==
    \E s \in Slots :
        /\ shares[s] = NoAsk
        /\ shares' = [cs EXCEPT ![s] = [file |-> file', level |-> accessLevel', by |-> by]]

\* Runs after a change of [open, file, accessLevel] and the cleanup of the last one.
Effect ==
    /\ crossed' = \E s \in Slots : shares[s].by = "retry"
    /\ error' = FALSE
    /\ \/ /\ ~open'
          /\ shares' = Cancelled /\ shareData' = NoLink /\ copied' = FALSE
          /\ UNCHANGED linkLoading
       \/ /\ open'
          /\ AskFor(Cancelled, "effect")
          /\ linkLoading' = TRUE
          /\ UNCHANGED <<shareData, copied>>
    /\ outlived' = (copied' \/ writing # NoLink)
    /\ UNCHANGED <<writing, clipboard, timers>>

\* onShareFile of a file on the page.
Open == ~open /\ open' = TRUE /\ file' \in Files /\ UNCHANGED accessLevel /\ Effect

\* Done, Escape, or a click outside.
Close == open /\ open' = FALSE /\ UNCHANGED <<file, accessLevel>> /\ Effect

\* The two buttons of the selector.
SetAccessLevel ==
    open /\ accessLevel' \in Levels \ {accessLevel} /\ UNCHANGED <<open, file>> /\ Effect

-----------------------------------------------------------------------------
(* Answers *)

Heeded(s) == shares[s].by \in {"effect", "retry"}

Settled(s) == shares' = [shares EXCEPT ![s] = NoAsk]

\* The link is set, unless the effect that asked for it was cleaned up.
Shared(s) ==
    /\ shares[s] # NoAsk
    /\ IF Heeded(s)
       THEN /\ shareData' = [file |-> shares[s].file, level |-> shares[s].level]
            /\ linkLoading' = FALSE
       ELSE UNCHANGED <<shareData, linkLoading>>
    /\ Settled(s)
    /\ UNCHANGED <<choice, error, copy, crossed, outlived>>

\* Mutant of ShareFails: the spinner stays.
ShareFailsSpinning(s) ==
    /\ shares[s] # NoAsk
    /\ error' = (error \/ Heeded(s))
    /\ Settled(s)
    /\ UNCHANGED <<choice, shareData, linkLoading, copy, crossed, outlived>>

ShareFails(s) ==
    /\ shares[s] # NoAsk
    /\ IF Heeded(s)
       THEN error' = TRUE /\ linkLoading' = FALSE
       ELSE UNCHANGED <<error, linkLoading>>
    /\ Settled(s)
    /\ UNCHANGED <<choice, shareData, copy, crossed, outlived>>

\* The button of the error message; nothing cancels its request.
Retry ==
    /\ open /\ error /\ ~linkLoading
    /\ UNCHANGED choice
    /\ AskFor(shares, "retry")
    /\ linkLoading' = TRUE /\ error' = FALSE
    /\ UNCHANGED <<shareData, copy, crossed, outlived>>

-----------------------------------------------------------------------------
(* handleCopy; one write at a time (a bound) *)

HandleCopy ==
    /\ LinkShown /\ shareData # NoLink /\ writing = NoLink
    /\ writing' = shareData
    /\ UNCHANGED <<choice, display, shares, copied, clipboard, timers, crossed, outlived>>

SayCopied == copied' = TRUE /\ timers < MaxTimers /\ timers' = timers + 1

\* navigator.clipboard.writeText resolves; the link may have changed meanwhile.
Written ==
    /\ writing # NoLink
    /\ clipboard' = writing /\ SayCopied
    /\ writing' = NoLink
    /\ UNCHANGED <<choice, display, shares, crossed, outlived>>

\* It rejects: what the input shows now is selected and copied, if it is there.
NotWritten ==
    /\ writing # NoLink
    /\ IF LinkShown
       THEN clipboard' = (IF shareData = NoLink THEN clipboard ELSE shareData) /\ SayCopied
       ELSE UNCHANGED <<clipboard, copied, timers>>
    /\ writing' = NoLink
    /\ UNCHANGED <<choice, display, shares, crossed, outlived>>

\* Any of the timers started; one of an earlier copy takes the message back early.
CopiedTimeout ==
    /\ timers > 0
    /\ timers' = timers - 1 /\ copied' = FALSE
    /\ UNCHANGED <<choice, display, shares, writing, clipboard, crossed, outlived>>

-----------------------------------------------------------------------------
(* Specification *)

ShareAnswers(s) == Shared(s) \/ ShareFails(s)

ShareNext == \/ Open \/ Close \/ SetAccessLevel \/ Retry
        \/ HandleCopy \/ Written \/ NotWritten \/ CopiedTimeout
        \/ \E s \in Slots : ShareAnswers(s)

ShareSpec == ShareInit /\ [][ShareNext]_shareVars

\* Every request is answered or fails with its connection.
ShareFairness == \A s \in Slots : WF_shareVars(ShareAnswers(s))

ShareFairSpec == ShareSpec /\ ShareFairness

-----------------------------------------------------------------------------
(* Properties *)

\* A link on display (no spinner, no error) is that of the file and the access level
\* chosen: an answer to an earlier choice is dropped.  Only the Retry button's
\* request, when it was out while the choice changed, escapes.  And "Copied!" beside
\* it means that the clipboard holds this link, unless the choice changed within the
\* message's two seconds or during the write.
LinkOfChoice ==
    LinkShown /\ ~crossed => /\ shareData = Chosen
                            /\ (copied /\ ~outlived => clipboard = shareData)

\* The dialog answers: the spinner of one choice gives way to a link or an error, or
\* the user leaves the choice, whatever requests of earlier choices do.
DialogAnswers ==
    \A c \in Link :
        (open /\ linkLoading /\ Chosen = c) ~> ~(open /\ linkLoading /\ Chosen = c)
=============================================================================
