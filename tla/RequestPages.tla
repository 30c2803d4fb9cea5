---------------------------- MODULE RequestPages ----------------------------
(***************************************************************************)
(* The pages that send what the user means to send: the dialogs that       *)
(* dispatch a command, the alerts page and the file explorer, each with    *)
(* the part of the control plane it talks to.                              *)
(***************************************************************************)
EXTENDS ConsoleView

CONSTANTS
    MaxOpens,      \* times a dialog is opened
    MaxOverruns    \* polls that start before the load before them has answered

Dialogs == INSTANCE CommandModals
Alarms == INSTANCE AlertsPage

RequestInit ==
    \/ On("dialogs") /\ Dialogs!Init
    \/ On("alerts") /\ Alarms!Init
    \/ On("files") /\ Files!Init

RequestStep ==
    \/ On("dialogs") /\ Dialogs!Next
    \/ On("alerts") /\ Alarms!Next
    \/ On("files") /\ Files!Next

RequestSpec == RequestInit /\ [][RequestStep /\ UNCHANGED view]_vars

-----------------------------------------------------------------------------
(* Safety *)

\* Nothing is sent that the user did not mean: no sensitive command without the
\* name typed for its device, or its code, also after going back and choosing
\* anew; one command per opening of a dialog, unless an answer is lost; no
\* acknowledgement of an alert Ack was not pressed for, although the drawer's
\* pause outlives the drawer; no folder browsed again within five minutes.
RequestsAreMeant ==
    /\ On("dialogs") => Dialogs!SensitiveIsConfirmed /\ Dialogs!OneCommandPerOpening
    /\ On("alerts") => Alarms!AckWasAsked
    /\ On("files") => Files!BrowsesAreSpaced
=============================================================================
