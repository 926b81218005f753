----------------------------- MODULE PanelSlot -----------------------------
(***************************************************************************)
(* What the toolbar promises about the slot of one panel, whatever happens *)
(* between the toolbar, the bus and the panel's process: the slot is       *)
(*    "absent"   no panel, and nobody waits for one,                       *)
(*    "asked"    no panel yet; the user clicked and sees the stub,         *)
(*    "broken"   the user waited in vain; clicks are refused,              *)
(*    "present"  the panel can be shown.                                   *)
(* A request is answered or given up, a present panel is never asked for   *)
(* nor called broken, and a broken one recovers only by appearing.         *)
(***************************************************************************)
VARIABLE slot

Init == slot = "absent"

\* The user clicks the button of a panel that does not run.
Ask == slot = "absent" /\ slot' = "asked"

\* The panel announces itself, whether or not anyone waits for it.
Appear == slot # "present" /\ slot' = "present"

\* The stub has been shown for long enough.
GiveUp == slot = "asked" /\ slot' = "broken"

\* The panel dies, the user turns to another one, the slot or the toolbar goes.
Reset == slot # "absent" /\ slot' = "absent"

Next == Ask \/ Appear \/ GiveUp \/ Reset

Spec == Init /\ [][Next]_slot /\ WF_slot(GiveUp)
=============================================================================
