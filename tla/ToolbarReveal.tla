--------------------------- MODULE ToolbarReveal ---------------------------
(***************************************************************************)
(* Sliding the toolbar in and out.  Many parties ask for it: the overlay   *)
(* key, the pointer (over the status bar, out of the toolbar, clicking the *)
(* stage), D-Bus callers, panels that hide themselves and policy.  A hide  *)
(* with a weaker reason than a pending show's is refused.  Shows and hides *)
(* overlap: Clutter has one animation per actor, so the second slide turns *)
(* the first one round, and when it ends both completion handlers run.     *)
(*                                                                         *)
(* The model starts after the toolbar has been put away for the first time *)
(* (its actor stays visible from then on); what panels do is PanelShow's.  *)
(***************************************************************************)
EXTENDS Naturals, Sequences

VARIABLES
  goal,        \* where the toolbar is, or slides to: "in" or "out"
  done,        \* "completed" handlers of the running animation, in order
  inShow,      \* priv->in_show_animation
  inHide,      \* priv->in_hide_animation
  visible,     \* priv->is_visible
  region,      \* priv->input_region is set
  reactive,    \* the buttons take clicks
  showReason,  \* priv->reason_for_show
  hideReason,  \* priv->reason_for_hide
  waiting,     \* priv->waiting_for_panel_show
  timed,       \* ... and its one second timeout runs
  hideTimer,   \* priv->hide_timeout_id
  trigger,     \* the status bar's trigger_timeout_id
  modal,       \* a system-modal window has the focus
  vain         \* history: showReason was set for a panel that failed before

slide == <<goal, done, inShow, inHide, region, reactive, showReason, hideReason>>
vars == <<slide, visible, waiting, timed, hideTimer, trigger, modal, vain>>

\* MnbShowHideReason: the higher the value, the higher the priority.
Unset == 0
ByDBus == 2
ByPanel == 3
ByMouse == 5
ByKey == 6
Policy == 8
Reasons == {ByDBus, ByPanel, ByMouse, ByKey, Policy}

TypeOK ==
  /\ goal \in {"in", "out"} /\ done \in Seq({"show", "hide"}) /\ Len(done) <= 2
  /\ inShow \in BOOLEAN /\ inHide \in BOOLEAN /\ visible \in BOOLEAN
  /\ region \in BOOLEAN /\ reactive \in BOOLEAN
  /\ {showReason, hideReason} \subseteq Reasons \cup {Unset}
  /\ waiting \in BOOLEAN /\ timed \in BOOLEAN
  /\ hideTimer \in BOOLEAN /\ trigger \in BOOLEAN /\ modal \in BOOLEAN
  /\ vain \in BOOLEAN

Init ==
  /\ goal = "out" /\ done = <<>> /\ inShow = FALSE /\ inHide = FALSE
  /\ visible = FALSE /\ region = FALSE /\ reactive = FALSE
  /\ showReason = Unset /\ hideReason = Unset
  /\ waiting = FALSE /\ timed = FALSE
  /\ hideTimer = FALSE /\ trigger = FALSE /\ modal \in BOOLEAN
  /\ vain = FALSE

(***************************************************************************)
(* mnb_toolbar_show and mnb_toolbar_hide.                                  *)
(***************************************************************************)
\* (mutant: nothing is asked; the slide begins anew)
CanShowAlways == ~modal
CanShow == ~inShow /\ ~modal

Show(r) ==
  IF CanShow
  THEN /\ showReason' = r
       /\ region' = TRUE
       /\ goal' = "in" /\ done' = Append(done, "show") /\ inShow' = TRUE
       /\ vain' = FALSE
       /\ UNCHANGED <<inHide, reactive, hideReason>>
  ELSE UNCHANGED <<slide, vain>>

CanHide(r) == ~inHide /\ showReason <= r

Hide(r) ==
  IF CanHide(r)
  THEN /\ hideReason' = r
       /\ reactive' = FALSE
       /\ region' = FALSE
       /\ goal' = "out" /\ done' = Append(done, "hide") /\ inHide' = TRUE
       /\ UNCHANGED <<inShow, showReason, vain>>
  ELSE UNCHANGED <<slide, vain>>

(***************************************************************************)
(* The end of the animation: mnb_toolbar_show_completed_cb and             *)
(* mnb_toolbar_hide_transition_completed_cb, as functions of the state s.  *)
(***************************************************************************)
\* (mutant: the buttons wake up whether or not the toolbar is leaving again)
ShowDoneAnyway(s) == [s EXCEPT !.inShow = FALSE, !.visible = TRUE, !.reactive = TRUE,
                               !.reason = IF waiting THEN @ ELSE Unset]
ShowDoneKeeps(s) == [s EXCEPT !.inShow = FALSE, !.visible = TRUE,  \* (mutant: reason
                              !.reactive = @ \/ ~s.inHide]         \* is not cleared)
ShowDone(s) == [s EXCEPT !.inShow = FALSE, !.visible = TRUE,
                         !.reactive = @ \/ ~s.inHide,
                         !.reason = IF waiting THEN @ ELSE Unset]

HideDone(s) == [s EXCEPT !.inHide = FALSE, !.visible = FALSE, !.hideReason = Unset]

Handle(s, handler) == IF handler = "show" THEN ShowDone(s) ELSE HideDone(s)

Completed ==
  /\ done # <<>> /\ done' = <<>>
  /\ LET s == [inShow |-> inShow, inHide |-> inHide, visible |-> visible,
               reactive |-> reactive, reason |-> showReason, hideReason |-> hideReason]
         t == Handle(s, done[1])
         u == IF Len(done) = 1 THEN t ELSE Handle(t, done[2])
     IN /\ inShow' = u.inShow /\ inHide' = u.inHide /\ visible' = u.visible
        /\ reactive' = u.reactive
        /\ showReason' = u.reason /\ hideReason' = u.hideReason
  /\ vain' = (vain /\ showReason' # Unset)
  /\ UNCHANGED <<goal, region, waiting, timed, hideTimer, trigger, modal>>

(***************************************************************************)
(* Who asks.                                                               *)
(***************************************************************************)
\* dawati_netbook_overlay_key_cb
OverlayKey ==
  /\ IF visible THEN Hide(ByKey) ELSE Show(ByKey)
  /\ UNCHANGED <<visible, waiting, timed, hideTimer, trigger, modal>>

\* mnb_toolbar_dbus_show_toolbar and mnb_toolbar_dbus_hide_toolbar
DBusShow == /\ Show(ByDBus)
            /\ UNCHANGED <<visible, waiting, timed, hideTimer, trigger, modal>>
DBusHide == /\ Hide(ByDBus)
            /\ UNCHANGED <<visible, waiting, timed, hideTimer, trigger, modal>>

\* A panel hid itself, or was hidden for a modal window.
PanelHid == /\ Hide(ByPanel)
            /\ UNCHANGED <<visible, waiting, timed, hideTimer, trigger, modal>>
PolicyHide == /\ Hide(Policy)
              /\ UNCHANGED <<visible, waiting, timed, hideTimer, trigger, modal>>

\* mnb_statusbar_event_cb: the pointer is at the very top of the screen ...
StatusBarEntered ==
  /\ ~visible /\ ~inShow /\ ~trigger
  /\ trigger' = TRUE
  /\ UNCHANGED <<slide, visible, waiting, timed, hideTimer, modal, vain>>

\* ... or is not any more.
StatusBarLeft ==
  /\ trigger \/ visible
  /\ trigger' = FALSE
  /\ IF ~trigger THEN Hide(ByMouse) ELSE UNCHANGED <<slide, vain>>
  /\ UNCHANGED <<visible, waiting, timed, hideTimer, modal>>

\* mnb_statusbar_trigger_toolbar_timeout_cb
TriggerTimeout ==
  /\ trigger /\ trigger' = FALSE
  /\ Show(ByMouse)
  /\ UNCHANGED <<visible, waiting, timed, hideTimer, modal>>

\* mnb_toolbar_event_cb
ToolbarEntered ==
  /\ hideTimer /\ hideTimer' = FALSE
  /\ UNCHANGED <<slide, visible, waiting, timed, trigger, modal, vain>>

ToolbarLeft ==
  /\ ~hideTimer /\ hideTimer' = TRUE
  /\ UNCHANGED <<slide, visible, waiting, timed, trigger, modal, vain>>

\* mnb_toolbar_hide_timeout_cb
HideTimeout ==
  /\ hideTimer /\ hideTimer' = FALSE
  /\ Hide(ByMouse)
  /\ UNCHANGED <<visible, waiting, timed, trigger, modal>>

\* mnb_toolbar_stage_input_cb, with windows to click at.
StageClicked ==
  /\ ~inShow /\ ~inHide
  /\ Hide(ByMouse)
  /\ UNCHANGED <<visible, waiting, timed, hideTimer, trigger, modal>>

(***************************************************************************)
(* Waiting for a panel, and modal windows.                                 *)
(***************************************************************************)
\* A button is toggled: mnb_toolbar_set_waiting_for_panel_show with TRUE.
Wait(withTimeout) ==
  /\ waiting' = TRUE /\ timed' = withTimeout
  /\ UNCHANGED <<slide, visible, hideTimer, trigger, modal, vain>>

\* mnb_toolbar_activate_panel_internal for a panel that does not run: the
\* button is toggled, to no avail if the panel failed before.
ActivateAbsent(r) ==
  /\ showReason' = r
  /\ \/ waiting' = TRUE /\ timed' = FALSE /\ vain' = FALSE
     \/ vain' = TRUE /\ UNCHANGED <<waiting, timed>>
  /\ UNCHANGED <<goal, done, inShow, inHide, region, reactive, hideReason, visible,
                 hideTimer, trigger, modal>>

\* mnb_toolbar_set_waiting_for_panel_show with FALSE.
WaitingEnds == /\ waiting' = FALSE /\ timed' = FALSE
               /\ showReason' = Unset
               /\ vain' = FALSE
               /\ UNCHANGED <<goal, done, inShow, inHide, region, reactive,
                              hideReason, visible, hideTimer, trigger, modal>>

\* A panel is shown, whether or not it was waited for.
PanelShown == WaitingEnds

\* The timeout of the flag, or of the stub.
WaitTimeout == waiting /\ WaitingEnds

FocusMoves == /\ modal' = ~modal
              /\ UNCHANGED <<slide, visible, waiting, timed, hideTimer, trigger, vain>>

Next ==
  \/ OverlayKey \/ DBusShow \/ DBusHide \/ PanelHid \/ PolicyHide
  \/ StatusBarEntered \/ StatusBarLeft \/ TriggerTimeout
  \/ ToolbarEntered \/ ToolbarLeft \/ HideTimeout \/ StageClicked
  \/ Wait(TRUE) \/ Wait(FALSE) \/ PanelShown \/ WaitTimeout
  \/ \E r \in {ByDBus, ByKey, Policy} : ActivateAbsent(r)
  \/ Completed \/ FocusMoves

Spec == Init /\ [][Next]_vars

(***************************************************************************)
(* Properties.                                                             *)
(***************************************************************************)
\* However shows and hides overlap, once the toolbar rests all the toolbar
\* keeps about itself agrees with where it is.
RestIsConsistent ==
  done = <<>> => /\ ~inShow /\ ~inHide
                 /\ visible  <=> goal = "in"
                 /\ reactive <=> goal = "in"
                 /\ region   <=> goal = "in"

\* "Reason for pending Toolbar show": without a show or a panel under way there
\* is none, or the toolbar would refuse to hide for no reason.  The exception is
\* the panel that failed before (mnb_toolbar_activate_panel_internal sets the
\* reason, then its button is released and nothing is under way).
ReasonIsPending == showReason # Unset => inShow \/ waiting \/ vain
=============================================================================
