------------------------------- MODULE Alttab -------------------------------
(***************************************************************************)
(* The Alt+Tab switcher.  The first Tab takes the keyboard and starts a    *)
(* timeout: if Alt is still down when it ends, the overlay with the        *)
(* windows comes up, otherwise the shell goes straight to the next window. *)
(* Mutter owns the grab and may end it by itself; windows close, urgent    *)
(* notifications, modal windows and fullscreen windows come and go, at any *)
(* time.                                                                   *)
(*                                                                         *)
(* External: mutter calls the handlers for Tab, for the release of Alt and *)
(* for other keys, the latter two only while it has the grab, and ends the *)
(* grab after these.  It keeps these keys from the shell's event filter,   *)
(* so what that does on the release of Alt                                 *)
(* (mnb_alttab_overlay_handle_xevent) is left out.                         *)
(***************************************************************************)
EXTENDS Naturals, Sequences

CONSTANTS AltWindows     \* the windows the switcher lists

VARIABLES
  mru,        \* the open windows, most recently used first
  grabbed,    \* mutter's grab
  inGrab,     \* priv->in_alt_grab
  altDown,    \* priv->alt_tab_down
  altWaiting, \* priv->waiting_for_timeout
  timers,     \* initial timeouts that are installed
  slow,       \* priv->slowdown_timeout_id
  shown,      \* the overlay is visible
  apps,       \* its children, in order
  lit,        \* the window of the highlighted app, or NoWindow
  picked,     \* the window of priv->active, perhaps gone, or NoWindow
  urgent,     \* an urgent notification is present
  sysModal,   \* the focused window is system-modal
  noCompositor

altVars == <<mru, grabbed, inGrab, altDown, altWaiting, timers, slow, shown, apps, lit, picked,
             urgent, sysModal, noCompositor>>

NoWindow == "none"
Elements(q) == {q[i] : i \in DOMAIN q}
Distinct(q) == \A i, j \in DOMAIN q : q[i] = q[j] => i = j
At(q, w) == CHOOSE i \in DOMAIN q : q[i] = w
Minus(q, w) == IF w \notin Elements(q) THEN q
               ELSE SubSeq(q, 1, At(q, w) - 1) \o SubSeq(q, At(q, w) + 1, Len(q))

AltTypeOK ==
  /\ mru \in Seq(AltWindows) /\ apps \in Seq(AltWindows) /\ Distinct(mru)
  /\ {lit, picked} \subseteq AltWindows \cup {NoWindow} /\ timers \in Nat
  /\ {grabbed, inGrab, altDown, altWaiting, slow, shown, urgent, sysModal, noCompositor}
       \subseteq BOOLEAN

AltInit ==
  /\ mru = <<>> /\ apps = <<>> /\ lit = NoWindow /\ picked = NoWindow /\ timers = 0
  /\ grabbed = FALSE /\ inGrab = FALSE /\ altDown = FALSE /\ altWaiting = FALSE
  /\ slow = FALSE /\ shown = FALSE
  /\ urgent = FALSE /\ sysModal = FALSE /\ noCompositor = FALSE

(***************************************************************************)
(* Handlers are functions of the state s.                                  *)
(***************************************************************************)
AltState == [mru |-> mru, grabbed |-> grabbed, inGrab |-> inGrab, down |-> altDown,
             waiting |-> altWaiting, timers |-> timers, slow |-> slow, shown |-> shown,
             apps |-> apps, lit |-> lit, picked |-> picked]
AltBecome(s) ==
  /\ mru' = s.mru /\ grabbed' = s.grabbed /\ inGrab' = s.inGrab /\ altDown' = s.down
  /\ altWaiting' = s.waiting /\ timers' = s.timers /\ slow' = s.slow
  /\ shown' = s.shown /\ apps' = s.apps /\ lit' = s.lit /\ picked' = s.picked
  /\ UNCHANGED <<urgent, sysModal, noCompositor>>

\* end_kbd_grab
EndGrab(s) == IF s.inGrab THEN [s EXCEPT !.inGrab = FALSE, !.grabbed = FALSE] ELSE s

\* mnb_alttab_overlay_activate_window: w becomes the most recently used one.
ActivateWindow(s, w) == [s EXCEPT !.inGrab = FALSE, !.mru = <<w>> \o Minus(@, w)]

\* mnb_alttab_overlay_hide: the apps are destroyed, priv->active is not reset.
HideOverlay(s) == [s EXCEPT !.slow = FALSE, !.shown = FALSE, !.apps = <<>>, !.lit = NoWindow]

\* mnb_alttab_overlay_show, _populate: with the second window picked.
ShowOverlay(s) == [s EXCEPT !.shown = TRUE, !.apps = s.mru \o @, !.lit = s.mru[2],
                            !.picked = s.mru[2]]

\* mnb_alttab_overlay_advance
After(s, backward) ==
  LET n == Len(s.apps)
      i == At(s.apps, s.lit)
  IN s.apps[IF backward THEN (IF i = 1 THEN n ELSE i - 1) ELSE (IF i = n THEN 1 ELSE i + 1)]
AdvanceLitOnly(s, backward) ==     \* (mutant: priv->active is left behind when it wraps)
  IF s.lit = NoWindow THEN s
  ELSE IF At(s.apps, s.lit) = Len(s.apps) THEN [s EXCEPT !.lit = After(s, backward)]
  ELSE [s EXCEPT !.lit = After(s, backward), !.picked = After(s, backward)]
Advance(s, backward) ==
  IF s.lit = NoWindow THEN s
  ELSE [s EXCEPT !.lit = After(s, backward), !.picked = After(s, backward)]

\* mnb_alttab_overlay_activate_selection.  An app that is gone was freed: what the
\* code then reads is some window, or none.
SelectionOutcomes(s) ==
  LET t == [s EXCEPT !.picked = NoWindow]
  IN IF s.picked = NoWindow THEN {s}
     ELSE LET u == IF s.shown THEN HideOverlay(t) ELSE t
          IN IF s.picked \in Elements(s.apps) THEN {ActivateWindow(u, s.picked)}
             ELSE {t} \cup {ActivateWindow(u, w) : w \in Elements(s.mru)}

Dropped(s) == \* urgent, modal: the switcher gives up
  IF s.inGrab THEN [EndGrab(IF s.shown THEN HideOverlay(s) ELSE s) EXCEPT !.down = FALSE] ELSE s

(***************************************************************************)
(* mnb_alttab_overlay_alt_tab_key_handler.  Other windows than the listed  *)
(* ones count for applications_present.                                    *)
(***************************************************************************)
\* The compositor is off: straight to the least recently used window.
TabFullscreen ==
  /\ ~urgent /\ ~sysModal /\ noCompositor /\ ~altWaiting
  /\ LET s == IF Len(mru) >= 2 THEN ActivateWindow(AltState, mru[Len(mru)]) ELSE AltState
     IN AltBecome(IF s.inGrab THEN [EndGrab(s) EXCEPT !.down = FALSE] ELSE s)

TabRefused ==
  /\ urgent \/ sysModal
  /\ AltBecome(Dropped(AltState))

CanTab == ~urgent /\ ~sysModal /\ (altWaiting \/ ~noCompositor)

TabNoGrab == /\ CanTab /\ ~inGrab
             /\ AltBecome([AltState EXCEPT !.down = FALSE, !.slow = FALSE])

\* present: applications_present
MayTake(present) == inGrab \/ (present /\ ~grabbed)
Taken == [AltState EXCEPT !.inGrab = TRUE, !.grabbed = TRUE, !.down = TRUE]

CanWaitAgain == ~shown                  \* (mutant: another timeout)
CanWait == ~altWaiting /\ ~shown

TabFirst(present) ==
  /\ CanTab /\ MayTake(present) /\ (Len(mru) >= 2 => present)
  /\ CanWait
  /\ AltBecome([Taken EXCEPT !.waiting = TRUE, !.timers = @ + 1])

TabAgain(present, backward) ==
  /\ CanTab /\ MayTake(present) /\ (Len(mru) >= 2 => present)
  /\ ~CanWait
  /\ IF slow \/ altWaiting THEN AltBecome(Taken)
     ELSE AltBecome(Advance([Taken EXCEPT !.slow = TRUE], backward))

(***************************************************************************)
(* Alt is released: mnb_alttab_overlay_alt_tab_select_handler; another key *)
(* is pressed: mnb_alttab_overlay_alt_tab_cancel_handler.                  *)
(***************************************************************************)
SelectOutcomes(s) ==
  LET t == [EndGrab(s) EXCEPT !.inGrab = FALSE, !.down = FALSE]
  IN IF urgent \/ s.waiting THEN {t} ELSE SelectionOutcomes(t)

AltReleased == /\ grabbed
               /\ \E t \in SelectOutcomes(AltState) : AltBecome([t EXCEPT !.grabbed = FALSE])

OtherKey == /\ grabbed
            /\ LET t == [EndGrab(AltState) EXCEPT !.down = FALSE]
               IN AltBecome([(IF t.shown THEN HideOverlay(t) ELSE t) EXCEPT !.grabbed = FALSE])

(***************************************************************************)
(* alt_tab_initial_timeout_cb, alt_tab_slow_down_timeout_cb                *)
(***************************************************************************)
InitialTimeout ==
  /\ timers > 0
  /\ LET s == [AltState EXCEPT !.timers = @ - 1, !.waiting = FALSE]
     IN AltBecome(IF s.down /\ ~noCompositor
                  THEN IF Len(s.mru) >= 2 THEN ShowOverlay(s) ELSE EndGrab(s)
                  ELSE IF s.down THEN s
                  ELSE EndGrab(IF Len(s.mru) >= 2 THEN ActivateWindow(s, s.mru[2]) ELSE s))

\* Tab is up again.
SlowTimeout == slow /\ AltBecome([AltState EXCEPT !.slow = FALSE])

(***************************************************************************)
(* Everybody else.                                                         *)
(***************************************************************************)
\* Mutter ends the grab: mnb_alttab_overlay_kbd_grab_notify_cb.
GrabLost ==
  /\ grabbed
  /\ LET s == [AltState EXCEPT !.grabbed = FALSE]
     IN AltBecome(IF s.inGrab THEN HideOverlay([s EXCEPT !.inGrab = FALSE]) ELSE s)

WindowOpens(w) == /\ w \notin Elements(mru)
                  /\ AltBecome([AltState EXCEPT !.mru = <<w>> \o @])

\* mnb_alttab_overlay_app_origin_weak_notify
Closed(w) == [AltState EXCEPT !.mru = Minus(@, w), !.apps = Minus(@, w),
                           !.lit = IF lit = w /\ w \in Elements(apps) THEN NoWindow ELSE @]
WindowCloses(w) == w \in Elements(mru) /\ AltBecome(Closed(w))

Around == /\ \/ urgent' = ~urgent /\ UNCHANGED <<sysModal, noCompositor>>
             \/ sysModal' = ~sysModal /\ UNCHANGED <<urgent, noCompositor>>
             \/ noCompositor' = ~noCompositor /\ UNCHANGED <<urgent, sysModal>>
          /\ UNCHANGED <<mru, grabbed, inGrab, altDown, altWaiting, timers, slow, shown,
                         apps, lit, picked>>

AltNext ==
  \/ TabFullscreen \/ TabRefused \/ TabNoGrab
  \/ \E present \in BOOLEAN :
       TabFirst(present) \/ \E backward \in BOOLEAN : TabAgain(present, backward)
  \/ AltReleased \/ OtherKey \/ InitialTimeout \/ SlowTimeout \/ GrabLost
  \/ \E w \in AltWindows : WindowOpens(w) \/ WindowCloses(w)
  \/ Around

AltSpec == AltInit /\ [][AltNext]_altVars

(***************************************************************************)
(* Properties.                                                             *)
(***************************************************************************)
\* However Tab and Alt are hit, there is one initial timeout at most, and the
\* flag tells: two of them would fill the overlay twice.
OneInitialTimeout == timers = IF altWaiting THEN 1 ELSE 0

\* The overlay lists open windows, each once, and nothing while it is hidden.
OverlayListsWindows ==
  /\ Distinct(apps) /\ Elements(apps) \subseteq Elements(mru)
  /\ ~shown => apps = <<>>

\* A slow-down timeout never outlives the overlay: it would swallow the first Tab
\* of the next switch.
SlowNeedsOverlay == slow => shown

\* No timeout and no entry is left from one switch to the next.
SwitchStartsClean == OneInitialTimeout /\ OverlayListsWindows /\ SlowNeedsOverlay

\* As long as its window is open, the window that is highlighted is the one
\* which releasing Alt goes to.
GoesToHighlighted ==
  [][shown /\ ~shown' /\ lit # NoWindow
       => mru' = mru \/ mru' = <<lit>> \o Minus(mru, lit)]_altVars

\* "we can't show the overlay without having a grab"
OverlayHasGrab == shown => grabbed
=============================================================================
