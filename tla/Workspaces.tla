----------------------------- MODULE Workspaces ----------------------------
(***************************************************************************)
(* The window manager plugin's workspaces and its compositor.  Every       *)
(* application gets a workspace of its own, which goes with its last       *)
(* window; the compositor is switched off while the screen is saved or     *)
(* belongs to a fullscreen window.                                         *)
(*                                                                         *)
(* Mutter's part is external: a new window is on the active workspace,     *)
(* windows of a workspace that is removed move to its neighbour, and map() *)
(* is called for a window that is unminimized as well.                     *)
(***************************************************************************)
EXTENDS Naturals, Sequences, FiniteSets, SequencesExt

CONSTANTS
  Apps,           \* windows of type normal
  Dialogs,        \* dialogs
  Parent,         \* the window each dialog is transient for, or "none"
  MaxWorkspaces,  \* MAX_WORKSPACES
  MinimizeFull    \* windows that were minimized become fullscreen, and the reverse

\* Bound: an application has one dialog at most.  Windows that are transient are dialogs,
\* and MAX_WORKSPACES is 8.
ASSUME DeskAssumption ==
  /\ Apps \cap Dialogs = {} /\ "none" \notin Apps \cup Dialogs
  /\ Parent \in [Apps \cup Dialogs -> Apps \cup {"none"}]
  /\ \A a \in Apps : Parent[a] = "none"
  /\ \A d, e \in Dialogs : Parent[d] = Parent[e] /\ Parent[d] # "none" => d = e
  /\ MaxWorkspaces \in Nat /\ MaxWorkspaces > 1

VARIABLES
  wss,        \* the screen's workspaces, in order
  activeWs,   \* the active one
  wsOf,       \* the windows' workspaces
  isFull,     \* their property "fullscreen"
  minimized,  \* whether they are minimized
  watched,    \* how often their notify::fullscreen is connected
  fullWins,   \* priv->fullscreen_wins
  disabled,   \* priv->compositor_disabled
  saver,      \* priv->screen_saver_mcw is set
  dpms        \* priv->screen_saver_dpms

deskVars == <<wss, activeWs, wsOf, isFull, minimized, watched, fullWins, disabled, saver, dpms>>

Windows == Apps \cup Dialogs
WsIds == 1 .. MaxWorkspaces + 1
Absent == 0

Once(q) == \A i, j \in DOMAIN q : q[i] = q[j] => i = j

DeskTypeOK ==
  /\ wss \in Seq(WsIds) /\ Len(wss) \in 1..MaxWorkspaces /\ Once(wss)
  /\ activeWs \in ToSet(wss)
  /\ wsOf \in [Windows -> ToSet(wss) \cup {Absent}]
  /\ isFull \in [Windows -> BOOLEAN] /\ watched \in [Windows -> 0..2]
  /\ minimized \in [Windows -> {"no", "going", "yes"}]
  /\ fullWins \in Seq(Windows)
  /\ disabled \in BOOLEAN /\ saver \in BOOLEAN /\ dpms \in BOOLEAN

DeskInit == /\ wss = <<1>> /\ activeWs = 1
            /\ wsOf = [w \in Windows |-> Absent] /\ isFull = [w \in Windows |-> FALSE]
            /\ minimized = [w \in Windows |-> "no"] /\ watched = [w \in Windows |-> 0]
            /\ fullWins = <<>>
            /\ disabled = FALSE /\ saver = FALSE /\ dpms = FALSE

(***************************************************************************)
(* Handlers are functions of the state s.                                  *)
(***************************************************************************)
DeskState == [wss |-> wss, active |-> activeWs, at |-> wsOf, isFull |-> isFull,
              min |-> minimized, watched |-> watched, list |-> fullWins,
              disabled |-> disabled, saver |-> saver, dpms |-> dpms]
DeskBecome(s) ==
  /\ wss' = s.wss /\ activeWs' = s.active /\ wsOf' = s.at /\ isFull' = s.isFull
  /\ minimized' = s.min /\ watched' = s.watched /\ fullWins' = s.list
  /\ disabled' = s.disabled /\ saver' = s.saver /\ dpms' = s.dpms

\* meta_workspace_index, from 0, and its inverse
Index(s, ws) == (CHOOSE i \in DOMAIN s.wss : s.wss[i] = ws) - 1
Exists(s, index) == index + 1 \in DOMAIN s.wss
ByIndex(s, index) == s.wss[index + 1]

\* dawati_netbook_fullscreen_apps_present_on_workspace
FullOn(s, ws) == \E w \in ToSet(s.list) : s.at[w] = ws

\* dawati_netbook_toggle_compositor
Toggle(s, on) == [s EXCEPT !.disabled = ~on]

\* Unless the screen is saved the compositor follows the fullscreen windows.
Review(s) == IF s.dpms \/ s.saver THEN s ELSE Toggle(s, ~FullOn(s, s.active))

\* fullscreen_app_added, fullscreen_app_removed
FullAdded(s, w) == Review([s EXCEPT !.list = <<w>> \o @])

Without(q, w) ==     \* g_list_remove: the first one goes
  IF w \in ToSet(q)
  THEN RemoveAt(q, CHOOSE i \in DOMAIN q : q[i] = w /\ \A j \in 1..i - 1 : q[j] # w)
  ELSE q
FullRemoved(s, w) == Review([s EXCEPT !.list = Without(@, w)])

\* Mutter switches; dawati_netbook_workspace_switched_cb.
ActivateOnly(s, ws) == [s EXCEPT !.active = ws]          \* (mutant: no callback)
Activate(s, ws) == IF s.active = ws THEN s ELSE Review([s EXCEPT !.active = ws])

\* Mutter puts w on a workspace, or takes it off.
Put(s, w, ws) == [s EXCEPT !.at = [s.at EXCEPT ![w] = ws]]

\* Mutter removes a workspace: what is left on it goes to the neighbour.
Neighbour(s, ws) == ByIndex(s, IF Index(s, ws) > 0 THEN Index(s, ws) - 1 ELSE 1)
RemoveWs(s, ws) ==
  LET next == Neighbour(s, ws)
      t == [s EXCEPT !.wss = RemoveAt(s.wss, Index(s, ws) + 1),
                     !.at = [w \in Windows |-> IF s.at[w] = ws THEN next ELSE s.at[w]]]
  IN Activate(t, IF s.active = ws THEN next ELSE s.active)

\* check_for_empty_workspace: the window to be ignored is gone, or as good as.
CheckEmpty(s, ws, ignore) ==
  IF \/ Len(s.wss) <= 1
     \/ \E w \in Windows \ {ignore} : s.at[w] = ws /\ Parent[w] # ignore
  THEN s
  ELSE RemoveWs(IF s.active = ws THEN Activate(s, Neighbour(s, ws)) ELSE s, ws)

\* Mutter takes w off its workspace: dawati_netbook_workspace_removed_window_cb.
LeaveElsewhere(s, w) ==         \* (mutant: never the workspace the user looks at)
  IF s.at[w] = s.active THEN Put(s, w, Absent) ELSE CheckEmpty(Put(s, w, Absent), s.at[w], w)
Leave(s, w) == CheckEmpty(Put(s, w, Absent), s.at[w], w)

\* Mutter moves w, and its dialog with it.
ChangeWs(s, w, ws) ==
  IF s.at[w] = ws THEN s
  ELSE LET t == Put(Leave(s, w), w, ws)
           ds == {d \in Dialogs : Parent[d] = w /\ t.at[d] \notin {Absent, ws}}
       IN IF ds = {} THEN t
          ELSE LET d == CHOOSE x \in ds : TRUE IN Put(Leave(t, d), d, ws)

\* dawati_netbook_move_window_to_workspace.  The workspace of that index, if there
\* is one by now, is activated; of the active one mutter gives the window the focus
\* only.
MoveToOnly(s, w, index) ==      \* (mutant: nothing is activated)
  ChangeWs(s, w, ByIndex(s, index))
MoveTo(s, w, index) ==
  LET t == ChangeWs(s, w, ByIndex(s, index))
  IN IF index # Index(s, s.active) /\ Exists(t, index)
     THEN Activate(t, ByIndex(t, index)) ELSE t

NewWs(s) == CHOOSE ws \in WsIds : ws \notin ToSet(s.wss)

\* dawati_netbook_move_window_to_its_workspace
MoveToItsOwn(s, w) ==
  LET n == Len(s.wss)
      others == \E a \in Apps \ {w} : s.at[a] # Absent /\ s.min[a] = "no"
  IN IF n = 1 /\ ~others THEN MoveTo(s, w, 0)
     ELSE IF n > 1 /\ n >= MaxWorkspaces THEN MoveTo(s, w, MaxWorkspaces - 1)
     ELSE MoveTo([s EXCEPT !.wss = Append(@, NewWs(s))], w, n)

\* map
Mapped(s, w) ==
  LET t == IF s.isFull[w] THEN FullAdded(s, w) ELSE s
      u == [t EXCEPT !.watched = [t.watched EXCEPT ![w] = @ + 1]]
  IN IF w \in Apps THEN MoveToItsOwn(u, w) ELSE u

(***************************************************************************)
(* Windows come and go.                                                    *)
(***************************************************************************)
\* A dialog appears where its application is.
Appeared(s, w, full) ==
  [Put(s, w, IF w \in Dialogs /\ Parent[w] \in Apps THEN s.at[Parent[w]] ELSE s.active)
     EXCEPT !.isFull = [s.isFull EXCEPT ![w] = full]]

MapWindow(w, full) ==
  /\ wsOf[w] = Absent
  /\ w \in Dialogs => ~full /\ (Parent[w] \in Apps => wsOf[Parent[w]] # Absent)
  /\ \A d \in Dialogs : Parent[d] = w => wsOf[d] = Absent   \* no orphans of a namesake
  /\ DeskBecome(Mapped(Appeared(DeskState, w, full), w))

\* destroy, handle_window_destruction; then the workspace loses the window, which is
\* no more.
Forgotten(s, w) ==
  [s EXCEPT !.isFull = [s.isFull EXCEPT ![w] = FALSE], !.min = [s.min EXCEPT ![w] = "no"],
            !.watched = [s.watched EXCEPT ![w] = 0]]
Close(w) ==
  /\ wsOf[w] # Absent
  /\ DeskBecome(Forgotten(Leave(FullRemoved(DeskState, w), w), w))

\* meta_window_fullscreen_notify_cb
Notified(s, w) == IF s.isFull[w] THEN FullAdded(s, w) ELSE FullRemoved(s, w)

\* It is called as often as it was connected.
FullscreenChanges(w) ==
  /\ w \in Apps /\ wsOf[w] # Absent
  /\ minimized[w] = "no" /\ (watched[w] = 1 \/ MinimizeFull)
  /\ LET s == [DeskState EXCEPT !.isFull = [isFull EXCEPT ![w] = ~isFull[w]]]
     IN DeskBecome(IF watched[w] = 1 THEN Notified(s, w) ELSE Notified(Notified(s, w), w))

\* minimize, and on_minimize_effect_complete
Minimize(w) ==
  /\ w \in Apps /\ wsOf[w] # Absent /\ minimized[w] = "no"
  /\ isFull[w] => MinimizeFull
  /\ DeskBecome([DeskState EXCEPT !.min = [minimized EXCEPT ![w] = "going"]])

MinimizeCompleted(w) ==
  /\ minimized[w] = "going"
  /\ DeskBecome(CheckEmpty([DeskState EXCEPT !.min = [minimized EXCEPT ![w] = "yes"]],
                           wsOf[w], w))

\* Bound: once per window.
Unminimize(w) ==
  /\ minimized[w] = "yes" /\ watched[w] < 2
  /\ DeskBecome(Mapped([DeskState EXCEPT !.min = [minimized EXCEPT ![w] = "no"]], w))

\* The user picks a window on another workspace.
SwitchTo(ws) ==
  /\ ws # activeWs /\ ws \in ToSet(wss)
  /\ DeskBecome(Activate(DeskState, ws))

(***************************************************************************)
(* The screen saver's window (dawati_netbook_display_window_created_cb,    *)
(* handle_window_destruction) and its extension (xevent_filter).           *)
(***************************************************************************)
SaverCreated == /\ ~saver
                /\ DeskBecome(Toggle([DeskState EXCEPT !.saver = TRUE], FALSE))

BackOn(s) == IF FullOn(s, s.active) THEN s ELSE Toggle(s, TRUE)

SaverDestroyed == /\ saver
                  /\ LET s == [DeskState EXCEPT !.saver = FALSE]
                     IN DeskBecome(IF dpms THEN s ELSE BackOn(s))

DpmsOn == /\ ~dpms
          /\ DeskBecome(Toggle([DeskState EXCEPT !.dpms = TRUE], FALSE))

DpmsOff == /\ dpms
           /\ LET s == [DeskState EXCEPT !.dpms = FALSE]
              IN DeskBecome(IF disabled /\ ~saver THEN BackOn(s) ELSE s)

DeskNext ==
  \/ \E w \in Windows :
       \/ \E full \in BOOLEAN : MapWindow(w, full)
       \/ Close(w) \/ FullscreenChanges(w)
       \/ Minimize(w) \/ MinimizeCompleted(w) \/ Unminimize(w)
  \/ \E ws \in WsIds : SwitchTo(ws)
  \/ SaverCreated \/ SaverDestroyed \/ DpmsOn \/ DpmsOff

DeskSpec == DeskInit /\ [][DeskNext]_deskVars

(***************************************************************************)
(* Properties.                                                             *)
(***************************************************************************)
\* Workspaces go with their last window, whatever closed, moved or was
\* minimized: none is empty unless it is the only one.
NoEmptyWorkspace ==
  Len(wss) > 1 => \A i \in DOMAIN wss : \E w \in Windows : wsOf[w] = wss[i]

\* "so that under no circumstance we leave a dangling pointer behind": the list
\* has every fullscreen window once and nothing else.
FullscreenListed ==
  /\ Once(fullWins)
  /\ ToSet(fullWins) = {w \in Windows : wsOf[w] # Absent /\ isFull[w]}

\* The compositor is off exactly while the screen is saved or the user looks at
\* a fullscreen window: panels and notifications are drawn whenever they could
\* be seen.
CompositorMatches ==
  disabled <=> \/ saver \/ dpms
               \/ \E w \in Windows : wsOf[w] = activeWs /\ isFull[w] /\ minimized[w] = "no"

\* The shell keeps account of what the windows do.
WorkspacesAreRight == NoEmptyWorkspace /\ FullscreenListed /\ CompositorMatches

\* "Move the window to the requested workspace; ... activate the workspace as
\* well": an application that appears, or comes back, is what the user then sees,
\* although its move may add a workspace by the way.  The exception: the move takes
\* away the workspace the window comes from.  The others are renumbered before
\* the target is looked up by its index, which is nobody's then, and the user stays
\* where he was.
MappedIsActive ==
  [][\A w \in Apps : watched'[w] > watched[w] =>
       \/ wsOf'[w] = activeWs'
       \/ wsOf[w] # Absent /\ wsOf[w] \notin ToSet(wss')]_deskVars
=============================================================================
