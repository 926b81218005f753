----------------------------- MODULE PanelShow -----------------------------
(***************************************************************************)
(* Showing and hiding the toolbar's panels.  A button toggle only sends a  *)
(* D-Bus call to the panel's process; the process maps or unmaps its       *)
(* window; the window manager tells the shell, which animates the window   *)
(* and, when the animation ends, toggles buttons again.  In between the    *)
(* user clicks on, panels hide or show themselves, and die.                *)
(*                                                                         *)
(* How a panel comes to the toolbar is PanelLink's subject; here Appears   *)
(* stands for append_panel and panel_ready_cb, Died for panel_died_cb.     *)
(***************************************************************************)
EXTENDS Naturals, Sequences, FiniteSets

CONSTANTS
  Panels,     \* the panels that have a button
  None,       \* no panel
  Modal,      \* whether a modal window may be there when a panel maps
  Uses,       \* how users and callers use the panels, see UseKinds
  MaxMoves,   \* bound: clicks, D-Bus requests and moves of the panels themselves
  MaxDeaths   \* bound: how often a panel's process dies

\* "overlap": one request is made while another is being carried out;
\* "reclick": a button is clicked while its panel is being hidden;
\* "activate": the shell (for the myzone) or a D-Bus caller shows a panel.
UseKinds == {"overlap", "reclick", "activate"}

ASSUME ShowAssumption == /\ None \notin Panels
                         /\ Modal \in BOOLEAN /\ Uses \subseteq UseKinds
                         /\ MaxMoves \in Nat /\ MaxDeaths \in Nat

VARIABLES
  panel,    \* what the shell keeps of each panel, see Slots
  bar,      \* what the toolbar keeps of all of them, see Bars
  up,       \* the panels whose process runs
  window,   \* the panels whose process has mapped its window
  events,   \* X's news about a panel's window: a sequence of "map", "unmap"
  wanted,   \* history: the panel the user or a caller last asked for
  told,     \* history: the panels whose window the shell had unmapped
  moves,    \* how many moves there were
  deaths    \* how many deaths

vars == <<panel, bar, up, window, events, wanted, told, moves, deaths>>

\* button: toggled; have: tp->panel # NULL; anim: in_show_animation or
\* in_hide_animation; dontHide: dont_hide_toolbar; calls: the Show and Hide
\* calls on their way to the process.
Slots == [button : BOOLEAN, have : BOOLEAN, pinged : BOOLEAN, failed : BOOLEAN,
          mapped : BOOLEAN, anim : {"none", "show", "hide"}, dontHide : BOOLEAN,
          calls : Seq({"Show", "Hide"})]

\* waiting: waiting_for_panel_show, timed if it has its one second timeout;
\* stub: stubbed_panel, stubTimer its timeout.
Bars == [waiting : BOOLEAN, timed : BOOLEAN, stub : Panels \cup {None},
         stubTimer : BOOLEAN]

TypeOK ==
  /\ panel \in [Panels -> Slots]
  /\ bar \in Bars
  /\ up \subseteq Panels /\ window \subseteq Panels
  /\ events \in [Panels -> Seq({"map", "unmap"})]
  /\ wanted \in Panels \cup {None} /\ told \subseteq Panels
  /\ moves \in Nat /\ deaths \in Nat

\* A panel whose object has just been created, or that has none.
NewSlot(r, there) == [r EXCEPT !.have = there, !.mapped = FALSE, !.anim = "none",
                               !.dontHide = FALSE, !.calls = <<>>]

\* Each panel runs already or has yet to start.
Init ==
  /\ up \in SUBSET Panels
  /\ panel = [p \in Panels |->
                [button |-> FALSE, have |-> p \in up, pinged |-> FALSE,
                 failed |-> FALSE, mapped |-> FALSE, anim |-> "none",
                 dontHide |-> FALSE, calls |-> <<>>]]
  /\ bar = [waiting |-> FALSE, timed |-> FALSE, stub |-> None,
            stubTimer |-> FALSE]
  /\ window = {} /\ events = [p \in Panels |-> <<>>]
  /\ wanted = None /\ told = {} /\ moves = 0 /\ deaths = 0

(***************************************************************************)
(* The handlers' common parts, as functions of the shell's state s, a      *)
(* record of panel and bar.                                                *)
(***************************************************************************)
State == [panel |-> panel, bar |-> bar]

\* mnb_panel_oop_show
ShowCall(r) == IF r.anim = "show" THEN r
               ELSE [r EXCEPT !.anim = "none", !.calls = Append(@, "Show")]

\* (mutants: the wrong method; the toolbar is not told to stay)
HideCallUnloads(r) == IF r.anim = "hide" THEN r
                      ELSE [r EXCEPT !.dontHide = TRUE, !.calls = Append(@, "Unload")]
HideCallOnly(r) == IF r.anim = "hide" THEN r
                   ELSE [r EXCEPT !.calls = Append(@, "Hide")]

\* mnb_panel_oop_hide
HideCall(r) == IF r.anim = "hide" THEN r
               ELSE [r EXCEPT !.dontHide = TRUE, !.calls = Append(@, "Hide")]

Mapped(r) == r.have /\ r.mapped

\* mnb_toolbar_button_toggled_cb for the panels whose button it is not.
\* (mutant: their windows stay)
TurnedFromButton(r) == [r EXCEPT !.button = FALSE, !.pinged = FALSE]
TurnedFrom(r) ==
  [(IF Mapped(r) THEN HideCall(r) ELSE r) EXCEPT !.button = FALSE, !.pinged = FALSE]

\* mnb_toolbar_button_toggled_cb: the button of p now is as s says; byUser is
\* button_click.  Toggles made by the handler itself are not handled.
Toggled(s, p, byUser) ==
  LET r == s.panel[p]
      show   == r.button /\ r.have /\ ~r.mapped
      hide   == ~r.button /\ Mapped(r)
      ask    == r.button /\ ~r.have /\ ~r.failed
      refuse == r.button /\ ~r.have /\ r.failed
      hold   == ~r.button /\ ~r.have /\ ~r.failed /\ byUser
      own    == CASE show   -> ShowCall(r)
                  [] hide   -> HideCall(r)
                  [] ask    -> [r EXCEPT !.pinged = TRUE]
                  [] refuse -> [r EXCEPT !.button = FALSE]
                  [] hold   -> [r EXCEPT !.button = TRUE]
                  [] OTHER  -> r
  IN [panel |-> [q \in Panels |-> IF q = p THEN own ELSE TurnedFrom(s.panel[q])],
      bar   |-> [s.bar EXCEPT
                   !.waiting   = @ \/ show \/ ask,
                   !.timed     = show \/ (@ /\ ~ask),
                   !.stub      = IF ask THEN p
                                 ELSE IF show /\ s.bar.stubTimer THEN None ELSE @,
                   !.stubTimer = ask \/ (@ /\ ~show)]]

SetButton(s, p, on) == [s EXCEPT !.panel[p].button = on]

\* mx_button_set_toggled by the program, where the button is not so already.
Toggle(s, p, on) == IF s.panel[p].button = on THEN s
                    ELSE Toggled(SetButton(s, p, on), p, FALSE)

\* mnb_toolbar_set_waiting_for_panel_show
\* (mutants: the timeout or the flag is forgotten)
StopWaitingFlag(s) == [s EXCEPT !.bar.waiting = FALSE]
StopWaitingTimer(s) == [s EXCEPT !.bar.timed = FALSE]
StopWaiting(s) == [s EXCEPT !.bar.waiting = FALSE, !.bar.timed = FALSE]

Become(s) == panel' = s.panel /\ bar' = s.bar

(***************************************************************************)
(* The user, and callers of the toolbar's D-Bus interface.                 *)
(***************************************************************************)
\* Nothing is under way: no call, no news, no animation, no timeout.
Quiet ==
  /\ \A p \in Panels : /\ panel[p].calls = <<>> /\ events[p] = <<>>
                       /\ panel[p].anim = "none"
                       /\ panel[p].have <=> p \in up
  /\ ~bar.timed /\ ~bar.stubTimer

Move == /\ moves < MaxMoves /\ moves' = moves + 1
        /\ "overlap" \notin Uses => Quiet

\* A click on a panel's button that is not refused (clicks that would hide the
\* last thing on the screen or come under a modal window change nothing).
Click(p) ==
  /\ Move
  /\ panel[p].anim = "hide" => "reclick" \in Uses
  /\ Become(Toggled(SetButton(State, p, ~panel[p].button), p, TRUE))
  /\ wanted' = IF panel'[p].button THEN p ELSE None
  /\ UNCHANGED <<up, window, events, told, deaths>>

\* mnb_toolbar_activate_panel_internal
Activate(p) ==
  /\ "activate" \in Uses /\ Move
  /\ ~Mapped(panel[p])
  /\ LET s == [panel |-> [q \in Panels |->
                            IF q = p
                            THEN IF panel[q].have THEN ShowCall(panel[q]) ELSE panel[q]
                            ELSE IF Mapped(panel[q]) THEN HideCall(panel[q])
                            ELSE panel[q]],
               bar |-> IF panel[p].have
                       THEN [bar EXCEPT !.waiting = TRUE, !.timed = TRUE] ELSE bar]
     IN Become(IF panel[p].have THEN s ELSE Toggle(s, p, TRUE))
  /\ wanted' = IF panel[p].have \/ ~panel[p].failed THEN p ELSE wanted
  /\ UNCHANGED <<up, window, events, told, deaths>>

\* mnb_toolbar_dbus_hide_panel
HidePanel(p) ==
  /\ Move
  /\ Mapped(panel[p])
  /\ panel' = [panel EXCEPT ![p] = HideCall(@)]
  /\ wanted' = IF wanted = p THEN None ELSE wanted
  /\ UNCHANGED <<bar, up, window, events, told, deaths>>

(***************************************************************************)
(* The panels' processes and the X server.                                 *)
(***************************************************************************)
\* The window of p is mapped or not from now on; news only if that changes.
SetWindow(p, on) ==
  /\ window' = IF on THEN window \cup {p} ELSE window \ {p}
  /\ events' = IF on = (p \in window) THEN events
               ELSE [events EXCEPT ![p] = Append(@, IF on THEN "map" ELSE "unmap")]

\* mnb_panel_dbus_show and mnb_panel_dbus_hide
HandleCall(p) ==
  /\ p \in up /\ panel[p].calls # <<>>
  /\ SetWindow(p, Head(panel[p].calls) = "Show")
  /\ panel' = [panel EXCEPT ![p].calls = Tail(@)]
  /\ told' = IF Head(panel[p].calls) = "Show" THEN told \ {p}
             ELSE IF p \in window THEN told \cup {p} ELSE told
  /\ UNCHANGED <<bar, up, wanted, moves, deaths>>

\* mpl_panel_client_hide, e.g. when the panel has launched an application, and
\* mpl_panel_client_show, which some panels use to present news.
MoveItself(p, on) ==
  /\ Move
  /\ p \in up /\ panel[p].have /\ on # (p \in window)
  /\ SetWindow(p, on) /\ told' = told \ {p}
  /\ wanted' = IF on THEN p ELSE IF wanted = p THEN None ELSE wanted
  /\ UNCHANGED <<panel, bar, up, deaths>>

Die(p) ==
  /\ p \in up /\ deaths < MaxDeaths /\ deaths' = deaths + 1
  /\ up' = up \ {p}
  /\ SetWindow(p, FALSE) /\ told' = told \ {p}
  /\ panel' = [panel EXCEPT ![p].calls = <<>>]
  /\ wanted' = IF wanted = p THEN None ELSE wanted
  /\ UNCHANGED <<bar, moves>>

(***************************************************************************)
(* The shell: the link's news, the window manager's, animations, timeouts. *)
(***************************************************************************)
\* mnb_toolbar_panel_died_cb; the dead window's events find no panel any more.
Died(p) ==
  /\ panel[p].have /\ p \notin up
  /\ panel' = [panel EXCEPT ![p] = NewSlot(@, FALSE)]
  /\ events' = [events EXCEPT ![p] = <<>>]
  /\ UNCHANGED <<bar, up, window, wanted, told, moves, deaths>>

\* (mutant: the panel that was waited for is not shown)
AppearsOnly(p) ==
  /\ ~panel[p].have
  /\ up' = up \cup {p}
  /\ panel' = [panel EXCEPT ![p] = [NewSlot(@, TRUE) EXCEPT !.failed = FALSE,
                                                          !.pinged = FALSE]]
  /\ bar' = [bar EXCEPT !.stubTimer = @ /\ ~panel[p].pinged]
  /\ UNCHANGED <<window, events, wanted, told, moves, deaths>>

\* A new process is ready: mnb_toolbar_append_panel, mnb_toolbar_panel_ready_cb.
Appears(p) ==
  /\ ~panel[p].have
  /\ up' = up \cup {p}
  /\ LET r == [NewSlot(panel[p], TRUE) EXCEPT !.failed = FALSE, !.pinged = FALSE]
     IN IF panel[p].pinged
        THEN /\ panel' = [panel EXCEPT ![p] = ShowCall(r)]
             /\ bar' = [bar EXCEPT !.stubTimer = FALSE]
        ELSE /\ panel' = [panel EXCEPT ![p] = r]
             /\ UNCHANGED bar
  /\ UNCHANGED <<window, events, wanted, told, moves, deaths>>

News(p, what) == /\ events[p] # <<>> /\ Head(events[p]) = what
                 /\ events' = [events EXCEPT ![p] = Tail(@)]

\* map: mnb_panel_oop_show_mutter_window and mnb_panel_oop_show_animate, unless
\* a modal window is there.
WindowMapped(p) ==
  /\ News(p, "map")
  /\ \/ /\ panel' = [panel EXCEPT ![p].mapped = TRUE, ![p].anim = "show"]
        /\ UNCHANGED wanted
     \/ /\ Modal
        /\ panel' = [panel EXCEPT ![p] = HideCall(@)]
        /\ wanted' = IF wanted = p THEN None ELSE wanted
  /\ UNCHANGED <<bar, up, window, told, moves, deaths>>


\* mnb_panel_oop_show_completed_cb, then "show-completed":
\* mnb_toolbar_dropdown_show_completed_partial_cb.
ShowCompleted(p) ==
  /\ panel[p].anim = "show"
  /\ LET s == [State EXCEPT !.panel[p].anim = "none", !.panel[p].dontHide = FALSE]
         t == StopWaiting(Toggle(s, p, TRUE))
     IN Become([t EXCEPT !.bar.stub = None])
  /\ UNCHANGED <<up, window, events, wanted, told, moves, deaths>>

\* (mutant: the button is not released)
WindowUnmappedOnly(p) ==
  /\ News(p, "unmap")
  /\ panel' = IF panel[p].anim = "hide" THEN panel
              ELSE [panel EXCEPT ![p].anim = "hide",
                                 ![p].dontHide = @ /\ panel[p].anim # "show"]
  /\ UNCHANGED <<bar, up, window, wanted, told, moves, deaths>>

\* (mutant: the window counts as unmapped before its animation has ended)
WindowUnmappedAtOnce(p) ==
  /\ News(p, "unmap")
  /\ IF panel[p].anim = "hide" THEN UNCHANGED <<panel, bar>>
     ELSE Become(Toggle([State EXCEPT
                           !.panel[p].anim = "hide", !.panel[p].mapped = FALSE,
                           !.panel[p].dontHide = @ /\ panel[p].anim # "show"],
                        p, FALSE))
  /\ UNCHANGED <<up, window, wanted, told, moves, deaths>>

\* destroy: mnb_panel_oop_hide_animate
WindowUnmapped(p) ==
  /\ News(p, "unmap")
  /\ IF panel[p].anim = "hide" THEN UNCHANGED <<panel, bar>>
     ELSE Become(Toggle([State EXCEPT
                           !.panel[p].anim = "hide",
                           !.panel[p].dontHide = @ /\ panel[p].anim # "show"],
                        p, FALSE))
  /\ UNCHANGED <<up, window, wanted, told, moves, deaths>>

\* (mutant: the panel counts as mapped for ever)
HideCompletedMapped(p) ==
  /\ panel[p].anim = "hide"
  /\ panel' = [panel EXCEPT ![p].anim = "none"]
  /\ UNCHANGED <<bar, up, window, events, wanted, told, moves, deaths>>

\* mnb_panel_oop_hide_completed_cb; unless dontHide it asks the toolbar, which
\* is not modelled here, to hide too.
HideCompleted(p) ==
  /\ panel[p].anim = "hide"
  /\ panel' = [panel EXCEPT ![p].anim = "none", ![p].mapped = FALSE]
  /\ UNCHANGED <<bar, up, window, events, wanted, told, moves, deaths>>

\* mnb_toolbar_waiting_for_panel_show_cb
WaitTimeout ==
  /\ bar.timed
  /\ Become(StopWaiting(State))
  /\ UNCHANGED <<up, window, events, wanted, told, moves, deaths>>

\* mnb_toolbar_panel_stub_timeout_cb
StubTimeout ==
  /\ bar.stubTimer
  /\ LET s == StopWaiting([State EXCEPT !.bar.stub = None, !.bar.stubTimer = FALSE])
         p == bar.stub
     IN IF p # None /\ panel[p].button
        THEN Become(Toggle([s EXCEPT !.panel[p].pinged = FALSE,
                                     !.panel[p].failed = TRUE], p, FALSE))
        ELSE Become(s)
  /\ wanted' = IF wanted = bar.stub THEN None ELSE wanted
  /\ UNCHANGED <<up, window, events, told, moves, deaths>>

Next ==
  \/ \E p \in Panels :
       \/ Click(p) \/ Activate(p) \/ HidePanel(p)
       \/ HandleCall(p) \/ MoveItself(p, TRUE) \/ MoveItself(p, FALSE)
       \/ Die(p) \/ Died(p) \/ Appears(p)
       \/ WindowMapped(p) \/ ShowCompleted(p)
       \/ WindowUnmapped(p) \/ HideCompleted(p)
  \/ WaitTimeout \/ StubTimeout

\* Processes answer, news arrive, animations end and timeouts fire.
Fairness ==
  /\ \A p \in Panels :
       /\ WF_vars(HandleCall(p)) /\ WF_vars(Died(p))
       /\ WF_vars(WindowMapped(p)) /\ WF_vars(WindowUnmapped(p))
       /\ WF_vars(ShowCompleted(p)) /\ WF_vars(HideCompleted(p))
  /\ WF_vars(WaitTimeout) /\ WF_vars(StubTimeout)

Spec == Init /\ [][Next]_vars
FairSpec == Spec /\ Fairness

(***************************************************************************)
(* Properties.                                                             *)
(***************************************************************************)
Active == {p \in Panels : Mapped(panel[p])}

\* When all is quiet at most one panel covers the screen.
OneActive == Quiet => Cardinality(Active) <= 1

\* ... the toolbar believes a panel is shown exactly if its window is mapped.
MappedIsWindow == Quiet => \A p \in Panels : panel[p].have =>
                                               (panel[p].mapped <=> p \in window)

\* Why that is so: what the shell knows of a window, X's news on the way, and the
\* window as it is make one story, in which every piece of news is a change.
Change(on) == IF on THEN "map" ELSE "unmap"
Coherent(known, news, on) ==
  /\ IF news = <<>> THEN known = on
     ELSE news[1] = Change(~known) /\ news[Len(news)] = Change(on)
  /\ \A i \in 1..(Len(news) - 1) : news[i] # news[i + 1]

\* The shell knows of a mapped window from its map event to its unmap event.
Knows(r) == r.mapped /\ r.anim # "hide"

Belief(p) ==
  /\ Coherent(Knows(panel[p]), events[p], p \in window)
  /\ panel[p].anim # "none" => panel[p].mapped
  /\ p \in window => p \in up
  /\ p \in up \/ events[p] # <<>> => panel[p].have

\* The story of each panel's window is coherent, only a panel whose window is
\* known to be mapped is animated, and none has news or a window that the
\* toolbar does not have (without modal windows).
Beliefs == \A p \in Panels : Belief(p)

\* ... the button of a panel is down exactly if the panel is shown.
ButtonMatches == Quiet => \A p \in Panels : panel[p].have =>
                                              (panel[p].button <=> panel[p].mapped)

\* ... the panel asked for last is the one that is shown.
LastWins == Quiet /\ wanted # None => Mapped(panel[wanted])

\* A panel that is being hidden because the shell asked it to (another panel's
\* button, a modal window) will not take the toolbar with it ...
ToldKeepsToolbar == \A p \in Panels :
  panel[p].anim = "hide" /\ p \in told => panel[p].dontHide

\* ... and one that hides of its own accord will.
SelfTakesToolbar == \A p \in Panels :
  panel[p].anim = "hide" /\ p \notin told => ~panel[p].dontHide

\* Who hides a panel decides, until its animation ends, what becomes of the toolbar.
HiderDecides == ToldKeepsToolbar /\ SelfTakesToolbar

\* The handlers, which toggle buttons and so call each other, come to rest once
\* nobody asks for anything more.
Settles == <>[]Quiet

\* The wait for a panel ends.
WaitEnds == bar.waiting ~> ~bar.waiting
=============================================================================
