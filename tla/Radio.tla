------------------------------- MODULE Radio -------------------------------
(***************************************************************************)
(* Switching radios on and off: connman, and the toggle of a technology    *)
(* and of offline mode in the three programs that have one: the network    *)
(* pane (carrick-pane.c), and, on top of CarrickConnmanManager, the devices*)
(* panel (mpd-computer-tile.c) and the Bluetooth panel (dawati-bt-shell.c).*)
(*                                                                         *)
(* External: connman and the bus, which deliver in order what connman and  *)
(* the bus say.  A call to a connman that is not there fails; making a     *)
(* proxy does not need one.  One technology is modelled; all of them are   *)
(* handled alike.                                                          *)
(***************************************************************************)
EXTENDS Naturals, Sequences

CONSTANTS
  Uis,          \* the programs
  RefusesTech, RefusesOffline,    \* whom connman may refuse which call
  MaxToggles, MaxRadioChanges, MaxConnmanExits    \* bounds: what happens

ASSUME RadioAssumption == Uis \subseteq {"pane", "tile", "bluetooth"}

VARIABLES
  radio,     \* connman's: is the technology there, is it on, is offline mode on
  running,   \* connman is
  pending,   \* calls to it, in order
  making,    \* proxies for it that are being made
  news,      \* from connman and the bus, in order
  ui,        \* the program that is looked at
  panel,     \* the state of that program, see Programs
  did        \* history: how often what happened; lost: toggles that were not sent

radioVars == <<radio, running, pending, making, news, ui, panel, did>>

Keys == {"have", "tech", "offline"}    \* AvailableTechnologies, EnabledTechnologies, OfflineMode
Switched == {"tech", "offline"}
Null == {}
Lists == {Null, {TRUE}, {FALSE}}

\* cm: there is a proxy with its handler (in the pane, a daemon); known: CarrickConnmanManager's
\* properties, NULL or a list that says yes or no; own: the program's copies ("have": the row is visible);
\* toggle: the switches; blocks: how often their handlers are blocked.
Programs == [alive: BOOLEAN, cm: BOOLEAN, known: [Keys -> Lists],
             own: [Keys -> BOOLEAN], toggle: [Switched -> BOOLEAN], blocks: [Switched -> Nat]]

RadioCalls == [type: {"props"}] \cup [type: {"set"}, key: Switched, value: BOOLEAN]
RadioNews == [type: {"appeared", "vanished", "proxy"}]
             \cup [type: {"props"}, error: {TRUE}]
             \cup [type: {"props"}, error: {FALSE}, radio: [Keys -> BOOLEAN]]
             \cup [type: {"signal"}, key: Keys, value: BOOLEAN]
             \cup [type: {"reply"}, key: Switched, error: BOOLEAN]

RadioTypeOK ==
  /\ radio \in [Keys -> BOOLEAN] /\ running \in BOOLEAN /\ ui \in Uis
  /\ pending \in Seq(RadioCalls) /\ making \in Nat /\ news \in Seq(RadioNews)
  /\ panel \in Programs
  /\ did \in [toggles: Nat, changes: Nat, exits: Nat, lost: SUBSET Switched]

\* carrick_connman_manager_init, carrick_pane_init
Fresh(u) == [alive |-> TRUE, cm |-> u = "pane",
             known |-> [k \in Keys |-> IF k = "offline" THEN {FALSE} ELSE Null],
             own |-> [k \in Keys |-> FALSE], toggle |-> [k \in Switched |-> FALSE],
             blocks |-> [k \in Switched |-> 0]]
FirstAsks(u) == IF u = "pane" THEN <<[type |-> "props"]>> ELSE <<>>
FirstNews(u) == IF u = "pane" THEN <<>>
                ELSE <<[type |-> IF running THEN "appeared" ELSE "vanished"]>>

RadioInit ==
  /\ radio \in [Keys -> BOOLEAN] /\ (radio["tech"] => radio["have"] /\ ~radio["offline"])
  /\ running = TRUE /\ ui \in Uis /\ panel = Fresh(ui)
  /\ pending = FirstAsks(ui) /\ making = 0 /\ news = FirstNews(ui)
  /\ did = [toggles |-> 0, changes |-> 0, exits |-> 0, lost |-> {}]

(***************************************************************************)
(* Functions of the program's state s.                                     *)
(***************************************************************************)
\* dawati_bt_shell_update
UpdateShell(s) == [s EXCEPT !.toggle["tech"] = s.own["tech"]]

\* A NULL list is read past its end by both programs: they crash.
NullListEndsIt(s, key) == s.known[key] = Null
Says(s, key) == TRUE \in s.known[key]

\* _available_techs_changed
Available(s) ==
  IF NullListEndsIt(s, "have") THEN [s EXCEPT !.alive = FALSE]
  ELSE LET t == [s EXCEPT !.own["have"] = Says(s, "have")]
       IN IF ui = "bluetooth" /\ t.own["have"] # s.own["have"] THEN UpdateShell(t) ELSE t

\* _enabled_techs_changed: the devices panel sets its toggle in any case
Enabled(s) ==
  IF NullListEndsIt(s, "tech") THEN [s EXCEPT !.alive = FALSE]
  ELSE LET t == [s EXCEPT !.own["tech"] = Says(s, "tech")]
       IN CASE ui = "tile" -> [s EXCEPT !.toggle["tech"] = Says(s, "tech")]
            [] ui = "bluetooth" -> IF t.own["tech"] # s.own["tech"] THEN UpdateShell(t) ELSE s

\* _offline_mode_changed
Offline(s) == IF ui = "tile" THEN [s EXCEPT !.toggle["offline"] = Says(s, "offline")] ELSE s

\* carrick_connman_manager_set_available_techs, _set_enabled_techs,
\* _update_offline_mode: listeners are told if something changed
ManagerSets(s, key, v) ==
  IF s.known[key] = v THEN s
  ELSE LET t == [s EXCEPT !.known[key] = v]
       IN CASE key = "have"    -> Available(t)
            [] key = "tech"    -> Enabled(t)
            [] key = "offline" -> Offline(t)

\* pane_update_property; the handlers are blocked while it sets a switch
PaneUpdatesNoSwitch(s, key, v) ==            \* (mutant: the switch stays)
  [s EXCEPT !.own[key] = v]
PaneUpdates(s, key, v) ==
  LET t == [s EXCEPT !.own[key] = v]
  IN IF key \in Switched THEN [t EXCEPT !.toggle[key] = v] ELSE t

Property(s, key, v) ==
  IF ~s.alive THEN s ELSE IF ui = "pane" THEN PaneUpdates(s, key, v) ELSE ManagerSets(s, key, {v})

\* _connman_vanished_cb
Vanished(s) == LET t == ManagerSets([s EXCEPT !.cm = FALSE], "have", Null)
               IN IF t.alive THEN ManagerSets(t, "tech", Null) ELSE t

\* The end of a call that switches: wifi_switch_notify_cb and its like, offline_
\* switch_notify_cb, _connman_set_tech_state_cb and _connman_set_offline_mode_cb.
\* The manager's fake a change of "enabled-technologies", whatever failed.
SwitchDone(s, key, error) ==
  IF ui = "pane"
  THEN [s EXCEPT !.toggle[key] = IF error THEN s.own[key] ELSE s.toggle[key],
                 !.blocks[key] = s.blocks[key] - 1]
  ELSE IF error THEN Enabled(s) ELSE s

(***************************************************************************)
(* What the program gets, does and is asked to do.                         *)
(***************************************************************************)
\* A call for a connman that is gone fails at once.  A GDBus proxy calls the
\* connman it knows, the pane's proxy the one that runs.
Failure(c) == IF c.type = "props" THEN [type |-> "props", error |-> TRUE]
              ELSE [type |-> "reply", key |-> c.key, error |-> TRUE]
KnowsIt(queue) == ui = "pane" \/ \A i \in DOMAIN queue : queue[i].type # "vanished"
Send(c, queue) ==
  IF running /\ KnowsIt(queue)
  THEN pending' = Append(pending, c) /\ news' = queue
  ELSE UNCHANGED pending /\ news' = Append(queue, Failure(c))

\* pane_have_daemon (FALSE): the rows are hidden, of offline mode too; the signals
\* stay connected
NoDaemon(s) == [s EXCEPT !.cm = FALSE, !.own["have"] = FALSE]

Handled(s, m) ==
  CASE m.type = "proxy"    -> [s EXCEPT !.cm = TRUE]
    [] m.type = "appeared" -> [s EXCEPT !.cm = @ \/ ui = "pane"]
    [] m.type = "vanished" -> IF ui = "pane" THEN NoDaemon(s) ELSE Vanished(s)
    [] m.type = "props"    -> IF m.error THEN IF ui = "pane" THEN NoDaemon(s) ELSE s
                              ELSE Property(Property(Property(s, "have", m.radio["have"]),
                                                     "tech", m.radio["tech"]),
                                            "offline", m.radio["offline"])
    [] m.type = "signal"   -> IF s.cm \/ ui = "pane" THEN Property(s, m.key, m.value) ELSE s
    [] m.type = "reply"    -> SwitchDone(s, m.key, m.error)
    [] OTHER               -> s

\* what it asks for in return
Returns(m) ==
  \/ /\ ui # "pane" /\ m.type = "appeared" /\ making' = making + 1
     /\ news' = Tail(news) /\ UNCHANGED pending
  \/ /\ ui # "pane" /\ m.type = "proxy" /\ Send([type |-> "props"], Tail(news))
     /\ UNCHANGED making
  \/ /\ ui = "pane" \/ m.type \notin {"appeared", "proxy"}
     /\ news' = Tail(news) /\ UNCHANGED <<pending, making>>

Receive ==
  /\ panel.alive /\ news # <<>>
  /\ panel' = Handled(panel, Head(news)) /\ Returns(Head(news))
  /\ did' = [did EXCEPT !.lost = {k \in did.lost : ~(Head(news).type = "signal" /\ Head(news).key = k
                                                     /\ (ui = "pane" \/ panel'.known[k] # panel.known[k]))}]
  /\ UNCHANGED <<radio, running, ui>>

\* The program is still asking for connman's properties.
StillAsks == \/ making > 0 \/ \E i \in DOMAIN pending : pending[i].type = "props"
          \/ \E i \in DOMAIN news : news[i].type \in {"appeared", "proxy", "props"}

\* _wifi_switch_callback and its like, _offline_mode_switch_callback,
\* on_switch_toggled, _toggle_active_cb
ToggleSends(key, v) ==
  CASE ui = "pane"      -> panel.blocks[key] = 0
    [] ui = "tile"      -> panel.cm
    [] ui = "bluetooth" -> key = "tech" /\ panel.own["have"] /\ v # panel.own["tech"] /\ panel.cm

Visible(key) == IF ui = "pane" /\ key = "offline" THEN panel.cm ELSE panel.own["have"]

Toggle(key) ==
  LET v == ~panel.toggle[key]
      s == [panel EXCEPT !.toggle[key] = v]
  IN /\ panel.alive /\ Visible(key) /\ (ui = "bluetooth" => key = "tech")
     /\ did.toggles < MaxToggles
     /\ panel' = IF ui = "pane" /\ ToggleSends(key, v) THEN [s EXCEPT !.blocks[key] = 1] ELSE s
     /\ IF ToggleSends(key, v) THEN Send([type |-> "set", key |-> key, value |-> v], news)
        ELSE UNCHANGED <<pending, news>>
     /\ did' = [did EXCEPT !.toggles = @ + 1,
                           !.lost = IF (ui = "pane" /\ ~ToggleSends(key, v)) \/ StillAsks THEN @ \cup {key} ELSE @]
     /\ UNCHANGED <<radio, running, making, ui>>

\* The toolbar starts a panel that crashed anew.
Restart == /\ ~panel.alive /\ panel' = Fresh(ui)
           /\ pending' = FirstAsks(ui) /\ making' = 0 /\ news' = FirstNews(ui)
           /\ UNCHANGED <<radio, running, ui, did>>

(***************************************************************************)
(* Connman and the bus.                                                    *)
(***************************************************************************)
RadioSignals(before, after) ==
  LET one(k) == IF before[k] = after[k] THEN <<>>
                ELSE <<[type |-> "signal", key |-> k, value |-> after[k]]>>
  IN one("have") \o one("tech") \o one("offline")

\* Without the device, and in offline mode, no technology is on.
With(r, k, v) ==
  LET s == [r EXCEPT ![k] = v]
  IN IF ~s["have"] \/ (k = "offline" /\ v) THEN [s EXCEPT !["tech"] = FALSE] ELSE s

Served(replies) == pending' = Tail(pending) /\ news' = news \o replies

\* A technology that is not there, or is so already, is refused.
MustRefuse(c) == c.key = "tech" /\ (~radio["have"] \/ radio["tech"] = c.value)
CanRefuse(c) == ui \in (IF c.key = "tech" THEN RefusesTech ELSE RefusesOffline) \/ MustRefuse(c)

ServeSet(c) ==
  \/ CanRefuse(c) /\ Served(<<Failure(c)>>) /\ UNCHANGED radio
  \/ /\ ~MustRefuse(c) /\ radio' = With(radio, c.key, c.value)
     /\ LET signals == RadioSignals(radio, radio')
            done == <<[type |-> "reply", key |-> c.key, error |-> FALSE]>>
        IN Served(signals \o done) \/ Served(done \o signals)

Serve(c) ==
  /\ \/ c.type = "props" /\ Served(<<[type |-> "props", error |-> FALSE, radio |-> radio]>>)
        /\ UNCHANGED radio
     \/ c.type = "set" /\ ServeSet(c)
  /\ UNCHANGED <<running, making, ui, panel, did>>

\* GDBus has made a proxy.
ProxyMade ==
  /\ panel.alive /\ making > 0 /\ making' = making - 1
  /\ news' = Append(news, [type |-> "proxy"])
  /\ UNCHANGED <<radio, running, pending, ui, panel, did>>

\* A device comes or goes, or somebody else switches.
RadioChanges(k) ==
  /\ running /\ did.changes < MaxRadioChanges /\ did' = [did EXCEPT !.changes = @ + 1]
  /\ (k = "tech" => radio["have"])
  /\ radio' = With(radio, k, ~radio[k])
  /\ news' = IF panel.alive THEN news \o RadioSignals(radio, radio') ELSE news
  /\ UNCHANGED <<running, pending, making, ui, panel>>

\* It keeps offline mode, and finds its devices anew.  The calls it has not
\* answered fail.
ConnmanExits ==
  /\ running /\ did.exits < MaxConnmanExits /\ did' = [did EXCEPT !.exits = @ + 1]
  /\ running' = FALSE /\ radio' = With(radio, "have", FALSE)
  /\ pending' = <<>>
  /\ news' = IF panel.alive
             THEN Append(news, [type |-> "vanished"]) \o [i \in DOMAIN pending |-> Failure(pending[i])]
             ELSE news
  /\ UNCHANGED <<making, ui, panel>>

ConnmanStarts ==
  /\ ~running /\ running' = TRUE
  /\ news' = IF panel.alive THEN Append(news, [type |-> "appeared"]) ELSE news
  /\ UNCHANGED <<radio, pending, making, ui, panel, did>>

RadioNext ==
  \/ Receive \/ Restart \/ ProxyMade \/ ConnmanExits \/ ConnmanStarts
  \/ panel.alive /\ pending # <<>> /\ Serve(Head(pending))
  \/ \E k \in Keys : RadioChanges(k)
  \/ \E k \in Switched : Toggle(k)

RadioSpec == RadioInit /\ [][RadioNext]_radioVars

(***************************************************************************)
(* Properties.                                                             *)
(***************************************************************************)
Quiet == panel.alive /\ running /\ pending = <<>> /\ making = 0 /\ news = <<>>
Shows == IF ui = "bluetooth" THEN {"tech"} ELSE Switched

\* "UIs ... can now reset the toggle that the user foolishly imagined he could
\* toggle"
FailureResetsToggle ==
  Quiet => \A k \in Shows \ did.lost : Visible(k) => panel.toggle[k] = radio[k]

\* However toggling, connman's own changes, its exits and late answers interleave,
\* in the end a toggle that can be seen says what the radio does, and works; unless
\* it was toggled while an earlier call was pending, which the pane does not send,
\* or before connman's properties were known, or connman was started anew, which
\* the pane does not ask again.
TogglesFollow ==
  /\ (ui = "pane" /\ did.exits > 0) \/ FailureResetsToggle
  /\ Quiet => \A k \in Switched : panel.blocks[k] = 0
=============================================================================
