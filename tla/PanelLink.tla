----------------------------- MODULE PanelLink -----------------------------
(***************************************************************************)
(* The D-Bus life cycle of one out-of-process panel of the toolbar: the    *)
(* panel process (libdawati-panel, mpl-panel-client.c), the session bus,   *)
(* and the toolbar side, i.e. the MnbPanelOop objects (mnb-panel-oop.c)    *)
(* and the toolbar's slot for the panel (mnb-toolbar.c).  Panels have      *)
(* distinct service names and every list the toolbar keeps is keyed on the *)
(* name, so one instance of this module is one panel.                      *)
(*                                                                         *)
(* The bus keeps one connection's messages in order: "wire" is what it has *)
(* sent to the toolbar about this service and "calls" what it will deliver *)
(* to the service's owner (or holds while it is activating the service).   *)
(***************************************************************************)
EXTENDS Naturals, Sequences, FiniteSets

CONSTANTS
  Autoload,       \* ~priv->no_autoloading: restart panels that die
  Faults,         \* what the environment may do wrong, see FaultKinds
  MaxStarts,      \* bound: how often the panel process gets its name
  MaxToolbars,    \* bound: how often the toolbar process starts
  MaxCalls,       \* bound: length of calls at which the user stops clicking
  MaxFaults       \* bound: how often InitPanel times out or fails

\* "handshake death": the panel process dies between answering InitPanel and
\* being appended; "timeout": InitPanel is not answered within D-Bus's 25 s;
\* "init error": InitPanel returns FALSE; "hasty click": the user clicks the button
\* of a panel that shows itself, before its window's animation has ended.
FaultKinds == {"handshake death", "timeout", "init error", "hasty click"}

ASSUME LinkAssumption == /\ Autoload \in BOOLEAN
                         /\ Faults \subseteq FaultKinds
                         /\ MaxStarts \in Nat /\ MaxToolbars \in Nat
                         /\ MaxCalls \in Nat /\ MaxFaults \in Nat

VARIABLES
  proc,     \* the panel process: "down", "starting" (no name yet) or "up"
  inc,      \* which start of it this is; names its unique bus name and xid
  emitted,  \* priv->ready_emitted of the client
  known,    \* the toolbar's match rule for Ready precedes anything it emits
  calls,    \* method calls on their way to the service name
  wire,     \* messages on their way to the toolbar
  phase,    \* toolbar: "down", "listing" (ListNames sent) or "connected"
  runs,     \* how often it started
  objs,     \* every MnbPanelOop created for the service in this toolbar
  pending,  \* occurrences of the service in priv->pending_panels
  listed,   \* there is a MnbToolbarPanel tp for the service
  kept,     \* ... and has been since the toolbar started
  panel,    \* tp->panel, as an index of objs (0 is NULL)
  tpReady,  \* tp->ready
  toggled,  \* tp->button is down
  pinged,   \* tp->pinged
  failed,   \* tp->failed
  stub,     \* tp is priv->stubbed_panel and the stub timeout is armed
  faults    \* how many faults happened

procVars == <<proc, inc, emitted, known>>
tpVars   == <<panel, tpReady, toggled, pinged, failed, stub>>
vars == <<proc, inc, emitted, known, calls, wire, phase, runs, objs, pending,
          listed, kept, panel, tpReady, toggled, pinged, failed, stub, faults>>

\* Calls and messages name objects that exist, n being their number.
CallsFor(n) == [op : {"InitPanel", "Ping", "Show", "Unload"}, obj : 0..n]
MessagesTo(n) == [kind : {"names", "owner", "gone", "ready", "reply", "error"},
                  objs : SUBSET (1..n), inc : Nat]

\* owner: the incarnation proxy_for_owner is bound to (0 is NULL); xid: the one
\* whose InitPanel reply, and so window, it holds; fresh: append_panel is still
\* connected to "ready"; alive: not disposed (replaced objects are leaked).
Objects == [owner : Nat, xid : Nat, initialized : BOOLEAN, ready : BOOLEAN,
            fresh : BOOLEAN, alive : BOOLEAN]

NewObject == [owner |-> 0, xid |-> 0, initialized |-> FALSE, ready |-> FALSE,
              fresh |-> TRUE, alive |-> TRUE]

Message(kind, ks, i) == [kind |-> kind, objs |-> ks, inc |-> i]
Call(op, obj) == [op |-> op, obj |-> obj]

TypeOK ==
  /\ proc \in {"down", "starting", "up"}
  /\ inc \in Nat /\ runs \in Nat /\ pending \in Nat /\ faults \in Nat
  /\ emitted \in BOOLEAN /\ known \in BOOLEAN
  /\ calls \in Seq(CallsFor(Len(objs)))
  /\ wire \in Seq(MessagesTo(Len(objs)))
  /\ phase \in {"down", "listing", "connected"}
  /\ objs \in Seq(Objects)
  /\ listed \in BOOLEAN /\ kept \in BOOLEAN
  /\ panel \in 0..Len(objs)
  /\ tpReady \in BOOLEAN /\ toggled \in BOOLEAN /\ pinged \in BOOLEAN
  /\ failed \in BOOLEAN /\ stub \in BOOLEAN

Init ==
  /\ proc = "down" /\ inc = 0 /\ emitted = FALSE /\ known = FALSE
  /\ calls = <<>> /\ wire = <<>>
  /\ phase = "down" /\ runs = 0 /\ objs = <<>> /\ pending = 0
  /\ listed = FALSE /\ kept = FALSE
  /\ panel = 0 /\ tpReady = FALSE /\ toggled = FALSE
  /\ pinged = FALSE /\ failed = FALSE /\ stub = FALSE
  /\ faults = 0

(***************************************************************************)
(* The bus.                                                                *)
(***************************************************************************)
\* The toolbar only receives what is sent while it is connected to the bus.
Deliver(ms) == wire' = IF phase = "down" THEN wire ELSE wire \o ms

\* A call to a name nobody owns makes the bus activate the service.
Activate == IF proc = "down" THEN "starting" ELSE proc

Send(cs) == /\ calls' = calls \o cs
            /\ proc' = IF cs = <<>> THEN proc ELSE Activate

\* The calls nobody will answer get errors, back to back; those of the other
\* calls go to dumb_reply_cb and ping_cb, which ignore them.
Unanswered(cs) ==
  LET ks == {cs[i].obj : i \in {j \in 1..Len(cs) : cs[j].op = "InitPanel"}} \ {0}
  IN IF ks = {} THEN <<>> ELSE <<Message("error", ks, 0)>>

(***************************************************************************)
(* The panel process.                                                      *)
(***************************************************************************)
\* Something other than the toolbar (the session, the user) runs the panel.
StartProcess == /\ proc = "down" /\ proc' = "starting"
                /\ UNCHANGED <<inc, emitted, known, calls, wire, phase, runs, objs,
                               pending, listed, kept, tpVars, faults>>

\* mpl_panel_client_connect_to_dbus: the name is acquired.
AcquireName ==
  /\ proc = "starting" /\ inc < MaxStarts
  /\ proc' = "up" /\ inc' = inc + 1
  /\ emitted' = FALSE /\ known' = FALSE
  /\ Deliver(<<Message("owner", {}, inc + 1)>>)
  /\ UNCHANGED <<calls, phase, runs, objs, pending, listed, kept, tpVars, faults>>

\* The process exits before it owns the name: activation fails.
ActivationFails ==
  /\ proc = "starting"
  /\ proc' = "down"
  /\ Deliver(Unanswered(calls))
  /\ calls' = <<>>
  /\ UNCHANGED <<inc, emitted, known, phase, runs, objs, pending, listed, kept,
                 tpVars, faults>>

\* The idle (or the application, for a delayed-ready panel) announces itself.
\* A toolbar that has not yet asked for the signal may miss it.
EmitReady ==
  /\ proc = "up" /\ ~emitted
  /\ emitted' = TRUE
  /\ \/ Deliver(<<Message("ready", {}, inc)>>)
     \/ ~known /\ UNCHANGED wire
  /\ UNCHANGED <<proc, inc, known, calls, phase, runs, objs, pending, listed, kept,
                 tpVars, faults>>

\* The toolbar may have missed Ready: whoever asks late is told again.
NoAnnouncement == <<>>   \* (mutant: Ready is sent once)
Announcement == IF emitted THEN <<Message("ready", {}, inc)>> ELSE <<>>

\* mnb_panel_dbus_init_panel
InitPanel ==
  /\ proc = "up" /\ calls # <<>> /\ Head(calls).op = "InitPanel"
  /\ calls' = Tail(calls)
  /\ LET k == Head(calls).obj
         reply == IF k = 0 THEN <<>> ELSE <<Message("reply", {k}, inc)>>
     IN /\ known' = (known \/ k # 0)
        /\ \/ Deliver(Announcement \o reply) /\ UNCHANGED faults
           \/ /\ "init error" \in Faults /\ faults < MaxFaults
              /\ Deliver(<<Message("error", {k} \ {0}, 0)>>)
              /\ faults' = faults + 1
  /\ UNCHANGED <<proc, inc, emitted, phase, runs, objs, pending, listed, kept, tpVars>>

\* mnb_panel_dbus_ping, mnb_panel_dbus_show and mnb_panel_dbus_unload: nothing
\* the link depends on.  That the default handler of "unload" quits no main loop,
\* g_main_loop_quit being given NULL, leaves the process running.
OtherCall ==
  /\ proc = "up" /\ calls # <<>> /\ Head(calls).op # "InitPanel"
  /\ calls' = Tail(calls)
  /\ UNCHANGED <<procVars, wire, phase, runs, objs, pending, listed, kept, tpVars,
                 faults>>

\* The bus drops the names of a connection, then fails its pending calls.
Exit == /\ proc' = "down" /\ emitted' = FALSE /\ known' = FALSE
        /\ UNCHANGED <<inc, phase, runs, objs, pending, listed, kept, tpVars, faults>>

\* Between its answer to InitPanel and the toolbar's append_panel.
InHandshake ==
  \/ \E i \in 1..Len(wire) : wire[i].kind = "reply" /\ wire[i].inc = inc
  \/ \E k \in 1..Len(objs) : objs[k].alive /\ objs[k].fresh /\ objs[k].xid = inc

Die ==
  /\ proc = "up"
  /\ InHandshake => "handshake death" \in Faults
  /\ Deliver(<<Message("gone", {}, inc)>> \o Unanswered(calls))
  /\ calls' = <<>>
  /\ Exit

(***************************************************************************)
(* The toolbar.                                                            *)
(***************************************************************************)
\* mnb_toolbar_constructed: the settings give the panels, then ListNames.
StartToolbar ==
  /\ phase = "down" /\ runs < MaxToolbars
  /\ phase' = "listing" /\ runs' = runs + 1
  /\ listed' = TRUE /\ kept' = TRUE
  /\ wire' = <<Message("names", {}, IF proc = "up" THEN inc ELSE 0)>>
  /\ UNCHANGED <<procVars, calls, objs, pending, tpVars, faults>>

\* The shell dies.  Replies to its calls go nowhere.
ToolbarDies ==
  /\ phase # "down"
  /\ phase' = "down" /\ wire' = <<>> /\ objs' = <<>> /\ pending' = 0
  /\ listed' = FALSE /\ kept' = FALSE
  /\ panel' = 0 /\ tpReady' = FALSE /\ toggled' = FALSE
  /\ pinged' = FALSE /\ failed' = FALSE /\ stub' = FALSE
  /\ known' = FALSE
  /\ calls' = [i \in 1..Len(calls) |-> [calls[i] EXCEPT !.obj = 0]]
  /\ UNCHANGED <<proc, inc, emitted, runs, faults>>

\* mnb_toolbar_remove_panel_from_pending: one occurrence of the name, if any;
\* here called n times.
UnlistBlindly(n) == pending - n   \* (mutant: the list is assumed to hold them)
Unlist(n) == IF pending > n THEN pending - n ELSE 0

\* mnb_toolbar_handle_dbus_name, from the objects os and the list ps: a new
\* object, whose construction calls InitPanel, joins the pending list.
HandleName(os, ps) ==
  /\ objs' = Append(os, NewObject)
  /\ pending' = ps + 1
  /\ Send(<<Call("InitPanel", Len(os) + 1)>>)

Receive(kind) == /\ phase # "down" /\ wire # <<>>
                 /\ Head(wire).kind = kind
                 /\ wire' = Tail(wire)

\* mnb_toolbar_dbus_list_names_cb; from here on noc_cb is connected.
ListNamesReply ==
  /\ Receive("names")
  /\ phase' = "connected"
  /\ IF Head(wire).inc # 0 /\ proc = "up" /\ listed
     THEN HandleName(objs, pending)
     ELSE UNCHANGED <<objs, pending, calls, proc>>
  /\ UNCHANGED <<inc, emitted, known, runs, listed, kept, tpVars, faults>>

\* The pending list tells that ListNames' answer led here first.
NeverHandling == FALSE   \* (mutant: the list is not looked at)
AlreadyHandling == pending # 0

\* mnb_toolbar_noc_cb with a new owner.
NameAcquired ==
  /\ Receive("owner")
  /\ IF AlreadyHandling
     THEN UNCHANGED <<objs, pending, calls, proc>>
     ELSE HandleName(objs, pending)
  /\ UNCHANGED <<inc, emitted, known, phase, runs, listed, kept, tpVars, faults>>

\* mnb_panel_oop_dbus_proxy_weak_notify_cb on every object bound to the owner.
Orphan(i) == [k \in 1..Len(objs) |->
                IF objs[k].owner = i
                THEN [objs[k] EXCEPT !.owner = 0, !.ready = FALSE]
                ELSE objs[k]]

\* noc_cb ignores a name without an owner; the proxy of the dead owner reports
\* the death to the toolbar only for the object in tp->panel
\* (mnb_toolbar_panel_died_cb), which gives it up and restarts the service.
OwnerGone ==
  /\ Receive("gone")
  /\ IF panel # 0 /\ objs[panel].owner = Head(wire).inc
     THEN /\ panel' = 0
          /\ IF Autoload
             THEN HandleName(Orphan(Head(wire).inc), Unlist(1))
             ELSE /\ objs' = Orphan(Head(wire).inc)
                  /\ pending' = Unlist(1)
                  /\ UNCHANGED <<calls, proc>>
     ELSE /\ objs' = Orphan(Head(wire).inc)
          /\ UNCHANGED <<panel, pending, calls, proc>>
  /\ UNCHANGED <<inc, emitted, known, phase, runs, listed, kept, tpReady, toggled,
                 pinged, failed, stub, faults>>

\* mnb_toolbar_panel_ready_cb in a slot that now has a panel.
PanelReady ==
  /\ tpReady' = TRUE /\ failed' = FALSE /\ pinged' = FALSE
  /\ stub' = (stub /\ ~pinged)
  /\ Send(IF pinged THEN <<Call("Show", 0)>> ELSE <<>>)
  /\ UNCHANGED toggled

\* "ready" is emitted by the objects ks of os: mnb_toolbar_append_panel for
\* each that still is fresh, the last one keeps the slot (the objects it
\* disposes of are disconnected and leaked), then PanelReady.  Without a slot
\* the panel is unknown and nothing but the pending list moves.
AppendPanels(os, ks) ==
  IF ks = {}
  THEN objs' = os /\ UNCHANGED <<pending, calls, proc, tpVars>>
  ELSE IF ~listed
  THEN /\ objs' = os
       /\ pending' = Unlist(Cardinality(ks))
       /\ UNCHANGED <<calls, proc, tpVars>>
  ELSE /\ \E last \in ks : panel' = last
       /\ objs' = [k \in 1..Len(os) |->
                     IF k \in ks THEN [os[k] EXCEPT !.fresh = FALSE] ELSE os[k]]
       /\ pending' = Unlist(IF panel = 0 THEN 2 * Cardinality(ks) - 1
                                         ELSE 2 * Cardinality(ks))
       /\ PanelReady

\* mnb_panel_oop_ready_cb in every object, leaked ones included.
ReadySignal ==
  /\ Receive("ready")
  /\ LET os == [k \in 1..Len(objs) |->
                  IF objs[k].alive THEN [objs[k] EXCEPT !.ready = TRUE] ELSE objs[k]]
     IN AppendPanels(os, {k \in 1..Len(os) :
                            os[k].alive /\ os[k].initialized /\ os[k].fresh})
  /\ UNCHANGED <<inc, emitted, known, phase, runs, listed, kept, faults>>

\* mnb_panel_oop_init_panel_oop_reply_cb, success.  The owner's proxy is bound
\* to whoever owns the name now, which need not be who answered.
InitializeUnwatched(k, i) == [objs EXCEPT ![k].xid = i,   \* (mutant: no proxy
                                          ![k].initialized = TRUE]  \* for the owner)
Initialize(k, i) == [objs EXCEPT ![k].owner = IF proc = "up" THEN inc ELSE 0,
                                 ![k].xid = i,
                                 ![k].initialized = TRUE]

InitReply ==
  /\ Receive("reply")
  /\ \E k \in Head(wire).objs :
       IF objs[k].alive
       THEN AppendPanels(Initialize(k, Head(wire).inc),
                         IF objs[k].ready THEN {k} ELSE {})
       ELSE UNCHANGED <<objs, pending, calls, proc, tpVars>>
  /\ UNCHANGED <<inc, emitted, known, phase, runs, listed, kept, faults>>

\* The living objects ks whose InitPanel failed are unreferenced; their
\* "destroy" handler (mnb_toolbar_panel_destroy_cb) unlists their name.
Destroy(ks) ==
  /\ objs' = [k \in 1..Len(objs) |->
                IF k \in ks THEN [objs[k] EXCEPT !.alive = FALSE] ELSE objs[k]]
  /\ pending' = Unlist(Cardinality(ks))
  /\ panel' = IF panel \in ks THEN 0 ELSE panel

InitError ==
  /\ Receive("error")
  /\ Destroy({k \in Head(wire).objs : objs[k].alive})
  /\ UNCHANGED <<procVars, calls, phase, runs, listed, kept, tpReady, toggled, pinged,
                 failed, stub, faults>>

\* The D-Bus library gives up on an InitPanel: the error reply is its own.
InitTimeout ==
  /\ "timeout" \in Faults /\ faults < MaxFaults
  /\ faults' = faults + 1
  /\ \E k \in 1..Len(objs) : /\ objs[k].alive /\ ~objs[k].initialized
                             /\ Destroy({k})
  /\ UNCHANGED <<procVars, calls, wire, phase, runs, listed, kept, tpReady, toggled,
                 pinged, failed, stub>>

(***************************************************************************)
(* The user and the settings.                                              *)
(***************************************************************************)
\* The panel is not there, may come, and its button is up.  A click on a button
\* that is down while there is no panel only puts it back.
CanAsk == listed /\ panel = 0 /\ ~toggled /\ ~failed

\* mnb_toolbar_button_toggled_cb on a panel that is not there:
\* mnb_toolbar_show_pending_panel pings the service and shows the stub, with a new
\* timeout even if that of an abandoned request still runs.
Click ==
  /\ CanAsk
  /\ Len(calls) < MaxCalls
  /\ toggled' = TRUE /\ pinged' = TRUE /\ stub' = TRUE
  /\ Send(<<Call("Ping", 0)>>)
  /\ UNCHANGED <<inc, emitted, known, wire, phase, runs, objs, pending, listed, kept,
                 panel, tpReady, failed, faults>>

\* mnb_panel_show on a panel that is there, for a click, which also ends a stub
\* and its timeout, or for a caller of the toolbar.  The panel's proxy is for the
\* name, so that one that died unnoticed is activated.
ShowPanel ==
  /\ listed /\ panel # 0 /\ Len(calls) < MaxCalls
  /\ \/ ~toggled /\ toggled' = TRUE /\ stub' = FALSE
     \/ UNCHANGED <<toggled, stub>>
  /\ Send(<<Call("Show", 0)>>)
  /\ UNCHANGED <<inc, emitted, known, wire, phase, runs, objs, pending, listed, kept,
                 panel, tpReady, pinged, failed, faults>>

\* The button and the stub alone change.
OnlyButton ==
  UNCHANGED <<procVars, calls, wire, phase, runs, objs, pending, listed, kept, panel,
              tpReady, faults>>

\* mnb_toolbar_dropdown_show_completed_partial_cb: the stub is nobody's any more.
PanelShown ==
  /\ panel # 0
  /\ toggled' = TRUE /\ stub' = FALSE
  /\ UNCHANGED <<pinged, failed>> /\ OnlyButton

\* mnb_panel_oop_hide_animate, or a click that hides the panel.
PanelHidden ==
  /\ panel # 0 /\ toggled
  /\ toggled' = FALSE
  /\ UNCHANGED <<pinged, failed, stub>> /\ OnlyButton

\* The window is mapped already and so is not asked for: the stub that an
\* abandoned request of this panel left, and its timeout, go on.
HastyClick ==
  /\ "hasty click" \in Faults
  /\ panel # 0 /\ ~toggled
  /\ toggled' = TRUE
  /\ UNCHANGED <<pinged, failed, stub>> /\ OnlyButton

\* The button of another panel goes down, by a click or because that panel is
\* shown.  The stub stays with this panel if the other one is broken or mapped
\* already, and otherwise ends or is the other panel's now.
ClickOther ==
  /\ listed /\ (toggled \/ stub)
  /\ toggled' = FALSE /\ pinged' = FALSE
  /\ stub' \in {stub, FALSE}
  /\ UNCHANGED failed /\ OnlyButton

\* (mutant: only the stub goes)
StubTimeoutForgets ==
  /\ stub
  /\ stub' = FALSE
  /\ UNCHANGED <<toggled, pinged, failed>> /\ OnlyButton

\* (mutant: the button is not looked at)
StubTimeoutAnyway ==
  /\ stub
  /\ stub' = FALSE /\ toggled' = FALSE /\ pinged' = FALSE /\ failed' = TRUE
  /\ OnlyButton

\* mnb_toolbar_panel_stub_timeout_cb: the user waits only if the button is down.
StubTimeout ==
  /\ stub
  /\ stub' = FALSE /\ toggled' = FALSE
  /\ pinged' = (pinged /\ ~toggled)
  /\ failed' = (failed \/ toggled)
  /\ OnlyButton

\* mnb_toolbar_fixup_panels drops the panel from the toolbar, or creates a new
\* slot for it.
RemoveFromSettings ==
  /\ listed /\ listed' = FALSE /\ kept' = FALSE
  /\ Len(calls) < MaxCalls
  /\ panel' = 0 /\ tpReady' = FALSE /\ toggled' = FALSE
  /\ pinged' = FALSE /\ failed' = FALSE /\ stub' = FALSE
  /\ pending' = IF panel = 0 THEN pending ELSE Unlist(1)
  /\ Send(IF panel = 0 THEN <<>> ELSE <<Call("Unload", 0)>>)
  /\ UNCHANGED <<inc, emitted, known, wire, phase, runs, objs, faults>>

AddToSettings ==
  /\ phase # "down" /\ ~listed /\ listed' = TRUE
  /\ UNCHANGED <<procVars, calls, wire, phase, runs, objs, pending, kept, tpVars,
                 faults>>

Next ==
  \/ StartProcess \/ AcquireName \/ ActivationFails \/ EmitReady
  \/ InitPanel \/ OtherCall \/ Die
  \/ StartToolbar \/ ToolbarDies
  \/ ListNamesReply \/ NameAcquired \/ OwnerGone \/ ReadySignal
  \/ InitReply \/ InitError \/ InitTimeout
  \/ Click \/ ShowPanel \/ PanelShown \/ PanelHidden \/ HastyClick
  \/ ClickOther \/ StubTimeout
  \/ RemoveFromSettings \/ AddToSettings

\* The main loops run their handlers, an activated process gets its name or
\* exits, and the stub timeout fires.
Fairness ==
  /\ WF_vars(AcquireName \/ ActivationFails)
  /\ WF_vars(EmitReady)
  /\ WF_vars(InitPanel \/ OtherCall)
  /\ WF_vars(ListNamesReply \/ NameAcquired \/ OwnerGone \/ ReadySignal
             \/ InitReply \/ InitError)
  /\ WF_vars(StubTimeout)

Spec == Init /\ [][Next]_vars
FairSpec == Spec /\ Fairness

(***************************************************************************)
(* Properties.                                                             *)
(***************************************************************************)
\* The slot's object is bound to the process that runs, by proxy and window.
Attached == panel # 0 /\ objs[panel].owner = inc /\ objs[panel].xid = inc

\* A slot never holds an object without an owner proxy: the toolbar would not
\* learn of the death of its process (noc_cb leaves deaths to that proxy).
AttachedIsWatched == panel # 0 => objs[panel].owner # 0

\* Whatever the order in which the process, the bus and the toolbar move, once
\* nothing is in flight a panel that runs and is ready sits in its slot, with
\* the window and the owner proxy of this very process.
QuietMeansAttached ==
  (/\ phase = "connected" /\ wire = <<>> /\ calls = <<>>
   /\ proc = "up" /\ emitted /\ kept) => Attached

\* No two objects of one panel are in the InitPanel/Ready handshake at a time,
\* and the pending list, by which noc_cb tells, knows of the one that is.
OneHandshake ==
  LET fresh == {k \in 1..Len(objs) : objs[k].alive /\ objs[k].fresh}
  IN kept => Cardinality(fresh) <= 1 /\ (pending = 0 <=> fresh = {})

\* The toolbar has track of its objects: it would learn of the death of the one in
\* the slot, and of the answer to the one in the handshake.
ObjectsAreTracked == AttachedIsWatched /\ OneHandshake

\* A panel that works is never replaced or dropped: only the settings, the
\* toolbar's own end and the death of the process take it from its slot.
KeepsLivePanel ==
  [][proc = "up" /\ Attached /\ kept' => panel' = panel]_vars

\* A click that waits has its stub, its timeout and its button down, and waits
\* for a panel that is neither there nor given up: Ready, clicks on other buttons
\* and the timeout never leave half a request.
RequestIsWhole == pinged => stub /\ toggled /\ panel = 0 /\ ~failed

\* What remains of an abandoned request, the stub and its timeout, does no harm:
\* the timeout finds the button up unless a request waits (it may be down because
\* the user clicked a panel that was showing itself), and so the user is told that
\* a panel is broken only of one that is not there.
RemainsAreHarmless == /\ stub /\ toggled => pinged
                      /\ failed => panel = 0

AskedIsEmpty == /\ RequestIsWhole
                /\ "hasty click" \notin Faults => RemainsAreHarmless

\* A panel process that keeps running ends up in its slot.
RunningGetsAttached ==
  (proc = "up" /\ kept) ~> (Attached \/ proc # "up" \/ ~kept)

(***************************************************************************)
(* The link implements the promise about the slot.                         *)
(***************************************************************************)
slotState == IF panel # 0 THEN "present"
             ELSE IF failed THEN "broken"
             ELSE IF pinged THEN "asked" ELSE "absent"

Slot == INSTANCE PanelSlot WITH slot <- slotState

\* Clicks, deaths, restarts and time-outs in any order keep the slot's promise,
\* in particular that a click is answered or given up (without hasty clicks, after
\* which the timeout of an abandoned request may call a present panel broken).
SlotSpec == Slot!Spec
=============================================================================
