------------------------------ MODULE Bluetooth -----------------------------
(***************************************************************************)
(* The Bluetooth panel: a widget for every connected device, and one for   *)
(* every device that waits for the user to pair it or to let it use a      *)
(* service (dawati-bt-shell.c, dawati-bt-request.c).  Its switch is in     *)
(* Radio.                                                                  *)
(*                                                                         *)
(* External: gnome-bluetooth's BluetoothApplet, which says that something  *)
(* has changed, is asked for all devices then, and passes BlueZ's requests *)
(* on; and Clutter, whose iteration over the children of an actor ends     *)
(* when one of them is removed.                                            *)
(***************************************************************************)
EXTENDS Naturals, Sequences, SequencesExt, FiniteSets, Functions

CONSTANTS
  BtDevices,  \* the devices, by path
  Kinds,      \* what a device asks: for a PIN, a passkey, to confirm one, to be let in
  MaxNews     \* bound: how often devices change or ask

ASSUME BtAssumption == IsFiniteSet(BtDevices) /\ MaxNews \in Nat /\ "nothing" \notin Kinds

VARIABLES
  device,    \* the applet's devices: unknown, off or on (connected)
  box,       \* priv->device_box, priv->devices: the widgets' device and "connected"
  missed,    \* history: whose widgets the last round did not reach, and the one before
  info,      \* the label that is there if no device is connected is visible
  waiting,   \* what BlueZ waits for the user to say about a device
  prompts,   \* priv->request_box, priv->requests: the widgets' device and type
  alive,     \* the panel is
  nNews      \* how often devices changed or asked

btVars == <<device, box, missed, info, waiting, prompts, alive, nNews>>

Statuses == {"unknown", "off", "on"}

BtTypeOK ==
  /\ device \in [BtDevices -> Statuses]
  /\ box \in Seq([path: BtDevices, connected: BOOLEAN])
  /\ prompts \in Seq([path: BtDevices, kind: Kinds])
  /\ missed \in [{"now", "before"} -> SUBSET BtDevices] /\ info \in BOOLEAN /\ alive \in BOOLEAN
  /\ waiting \in [BtDevices -> {"nothing"} \cup Kinds]

PathsOf(widgets) == {widgets[i].path : i \in DOMAIN widgets}

(***************************************************************************)
(* Devices.                                                                *)
(***************************************************************************)
\* _handle_device, of a device that has a widget
Refreshed(widgets, status) ==
  [i \in DOMAIN widgets |->
     IF status[widgets[i].path] = "unknown" THEN widgets[i]
     ELSE [widgets[i] EXCEPT !.connected = status[widgets[i].path] = "on"]]

\* dawati_bt_shell_add_device, for all devices that are new and connected, in the order
\* the applet lists them
MoreWidgets(widgets, status) ==
  LET new == {p \in BtDevices : status[p] = "on" /\ p \notin PathsOf(widgets)}
  IN {[i \in DOMAIN q |-> [path |-> q[i], connected |-> TRUE]] :
        q \in Bijection(1..Cardinality(new), new)}

\* The walk over the widgets ends at the one that _remove_non_connected_device removes,
\* the first unconnected, if there is one; those before it are marked for the next round.
EndsAt(widgets, n) ==
  /\ \A i \in 1 .. n - 1 : widgets[i].connected
  /\ n \in DOMAIN widgets => ~widgets[n].connected
Marked(widgets, n) ==
  [i \in DOMAIN widgets |-> IF i < n THEN [widgets[i] EXCEPT !.connected = FALSE] ELSE widgets[i]]
Swept(widgets, n) ==
  IF n \in DOMAIN widgets THEN RemoveAt(Marked(widgets, n), n) ELSE Marked(widgets, n)
NotReached(widgets, n) == {widgets[i].path : i \in n + 1 .. Len(widgets)}

\* _devices_changed_cb; the label is set by dawati_bt_shell_update.
Round(status) ==
  \E more \in MoreWidgets(box, status) :
    LET updated == Refreshed(box, status) \o more
    IN \E n \in 1 .. Len(updated) + 1 :
         /\ EndsAt(updated, n)
         /\ box' = Swept(updated, n) /\ info' = (box' = <<>>)
         /\ missed' = [now |-> NotReached(updated, n), before |-> missed["now"]]

\* Devices come, go and connect, or another adapter becomes the default one.
DevicesChange ==
  /\ alive /\ nNews < MaxNews /\ nNews' = nNews + 1
  /\ device' \in [BtDevices -> Statuses]
  /\ Round(device')
  /\ UNCHANGED <<waiting, prompts, alive>>

\* _device_widget_disconnect_cb: the applet tells the device, and the panel then.
Disconnect(p) ==
  /\ alive /\ p \in PathsOf(box) /\ device[p] = "on"
  /\ device' = [device EXCEPT ![p] = "off"] /\ Round(device')
  /\ UNCHANGED <<waiting, prompts, alive, nNews>>

(***************************************************************************)
(* Requests.                                                               *)
(***************************************************************************)
\* the widget that priv->requests has for p goes
Without(widgets, p) ==
  IF p \in PathsOf(widgets)
  THEN RemoveAt(widgets, CHOOSE i \in DOMAIN widgets : widgets[i].path = p)
  ELSE widgets

\* dawati_bt_shell_add_request, after the removal of the device's widget
AskedAgain(widgets, p, kind) ==     \* (mutant: a former widget stays)
  Append(widgets, [path |-> p, kind |-> kind])
Asked(widgets, p, kind) == Append(Without(widgets, p), [path |-> p, kind |-> kind])

\* _pincode_request_cb (which tells PINs from numeric passkeys), _confirm_request_cb
\* and _auth_request_cb.  A device that asks again has given up what it asked before.
Request(p, kind) ==
  /\ alive /\ nNews < MaxNews /\ nNews' = nNews + 1
  /\ waiting' = [waiting EXCEPT ![p] = kind] /\ prompts' = Asked(prompts, p, kind)
  /\ UNCHANGED <<device, box, missed, info, alive>>

\* _request_response_cb, on a click on one of the widget's buttons; an answer that
\* nobody waits for is ignored by the applet.
Respond(p) ==
  /\ alive /\ p \in PathsOf(prompts)
  /\ prompts' = Without(prompts, p) /\ waiting' = [waiting EXCEPT ![p] = "nothing"]
  /\ UNCHANGED <<device, box, missed, info, alive, nNews>>

\* _cancel_request_cb is given the applet where it expects the shell, and takes what
\* lies behind it for the shell's private data: nothing happens or the panel dies.
Cancel(p) ==
  /\ alive /\ waiting[p] # "nothing"
  /\ \/ waiting' = [waiting EXCEPT ![p] = "nothing"] /\ UNCHANGED <<prompts, alive>>
     \/ /\ alive' = FALSE /\ prompts' = <<>>
        /\ waiting' = [q \in BtDevices |-> "nothing"]
  /\ UNCHANGED <<device, box, missed, info, nNews>>

\* dawati_bt_shell_init_applet: a round with no widgets reaches all that are new.
FirstBoxes(status) == {Swept(first, Len(first) + 1) : first \in MoreWidgets(<<>>, status)}

\* The toolbar starts a panel that has died anew.
BtRestart == /\ ~alive /\ alive' = TRUE
             /\ box' \in FirstBoxes(device) /\ info' = (box' = <<>>)
             /\ missed' = [now |-> {}, before |-> {}]
             /\ UNCHANGED <<device, waiting, prompts, nNews>>

BtInit == /\ device \in [BtDevices -> {"unknown", "on"}]
          /\ box \in FirstBoxes(device) /\ info = (box = <<>>)
          /\ missed = [now |-> {}, before |-> {}]
          /\ waiting = [p \in BtDevices |-> "nothing"] /\ prompts = <<>>
          /\ alive = TRUE /\ nNews = 0

BtNext == \/ DevicesChange \/ BtRestart
          \/ \E p \in BtDevices : \/ Disconnect(p) \/ Respond(p) \/ Cancel(p)
                                  \/ \E kind \in Kinds : Request(p, kind)

BtSpec == BtInit /\ [][BtNext]_btVars

(***************************************************************************)
(* Properties.                                                             *)
(***************************************************************************)
Once(widgets) == \A i, j \in DOMAIN widgets : widgets[i].path = widgets[j].path => i = j

\* A connected device has one widget, and the widget of another one is left only by a
\* round that was cut short, the last one or the one before; whatever connects,
\* disconnects and is forgotten meanwhile.  The label is there if there is none.
DevicesAreShown ==
  alive => /\ Once(box) /\ (info <=> box = <<>>)
           /\ \A p \in BtDevices :
                /\ device[p] = "on" => p \in PathsOf(box)
                /\ p \in PathsOf(box) => device[p] = "on" \/ p \in missed["now"] \cup missed["before"]

\* The user is asked once about a device that waits, and for what it waits for now,
\* however it repeats and changes its request, is refused or the panel dies.
RequestsAreShown ==
  /\ Once(prompts)
  /\ \A p \in BtDevices : waiting[p] # "nothing" => [path |-> p, kind |-> waiting[p]] \in ToSet(prompts)

\* What the panel shows is what there is.
BluetoothIsRight == DevicesAreShown /\ RequestsAreShown
=============================================================================
