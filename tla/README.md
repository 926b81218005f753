# Dawati shell in TLA+

Dawati (formerly Meego netbook) shell is a window manager plugin for mutter that
draws a toolbar of *panels*. Most panels are separate processes that talk to the
shell over D-Bus; the shell animates their windows. The panels in turn mirror
services of the system: connman, oFono, BlueZ, GIO's volumes. This directory holds
TLA+ models of the control logic of the shell and of these panels, TLC
configurations that check them on small instances, and proofs checked by TLAPS.
Paths below are relative to the repository. All code is event driven C on one GLib
main loop per process: a handler runs to its end before the next one, so an action
of a model is a whole handler, and what interleaves is handlers, processes and
messages.

## 1. Inventory

| Part | Where | State | Operations | Talks to |
|---|---|---|---|---|
| Panel life cycle, toolbar side | `shell/mnb-toolbar.c` | list of `MnbToolbarPanel` (name, service, `panel`, `ready`, `failed`, `pinged`), `pending_panels`, `stubbed_panel` and timeout | `handle_dbus_name`, `noc_cb`, `dbus_list_names_cb`, `append_panel`, `panel_ready_cb`, `panel_died_cb`, `panel_destroy_cb`, `show_pending_panel`, `panel_stub_timeout_cb`, `fixup_panels` | bus daemon, panel objects, settings |
| Panel object | `shell/mnb-panel-oop.c` | proxies for name and owner, window, `ready`, `mapped`, `in_show_animation`, `in_hide_animation`, `dont_hide_toolbar` | `init_panel_oop_reply_cb`, `ready_cb`, weak notify, `show`, `hide`, `show_animate`, `hide_animate`, completed callbacks | panel process, window manager, toolbar |
| Panel client | `libdawati-panel/dawati-panel/mpl-panel-client.c` | name, window, `ready_emitted`, proxy for the toolbar | `connect_to_dbus`, `InitPanel`, `Show`, `Hide`, `Ping`, `Unload`, Ready from an idle | toolbar, X server |
| Toolbar reveal | `shell/mnb-toolbar.c`, `shell/mnb-statusbar.c`, `shell/dawati-netbook.c` | `in_show_animation`, `in_hide_animation`, `is_visible`, reasons for show and hide, `waiting_for_panel_show`, timeouts | show, hide, their completion, status bar trigger, overlay key, D-Bus | panels, input manager |
| Panel order | `shell/mnb-toolbar.c` | `panels`, `max_panels` | `load_settings`, `fixup_panels`, `panel_settings_changed_cb`, `ensure_size_for_screen` | GSettings, desktop files |
| Input region stack | `shell/mnb-input-manager.c` | three layers of regions, actors with their region | push, remove, `apply_stack`, actors' show, hide, allocation, destroy | X server; toolbar, panels, notifications |
| Window manager plugin | `shell/dawati-netbook.c` | workspaces, `fullscreen_wins`, compositor options, effects in progress | map, destroy, minimize, switch workspace, fullscreen, DPMS, screen saver | mutter, toolbar |
| Alt-tab | `shell/alttab/` | `in_alt_grab`, `alt_tab_down`, timeouts, the overlay's apps | key handlers, initial and slow-down timeouts, overlay | mutter, notifications |
| Notifications | `shell/notifications/` | store of notifications by id, two trays (urgent and not), timeout of each notification | Notify, CloseNotification, timeouts, dismissal | D-Bus clients |
| Presence | `shell/presence/` | status, idle flag, inhibitors by cookie, idle watch | SetStatus, Inhibit, Uninhibit, idle alarms, client's vanishing, screen saver | session bus, XSync |
| Launch records, bookmarks | `libdawati-panel/dawati-panel/mpl-app-*.c` | a file under a lock; a list of URIs saved after a delay | add, query; load, save | file system, file monitor |
| Network panel | `carrick/` | rows of services, their widgets, pane switches, SIM tables, codes typed | service changes, drag and drop, toggles, PIN and PUK entry, notes | connman, oFono |
| Bluetooth panel | `panels/bluetooth/` | widgets of devices and of requests, switch | device changes, requests, answers | gnome-bluetooth's applet, connman |
| Devices panel | `panels/devices/` | tiles of mounts, default tile, messages, switches | mount signals, eject, expiry, toggles | GIO, connman |
| Alarms, mixer | `panels/datetime/`, `gvc/` | alarms; PulseAudio's streams | see sources | PulseAudio |
| Remaining panels, tiles, dialogs | `panels/`, `penge/`, `callouts/`, `capplet/`, `gpm/`, `mailme/` | presentation | | other services |

### What is hard

* A panel comes and goes at any time; so does the shell. Discovery has two
  sources (the answer to `ListNames` and `NameOwnerChanged`), and the handshake
  has two halves (`Ready` and the reply to `InitPanel`) that arrive in any order.
  Deaths are reported only by a proxy created late in the handshake.
* Nothing a user does to a panel takes effect at once: a click sends a call, the
  process maps a window, the window manager starts an animation, and its end
  toggles buttons whose handlers send calls again. Clicks, deaths, modal windows
  and panels that hide themselves fall in between.
* The toolbar itself is asked to show and to hide by seven parties, with
  priorities, while it is sliding.
* Lists are edited while they are walked: the panels of the toolbar with a count
  that mixes signed and unsigned, workspaces that are renumbered by a removal in
  the middle of a move, the widgets of the Bluetooth panel, the notifiers of a tray.
* Mirrors: rows, tiles, tables and switches repeat what another process has. The
  list, each item's properties and each signal come separately, proxies take a
  round trip to make, and the service may exit and start anew under the same names.
* The user works on what is being changed: a widget that is dragged loses its place
  or its service, a code is typed while another SIM comes first, a switch is toggled
  while connman refuses the last toggle.
* Several processes share the file of launch records, which is locked only after it
  was opened and may have been replaced by then.
* Timeouts (stub, wait, trigger, hide, idle alarms, Alt+Tab's first 100 ms, the
  notifications', the list's 100 ms) race the event they stand in for.

`PROJECT.json` lists these one by one under `hazards`, each at its line.

### What makes the parts correct

* Life cycle: a running, ready panel is in its slot once nothing is in flight,
  under the proxy and with the window of that very process; never two handshakes
  of one panel; a working panel is never replaced; a click is answered or given
  up; what the toolbar dereferences is there.
* Showing: at rest at most one panel is shown, the shell's belief and the button
  agree with the window, the last request wins; the toolbar leaves exactly with
  panels that leave of their own accord; handlers come to rest; waiting ends.
* Reveal: at rest all flags agree with where the toolbar is; a reason to refuse
  hides lives exactly as long as the show it belongs to.
* Order: what the settings ask for, as far as it fits, required panels last to go.
* Input: the shape the X server has is what the stack says, every region has one
  holder, and urgent messages get their clicks.
* Workspaces: none is empty, the list of fullscreen windows has no dangling entry,
  the compositor is off exactly when nothing it would draw can be seen, and a window
  that appears is what the user sees.
* Alt-tab: a switch starts clean and ends at the window that is highlighted.
* Presence: idleness is watched exactly while somebody has to be told, and ends with
  the status that was set last; clients that left inhibit nothing.
* Notifications: what is open on a tray is stored, counted and seen; the active
  notifier exists; an open urgent message has the keyboard; every ordinary message
  has a timer that runs unless the pointer is on it; a closed message does not come
  back.
* Mirrors (network, oFono, Bluetooth, devices, radio switches): when all is quiet
  what is shown is what there is; in motion nothing is shown that is not so, or it
  is going to be put right.
* SIM codes: what was typed goes to the modem and as the code it was typed for.
* Launch records: no launch is lost or invented, a query reads one state.

## 2. Modules

| Module | Models | Checked by | Proved about |
|---|---|---|---|
| `PanelLink` | life cycle of one panel: process, bus, toolbar | `link`, `link_slot`, `link_death` | `PanelLinkProofs` |
| `PanelSlot` | the abstract promise about a panel's slot | `link_slot` | refined by `PanelLink` |
| `PanelShow` | buttons, windows and animations of all panels | `show*` | `PanelShowProofs` |
| `ToolbarReveal` | the toolbar's slide | `desktop` | `ToolbarProofs` |
| `PanelOrder` | `mnb_toolbar_fixup_panels` and its callers | `desktop`, `order_underflow` | no (recursive) |
| `InputStack` | the input regions and those who push them | `desktop` | `ToolbarProofs` |
| `Workspaces` | workspaces, fullscreen windows, compositor | `desktop` | `WindowProofs` |
| `Alttab` | the Alt+Tab switcher | `desktop` | `WindowProofs` |
| `Presence` | idle watch, inhibitors, status | `desktop` | `SessionProofs` |
| `Notify` | the notification store, the trays and their subsystems | `services`, `notify_tray` | `SessionProofs` |
| `Ofono` | the agent's mirror of modems and SIMs | `services` | `NetworkProofs` |
| `SimUnlock` | asking for PINs and PUKs | `services` | `NetworkProofs` |
| `Network` | rows of connman's services, icon and notes | `services` | `NetworkProofs` |
| `ServiceList` | the widgets of the rows, drag and drop | `services` | `ListProofs` |
| `ServiceItem` | the widgets of wireless services: connecting, passwords, settings | `services` | `NetworkProofs` |
| `Radio` | radio switches of three panels | `services`, `radio_failure` | `DeviceProofs` |
| `Bluetooth` | widgets of devices and requests | `services` | `DeviceProofs` |
| `Devices` | tiles of mounts, eject | `services` | `DeviceProofs` |
| `Launches` | the file of launch records | `services` | `SessionProofs` |
| `MCDesktop`, `MCServices` | two groups of parts, checked side by side | `desktop`, `services` | |
| `MCPanelOrder` | an instance for `order_underflow` | `order_underflow` | |

The two groups share nothing but a variable `part` that says which part a behaviour
is of; the others rest. A group thus has the states of its parts together, not their
product, and a property of a part is looked at while it runs. The modules that are
proved about are extended by the group, so that run and theorem speak of the very
same definition; the others are instances.

### PanelLink

One instance is one panel: service names are distinct and all lists are keyed on
them. `proc`, `inc` are the process and its incarnation, which stands for its
unique bus name and its window's xid. `wire` is the sequence of messages the bus
has for the toolbar about this panel, `calls` what it has for the service; the
bus keeps each connection's order. `objs` are the `MnbPanelOop` objects made so
far: objects that are replaced stay connected to the bus (the code leaks them),
so the model keeps them. `pending` counts the service's occurrences in
`pending_panels`, which is a list, not a set. The remaining variables are the
fields of `MnbToolbarPanel`, its button (`toggled`), and whether it is the
`stubbed_panel` with the stub's timeout armed (`stub`); these two may part from
`pinged`: a click on a panel that is broken or mapped clears `pinged` of the others
and leaves their stub and its timeout (`ClickOther`). Actions are named for the message or the handler:
`ListNamesReply` is `mnb_toolbar_dbus_list_names_cb`, `NameAcquired` and
`OwnerGone` are `mnb_toolbar_noc_cb` and the weak notify with
`mnb_toolbar_panel_died_cb`, `ReadySignal` and `InitReply` end in
`mnb_toolbar_append_panel` and `mnb_toolbar_panel_ready_cb`, and so on; the
environment's are `StartProcess`, `AcquireName`, `ActivationFails`, `Die`,
`StartToolbar`, `ToolbarDies`. `Faults` switches three kinds of
faults and the hasty click.

`PanelSlot` has one variable with four values; `slotState` computes it from
`panel`, `failed` and `pinged`. Its fairness says that an asked slot does not stay
asked for ever.

### PanelShow

`panel[p]` is what the shell keeps of a panel, including the calls on their way to
its process; `bar` is the toolbar's flag, stub and timeouts; `window` and `events`
belong to the process and the X server. `wanted` and `told` are histories the
properties refer to. Button toggles call their handler at once, as GObject's
signals do, so handlers are written as functions from a state (`State`) to a
state: `Toggled` is `mnb_toolbar_button_toggled_cb`, `Toggle` is
`mx_button_set_toggled` (nothing if already so), `ShowCompleted` toggles and so
calls `Toggled`, and so on. `Uses` restricts how panels are used: "overlap"
(requests while another one is under way), "reclick" (clicks on the button of a
panel that is being hidden), "activate" (shows by the shell or over D-Bus that do
not go through a button).

### PanelOrder

`Fixup` is the whole of `mnb_toolbar_fixup_panels`: `Place` builds the reversed
list, `Prune` removes with restarts and the running count `n`, `Above` is the
comparison of a signed with an unsigned number, `Victim` chooses the optional
panel that goes instead of a required one, and `Arrange` is the last loop. Which
panels are required, ordinary, installed are CONSTANTS that stand for desktop
files. `Expected` is an independent statement of the outcome.

### ToolbarReveal

`goal` is where the toolbar is or slides to. Clutter keeps one implicit animation
per actor, so a slide that begins during another one turns it round, and at its
end all connected handlers run in order: `done`. The model starts after the
toolbar has been put away once. `vain` is a history.

### InputStack

The screen is a set of cells (`Cells`), an area a set of cells; `Places`, `BarArea` and
`Beneath` say where actors and the toolbar may be and what is below a window. `layers`
are the three lists of regions, `shape` what the X server was last told: `ApplyStack`
is separate from the functions that edit the stack, as in the code, where
`mnb_input_manager_remove_region_without_update` edits without applying. `mir` says
who holds which region: the toolbar by hand, an actor by its quark, which its signal
handlers keep in step. `Remap` lets a panel's window come back during its hide
animation, where `InputIsRight` fails (section 5).

### Workspaces

`wss` are mutter's workspaces in order, `wsOf`, `minimized`, `isFull` and `watched`
what is known of each window. `map`, `minimize`, `destroy`, the window-removed
handler `check_for_empty_workspace` and the moves to a new workspace nest, because
mutter emits its signals within the calls; handlers are functions of a state and run
where the code runs them. `MoveTo` activates whatever workspace has the index when the
move is done: there is none if the move took away a workspace by the way, which is the
exception of `MappedIsActive`. `MinimizeFull` adds a use under which
`WorkspacesAreRight` fails (section 5).

### Alttab

`mru` are the open windows, most recently used first; mutter's grab (`grabbed`) and
the shell's idea of it (`inGrab`) are two variables. `timers` counts the initial
timeouts that are installed, so that a second one would be seen. `lit` is the
highlighted app, `picked` that of `priv->active`, which may be gone.
The shell's filter of X events (`mnb_alttab_overlay_handle_xevent`) acts on the release
of Alt as well, while `in_alt_grab` is set: it would end the grab and activate the
selection without asking for the initial timeout or an urgent notification, and leave
`alt_tab_down` set. It is not modelled, because it is not reached: whenever `inGrab`
holds so does `grabbed` (TLC, on the states of `desktop`), and while mutter has the grab
it handles its keys itself and does not pass them to the plugin.

### Presence

`watch` is the idle monitor's watch with its pair of alarms; `alarms` are events that
wait in the X connection: an alarm may have gone off before it was destroyed.
`inhibitors` are those of clients that are `connected`; a client's vanishing is told
by the bus some time after it happened. `said` is the last status that was set by
anybody, a history for `IdlenessIsRight`.

### Notify

`store` is the notify store's list with the pid requests it still waits for
(`asks`; the bus answers them in order); `ntfs` are the notifiers in the order
they were made, which is the order of a tray's children; `tray` holds each tray's
`n_notifiers`, `active_notifier` and whether it is shown; `focused` is the
overlay's hold on the keyboard, `source` the database of `ntf-source.c`. Handlers
are functions from a state, the record `NtfNow`, to a state, since all ways to end a notifier emit
its signal "closed", whose handlers run within the emission: `Closed` is the
subsystem's handler, `TrayClosed` the tray's. The active notifier of a tray is
faded out by its "closed"; any other one is destroyed on the spot, which
disconnects its handlers, so that the subsystem's is not reached. A faded notifier
stays a child of the tray for ever, because `ntf_tray_hide_ntf_completed_cb`
removes it from the tray while its parent is the tray's inner group; the model keeps
it, with `closed` set. The three subsystems are `Notify`, `PidReply`,
`CloseNotification`, `Action` (messages), `Attention`, `AttentionEnds`, `Focus`
(windows), `MountAppears` (volumes). Timeouts are abstract: `Default` is 2, those
asked for are 0 or 1 (0 is no timeout, which is granted to urgent messages only),
and only comparisons matter. Windows are managed from the start and not again once closed.
Sources are looked up by pid and machine. A message's machine is always "local", and a
window that gives another is skipped when a source is made; what X puts there is the
name of the host. So a message's source normally has no window, and only those of
`Locals` have a window that is found: one of them in `services`, none in `notify_tray`.
`moved` and `swept` are histories: the ids whose urgency an update changed, and the
trays on which "Dismiss All" was used.

### Ofono

`there` and `lock` are oFono's modems and SIMs. The agent's modems are spread over
several variables: `modems` those it has, `sims` those with a SIM's proxy, `counted`
those it counted as having a connection manager, `locksOf` what each required;
`table` and `connmans` are what the list of services reads, `leaked` the paths with a
SIM proxy that no modem refers to any more. `asked` and `wire` are the two directions
of the connection. A proxy is made asynchronously: until it is there a modem's signals
are dropped, and a modem that is removed meanwhile leaves a callback that finds
nothing. `odd` are the modems that changed while the agent was busy with them, about
which `Mirrors` promises nothing.

### SimUnlock

The item that stands for all modems has one entry. `wants` is the code the agent's
tables put first, `stage` what the entry is taken for, `text` what is in it, tagged
with what the entry asked for when it was typed. `sent` are the calls oFono has not
answered, `settling` the 200 ms timeouts that follow an answer.

### Network

`services` and `online` are connman's; `queries` and `incoming` the messages on
their way; `rows`, `listed` and `kept` the model: the rows, the list the last message
had, and the services of rows that went whose proxies the code leaks, so that their
handlers still run. `last`, `queued`, `told` are the notification manager's, `note`
that a note is on the screen.
connman may exit, which its clients are told later (`heard`), and start anew.

### ServiceList

`list` is the model's order (module `Network` is about it), `inBox` the children of
the box. A changed row marks its widget (`stale`) and a 100 ms timeout (`due`)
updates it. `drag` is the widget under the pointer, which is not in the box
meanwhile, `moves` the calls that connman has not answered. When the row of a widget
that is dragged goes, its entry in `updates_pending` stays (`_row_deleted_cb` returns
before it would be removed): such widgets are `orphans`, and their update shows again
what they showed, since a row reference that is not valid yields nothing. Whether an
entry leaves the table when it is updated is not defined, as the function that is to
say so is a void one (`carrick-list.c:784`); an entry that stays is updated again with
the next ones, which changes nothing. `disorder` is a history
of what makes the order unreliable: several services moving at once among four or more,
changes during a drag or before its answer.

### ServiceItem

The widgets of wireless services that need a password: `row` is the network model's,
`known` what a widget took over from it at its last update, `item` what it shows: the
box with the button that connects, the box that asks for a password, the line for
errors, the expander with the form of the settings. Handlers are functions of one
widget (`SetState`, `FormState`, `Requested`, `Inactive`); `Active` is the list's
answer to a widget that becomes active, and collapses the others. `posted` are the
calls to connman under way, which it may do or refuse, each answered on its own.
Settings are "plain" or with name servers; the form may hold a wrong address as
well. `late` is a history: the items whose settings were answered after the user had
turned away.

### Radio

One program at a time (`ui`): its switch is repeated user interface state
(`toggle`, whether it is visible, how often its handler is blocked), connman's is
`radio`. `pending` and `news` are the two directions, `making` counts the proxies that
GDBus is making, which needs no connman. `did.lost` are the toggles that were not sent, or
made while the program was still asking for connman's properties. The pane hides its rows
when connman vanishes, and also when an answer with its properties is an error
(`NoDaemon`).

### Bluetooth

`device` is what the applet knows. A change of it makes the panel walk its box
(`Round`): the walk ends when a widget is removed, as Clutter's iteration does.
`missed` is a history of the widgets that the last two rounds did not reach. The
applet lists the devices in an order of its own, so the widgets that a round adds come
in any (`MoreWidgets`).
`waiting` is what BlueZ waits for, `prompts` the widgets that ask the user.

### Devices

`mount` is GIO's, `signals` the volume monitor's signals that wait: a mount's
shadowing is read when its signal is handled. `devTiles` is every tile ever made,
since a tile outlives its mount to show its last message; `tileOf` the hash table.

### Launches

`files` are all files there have been, since a process may hold one that was
replaced; `path` the one that has the name. An adder opens, locks, looks its
executable up in the mapping, and adds in place or writes a new file and renames it;
it may fail or die at any point. A query maps a file and holds a shared lock.
`launches` counts what was added; `astray` says that somebody worked on a file that
was replaced by then.

## 3. Checks

The two groups take two to four minutes each on an ordinary PC with two workers,
the others seconds.

| Run | Configuration | Shows |
|---|---|---|
| `link` | 3 starts of the panel, 2 of the toolbar, 2 calls, no faults but hasty clicks, fair | `TypeOK`, `ObjectsAreTracked`, `QuietMeansAttached`, `KeepsLivePanel`, `RunningGetsAttached`: whatever the interleaving a running panel ends up in its slot, watched, and stays |
| `link_slot` | 2 starts, 2 toolbars, 1 fault of any kind, no hasty clicks, fair | `AskedIsEmpty`: a request is whole or gone, and what an abandoned one leaves is harmless; `SlotSpec`: the link implements the abstract slot |
| `show` | 2 panels, 4 moves, overlapping and activated | `TypeOK`, `Beliefs`, `MappedIsWindow`, `ButtonMatches`: what the shell knows of a window, X's news under way and the window tell one story; at rest the button agrees too |
| `show_deaths` | 2 panels, 3 moves of any use, 1 death, modal windows, fair | `OneActive`, `Settles` |
| `show_calm` | 3 panels, 4 moves, one request after the other, fair | `LastWins`, `HiderDecides`, `WaitEnds` |
| `desktop` | panel order, reveal, input regions, workspaces, Alt+Tab, presence | see below |
| `services` | launch records, notifications, oFono, devices, radios, SIM codes, list, Bluetooth, network, items | see below |
| `link_death` | handshake deaths | refutes `AttachedIsWatched` |
| `show_wait` | modal windows | refutes `WaitEnds` |
| `order_underflow` | one required panel, a screen for 3 | refutes `RequiredStay` |
| `notify_tray` | 3 messages of one application without a window | refutes `EmptyUrgentTrayHides` |
| `radio_failure` | the switches of the devices panel, one toggle that connman refuses | refutes `FailureResetsToggle` |

| Part of `desktop` | Bounds | Properties |
|---|---|---|
| all | | `DesktopTypeOK` |
| order | 5 names (one not installed), 2 required, orders of up to 3, screens for 2 and 3 | `AsExpected`, `RequiredStay` |
| reveal | none, the state is finite | `RestIsConsistent`, `ReasonIsPending` |
| input | a screen of 4 cells, two places for a window, 6 actors and the toolbar | `InputIsRight` |
| workspaces | 3 applications, a dialog, 3 workspaces | `WorkspacesAreRight`, `MappedIsActive` |
| alttab | 3 windows | `SwitchStartsClean`, `GoesToHighlighted` |
| presence | 2 clients, 2 idle delays, 2 alarms that wait | `WatchIsRight`, `IdlenessIsRight` |

| Part of `services` | Bounds | Properties |
|---|---|---|
| all | | `ServicesTypeOK` |
| launches | 3 processes that add 2 executables, a query | `StoreIsRight` |
| notify | two messages or mounts, an application with a window | `TraysAreRight`, `ClosedStaysClosed` |
| ofono | 2 modems, one there from the start perhaps, 2 changes | `PictureIsTrue` |
| devices | 2 mounts, 3 signals, 2 ejects, 1 show of the panel | `DevicesAreRight` |
| radio | each of 3 programs, 2 toggles, 2 changes and 1 exit of connman | `TogglesFollow` |
| unlock | 2 modems, 2 changes of what they require, 2 codes | `UnlockIsRight` |
| list | 3 services, one of them cellular, 3 changes, 1 drag | `ListIsRight` |
| bluetooth | 3 devices, 3 changes or requests of a PIN or for access | `BluetoothIsRight` |
| network | 3 services, none or two at first, 2 changes, 1 exit of connman | `NetworkIsRight` |
| item | 2 services, 4 acts of the user or of connman by itself, no name servers at first | `ItemsAreRight` |

Bounds. `PanelLink`: an object from a former incarnation matters only through
`inc` comparisons, and three incarnations let a message of the first arrive while
the third runs; two toolbars let a panel be found twice; two calls let a `Ping`
or `Show` precede `InitPanel`. `PanelShow`: a handler touches one panel and "all
others", so two panels show each interaction of a panel with another one; the
calm run has a third. Four moves let a click fall before, during and after
the animation of an earlier one. `PanelOrder`: every order of up to three names
with repetitions, two more than a screen holds with the required ones; four were tried apart.
`Workspaces`: a move that removes a workspace and makes another one needs two
applications, one that stays on the workspace between needs a third, and a full
screen needs as many as there are workspaces. `Notify`: two messages and a window make
three notifiers on the ordinary tray, so one can close that is active, next in line,
or neither; a third message, without volumes and other timeouts than 0, was tried
apart, and the invariants held as well. `Ofono`: one modem may change twice, or one
each, while the agent waits for a proxy. `SimUnlock`: two modems compete for one
entry. What holds of more modems is proved, for both. `Network`: services are alike, so their
first order is fixed; two changes let a list follow a list, or a signal, before
the answers came; three services at first were tried apart. `ServiceList`: four
services were tried apart without drags (4 changes), and with a drag (2 changes),
three with 2 drags. `Bluetooth`: three devices let a round be cut short with a
widget before and one behind. `Launches`: two processes of the same executable and
one of another, so that a file is replaced under one that waits for its lock.
`ServiceItem`: four acts let settings be applied and the user turn away before they
are answered, or a password be entered twice; five were tried apart, and what holds
for more is proved. Deadlock
checking is off because each of these systems may rest, and the bounds stop their
environments.

Fairness. `PanelLink`: main loops run their handlers (weak fairness of the
toolbar's and the process's dispatching, as one action each, since the loop
serves a queue), an activated service gets its name or exits (the bus daemon
enforces a timeout), a client emits `Ready` from its idle handler, and the stub
timeout fires. Users, deaths and restarts are not fair. `PanelShow`: calls,
window news, animations and timeouts are served; requests, starts and deaths are
not fair. The groups have safety properties only and need none: "when all is quiet
the mirror is right" says what matters of their ends.

Exceptions. Where the code is known to go wrong (section 5) a property excepts just
that: `swept` and `moved` (`Notify`), `odd` (`Ofono`), `did.lost` (`Radio`), `missed`
(`Bluetooth`), `disorder` (`ServiceList`), `late` (`ServiceItem`), `astray` (`Launches`), `vain`
(`ToolbarReveal`) are histories that no action depends on.

## 4. Proofs

`PanelLinkProofs` proves for all values of the constants (any number of starts,
toolbars, calls and faults, any set of faults):

* `LinkTypeCorrect`: `Spec => []TypeOK`. Not only types: the slot, and every call
  and message, name objects that exist, also after the toolbar restarts.
* `LinkAskedIsEmpty`: `Spec => []AskedIsEmpty`. A click that waits has its
  stub, its timeout and its button down, and waits for a panel that is neither there
  nor given up (`RequestIsWhole`). What an abandoned request leaves, a stub with its
  timeout, finds the button up, so that no panel is called broken that is there
  (`RemainsAreHarmless`), unless the user clicks a panel while it shows itself
  (section 5). It is inductive together with `TypeOK`: `panel` is set only in
  `AppendPanels`, which runs `PanelReady` in the same step, and whatever puts the
  button down on a panel that is there ends the stub.
* `LinkImplementsSlot`: the initial states map to the abstract initial state and
  each step to a step or a stutter of `PanelSlot`. It needs `AskedIsEmpty`
  (and so excludes hasty clicks):
  without it a `GiveUp` could hide a present panel.

* `LinkTracksObjects`: `Spec => []ObjectsAreTracked`. The key is the handshake: at most
  one object is in it, none while the slot has a panel, and the pending list tells
  (`OneWaits`). That is kept because an object asks once and is answered once
  (`AskedOnce`, `AnsweredOnce`), because a reply under way is of the process that
  runs (`Replies`, `Bound`), and because the
  panel in the slot lives or its death is the first word of the owner the toolbar
  gets (`Slotted`). Together with what each phase of the toolbar may hold (`Phases`)
  this is the inductive invariant `Tracked`.
* `LinkKeepsLivePanel`: `Spec => KeepsLivePanel`, an action property, from `Tracked`:
  beside a panel that lives no object waits and no word of its owner is under way, so
  no handler that could touch the slot finds anything to do.
* `LinkQuietMeansAttached`: `Spec => []QuietMeansAttached`. What is missing must be
  under way: the call or its answer (`InFlight`), Ready (`Heard`, `Unheard`), the
  name of a process that runs (`Present`). `Underway` is inductive together with
  `Tracked`.

The first three assume nothing but `LinkAssumption` on the constants.
`LinkTracksObjects` and `LinkKeepsLivePanel` assume that no panel dies between its
answer to `InitPanel` and its `Ready` ("handshake death" is not in `Faults`): that
death is what the run `link_death` shows the code not to notice (section 5).
`LinkQuietMeansAttached` assumes no faults but hasty clicks: after an `InitPanel` that fails
or times out the object is dropped and nothing asks again, so the property is not
what the code promises then. Processes come, quit and restart under all of these
assumptions. The arguments go action by action; actions that leave the variables of
a conjunct alone are dismissed by one lemma each.

`PanelShowProofs` proves for any number of panels, moves and deaths and any use:

* `ShowTypeCorrect`: `Spec => []TypeOK`, with modal windows or without.
* `ShowBeliefs`: if no modal window interferes, `Spec => []Beliefs`. "At rest,
  `mapped` is right" (`MappedIsWindow`) is not inductive, since nothing in it
  speaks of the way to rest. `Beliefs` does: for each panel, what the shell knows
  (mapped, and not in its hide animation), the news from X not yet handled and the
  window itself form one story in which every piece of news is a change. A process
  adds to the end of the story (`CoherentAppend`), the window manager's callbacks
  take from its front (`CoherentTail`), and button handlers, timeouts and calls,
  however they nest, leave alone what it is about (`ToggledKeeps`). The last needs
  that only a panel known to be mapped is animated: then `mnb_panel_oop_show`, which
  cancels a hide animation, is never called during one.
* `ShowMappedIsWindow`: hence `Spec => []MappedIsWindow`.

* `ShowOneActive`: `Spec => []OneActive`, without any assumption: modal windows,
  clicks in any order, activations and deaths included. At most one button is down
  (`OneButton`: whoever puts one down turns the others back in the same step), and a
  panel that rests on the screen has its button down (`RestDown`); at rest every panel
  that is mapped rests. What modal windows leave of `Beliefs` is `Stories`: the shell
  may not know of a window that is mapped, but it learns of every one that is
  unmapped. `OneDown` is the three together.
* `ShowButtonMatches`: `Spec => []ButtonMatches` if no modal window comes, no button is
  clicked while its panel hides, and nobody dies. `Fits` adds to `OneDown` that a
  button is down only for a panel that is mapped, has news or a call to come, and
  never during a hide animation.
* `ShowLastWins` and `ShowHiderDecides`, if in addition requests come one after the
  other (`Uses = {}`). `Course` follows the request that is being carried out: only
  the panel that is wanted comes (`OnlyWantedGoes`), and it does not leave
  (`WantedComes`); a panel that leaves of its own accord leaves the screen empty
  (`LeavesAlone`); the stub's timeout is there for the panel that is waited for
  (`PingIsTimed`); and `dont_hide_toolbar` follows from who asked (`AllTell`).
  TLC checked `Course`, with 3 panels and 5 moves, before it was proved.

With modal windows `Beliefs` is false, as TLC shows: `mnb_panel_oop_hide` does
nothing during a hide animation, so a window that maps under a modal window just
then stays mapped and the shell does not know (section 5). The assumptions on `Uses`
and deaths are needed as well: TLC refutes `ButtonMatches` with "reclick" or a death,
`LastWins` and `HiderDecides` with any use or a death. (A panel that dies leaves its
button down, and its window goes as if it hid of its own accord.) Whether the last three hold with modal
windows when requests come one after the other is open: small runs say so, the
proofs rest on `Beliefs`.

`ToolbarProofs` proves of the toolbar's slide, which has no constants and needs no
assumption, by hand what the run `desktop` shows by enumeration, and why. The slide is at one of six stages
(`Stages`): at rest in or out, sliding in or out, or turned round once; at each the
handlers that wait, the goal and the two animation flags are fixed. `SlideInv` adds
the flags that follow from where the toolbar goes.

* `RevealTypeCorrect`: no animation ever has more than one handler of each kind, so
  `done` is bounded.
* `RevealRestIsConsistent`: it holds at the two stages of rest.
* `RevealReasonIsPending`: inductive together with the stages; the show that a
  reason belongs to is under way, or over and waited for, or was in vain.

And of the input regions, for any screen, any places of the actors and the toolbar and
any strips beneath windows (`ScreenAssumption`: they are areas of the screen, and each
actor has a place), as long as `Remap` is off, with which the property fails (section 5):

* `InputTypeCorrect`: `InputSpec => []InputTypeOK`.
* `InputGoesRight`: `InputSpec => []InputIsRight`.

`InputInv` says that the stack is `Applied`: each layer holds one region of every holder
that is shown there and no other, with the sign and the area that its kind asks for
(`Holds`), the holders have their ids, and the shape was told since. Actors that live
handle their signals in one way, with the handlers that go with their kind of region
(`ActorsOK`). Each function of the stack keeps this for the holders that are left
(`Pushed`, `TakenOut`, `Removed`, `Moved`), also between a removal that does not tell
and the push that does (`Renewed`); `HoldsAppend`, `HoldsUnlinked` and `HoldsReshaped` say what they do to
one list. From it `NewId` finds the first address free, whoever pushes, and a tray's
region, in the top layer, has no hole above it but the input method's.

The shape is a recursive function of the list of regions, `LastAdds` is what it should
be: the last region that covers a cell decides. That the two are equal, for lists of
any length, is induction over data. It is done without the library's induction
theorems, which cannot be instantiated here: `Least` says, from the well-founded order
of the numbers, that a set of numbers has a least one, and at the least place where the
function would differ it does not, by `LastStep` (`SumIsLast`). `OneHandler` unfolds the
other recursive function, the walk over an actor's handlers.

`NetworkProofs` proves about the network panel. First of the item for SIM codes, for
any number of modems, changes and codes, from `UnlockAssumption` (the bounds are
numbers):

* `UnlockTypeCorrect`: `UnlockSpec => []UnlockTypeOK`.
* `UnlockIsAlwaysRight`: `UnlockSpec => []UnlockIsRight`. What is sent is right
  because of what is in the entry when the user confirms it; so the invariant speaks
  of the item's state between handlers: the stage fits the code that is required
  (`AsksRightly`), a PUK that is kept is the required modem's and a second new PIN
  finds none (`KeepsRightly`), the box is there only for a code and holds the hint,
  nothing, or what was typed for this modem at this stage (`PromptsRightly`). Each of
  the item's functions keeps it (`UpdateKeeps`, `NotifyKeeps`, `RequireKeeps`);
  `QuietInv` says that a box that is missing is brought back by an answer under way
  or the timeout that follows it.

Of the items of wireless services, for any number of services and acts, from
`ItemAssumption` (the bound is a number):

* `ItemTypeCorrect`: `ItemSpec => []ItemTypeOK`.
* `ItemsAreAlwaysRight`: `ItemSpec => []ItemsAreRight`. The property is inductive
  once it is said of one widget and what it knows (`Right`): the functions of a widget
  keep it (`SetStateKeeps`, `InactiveKeeps`, `RequestedKeeps`), and a step of one
  widget keeps it for all (`OneBecomes`, `ActiveKeeps`). The answer that comes late is
  the one that makes a widget ask although it rests, which is why `Right` knows of
  `late`.

Of oFono's agent, for any number of locks and changes and finitely many paths
(`OfonoAssumption`):

* `OfonoTypeCorrect`: `OfonoSpec => []OfonoTypeOK`.
* `OfonoPicture`: `OfonoSpec => []PictureIsTrue`. The property speaks of the moments
  when nothing is under way, and holds there because of what was under way before. So
  `OfonoInv` says, of each modem that is not `odd`: the messages and calls about it come
  in the order of one dialogue (`InOrder`: what may follow what); what they say is still
  so when it arrives (`SaysSo`); what the agent does not have yet, or has still, is under
  way (`Stages` for the modem, `Offered` for its SIM and its connection manager); and
  the last message that carries a lock has it right (`LocksKnown`). Besides, the manager
  is asked for once and until then nothing is known (`Beginning`), and the agent's count
  is at least the number of modems it counted, so that it never wraps. TLC checked this
  on runs, and that it is inductive from all states with short queues, before it was
  proved. There is one lemma per change of oFono's (`ComesRight`, `GoesRight`,
  `InterfacesRight`, `LockChangesRight`, `ServesRight`) and one per kind of message
  (`AddedRight`, `RemovedRight`, `ModemProxyRight`, `ModemPropsRight`,
  `InterfacesMessageRight`, `SimProxyRight`, `SimPropsRight`, `LockRight`, `ModemsRight`,
  `ManagerRight`). The lemmas on queues before them say what a message that comes or goes
  does to each part.

And of the mirror of connman's services, for any finite set of services, any lists,
changes and exits of connman (`NetAssumption`: no service is called like one of the four
words the model uses for what is none):

* `NetTypeCorrect`: `NetSpec => []NetTypeOK`.
* `NetworkIsAlwaysRight`: `NetSpec => []NetworkIsRight`.

That the rows are right when all is quiet follows from what was under way before, so
`NetInv` is about the queues. At any time the rows are those of the last list that was
handled and have their places in it (`Placed`), the first row was the last that was
looked at (`TopIsShown`), and who is connected was told (`TopIsTold`). Messages come in
the order of connman's runs (`ListsInOrder`, `RunsBounded`). The last list under way, or
the one that is shown if none is, is the list connman has, once its present run has said
any; before that its first run has no rows and a later one no services (`Current`). For
a service that has a row and is in every list to come, and whose properties nobody has
yet to be asked for, the last word about it under way says its state, or if there is
none its row does; only what an earlier run of connman said may be wrong (`Mirrored`).
An answer about a service finds it in the list before it, so that none makes a row that
is not listed (`Expected`); signals about others are dropped. TLC checked `NetInv`, with
three services, two changes and one exit, before it was proved. There is one lemma per
act of connman's and per message. A list is handled one service at a time: `entered` and
`left` are recursive functions, and that they exist is shown by `Runs`, from the least
length for which they would not, as in `SessionProofs`; what each step keeps carries
over to the end likewise.

`ListProofs` proves of the widgets of that list, for any finite set of services and any
number of changes and drags (`ListAssumption`: no service is called "none"):

* `ListTypeCorrect`: `ListSpec => []ListTypeOK`.
* `ListIsAlwaysRight`: `ListSpec => []ListIsRight`. That widgets mirror rows, that
  updates are pending and that the dummy is shown when it should be is one formula about
  the state as a record (`SoundBut`), which each handler of a signal keeps; it excepts
  widgets whose row is known but which are about to be updated. The order needs more.
  While what makes it unreliable did not happen, `OrderFollows` says: a widget under the
  pointer was lifted out of the right order (`Lifted`); after it is dropped there is one
  call, which asks connman for just what the user did (`AskedFor`), so that the order is
  right whether connman does it or refuses; and otherwise the service that is first in
  the list is first in the box. A list is followed one service at a time, and after each
  the widgets before it are where they belong (`FollowRuns`, `EnteredBox`). It does not
  follow for any list that the whole box is right then; it does if one service moved, came
  last or went (`OneMoves`, `FollowMoves`, `FollowGrows`, `FollowNear`), which is what
  `disorder` tells apart, and the first widget is right in any case (`FollowLeads`).
  `Piece` to `Swaps` are about sequences without repetitions from which one element is
  taken and put elsewhere.

`SessionProofs` proves for any number of clients, delays and alarms that wait, from
`PresenceAssumption` (the delays and the bounds are numbers, and there is a delay):

* `PresenceTypeCorrect`: `PresenceSpec => []PresenceTypeOK`.
* `PresenceWatchIsRight`: `PresenceSpec => []WatchIsRight`.
* `PresenceIdlenessIsRight`: `PresenceSpec => IdlenessIsRight`, an action property.

The invariant `PresenceInv` is about the state as one record, as the functions of the
model are: the watch is there while the screen saver is off and idleness is enabled,
and without it no alarm is armed and no event that waits still counts (`Watched`);
idleness is enabled when no stored inhibitor forbids it (`Sound`); the status that was
set last is shown, or saved while the session is idle (`Keeps`). From `Watched` an
alarm that is handled while somebody inhibits is a dead one, which is the action
property. `ResetKeeps`, `UpdateKeeps` and `SetIdleKeeps` say what each function keeps,
and one lemma per action puts them together.

`WindowProofs` proves of the Alt+Tab switcher, for any set of windows, without an
assumption:

* `AltTypeCorrect`: `AltSpec => []AltTypeOK`.
* `AltStartsClean`: `AltSpec => []SwitchStartsClean`.
* `AltGoesToHighlighted`: `AltSpec => GoesToHighlighted`, an action property.

The invariant `AltInv` says of the switcher's state, as one record, that the one
initial timeout runs only while the overlay is hidden and a slow-down timeout only
while it is shown (`OneTimeout`); that the windows, and the apps of the overlay among
them, are listed once each; and that the highlighted app is the picked one (`Lists`).
The last is what the action property needs: `priv->active` outlives its app, but then
nothing is highlighted. Each handler goes to a clean state and goes right (`Handled`),
one lemma per handler; `LeftOut` and `FirstPut` say what taking a window out of a list
and putting it first do.

And of the workspaces, for any applications, dialogs and number of workspaces
(`DeskAssumption`: an application has one dialog at most, and there may be two
workspaces or more), as long as no window that is minimized becomes fullscreen or the
reverse; with that use the properties fail (section 5):

* `DeskTypeCorrect`: `DeskSpec => []DeskTypeOK`.
* `DeskRights`: `DeskSpec => []WorkspacesAreRight`.
* `DeskFollows`: `DeskSpec => MappedIsActive`, an action property. Two kinds of moves
  are told apart (`Alone`): one that leaves its workspace to others, after which the
  index finds the target (`MoveToRight`), and one that takes the workspace away, after
  which the index finds none (`MoveAlone`) and nothing is activated.

`DeskRight` is inductive, which TLC checked from all of its states before it was proved.
To the three parts of `WorkspacesAreRight` it adds that a dialog is where its application
is (`Attached`) and that neither dialogs nor minimized windows are fullscreen (`Simple`).
The handlers nest, and within them the state is not right: a window is off its workspace
already, a workspace was added for one that is still to come, a window that is closed is
in no list but still fullscreen. So the lemmas about the functions ask for parts of
`DeskRight` only, and for a state with one workspace that may be empty (`OccupiedBut`):
`CheckRight` says what `check_for_empty_workspace` repairs, `ChangeIs` that a window
whose workspace another one keeps (`Shared`) moves with its dialog and nothing else,
`Moved` and `ItsOwn` that all is well when the workspace it gets is the active one.
`OneLess`, `OneBefore` and `OneAfter` are about lists without repetitions, and `NewOne`
is the pigeonhole principle: there is an identifier for a workspace that is added.

`DeviceProofs` proves for any number of mounts, signals, ejects and shows of the
panel, from `DevicesAssumption` (the bounds are numbers, and there
are finitely many mounts):

* `TilesTypeCorrect`: `TilesSpec => []TilesTypeOK`.
* `DevicesTruth`: `TilesSpec => []DevicesAreRight`. What a tile says depends on GIO's
  mount, of which the panel learns later; so the invariant `DevInv` follows what is on
  the way. A mount that has gone was removed, or the signal of that is to come, and
  without a signal on the way its tile is there exactly if it should be (`Known`); a
  signal that a mount was added comes first of all that concern it and finds no tile,
  which is why none is made twice (`Told`); and the tile that the table has for a mount
  does not expire (`Stays`). A handler settles the mount its signal is about, whatever
  it makes of the tiles (`HandlerSettles`), and it makes one tile, takes one or keeps
  them (`HandlerMakes`, `HandlerTakes`, `HandlerKeeps`). A tile may be changed by
  whatever does not make it say more than it should (`TileSays`).

And for any finite set of devices, any kinds of requests and any number of changes
(`BtAssumption`; "nothing" is no kind of request), of the Bluetooth panel:

* `BtTypeCorrect`: `BtSpec => []BtTypeOK`.
* `BluetoothTruth`: `BtSpec => []BluetoothIsRight`. A round leaves a widget for a device
  that is off only if an earlier one left it unmarked, so the invariant adds that a
  widget which says "connected" between rounds was passed over by the last one
  (`MarksLast`). `MoreAreCurrent` says what the widgets are before the walk, `RoundEnds`
  what they are after it, wherever it ends; `OneGoes` and `OthersStay` what is left of a
  sequence without one of its elements, which the requests need as well.

And for any number of toggles, changes, exits and crashes, of the three programs that
switch radios:

* `RadioTypeCorrect`: `RadioSpec => []RadioTypeOK`.
* `RadioToggles`: `RadioSpec => []TogglesFollow`, assuming that connman refuses the
  Bluetooth panel no technology and the devices panel no offline mode, whose toggles
  nothing resets (section 5). It may refuse whatever else, and does refuse what is so
  already or not there. What a program knows and what its toggles say may be wrong only
  while something is under way that puts it right, so `RadioInv` is about what the
  queues hold and in what order. Of any radio, the last that connman says is right
  (`LastIsRight`). The pane's switch is blocked exactly while its one call is under way
  (`Blocked`), and differs from its copy only if an answer, an error or a signal comes
  (`PaneFollows`). A manager knows the radios, or will: it is making a proxy, has asked,
  or will hear that connman appeared; and nothing that connman said before it vanished
  is taken for news of the next one (`ManagerKnows`). The toggles of its two users
  differ from it only while a call or a signal comes, and not while it asks
  (`TileFollows`, `ShellFollows`). The Bluetooth panel, which does not look at a technology
  that it does not have, needs the order of two signals besides: a technology that came
  is said to be on before it is said to be off (`TechComes`). The lemmas about
  `Among`, `Followed`, `NotBefore`, `Single` and `Comes` say what these mean of a
  sequence that got longer or lost its head.

And of the notifications, for any windows, applications, volumes, timeouts and number of
messages (`NotifyAssumption`: the keys of messages, windows and volumes differ, and
"nobody" is none of them), whichever windows give "local" as their machine:

* `NtfTypeCorrect`: `NtfSpec => []NtfTypeOK`.
* `TraysAlwaysRight`: `NtfSpec => []TraysAreRight`.
* `ClosedAlwaysStays`: `NtfSpec => ClosedStaysClosed`, an action property.

A handler is a function from a state to a state that may call others, so the invariant
is one of states (`Right`), and a lemma for each handler says that it leads from a right
state to a right one with no notifier and no stored message that was not there before
(`Fewer`); together they are `Safe`. `Right` strengthens the property where the handlers
need it: the count of a tray is never more than what is open on it, also after "Dismiss
All", since a dead notifier that is closed again only lowers it (`CountedOn`); the
keyboard is taken while the urgent tray counts any (`Keyed`); a notifier of a message no
update moved is on the tray that its message's urgency says, which is the only place
`StoreClose` looks for it, and no notifier has an id that is still to be given
(`InStore`); a dead notifier has no timer (`TicksOne`). The three steps of a handler
that is interrupted, when the store forgets a message whose notifier is still open, are
right but for that message: `StoreCloseSafe` takes it for a moved one meanwhile, and
`Dropped` takes it back. The loops of `DismissAll` and `Unmanaged` are recursive
functions. That one exists is shown by the least length for which it would not (`Runs`),
that each step keeps the state safe carries over to its end likewise (`Stays`).

And of the launch records, `LaunchesAreRight`, `Spec => []StoreIsRight`, for any
number of processes, queries and executables, from `LaunchesAssumption` (each
process launches an executable). The invariant says who may hold a lock on what: an
adder that is at work holds its file exclusively (`HasLock`), a query holds its file
shared (`QueryHasLock`), so a file does not change under a query and nobody adds to
what another one has looked at (`SeenIsTrue`); and files that are named are there
(`FilesAreThere`).

Model-checked only:

* liveness (`RunningGetsAttached`, the fairness part of `SlotSpec`, `Settles`,
  `WaitEnds`), as ENABLED is out of the prover's reach;
* `PanelOrder` (`AsExpected`, `RequiredStay`), whose algorithm is a RECURSIVE operator,
  which the provers cannot reach;
* the type invariants of the compositions (`DesktopTypeOK`, `ServicesTypeOK`), each part
  of which is proved of its own component, but for that of `PanelOrder`.

## 5. Where code and its words differ

Runs that end in a violation, listed as `findings`:

* `link_death`: `noc_cb` leaves deaths to the owner proxy, but a panel that dies
  just after answering `InitPanel` is attached without one.
* `show_wait`: a panel whose window maps under a modal window leaves the toolbar
  waiting, because the stub's timeout was removed and no other set.
* `order_underflow`: each ordinary panel that is removed lowers the signed count,
  counted before or not; below zero, the unsigned comparison throws off required
  panels that fit.
* `notify_tray`: dead notifiers stay on the tray (see `Notify` above), so the next
  "active" one may be dead; three urgent messages closed in their order leave an
  empty urgent tray, and its lowlight, on the screen.
* `radio_failure`: when connman refuses offline mode, the change that is faked for
  the user interfaces' sake is of another property than the one the devices panel
  listens to, and its switch stays as the user put it. The Bluetooth panel's does
  so too when connman refuses its technology: the change that is faked changes nothing
  that the panel compares (`dawati-bt-shell.c:484`).

Found while modelling, without a run of their own.

Toolbar and panels:

* A click on a panel that is broken or mapped leaves the stub of an abandoned request,
  and its timeout, to the panel that was asked for (`mnb-toolbar.c:1366`, against
  `:1388`). If that panel then shows itself and is clicked before its animation has
  ended, the timeout calls it broken although it is there; with "hasty click" in
  `Faults`, `RemainsAreHarmless` and `SlotSpec` fail.
* The default handler of "unload" calls `g_main_loop_quit (NULL)`
  (`mpl-panel-client.c:479`), which ends nothing: a panel that the settings drop runs on.
* `ready` is not reset when the panel goes (`mnb-toolbar.c:1912`); a resize then
  passes NULL to `mnb_panel_set_maximum_size` (`:3296`).
* The shell shows the myzone without going through its button; the button of the
  panel it replaces, when released, hides the myzone (`mnb-toolbar.c:2979`).
  With "activate" in `Uses`, `LastWins` fails.
* A panel's window that maps under a modal window while the panel is in its hide
  animation stays mapped, unknown to the shell (`mnb-panel-oop.c:1458`). With
  `Modal` and "overlap" in `Uses`, `MappedIsWindow` fails.
* A click on the button of a panel that is being hidden leaves the button down
  (`mnb-toolbar.c:1383`: the panel is still mapped, so nothing is done). With
  "reclick" in `Uses`, `ButtonMatches` fails; the comment at `:1377` promises
  otherwise.
* A hide that interrupts the show animation clears `dont_hide_toolbar`
  (`mnb-panel-oop.c:1418`) although the shell asked for it (`:1462`). With
  "overlap" in `Uses`, `HiderDecides` fails.
* `mnb_toolbar_show` returns while a show is running without raising
  `reason_for_show`, so a hide that is weaker than a pending show may win
  (`mnb-toolbar.c:575`, against `:766`).
* The status bar tests visibility when it arms its trigger, not when the timeout
  fires (`mnb-statusbar.c:63`, against `:101`).
* `mnb_toolbar_activate_panel_internal` sets `reason_for_show` before toggling the
  button of a panel that failed before; nothing clears it (`:3010`). In
  `ToolbarReveal` this is the exception `vain` of `ReasonIsPending`.
* Start-up appends default panels to the order, a resize does not
  (`mnb-toolbar.c:3271` and `:3950`): an optional default panel that is not listed
  leaves the toolbar at the first resize.
* `ensure_size_for_screen` pushes the toolbar's region (`mnb-toolbar.c:3278`) before
  it knows the new width (`:3281`).

Window manager, Alt+Tab, presence:

* A panel's window that is shown again during its hide animation
  (`dawati-netbook.c:492`) turns its region into a hole: with `Remap`,
  `InputIsRight` fails.
* A window that comes back alone to its workspace is moved to a new one, at the end of
  the list. Its move removes the workspace it leaves, so that the index that
  `dawati_netbook_move_window_to_workspace` looks up afterwards to activate the target
  is past the end: the user stays where he was, although the window was to be
  activated (the exception of `MappedIsActive`).
* A window that becomes fullscreen while it is minimized is listed twice in
  `fullscreen_wins`: with `MinimizeFull`, `WorkspacesAreRight` fails. A fullscreen window that is minimized on the only
  workspace leaves the compositor off. `tml_minimize` and `tml_maximize` are never
  assigned.
* The overlay of Alt+Tab may be shown without a grab, which `mnb-alttab.c:333` says
  is impossible (`OverlayHasGrab` in `Alttab`); the cancel key within the first
  100 ms switches all the same; a choice while an urgent notification is there leaves
  the overlay; `priv->active` goes stale when its window closes.
* A client that inhibits idleness while the session is idle leaves the status idle; a
  screen saver that runs at start-up is not watched; `gsm_presence_set_status_text`
  frees the old text before it checks the new one; `timeout * 60000` may overflow.

Notifications:

* A notifier that is not the active one is destroyed inside the emission of its
  "closed" (`ntf-tray.c:505`): its message stays in the store and no
  NotificationClosed is sent. With three urgent messages the keyboard may stay
  taken.
* "Dismiss All" emits "closed" on dead notifiers too (`ntf-tray.c:354`) and hides the
  tray whatever is left on it; counts go wrong. The properties of `Notify` make
  an exception for trays on which it was used (`swept`).
* An update that changes a message's urgency leaves a notifier on the first tray
  (`ntf-libnotify.c:133`; `moved` is the exception).
* A window that demands attention for the second time updates its dead notifier
  (`ntf-wm.c:154`), so nothing is shown.
* When the pointer leaves a notifier after its time was over, the remaining time
  is negative and becomes 49 days (`ntf-notification.c:171`).
* Choosing Open for a volume twice frees its URI twice (`ntf-gio.c`).

Network panel:

* A modem that is removed while its SIM's proxy is being made leaves
  `n-connection-managers` too high (`carrick-ofono-agent.c:489`), and the item for
  modems is shown without one; a PIN is not put back into the table when its SIM
  returns; two additions of one modem leak a proxy. The count is changed without a
  notification at `:551`, so that the list's copy is stale.
* After a wrong PUK the item goes on asking for a new PIN (nothing resets
  `passphrase_type`) but has no PUK any more, so that further calls send none and the
  message that the PUK was wrong (`carrick-service-item.c:819`) is not reached; the
  comment at `:1612` promises otherwise. `PukIsUsedOnce` is what is true of it.
* The hint in the entry of a code counts as typed: `passphrase_hint_visible` is
  cleared by the very handler of the text that shows the hint. In the model a code
  may therefore be the hint.
* Any news overwrites the code the user is typing with the hint. The box of a wifi
  network in state "idle" is hidden by it, be it of the signal's strength, as it asks
  for no PIN (`update_cellular_info`), and so it is by a second click on the clear icon
  (`:1731`); the button that connects does not come back until the item is left.
* The hint of a password counts as typed, too: "Type password here" is sent as the
  password when the user just clicks Connect.
* Settings that are answered after the user turned to another item start to connect
  (`:2219`), or open a box in an item that is not active; `set_active (FALSE)` then
  returns early, and the button stays away even when the panel is shown again (`late`).
* The line with an error is hidden by `_set_form_state` in the same handler whenever a
  widget of the form changes, which the name servers do always; a failure that follows
  a failure within the 100 ms of an update stays hidden.
* The delete button is hidden in state "failure", where the comment at `:1077` wants
  it, and shown for Ethernet; the button is said to be insensitive while disconnecting
  (`:1114`) and is not. A wrong IPv4 address is told, but name servers and proxies are
  sent and the form counts as saved (`:2544`); a prefix length is written into
  another value than the one initialized (`:2598`); the dialog of the delete button may
  outlive its item.
* Dropping a widget at the top of the list asks connman to move a service before
  itself, which is refused (`carrick-list.c:685`). A refused move restores a position
  that may be stale, of a widget that may be gone. If enough services go between a
  drop and the end of the drag, the program reads a NULL; TLC needs four services for
  it. With four services the order of the widgets may stay wrong after one list that
  moves several, until the next one; the first is right always.
* When the model becomes empty the widgets of cellular services are not forgotten
  (`carrick-list.c:700`), and the item for modems is hidden afterwards.
* The row of a service of a former connman, known from a list that came late, never
  learns its properties; services that have the same path keep their old state.
  "State" leaks a reference of the row's proxy (`carrick-network-model.c:599`), so its
  handlers outlive the row; "Proxy.Configuration" writes columns of another name
  (`:799`); a note is sent where `carrick-notification-manager.c:464` says none is;
  losing the last service sends none.
* The pane drops toggles made while a call is pending, and does not ask connman
  again after it was restarted; a manager without connman has NULL lists.

Other panels and the library:

* Bluetooth: two devices that disconnect at once leave one widget until the next
  round, as a comment says (`dawati-bt-shell.c:187`); the widget of a request that
  was cancelled lingers, as the handler of the cancellation takes the applet for the
  shell; a numeric passkey is always answered with -1 (`dawati-bt-request.c:308`
  passes the text for a PIN only).
* Devices: mounts that are there at the start have no client for their tile;
  "safe to unplug" is overwritten by a show of the panel or a late failure of
  the eject; a tile's handler of "show" outlives it.
* Launch records: a process that waits for the lock of a file that is replaced
  meanwhile loses its launch, as do two that make the first file (`astray`); the
  comment at `mpl-app-launches-store.c:23` counts on the kernel to queue them. The new
  file is made in `/tmp` and renamed, which fails across file systems; the time of a
  launch is written before its count.
* Bookmarks: a save that fails is not tried again, saves of two processes overwrite
  each other, the monitor's reload discards what was not saved.

## 6. Not modelled

The models cover the state machines of the shell and of the panels that mirror a
service; that is about a tenth of the repository's lines, and most of what carries
its own logic. The rest is, by size: widgets, tiles, drawing and layout; dialogs and
control panel applets; `gvc/`, which is copied from gnome-volume-control; the web
panel, whose logic is a browser's; build files, themes and translations.

Within the modelled parts: drawing, sizes and positions, tooltips, styles, names
of icons; GLib source ids that outlive their source; the start-up slide of the
toolbar; the window manager's bookkeeping of effects, its backgrounds and the
stashing of focus; pointer handling of Alt+Tab; kinds of inhibition other than
idle; times in launch records, and bookmarks, which are a list saved from an idle
handler; in `Network` addresses, VPN providers and names; in `ServiceList` scrolling,
and services that are no favourites and cannot be dragged; in `ServiceItem` networks
without security, with fixed settings or a portal, Ethernet and VPN, and what the
settings say; battery, brightness and volume in the devices panel. Alarms: the daemon that would ring them is not built
(`panels/datetime/src/Makefile.am:51`). The notes of each component are in
`PROJECT.json`.

The environment is modelled from how the code uses it: the bus's order of messages,
connman's and oFono's replies, GIO's signals, mutter's callbacks. Where the environment's
documentation allows more than the model, the module's head says what is assumed.

## 7. What could come next

1. `PanelShow`'s `LastWins` with modal windows, from `Stories` instead of `Beliefs`.
2. The panel client's proxy for the toolbar, composed with `PanelLink`; `PanelOrder`'s
   list composed with the stub and the panel to activate.
3. `Ofono`'s tables and `SimUnlock` as one system, with oFono's count of retries.
4. `ServiceItem` composed with `Network` and `ServiceList`, so that an item may go
   while its calls are under way.
