------------------------------ MODULE Devices ------------------------------
(***************************************************************************)
(* The devices panel's list of removable devices: a tile for every mount   *)
(* that GIO wants shown, ejecting them, and the default tile and filigree  *)
(* that are there when no device is (mpd-devices-tile.c,                   *)
(* mpd-storage-device-tile.c, mpd-devices-pane.c).                         *)
(*                                                                         *)
(* External: GIO.  A mount comes, is shadowed or not, and goes for good;   *)
(* its signals arrive later, in order, while whether it is shadowed is     *)
(* read when they are handled.                                             *)
(***************************************************************************)
EXTENDS Naturals, Sequences, FiniteSets, Functions

CONSTANTS
  Mounts,        \* GMount objects
  MaxSignals,    \* bound: signals of the volume monitor
  MaxEjects,     \* bound: clicks on "Eject"
  MaxShows       \* bound: shows of the panel

ASSUME DevicesAssumption == /\ IsFiniteSet(Mounts)
                            /\ {MaxSignals, MaxEjects, MaxShows} \subseteq Nat

VARIABLES
  mount,      \* GIO's mounts
  signals,    \* of the volume monitor, not yet handled
  nSignals,   \* how many there were
  devTiles,   \* every tile that was made, by number
  tileOf,     \* priv->tiles: mount -> number, 0 if it has none
  gone,       \* the mounts with "mpd-removed-already"
  ejects,     \* pending operations: the numbers of the tiles they were called with
  nEjects,    \* how many there were
  nShows,     \* how often the panel was shown
  defaultTile, filigree   \* are visible

devicesVars == <<mount, signals, nSignals, devTiles, tileOf, gone, ejects, nEjects, nShows,
                 defaultTile, filigree>>

Here == {m \in Mounts : mount[m].is = "here"}
Numbers == DOMAIN devTiles
TileTexts == {"none", "empty", "safe", "failed", "in use"}

\* hooked: _panel_show_cb is connected; busy: its processes are known; buttons:
\* they are enabled; expires: the 15 s timeout is pending.
Tiles == [mount: Mounts, alive: BOOLEAN, hooked: BOOLEAN, disabled: BOOLEAN, busy: BOOLEAN,
          text: TileTexts, buttons: BOOLEAN, expires: BOOLEAN]

TilesTypeOK ==
  /\ mount \in [Mounts -> [is: {"absent", "here", "gone"}, shadowed: BOOLEAN]]
  /\ signals \in Seq([type: {"added", "changed", "removed"}, mount: Mounts])
  /\ devTiles \in Seq(Tiles) /\ gone \subseteq Mounts /\ ejects \subseteq Numbers
  /\ defaultTile \in BOOLEAN /\ filigree \in BOOLEAN
  \* a mount has its own, living tile
  /\ tileOf \in [Mounts -> {0} \cup Numbers]
  /\ \A m \in Mounts : tileOf[m] # 0 => devTiles[tileOf[m]].alive /\ devTiles[tileOf[m]].mount = m

(***************************************************************************)
(* Functions of the panel's state s.                                       *)
(***************************************************************************)
TilesState == [tiles |-> devTiles, of |-> tileOf, deflt |-> defaultTile, fil |-> filigree]

NoTiles(of) == \A m \in Mounts : of[m] = 0

\* _mount_is_wanted_device
WantedAgainMount(m) == ~mount[m].shadowed     \* (mutant: removals are not kept track of)
WantedMount(m) == ~mount[m].shadowed /\ m \notin gone

\* insert_storage_tile: t becomes the mount's; "empty" is emitted to _devices_empty_cb.
Inserted(s, m, t) ==
  [tiles |-> Append(s.tiles, t), of |-> [s.of EXCEPT ![m] = Len(s.tiles) + 1],
   deflt |-> IF NoTiles(s.of) THEN FALSE ELSE s.deflt,
   fil   |-> IF NoTiles(s.of) THEN FALSE ELSE s.fil]

\* remove_storage_tile; the tile is t from then on.
TableRemove(s, m, t) ==
  LET of == [s.of EXCEPT ![m] = 0]
  IN [tiles |-> [s.tiles EXCEPT ![s.of[m]] = t], of |-> of,
      deflt |-> IF NoTiles(of) THEN TRUE ELSE s.deflt,
      fil   |-> IF NoTiles(of) THEN TRUE ELSE s.fil]

\* add_tile_from_mount
NewTile(m, hooked) == [mount |-> m, alive |-> TRUE, hooked |-> hooked, disabled |-> FALSE,
                       busy |-> FALSE, text |-> "none", buttons |-> TRUE, expires |-> FALSE]
AddTile(s, m, hooked) == Inserted(s, m, NewTile(m, hooked))

Becomes(s) == devTiles' = s.tiles /\ tileOf' = s.of /\ defaultTile' = s.deflt /\ filigree' = s.fil

\* mpd_devices_tile_init and mpd_devices_pane_init.  The tiles of the mounts that
\* are there at the start are made before the panel client is known, in GIO's order.
TilesInit ==
  /\ mount \in [Mounts -> [is: {"absent", "here"}, shadowed: BOOLEAN]]
  /\ \A m \in Mounts : mount[m].is = "absent" => ~mount[m].shadowed
  /\ gone = {} /\ signals = <<>> /\ nSignals = 0 /\ ejects = {} /\ nEjects = 0 /\ nShows = 0
  /\ LET first == {m \in Here : WantedMount(m)}
     IN \E q \in Bijection(1..Cardinality(first), first) :
          /\ devTiles = [i \in DOMAIN q |-> NewTile(q[i], FALSE)]
          /\ tileOf = [m \in Mounts |-> IF m \in first THEN CHOOSE i \in DOMAIN q : q[i] = m
                                       ELSE 0]
          /\ defaultTile = (first = {}) /\ filigree = (first = {})

(***************************************************************************)
(* GIO.                                                                    *)
(***************************************************************************)
SignalSent(type, m) ==
  /\ nSignals < MaxSignals /\ nSignals' = nSignals + 1
  /\ signals' = Append(signals, [type |-> type, mount |-> m])
  /\ UNCHANGED <<devTiles, tileOf, gone, ejects, nEjects, nShows, defaultTile, filigree>>

Mount(m) == /\ mount[m].is = "absent"
            /\ \E hidden \in BOOLEAN : mount' = [mount EXCEPT ![m] = [is |-> "here", shadowed |-> hidden]]
            /\ SignalSent("added", m)
Unmount(m) == /\ mount[m].is = "here" /\ mount' = [mount EXCEPT ![m].is = "gone"]
              /\ SignalSent("removed", m)

\* "already removed mounts sometimes emit mount-changed"
ChangeMount(m) ==
  /\ mount[m].is # "absent"
  /\ \E hidden \in BOOLEAN : /\ mount[m].is = "gone" => hidden = mount[m].shadowed
                             /\ mount' = [mount EXCEPT ![m].shadowed = hidden]
  /\ SignalSent("changed", m)

(***************************************************************************)
(* The handlers of its signals.                                            *)
(***************************************************************************)
MountAdded(m) == /\ Becomes(IF WantedMount(m) THEN AddTile(TilesState, m, TRUE) ELSE TilesState)
                 /\ UNCHANGED gone

\* A tile that is not wanted any more is destroyed at once.
MountChanged(m) ==
  LET n == tileOf[m]
  IN /\ Becomes(IF n # 0 /\ ~WantedMount(m)
                THEN TableRemove(TilesState, m, [devTiles[n] EXCEPT !.alive = FALSE])
                ELSE IF n = 0 /\ WantedMount(m) THEN AddTile(TilesState, m, TRUE) ELSE TilesState)
     /\ UNCHANGED gone

\* mpd_storage_device_tile_show_message_full
ShowMessage(t, text) == [t EXCEPT !.text = text]

\* The tile of a removed one stays for 15 s to say that it may be unplugged.
Unpluggable(t) == [ShowMessage(t, "safe") EXCEPT !.buttons = FALSE, !.expires = TRUE]
MountRemoved(m) ==
  LET n == tileOf[m]
  IN /\ gone' = gone \cup {m}
     /\ Becomes(IF n = 0 THEN TilesState
                ELSE TableRemove(TilesState, m, Unpluggable(devTiles[n])))

SignalHandled ==
  /\ signals # <<>> /\ signals' = Tail(signals)
  /\ LET e == Head(signals) IN
       CASE e.type = "added"   -> MountAdded(e.mount)
         [] e.type = "changed" -> MountChanged(e.mount)
         [] e.type = "removed" -> MountRemoved(e.mount)
  /\ UNCHANGED <<mount, nSignals, ejects, nEjects, nShows>>

\* _unmount_message_expiration_cb
Expire(n) ==
  /\ devTiles[n].expires
  /\ devTiles' = [devTiles EXCEPT ![n].alive = FALSE, ![n].expires = FALSE]
  /\ UNCHANGED <<mount, signals, nSignals, tileOf, gone, ejects, nEjects, nShows,
                 defaultTile, filigree>>

(***************************************************************************)
(* Ejecting.                                                               *)
(***************************************************************************)
\* _tile_eject_cb; possible: the drive, the volume or the mount can do it.
ClickEject(n, possible) ==
  /\ nEjects < MaxEjects /\ nEjects' = nEjects + 1
  /\ devTiles[n].alive /\ devTiles[n].buttons /\ ~devTiles[n].disabled
  /\ IF devTiles[n].mount \in Here
     THEN /\ devTiles' = [devTiles EXCEPT ![n].busy = FALSE, ![n].disabled = possible]
          /\ ejects' = IF possible THEN ejects \cup {n} ELSE ejects
     ELSE UNCHANGED <<devTiles, ejects>>
  /\ UNCHANGED <<mount, signals, nSignals, tileOf, gone, nShows, defaultTile, filigree>>

\* _show_processes_cb
ShowProcesses(n) ==
  /\ n \in ejects /\ devTiles[n].alive
  /\ \E some \in BOOLEAN : devTiles' = [devTiles EXCEPT ![n].busy = some]
  /\ UNCHANGED <<mount, signals, nSignals, tileOf, gone, ejects, nEjects, nShows,
                 defaultTile, filigree>>

\* The callbacks do nothing with a tile that is not one any more.
EjectDone(n) ==
  /\ n \in ejects /\ ejects' = ejects \ {n} /\ devTiles[n].mount \notin Here
  /\ UNCHANGED <<mount, signals, nSignals, devTiles, tileOf, gone, nEjects, nShows,
                 defaultTile, filigree>>

\* _handle_eject_error: a drive may fail to eject after its mount has gone.
FailedTile(t, isBusy) ==
  [ShowMessage(t, IF isBusy /\ t.busy THEN "in use" ELSE "failed") EXCEPT !.disabled = FALSE]
EjectFails(n, isBusy) ==
  /\ n \in ejects /\ ejects' = ejects \ {n}
  /\ devTiles' = IF devTiles[n].alive THEN [devTiles EXCEPT ![n] = FailedTile(@, isBusy)]
                 ELSE devTiles
  /\ UNCHANGED <<mount, signals, nSignals, tileOf, gone, nEjects, nShows, defaultTile, filigree>>

\* _panel_show_cb, for every tile that is connected
PanelShows ==
  /\ nShows < MaxShows /\ nShows' = nShows + 1
  /\ devTiles' = [n \in Numbers |-> IF devTiles[n].alive /\ devTiles[n].hooked
                                    THEN ShowMessage(devTiles[n], "empty") ELSE devTiles[n]]
  /\ UNCHANGED <<mount, signals, nSignals, tileOf, gone, ejects, nEjects, defaultTile, filigree>>

TilesNext ==
  \/ \E m \in Mounts : Mount(m) \/ Unmount(m) \/ ChangeMount(m)
  \/ SignalHandled \/ PanelShows
  \/ \E n \in Numbers :
       \/ Expire(n) \/ ShowProcesses(n) \/ EjectDone(n)
       \/ \E possible \in BOOLEAN : ClickEject(n, possible) \/ EjectFails(n, possible)

TilesSpec == TilesInit /\ [][TilesNext]_devicesVars

(***************************************************************************)
(* Properties.                                                             *)
(***************************************************************************)
\* Once GIO's signals are handled there is a tile for every mount that is not
\* shadowed and for no other, also if a removed one is said to have changed; and
\* at any time the default tile and the filigree are there if no device is.
TilesMatchMounts ==
  /\ signals = <<>> => \A m \in Mounts : tileOf[m] # 0 <=> m \in Here /\ ~mount[m].shadowed
  /\ defaultTile = NoTiles(tileOf) /\ filigree = NoTiles(tileOf)

\* A tile on the screen is some mount's or will go by itself, one that cannot be
\* clicked is being ejected or has been, and "safe to unplug" is never said of what
\* is mounted, however removals, failures and shows of the panel interleave.
TilesAreHonest ==
  \A n \in Numbers : LET t == devTiles[n] IN t.alive =>
    /\ n = tileOf[t.mount] \/ t.expires
    /\ t.disabled => n \in ejects \/ t.mount \notin Here
    /\ t.text = "safe" => t.mount \notin Here

\* What the panel shows is what is plugged in, and says what becomes of it.
DevicesAreRight == TilesMatchMounts /\ TilesAreHonest
=============================================================================
