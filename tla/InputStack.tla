---------------------------- MODULE InputStack -----------------------------
(***************************************************************************)
(* The stack of input regions.  The stage window covers the screen; where  *)
(* its input shape is, Clutter gets the events, elsewhere the X windows    *)
(* beneath do.  The shape is built from regions in three layers that add   *)
(* to it or punch holes.  The toolbar pushes its region by hand; actors    *)
(* and windows are pushed once, and handlers of their signals keep their   *)
(* region in step from then on.                                            *)
(*                                                                         *)
(* The screen is a set of cells; an area is a set of cells.                *)
(***************************************************************************)
EXTENDS Naturals, Sequences, SequencesExt

CONSTANTS
  Cells,    \* of the screen
  Places,   \* where each actor may be allocated
  BarArea,  \* where the toolbar is
  Beneath,  \* the strip of the screen below the lower edge of an area
  Remap     \* a panel's window may come back during its hide animation

VARIABLES
  layers,  \* priv->layers: for each layer its regions in the order of their push
  shape,   \* current_region: what the X server was told
  mir,     \* who holds which region: quark_mir of an actor, input_region of the toolbar
  actor    \* the actors, see InputTypeOK

inputVars == <<layers, shape, mir, actor>>

\* The status bar, the urgent tray and its lowlight, the window of an input
\* method, a panel's window, and a window of that panel's own.
Actors  == {"status", "tray", "lowlight", "scim", "panel", "popup"}
WindowActors == {"scim", "panel", "popup"}
Holders == Actors \cup {"bar"}

\* MNB_INPUT_LAYER_PANEL, _PANEL_TRANSIENTS, _TOP
Layer(h) == IF h \in {"bar", "panel", "popup"} THEN 0 ELSE 2

ASSUME ScreenAssumption ==
  /\ Places \in [Actors -> SUBSET SUBSET Cells] /\ \A a \in Actors : Places[a] # {}
  /\ BarArea \subseteq Cells
  /\ Beneath \in [SUBSET Cells -> SUBSET Cells]
  /\ Remap \in BOOLEAN

\* A region is known by its address: which of its holder's it is.
Ids  == Holders \X {1, 2}
NoRegion == <<"nobody", 0>>
Regions == [id : Ids, inverse : BOOLEAN, area : SUBSET Cells]

InputTypeOK ==
  /\ layers \in [0..2 -> Seq(Regions)]
  /\ shape \subseteq Cells
  /\ mir \in [Holders -> Ids \cup {NoRegion}]
  /\ actor \in [Actors ->
       [alive : BOOLEAN,
        shown : BOOLEAN,              \* CLUTTER_ACTOR_IS_VISIBLE
        area  : SUBSET Cells,         \* its allocation
        handlers : {<<>>, <<"actor">>, <<"panel">>, <<"actor", "panel">>}]]
  /\ \A a \in Actors : actor[a].area \in Places[a]

(***************************************************************************)
(* The stack, as functions of s = [layers, shape, mir].                    *)
(***************************************************************************)
\* g_list_remove, and XFixesSetRegion
Unlinked(q, id) == RemoveFirstMatch(q, LAMBDA r : r.id = id)
Reshaped(q, id, area) ==
  [i \in DOMAIN q |-> IF q[i].id = id THEN [q[i] EXCEPT !.area = area] ELSE q[i]]

Flat(ls) == ls[0] \o ls[1] \o ls[2]

\* mnb_input_manager_apply_stack
ApplyStack(s) ==
  LET all == Flat(s.layers)
      sum[n \in 0..Len(all)] ==
        IF n = 0 THEN {}
        ELSE IF all[n].inverse THEN sum[n - 1] \ all[n].area
        ELSE sum[n - 1] \cup all[n].area
  IN [s EXCEPT !.shape = sum[Len(all)]]

NewId(ls, h) == IF \E j \in DOMAIN Flat(ls) : Flat(ls)[j].id = <<h, 1>>
                THEN <<h, 2>> ELSE <<h, 1>>

\* mnb_input_manager_push_region; its caller keeps the id.
PushRegion(s, h, inverse, area) ==
  LET id == NewId(s.layers, h)
  IN [ApplyStack([s EXCEPT !.layers[Layer(h)] =
                        Append(@, [id |-> id, inverse |-> inverse, area |-> area])])
      EXCEPT !.mir[h] = id]

\* mnb_input_manager_remove_region_without_update
RemoveQuietly(s, h) ==
  [s EXCEPT !.layers[Layer(h)] = Unlinked(@, s.mir[h]), !.mir[h] = NoRegion]

\* mnb_input_manager_remove_region
RemoveRegion(s, h) == ApplyStack(RemoveQuietly(s, h))

\* XFixesSetRegion on the region of h, and the stack applied.
SetArea(s, h, area) ==
  ApplyStack([s EXCEPT !.layers[Layer(h)] = Reshaped(@, s.mir[h], area)])

(***************************************************************************)
(* Handlers of an actor's signals.  A panel has its region not where its   *)
(* window is but below, so that a click there is the toolbar's.            *)
(***************************************************************************)
\* actor_allocation_cb, panel_allocation_cb
Allocated(s, a, kind, area) ==
  IF s.mir[a] = NoRegion THEN s
  ELSE SetArea(s, a, IF kind = "panel" THEN Beneath[area] ELSE area)

\* actor_show_cb, panel_show_cb
ShownAdds(s, a, kind, area) ==        \* (mutant: a window adds when it is shown again)
  IF s.mir[a] # NoRegion
  THEN SetArea(s, a, IF kind = "panel" THEN Beneath[area] ELSE area)
  ELSE PushRegion(s, a, FALSE, IF kind = "actor" THEN area ELSE Beneath[area])
Shown(s, a, kind, area) ==
  IF s.mir[a] # NoRegion
  THEN SetArea(s, a, IF kind = "panel" THEN Beneath[area] ELSE area)
  ELSE IF kind = "actor" THEN PushRegion(s, a, a \in WindowActors, area)
  ELSE PushRegion(s, a, FALSE, Beneath[area])

\* actor_hide_cb, actor_destroy_cb
Hidden(s, a) == IF s.mir[a] = NoRegion THEN s ELSE RemoveRegion(s, a)

\* All handlers of a signal of a, in the order of their connection.
HandleSignal(s, a, signal, kind, area) ==
  CASE signal = "allocation" -> Allocated(s, a, kind, area)
    [] signal = "show"       -> Shown(s, a, kind, area)
    [] signal = "hide"       -> Hidden(s, a)

Emit(s, a, signal, area) ==
  LET hs == actor[a].handlers
      after[n \in 0..Len(hs)] == IF n = 0 THEN s
                                 ELSE HandleSignal(after[n - 1], a, signal, hs[n], area)
  IN after[Len(hs)]

\* mnb_input_manager_setup_actor and mnb_input_manager_push_oop_panel.  A second
\* call connects the same handlers again, which changes nothing: they look first.
SetUp(s, a, kind) ==
  PushRegion(IF s.mir[a] = NoRegion THEN s ELSE RemoveQuietly(s, a), a,
             kind = "actor" /\ a \in WindowActors,
             IF kind = "panel" THEN Beneath[actor[a].area] ELSE actor[a].area)

InputNow == [layers |-> layers, shape |-> shape, mir |-> mir]
InputBecome(s) == layers' = s.layers /\ shape' = s.shape /\ mir' = s.mir

\* Connected after it is pushed.
Connected(hs, kind) == IF kind \in {hs[i] : i \in DOMAIN hs} THEN hs ELSE Append(hs, kind)

(***************************************************************************)
(* The shell starts: the trays, the overlay with its lowlight, which is    *)
(* pushed and then hidden, and the status bar.                             *)
(***************************************************************************)
NoActor(a) == [alive |-> FALSE, shown |-> FALSE, area |-> CHOOSE p \in Places[a] : TRUE,
               handlers |-> <<>>]

InputInit ==
  /\ layers = [l \in 0..2 |->
       IF l < 2 THEN <<>>
       ELSE <<[id |-> <<"tray", 1>>, inverse |-> FALSE, area |-> NoActor("tray").area],
              [id |-> <<"status", 1>>, inverse |-> FALSE, area |-> NoActor("status").area]>>]
  /\ shape = NoActor("tray").area \cup NoActor("status").area
  /\ mir = [h \in Holders |-> IF h \in {"tray", "status"} THEN <<h, 1>> ELSE NoRegion]
  /\ actor = [a \in Actors |->
       IF a \in WindowActors THEN NoActor(a)
       ELSE [NoActor(a) EXCEPT !.alive = TRUE, !.shown = a # "lowlight",
                               !.handlers = <<"actor">>]]

(***************************************************************************)
(* The toolbar: mnb_toolbar_setup_input, mnb_toolbar_wipe_input and        *)
(* mnb_toolbar_update_input.                                               *)
(***************************************************************************)
ToolbarShown ==
  /\ LET s == IF mir["bar"] = NoRegion THEN InputNow ELSE RemoveRegion(InputNow, "bar")
     IN InputBecome(PushRegion(s, "bar", FALSE, BarArea))
  /\ UNCHANGED actor

ToolbarHidden ==
  /\ mir["bar"] # NoRegion
  /\ InputBecome(RemoveRegion(InputNow, "bar"))
  /\ UNCHANGED actor

ToolbarResized ==
  /\ mir["bar"] # NoRegion
  /\ InputBecome(PushRegion(RemoveQuietly(InputNow, "bar"), "bar", FALSE, BarArea))
  /\ UNCHANGED actor

(***************************************************************************)
(* Actors and windows.                                                     *)
(***************************************************************************)
\* dawati_netbook_reposition_statusbar, on every change of the screen's size.
StatusbarPlaced ==
  /\ InputBecome(SetUp(InputNow, "status", "actor"))
  /\ UNCHANGED actor

\* A window is created and pushed: an input method's, when it maps (map); a window
\* of the active panel (dawati_netbook_display_window_created_cb).  The panel's own
\* window counts if it comes back before the shell has seen the panel go.
WindowPushed(a) ==
  /\ ~actor[a].alive
  /\ a = "popup" => actor["panel"].shown
  /\ a = "panel" => Remap
  /\ InputBecome(SetUp(InputNow, a, "actor"))
  /\ actor' = [actor EXCEPT ![a].alive = TRUE, ![a].shown = TRUE, ![a].handlers = <<"actor">>]

\* mnb_toolbar_dropdown_show_completed_partial_cb: a panel has been shown.
PanelPushed ==
  /\ ~actor["panel"].alive \/ actor["panel"].shown
  /\ InputBecome(SetUp(InputNow, "panel", "panel"))
  /\ actor' = [actor EXCEPT !["panel"].alive = TRUE, !["panel"].shown = TRUE,
                            !["panel"].handlers = Connected(@, "panel")]

AllocateActor(a, area) ==
  /\ actor[a].alive /\ area # actor[a].area
  /\ InputBecome(Emit(InputNow, a, "allocation", area))
  /\ actor' = [actor EXCEPT ![a].area = area]

ShowActor(a) ==
  /\ actor[a].alive /\ ~actor[a].shown
  /\ InputBecome(Emit(InputNow, a, "show", actor[a].area))
  /\ actor' = [actor EXCEPT ![a].shown = TRUE]

\* Nobody hides the status bar.
HideActor(a) ==
  /\ a # "status" /\ actor[a].shown
  /\ InputBecome(Emit(InputNow, a, "hide", actor[a].area))
  /\ actor' = [actor EXCEPT ![a].shown = FALSE]

DestroyActor(a) ==
  /\ a \in WindowActors /\ actor[a].alive
  /\ InputBecome(Emit(InputNow, a, "hide", actor[a].area))
  /\ actor' = [actor EXCEPT ![a] = NoActor(a)]

InputNext ==
  \/ ToolbarShown \/ ToolbarHidden \/ ToolbarResized
  \/ StatusbarPlaced \/ PanelPushed
  \/ \E a \in WindowActors : WindowPushed(a) \/ DestroyActor(a)
  \/ \E a \in Actors : \/ ShowActor(a) \/ HideActor(a)
                       \/ \E area \in Places[a] : AllocateActor(a, area)

InputSpec == InputInit /\ [][InputNext]_inputVars

(***************************************************************************)
(* Properties.                                                             *)
(***************************************************************************)
\* "The resulting region is used as the input shape": whatever handler ran
\* last, events in a cell go to Clutter exactly if the last region that covers
\* it, in the highest layer that has one, adds it.
ShapeIsStack ==
  LET all == Flat(layers)
  IN shape = {c \in Cells : \E i \in DOMAIN all :
                /\ c \in all[i].area /\ ~all[i].inverse
                /\ \A j \in i + 1 .. Len(all) : c \in all[j].area => ~all[j].inverse}

\* "Each region remains on the stack until it is explicitely removed": no
\* region is on the stack twice or without a holder, who could remove it, and
\* nobody holds a region that was freed.
OneHolder ==
  /\ \A i, j \in DOMAIN Flat(layers) : Flat(layers)[i].id = Flat(layers)[j].id => i = j
  /\ \A h, g \in Holders : mir[h] = mir[g] /\ mir[h] # NoRegion => h = g
  /\ {mir[h] : h \in Holders} \ {NoRegion} = {Flat(layers)[i].id : i \in DOMAIN Flat(layers)}

\* An actor or window that went through shows, hides, moves and pushes in any
\* order has a region exactly while it is shown, and where it is; a panel's
\* is an addition below its window.  (With Remap the panel's becomes a hole.)
RegionFollowsActor ==
  \A a \in Actors :
    /\ mir[a] # NoRegion <=> actor[a].shown
    /\ \A l \in 0..2 : \A i \in DOMAIN layers[l] :
         layers[l][i].id = mir[a] =>
           /\ l = Layer(a)
           /\ layers[l][i].inverse = (a \in {"scim", "popup"})
           /\ layers[l][i].area = IF a = "panel" THEN Beneath[actor[a].area] ELSE actor[a].area

\* "when an urgent notification pops up, we want to be certain that it will
\* receive the required input": no panel's hole takes a click from the tray.
UrgentGetsInput ==
  actor["tray"].shown =>
    actor["tray"].area \ (IF actor["scim"].shown THEN actor["scim"].area ELSE {}) \subseteq shape

\* Clicks go to the actors whose regions are on top, the urgent tray's before all; what is
\* shown holds its region, and nothing else does.
InputIsRight == ShapeIsStack /\ UrgentGetsInput /\ OneHolder /\ RegionFollowsActor
=============================================================================
