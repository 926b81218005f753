----------------------------- MODULE ServiceList ----------------------------
(***************************************************************************)
(* The widgets of the network panel's list of services (carrick-list.c):   *)
(* one for every row of the model, in the order of connman, updated 100 ms *)
(* after a change.  The user drags one elsewhere; it leaves the list       *)
(* meanwhile, and connman is asked to move its service.                    *)
(*                                                                         *)
(* External: the model, whose rows follow connman's list (module Network   *)
(* is about that), and connman, which refuses to move a service relative   *)
(* to itself.  Services are favourites: the others cannot be dragged.      *)
(***************************************************************************)
EXTENDS Naturals, Sequences, SequencesExt, FiniteSets

CONSTANTS
  Paths,       \* of services
  Cellular,    \* of these, the ones of type "cellular"
  MaxUpdates,  \* bound: how often connman or oFono change something
  MaxDrags     \* bound: how often the user drags

ASSUME ListAssumption == IsFiniteSet(Paths) /\ "none" \notin Paths /\ Cellular \subseteq Paths

VARIABLES
  list,      \* connman's services in order: a service's place is its row's index
  named,     \* the rows whose properties are known
  nUpdates,  \* how often something changed
  nDrags,    \* how often a widget was dragged
  inBox,     \* the children of priv->box
  stale,     \* widgets that do not show what their row says
  due,       \* priv->updates_pending: widgets that have a row,
  orphans,   \* and widgets that were dragged when their row went
  fallback,  \* the text that there are no networks is visible
  managers,  \* priv->ofono_connmans
  cells,     \* the size of priv->cell_services: widgets in it that live, and others
  dummy,     \* modem_box is visible
  drag,      \* the widget in priv->drag_window
  moves,     \* the calls to connman that are not answered
  disorder     \* history: what makes orders, or the count of cells, go wrong

listVars == <<list, named, nUpdates, nDrags, inBox, stale, due, orphans, fallback, managers,
              cells, dummy, drag, moves, disorder>>

Orders     == {q \in SeqOf(Paths, Cardinality(Paths)) : IsInjective(q)}
NoDrag     == [item |-> "none", from |-> 0, to |-> 0, removed |-> FALSE]
BoxPlaces  == 0 .. Cardinality(Paths)
Dragged    == IF drag.item = "none" \/ drag.removed THEN {} ELSE {drag.item}

ListTypeOK ==
  /\ list \in Orders /\ named \subseteq ToSet(list) /\ inBox \in Orders
  /\ stale \subseteq Paths /\ due \subseteq Paths /\ orphans \subseteq Paths
  /\ fallback \in BOOLEAN
  /\ managers \in 0 .. Cardinality(Paths) /\ dummy \in BOOLEAN
  /\ cells \in [live: SUBSET Cellular, dead: Nat]
  /\ drag \in {NoDrag} \cup [item: Paths, from: BoxPlaces, to: BoxPlaces, removed: BOOLEAN]
  /\ moves \subseteq [item: Paths, other: Paths, after: BOOLEAN, from: BoxPlaces, lives: BOOLEAN]
  /\ disorder \in [order: BOOLEAN, first: BOOLEAN, cells: BOOLEAN]

ListInit ==
  /\ list = <<>> /\ named = {} /\ nUpdates = 0 /\ nDrags = 0 /\ inBox = <<>>
  /\ stale = {} /\ due = {} /\ orphans = {} /\ fallback = TRUE /\ managers = 0
  /\ cells = [live |-> {}, dead |-> 0] /\ dummy = FALSE /\ drag = NoDrag /\ moves = {}
  /\ disorder = [order |-> FALSE, first |-> FALSE, cells |-> FALSE]

(***************************************************************************)
(* Handlers of the model's signals, as functions of the list's state s.    *)
(***************************************************************************)
ListNow ==
  [list |-> list, rows |-> ToSet(list), named |-> named, inBox |-> inBox, stale |-> stale,
   due |-> due, orphans |-> orphans, fallback |-> fallback, cells |-> cells, dummy |-> dummy,
   dragged |-> Dragged, moves |-> moves, lost |-> disorder.cells]
ListBecome(s, jumbled, disturbed) ==
  /\ list' = s.list /\ named' = s.named /\ inBox' = s.inBox /\ stale' = s.stale /\ due' = s.due
  /\ orphans' = s.orphans /\ fallback' = s.fallback /\ cells' = s.cells /\ dummy' = s.dummy /\ moves' = s.moves
  /\ drag' = [drag EXCEPT !.removed = drag.item # "none" /\ s.dragged = {}]
  /\ LET well == s.inBox = s.list /\ s.moves = {} /\ drag = NoDrag
     IN disorder' = [order |-> (disorder.order \/ jumbled \/ disturbed) /\ ~well,
                    first |-> (disorder.first \/ disturbed) /\ ~well, cells |-> s.lost]

\* the place of a child; gtk_box_reorder_child: to the end if there is no such place
PlaceOf(q, x) == CHOOSE i \in 0 .. Len(q) - 1 : q[i + 1] = x
LeftOut(q, x) == IF x \in ToSet(q) THEN RemoveAt(q, PlaceOf(q, x) + 1) ELSE q
Reordered(q, x, at) ==
  LET r == LeftOut(q, x) IN InsertAt(r, 1 + (IF at < Len(r) THEN at ELSE Len(r)), x)

\* carrick_list_update_modem_service
Modem(s, n) == [s EXCEPT !.dummy = n > Cardinality(s.cells.live) + s.cells.dead]

\* carrick_service_item_update: the type may be new, _notify_service_item_type_cb
ItemsUpdated(s, ps) ==
  LET new == (ps \cap s.named \cap Cellular) \ s.cells.live
      t   == [s EXCEPT !.stale = @ \ ps, !.due = @ \ ps]
  IN IF new = {} THEN t ELSE Modem([t EXCEPT !.cells.live = @ \cup new], managers)

\* _row_inserted_cb, carrick_list_add
RowInserted(s, p) ==
  ItemsUpdated([s EXCEPT !.rows = @ \cup {p}, !.inBox = Append(@, p), !.fallback = FALSE], {p})

\* _row_changed_cb
RowChangedLost(s, p, index) ==    \* (mutant: a widget that is dragged is not looked for)
  IF p \in ToSet(s.inBox)
  THEN [s EXCEPT !.stale = @ \cup {p}, !.due = @ \cup {p}, !.inBox = Reordered(@, p, index)]
  ELSE RowInserted(s, p)
RowChanged(s, p, index) ==
  IF p \in ToSet(s.inBox)
  THEN [s EXCEPT !.stale = @ \cup {p}, !.due = @ \cup {p}, !.inBox = Reordered(@, p, index)]
  ELSE IF p \in s.dragged THEN [s EXCEPT !.stale = @ \cup {p}, !.due = @ \cup {p}]
  ELSE RowInserted(s, p)

\* _row_deleted_cb.  A widget that is dragged is let go of later and never freed, and what
\* is pending for it stays pending, unless the row was the last one.  It and the widget of
\* the last row stay in cell_services.
RowDeleted(s, p) ==
  LET gone == [s EXCEPT !.rows = @ \ {p}, !.named = @ \ {p}, !.stale = @ \ {p}, !.due = @ \ {p},
                        !.inBox = LeftOut(@, p), !.dragged = @ \ {p},
                        !.cells.live = @ \ {p},
                        !.orphans = IF s.rows \subseteq {p} THEN {}
                                    ELSE @ \cup ({p} \cap s.dragged \cap s.due),
                        !.moves = {[c EXCEPT !.lives = @ /\ c.item # p] : c \in @}]
  IN IF p \notin s.cells.live
     THEN [gone EXCEPT !.fallback = @ \/ gone.rows = {}]
     ELSE IF gone.rows = {} \/ p \in s.dragged
     THEN [gone EXCEPT !.fallback = @ \/ gone.rows = {}, !.cells.dead = @ + 1, !.lost = TRUE]
     ELSE Modem(gone, managers)

(***************************************************************************)
(* connman and oFono.                                                      *)
(***************************************************************************)
\* network_model_update_property for "Services": indices first, in the new order, then
\* the rows that are left.
Follow(s, q) ==
  LET entered[i \in 0 .. Len(q)] ==
        IF i = 0 THEN [s EXCEPT !.list = q]
        ELSE IF q[i] \notin entered[i - 1].rows THEN RowInserted(entered[i - 1], q[i])
        ELSE IF PlaceOf(s.list, q[i]) # i - 1 THEN RowChanged(entered[i - 1], q[i], i - 1)
        ELSE entered[i - 1]
      left[i \in 0 .. Len(s.list)] ==
        IF i = 0 THEN entered[Len(q)]
        ELSE IF s.list[i] \in ToSet(q) THEN left[i - 1] ELSE RowDeleted(left[i - 1], s.list[i])
  IN left[Len(s.list)]

\* One service moves, comes last or goes.
Near(q, r) == \/ \E p \in Paths : LeftOut(q, p) = LeftOut(r, p) /\ Len(r) <= Len(q)
              \/ r # <<>> /\ q = Front(r)

\* What the user sees need not be what connman has.
Unsettled == drag # NoDrag \/ moves # {}

Updates == nUpdates < MaxUpdates /\ nUpdates' = nUpdates + 1

ListChanges(q) ==
  /\ Updates /\ q # list /\ ListBecome(Follow(ListNow, q), ~Near(list, q), Unsettled)
  /\ UNCHANGED <<nDrags, managers>>

\* The properties of a service arrive, the first time or again.
RowChanges(p) ==
  /\ p \in ToSet(list)
  /\ \/ p \notin named /\ UNCHANGED nUpdates
     \/ p \in named /\ Updates
  /\ ListBecome(RowChanged([ListNow EXCEPT !.named = @ \cup {p}], p, PlaceOf(list, p)),
                FALSE, Unsettled)
  /\ UNCHANGED <<nDrags, managers>>

\* _delayed_update; a widget whose row is gone shows what it showed before.  (If the table
\* keeps an entry, which the cast of a void function to GHRFunc leaves open, the widget is
\* updated once more, to no effect.)
DelayedUpdate ==
  /\ due \cup orphans # {}
  /\ ListBecome(ItemsUpdated([ListNow EXCEPT !.orphans = {}], due), FALSE, FALSE)
  /\ UNCHANGED <<nUpdates, nDrags, managers>>

\* _ofono_notify_n_connection_managers_cb
ConnmansChange(n) ==
  /\ Updates /\ n # managers /\ managers' = n /\ ListBecome(Modem(ListNow, n), FALSE, FALSE)
  /\ UNCHANGED nDrags

(***************************************************************************)
(* The user drags a widget.                                                *)
(***************************************************************************)
\* carrick_list_drag_begin
DragBegin(p) ==
  /\ nDrags < MaxDrags /\ nDrags' = nDrags + 1 /\ drag = NoDrag /\ p \in ToSet(inBox) \cap named
  /\ drag' = [item |-> p, from |-> PlaceOf(inBox, p), to |-> PlaceOf(inBox, p), removed |-> FALSE]
  /\ inBox' = LeftOut(inBox, p)
  /\ disorder' = [disorder EXCEPT !.order = @ \/ inBox # list, !.first = @ \/ inBox # list]
  /\ UNCHANGED <<list, named, nUpdates, stale, due, orphans, fallback, managers, cells, dummy,
                 moves>>

\* carrick_list_drag_drop, on another widget
Drop(p) == /\ drag.item # "none" /\ p \in ToSet(inBox)
           /\ drag' = [drag EXCEPT !.to = PlaceOf(inBox, p)]
           /\ UNCHANGED <<list, named, nUpdates, nDrags, inBox, stale, due, orphans, fallback,
                          managers, cells, dummy, moves, disorder>>

\* carrick_list_drag_end (if so many widgets have gone meanwhile that none is where
\* it was dropped, the program reads a NULL and ends)
DragEnd ==
  /\ drag.item # "none" /\ drag' = NoDrag /\ (drag.removed \/ drag.to <= Len(inBox) + 1)
  /\ IF drag.removed THEN UNCHANGED <<inBox, moves>>
     ELSE LET q == Reordered(inBox, drag.item, drag.to)
          IN /\ inBox' = q
             /\ moves' = IF drag.to = drag.from THEN moves
                         ELSE moves \cup {[item |-> drag.item, after |-> drag.to > 0,
                                           other |-> q[IF drag.to = 0 THEN 1 ELSE drag.to],
                                           from |-> drag.from, lives |-> TRUE]}
  /\ UNCHANGED <<list, named, nUpdates, nDrags, stale, due, orphans, fallback, managers, cells,
                 dummy, disorder>>

\* connman moves the service and says so, or refuses; move_notify_cb
Moved(c) == LET r == LeftOut(list, c.item)
            IN Reordered(list, c.item, PlaceOf(r, c.other) + (IF c.after THEN 1 ELSE 0))
MoveDone(c) ==
  /\ c \in moves /\ {c.item, c.other} \subseteq ToSet(list) /\ c.item # c.other
  /\ ListBecome(Follow([ListNow EXCEPT !.moves = @ \ {c}], Moved(c)),
                FALSE, drag # NoDrag \/ moves # {c})
  /\ UNCHANGED <<nUpdates, nDrags, managers>>
MoveFails(c) ==
  /\ c \in moves
  /\ ListBecome([ListNow EXCEPT !.moves = @ \ {c},
                                !.inBox = IF c.lives /\ c.item \in ToSet(@)
                                          THEN Reordered(@, c.item, c.from) ELSE @],
                FALSE, drag # NoDrag \/ moves # {c})
  /\ UNCHANGED <<nUpdates, nDrags, managers>>

ListNext ==
  \/ \E q \in Orders : ListChanges(q)
  \/ \E p \in Paths : RowChanges(p) \/ DragBegin(p) \/ Drop(p)
  \/ DelayedUpdate \/ (\E n \in 0 .. Cardinality(Cellular) : ConnmansChange(n)) \/ DragEnd
  \/ \E c \in moves : MoveDone(c) \/ MoveFails(c)

ListSpec == ListInit /\ [][ListNext]_listVars

(***************************************************************************)
(* Properties.                                                             *)
(***************************************************************************)
\* There is a widget for every row, in the list or under the pointer, and no other.
WidgetsMirrorRows == /\ ToSet(inBox) \cup Dragged = ToSet(list)
                     /\ Dragged \cap ToSet(inBox) = {}
                     /\ fallback <=> list = <<>>

\* What a widget does not show yet it will.  Nothing is pending for a widget that is gone,
\* unless it was under the pointer when its row went; and nothing at all in an empty list.
UpdatesArePending == /\ stale \subseteq due /\ due \subseteq ToSet(list)
                     /\ list = <<>> => orphans = {}

\* While nothing is dragged or to be answered the widgets are in connman's order, and stay
\* so if services move, come last or go one by one.  In any case the first one is first.
OrderIsRight ==
  ~Unsettled =>
    /\ ~disorder.order => inBox = list
    /\ list # <<>> /\ Head(list) \in named /\ ~disorder.first => Head(inBox) = Head(list)

\* "show the dummy if we have more ofono Connection managers than cell services", as long
\* as none was lost count of, and nobody is asked for a PIN.
DummyIsRight ==
  due = {} /\ ~disorder.cells => (dummy <=> managers > Cardinality(named \cap Cellular))

\* What the list shows, and is going to show, is what connman and oFono have.
ListIsRight == WidgetsMirrorRows /\ UpdatesArePending /\ OrderIsRight /\ DummyIsRight
=============================================================================
