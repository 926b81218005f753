----------------------------- MODULE PanelOrder -----------------------------
(***************************************************************************)
(* Which panels sit on the toolbar, and in which order:                    *)
(* mnb_toolbar_fixup_panels, which is run at start-up, whenever the        *)
(* settings' "order" changes and whenever the screen's width does.  It     *)
(* puts the listed panels on, takes the others off unless they are         *)
(* required, and drops ordinary panels that do not fit, required ones last.*)
(***************************************************************************)
EXTENDS Integers, Sequences, FiniteSets, SequencesExt

CONSTANTS
  Names,      \* what the settings may name
  Installed,  \* the names that have a desktop file with a D-Bus service
  Required,   \* ... whose X-Dawati-Panel-Optional is false
  Normal,     \* ... whose type is neither applet nor clock
  Defaults,   \* mnb_toolbar_get_default_panel_list, in its order
  Screens,    \* the values MAX_PANELS takes
  MaxOrder    \* bound: how many names the settings hold

VARIABLES
  panels,   \* priv->panels, by name
  order,    \* the settings' "order"
  max       \* priv->max_panels

vars == <<panels, order, max>>

Orders == UNION {[1..k -> Names] : k \in 0..MaxOrder}

\* Every panel at most once.
TypeOK == /\ panels \in Seq(Installed) /\ IsInjective(panels)
          /\ order \in Orders /\ max \in Screens

(***************************************************************************)
(* mnb_toolbar_fixup_panels                                                *)
(***************************************************************************)
\* The list is built backwards: each listed panel moves to its start.
\* (mutant: it also stays where it was)
PlaceAgain(list, name) == IF name \notin Installed THEN list ELSE <<name>> \o list
Place(list, name) == IF name \notin Installed THEN list
                     ELSE <<name>> \o Remove(list, name)

\* n is signed, max_panels is not: the comparison n > max is made unsigned.
Above(n, m) == n < 0 \/ n > m

\* (mutant: optional panels are not looked for)
SubstitutesNone(list, i, current) == {}
\* The listed optional panels after i, one of which goes for a required one.
Substitutes(list, i, current) ==
  {j \in i + 1 .. Len(list) : list[j] \in (Normal \cap current) \ Required}

\* The panel that goes for the one at i.
VictimLast(list, i, n, m, current) ==   \* (mutant: the first of the order goes)
  LET js == Substitutes(list, i, current) IN
  IF list[i] \in Normal \cap Required /\ Above(n, m) /\ js # {}
  THEN list[Max(js)] ELSE list[i]
Victim(list, i, n, m, current) ==
  LET js == Substitutes(list, i, current) IN
  IF list[i] \in Normal \cap Required /\ Above(n, m) /\ js # {}
  THEN list[Min(js)] ELSE list[i]

\* Destroys panels, starting anew after each, until the rest may stay; n is the
\* running count of ordinary panels, from which every destroyed one is taken.
RECURSIVE Prune(_, _, _, _)
Prune(list, n, m, current) ==
  LET goes == {i \in 1..Len(list) : \/ list[i] \notin current \cup Required
                                    \/ Above(n, m) /\ list[i] \in Normal}
      v == Victim(list, Min(goes), n, m, current)
  IN IF goes = {} THEN list
     ELSE Prune(Remove(list, v), IF v \in Normal THEN n - 1 ELSE n, m, current)

\* The remaining panels that were not listed move to the start of the list,
\* one after the other, and the list is turned round.
Arrange(list, current) ==
  LET others == SelectSeq(list, LAMBDA x : x \notin current)
      listed == SelectSeq(list, LAMBDA x : x \in current)
  IN Reverse(listed) \o others

Fixup(list, names, m) ==
  LET current == ToSet(names) \cap Installed
      placed  == FoldLeft(Place, list, names)
      n == Cardinality(ToSet(placed) \cap Normal \cap (current \cup Required))
  IN Arrange(Prune(placed, n, m, current), current)

(***************************************************************************)
(* Its callers.                                                            *)
(***************************************************************************)
\* mnb_toolbar_load_settings appends the default panels that are not listed.
WithDefaults(names) == names \o SelectSeq(Defaults, LAMBDA x : ~Contains(names, x))

Init == /\ order \in Orders /\ max \in Screens
        /\ panels = Fixup(<<>>, WithDefaults(order), max)

\* mnb_toolbar_panel_settings_changed_cb
SettingsChanged ==
  /\ order' \in Orders \ {order}
  /\ panels' = Fixup(panels, order', max)
  /\ UNCHANGED max

\* mnb_toolbar_ensure_size_for_screen pretends that the settings changed.
Resize ==
  /\ max' \in Screens
  /\ panels' = Fixup(panels, order, max')
  /\ UNCHANGED order

Next == SettingsChanged \/ Resize

Spec == Init /\ [][Next]_vars

(***************************************************************************)
(* Properties.                                                             *)
(***************************************************************************)
\* What the order asks for: the listed panels, at their last mention, then the
\* required panels that were there; of the ordinary ones as many as fit, the
\* required first, then the first listed.  If not even the required ones fit,
\* those that are not listed are preferred, the latest one first.
Expected(list, names, m) ==
  LET known  == SelectSeq(names, LAMBDA x : x \in Installed)
      listed == [i \in 1..Len(known) |-> <<i, known[i]>>]
      final  == SelectSeq(listed, LAMBDA e :
                  \A j \in e[1] + 1 .. Len(known) : known[j] # e[2])
      mine   == [i \in 1..Len(final) |-> final[i][2]]
      others == SelectSeq(list, LAMBDA x : x \in Required \ ToSet(mine))
      byRank == SelectSeq(Reverse(others) \o mine, LAMBDA x : x \in Normal \cap Required)
                \o SelectSeq(mine, LAMBDA x : x \in Normal \ Required)
      fits   == ToSet(SubSeq(byRank, 1, IF m < Len(byRank) THEN m ELSE Len(byRank)))
  IN SelectSeq(mine \o others, LAMBDA x : x \in fits \/ x \notin Normal)

\* However the settings and the screen change, the bar shows what they ask for,
\* and running it again would change nothing.
AsExpected == [][/\ panels' = Expected(panels, order', max')
                 /\ Fixup(panels', order', max') = panels']_vars

\* "making sure we keep any required panels": a required panel leaves the bar
\* only when the required ones alone do not fit.
RequiredStay ==
  [][Cardinality(Required \cap Normal) <= max' =>
       ToSet(panels) \cap Required \subseteq ToSet(panels')]_vars
=============================================================================
