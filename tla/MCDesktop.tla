----------------------------- MODULE MCDesktop -----------------------------
(***************************************************************************)
(* Parts of the shell that share no state, checked side by side: a         *)
(* behaviour is one of one part, the others rest in their initial state.   *)
(* The toolbar's slide, the input regions, the session's presence, the     *)
(* switcher and the workspaces, which are proved about as well, are        *)
(* extended; RestIsConsistent, ReasonIsPending, InputIsRight,              *)
(* WatchIsRight, IdlenessIsRight, SwitchStartsClean, GoesToHighlighted,    *)
(* WorkspacesAreRight and MappedIsActive are checked as they are.          *)
(***************************************************************************)
EXTENDS ToolbarReveal, InputStack, Presence, Alttab, Workspaces

CONSTANTS
  Parts                      \* the parts that run

VARIABLES
  part,                                                            \* which one runs
  panels, order, max                                               \* PanelOrder

orderVars == <<panels, order, max>>

\* The dialog "d" belongs to "a".
ParentOf == [x \in {"a", "b", "c", "d"} |-> IF x = "d" THEN "a" ELSE "none"]

\* "removed" is a name that no installed panel has.
Listed == {"myzone", "devices", "people", "web"}

Order  == INSTANCE PanelOrder
            WITH Names <- Listed \cup {"removed"}, Installed <- Listed, Normal <- Listed,
                 Required <- {"myzone", "devices"}, Defaults <- <<"myzone", "devices">>,
                 Screens <- {2, 3}, MaxOrder <- 3

\* A screen with a panel's window in the middle of it or down to the bottom.
ScreenCells == {"statusbar", "toolbar", "middle", "bottom"}
BarCells    == {"statusbar", "toolbar"}
ScreenPlaces ==
  [a \in Actors |-> CASE a = "status"   -> {{"statusbar"}}
                     [] a = "tray"     -> {{"middle"}, {"middle", "bottom"}}
                     [] a = "lowlight" -> {ScreenCells}
                     [] a = "scim"     -> {{"bottom"}, {"middle"}}
                     [] a = "panel"    -> {{"middle"}, {"middle", "bottom"}}
                     [] a = "popup"    -> {{"toolbar"}, {"middle"}}]
BottomFree == [area \in SUBSET ScreenCells |-> {"bottom"} \ area]

DesktopInit ==
  /\ part \in Parts
  /\ Order!Init /\ (part # "order" => order = <<>> /\ max = 2)
  /\ Init /\ InputInit /\ DeskInit /\ AltInit /\ PresenceInit
  /\ part # "reveal" => ~modal

DesktopNext ==
  \/ /\ part = "order" /\ Order!Next
     /\ UNCHANGED <<part, vars, inputVars, deskVars, altVars, presenceVars>>
  \/ /\ part = "reveal" /\ Next
     /\ UNCHANGED <<part, orderVars, inputVars, deskVars, altVars, presenceVars>>
  \/ /\ part = "input" /\ InputNext
     /\ UNCHANGED <<part, orderVars, vars, deskVars, altVars, presenceVars>>
  \/ /\ part = "workspaces" /\ DeskNext
     /\ UNCHANGED <<part, orderVars, vars, inputVars, altVars, presenceVars>>
  \/ /\ part = "alttab" /\ AltNext
     /\ UNCHANGED <<part, orderVars, vars, inputVars, deskVars, presenceVars>>
  \/ /\ part = "presence" /\ PresenceNext
     /\ UNCHANGED <<part, orderVars, vars, inputVars, deskVars, altVars>>

desktopVars == <<part, orderVars, vars, inputVars, deskVars, altVars, presenceVars>>

DesktopSpec == DesktopInit /\ [][DesktopNext]_desktopVars

(***************************************************************************)
(* The properties of the parts.  A state property is looked at while its   *)
(* part runs; the others do not change.                                    *)
(***************************************************************************)
\* The parts' type invariants: the bar holds every panel once.
DesktopTypeOK ==
  CASE part = "order"      -> Order!TypeOK
    [] part = "reveal"     -> TypeOK
    [] part = "input"      -> InputTypeOK
    [] part = "workspaces" -> DeskTypeOK
    [] part = "alttab"     -> AltTypeOK
    [] part = "presence"   -> PresenceTypeOK

\* The bar shows what the settings ask for (mnb_toolbar_fixup_panels).
AsExpected == Order!AsExpected
\* Required panels stay while they fit.
RequiredStay == Order!RequiredStay
=============================================================================
