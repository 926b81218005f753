----------------------------- MODULE ServiceItem ---------------------------
(***************************************************************************)
(* The widgets of wireless services in the network panel's list            *)
(* (carrick-service-item.c): the button that connects, the box that asks   *)
(* for a password, the form of the advanced settings, the line that says   *)
(* what went wrong.  At most one of them is "active", the one the user is  *)
(* busy with.                                                              *)
(*                                                                         *)
(* External: connman, which may do what it is asked, or not, and connects  *)
(* and fails by itself as well; and the rows of the model, which follow it *)
(* (module Network).  A widget looks at its row some time after the row    *)
(* changes (module ServiceList), be it in strength only.  Every service    *)
(* here needs a WPA password, which its row tells once it was typed.       *)
(***************************************************************************)
EXTENDS Naturals, FiniteSets

CONSTANTS
  Items,      \* the services
  MaxActs     \* bound: what the user does, and what connman does by itself

ASSUME ItemAssumption == MaxActs \in Nat

VARIABLES
  row,     \* the model's rows
  known,   \* what the widgets know of them, since _populate_variables
  item,    \* the widgets
  posted,  \* calls to connman that are not answered
  dialog,  \* the service whose removal the user is asked to confirm
  late,    \* history: items whose settings were answered when they were not active
  nActs    \* how much was done

itemVars == <<row, known, item, posted, dialog, late, nActs>>

ServiceStates == {"idle", "association", "ready", "disconnect", "failure"}
\* Settings: without name servers, or with.  A form may also hold a wrong address.
Confs  == {"plain", "servers"}
Forms  == Confs \cup {"badAddress", "badServer"}
\* Entries of the password entry.  The hint is long enough to be a WPA password.
PasswordHint   == "Type password here"
Entries  == {"", PasswordHint, "short", "long"}
Valid  == {PasswordHint, "long"}

ServiceRow  == [state: ServiceStates, conf: Confs, pass: {""} \cup Valid]
\* connects, asks, bar: connect_box, passphrase_box and info_bar are visible.
\* hidden: error_hidden.  hint: passphrase_hint_visible.  removable: delete_button is visible.
Item == [active: BOOLEAN, connects: BOOLEAN, asks: BOOLEAN, label: {"", "failed", "invalid"},
         bar: BOOLEAN, hidden: BOOLEAN, expanded: BOOLEAN, modified: BOOLEAN, form: Forms,
         text: Entries, hint: BOOLEAN, removable: BOOLEAN]
ServiceCall == [item: Items, method: {"Connect", "Disconnect", "Remove", "Clear", "Password"} \cup Confs]

ItemTypeOK == /\ row \in [Items -> ServiceRow] /\ known \in [Items -> ServiceRow] /\ item \in [Items -> Item]
          /\ posted \subseteq ServiceCall /\ dialog \in SUBSET Items /\ late \subseteq Items
          /\ nActs \in 0 .. MaxActs

ItemInit ==
  /\ row \in [Items -> [state: {"idle"}, conf: Confs, pass: {""}]] /\ known = row
  /\ item = [i \in Items |->
       [active |-> FALSE, connects |-> TRUE, asks |-> FALSE, label |-> "", bar |-> FALSE,
        hidden |-> TRUE, expanded |-> FALSE, modified |-> FALSE, form |-> row[i].conf,
        text |-> "", hint |-> FALSE, removable |-> FALSE]]
  /\ posted = {} /\ dialog = {} /\ late = {} /\ nActs = 0

(***************************************************************************)
(* Handlers, as functions of one widget r and what it knows, k.            *)
(***************************************************************************)
\* _set_form_state.  Widgets that change hide the bar; a text view always says it changed,
\* unless it was and stays empty.
FormState(r, k) ==
  [r EXCEPT !.form = k.conf, !.modified = FALSE, !.bar = @ /\ k.conf = r.form /\ k.conf = "plain"]

\* _set_state
SetState(r, k) ==
  LET label == IF k.state # "failure" THEN "" ELSE IF r.hidden THEN r.label ELSE "failed"
      s == [r EXCEPT !.label = label, !.bar = label # "", !.asks = @ /\ k.state # "idle",
                     !.removable = k.state = "ready" \/ (@ /\ k.state \notin {"idle", "failure"})]
  IN IF r.modified THEN s ELSE FormState(s, k)

\* _request_passphrase.  gtk_entry_set_text emits "changed" if the text does.
Requested(r, k) ==
  LET text == IF k.pass = "" THEN PasswordHint ELSE k.pass
  IN [r EXCEPT !.connects = FALSE, !.asks = TRUE, !.text = text,
               !.hint = text = r.text /\ (k.pass = "" \/ r.hint)]

\* _start_connecting
MustAsk(k) == k.state = "failure" \/ k.pass = ""

\* carrick_service_item_set_active (item, FALSE)
Inactive(r, k) ==
  IF ~r.active THEN r
  ELSE FormState([r EXCEPT !.active = FALSE, !.hidden = TRUE, !.asks = FALSE, !.connects = TRUE,
                           !.bar = FALSE, !.label = "", !.expanded = FALSE], k)

\* carrick_service_item_set_active (item, TRUE), which makes the list's
\* _item_active_changed collapse the others
ActiveAlone(i) ==      \* (mutant: the others stay as they are)
  [item EXCEPT ![i].active = TRUE]
Active(i) ==
  IF item[i].active THEN item
  ELSE [j \in Items |-> IF j = i THEN [item[i] EXCEPT !.active = TRUE]
                        ELSE Inactive(item[j], known[j])]

\* The items become w.  What was late is settled when the user turns to the item.
ItemsBecome(w) == item' = w /\ late' = {i \in late : ~w[i].active}

OneMore == nActs < MaxActs /\ nActs' = nActs + 1

(***************************************************************************)
(* The user.  The dialog is modal.                                         *)
(***************************************************************************)
UserActs == OneMore /\ dialog = {}

\* _connect_button_cb
ConnectClicked(i) ==
  /\ UserActs /\ item[i].connects
  /\ IF known[i].state \in {"association", "ready"}
     THEN /\ posted' = posted \cup {[item |-> i, method |-> "Disconnect"]}
          /\ ItemsBecome([item EXCEPT ![i] = Inactive(@, known[i])])
     ELSE IF MustAsk(known[i])
     THEN ItemsBecome([Active(i) EXCEPT ![i] = Requested(@, known[i])]) /\ posted' = posted
     ELSE ItemsBecome(Active(i)) /\ posted' = posted \cup {[item |-> i, method |-> "Connect"]}
  /\ UNCHANGED <<row, known, dialog>>

UserTypes(i, text) ==
  /\ UserActs /\ item[i].asks /\ text \in {"short", "long"} \ {item[i].text}
  /\ item' = [item EXCEPT ![i].text = text, ![i].hint = FALSE]
  /\ UNCHANGED <<row, known, posted, dialog, late>>

\* _passphrase_button_or_entry_cb, _connect_with_password
PasswordEntered(i) ==
  /\ UserActs /\ item[i].asks
  /\ LET w == Active(i)
     IN IF w[i].hint THEN ItemsBecome(w) /\ UNCHANGED <<row, posted>>
        ELSE IF w[i].text \in Valid
        THEN /\ ItemsBecome([w EXCEPT ![i].asks = FALSE, ![i].connects = TRUE])
             /\ row' = [row EXCEPT ![i].pass = w[i].text]
             /\ posted' = posted \cup {[item |-> i, method |-> "Password"]}
        ELSE /\ ItemsBecome([w EXCEPT ![i].label = "invalid", ![i].bar = TRUE])
             /\ UNCHANGED <<row, posted>>
  /\ UNCHANGED <<known, dialog>>

\* _show_pass_toggled_cb
ShowPasswordToggled(i) ==
  /\ UserActs /\ item[i].asks /\ ItemsBecome(Active(i)) /\ UNCHANGED <<row, known, posted, dialog>>

\* _passphrase_entry_clear_released_cb
ClearReleased(i) ==
  /\ UserActs /\ item[i].asks
  /\ ItemsBecome([item EXCEPT ![i] =
       IF @.text # "" THEN [@ EXCEPT !.text = "", !.hint = FALSE]
       ELSE [@ EXCEPT !.asks = FALSE, !.bar = FALSE, !.label = ""]])
  /\ UNCHANGED <<row, known, posted, dialog>>

\* _advanced_expander_notify_expanded_cb; the expander is in connect_box
ExpanderClicked(i) ==
  /\ UserActs /\ item[i].connects
  /\ LET r == [Active(i)[i] EXCEPT !.expanded = ~@]
     IN ItemsBecome([Active(i) EXCEPT ![i] =
          IF ~r.expanded THEN r
          ELSE [SetState([r EXCEPT !.modified = FALSE], known[i]) EXCEPT !.bar = FALSE]])
  /\ UNCHANGED <<row, known, posted, dialog>>

\* The handlers of changes of the form's widgets: _set_form_modified
FormEdited(i, form) ==
  /\ UserActs /\ item[i].expanded /\ form # item[i].form
  /\ item' = [item EXCEPT ![i].form = form, ![i].modified = TRUE, ![i].bar = FALSE]
  /\ UNCHANGED <<row, known, posted, dialog, late>>

\* apply_button_clicked_cb.  A wrong address is not sent, the name servers are.
ApplyClicked(i) ==
  /\ UserActs /\ item[i].expanded /\ item[i].modified
  /\ LET w     == Active(i)
         wrong == w[i].form \in {"badAddress", "badServer"}
         r     == IF wrong THEN [w[i] EXCEPT !.label = "invalid", !.bar = TRUE] ELSE w[i]
     IN IF w[i].form = "badServer" THEN ItemsBecome([w EXCEPT ![i] = r]) /\ posted' = posted
        ELSE /\ ItemsBecome([w EXCEPT ![i] = [r EXCEPT !.modified = FALSE, !.expanded = FALSE]])
             /\ posted' = posted \cup
                  {[item |-> i, method |-> IF wrong THEN "plain" ELSE w[i].form]}
  /\ UNCHANGED <<row, known, dialog>>

\* _delete_button_cb runs a dialog.  Whether the service is a favourite is left open.
DeleteClicked(i) ==
  /\ UserActs /\ item[i].removable /\ dialog' = {i}
  /\ UNCHANGED <<row, known, item, posted, late>>
DeleteAccepted(i) ==
  /\ i \in dialog /\ dialog' = {}
  /\ ItemsBecome([item EXCEPT ![i] = Inactive(@, known[i])])
  /\ \E m \in {"Remove"} \cup IF known[i].state = "failure" THEN {} ELSE {"Clear"} :
       posted' = posted \cup {[item |-> i, method |-> m]}
  /\ UNCHANGED <<row, known, nActs>>
DeleteRejected ==
  /\ dialog # {} /\ dialog' = {} /\ UNCHANGED <<row, known, item, posted, late, nActs>>

\* drag_begin
DragBegins(i) ==
  /\ UserActs /\ ItemsBecome([item EXCEPT ![i] = Inactive(@, known[i])])
  /\ UNCHANGED <<row, known, posted, dialog>>

\* The panel was hidden, which closes the dialog, and is shown: carrick_pane_update,
\* carrick_list_clear_state
PanelShown ==
  /\ OneMore /\ ItemsBecome([i \in Items |-> Inactive(item[i], known[i])]) /\ dialog' = {}
  /\ UNCHANGED <<row, known, posted>>

(***************************************************************************)
(* connman, and what comes from it.                                        *)
(***************************************************************************)
\* What connman does with a call, if it does not refuse.
AsAsked(i, m) ==
  CASE m = "Connect" /\ row[i].state \in {"idle", "failure"} -> [row[i] EXCEPT !.state = "association"]
    [] m = "Disconnect" /\ row[i].state \in {"association", "ready"} ->
         [row[i] EXCEPT !.state = "disconnect"]
    [] m = "Remove"   -> [row[i] EXCEPT !.state = "idle", !.pass = ""]
    [] m = "Clear"    -> [row[i] EXCEPT !.pass = ""]
    [] m \in Confs    -> [row[i] EXCEPT !.conf = m]
    [] OTHER          -> row[i]

\* set_passphrase_notify_cb, set_nameservers_configuration_cb; other answers do nothing
ServiceAnswered(c, done) ==
  LET i == c.item
      starts == c.method \in Confs /\ known[i].state \in {"idle", "disconnect"}
  IN /\ c \in posted
     /\ row' = [row EXCEPT ![i] = IF done THEN AsAsked(i, c.method) ELSE @]
     /\ posted' = (posted \ {c}) \cup
          IF (c.method = "Password" /\ done) \/ (starts /\ ~MustAsk(known[i]))
          THEN {[item |-> i, method |-> "Connect"]} ELSE {}
     /\ IF starts /\ MustAsk(known[i])
        THEN /\ item' = [item EXCEPT ![i] = Requested(@, known[i])]
             /\ late' = late \cup ({i} \ {j \in Items : item[j].active})
        ELSE UNCHANGED <<item, late>>
     /\ UNCHANGED <<known, dialog, nActs>>

\* A service that was to be connected is, or fails; one that was disconnected is idle.
Proceeds(i) ==
  /\ \E s \in ServiceStates :
       /\ \/ row[i].state = "association" /\ s \in {"ready", "failure"}
          \/ row[i].state = "disconnect"  /\ s = "idle"
       /\ row' = [row EXCEPT ![i].state = s]
  /\ UNCHANGED <<known, item, posted, dialog, late, nActs>>

\* It connects by itself, loses a connection, or gets other settings.
ChangesByItself(i) ==
  /\ OneMore
  /\ \/ row[i].state \in {"idle", "failure"} /\ row' = [row EXCEPT ![i].state = "association"]
     \/ row[i].state \in {"ready", "failure"} /\ row' = [row EXCEPT ![i].state = "idle"]
     \/ \E c \in Confs \ {row[i].conf} : row' = [row EXCEPT ![i].conf = c]
  /\ UNCHANGED <<known, item, posted, dialog, late>>

\* carrick_service_item_update, _populate_variables
ItemUpdate(i) ==
  LET news == row[i].state = "failure" /\ known[i].state # "failure"
      r    == [item[i] EXCEPT !.hidden = @ /\ ~news]
  IN /\ known' = [known EXCEPT ![i] = row[i]]
     /\ ItemsBecome([item EXCEPT ![i] = SetState(r, row[i])])
     /\ UNCHANGED <<row, posted, dialog, nActs>>

ItemNext ==
  \/ \E i \in Items :
       \/ ConnectClicked(i) \/ PasswordEntered(i) \/ ShowPasswordToggled(i) \/ ClearReleased(i)
       \/ \E t \in Entries : UserTypes(i, t)
       \/ ExpanderClicked(i) \/ ApplyClicked(i) \/ \E f \in Forms : FormEdited(i, f)
       \/ DeleteClicked(i) \/ DeleteAccepted(i) \/ DragBegins(i)
       \/ Proceeds(i) \/ ChangesByItself(i) \/ ItemUpdate(i)
  \/ DeleteRejected \/ PanelShown
  \/ \E c \in posted, done \in BOOLEAN : ServiceAnswered(c, done)

ItemSpec == ItemInit /\ [][ItemNext]_itemVars

(***************************************************************************)
(* What the user sees.                                                     *)
(***************************************************************************)
\* At most one item is active, and none offers to connect while it asks for a password.
OneActive ==
  /\ \A i, j \in Items : item[i].active /\ item[j].active => i = j
  /\ \A i \in Items : ~(item[i].connects /\ item[i].asks)

\* An item that is not active is at rest: its form is closed and holds the settings last
\* heard of; it offers to connect and asks for nothing, unless the answer to settings that
\* were applied came late.
OthersRest ==
  \A i \in Items : ~item[i].active =>
    /\ ~item[i].expanded /\ ~item[i].modified /\ item[i].form = known[i].conf
    /\ i \notin late => item[i].connects /\ ~item[i].asks

\* A form that is open and was not touched shows the settings last heard of.
FormIsFresh ==
  \A i \in Items : item[i].expanded /\ ~item[i].modified => item[i].form = known[i].conf

\* A failure the user has seen and left is not told again, and none is told that is over.
ErrorsEnd ==
  \A i \in Items : item[i].label = "failed" => known[i].state = "failure" /\ ~item[i].hidden

\* However the user turns from one service to another, and whatever connman tells of them
\* meanwhile: one is worked on, the others rest, and what is shown is not outdated.
ItemsAreRight == OneActive /\ OthersRest /\ FormIsFresh /\ ErrorsEnd
=============================================================================
