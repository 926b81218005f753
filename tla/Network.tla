------------------------------- MODULE Network ------------------------------
(***************************************************************************)
(* The network panel's list of services: a mirror of connman's, kept by a  *)
(* proxy for every service, and what follows from its first row: the icon  *)
(* and the notes about connections made and lost (carrick-network-model.c, *)
(* carrick-pane.c, carrick-notification-manager.c).                        *)
(*                                                                         *)
(* External: connman, which orders its services, sends the whole list when *)
(* it changes and a signal when a property does, and answers calls in      *)
(* their order; what it sends comes in the order it was sent.  It may exit *)
(* without a word and be started again.                                    *)
(***************************************************************************)
EXTENDS Integers, Sequences, SequencesExt, FiniteSets, Functions

CONSTANTS
  Services,           \* paths; each service has a name of its own
  MaxServiceChanges,  \* bound: how often connman or the user changes something
  MaxServiceExits     \* bound: how often connman exits

\* What is no service's name or path.
NoNames == {"", "nothing", "manager", "nobody"}

ASSUME NetAssumption == IsFiniteSet(Services) /\ Services \cap NoNames = {}

VARIABLES
  services,    \* connman's list
  online,      \* of these, the ones that are ready or online
  exits,       \* how often connman has exited
  nChanges,    \* how often something changed
  queries,     \* calls on the way to connman: of the manager, a service, or nobody any more
  incoming,    \* answers and signals on the way to the panel
  listed,      \* priv->services of the model
  rows,        \* the model: a row for each of some services
  kept,        \* services with a proxy that has been leaked
  last,        \* the name and state that were last looked at
  queued,      \* what the user has just asked for, or nothing
  note,        \* priv->note is not NULL
  told,        \* history: the connection the user was last told of, or asked for
  heard        \* history: which connman's list is shown

netVars == <<services, online, exits, nChanges, queries, incoming, listed, rows, kept, last,
             queued, note, told, heard>>

NoConnection == [name |-> "nothing", up |-> FALSE]
Connection == [name: Services \cup {"", "nothing"}, up: BOOLEAN]
\* named: the service's properties are known.  run: history, the connman the row's
\* state is from.
MirrorRow == [index: Nat, up: BOOLEAN, named: BOOLEAN, run: Nat]
ServiceLists == {q \in SeqOf(Services, Cardinality(Services)) : IsInjective(q)}

\* What comes from connman, of its run-th run; and what comes but finds nobody.
NetKinds == {"services", "properties", "state", "passphrase"}
NetMessages == [kind: NetKinds \cup {"void"}, path: Services \cup {"manager"},
                list: ServiceLists, up: BOOLEAN, run: Nat]
Void == [kind |-> "void", path |-> "manager", list |-> <<>>, up |-> FALSE, run |-> 0]

NetTypeOK ==
  /\ services \in ServiceLists /\ listed \in ServiceLists /\ online \subseteq ToSet(services)
  /\ DOMAIN rows \subseteq Services /\ \A p \in DOMAIN rows : rows[p] \in MirrorRow
  /\ kept \subseteq Services /\ last \in Connection /\ queued \in Connection
  /\ queries \in Seq(Services \cup {"manager", "nobody"}) /\ incoming \in Seq(NetMessages)
  /\ note \in BOOLEAN /\ told \in Services \cup {"", "nothing"} /\ exits \in Nat
  /\ heard \in -1..exits

NetInit ==
  /\ services \in ServiceLists /\ online \in SUBSET ToSet(services)
  /\ exits = 0 /\ nChanges = 0 /\ queries = <<"manager">> /\ incoming = <<>>
  /\ listed = <<>> /\ rows = <<>> /\ kept = {} /\ last = NoConnection /\ queued = NoConnection
  /\ note = FALSE /\ told = "nothing" /\ heard = -1

(***************************************************************************)
(* connman and the user.                                                   *)
(***************************************************************************)
panelVars == <<listed, rows, kept, last, note, told, heard>>

FromConnman(kind, path, list, up) ==
  Append(incoming, [kind |-> kind, path |-> path, list |-> list, up |-> up, run |-> exits])
Changes == nChanges < MaxServiceChanges /\ nChanges' = nChanges + 1

ServicesChange(q) ==
  /\ Changes /\ q # services
  /\ services' = q /\ online' = online \cap ToSet(q)
  /\ incoming' = FromConnman("services", "manager", q, FALSE)
  /\ UNCHANGED <<exits, queries, queued, panelVars>>

StateChanges(p) ==
  /\ Changes /\ p \in ToSet(services)
  /\ online' = (online \cup {p}) \ (online \cap {p})
  /\ incoming' = FromConnman("state", p, <<>>, p \notin online)
  /\ UNCHANGED <<services, exits, queries, queued, panelVars>>

\* Of the properties that make the model ask for all of them again.
PassphraseChanges(p) ==
  /\ Changes /\ p \in ToSet(services)
  /\ incoming' = FromConnman("passphrase", p, <<>>, FALSE)
  /\ UNCHANGED <<services, online, exits, queries, queued, panelVars>>

Answers ==
  /\ queries # <<>> /\ queries' = Tail(queries)
  /\ LET p == Head(queries)
     IN incoming' = IF p = "manager" THEN FromConnman("services", p, services, FALSE)
                    ELSE IF p \in ToSet(services)
                    THEN FromConnman("properties", p, <<>>, p \in online)
                    ELSE incoming
  /\ UNCHANGED <<services, online, exits, nChanges, queued, panelVars>>

\* Calls that are pending fail.
ConnmanStops ==
  /\ exits < MaxServiceExits /\ exits' = exits + 1
  /\ services' = <<>> /\ online' = {} /\ queries' = <<>>
  /\ UNCHANGED <<nChanges, incoming, queued, panelVars>>

\* carrick_notification_manager_queue_event: the user connects p or gives it up.
UserPicks(p, up) ==
  /\ Changes /\ p \in DOMAIN rows /\ rows[p].named
  /\ queued' = [name |-> p, up |-> up]
  /\ UNCHANGED <<services, online, exits, queries, incoming, panelVars>>

(***************************************************************************)
(* The rows, and who watches them.  Handlers are functions of the state s; *)
(* visible: the panel is on the screen, where no note is needed.           *)
(***************************************************************************)
\* carrick_notification_manager_notify_event: tell_online and tell_changed differ in
\* their words, tell_offline leaves nothing the user could take for a connection.
\* What the user asked for himself needs no note.
NotifiedUnsaved(s, c, visible) ==    \* (mutant: last is not saved for what was queued)
  IF s.queued = c
  THEN [s EXCEPT !.queued = NoConnection, !.told = IF c.up THEN c.name ELSE "nothing"]
  ELSE LET same  == s.last.name = c.name
           tells == IF same THEN s.last.up # c.up ELSE c.up
       IN [s EXCEPT !.last = c, !.note = @ \/ (tells /\ ~visible),
                    !.told = IF ~tells THEN @ ELSE IF c.up THEN c.name ELSE "nothing"]
Notified(s, c, visible) ==
  IF s.queued = c
  THEN [s EXCEPT !.queued = NoConnection, !.last = c,
                 !.told = IF c.up THEN c.name ELSE "nothing"]
  ELSE LET same  == s.last.name = c.name
           tells == IF same THEN s.last.up # c.up ELSE c.up
       IN [s EXCEPT !.last = c, !.note = @ \/ (tells /\ ~visible),
                    !.told = IF ~tells THEN @ ELSE IF c.up THEN c.name ELSE "nothing"]

\* model_emit_change
ShownAs(p, row) == [name |-> IF row.named THEN p ELSE "", up |-> row.up]
Emitted(s, p, visible) == Notified(s, ShownAs(p, s.rows[p]), visible)

\* model_row_changed_cb, also for rows that were inserted
PutRow(s, p, row, visible) ==
  LET t == [s EXCEPT !.rows = [q \in DOMAIN s.rows \cup {p} |->
                                 IF q = p THEN row ELSE s.rows[q]]]
  IN IF row.index = 0 THEN Emitted(t, p, visible) ELSE t

\* What finds nobody, of messages about p and of calls.
Unheard(q, p, kinds) == [i \in DOMAIN q |-> IF q[i].kind \in kinds /\ q[i].path = p
                                            THEN Void ELSE q[i]]
Cancelled(q, p) == [i \in DOMAIN q |-> IF q[i] = p THEN "nobody" ELSE q[i]]

\* model_row_deleted_cb.  The row's proxy is gone with its calls, unless it was leaked.
TopRow(r) == CHOOSE p \in DOMAIN r : \A q \in DOMAIN r : r[p].index <= r[q].index
DropRow(s, p, visible) ==
  LET t == [s EXCEPT !.rows = Restrict(@, DOMAIN @ \ {p}),
                     !.queries = IF p \in s.kept THEN @ ELSE Cancelled(@, p),
                     !.incoming = IF p \in s.kept THEN @ ELSE Unheard(@, p, {"properties"})]
  IN IF p \notin DOMAIN s.rows THEN s
     ELSE IF DOMAIN t.rows = {} THEN t ELSE Emitted(t, TopRow(t.rows), visible)

\* network_model_update_property for "Services": new rows have no state yet.  What was
\* sent before the row's proxy subscribed does not come.
EnterRow(s, p, index, run, visible) ==
  LET asked == [s EXCEPT !.queries = Append(@, p),
                         !.incoming = IF p \in s.kept THEN @
                                      ELSE Unheard(@, p, {"state", "passphrase", "properties"})]
  IN IF p \notin DOMAIN s.rows
     THEN PutRow(asked, p, [index |-> index, up |-> FALSE, named |-> FALSE, run |-> run], visible)
     ELSE IF s.rows[p].index # index
     THEN PutRow(s, p, [s.rows[p] EXCEPT !.index = index], visible)
     ELSE s

UpdatedServices(s, m, visible) ==
  LET q == m.list
      entered[i \in 0..Len(q)] ==
        IF i = 0 THEN s ELSE EnterRow(entered[i - 1], q[i], i - 1, m.run, visible)
      left[i \in 0..Len(s.listed)] ==
        IF i = 0 THEN entered[Len(q)]
        ELSE IF s.listed[i] \in ToSet(q) THEN left[i - 1]
        ELSE DropRow(left[i - 1], s.listed[i], visible)
  IN [left[Len(s.listed)] EXCEPT !.listed = q]

\* network_model_service_get_properties_cb
GotProperties(s, m, visible) ==
  PutRow(s, m.path, [index |-> IF m.path \in DOMAIN s.rows THEN s.rows[m.path].index ELSE 0,
                     up |-> m.up, named |-> TRUE, run |-> m.run], visible)

\* network_model_service_changed_cb.  "State" leaks a reference to the proxy.
ServiceChanged(s, m, visible) ==
  IF m.path \notin DOMAIN s.rows THEN s
  ELSE IF m.kind = "passphrase" THEN [s EXCEPT !.queries = Append(@, m.path)]
  ELSE PutRow([s EXCEPT !.kept = @ \cup {m.path}], m.path,
              [s.rows[m.path] EXCEPT !.up = m.up, !.run = m.run], visible)

NetNow == [rows |-> rows, listed |-> listed, kept |-> kept, last |-> last, queued |-> queued,
           note |-> note, told |-> told, queries |-> queries, incoming |-> incoming]
NetBecome(s) == /\ rows' = s.rows /\ listed' = s.listed /\ kept' = s.kept /\ last' = s.last
                /\ queued' = s.queued /\ note' = s.note /\ told' = s.told
                /\ queries' = s.queries /\ incoming' = s.incoming
                /\ UNCHANGED <<services, online, exits, nChanges>>

Handle(visible) ==
  /\ incoming # <<>>
  /\ LET m == Head(incoming)
         s == [NetNow EXCEPT !.incoming = Tail(@)]
     IN \/ /\ m.kind = "services" /\ heard' = m.run
           /\ NetBecome(UpdatedServices(s, m, visible))
        \/ /\ m.kind = "properties" /\ UNCHANGED heard
           /\ NetBecome(GotProperties(s, m, visible))
        \/ /\ m.kind \in {"state", "passphrase"} /\ UNCHANGED heard
           /\ NetBecome(ServiceChanged(s, m, visible))
        \/ m.kind = "void" /\ UNCHANGED heard /\ NetBecome(s)

\* on_note_closed
NoteClosed == /\ note /\ note' = FALSE
              /\ UNCHANGED <<services, online, exits, nChanges, queries, incoming, listed, rows,
                             kept, last, queued, told, heard>>

NetNext ==
  \/ Answers \/ ConnmanStops \/ NoteClosed
  \/ \E q \in ServiceLists : ServicesChange(q)
  \/ \E p \in Services : \/ StateChanges(p) \/ PassphraseChanges(p)
                         \/ \E up \in BOOLEAN : UserPicks(p, up)
  \/ \E visible \in BOOLEAN : Handle(visible)

NetSpec == NetInit /\ [][NetNext]_netVars

(***************************************************************************)
(* Properties.                                                             *)
(***************************************************************************)
NetQuiet == queries = <<>> /\ incoming = <<>> /\ heard = exits

\* When all is quiet the rows are connman's services in connman's order, each with its
\* state, however lists, signals and answers followed each other; only the state of
\* one that was there before connman was started again may be an old one.
RowsMirrorServices ==
  NetQuiet => /\ DOMAIN rows = ToSet(services)
           /\ \A i \in DOMAIN services :
                LET row == rows[services[i]]
                IN /\ row.index = i - 1
                   /\ row.run = exits => (row.up <=> services[i] \in online)
                   /\ exits = 0 => row.named

\* At any time: nobody is left who would say that a row that is not listed is gone.
RowsAreListed == DOMAIN rows = ToSet(listed)

\* The icon and the notes are about the first row, and who is connected through it
\* knows: a note was sent, or it was what the user had asked for.
UserIsTold ==
  /\ DOMAIN rows # {} => last = ShownAs(TopRow(rows), rows[TopRow(rows)])
  /\ last.up => told = last.name

NetworkIsRight == RowsMirrorServices /\ RowsAreListed /\ UserIsTold
=============================================================================
