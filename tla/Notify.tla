------------------------------- MODULE Notify -------------------------------
(***************************************************************************)
(* Notifications: the store that speaks D-Bus, the notifiers on the two    *)
(* trays of the overlay, and the subsystems that put them there (messages  *)
(* of applications, windows that demand attention, mounted volumes).       *)
(*                                                                         *)
(* A message is shown when the bus has told the shell its sender's pid.    *)
(* Four parties end a notifier: its timeout, the user, the application and *)
(* the window it belongs to.  All do so by emitting its signal "closed",   *)
(* whose handlers run within the emission, so handlers are written here as *)
(* functions from a state (NtfNow) to a state.                             *)
(***************************************************************************)
EXTENDS Integers, Sequences, SequencesExt, FiniteSets

CONSTANTS
  Windows,    \* windows of applications, one for each such application
  Locals,     \* those of them that give "local" as their machine
  Daemons,    \* applications without a window
  Volumes,    \* volumes that get mounted
  Nobody,     \* no notifier, no entry, no window
  Lifetimes,  \* the timeouts applications ask for; -1 leaves it to the shell
  MaxCalls    \* bound: how often Notify is called

Apps == Windows \cup Daemons
Ids == 1..MaxCalls
NtfKeys == Ids \cup Windows \cup Volumes
Trays == {"normal", "urgent"}

\* DEFAULT_TIMEOUT; only how timeouts compare with it matters.
Default == 2

VARIABLES
  store,    \* the notifications by id, Nobody if there is none
  ntfs,     \* the notifiers in the order they were made, see Notifiers
  tray,     \* the two trays, see TrayStates
  focused,  \* overlay_focused: the urgent tray has the keyboard
  source,   \* the database of sources: "none", or a source with or without "window"
  nextId,   \* next_id
  asks,     \* the ids whose sender's pid was asked for, in order
  managed,  \* the windows there are
  focus,    \* the window that has the focus
  mounted,  \* the volumes mounted so far
  moved,    \* history: the ids whose urgency an update changed
  calls     \* how often Notify was called

ntfVars == <<store, ntfs, tray, focused, source, nextId, asks, managed, focus, mounted,
             moved, calls>>

Messages == [urgent : BOOLEAN, timeout : Nat, app : Apps]

\* A key tells the subsystem that put the notifier there.
ASSUME NotifyAssumption ==
  /\ MaxCalls \in Nat /\ Lifetimes \subseteq Int
  /\ Windows \cap Ids = {} /\ Volumes \cap (Ids \cup Windows) = {}
  /\ Nobody \notin NtfKeys \cup Messages

\* src: the source that closes it; limit: timeout; timer: timeout_id, "never" if
\* it was set to a negative number, which as an unsigned one is 49 days; armed:
\* the longest time the timer was set to, 0 if there is no GTimer; hover: the
\* pointer is on it; fading: an animation will call hide_ntf_completed_cb.
Notifiers == [tray : Trays, key : NtfKeys, src : Windows \cup {Nobody},
              closed : BOOLEAN, fading : BOOLEAN, hover : BOOLEAN,
              timer : {"none", "running", "never"}, limit : Nat, armed : Nat]

\* count: n_notifiers; active: active_notifier; swept: history, whether
\* "Dismiss All" was used.
TrayStates == [count : Nat, active : NtfKeys \cup {Nobody}, shown : BOOLEAN, swept : BOOLEAN]

NtfInit ==
  /\ store = [i \in Ids |-> Nobody] /\ ntfs = <<>> /\ focused = FALSE
  /\ tray = [t \in Trays |-> [count |-> 0, active |-> Nobody, shown |-> FALSE, swept |-> FALSE]]
  /\ source = [a \in Apps |-> "none"]
  /\ nextId = 0 /\ asks = <<>> /\ mounted = {}
  /\ managed = Windows /\ focus = Nobody /\ moved = {} /\ calls = 0

NtfNow == [store |-> store, ntfs |-> ntfs, tray |-> tray, focused |-> focused,
          source |-> source]

NtfBecome(S) == /\ store' = S.store /\ ntfs' = S.ntfs /\ tray' = S.tray
                /\ focused' = S.focused /\ source' = S.source
-----------------------------------------------------------------------------
\* The tray.

\* The places of a tray's children among all notifiers q, and the first of some.
Children(q, t) == {i \in DOMAIN q : q[i].tray = t}
Foremost(P) == CHOOSE i \in P : \A j \in P : i <= j

\* ntf_tray_find_notification; a tray never holds two notifiers of one key.
Places(S, t, k) == {i \in DOMAIN S.ntfs : S.ntfs[i].tray = t /\ S.ntfs[i].key = k}
Has(S, t, k) == Places(S, t, k) # {}
Place(S, t, k) == CHOOSE i \in Places(S, t, k) : TRUE

\* ntf_notification_is_closed, negated
IsOpen(S, t, k) == \E i \in Places(S, t, k) : ~S.ntfs[i].closed

\* ntf_tray_add_notification; that the notifier is shown starts its timer.
Add(S, t, k, src, timeout) ==
  LET old == S.tray[t]
      count == old.count + 1
      ntf == [tray |-> t, key |-> k, src |-> src, closed |-> FALSE, fading |-> FALSE,
              hover |-> FALSE, timer |-> IF timeout > 0 THEN "running" ELSE "none",
              limit |-> timeout, armed |-> timeout]
  IN  [S EXCEPT !.ntfs = Append(@, ntf),
                !.tray[t] = [count |-> count, active |-> IF count = 1 THEN k ELSE old.active,
                             shown |-> old.shown \/ count = 1, swept |-> old.swept]]

\* Mutant: the tray's active notifier is destroyed like any other.
TrayClosedDestroys(S, t, k) ==
  LET left == [S EXCEPT !.ntfs = RemoveAt(@, Place(S, t, k)),
                        !.tray[t].count = IF @ = 0 THEN 0 ELSE @ - 1]
  IN  [left EXCEPT !.tray[t].active = IF left.tray[t].count = 0 THEN Nobody ELSE @]

\* The class's and the tray's handlers of "closed".  The active notifier is faded
\* out and stays a child; any other is destroyed, which disconnects its signals.
\* The next active one is the second child, whoever that is.
TrayClosed(S, t, k) ==
  LET i == Place(S, t, k)
      old == S.tray[t]
      wasActive == old.active = k
      gone == [S.ntfs[i] EXCEPT !.closed = TRUE, !.fading = TRUE, !.hover = FALSE,
                                !.timer = "none"]
      left == IF wasActive THEN [S.ntfs EXCEPT ![i] = gone] ELSE RemoveAt(S.ntfs, i)
      count == IF old.count = 0 THEN 0 ELSE old.count - 1
      children == Children(left, t)
      next == children \ {Foremost(children)}
      active == CASE count = 0 -> Nobody
                  [] count > 0 /\ ~wasActive -> old.active
                  [] count > 0 /\ wasActive ->
                       IF next # {} THEN left[Foremost(next)].key ELSE Nobody
  IN  [S EXCEPT !.ntfs = left,
                !.tray[t] = [old EXCEPT !.count = count, !.active = active]]

\* ntf_libnotify_update_modal
UpdateModal(S) == [S EXCEPT !.focused = S.tray["urgent"].count > 0]

\* dawati_netbook_notify_store_close, with ntf_libnotify_notification_closed_cb.
StoreClose(S, id) ==
  LET without == [S EXCEPT !.store[id] = Nobody]
      t == IF Has(S, "normal", id) THEN "normal" ELSE "urgent"
  IN  IF S.store[id] = Nobody THEN S
      ELSE IF IsOpen(S, t, id) THEN UpdateModal(TrayClosed(without, t, id))
      ELSE without

\* Emitting "closed": ntf_libnotify_ntf_closed_cb comes last and is not reached if
\* the tray's handler destroyed the notifier.
Closed(S, t, k) ==
  LET S1 == TrayClosed(S, t, k)
  IN  IF k \in Ids /\ Has(S1, t, k) THEN StoreClose(UpdateModal(S1), k) ELSE S1

\* ntf_notification_close
CloseOpen(S, t, k) == IF IsOpen(S, t, k) THEN Closed(S, t, k) ELSE S

\* ntf_sources_find_for_id, or else ntf_source_new_for_pid and ntf_sources_add
WithSource(S, a) ==
  IF S.source[a] # "none" THEN S
  ELSE [S EXCEPT !.source[a] = IF a \in managed THEN "window" ELSE "bare"]
SourceOf(S, a) == IF S.source[a] = "window" THEN a ELSE Nobody

\* A message's source is that of its sender's pid on the machine "local".  A window's
\* is on the machine that the window gives, so that messages share it only if that is
\* "local".  All others find no window for theirs, which then make no difference.
WithLocal(S, a) == IF a \in Windows \ Locals THEN S ELSE WithSource(S, a)
LocalOf(S, a) == IF a \in Windows \ Locals THEN Nobody ELSE SourceOf(S, a)
-----------------------------------------------------------------------------
\* Messages of applications.

\* The end of notification_manager_notify.
Allowed(urgent, timeout) ==
  IF timeout < 0 \/ (~urgent /\ (timeout = 0 \/ timeout > Default)) THEN Default ELSE timeout

\* Mutant: an id that is given is used, in the store or not.
NotifyRevives(id, app, urgent, timeout) ==
  LET i == IF id # 0 THEN id ELSE nextId + 1
  IN  /\ calls < MaxCalls
      /\ calls' = calls + 1
      /\ store' = [store EXCEPT ![i] = [urgent |-> urgent, app |-> app,
                                        timeout |-> Allowed(urgent, timeout)]]
      /\ nextId' = IF id # 0 THEN nextId ELSE i
      /\ asks' = Append(asks, i)
      /\ UNCHANGED <<ntfs, tray, focused, source, managed, focus, mounted, moved>>

\* notification_manager_notify: an id that is not in the store gets a new one.
Notify(id, app, urgent, timeout) ==
  LET known == id # 0 /\ store[id] # Nobody
      i == IF known THEN id ELSE nextId + 1
  IN  /\ calls < MaxCalls
      /\ calls' = calls + 1
      /\ store' = [store EXCEPT ![i] = [urgent |-> urgent, app |-> app,
                                        timeout |-> Allowed(urgent, timeout)]]
      /\ nextId' = IF known THEN nextId ELSE i
      /\ asks' = Append(asks, i)
      /\ UNCHANGED <<ntfs, tray, focused, source, managed, focus, mounted>>
      /\ moved' = IF known /\ store[i].urgent # urgent THEN moved \cup {i} ELSE moved

\* ntf_libnotify_notification_added_cb; an update leaves the timer as it is.
Announce(S, id) ==
  LET entry == S.store[id]
      t == IF entry.urgent THEN "urgent" ELSE "normal"
      S1 == WithLocal(S, entry.app)
  IN  IF Has(S, t, id) THEN [S EXCEPT !.ntfs[Place(S, t, id)].limit = entry.timeout]
      ELSE UpdateModal(Add(S1, t, id, LocalOf(S1, entry.app), entry.timeout))

\* unix_process_id_reply_cb
PidReply ==
  /\ asks # <<>>
  /\ asks' = Tail(asks)
  /\ NtfBecome(IF store[Head(asks)] = Nobody THEN NtfNow ELSE Announce(NtfNow, Head(asks)))
  /\ UNCHANGED <<nextId, managed, focus, mounted, moved, calls>>

\* The sender left the bus before it was asked about.
PidFails ==
  /\ asks # <<>>
  /\ asks' = Tail(asks)
  /\ UNCHANGED <<store, ntfs, tray, focused, source, nextId, managed, focus, mounted,
                 moved, calls>>

Elsewhere == <<nextId, asks, managed, focus, mounted, moved, calls>>

\* notification_manager_close_notification
CloseNotification(id) ==
  /\ store[id] # Nobody
  /\ NtfBecome(StoreClose(NtfNow, id))
  /\ UNCHANGED Elsewhere
-----------------------------------------------------------------------------
\* The user and the clock.

Clickable(t, k) == tray[t].shown /\ IsOpen(NtfNow, t, k)

\* ntf_libnotify_action_cb, dawati_netbook_notify_store_action
Action(t, id) ==
  /\ Clickable(t, id) /\ store[id] # Nobody
  /\ NtfBecome(StoreClose(NtfNow, id))
  /\ UNCHANGED Elsewhere

\* ntf_notification_dismiss_cb, and _open_clicked_cb of a mount
Dismiss(t, k) ==
  /\ Clickable(t, k)
  /\ NtfBecome(Closed(NtfNow, t, k))
  /\ UNCHANGED Elsewhere

\* ntf_tray_dismiss_all_cb, from its button, shown if there are two, or by Escape.
\* The iteration ends where a child was removed during it.
DismissAll(t) ==
  LET Step(S, n) == IF n.tray = t /\ \A i \in Children(ntfs, t) : Has(S, t, ntfs[i].key)
                    THEN Closed(S, t, n.key) ELSE S
      hidden == [NtfNow EXCEPT !.tray[t] = [@ EXCEPT !.shown = FALSE, !.swept = TRUE]]
      after[i \in 0..Len(ntfs)] == IF i = 0 THEN hidden ELSE Step(after[i - 1], ntfs[i])
  IN  /\ tray[t].shown /\ (tray[t].count > 1 \/ (t = "urgent" /\ focused))
      /\ NtfBecome(after[Len(ntfs)])
      /\ UNCHANGED Elsewhere

\* ntf_notification_timeout_cb
TimesOut(t, k) ==
  /\ \E i \in Places(NtfNow, t, k) : ntfs[i].timer = "running"
  /\ NtfBecome(Closed(NtfNow, t, k))
  /\ UNCHANGED Elsewhere

SetNotifier(i, ntf) ==
  /\ ntfs' = [ntfs EXCEPT ![i] = ntf]
  /\ UNCHANGED <<store, tray, focused, source, Elsewhere>>

\* ntf_notification_enter_event
Enter(t, k) ==
  /\ Clickable(t, k) /\ \A i \in DOMAIN ntfs : ~ntfs[i].hover
  /\ LET i == Place(NtfNow, t, k)
     IN  SetNotifier(i, [ntfs[i] EXCEPT !.hover = TRUE,
                                        !.timer = IF ntfs[i].limit > 0 THEN "none" ELSE @])

\* Mutant: the timer is not set again.
LeaveForgets(t, k) ==
  \E i \in Places(NtfNow, t, k) :
    ntfs[i].hover /\ SetNotifier(i, [ntfs[i] EXCEPT !.hover = FALSE])

\* ntf_notification_leave_event.  What remains may be negative if the timeout was
\* lowered since the timer was set; without a GTimer nothing counts as elapsed.
Leave(t, k) ==
  \E i \in Places(NtfNow, t, k) :
    LET ntf == ntfs[i]
        late == ntf.limit < ntf.armed
    IN  /\ ntf.hover
        /\ \E timer \in {"running"} \cup IF late THEN {"never"} ELSE {} :
             SetNotifier(i, [ntf EXCEPT
               !.hover = FALSE,
               !.timer = IF ntf.limit = 0 \/ @ = "running" THEN @ ELSE timer,
               !.armed = IF @ > 0 /\ ntf.limit > @ THEN ntf.limit ELSE @])

\* ntf_tray_hide_ntf_completed_cb: it removes the notifier from the tray, whose
\* grandchild it is, so it stays where it was.
FadeDone(t, k) ==
  /\ \E i \in Places(NtfNow, t, k) :
       /\ ntfs[i].fading
       /\ ntfs' = [ntfs EXCEPT ![i].fading = FALSE]
  /\ tray' = [tray EXCEPT ![t].shown = @ /\ tray[t].count # 0]
  /\ UNCHANGED <<store, focused, source, Elsewhere>>
-----------------------------------------------------------------------------
\* Windows and mounts.

\* ntf_wm_demands_attention_clear
ClearAttention(S, w) == CloseOpen(S, "normal", w)

\* ntf_wm_display_window_demands_attention_cb, ntf_wm_handle_demands_attention
Attention(w) ==
  LET S1 == WithSource(NtfNow, w)
  IN  /\ w \in managed /\ focus # w
      /\ NtfBecome(IF Has(NtfNow, "normal", w) THEN NtfNow
                ELSE Add(S1, "normal", w, SourceOf(S1, w), 0))
      /\ UNCHANGED Elsewhere

\* ntf_wm_display_focus_window_notify_cb
Focus(w) ==
  /\ w # focus
  /\ focus' = w
  /\ NtfBecome(IF w = Nobody THEN NtfNow ELSE ClearAttention(NtfNow, w))
  /\ UNCHANGED <<nextId, asks, managed, mounted, moved, calls>>

\* ntf_wm_meta_window_demands_attention_cb
AttentionEnds(w) ==
  /\ IsOpen(NtfNow, "normal", w)
  /\ NtfBecome(ClearAttention(NtfNow, w))
  /\ UNCHANGED Elsewhere

\* ntf_source_window_unamanged_cb, which ends the window's source and with it, in
\* the order they were made, its notifiers; then ntf_wm_meta_window_unmanaged_cb.
Unmanaged(w) ==
  LET Step(S, n) == IF n.src = w THEN CloseOpen(S, n.tray, n.key) ELSE S
      after[i \in 0..Len(ntfs)] == IF i = 0 THEN NtfNow ELSE Step(after[i - 1], ntfs[i])
      S2 == [after[Len(ntfs)] EXCEPT !.source[w] = IF @ = "window" THEN "none" ELSE @]
  IN  /\ w \in managed
      /\ managed' = managed \ {w}
      /\ focus' = IF focus = w THEN Nobody ELSE focus
      /\ NtfBecome(ClearAttention(S2, w))
      /\ UNCHANGED <<nextId, asks, mounted, moved, calls>>

\* _volume_monitor_mount_added_cb
MountAppears(m) ==
  /\ m \notin mounted
  /\ mounted' = mounted \cup {m}
  /\ NtfBecome(Add(NtfNow, "normal", m, Nobody, Default))
  /\ UNCHANGED <<nextId, asks, managed, focus, moved, calls>>
-----------------------------------------------------------------------------
NtfNext ==
  \/ \E id \in 0..nextId, a \in Apps, u \in BOOLEAN, r \in Lifetimes : Notify(id, a, u, r)
  \/ PidReply \/ PidFails
  \/ \E id \in Ids : CloseNotification(id)
  \/ \E n \in ToSet(ntfs) : \/ Dismiss(n.tray, n.key) \/ TimesOut(n.tray, n.key)
                            \/ Enter(n.tray, n.key) \/ Leave(n.tray, n.key)
                            \/ FadeDone(n.tray, n.key)
                            \/ n.key \in Ids /\ Action(n.tray, n.key)
  \/ \E t \in Trays : DismissAll(t)
  \/ \E w \in Windows : Attention(w) \/ AttentionEnds(w) \/ Unmanaged(w)
  \/ \E w \in managed \cup {Nobody} : Focus(w)
  \/ \E m \in Volumes : MountAppears(m)

NtfSpec == NtfInit /\ [][NtfNext]_ntfVars
-----------------------------------------------------------------------------
\* Properties.

OpenOn(t) == {k \in NtfKeys : IsOpen(NtfNow, t, k)}
Stored == {id \in Ids : store[id] # Nobody}

\* Types; and no tray holds two notifiers of one key, so that what is found by
\* its key is the notifier that is meant.
NtfTypeOK ==
  /\ store \in [Ids -> Messages \cup {Nobody}] /\ ntfs \in Seq(Notifiers)
  /\ tray \in [Trays -> TrayStates] /\ focused \in BOOLEAN
  /\ source \in [Apps -> {"none", "bare", "window"}]
  /\ nextId \in 0..MaxCalls /\ calls \in 0..MaxCalls /\ asks \in Seq(Ids)
  /\ managed \subseteq Windows /\ focus \in Windows \cup {Nobody}
  /\ mounted \subseteq Volumes /\ moved \subseteq Ids
  /\ \A i, j \in DOMAIN ntfs :
       ntfs[i].tray = ntfs[j].tray /\ ntfs[i].key = ntfs[j].key => i = j

\* The active notifier, which the tray measures, focuses and animates, has not
\* been destroyed, and there is one while the tray counts any.
ActiveExists ==
  \A t \in Trays : /\ tray[t].active # Nobody => Has(NtfNow, t, tray[t].active)
                   /\ tray[t].count > 0 <=> tray[t].active # Nobody

\* Until "Dismiss All" is used, n_notifiers is the number of notifiers that are
\* still open, and while there are any their tray is shown: the end of an earlier
\* one's fading does not hide it.
OpenIsVisible ==
  \A t \in Trays : ~tray[t].swept =>
    /\ tray[t].count = Cardinality(OpenOn(t))
    /\ OpenOn(t) # {} => tray[t].shown

\* An urgent message has the keyboard until the last one is closed.
UrgentHasKeys == ~tray["urgent"].swept /\ OpenOn("urgent") # {} => focused

\* A message that its application or the user has closed is not on the screen: an
\* open notifier's id is in the store, unless an update had moved it to the
\* other tray, which leaves it on the first one too.
OpenIsStored ==
  \A i \in DOMAIN ntfs : ~ntfs[i].closed /\ ntfs[i].key \in Ids =>
    ntfs[i].key \in Stored \cup moved

\* A message that is not urgent goes away of its own accord: while it is open its
\* timer runs or the pointer is on it, whose leaving sets the timer again; unless by
\* then its time, lowered by an update, was over already.
NonUrgentTicks ==
  \A i \in DOMAIN ntfs : ntfs[i].tray = "normal" /\ ~ntfs[i].closed /\ ntfs[i].key \in Ids =>
    ntfs[i].hover \/ ntfs[i].timer \in {"running", "never"}

\* What is on the screen, what is counted, what has the keyboard and what is stored
\* are the same messages, and those that should go away will.
TraysAreRight == ActiveExists /\ OpenIsVisible /\ UrgentHasKeys /\ OpenIsStored /\ NonUrgentTicks

\* A closed message does not come back: a notifier for an id appears only while the
\* id is in the store, however late the answer about its sender arrives, and an id
\* that was closed is never in the store again.
ClosedStaysClosed ==
  [][\A id \in Ids :
       /\ id \notin Stored => \A t \in Trays : Has(NtfNow, t, id)' => Has(NtfNow, t, id)
       /\ id \notin Stored /\ id <= nextId => id \notin Stored']_ntfVars

\* "The urgent tray shows/hides itself when it contains something / is empty."
EmptyUrgentTrayHides ==
  tray["urgent"].shown /\ ~tray["urgent"].swept =>
    \/ OpenOn("urgent") # {}
    \/ \E i \in DOMAIN ntfs : ntfs[i].tray = "urgent" /\ ntfs[i].fading
=============================================================================
