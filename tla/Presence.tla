------------------------------ MODULE Presence -----------------------------
(***************************************************************************)
(* The session's presence: idle when the user has been away for the idle   *)
(* timeout or the screen saver runs, unless a client inhibits it.          *)
(*                                                                         *)
(* External: the X server's idle counter with a pair of alarms for each    *)
(* watch, which rest between the event and its handling; the screen saver; *)
(* the bus, which tells when a client has gone.                            *)
(***************************************************************************)
EXTENDS Naturals, Sequences, FiniteSets

CONSTANTS
  Clients,      \* connections that inhibit, each comes and goes once
  Timeouts,     \* the values of the idle delay
  MaxIdle,      \* bound: the longest time the user is away
  MaxAlarms     \* bound: alarm events that wait

ASSUME PresenceAssumption == /\ Timeouts # {} /\ Timeouts \subseteq Nat
                             /\ MaxIdle \in Nat /\ MaxAlarms \in Nat

VARIABLES
  status, saved,   \* priv->status, priv->saved_status
  said,            \* the last status somebody set, for RestoresStatus
  idleEnabled,     \* priv->idle_enabled
  idleTimeout,     \* priv->idle_timeout
  watch,           \* whether there is an idle watch, and its alarms that are armed
  saverKnown,      \* priv->screensaver_proxy is there
  saverActive,     \* priv->screensaver_active
  inhibitors,      \* the manager's store: [client, cookie, idle]
  connected,       \* clients: "new", "on", "gone" (not yet noticed), "left"
  away,            \* the idle counter
  alarms           \* alarm events to be handled: [positive, live]

presenceVars == <<status, saved, said, idleEnabled, idleTimeout, watch, saverKnown, saverActive,
                  inhibitors, connected, away, alarms>>

Idle == "idle"
Said == {"available", "busy"}
NoWatch == [on |-> FALSE, positive |-> FALSE, negative |-> FALSE]
Armed   == [on |-> TRUE, positive |-> TRUE, negative |-> TRUE]
Cookies == 1 .. 2

PresenceTypeOK ==
  /\ status \in Said \cup {Idle} /\ saved \in Said /\ said \in Said
  /\ {idleEnabled, saverKnown, saverActive} \subseteq BOOLEAN /\ idleTimeout \in Timeouts
  /\ watch \in [on: BOOLEAN, positive: BOOLEAN, negative: BOOLEAN]
  /\ inhibitors \subseteq [client: Clients, cookie: Cookies, idle: BOOLEAN]
  /\ connected \in [Clients -> {"new", "on", "gone", "left"}]
  /\ away \in 0..MaxIdle /\ alarms \in Seq([positive: BOOLEAN, live: BOOLEAN])

\* gsm_manager_init, after gconf told the idle delay
PresenceInit ==
  /\ status = "available" /\ saved = "available" /\ said = "available"
  /\ idleEnabled = TRUE /\ idleTimeout = (CHOOSE t \in Timeouts : TRUE) /\ watch = Armed
  /\ saverKnown = FALSE /\ saverActive = FALSE
  /\ inhibitors = {} /\ connected = [c \in Clients |-> "new"]
  /\ away = 0 /\ alarms = <<>>

(***************************************************************************)
(* GsmPresence, as functions of the state s.                               *)
(***************************************************************************)
State == [status |-> status, saved |-> saved, enabled |-> idleEnabled, timeout |-> idleTimeout,
          watch |-> watch, active |-> saverActive, inhibitors |-> inhibitors, alarms |-> alarms]
Become(s) ==
  /\ status' = s.status /\ saved' = s.saved /\ idleEnabled' = s.enabled
  /\ idleTimeout' = s.timeout /\ watch' = s.watch /\ saverActive' = s.active
  /\ inhibitors' = s.inhibitors /\ alarms' = s.alarms

\* set_session_idle
SetIdle(s, isIdle) ==
  IF isIdle = (s.status = Idle) THEN s
  ELSE IF isIdle THEN [s EXCEPT !.saved = s.status, !.status = Idle]
  ELSE [s EXCEPT !.status = s.saved, !.saved = "available"]

\* reset_idle_watch.  The alarms of the old watch are destroyed: their events
\* find no watch any more.
ResetWatchOnly(s) ==           \* (mutant: events of the old alarms still count)
  [s EXCEPT !.watch = IF ~s.active /\ s.enabled THEN Armed ELSE NoWatch]
ResetWatch(s) ==
  [s EXCEPT !.alarms = [i \in DOMAIN @ |-> [@[i] EXCEPT !.live = FALSE]],
            !.watch = IF ~s.active /\ s.enabled THEN Armed ELSE NoWatch]

\* gsm_manager's update_idle, with gsm_presence_set_idle_enabled
UpdateIdleBlind(s) ==          \* (mutant: whatever is inhibited)
  LET enabled == s.inhibitors = {}
  IN IF s.enabled = enabled THEN s ELSE ResetWatch([s EXCEPT !.enabled = enabled])
UpdateIdle(s) ==
  LET enabled == \A i \in s.inhibitors : ~i.idle
  IN IF s.enabled = enabled THEN s ELSE ResetWatch([s EXCEPT !.enabled = enabled])

(***************************************************************************)
(* The user and the X server.                                              *)
(***************************************************************************)
UserIsAway ==
  /\ away < MaxIdle /\ Len(alarms) < MaxAlarms /\ away' = away + 1
  /\ IF watch.positive /\ away < idleTimeout /\ away + 1 >= idleTimeout
     THEN /\ alarms' = Append(alarms, [positive |-> TRUE, live |-> TRUE])
          /\ watch' = [watch EXCEPT !.positive = FALSE]
     ELSE UNCHANGED <<alarms, watch>>
  /\ UNCHANGED <<status, saved, said, idleEnabled, idleTimeout, saverKnown, saverActive,
                 inhibitors, connected>>

UserIsBack ==
  /\ away > 0 /\ Len(alarms) < MaxAlarms /\ away' = 0
  /\ IF watch.negative /\ away >= idleTimeout
     THEN /\ alarms' = Append(alarms, [positive |-> FALSE, live |-> TRUE])
          /\ watch' = [watch EXCEPT !.negative = FALSE]
     ELSE UNCHANGED <<alarms, watch>>
  /\ UNCHANGED <<status, saved, said, idleEnabled, idleTimeout, saverKnown, saverActive,
                 inhibitors, connected>>

\* handle_alarm_notify_event: on_idle_timeout for the watch it belongs to
AlarmNotify ==
  /\ alarms # <<>>
  /\ LET a == Head(alarms)
         s == [State EXCEPT !.alarms = Tail(@)]
     IN Become(IF ~a.live THEN s ELSE SetIdle([s EXCEPT !.watch = Armed], a.positive))
  /\ UNCHANGED <<said, saverKnown, connected, away>>

(***************************************************************************)
(* The screen saver.                                                       *)
(***************************************************************************)
\* on_bus_name_owner_changed
SaverAppears ==
  /\ ~saverKnown /\ saverKnown' = TRUE
  /\ Become(State) /\ UNCHANGED <<said, connected, away>>

\* on_screensaver_active_changed
SaverTells(on) ==
  /\ saverKnown /\ saverActive # on
  /\ Become(SetIdle(ResetWatch([State EXCEPT !.active = on]), on))
  /\ UNCHANGED <<said, saverKnown, connected, away>>

\* on_screensaver_proxy_destroy
SaverLeft(s) == ResetWatch(SetIdle([s EXCEPT !.active = FALSE], FALSE))
SaverLeaves ==
  /\ saverKnown /\ saverKnown' = FALSE
  /\ Become(SaverLeft(State))
  /\ UNCHANGED <<said, connected, away>>

(***************************************************************************)
(* Calls: gsm_presence_set_status, gsm_manager_inhibit and _uninhibit, the *)
(* settings' idle delay, and the end of a client.                          *)
(***************************************************************************)
SetStatus(x) == /\ Become([State EXCEPT !.status = x]) /\ said' = x
                /\ UNCHANGED <<saverKnown, connected, away>>

IdleDelayChanged(t) ==
  /\ t # idleTimeout
  /\ Become(ResetWatch([State EXCEPT !.timeout = t]))
  /\ UNCHANGED <<said, saverKnown, connected, away>>

Connect(c) == /\ connected[c] = "new" /\ connected' = [connected EXCEPT ![c] = "on"]
              /\ Become(State) /\ UNCHANGED <<said, saverKnown, away>>

Inhibit(c, cookie, idle) ==
  /\ connected[c] = "on" /\ \A i \in inhibitors : i.cookie # cookie    \* _generate_unique_cookie
  /\ Become(UpdateIdle([State EXCEPT
                          !.inhibitors = @ \cup {[client |-> c, cookie |-> cookie, idle |-> idle]}]))
  /\ UNCHANGED <<said, saverKnown, connected, away>>

\* gsm_manager_uninhibit: anybody's cookie
Uninhibit(i) == /\ i \in inhibitors
                /\ Become(UpdateIdle([State EXCEPT !.inhibitors = @ \ {i}]))
                /\ UNCHANGED <<said, saverKnown, connected, away>>

Disconnect(c) == /\ connected[c] = "on" /\ connected' = [connected EXCEPT ![c] = "gone"]
                 /\ Become(State) /\ UNCHANGED <<said, saverKnown, away>>

\* bus_name_owner_changed, remove_inhibitors_for_connection
Removed(s, c) ==
  UpdateIdle([s EXCEPT !.inhibitors = {i \in @ : i.client # c}])
ClientGone(c) == /\ connected[c] = "gone" /\ connected' = [connected EXCEPT ![c] = "left"]
                 /\ Become(Removed(State, c))
                 /\ UNCHANGED <<said, saverKnown, away>>

PresenceNext ==
  \/ UserIsAway \/ UserIsBack \/ AlarmNotify
  \/ SaverAppears \/ SaverLeaves \/ \E on \in BOOLEAN : SaverTells(on)
  \/ \E x \in Said : SetStatus(x)
  \/ \E t \in Timeouts : IdleDelayChanged(t)
  \/ \E c \in Clients :
       \/ Connect(c) \/ Disconnect(c) \/ ClientGone(c)
       \/ \E cookie \in Cookies, idle \in BOOLEAN : Inhibit(c, cookie, idle)
  \/ \E i \in inhibitors : Uninhibit(i)

PresenceSpec == PresenceInit /\ [][PresenceNext]_presenceVars

(***************************************************************************)
(* Properties.                                                             *)
(***************************************************************************)
\* There is a watch exactly while somebody has to be told: the screen saver is
\* off and no client that is still known inhibits idleness.
WatchedUnlessInhibited ==
  watch.on = (~saverActive /\ \A i \in inhibitors : ~i.idle)

\* Clients that have left inhibit nothing, a screen saver that has left runs no more.
LeftForgotten ==
  /\ \A i \in inhibitors : connected[i.client] \in {"on", "gone"}
  /\ saverActive => saverKnown

\* Somebody has to be told, and the one who prevents it is there.
WatchIsRight == WatchedUnlessInhibited /\ LeftForgotten

\* An alarm that was under way when a client began to inhibit does not make the
\* session idle, only the screen saver does; and whoever and whatever ends it,
\* idleness ends with the status that was set last.
InhibitedNeverIdles ==
  (\E i \in inhibitors : i.idle) /\ status # Idle /\ status' = Idle
    => saverActive' /\ ~saverActive
RestoresStatus == status = Idle /\ status' # Idle => status' = said'
IdlenessIsRight == [][InhibitedNeverIdles /\ RestoresStatus]_presenceVars
=============================================================================
