--------------------------- MODULE SessionProofs ----------------------------
(***************************************************************************)
(* Presence: whoever inhibits idleness, leaves, or is away, and whatever   *)
(* the screen saver does, the user's idleness is watched exactly while     *)
(* somebody has to be told, and idleness ends with the status that was set *)
(* last; for any number of clients and alarms.                             *)
(*                                                                         *)
(* Notify: whoever ends a message, and in whichever order, what the trays  *)
(* count, show and focus is what is open, what is open is stored, and what *)
(* was closed does not come back; for any number of windows, volumes and   *)
(* messages.                                                               *)
(*                                                                         *)
(* Launches: however many processes add launches while others query them,  *)
(* the store counts what was added.                                        *)
(***************************************************************************)
EXTENDS Presence, Notify, Launches, SequenceTheorems, FiniteSetTheorems,
        WellFoundedInduction, TLAPS

Alarms == Seq([positive: BOOLEAN, live: BOOLEAN])
Watches == [on: BOOLEAN, positive: BOOLEAN, negative: BOOLEAN]
Inhibitors == [client: Clients, cookie: Cookies, idle: BOOLEAN]

States == [status: Said \cup {Idle}, saved: Said, enabled: BOOLEAN, timeout: Timeouts,
           watch: Watches, active: BOOLEAN, inhibitors: SUBSET Inhibitors, alarms: Alarms]

\* Nobody who is known inhibits idleness.
Free(s) == \A i \in s.inhibitors : ~i.idle

\* The watch is there while the saver is off and idleness is enabled; an event that
\* still counts is one of this watch.
Watched(s) == /\ s.watch.on = (~s.active /\ s.enabled)
              /\ s.watch.positive \/ s.watch.negative => s.watch.on
              /\ ~s.watch.on => \A i \in DOMAIN s.alarms : ~s.alarms[i].live
\* The status that was set last is shown, or will be.
Keeps(s, x) == IF s.status = Idle THEN s.saved = x ELSE s.status = x

Sound(s) == Watched(s) /\ s.enabled = Free(s)

SessionInv == State \in States /\ Sound(State) /\ Keeps(State, said)
Others == /\ said \in Said /\ saverKnown \in BOOLEAN /\ away \in 0 .. MaxIdle
          /\ connected \in [Clients -> {"new", "on", "gone", "left"}]
PresenceInv == SessionInv /\ Others /\ LeftForgotten

LEMMA Fields ==
  ASSUME NEW s \in States
  PROVE  /\ s.status \in Said \cup {Idle} /\ s.saved \in Said /\ s.enabled \in BOOLEAN
         /\ s.timeout \in Timeouts /\ s.watch \in Watches /\ s.active \in BOOLEAN
         /\ s.inhibitors \subseteq Inhibitors /\ s.alarms \in Alarms
  BY DEF States

LEMMA Becoming == ASSUME NEW s \in States, Become(s) PROVE State' = s
  <1>1. s = [status |-> s.status, saved |-> s.saved, enabled |-> s.enabled,
             timeout |-> s.timeout, watch |-> s.watch, active |-> s.active,
             inhibitors |-> s.inhibitors, alarms |-> s.alarms]
        BY DEF States
  <1> QED BY <1>1 DEF Become, State

LEMMA Statuses == Idle \notin Said /\ "available" \in Said
  BY DEF Idle, Said

(***************************************************************************)
(* The functions of the presence.                                          *)
(***************************************************************************)
\* A watch that is reset agrees with what it was reset for; no old event counts.
LEMMA ResetKeeps ==
  ASSUME NEW s \in States
  PROVE  /\ ResetWatch(s) \in States /\ Watched(ResetWatch(s))
         /\ ResetWatch(s).status = s.status /\ ResetWatch(s).saved = s.saved
         /\ ResetWatch(s).enabled = s.enabled /\ ResetWatch(s).active = s.active
         /\ ResetWatch(s).inhibitors = s.inhibitors
  <1> DEFINE dead == [i \in DOMAIN s.alarms |-> [s.alarms[i] EXCEPT !.live = FALSE]]
             w    == IF ~s.active /\ s.enabled THEN Armed ELSE NoWatch
  <1>1. s.alarms \in Alarms /\ s.active \in BOOLEAN /\ s.enabled \in BOOLEAN
        BY Fields
  <1>2. DOMAIN s.alarms = 1 .. Len(s.alarms) /\ Len(s.alarms) \in Nat
        BY <1>1, LenProperties DEF Alarms
  <1>3. \A i \in DOMAIN s.alarms : s.alarms[i] \in [positive: BOOLEAN, live: BOOLEAN]
        BY <1>1, ElementOfSeq, <1>2 DEF Alarms
  <1>4. dead \in [1 .. Len(s.alarms) -> [positive: BOOLEAN, live: BOOLEAN]]
        BY <1>2, <1>3
  <1>5. dead \in Alarms /\ DOMAIN dead = DOMAIN s.alarms
        BY <1>2, <1>4, SeqDef DEF Alarms
  <1>6. \A i \in DOMAIN dead : ~dead[i].live
        BY <1>3
  <1>7. /\ w \in Watches /\ w.on = (~s.active /\ s.enabled)
        /\ w.positive \/ w.negative => w.on
        BY <1>1 DEF Watches, Armed, NoWatch
  <1>8. ResetWatch(s) = [s EXCEPT !.alarms = dead, !.watch = w]
        BY DEF ResetWatch
  <1> HIDE DEF dead, w
  <1>9. /\ ResetWatch(s) \in States /\ ResetWatch(s).alarms = dead /\ ResetWatch(s).watch = w
        /\ ResetWatch(s).status = s.status /\ ResetWatch(s).saved = s.saved
        /\ ResetWatch(s).enabled = s.enabled /\ ResetWatch(s).active = s.active
        /\ ResetWatch(s).inhibitors = s.inhibitors
        BY <1>5, <1>7, <1>8 DEF States
  <1> QED BY <1>6, <1>7, <1>9 DEF Watched

LEMMA UpdateKeeps ==
  ASSUME NEW s \in States, Watched(s)
  PROVE  /\ UpdateIdle(s) \in States /\ Sound(UpdateIdle(s))
         /\ UpdateIdle(s).status = s.status /\ UpdateIdle(s).saved = s.saved
         /\ UpdateIdle(s).active = s.active /\ UpdateIdle(s).inhibitors = s.inhibitors
  <1> DEFINE t == [s EXCEPT !.enabled = Free(s)]
  <1>1. UpdateIdle(s) = IF s.enabled = Free(s) THEN s ELSE ResetWatch(t)
        BY DEF UpdateIdle, Free
  <1>2. Free(s) \in BOOLEAN
        BY DEF Free
  <1>3. /\ t \in States /\ t.enabled = Free(s) /\ t.status = s.status /\ t.saved = s.saved
        /\ t.active = s.active /\ t.inhibitors = s.inhibitors
        BY <1>2 DEF States
  <1> HIDE DEF t
  <1>4. CASE s.enabled = Free(s)
        BY <1>1, <1>4 DEF Sound
  <1>5. CASE s.enabled # Free(s)
    <2>1. UpdateIdle(s) = ResetWatch(t)
          BY <1>1, <1>5
    <2> QED BY <1>3, <2>1, ResetKeeps DEF Sound, Free
  <1> QED BY <1>4, <1>5

LEMMA SetIdleKeeps ==
  ASSUME NEW s \in States, NEW b \in BOOLEAN, NEW x, Keeps(s, x)
  PROVE  /\ SetIdle(s, b) \in States /\ Keeps(SetIdle(s, b), x)
         /\ SetIdle(s, b).enabled = s.enabled /\ SetIdle(s, b).active = s.active
         /\ SetIdle(s, b).inhibitors = s.inhibitors /\ SetIdle(s, b).watch = s.watch
         /\ SetIdle(s, b).alarms = s.alarms
         /\ SetIdle(s, b).status = Idle <=> b
  <1>1. CASE b = (s.status = Idle)
        BY <1>1 DEF SetIdle
  <1>2. CASE b # (s.status = Idle) /\ b
    <2>1. SetIdle(s, b) = [s EXCEPT !.saved = s.status, !.status = Idle]
          BY <1>2 DEF SetIdle
    <2>2. s.status \in Said /\ s.status = x
          BY <1>2, Fields DEF Keeps
    <2> QED BY <1>2, <2>1, <2>2 DEF States, Keeps
  <1>3. CASE b # (s.status = Idle) /\ ~b
    <2>1. SetIdle(s, b) = [s EXCEPT !.status = s.saved, !.saved = "available"]
          BY <1>3 DEF SetIdle
    <2>2. s.saved \in Said /\ s.saved # Idle /\ s.saved = x
          BY <1>3, Fields, Statuses DEF Keeps
    <2> QED BY <1>3, <2>1, <2>2, Statuses DEF States, Keeps
  <1> QED BY <1>1, <1>2, <1>3

(***************************************************************************)
(* Steps.                                                                  *)
(***************************************************************************)
\* The session after a step that leaves it in a good state s.
LEMMA Session ==
  ASSUME NEW s \in States, Sound(s), Keeps(s, said'), Become(s)
  PROVE  /\ SessionInv' /\ status' = s.status /\ saverActive' = s.active
         /\ inhibitors' = s.inhibitors
  <1>1. State' = s
        BY Becoming
  <1> QED BY <1>1 DEF SessionInv, Become

LEMMA Now ==
  ASSUME SessionInv
  PROVE  /\ State \in States /\ Sound(State) /\ Keeps(State, said)
         /\ State.status = status /\ State.active = saverActive /\ State.enabled = idleEnabled
         /\ State.inhibitors = inhibitors /\ State.alarms = alarms /\ State.watch = watch
         /\ State.timeout = idleTimeout /\ State.saved = saved
  BY DEF SessionInv, State

LEMMA SaverAppearsStep ==
  ASSUME PresenceInv, SaverAppears PROVE PresenceInv' /\ InhibitedNeverIdles
  <1>1. SessionInv' /\ status' = status /\ saverActive' = saverActive /\ inhibitors' = inhibitors
        BY Session, Now DEF PresenceInv, SaverAppears
  <1> QED BY <1>1 DEF PresenceInv, Others, LeftForgotten, SaverAppears, InhibitedNeverIdles

LEMMA SaverTellsStep ==
  ASSUME PresenceInv, NEW on \in BOOLEAN, SaverTells(on)
  PROVE  PresenceInv' /\ InhibitedNeverIdles
  <1> DEFINE s == [State EXCEPT !.active = on]
             t == ResetWatch(s)
  <1>1. SessionInv
        BY DEF PresenceInv
  <1>2. /\ s \in States /\ s.enabled = State.enabled /\ s.inhibitors = State.inhibitors
        /\ s.active = on /\ s.status = State.status /\ s.saved = State.saved
        BY <1>1, Now DEF States
  <1>3. Become(SetIdle(t, on)) /\ UNCHANGED <<said, saverKnown, connected, away>>
        /\ saverKnown /\ saverActive # on
        BY DEF SaverTells
  <1> HIDE DEF s
  <1>4. /\ t \in States /\ Watched(t) /\ t.status = s.status /\ t.saved = s.saved
        /\ t.enabled = s.enabled /\ t.active = s.active /\ t.inhibitors = s.inhibitors
        BY <1>2, ResetKeeps
  <1>5. Keeps(t, said)
        BY <1>1, <1>2, <1>4, Now DEF Keeps
  <1> HIDE DEF t
  <1>6. Sound(t)
        BY <1>1, <1>2, <1>4, Now DEF Sound, Free
  <1> DEFINE u == SetIdle(t, on)
  <1>7. /\ u \in States /\ Keeps(u, said) /\ u.enabled = t.enabled /\ u.active = t.active
        /\ u.inhibitors = t.inhibitors /\ u.watch = t.watch /\ u.alarms = t.alarms
        /\ u.status = Idle <=> on
        BY <1>4, <1>5, SetIdleKeeps
  <1>8. Become(u)
        BY <1>3
  <1> HIDE DEF u
  <1>9. Sound(u)
        BY <1>6, <1>7 DEF Sound, Free, Watched
  <1>10. SessionInv' /\ status' = u.status /\ saverActive' = on /\ inhibitors' = inhibitors
        BY <1>1, <1>2, <1>3, <1>4, <1>7, <1>8, <1>9, Now, Session
  <1> QED BY <1>3, <1>7, <1>10 DEF PresenceInv, Others, LeftForgotten, InhibitedNeverIdles

LEMMA SaverLeavesStep ==
  ASSUME PresenceInv, SaverLeaves PROVE PresenceInv' /\ InhibitedNeverIdles
  <1> DEFINE s == [State EXCEPT !.active = FALSE]
             t == SetIdle(s, FALSE)
             u == ResetWatch(t)
  <1>1. SessionInv
        BY DEF PresenceInv
  <1>2. /\ s \in States /\ s.enabled = State.enabled /\ s.inhibitors = State.inhibitors
        /\ s.active = FALSE /\ s.status = State.status /\ s.saved = State.saved
        BY <1>1, Now DEF States
  <1>3. Become(u) /\ UNCHANGED <<said, connected, away>> /\ saverKnown' = FALSE
        BY DEF SaverLeaves, SaverLeft
  <1> HIDE DEF s
  <1>4. Keeps(s, said)
        BY <1>1, <1>2, Now DEF Keeps
  <1>5. /\ t \in States /\ Keeps(t, said) /\ t.enabled = s.enabled /\ t.active = s.active
        /\ t.inhibitors = s.inhibitors /\ t.status # Idle
        BY <1>2, <1>4, SetIdleKeeps
  <1> HIDE DEF t
  <1>6. /\ u \in States /\ Watched(u) /\ u.status = t.status /\ u.saved = t.saved
        /\ u.enabled = t.enabled /\ u.active = t.active /\ u.inhibitors = t.inhibitors
        BY <1>5, ResetKeeps
  <1> HIDE DEF u
  <1>7. Sound(u) /\ Keeps(u, said)
        BY <1>1, <1>2, <1>5, <1>6, Now DEF Sound, Free, Keeps
  <1>8. SessionInv' /\ status' # Idle /\ saverActive' = FALSE /\ inhibitors' = inhibitors
        BY <1>1, <1>2, <1>3, <1>5, <1>6, <1>7, Now, Session
  <1> QED BY <1>3, <1>8 DEF PresenceInv, Others, LeftForgotten, InhibitedNeverIdles

LEMMA SetStatusStep ==
  ASSUME PresenceInv, NEW x \in Said, SetStatus(x) PROVE PresenceInv' /\ InhibitedNeverIdles
  <1> DEFINE s == [State EXCEPT !.status = x]
  <1>1. SessionInv
        BY DEF PresenceInv
  <1>2. /\ s \in States /\ s.enabled = State.enabled /\ s.inhibitors = State.inhibitors
        /\ s.active = State.active /\ s.status = x /\ s.watch = State.watch
        /\ s.alarms = State.alarms
        BY <1>1, Now DEF States
  <1>3. Become(s) /\ said' = x /\ UNCHANGED <<saverKnown, connected, away>>
        BY DEF SetStatus
  <1> HIDE DEF s
  <1>4. Sound(s) /\ Keeps(s, x)
        BY <1>1, <1>2, Now, Statuses DEF Sound, Free, Watched, Keeps
  <1>5. SessionInv' /\ status' = x /\ saverActive' = saverActive /\ inhibitors' = inhibitors
        BY <1>1, <1>2, <1>3, <1>4, Now, Session
  <1> QED BY <1>3, <1>5, Statuses DEF PresenceInv, Others, LeftForgotten, InhibitedNeverIdles

LEMMA IdleDelayStep ==
  ASSUME PresenceInv, NEW d \in Timeouts, IdleDelayChanged(d)
  PROVE  PresenceInv' /\ InhibitedNeverIdles
  <1> DEFINE s == [State EXCEPT !.timeout = d]
             t == ResetWatch(s)
  <1>1. SessionInv
        BY DEF PresenceInv
  <1>2. /\ s \in States /\ s.enabled = State.enabled /\ s.inhibitors = State.inhibitors
        /\ s.active = State.active /\ s.status = State.status /\ s.saved = State.saved
        BY <1>1, Now DEF States
  <1>3. Become(t) /\ UNCHANGED <<said, saverKnown, connected, away>>
        BY DEF IdleDelayChanged
  <1> HIDE DEF s
  <1>4. /\ t \in States /\ Watched(t) /\ t.status = s.status /\ t.saved = s.saved
        /\ t.enabled = s.enabled /\ t.active = s.active /\ t.inhibitors = s.inhibitors
        BY <1>2, ResetKeeps
  <1> HIDE DEF t
  <1>5. Sound(t) /\ Keeps(t, said)
        BY <1>1, <1>2, <1>4, Now DEF Sound, Free, Keeps
  <1>6. SessionInv' /\ status' = status /\ saverActive' = saverActive
        /\ inhibitors' = inhibitors
        BY <1>1, <1>2, <1>3, <1>4, <1>5, Now, Session
  <1> QED BY <1>3, <1>6 DEF PresenceInv, Others, LeftForgotten, InhibitedNeverIdles

\* The end of a change of the inhibitors: the store becomes new, and update_idle.
LEMMA Inhibiting ==
  ASSUME PresenceInv, NEW new \in SUBSET Inhibitors, said' = said,
         Become(UpdateIdle([State EXCEPT !.inhibitors = new]))
  PROVE  SessionInv' /\ inhibitors' = new /\ status' = status /\ saverActive' = saverActive
  <1> DEFINE s == [State EXCEPT !.inhibitors = new]
             t == UpdateIdle(s)
  <1>1. SessionInv
        BY DEF PresenceInv
  <1>2. /\ s \in States /\ s.enabled = State.enabled /\ s.inhibitors = new
        /\ s.active = State.active /\ s.status = State.status /\ s.saved = State.saved
        /\ s.watch = State.watch /\ s.alarms = State.alarms
        BY <1>1, Now DEF States
  <1>3. Become(t)
        OBVIOUS
  <1> HIDE DEF s
  <1>4. Watched(s) /\ Keeps(s, said)
        BY <1>1, <1>2, Now DEF Sound, Watched, Keeps
  <1>5. /\ t \in States /\ Sound(t) /\ t.status = s.status /\ t.saved = s.saved
        /\ t.active = s.active /\ t.inhibitors = s.inhibitors
        BY <1>2, <1>4, UpdateKeeps
  <1> HIDE DEF t
  <1>6. Keeps(t, said)
        BY <1>4, <1>5 DEF Keeps
  <1> QED BY <1>1, <1>2, <1>3, <1>5, <1>6, Now, Session

LEMMA InhibitStep ==
  ASSUME PresenceInv, NEW c \in Clients, NEW cookie \in Cookies, NEW idle \in BOOLEAN,
         Inhibit(c, cookie, idle)
  PROVE  PresenceInv' /\ InhibitedNeverIdles
  <1> DEFINE i   == [client |-> c, cookie |-> cookie, idle |-> idle]
             new == inhibitors \cup {i}
  <1>1. i \in Inhibitors /\ i.client = c
        BY DEF Inhibitors
  <1>2. inhibitors \subseteq Inhibitors
        BY Now, Fields DEF PresenceInv
  <1>3. [State EXCEPT !.inhibitors = @ \cup {i}] = [State EXCEPT !.inhibitors = new]
        BY DEF State
  <1>4. /\ Become(UpdateIdle([State EXCEPT !.inhibitors = new]))
        /\ UNCHANGED <<said, saverKnown, connected, away>> /\ connected[c] = "on"
        BY <1>3 DEF Inhibit
  <1> HIDE DEF i
  <1>5. SessionInv' /\ inhibitors' = new /\ status' = status /\ saverActive' = saverActive
        BY <1>1, <1>2, <1>4, Inhibiting
  <1> QED BY <1>1, <1>4, <1>5 DEF PresenceInv, Others, LeftForgotten, InhibitedNeverIdles

LEMMA UninhibitStep ==
  ASSUME PresenceInv, NEW i \in inhibitors, Uninhibit(i)
  PROVE  PresenceInv' /\ InhibitedNeverIdles
  <1> DEFINE new == inhibitors \ {i}
  <1>1. inhibitors \subseteq Inhibitors
        BY Now, Fields DEF PresenceInv
  <1>2. [State EXCEPT !.inhibitors = @ \ {i}] = [State EXCEPT !.inhibitors = new]
        BY DEF State
  <1>3. /\ Become(UpdateIdle([State EXCEPT !.inhibitors = new]))
        /\ UNCHANGED <<said, saverKnown, connected, away>>
        BY <1>2 DEF Uninhibit
  <1>4. SessionInv' /\ inhibitors' = new /\ status' = status /\ saverActive' = saverActive
        BY <1>1, <1>3, Inhibiting
  <1> QED BY <1>3, <1>4 DEF PresenceInv, Others, LeftForgotten, InhibitedNeverIdles

LEMMA ClientGoneStep ==
  ASSUME PresenceInv, NEW c \in Clients, ClientGone(c) PROVE PresenceInv' /\ InhibitedNeverIdles
  <1> DEFINE new == {i \in inhibitors : i.client # c}
  <1>1. inhibitors \subseteq Inhibitors
        BY Now, Fields DEF PresenceInv
  <1>2. [State EXCEPT !.inhibitors = {i \in @ : i.client # c}]
          = [State EXCEPT !.inhibitors = new]
        BY DEF State
  <1>3. /\ Become(UpdateIdle([State EXCEPT !.inhibitors = new]))
        /\ UNCHANGED <<said, saverKnown, away>>
        /\ connected' = [connected EXCEPT ![c] = "left"]
        BY <1>2 DEF ClientGone, Removed
  <1>4. SessionInv' /\ inhibitors' = new /\ status' = status /\ saverActive' = saverActive
        BY <1>1, <1>3, Inhibiting
  <1>5. LeftForgotten'
    <2>1. \A i \in inhibitors' : connected'[i.client] = connected[i.client]
          BY <1>1, <1>3, <1>4 DEF PresenceInv, Others
    <2> QED BY <2>1, <1>3, <1>4 DEF PresenceInv, LeftForgotten
  <1>6. Others'
        BY <1>3 DEF PresenceInv, Others
  <1> QED BY <1>4, <1>5, <1>6 DEF PresenceInv, InhibitedNeverIdles

LEMMA ConnectionStep ==
  ASSUME PresenceInv, NEW c \in Clients, Connect(c) \/ Disconnect(c)
  PROVE  PresenceInv' /\ InhibitedNeverIdles
  <1>1. /\ Become(State) /\ UNCHANGED <<said, saverKnown, away>>
        /\ \E x \in {"on", "gone"} : connected' = [connected EXCEPT ![c] = x]
        BY DEF Connect, Disconnect
  <1>2. SessionInv' /\ status' = status /\ saverActive' = saverActive /\ inhibitors' = inhibitors
        BY <1>1, Session, Now DEF PresenceInv
  <1>3. inhibitors \subseteq Inhibitors
        BY Now, Fields DEF PresenceInv
  <1>4. LeftForgotten'
        BY <1>1, <1>2, <1>3 DEF PresenceInv, Others, LeftForgotten, Inhibitors
  <1>5. Others'
        BY <1>1 DEF PresenceInv, Others
  <1> QED BY <1>2, <1>4, <1>5 DEF PresenceInv, InhibitedNeverIdles

(***************************************************************************)
(* The idle counter and its alarms.                                        *)
(***************************************************************************)
\* An event is dropped or added; the watch stays, or an alarm of it has gone off.
LEMMA AlarmsStep ==
  ASSUME PresenceInv, UNCHANGED <<status, saved, said, idleEnabled, idleTimeout, saverKnown,
                                  saverActive, inhibitors, connected>>,
         away' \in 0 .. MaxIdle, alarms' \in Alarms, watch' \in Watches, watch'.on = watch.on,
         watch'.positive \/ watch'.negative => watch.positive \/ watch.negative,
         ~watch.on => \A i \in DOMAIN alarms' : ~alarms'[i].live
  PROVE  PresenceInv' /\ InhibitedNeverIdles
  <1>1. /\ State \in States /\ Sound(State) /\ Keeps(State, said)
        /\ State.status = status /\ State.active = saverActive /\ State.enabled = idleEnabled
        /\ State.inhibitors = inhibitors /\ State.alarms = alarms /\ State.watch = watch
        /\ State.timeout = idleTimeout /\ State.saved = saved
        BY Now DEF PresenceInv
  <1>2. /\ status \in Said \cup {Idle} /\ saved \in Said /\ idleEnabled \in BOOLEAN
        /\ idleTimeout \in Timeouts /\ saverActive \in BOOLEAN /\ inhibitors \subseteq Inhibitors
        BY <1>1, Fields
  <1>3. /\ State'.status = status /\ State'.active = saverActive /\ State'.enabled = idleEnabled
        /\ State'.inhibitors = inhibitors /\ State'.alarms = alarms' /\ State'.watch = watch'
        /\ State'.saved = saved
        BY DEF State
  <1>4. State' \in States
        BY <1>2 DEF State, States
  <1>5. Sound(State') /\ Keeps(State', said)
        BY <1>1, <1>3 DEF Sound, Watched, Free, Keeps
  <1> QED BY <1>4, <1>5 DEF PresenceInv, SessionInv, Others, LeftForgotten, InhibitedNeverIdles

\* An alarm of an armed watch goes off.
LEMMA GoesOff ==
  ASSUME PresenceInv, NEW b \in BOOLEAN, watch.positive \/ watch.negative
  PROVE  LET new == Append(alarms, [positive |-> b, live |-> TRUE])
         IN new \in Alarms /\ watch.on
  <1>1. State \in States /\ Sound(State) /\ State.alarms = alarms /\ State.watch = watch
        BY Now DEF PresenceInv
  <1>2. alarms \in Alarms /\ watch.on
        BY <1>1, Fields DEF Sound, Watched
  <1> QED BY <1>2, AppendProperties DEF Alarms

LEMMA Watching == ASSUME PresenceInv
                  PROVE  /\ watch \in Watches /\ alarms \in Alarms /\ away \in 0 .. MaxIdle
                         /\ ~watch.on => \A i \in DOMAIN alarms : ~alarms[i].live
  <1>1. State \in States /\ Sound(State) /\ State.alarms = alarms /\ State.watch = watch
        BY Now DEF PresenceInv
  <1> QED BY <1>1, Fields DEF PresenceInv, Others, Sound, Watched

LEMMA AwayStep == ASSUME PresenceInv, UserIsAway PROVE PresenceInv' /\ InhibitedNeverIdles
  <1>1. /\ away' \in 0 .. MaxIdle
        /\ UNCHANGED <<status, saved, said, idleEnabled, idleTimeout, saverKnown,
                       saverActive, inhibitors, connected>>
        BY Watching, PresenceAssumption DEF UserIsAway
  <1>2. CASE UNCHANGED <<alarms, watch>>
        BY <1>1, <1>2, Watching, AlarmsStep
  <1>3. CASE /\ watch.positive
             /\ alarms' = Append(alarms, [positive |-> TRUE, live |-> TRUE])
             /\ watch' = [watch EXCEPT !.positive = FALSE]
    <2>1. alarms' \in Alarms /\ watch.on
          BY <1>3, GoesOff
    <2>2. /\ watch' \in Watches /\ watch'.on = watch.on
          /\ watch'.positive \/ watch'.negative => watch.positive \/ watch.negative
          BY <1>3, Watching DEF Watches
    <2> QED BY <1>1, <2>1, <2>2, AlarmsStep
  <1> QED BY <1>2, <1>3 DEF UserIsAway

LEMMA BackStep == ASSUME PresenceInv, UserIsBack PROVE PresenceInv' /\ InhibitedNeverIdles
  <1>1. /\ away' \in 0 .. MaxIdle
        /\ UNCHANGED <<status, saved, said, idleEnabled, idleTimeout, saverKnown,
                       saverActive, inhibitors, connected>>
        BY PresenceAssumption DEF UserIsBack
  <1>2. CASE UNCHANGED <<alarms, watch>>
        BY <1>1, <1>2, Watching, AlarmsStep
  <1>3. CASE /\ watch.negative
             /\ alarms' = Append(alarms, [positive |-> FALSE, live |-> TRUE])
             /\ watch' = [watch EXCEPT !.negative = FALSE]
    <2>1. alarms' \in Alarms /\ watch.on
          BY <1>3, GoesOff
    <2>2. /\ watch' \in Watches /\ watch'.on = watch.on
          /\ watch'.positive \/ watch'.negative => watch.positive \/ watch.negative
          BY <1>3, Watching DEF Watches
    <2> QED BY <1>1, <2>1, <2>2, AlarmsStep
  <1> QED BY <1>2, <1>3 DEF UserIsBack

LEMMA NotifyStep == ASSUME PresenceInv, AlarmNotify PROVE PresenceInv' /\ InhibitedNeverIdles
  <1> DEFINE a == Head(alarms)
             rest == Tail(alarms)
             s == [State EXCEPT !.alarms = rest]
             t == [s EXCEPT !.watch = Armed]
  <1>1. SessionInv /\ watch \in Watches /\ alarms \in Alarms /\ alarms # <<>>
        BY Watching DEF PresenceInv, AlarmNotify
  <1>2. /\ a \in [positive: BOOLEAN, live: BOOLEAN] /\ rest \in Alarms
        /\ \A i \in DOMAIN rest : i + 1 \in DOMAIN alarms /\ rest[i] = alarms[i + 1]
        /\ 1 \in DOMAIN alarms /\ a = alarms[1]
    <2>1. /\ a \in [positive: BOOLEAN, live: BOOLEAN] /\ rest \in Alarms
          /\ Len(rest) = Len(alarms) - 1
          /\ \A i \in 1 .. Len(rest) : rest[i] = alarms[i + 1]
          BY <1>1, HeadTailProperties DEF Alarms
    <2>2. /\ DOMAIN rest = 1 .. Len(rest) /\ Len(rest) \in Nat
          /\ DOMAIN alarms = 1 .. Len(alarms) /\ Len(alarms) \in Nat
          BY <1>1, <2>1, LenProperties DEF Alarms
    <2>3. a = alarms[1]
          BY <1>1 DEF Alarms
    <2> QED BY <2>1, <2>2, <2>3
  <1>3. [State EXCEPT !.alarms = Tail(@)] = s
        BY DEF State
  <1>4. /\ Become(IF ~a.live THEN s ELSE SetIdle(t, a.positive))
        /\ UNCHANGED <<said, saverKnown, connected, away>>
        BY <1>3 DEF AlarmNotify
  <1> HIDE DEF a, rest
  <1>5. /\ s \in States /\ s.enabled = State.enabled /\ s.inhibitors = State.inhibitors
        /\ s.active = State.active /\ s.status = State.status /\ s.saved = State.saved
        /\ s.watch = State.watch /\ s.alarms = rest
        BY <1>1, <1>2, Now DEF States
  <1>6. Armed \in Watches /\ Armed.on
        BY DEF Armed, Watches
  <1>7. /\ t \in States /\ t.enabled = State.enabled /\ t.inhibitors = State.inhibitors
        /\ t.active = State.active /\ t.status = State.status /\ t.saved = State.saved
        /\ t.watch = Armed /\ t.alarms = rest
        BY <1>1, <1>2, <1>6, Now DEF States
  <1> HIDE DEF s, t
  <1>8. ~watch.on => ~a.live /\ \A i \in DOMAIN rest : ~rest[i].live
        BY <1>2, Watching
  <1>9. CASE ~a.live
    <2>1. Become(s)
          BY <1>4, <1>9
    <2>2. Sound(s) /\ Keeps(s, said)
          BY <1>1, <1>5, <1>8, Now DEF Sound, Free, Watched, Keeps
    <2>3. SessionInv' /\ status' = status /\ saverActive' = saverActive
          /\ inhibitors' = inhibitors
          BY <1>1, <1>4, <1>5, <2>1, <2>2, Now, Session
    <2> QED BY <1>4, <2>3 DEF PresenceInv, Others, LeftForgotten, InhibitedNeverIdles
  <1>10. CASE a.live
    <2> DEFINE u == SetIdle(t, a.positive)
    <2>1. watch.on /\ a.positive \in BOOLEAN
          BY <1>2, <1>8, <1>10
    <2>2. Sound(t) /\ Keeps(t, said)
          BY <1>1, <1>6, <1>7, <2>1, Now DEF Sound, Free, Watched, Keeps
    <2>3. /\ u \in States /\ Keeps(u, said) /\ u.enabled = t.enabled /\ u.active = t.active
          /\ u.inhibitors = t.inhibitors /\ u.watch = t.watch /\ u.alarms = t.alarms
          BY <1>7, <2>1, <2>2, SetIdleKeeps
    <2>4. Become(u)
          BY <1>4, <1>10
    <2> HIDE DEF u
    <2>5. Sound(u)
          BY <2>2, <2>3 DEF Sound, Free, Watched
    <2>6. SessionInv' /\ saverActive' = saverActive /\ inhibitors' = inhibitors
          BY <1>1, <1>4, <1>7, <2>3, <2>4, <2>5, Now, Session
    <2>7. ~ \E i \in inhibitors : i.idle
          BY <1>1, <2>1, Now DEF Sound, Free, Watched
    <2> QED BY <1>4, <2>6, <2>7 DEF PresenceInv, Others, LeftForgotten, InhibitedNeverIdles
  <1> QED BY <1>9, <1>10

(***************************************************************************)
(* The theorems.                                                           *)
(***************************************************************************)
LEMMA PresenceStarts == ASSUME PresenceInit PROVE PresenceInv
  <1>1. idleTimeout \in Timeouts
        BY PresenceAssumption DEF PresenceInit
  <1>2. alarms \in Alarms /\ alarms = <<>> /\ DOMAIN alarms = {}
    <2>1. <<>> \in Alarms
          BY EmptySeq DEF Alarms
    <2> QED BY <2>1 DEF PresenceInit
  <1>3. watch = Armed /\ Armed \in Watches /\ Armed.on
        BY DEF PresenceInit, Armed, Watches
  <1>4. State \in States
        BY <1>1, <1>2, <1>3, Statuses DEF PresenceInit, State, States
  <1>5. /\ State.watch = watch /\ State.active = FALSE /\ State.enabled = TRUE
        /\ State.inhibitors = {} /\ State.alarms = alarms
        /\ State.status = "available" /\ said = "available"
        BY DEF PresenceInit, State
  <1>6. Sound(State) /\ Keeps(State, said)
        BY <1>2, <1>3, <1>5, Statuses DEF Sound, Watched, Free, Keeps
  <1>7. 0 \in 0 .. MaxIdle
        BY PresenceAssumption
  <1>8. Others /\ LeftForgotten
        BY <1>7, Statuses DEF PresenceInit, Others, LeftForgotten
  <1> QED BY <1>4, <1>6, <1>8 DEF PresenceInv, SessionInv

LEMMA PresenceStep ==
  ASSUME PresenceInv, [PresenceNext]_presenceVars PROVE PresenceInv' /\ InhibitedNeverIdles
  <1>1. CASE UNCHANGED presenceVars
    <2>1. State' = State /\ UNCHANGED <<said, saverKnown, connected, away, inhibitors, status,
                                        saverActive>>
          BY <1>1 DEF presenceVars, State
    <2> QED BY <2>1 DEF PresenceInv, SessionInv, Others, LeftForgotten, InhibitedNeverIdles
  <1>2. CASE PresenceNext
        BY <1>2, AwayStep, BackStep, NotifyStep, SaverAppearsStep, SaverLeavesStep,
           SaverTellsStep, SetStatusStep, IdleDelayStep, ConnectionStep, ClientGoneStep,
           InhibitStep, UninhibitStep DEF PresenceNext
  <1> QED BY <1>1, <1>2

LEMMA PresenceSafety == PresenceSpec => []PresenceInv
  BY PresenceStarts, PresenceStep, PTL DEF PresenceSpec

\* Whatever happens to the session, its presence is of its type.
THEOREM PresenceTypeCorrect == PresenceSpec => []PresenceTypeOK
  <1>1. ASSUME PresenceInv PROVE PresenceTypeOK
    <2>1. /\ State \in States /\ State.status = status /\ State.active = saverActive
          /\ State.enabled = idleEnabled /\ State.inhibitors = inhibitors
          /\ State.alarms = alarms /\ State.watch = watch /\ State.timeout = idleTimeout
          /\ State.saved = saved
          BY <1>1, Now DEF PresenceInv
    <2>2. /\ status \in Said \cup {Idle} /\ saved \in Said /\ idleEnabled \in BOOLEAN
          /\ idleTimeout \in Timeouts /\ watch \in Watches /\ saverActive \in BOOLEAN
          /\ inhibitors \subseteq Inhibitors /\ alarms \in Alarms
          BY <2>1, Fields
    <2> QED BY <1>1, <2>2 DEF PresenceInv, Others, PresenceTypeOK, Watches, Inhibitors, Alarms
  <1> QED BY <1>1, PresenceSafety, PTL

\* The idle counter is watched exactly while the screen saver is off and no client
\* inhibits; clients that have left inhibit nothing (update_idle, reset_idle_watch,
\* remove_inhibitors_for_connection).
THEOREM PresenceWatchIsRight == PresenceSpec => []WatchIsRight
  <1>1. ASSUME PresenceInv PROVE WatchIsRight
        BY <1>1, Now DEF PresenceInv, WatchIsRight, WatchedUnlessInhibited, Sound, Free, Watched
  <1> QED BY <1>1, PresenceSafety, PTL

\* While a client inhibits only the screen saver makes the session idle, and idleness
\* ends with the status that was set last (set_session_idle, on_idle_timeout).
THEOREM PresenceIdlenessIsRight == PresenceSpec => IdlenessIsRight
  <1>1. ASSUME PresenceInv' PROVE RestoresStatus
    <2>1. Keeps(State', said') /\ State'.status = status'
          BY <1>1 DEF PresenceInv, SessionInv, State
    <2> QED BY <2>1 DEF Keeps, RestoresStatus
  <1>2. ASSUME PresenceInv, [PresenceNext]_presenceVars
        PROVE  InhibitedNeverIdles /\ RestoresStatus
        BY <1>1, <1>2, PresenceStep
  <1>3. ASSUME PresenceInv, [PresenceNext]_presenceVars
        PROVE  [InhibitedNeverIdles /\ RestoresStatus]_presenceVars
        BY <1>2, <1>3
  <1> QED BY <1>3, PresenceSafety, PTL DEF PresenceSpec, IdlenessIsRight
-----------------------------------------------------------------------------
(***************************************************************************)
(* Notifications.  The invariant says of the hidden structure of the trays *)
(* what their handlers rely on; every handler is a function from a state   *)
(* in which it holds (Right) to another one, with no notifier or stored    *)
(* message that was not there before (Fewer), whatever handlers it calls.  *)
(***************************************************************************)
\* Only a window's application has a source with a window.
Sources == {s \in [Apps -> {"none", "bare", "window"}] : \A a \in Apps : s[a] = "window" => a \in Windows}

NtfStates == [store : [Ids -> Messages \cup {Nobody}], ntfs : Seq(Notifiers),
              tray : [Trays -> TrayStates], focused : BOOLEAN,
              source : Sources]

OpenIn(S, t) == {k \in NtfKeys : IsOpen(S, t, k)}

Single(q) == \A i, j \in DOMAIN q : q[i].tray = q[j].tray /\ q[i].key = q[j].key => i = j
CountedOn(S, t) ==
  LET T == S.tray[t]
  IN /\ IsFiniteSet(OpenIn(S, t)) /\ T.count <= Cardinality(OpenIn(S, t))
     /\ ~T.swept => /\ T.count = Cardinality(OpenIn(S, t))
                    /\ T.count > 0 => T.shown
     /\ T.active # Nobody => Has(S, t, T.active)
     /\ T.count > 0 <=> T.active # Nobody
Counted(S) == \A t \in Trays : CountedOn(S, t)
Keyed(S) == S.tray["urgent"].count > 0 => S.focused
Lasts(m) == m # Nobody /\ ~m.urgent => m.timeout > 0
\* mv: moved, top: nextId
InStore(S, mv, top) ==
  /\ \A id \in Ids : Lasts(S.store[id]) /\ (id > top => S.store[id] = Nobody)
  /\ \A i \in DOMAIN S.ntfs :
       LET n == S.ntfs[i]
       IN n.key \in Ids =>
            /\ n.key <= top
            /\ n.key \notin mv =>
                 /\ ~n.closed => S.store[n.key] # Nobody
                 /\ S.store[n.key] # Nobody => (n.tray = "urgent" <=> S.store[n.key].urgent)
TicksOne(n) ==
  /\ n.closed => ~n.hover /\ n.timer = "none"
  /\ n.tray = "normal" /\ n.key \in Ids =>
       n.limit > 0 /\ (n.closed \/ n.hover \/ n.timer \in {"running", "never"})
Ticks(S) == \A i \in DOMAIN S.ntfs : TicksOne(S.ntfs[i])
Right(S, mv, top) == Single(S.ntfs) /\ Counted(S) /\ Keyed(S) /\ InStore(S, mv, top) /\ Ticks(S)
Rest == /\ nextId \in 0..calls /\ calls \in 0..MaxCalls /\ asks \in Seq(Ids)
        /\ managed \subseteq Windows /\ focus \in Windows \cup {Nobody}
        /\ mounted \subseteq Volumes /\ moved \subseteq Ids
        /\ \A u \in Trays, m \in Volumes : Has(NtfNow, u, m) => m \in mounted
NtfInv == NtfNow \in NtfStates /\ Right(NtfNow, moved, nextId) /\ Rest

-----------------------------------------------------------------------------
LEMMA Least ==
  ASSUME NEW T \in SUBSET Nat, T # {}
  PROVE  \E m \in T : \A n \in T : m <= n
<1> DEFINE R == OpToRel(<, Nat)
<1>1. IsWellFoundedOn(R, Nat)
  BY NatLessThanWellFounded
<1>2. \E m \in T : \A n \in T : <<n, m>> \notin R
  <2> HIDE DEF R
  <2> QED BY <1>1, WFMin
<1>3. \A n, m \in Nat : <<n, m>> \in R <=> n < m
  BY DEF OpToRel
<1>4. PICK m \in T : \A n \in T : <<n, m>> \notin R
  BY <1>2
<1>5. ASSUME NEW n \in T PROVE m <= n
  <2>1. ~(n < m)
    BY <1>3, <1>4
  <2> QED BY <2>1
<1> QED BY <1>5

LEMMA Removal ==
  ASSUME NEW X, NEW q \in Seq(X), NEW i \in DOMAIN q
  PROVE  LET r == RemoveAt(q, i)
             at(j) == IF j < i THEN j ELSE j + 1
         IN /\ r \in Seq(X) /\ DOMAIN r = 1 .. Len(q) - 1
            /\ \A j \in DOMAIN r : at(j) \in DOMAIN q \ {i} /\ r[j] = q[at(j)]
<1> DEFINE a == SubSeq(q, 1, i - 1)
           b == SubSeq(q, i + 1, Len(q))
           r == RemoveAt(q, i)
<1>1. i \in 1 .. Len(q) /\ Len(q) \in Nat /\ r = a \o b
  BY DEF RemoveAt
<1>2. a \in Seq(X) /\ Len(a) = i - 1 /\ \A j \in 1 .. i - 1 : a[j] = q[j]
  <2>1. \A j \in 1 .. i - 1 : q[j] \in X
    BY <1>1, ElementOfSeq
  <2> QED BY <1>1, <2>1, SubSeqProperties
<1>3. b \in Seq(X) /\ Len(b) = Len(q) - i /\ \A j \in 1 .. Len(q) - i : b[j] = q[i + j]
  <2>1. \A j \in i + 1 .. Len(q) : q[j] \in X
    BY <1>1, ElementOfSeq
  <2> QED BY <1>1, <2>1, SubSeqProperties
<1> HIDE DEF a, b, r
<1>4. r \in Seq(X) /\ Len(r) = Len(q) - 1
      /\ \A j \in 1 .. Len(q) - 1 : r[j] = IF j <= i - 1 THEN a[j] ELSE b[j - (i - 1)]
  <2>1. Len(a) + Len(b) = Len(q) - 1
    BY <1>1, <1>2, <1>3
  <2>2. r \in Seq(X) /\ Len(r) = Len(a) + Len(b)
        /\ \A j \in 1 .. Len(a) + Len(b) : r[j] = IF j <= Len(a) THEN a[j] ELSE b[j - Len(a)]
    BY <1>1, <1>2, <1>3, ConcatProperties
  <2> QED BY <1>2, <2>1, <2>2
<1>5. ASSUME NEW j \in 1 .. Len(q) - 1
      PROVE  r[j] = q[IF j < i THEN j ELSE j + 1]
  <2>1. CASE j < i
    <3>1. j \in 1 .. i - 1 /\ j <= i - 1
      BY <1>1, <2>1
    <3>2. r[j] = a[j]
      BY <1>4, <3>1
    <3> QED BY <1>2, <2>1, <3>1, <3>2
  <2>2. CASE ~(j < i)
    <3>1. r[j] = b[j - (i - 1)]
      <4>1. ~(j <= i - 1)
        BY <1>1, <2>2
      <4> QED BY <1>4, <4>1
    <3>2. j - (i - 1) \in 1 .. Len(q) - i /\ i + (j - (i - 1)) = j + 1
      BY <1>1, <2>2
    <3> QED BY <1>3, <2>2, <3>1, <3>2
  <2> QED BY <2>1, <2>2
<1>6. DOMAIN r = 1 .. Len(q) - 1
  BY <1>1, <1>4
<1>7. \A j \in DOMAIN r : (IF j < i THEN j ELSE j + 1) \in DOMAIN q \ {i}
  BY <1>1, <1>6
<1> QED BY <1>4, <1>5, <1>6, <1>7 DEF r

\* A recursive function exists if each of its steps can be taken,
StepsIn(D, N) == [1..N -> [D -> D]]
PathsIn(D, N) == [0..N -> D]

LEMMA Runs ==
  ASSUME NEW D, NEW s \in D, NEW N \in Nat, NEW g \in StepsIn(D, N)
  PROVE  \E h \in PathsIn(D, N) : h[0] = s /\ \A n \in 1..N : h[n] = g[n][h[n - 1]]
<1> DEFINE F(h, m) == [n \in 0..m |-> IF n = 0 THEN s ELSE g[n][h[n - 1]]]
           P(m) == \E h \in [0..m -> D] : h = F(h, m)
           bad == {m \in 0..N : ~P(m)}
<1>0. g \in [1..N -> [D -> D]]
  BY DEF StepsIn
<1>1. bad = {}
  <2>1. SUFFICES ASSUME bad # {} PROVE FALSE
    OBVIOUS
  <2>2. bad \in SUBSET Nat
    OBVIOUS
  <2>3. PICK m \in bad : \A n \in bad : m <= n
    BY <2>1, <2>2, Least
  <2>4. m \in 0..N /\ m \in Nat /\ ~P(m)
    <3>1. \A n \in bad : n \in 0..N /\ ~P(n)
      <4> HIDE DEF P
      <4> QED OBVIOUS
    <3> QED BY <2>3, <3>1
  <2>5. CASE m = 0
    <3> DEFINE h == [n \in 0..0 |-> s]
    <3>1. h \in [0..0 -> D] /\ h = F(h, 0)
      OBVIOUS
    <3> QED BY <2>4, <2>5, <3>1
  <2>6. CASE m # 0
    <3>1. m - 1 \in 0..N /\ m - 1 \notin bad
      <4> HIDE DEF bad
      <4> QED BY <2>2, <2>3, <2>4, <2>6
    <3>2. PICK h \in [0..(m - 1) -> D] : h = F(h, m - 1)
      BY <3>1
    <3> DEFINE k == [n \in 0..m |-> IF n = m THEN g[m][h[m - 1]] ELSE h[n]]
    <3>3. h[m - 1] \in D /\ g[m] \in [D -> D]
      BY <1>0, <2>4, <2>6
    <3>4. k \in [0..m -> D]
      <4>1. \A n \in 0..m : n # m => n \in 0..(m - 1)
        BY <2>4
      <4>2. \A n \in 0..m : (IF n = m THEN g[m][h[m - 1]] ELSE h[n]) \in D
        BY <3>3, <4>1
      <4> QED BY <4>2
    <3>5. ASSUME NEW n \in 0..m PROVE k[n] = IF n = 0 THEN s ELSE g[n][k[n - 1]]
      <4>1. CASE n = 0
        <5>1. h[0] = s /\ 0 \in 0..(m - 1)
          BY <2>4, <2>6, <3>2
        <5> QED BY <4>1, <5>1, <2>6
      <4>2. CASE n # 0 /\ n # m
        <5>1. n \in 0..(m - 1) /\ n - 1 \in 0..(m - 1) /\ n - 1 # m /\ n - 1 \in 0..m
          BY <2>4, <4>2
        <5>2. h[n] = g[n][h[n - 1]]
          BY <3>2, <4>2, <5>1
        <5> QED BY <4>2, <5>1, <5>2
      <4>3. CASE n = m
        <5>1. m - 1 \in 0..m /\ m - 1 # m
          BY <2>4, <2>6
        <5> QED BY <4>3, <5>1, <2>6
      <4> QED BY <4>1, <4>2, <4>3
    <3>6. k = F(k, m)
      <4>1. k = [n \in 0..m |-> k[n]]
        OBVIOUS
      <4> HIDE DEF k
      <4>2. F(k, m) = [n \in 0..m |-> k[n]]
        BY <3>5
      <4> QED BY <4>1, <4>2
    <3> HIDE DEF k
    <3> QED BY <2>4, <3>4, <3>6
  <2> QED BY <2>5, <2>6
<1>2. P(N)
  <2> HIDE DEF P
  <2> QED BY <1>1
<1>3. PICK h \in [0..N -> D] : h = F(h, N)
  BY <1>2
<1>4. 0 \in 0..N /\ \A n \in 1..N : n \in 0..N /\ n # 0
  OBVIOUS
<1>5. h[0] = s /\ \A n \in 1..N : h[n] = g[n][h[n - 1]]
  <2>1. h[0] = F(h, N)[0] /\ \A n \in 1..N : h[n] = F(h, N)[n]
    <3> HIDE DEF F
    <3> QED BY <1>3
  <2> QED BY <1>4, <2>1
<1> QED BY <1>5 DEF PathsIn

\* and stays where its steps stay.
LEMMA Stays ==
  ASSUME NEW D, NEW N \in Nat, NEW f, f[0] \in D, \A n \in 1..N : f[n - 1] \in D => f[n] \in D
  PROVE  f[N] \in D
<1> DEFINE off == {n \in 0..N : f[n] \notin D}
<1>1. SUFFICES ASSUME off # {} PROVE FALSE
  OBVIOUS
<1>2. off \in SUBSET Nat
  OBVIOUS
<1>3. PICK m \in off : \A n \in off : m <= n
  BY <1>1, <1>2, Least
<1>4. m \in 0..N /\ f[m] \notin D
  BY <1>3
<1>5. m # 0
  BY <1>4
<1>6. m \in 1..N /\ m - 1 \in 0..N /\ ~(m <= m - 1)
  BY <1>4, <1>5
<1>7. m - 1 \notin off
  BY <1>3, <1>6
<1> QED BY <1>4, <1>6, <1>7

-----------------------------------------------------------------------------
\* States are records; a handler sets the list of notifiers and one tray.
TrayLists == [Trays -> TrayStates]

LEMMA Parts ==
  ASSUME NEW S \in NtfStates
  PROVE  /\ S.store \in [Ids -> Messages \cup {Nobody}] /\ S.ntfs \in Seq(Notifiers)
         /\ S.tray \in TrayLists /\ S.focused \in BOOLEAN
         /\ S.source \in Sources
BY DEF NtfStates, TrayLists

LEMMA SetField ==
  ASSUME NEW S \in NtfStates
  PROVE  /\ \A q \in Seq(Notifiers) :
              LET R == [S EXCEPT !.ntfs = q]
              IN /\ R \in NtfStates /\ R.ntfs = q /\ R.store = S.store /\ R.tray = S.tray
                 /\ R.focused = S.focused /\ R.source = S.source
         /\ \A tr \in TrayLists :
              LET R == [S EXCEPT !.tray = tr]
              IN /\ R \in NtfStates /\ R.ntfs = S.ntfs /\ R.store = S.store /\ R.tray = tr
                 /\ R.focused = S.focused /\ R.source = S.source
         /\ \A b \in BOOLEAN :
              LET R == [S EXCEPT !.focused = b]
              IN /\ R \in NtfStates /\ R.ntfs = S.ntfs /\ R.store = S.store /\ R.tray = S.tray
                 /\ R.focused = b /\ R.source = S.source
         /\ \A d \in [Ids -> Messages \cup {Nobody}] :
              LET R == [S EXCEPT !.store = d]
              IN /\ R \in NtfStates /\ R.ntfs = S.ntfs /\ R.store = d /\ R.tray = S.tray
                 /\ R.focused = S.focused /\ R.source = S.source
         /\ \A d \in Sources :
              LET R == [S EXCEPT !.source = d]
              IN /\ R \in NtfStates /\ R.ntfs = S.ntfs /\ R.store = S.store /\ R.tray = S.tray
                 /\ R.focused = S.focused /\ R.source = d
<1> DEFINE A == [Ids -> Messages \cup {Nobody}]
           B == Seq(Notifiers)
           C == Sources
<1>1. NtfStates = [store : A, ntfs : B, tray : TrayLists, focused : BOOLEAN, source : C]
  BY DEF NtfStates, TrayLists
<1> HIDE DEF A, B, C
<1>2. \A q \in B :
              LET R == [S EXCEPT !.ntfs = q]
              IN /\ R \in NtfStates /\ R.ntfs = q /\ R.store = S.store /\ R.tray = S.tray
                 /\ R.focused = S.focused /\ R.source = S.source
  BY <1>1
<1>3. \A b \in BOOLEAN :
              LET R == [S EXCEPT !.focused = b]
              IN /\ R \in NtfStates /\ R.ntfs = S.ntfs /\ R.store = S.store /\ R.tray = S.tray
                 /\ R.focused = b /\ R.source = S.source
  BY <1>1
<1>4. \A d \in A :
              LET R == [S EXCEPT !.store = d]
              IN /\ R \in NtfStates /\ R.ntfs = S.ntfs /\ R.store = d /\ R.tray = S.tray
                 /\ R.focused = S.focused /\ R.source = S.source
  BY <1>1
<1>5. \A d \in C :
              LET R == [S EXCEPT !.source = d]
              IN /\ R \in NtfStates /\ R.ntfs = S.ntfs /\ R.store = S.store /\ R.tray = S.tray
                 /\ R.focused = S.focused /\ R.source = d
  BY <1>1
<1>6. \A tr \in TrayLists :
              LET R == [S EXCEPT !.tray = tr]
              IN /\ R \in NtfStates /\ R.ntfs = S.ntfs /\ R.store = S.store /\ R.tray = tr
                 /\ R.focused = S.focused /\ R.source = S.source
  BY <1>1
<1> QED BY <1>2, <1>3, <1>4, <1>5, <1>6 DEF A, B, C

LEMMA Found ==
  ASSUME NEW S, NEW t, NEW k
  PROVE  /\ Has(S, t, k) <=> \E i \in DOMAIN S.ntfs : S.ntfs[i].tray = t /\ S.ntfs[i].key = k
         /\ IsOpen(S, t, k) <=> \E i \in DOMAIN S.ntfs :
                                  S.ntfs[i].tray = t /\ S.ntfs[i].key = k /\ ~S.ntfs[i].closed
         /\ IsOpen(S, t, k) => Has(S, t, k)
         /\ Has(S, t, k) => /\ Place(S, t, k) \in DOMAIN S.ntfs
                            /\ S.ntfs[Place(S, t, k)].tray = t
                            /\ S.ntfs[Place(S, t, k)].key = k
<1>1. Has(S, t, k) => Place(S, t, k) \in Places(S, t, k)
  BY DEF Has, Place
<1> QED BY <1>1 DEF Has, Places, IsOpen

(***************************************************************************)
(* A notifier is closed: it stays as a dead one, or it is taken out.       *)
(***************************************************************************)
Mine(n, t, k) == n.tray = t /\ n.key = k

Dead(n) == n.closed /\ ~n.hover /\ n.timer = "none"

\* p is q with the notifier of k on t closed or gone.
Thinned(q, p, t, k) ==
  /\ p \in Seq(Notifiers) /\ Single(p)
  /\ \A j \in DOMAIN p : \E i \in DOMAIN q :
       /\ p[j].tray = q[i].tray /\ p[j].key = q[i].key /\ p[j].limit = q[i].limit
       /\ IF Mine(p[j], t, k) THEN Dead(p[j]) ELSE p[j] = q[i]
  /\ \A i \in DOMAIN q : ~Mine(q[i], t, k) => \E j \in DOMAIN p : p[j] = q[i]

LEMMA Fades ==
  ASSUME NEW q \in Seq(Notifiers), Single(q), NEW t, NEW k, NEW i \in DOMAIN q, Mine(q[i], t, k)
  PROVE  LET gone == [q[i] EXCEPT !.closed = TRUE, !.fading = TRUE, !.hover = FALSE,
                                  !.timer = "none"]
             p == [q EXCEPT ![i] = gone]
         IN Thinned(q, p, t, k) /\ i \in DOMAIN p /\ Mine(p[i], t, k)
<1> DEFINE gone == [q[i] EXCEPT !.closed = TRUE, !.fading = TRUE, !.hover = FALSE, !.timer = "none"]
           p == [q EXCEPT ![i] = gone]
<1>1. q[i] \in Notifiers
  BY ElementOfSeq
<1>2. /\ gone \in Notifiers /\ gone.tray = q[i].tray /\ gone.key = q[i].key
      /\ gone.limit = q[i].limit /\ Dead(gone)
  BY <1>1 DEF Notifiers, Dead
<1> HIDE DEF gone
<1>3. p \in Seq(Notifiers) /\ DOMAIN p = DOMAIN q /\ p[i] = gone /\ \A j \in DOMAIN q : j # i => p[j] = q[j]
  BY <1>2
<1> HIDE DEF p
<1>4. \A j \in DOMAIN q : p[j].tray = q[j].tray /\ p[j].key = q[j].key /\ p[j].limit = q[j].limit
  BY <1>2, <1>3
<1>5. Single(p)
  BY <1>3, <1>4 DEF Single
<1>6. \A j \in DOMAIN q : Mine(q[j], t, k) => j = i
  BY DEF Single, Mine
<1>7. \A j \in DOMAIN p : IF Mine(p[j], t, k) THEN Dead(p[j]) ELSE p[j] = q[j]
  BY <1>2, <1>3, <1>4, <1>6 DEF Mine
<1>8. \A j \in DOMAIN q : ~Mine(q[j], t, k) => p[j] = q[j]
  BY <1>3
<1>9. Thinned(q, p, t, k)
  BY <1>3, <1>4, <1>5, <1>7, <1>8 DEF Thinned
<1> QED BY <1>2, <1>3, <1>9 DEF p, gone, Mine

LEMMA TakenAway ==
  ASSUME NEW q \in Seq(Notifiers), Single(q), NEW t, NEW k, NEW i \in DOMAIN q, Mine(q[i], t, k)
  PROVE  Thinned(q, RemoveAt(q, i), t, k)
<1> DEFINE p == RemoveAt(q, i)
           at(j) == IF j < i THEN j ELSE j + 1
<1>1. /\ p \in Seq(Notifiers) /\ DOMAIN p = 1 .. Len(q) - 1
      /\ \A j \in DOMAIN p : at(j) \in DOMAIN q \ {i} /\ p[j] = q[at(j)]
  BY Removal
<1>2. DOMAIN q = 1..Len(q) /\ Len(q) \in Nat
  OBVIOUS
<1> HIDE DEF p
<1>3. \A j, l \in DOMAIN p : at(j) = at(l) => j = l
  BY <1>1, <1>2
<1>4. \A l \in DOMAIN q : l # i => \E j \in DOMAIN p : at(j) = l
  <2> TAKE l \in DOMAIN q
  <2> HAVE l # i
  <2>1. CASE l < i
    BY <1>1, <1>2, <2>1
  <2>2. CASE l > i
    <3>1. l - 1 \in DOMAIN p /\ at(l - 1) = l
      BY <1>1, <1>2, <2>2
    <3> QED BY <3>1
  <2> QED BY <1>2, <2>1, <2>2
<1> HIDE DEF at
<1>5. Single(p)
  BY <1>1, <1>3 DEF Single
<1>6. \A j \in DOMAIN q : Mine(q[j], t, k) <=> j = i
  BY DEF Single, Mine
<1>7. \A j \in DOMAIN p : ~Mine(p[j], t, k)
  BY <1>1, <1>6
<1>8. ASSUME NEW j \in DOMAIN p
      PROVE  \E l \in DOMAIN q :
               /\ p[j].tray = q[l].tray /\ p[j].key = q[l].key /\ p[j].limit = q[l].limit
               /\ IF Mine(p[j], t, k) THEN Dead(p[j]) ELSE p[j] = q[l]
  BY <1>1, <1>7
<1>9. ASSUME NEW l \in DOMAIN q, ~Mine(q[l], t, k) PROVE \E j \in DOMAIN p : p[j] = q[l]
  BY <1>1, <1>4, <1>6, <1>9
<1>10. Thinned(q, p, t, k)
  BY <1>1, <1>5, <1>8, <1>9 DEF Thinned
<1> QED BY <1>10 DEF p

LEMMA ThinnedKeys ==
  ASSUME NEW S, NEW R, NEW t, NEW k, Thinned(S.ntfs, R.ntfs, t, k)
  PROVE  /\ \A u, x : Has(R, u, x) => Has(S, u, x)
         /\ \A u, x : ~(u = t /\ x = k) => (Has(S, u, x) => Has(R, u, x))
<1> DEFINE q == S.ntfs
           p == R.ntfs
<1>1. ASSUME NEW u, NEW x, Has(R, u, x) PROVE Has(S, u, x)
  <2>1. PICK j \in DOMAIN p : p[j].tray = u /\ p[j].key = x
    BY <1>1, Found
  <2>2. PICK i \in DOMAIN q : p[j].tray = q[i].tray /\ p[j].key = q[i].key
    BY DEF Thinned
  <2> QED BY <2>1, <2>2, Found
<1>2. ASSUME NEW u, NEW x, ~(u = t /\ x = k), Has(S, u, x) PROVE Has(R, u, x)
  <2>1. PICK i \in DOMAIN q : q[i].tray = u /\ q[i].key = x
    BY <1>2, Found
  <2>2. PICK j \in DOMAIN p : p[j] = q[i]
    BY <1>2, <2>1 DEF Thinned, Mine
  <2> QED BY <2>1, <2>2, Found
<1> QED BY <1>1, <1>2

LEMMA ThinnedOpen ==
  ASSUME NEW S, NEW R, NEW t, NEW k, Thinned(S.ntfs, R.ntfs, t, k)
  PROVE  /\ ~IsOpen(R, t, k)
         /\ \A x : x \in OpenIn(R, t) <=> x \in OpenIn(S, t) /\ x # k
         /\ \A u, x : u # t => (x \in OpenIn(R, u) <=> x \in OpenIn(S, u))
<1> DEFINE q == S.ntfs
           p == R.ntfs
<1>3. ASSUME NEW u, NEW x, IsOpen(R, u, x) PROVE IsOpen(S, u, x) /\ ~(u = t /\ x = k)
  <2>1. PICK j \in DOMAIN p : p[j].tray = u /\ p[j].key = x /\ ~p[j].closed
    BY <1>3, Found
  <2>2. PICK i \in DOMAIN q : IF Mine(p[j], t, k) THEN p[j].closed ELSE p[j] = q[i]
    BY DEF Thinned, Dead
  <2> QED BY <2>1, <2>2, Found DEF Mine
<1>4. ASSUME NEW u, NEW x, ~(u = t /\ x = k), IsOpen(S, u, x) PROVE IsOpen(R, u, x)
  <2>1. PICK i \in DOMAIN q : q[i].tray = u /\ q[i].key = x /\ ~q[i].closed
    BY <1>4, Found
  <2>2. PICK j \in DOMAIN p : p[j] = q[i]
    BY <1>4, <2>1 DEF Thinned, Mine
  <2> QED BY <2>1, <2>2, Found
<1>5. \A x : x \in OpenIn(R, t) <=> x \in OpenIn(S, t) /\ x # k
  BY <1>3, <1>4 DEF OpenIn
<1>6. \A u, x : u # t => (x \in OpenIn(R, u) <=> x \in OpenIn(S, u))
  BY <1>3, <1>4 DEF OpenIn
<1>7. ~IsOpen(R, t, k)
  BY <1>3
<1> QED BY <1>5, <1>6, <1>7

\* What the end of a notifier on a tray changes.
Closes(S, R, t, k) ==
  /\ R \in NtfStates /\ R.store = S.store /\ R.focused = S.focused /\ R.source = S.source
  /\ Thinned(S.ntfs, R.ntfs, t, k)
  /\ \A u \in Trays : u # t => R.tray[u] = S.tray[u]
  /\ R.tray[t].shown = S.tray[t].shown /\ R.tray[t].swept = S.tray[t].swept
  /\ R.tray[t].count <= S.tray[t].count
  /\ CountedOn(R, t)

LEMMA ForemostIs ==
  ASSUME NEW P \in SUBSET Nat, P # {} PROVE Foremost(P) \in P
BY Least DEF Foremost

\* The next active notifier is one of the tray's, since another than the one that was
\* closed is open.
LEMMA NextIs ==
  ASSUME NEW p \in Seq(Notifiers), NEW t, NEW i \in DOMAIN p, NEW j \in DOMAIN p, i # j,
         p[i].tray = t, p[j].tray = t
  PROVE  LET children == Children(p, t)
             next == children \ {Foremost(children)}
         IN next # {} /\ Foremost(next) \in DOMAIN p /\ p[Foremost(next)].tray = t
<1> DEFINE children == Children(p, t)
           next == children \ {Foremost(children)}
<1>1. i \in children /\ j \in children
  BY DEF Children
<1>2. next # {}
  BY <1>1
<1>3. children \subseteq DOMAIN p /\ DOMAIN p \subseteq Nat
  BY DEF Children
<1>4. Foremost(next) \in next
  BY <1>2, <1>3, ForemostIs
<1> QED BY <1>2, <1>4 DEF Children

LEMMA TrayClosedIs ==
  ASSUME NotifyAssumption,
         NEW S \in NtfStates, NEW t \in Trays, NEW k \in NtfKeys, Single(S.ntfs),
         CountedOn(S, t), Has(S, t, k), S.tray[t].swept \/ IsOpen(S, t, k)
  PROVE  /\ Closes(S, TrayClosed(S, t, k), t, k)
         /\ S.tray[t].active = k => Has(TrayClosed(S, t, k), t, k)
<1> DEFINE q == S.ntfs
           i == Place(S, t, k)
           old == S.tray[t]
           wasActive == old.active = k
           gone == [q[i] EXCEPT !.closed = TRUE, !.fading = TRUE, !.hover = FALSE, !.timer = "none"]
           p == IF wasActive THEN [q EXCEPT ![i] = gone] ELSE RemoveAt(q, i)
           count == IF old.count = 0 THEN 0 ELSE old.count - 1
           children == Children(p, t)
           next == children \ {Foremost(children)}
           active == CASE count = 0 -> Nobody
                       [] count > 0 /\ ~wasActive -> old.active
                       [] count > 0 /\ wasActive ->
                            IF next # {} THEN p[Foremost(next)].key ELSE Nobody
           T == [old EXCEPT !.count = count, !.active = active]
           R == TrayClosed(S, t, k)
<1>1. R = [S EXCEPT !.ntfs = p, !.tray[t] = T]
  BY DEF TrayClosed
<1>2. q \in Seq(Notifiers) /\ old \in TrayStates
  BY Parts DEF TrayLists
<1>3. i \in DOMAIN q /\ Mine(q[i], t, k)
  BY Found DEF Mine
<1>4. Thinned(q, p, t, k) /\ (wasActive => i \in DOMAIN p /\ Mine(p[i], t, k))
  <2>1. CASE wasActive
    <3>1. Thinned(q, [q EXCEPT ![i] = gone], t, k) /\ i \in DOMAIN [q EXCEPT ![i] = gone]
          /\ Mine([q EXCEPT ![i] = gone][i], t, k)
      BY <1>2, <1>3, Fades
    <3>2. p = [q EXCEPT ![i] = gone]
      BY <2>1
    <3> HIDE DEF p
    <3> QED BY <3>1, <3>2
  <2>2. CASE ~wasActive
    <3>1. Thinned(q, RemoveAt(q, i), t, k)
      BY <1>2, <1>3, TakenAway
    <3> QED BY <2>2, <3>1
  <2> QED BY <2>1, <2>2
<1> HIDE DEF p
<1>5. p \in Seq(Notifiers)
  BY <1>4 DEF Thinned
<1>6. count \in Nat /\ count <= old.count
  BY <1>2 DEF TrayStates
<1>7. wasActive /\ count > 0 => next # {} /\ Foremost(next) \in DOMAIN p /\ p[Foremost(next)].tray = t
  \* Another notifier is open, since so many are.
  <2> SUFFICES ASSUME wasActive, count > 0 PROVE \E j \in DOMAIN p : j # i /\ p[j].tray = t
    BY <1>4, <1>5, NextIs DEF Mine
  <2>1. OpenIn(S, t) \ {k} # {}
    <3>1. IsFiniteSet(OpenIn(S, t)) /\ old.count <= Cardinality(OpenIn(S, t)) /\ old.count > 1
      BY <1>2 DEF CountedOn, TrayStates
    <3>2. OpenIn(S, t) \subseteq {k} => Cardinality(OpenIn(S, t)) <= 1
      <4>1. IsFiniteSet({k}) /\ Cardinality({k}) = 1
        BY FS_Singleton
      <4> QED BY <4>1, FS_Subset
    <3> QED BY <1>2, <3>1, <3>2, FS_CardinalityType DEF TrayStates
  <2>2. PICK x \in OpenIn(S, t) : x # k
    BY <2>1
  <2>3. PICK l \in DOMAIN q : q[l].tray = t /\ q[l].key = x
    BY Found DEF OpenIn
  <2>4. PICK j \in DOMAIN p : p[j] = q[l]
    BY <1>4, <2>2, <2>3 DEF Thinned, Mine
  <2> QED BY <1>4, <2>2, <2>3, <2>4 DEF Mine
<1>8. active \in NtfKeys \cup {Nobody}
      /\ (count = 0 <=> active = Nobody)
      /\ (active # Nobody => \/ \E j \in DOMAIN p : p[j].tray = t /\ p[j].key = active
                             \/ active = old.active /\ ~wasActive)
  <2>1. CASE count = 0
    BY <2>1
  <2>2. CASE count > 0 /\ ~wasActive
    <3>1. active = old.active
      BY <2>2
    <3>2. old.count > 0
      BY <1>2, <2>2 DEF TrayStates
    <3> QED BY <1>2, <2>2, <3>1, <3>2 DEF CountedOn, TrayStates
  <2>3. CASE count > 0 /\ wasActive
    <3>1. active = p[Foremost(next)].key
      BY <1>7, <2>3
    <3>2. p[Foremost(next)] \in Notifiers
      BY <1>5, <1>7, <2>3, ElementOfSeq
    <3>3. active \in NtfKeys /\ active # Nobody
      BY <3>1, <3>2 DEF Notifiers, NotifyAssumption
    <3> HIDE DEF next, active
    <3> QED BY <1>7, <2>3, <3>1, <3>3
  <2>4. count = 0 \/ (count > 0 /\ ~wasActive) \/ (count > 0 /\ wasActive)
    <3> HIDE DEF count
    <3> QED BY <1>6
  <2> HIDE DEF active, count
  <2> QED BY <2>1, <2>2, <2>3, <2>4
<1> HIDE DEF active
<1>9. T \in TrayStates /\ T.count = count /\ T.active = active /\ T.shown = old.shown
      /\ T.swept = old.swept
  BY <1>2, <1>6, <1>8 DEF TrayStates
<1> HIDE DEF T, R
<1>10. /\ R \in NtfStates /\ R.store = S.store /\ R.ntfs = p /\ R.tray[t] = T
       /\ (\A u \in Trays : u # t => R.tray[u] = S.tray[u])
       /\ R.focused = S.focused /\ R.source = S.source
  <2> DEFINE Q == [S EXCEPT !.ntfs = p]
             tr == [S.tray EXCEPT ![t] = T]
  <2>1. R = [Q EXCEPT !.tray = tr]
    BY <1>1 DEF NtfStates
  <2>2. Q \in NtfStates /\ Q.ntfs = p /\ Q.store = S.store /\ Q.tray = S.tray
        /\ Q.focused = S.focused /\ Q.source = S.source
    BY <1>5, SetField
  <2>3. /\ tr \in TrayLists /\ tr[t] = T /\ \A u \in Trays : u # t => tr[u] = S.tray[u]
    BY <1>9, Parts DEF TrayLists
  <2> HIDE DEF Q, tr
  <2>4. /\ R \in NtfStates /\ R.store = Q.store /\ R.ntfs = Q.ntfs /\ R.tray = tr
        /\ R.focused = Q.focused /\ R.source = Q.source
    BY <2>1, <2>2, <2>3, SetField
  <2> QED BY <2>2, <2>3, <2>4
<1>11. Thinned(S.ntfs, R.ntfs, t, k)
  BY <1>4, <1>10
<1>12. CountedOn(R, t)
  <2>1. /\ OpenIn(R, t) = OpenIn(S, t) \ {k} /\ IsFiniteSet(OpenIn(S, t))
        /\ old.count <= Cardinality(OpenIn(S, t))
        /\ ~old.swept => old.count = Cardinality(OpenIn(S, t))
    <3>1. \A x : x \in OpenIn(R, t) <=> x \in OpenIn(S, t) /\ x # k
      BY <1>11, ThinnedOpen
    <3> QED BY <3>1 DEF CountedOn
  <2>2. /\ IsFiniteSet(OpenIn(R, t))
        /\ Cardinality(OpenIn(R, t)) = Cardinality(OpenIn(S, t)) - (IF k \in OpenIn(S, t) THEN 1 ELSE 0)
        /\ Cardinality(OpenIn(R, t)) \in Nat /\ Cardinality(OpenIn(S, t)) \in Nat
    BY <2>1, FS_RemoveElement, FS_CardinalityType
  <2>3. old.count \in Nat
    BY <1>2 DEF TrayStates
  <2>4. count <= Cardinality(OpenIn(R, t))
    BY <1>6, <2>1, <2>2, <2>3
  <2>5. ~old.swept => count = Cardinality(OpenIn(R, t))
    <3>1. ~old.swept => k \in OpenIn(S, t)
      BY DEF OpenIn
    <3> QED BY <1>6, <2>1, <2>2, <2>3, <3>1
  <2>6. count > 0 => old.count > 0
    BY <2>3
  <2>7. active # Nobody => Has(R, t, active)
    <3>1. CASE \E j \in DOMAIN p : p[j].tray = t /\ p[j].key = active
      BY <1>10, <3>1, Found
    <3>2. CASE active = old.active /\ ~wasActive
      <4>1. active # Nobody => Has(S, t, active)
        BY <3>2 DEF CountedOn
      <4>2. active # k
        BY <3>2
      <4>3. Has(S, t, active) => Has(R, t, active)
        <5>1. \A u, x : ~(u = t /\ x = k) => (Has(S, u, x) => Has(R, u, x))
          BY <1>11, ThinnedKeys
        <5> QED BY <4>2, <5>1
      <4> QED BY <3>2, <4>1, <4>3
    <3> QED BY <1>8, <3>1, <3>2
  <2>8. count > 0 <=> active # Nobody
    <3> HIDE DEF count
    <3> QED BY <1>6, <1>8
  <2>9. ~old.swept /\ count > 0 => old.shown
    BY <2>6 DEF CountedOn
  <2> HIDE DEF count, old
  <2> QED BY <1>9, <1>10, <2>2, <2>4, <2>5, <2>7, <2>8, <2>9 DEF CountedOn
<1>13. wasActive => Has(R, t, k)
  BY <1>4, <1>10, Found DEF Mine
<1> HIDE DEF count
<1>14. R.tray[t].shown = S.tray[t].shown /\ R.tray[t].swept = S.tray[t].swept
       /\ R.tray[t].count <= S.tray[t].count
  BY <1>6, <1>9, <1>10
<1> QED BY <1>10, <1>11, <1>12, <1>13, <1>14 DEF Closes, R

\* R has no message and no notifier that S has not.
Fewer(S, R) ==
  /\ \A id \in Ids : R.store[id] = S.store[id] \/ R.store[id] = Nobody
  /\ \A u \in Trays, x \in NtfKeys : Has(R, u, x) => Has(S, u, x)
  /\ \A u \in Trays : R.tray[u].swept = S.tray[u].swept

LEMMA FewerYet ==
  ASSUME NEW S, NEW Q, NEW R, Fewer(S, Q), Fewer(Q, R) PROVE Fewer(S, R)
<1>1. \A id \in Ids : R.store[id] = S.store[id] \/ R.store[id] = Nobody
  BY DEF Fewer
<1>2. \A u \in Trays, x \in NtfKeys : Has(R, u, x) => Has(S, u, x)
  BY DEF Fewer
<1>3. \A u \in Trays : R.tray[u].swept = S.tray[u].swept
  BY DEF Fewer
<1> QED BY <1>1, <1>2, <1>3 DEF Fewer

\* What is said of the notifiers and the trays, where these are the same.
LEMMA SameNotifiers ==
  ASSUME NEW S, NEW R, R.ntfs = S.ntfs
  PROVE  /\ \A u, x : (Has(R, u, x) <=> Has(S, u, x)) /\ (IsOpen(R, u, x) <=> IsOpen(S, u, x))
         /\ \A u : OpenIn(R, u) = OpenIn(S, u)
         /\ Ticks(S) => Ticks(R)
         /\ R.tray = S.tray => (Counted(S) => Counted(R))
<1>1. \A u, x : (Has(R, u, x) <=> Has(S, u, x)) /\ (IsOpen(R, u, x) <=> IsOpen(S, u, x))
  BY Found
<1>2. \A u : OpenIn(R, u) = OpenIn(S, u)
  BY <1>1 DEF OpenIn
<1>3. Ticks(S) => Ticks(R)
  BY DEF Ticks
<1>4. R.tray = S.tray => (Counted(S) => Counted(R))
  BY <1>1, <1>2 DEF Counted, CountedOn
<1> QED BY <1>1, <1>2, <1>3, <1>4

LEMMA ClosesKeeps ==
  ASSUME NEW S \in NtfStates, NEW mv, NEW top, Right(S, mv, top), NEW t \in Trays,
         NEW k \in NtfKeys, NEW R, Closes(S, R, t, k)
  PROVE  Right(R, mv, top) /\ Fewer(S, R)
<1> DEFINE q == S.ntfs
           p == R.ntfs
<1>1. Thinned(q, p, t, k) /\ R \in NtfStates /\ R.store = S.store
  BY DEF Closes
<1>2. Single(p)
  BY <1>1 DEF Thinned
<1>3. Counted(R)
  <2> SUFFICES ASSUME NEW u \in Trays PROVE CountedOn(R, u)
    BY DEF Counted
  <2>1. CASE u = t
    BY <2>1 DEF Closes
  <2>2. CASE u # t
    <3>1. OpenIn(R, u) = OpenIn(S, u) /\ R.tray[u] = S.tray[u]
      <4>1. \A v, x : v # t => (x \in OpenIn(R, v) <=> x \in OpenIn(S, v))
        BY <1>1, ThinnedOpen
      <4>2. OpenIn(R, u) = OpenIn(S, u)
        BY <2>2, <4>1
      <4> QED BY <2>2, <4>2 DEF Closes
    <3>2. \A x : Has(S, u, x) => Has(R, u, x)
      <4>1. \A v, x : ~(v = t /\ x = k) => (Has(S, v, x) => Has(R, v, x))
        BY <1>1, ThinnedKeys
      <4> QED BY <2>2, <4>1
    <3>3. CountedOn(S, u)
      BY DEF Right, Counted
    <3> QED BY <3>1, <3>2, <3>3 DEF CountedOn
  <2> QED BY <2>1, <2>2
<1>4. Keyed(R)
  <2>1. R.focused = S.focused /\ Keyed(S) /\ "urgent" \in Trays
    BY DEF Closes, Right, Trays
  <2>2. R.tray["urgent"].count <= S.tray["urgent"].count
    <3>1. CASE t = "urgent"
      BY <3>1 DEF Closes
    <3>2. CASE t # "urgent"
      <4>1. R.tray["urgent"] = S.tray["urgent"] /\ S.tray["urgent"] \in TrayStates
        BY <2>1, <3>2, Parts DEF Closes, TrayLists
      <4> QED BY <4>1 DEF TrayStates
    <3> QED BY <3>1, <3>2
  <2>3. R.tray["urgent"].count \in Nat /\ S.tray["urgent"].count \in Nat
    <3>1. R.tray["urgent"] \in TrayStates /\ S.tray["urgent"] \in TrayStates
      BY <1>1, <2>1, Parts DEF TrayLists
    <3> QED BY <3>1 DEF TrayStates
  <2> QED BY <2>1, <2>2, <2>3 DEF Keyed
<1>5. ASSUME NEW j \in DOMAIN p
      PROVE  \E i \in DOMAIN q : /\ p[j].tray = q[i].tray /\ p[j].key = q[i].key
                                 /\ p[j].limit = q[i].limit /\ (Dead(p[j]) \/ p[j] = q[i])
  BY <1>1 DEF Thinned
<1>6. Ticks(R)
  <2> SUFFICES ASSUME NEW j \in DOMAIN p PROVE TicksOne(p[j])
    BY DEF Ticks
  <2>1. PICK i \in DOMAIN q : /\ p[j].tray = q[i].tray /\ p[j].key = q[i].key
                              /\ p[j].limit = q[i].limit /\ (Dead(p[j]) \/ p[j] = q[i])
    BY <1>5
  <2>2. TicksOne(q[i])
    BY DEF Right, Ticks
  <2> QED BY <2>1, <2>2 DEF TicksOne, Dead
<1>7. InStore(R, mv, top)
  <2>1. \A id \in Ids : Lasts(R.store[id]) /\ (id > top => R.store[id] = Nobody)
    BY <1>1 DEF Right, InStore
  <2>2. ASSUME NEW j \in DOMAIN p, p[j].key \in Ids
        PROVE  /\ p[j].key <= top
               /\ p[j].key \notin mv =>
                    /\ ~p[j].closed => R.store[p[j].key] # Nobody
                    /\ R.store[p[j].key] # Nobody => (p[j].tray = "urgent" <=> R.store[p[j].key].urgent)
    <3>1. PICK i \in DOMAIN q : /\ p[j].tray = q[i].tray /\ p[j].key = q[i].key
                                /\ p[j].limit = q[i].limit /\ (p[j].closed \/ p[j] = q[i])
      BY <1>5 DEF Dead
    <3>2. /\ q[i].key <= top
          /\ q[i].key \notin mv =>
               /\ ~q[i].closed => S.store[q[i].key] # Nobody
               /\ S.store[q[i].key] # Nobody => (q[i].tray = "urgent" <=> S.store[q[i].key].urgent)
      BY <2>2, <3>1 DEF Right, InStore
    <3> QED BY <1>1, <3>1, <3>2
  <2> QED BY <2>1, <2>2 DEF InStore
<1>8. Fewer(S, R)
  <2>1. \A u \in Trays, x \in NtfKeys : Has(R, u, x) => Has(S, u, x)
    BY <1>1, ThinnedKeys
  <2>2. \A u \in Trays : R.tray[u].swept = S.tray[u].swept
    BY DEF Closes
  <2> QED BY <1>1, <2>1, <2>2 DEF Fewer
<1> QED BY <1>2, <1>3, <1>4, <1>6, <1>7, <1>8 DEF Right

\* A handler leaves a good state a good one, with no more on the screen and in the store.
Safe(S, R, mv, top) == R \in NtfStates /\ Right(R, mv, top) /\ Fewer(S, R)

LEMMA TrayClosedSafe ==
  ASSUME NotifyAssumption, NEW S \in NtfStates, NEW mv, NEW top, Right(S, mv, top),
         NEW t \in Trays, NEW k \in NtfKeys, Has(S, t, k), S.tray[t].swept \/ IsOpen(S, t, k)
  PROVE  Safe(S, TrayClosed(S, t, k), mv, top) /\ ~IsOpen(TrayClosed(S, t, k), t, k)
         /\ TrayClosed(S, t, k).store = S.store
<1>1. Single(S.ntfs) /\ CountedOn(S, t)
  BY DEF Right, Counted
<1>2. Closes(S, TrayClosed(S, t, k), t, k)
  BY <1>1, TrayClosedIs
<1>3. Right(TrayClosed(S, t, k), mv, top) /\ Fewer(S, TrayClosed(S, t, k))
  BY <1>2, ClosesKeeps
<1>4. ~IsOpen(TrayClosed(S, t, k), t, k)
  <2> DEFINE R == TrayClosed(S, t, k)
  <2>1. Thinned(S.ntfs, R.ntfs, t, k)
    BY <1>2 DEF Closes
  <2> HIDE DEF R
  <2>2. ~IsOpen(R, t, k)
    BY <2>1, ThinnedOpen
  <2> QED BY <2>2 DEF R
<1> QED BY <1>2, <1>3, <1>4 DEF Safe, Closes

LEMMA ModalSafe ==
  ASSUME NEW S \in NtfStates, NEW mv, NEW top, Single(S.ntfs), Counted(S), InStore(S, mv, top), Ticks(S)
  PROVE  /\ Safe(S, UpdateModal(S), mv, top)
         /\ UpdateModal(S).ntfs = S.ntfs /\ UpdateModal(S).tray = S.tray
         /\ UpdateModal(S).store = S.store /\ UpdateModal(S).source = S.source
<1> DEFINE b == S.tray["urgent"].count > 0
           R == UpdateModal(S)
<1>1. R = [S EXCEPT !.focused = b]
  BY DEF UpdateModal
<1> HIDE DEF R
<1>2. b \in BOOLEAN
  OBVIOUS
<1>3. R \in NtfStates /\ R.ntfs = S.ntfs /\ R.store = S.store /\ R.tray = S.tray
      /\ R.focused = b /\ R.source = S.source
  <2> HIDE DEF b
  <2> QED BY <1>1, <1>2, SetField
<1>4. Counted(R) /\ Ticks(R) /\ \A u, x : Has(R, u, x) => Has(S, u, x)
  BY <1>3, SameNotifiers
<1>5. Keyed(R)
  BY <1>3 DEF Keyed
<1>6. InStore(R, mv, top)
  BY <1>3 DEF InStore
<1>7. Fewer(S, R)
  BY <1>3, <1>4 DEF Fewer
<1>8. Safe(S, R, mv, top)
  BY <1>3, <1>4, <1>5, <1>6, <1>7 DEF Safe, Right
<1> QED BY <1>3, <1>8 DEF R

\* An id's message that is not stored any more has no open notifier.
LEMMA Dropped ==
  ASSUME NEW S \in NtfStates, NEW mv \in SUBSET Ids, NEW top, NEW id \in Ids, S.store[id] = Nobody,
         InStore(S, mv \cup {id}, top),
         id \notin mv => \A j \in DOMAIN S.ntfs : S.ntfs[j].key = id => S.ntfs[j].closed
  PROVE  InStore(S, mv, top)
<1>1. ASSUME NEW j \in DOMAIN S.ntfs, S.ntfs[j].key \in Ids
      PROVE  LET n == S.ntfs[j]
             IN /\ n.key <= top
                /\ n.key \notin mv =>
                     /\ ~n.closed => S.store[n.key] # Nobody
                     /\ S.store[n.key] # Nobody => (n.tray = "urgent" <=> S.store[n.key].urgent)
  <2>1. CASE S.ntfs[j].key = id
    <3>1. S.ntfs[j].key <= top
      BY <1>1 DEF InStore
    <3>2. S.store[S.ntfs[j].key] = Nobody
      BY <2>1
    <3>3. S.ntfs[j].key \notin mv => S.ntfs[j].closed
      BY <2>1
    <3> QED BY <3>1, <3>2, <3>3
  <2>2. CASE S.ntfs[j].key # id
    BY <1>1, <2>2 DEF InStore
  <2> QED BY <2>1, <2>2
<1>2. \A x \in Ids : Lasts(S.store[x]) /\ (x > top => S.store[x] = Nobody)
  BY DEF InStore
<1> QED BY <1>1, <1>2 DEF InStore

LEMMA StoreCloseSafe ==
  ASSUME NotifyAssumption, NEW S \in NtfStates, NEW mv \in SUBSET Ids, NEW top, NEW id \in Ids,
         Right(S, mv, top)
  PROVE  Safe(S, StoreClose(S, id), mv, top)
<1> DEFINE d == [S.store EXCEPT ![id] = Nobody]
           W == [S EXCEPT !.store = d]
           t == IF Has(S, "normal", id) THEN "normal" ELSE "urgent"
           C == TrayClosed(W, t, id)
           R == StoreClose(S, id)
           wider == mv \cup {id}
<1>0. t \in Trays /\ id \in NtfKeys
  BY DEF Trays, NtfKeys
<1>1. R = IF S.store[id] = Nobody THEN S
          ELSE IF IsOpen(S, t, id) THEN UpdateModal(C) ELSE W
  <2>1. W = [S EXCEPT !.store[id] = Nobody]
    BY DEF NtfStates
  <2> HIDE DEF W
  <2> QED BY <2>1 DEF StoreClose
<1>2. CASE S.store[id] = Nobody
  <2>1. R = S
    BY <1>1, <1>2
  <2>2. Fewer(S, S)
    BY DEF Fewer
  <2> HIDE DEF R
  <2> QED BY <2>1, <2>2 DEF Safe, R
<1>3. CASE S.store[id] # Nobody
  <2>1. d \in [Ids -> Messages \cup {Nobody}] /\ d[id] = Nobody
        /\ \A x \in Ids : x # id => d[x] = S.store[x]
    BY Parts
  <2> HIDE DEF d
  <2>2. W \in NtfStates /\ W.ntfs = S.ntfs /\ W.store = d /\ W.tray = S.tray
        /\ W.focused = S.focused /\ W.source = S.source
    BY <2>1, SetField
  <2> HIDE DEF W, R
  \* Without its message the notifier stands like one that has been moved.
  <2>3. InStore(W, wider, top)
    <3>1. InStore(S, mv, top)
      BY DEF Right
    <3>2. \A x \in Ids : Lasts(W.store[x]) /\ (x > top => W.store[x] = Nobody)
      BY <2>1, <2>2, <3>1 DEF InStore, Lasts
    <3>3. ASSUME NEW j \in DOMAIN W.ntfs, W.ntfs[j].key \in Ids
          PROVE  LET n == W.ntfs[j]
                 IN /\ n.key <= top
                    /\ n.key \notin wider =>
                         /\ ~n.closed => W.store[n.key] # Nobody
                         /\ W.store[n.key] # Nobody => (n.tray = "urgent" <=> W.store[n.key].urgent)
      BY <2>1, <2>2, <3>1, <3>3 DEF InStore
    <3> QED BY <3>2, <3>3 DEF InStore
  <2>4. Right(W, wider, top)
    <3>1. Single(W.ntfs) /\ Counted(W) /\ Ticks(W)
      BY <2>2, SameNotifiers DEF Right
    <3>2. Keyed(W)
      BY <2>2 DEF Right, Keyed
    <3> QED BY <2>3, <3>1, <3>2 DEF Right
  <2>5. Fewer(S, W)
    <3>1. \A u, x : Has(W, u, x) => Has(S, u, x)
      BY <2>2, SameNotifiers
    <3> QED BY <2>1, <2>2, <3>1 DEF Fewer
  \* All notifiers of a message that was not moved are one.
  <2>6. id \notin mv => \A j \in DOMAIN S.ntfs : S.ntfs[j].key = id => S.ntfs[j].tray = t
    <3> SUFFICES ASSUME id \notin mv, NEW j \in DOMAIN S.ntfs, S.ntfs[j].key = id
                 PROVE  S.ntfs[j].tray = t
      OBVIOUS
    <3>1. \A i \in DOMAIN S.ntfs : S.ntfs[i].key = id =>
             (S.ntfs[i].tray = "urgent" <=> S.store[id].urgent)
      BY <1>3 DEF Right, InStore
    <3>2. S.ntfs[j].tray \in {"normal", "urgent"}
      <4>1. S.ntfs[j] \in Notifiers
        BY Parts, ElementOfSeq
      <4> QED BY <4>1 DEF Notifiers, Trays
    <3>3. Has(S, "normal", id) <=> \E i \in DOMAIN S.ntfs : S.ntfs[i].tray = "normal" /\ S.ntfs[i].key = id
      BY Found
    <3> QED BY <3>1, <3>2, <3>3
  <2>7. CASE IsOpen(S, t, id)
    <3>1. IsOpen(W, t, id) /\ Has(W, t, id)
      BY <2>2, <2>7, SameNotifiers, Found
    <3>2. Safe(W, C, wider, top) /\ ~IsOpen(C, t, id) /\ C.store = W.store
      BY <1>0, <2>2, <2>4, <3>1, TrayClosedSafe
    <3> HIDE DEF C, t
    <3>3. id \notin mv => \A j \in DOMAIN C.ntfs : C.ntfs[j].key = id => C.ntfs[j].closed
      <4> SUFFICES ASSUME id \notin mv, NEW j \in DOMAIN C.ntfs, C.ntfs[j].key = id
                   PROVE  C.ntfs[j].closed
        OBVIOUS
      <4>1. C.ntfs[j].tray \in Trays
        <5>1. C.ntfs[j] \in Notifiers
          BY <3>2, Parts, ElementOfSeq DEF Safe
        <5> QED BY <5>1 DEF Notifiers
      <4>2. Has(C, C.ntfs[j].tray, id)
        BY Found
      <4>3. Has(S, C.ntfs[j].tray, id)
        <5>1. Has(W, C.ntfs[j].tray, id)
          BY <1>0, <3>2, <4>1, <4>2 DEF Safe, Fewer
        <5> QED BY <2>2, <5>1, SameNotifiers
      <4>4. C.ntfs[j].tray = t
        BY <2>6, <4>3, Found
      <4> QED BY <3>2, <4>4, Found
    <3>4. InStore(C, mv, top)
      <4>1. C \in NtfStates /\ C.store[id] = Nobody /\ InStore(C, wider, top)
        BY <2>1, <2>2, <3>2 DEF Safe, Right
      <4> QED BY <3>3, <4>1, Dropped
    <3>5. Safe(C, UpdateModal(C), mv, top)
      BY <3>2, <3>4, ModalSafe DEF Safe, Right
    <3>6. Fewer(S, UpdateModal(C))
      <4>1. Fewer(W, C) /\ Fewer(C, UpdateModal(C))
        BY <3>2, <3>5 DEF Safe
      <4> QED BY <2>5, <4>1, FewerYet
    <3>7. R = UpdateModal(C)
      BY <1>1, <1>3, <2>7
    <3>8. Safe(S, R, mv, top)
      BY <3>5, <3>6, <3>7 DEF Safe
    <3> QED BY <3>8 DEF R
  <2>8. CASE ~IsOpen(S, t, id)
    <3>1. id \notin mv => \A j \in DOMAIN W.ntfs : W.ntfs[j].key = id => W.ntfs[j].closed
      BY <2>2, <2>6, <2>8, Found
    <3>2. InStore(W, mv, top)
      BY <2>1, <2>2, <2>3, <3>1, Dropped
    <3>3. Right(W, mv, top)
      BY <2>4, <3>2 DEF Right
    <3>4. R = W
      BY <1>1, <1>3, <2>8
    <3>5. Safe(S, R, mv, top)
      BY <2>2, <2>5, <3>3, <3>4 DEF Safe
    <3> QED BY <3>5 DEF R
  <2> QED BY <2>7, <2>8
<1> QED BY <1>2, <1>3

LEMMA ClosedSafe ==
  ASSUME NotifyAssumption, NEW S \in NtfStates, NEW mv \in SUBSET Ids, NEW top,
         Right(S, mv, top), NEW t \in Trays, NEW k \in NtfKeys, Has(S, t, k),
         S.tray[t].swept \/ IsOpen(S, t, k)
  PROVE  Safe(S, Closed(S, t, k), mv, top)
<1> DEFINE C == TrayClosed(S, t, k)
           M == UpdateModal(C)
           R == StoreClose(M, k)
<1>1. Safe(S, C, mv, top)
  BY TrayClosedSafe
<1>2. Closed(S, t, k) = IF k \in Ids /\ Has(C, t, k) THEN R ELSE C
  BY DEF Closed
<1> HIDE DEF C
<1>3. CASE k \in Ids /\ Has(C, t, k)
  <2>1. Safe(C, M, mv, top)
    BY <1>1, ModalSafe DEF Safe, Right
  <2> HIDE DEF M
  <2>2. Safe(M, R, mv, top)
    BY <1>3, <2>1, StoreCloseSafe DEF Safe
  <2> HIDE DEF R
  <2>3. Fewer(S, R)
    <3>1. Fewer(S, C) /\ Fewer(C, M) /\ Fewer(M, R)
      BY <1>1, <2>1, <2>2 DEF Safe
    <3>2. Fewer(S, M)
      BY <3>1, FewerYet
    <3> QED BY <3>1, <3>2, FewerYet
  <2> QED BY <1>2, <1>3, <2>2, <2>3 DEF Safe
<1>4. CASE ~(k \in Ids /\ Has(C, t, k))
  BY <1>1, <1>2, <1>4
<1> QED BY <1>3, <1>4

LEMMA CloseOpenSafe ==
  ASSUME NotifyAssumption, NEW S \in NtfStates, NEW mv \in SUBSET Ids, NEW top,
         Right(S, mv, top), NEW t \in Trays, NEW k \in NtfKeys
  PROVE  Safe(S, CloseOpen(S, t, k), mv, top)
<1>1. CASE IsOpen(S, t, k)
  <2>1. Has(S, t, k)
    BY <1>1, Found
  <2> QED BY <1>1, <2>1, ClosedSafe DEF CloseOpen
<1>2. CASE ~IsOpen(S, t, k)
  <2>1. Fewer(S, S)
    BY DEF Fewer
  <2> QED BY <1>2, <2>1 DEF CloseOpen, Safe
<1> QED BY <1>1, <1>2

\* The handlers that change one notifier and keep what others know of it.
LEMMA Touched ==
  ASSUME NEW S \in NtfStates, NEW R \in NtfStates, NEW mv, NEW top, Right(S, mv, top),
         NEW i \in DOMAIN S.ntfs, NEW n, R.ntfs = [S.ntfs EXCEPT ![i] = n],
         n.tray = S.ntfs[i].tray, n.key = S.ntfs[i].key, n.closed = S.ntfs[i].closed,
         TicksOne(n), R.store = S.store, R.focused = S.focused,
         \A u \in Trays : /\ R.tray[u].count = S.tray[u].count
                          /\ R.tray[u].active = S.tray[u].active
                          /\ R.tray[u].swept = S.tray[u].swept
                          /\ R.tray[u].count > 0 => R.tray[u].shown = S.tray[u].shown
  PROVE  Safe(S, R, mv, top)
<1> DEFINE q == S.ntfs
           p == R.ntfs
<1>1. DOMAIN p = DOMAIN q /\ p[i] = n /\ \A j \in DOMAIN q : j # i => p[j] = q[j]
  BY Parts
<1>2. \A j \in DOMAIN q : p[j].tray = q[j].tray /\ p[j].key = q[j].key /\ p[j].closed = q[j].closed
  BY <1>1
<1>3. Single(p)
  BY <1>1, <1>2 DEF Right, Single
<1>4. \A u, x : (Has(R, u, x) <=> Has(S, u, x)) /\ (IsOpen(R, u, x) <=> IsOpen(S, u, x))
  BY <1>1, <1>2, Found
<1>5. Counted(R)
  <2> SUFFICES ASSUME NEW u \in Trays PROVE CountedOn(R, u)
    BY DEF Counted
  <2>1. OpenIn(R, u) = OpenIn(S, u)
    BY <1>4 DEF OpenIn
  <2>2. CountedOn(S, u)
    BY DEF Right, Counted
  <2> QED BY <1>4, <2>1, <2>2 DEF CountedOn
<1>6. Keyed(R)
  BY DEF Right, Keyed, Trays
<1>7. Ticks(R)
  BY <1>1 DEF Right, Ticks
<1>8. InStore(R, mv, top)
  <2>1. \A x \in Ids : Lasts(R.store[x]) /\ (x > top => R.store[x] = Nobody)
    BY DEF Right, InStore
  <2>2. ASSUME NEW j \in DOMAIN p, p[j].key \in Ids
        PROVE  /\ p[j].key <= top
               /\ p[j].key \notin mv =>
                    /\ ~p[j].closed => R.store[p[j].key] # Nobody
                    /\ R.store[p[j].key] # Nobody => (p[j].tray = "urgent" <=> R.store[p[j].key].urgent)
    BY <1>1, <1>2, <2>2 DEF Right, InStore
  <2> QED BY <2>1, <2>2 DEF InStore
<1>9. Fewer(S, R)
  BY <1>4 DEF Fewer
<1> QED BY <1>3, <1>5, <1>6, <1>7, <1>8, <1>9 DEF Safe, Right

\* A notifier is added to a tray that has none of its key.
LEMMA AddKeeps ==
  ASSUME NotifyAssumption, NEW S \in NtfStates, NEW mv, NEW top, Right(S, mv, top),
         NEW t \in Trays, NEW k \in NtfKeys, ~Has(S, t, k), NEW src \in Windows \cup {Nobody},
         NEW timeout \in Nat,
         k \in Ids => /\ k <= top /\ S.store[k] # Nobody
                      /\ t = "urgent" <=> S.store[k].urgent
                      /\ t = "normal" => timeout > 0
  PROVE  LET R == Add(S, t, k, src, timeout)
         IN /\ R \in NtfStates /\ R.store = S.store /\ R.source = S.source
            /\ Single(R.ntfs) /\ Counted(R) /\ InStore(R, mv, top) /\ Ticks(R)
            /\ t = "normal" => Keyed(R)
            /\ \A u, x : Has(R, u, x) => Has(S, u, x) \/ (u = t /\ x = k)
<1> DEFINE old == S.tray[t]
           q == S.ntfs
           count == old.count + 1
           n == [tray |-> t, key |-> k, src |-> src, closed |-> FALSE, fading |-> FALSE,
                 hover |-> FALSE, timer |-> IF timeout > 0 THEN "running" ELSE "none",
                 limit |-> timeout, armed |-> timeout]
           T == [count |-> count, active |-> IF count = 1 THEN k ELSE old.active,
                 shown |-> old.shown \/ count = 1, swept |-> old.swept]
           p == Append(q, n)
           R == Add(S, t, k, src, timeout)
           tr == [S.tray EXCEPT ![t] = T]
           Q == [S EXCEPT !.ntfs = p]
<1>1. R = [Q EXCEPT !.tray = tr]
  <2>1. R = [S EXCEPT !.ntfs = Append(@, n), !.tray[t] = T]
    BY DEF Add
  <2> HIDE DEF n, T, R
  <2> QED BY <2>1 DEF NtfStates
<1>2. n \in Notifiers /\ n.tray = t /\ n.key = k /\ ~n.closed /\ n.limit = timeout
      /\ TicksOne(n)
  BY DEF Notifiers, TicksOne
<1> HIDE DEF n
<1>3. q \in Seq(Notifiers) /\ old \in TrayStates
  BY Parts DEF TrayLists
<1>4. p \in Seq(Notifiers) /\ DOMAIN p = 1..Len(q) + 1 /\ DOMAIN q = 1..Len(q)
      /\ p[Len(q) + 1] = n /\ \A j \in DOMAIN q : p[j] = q[j]
  BY <1>2, <1>3, AppendProperties
<1>5. T \in TrayStates /\ T.count = count /\ T.active = (IF count = 1 THEN k ELSE old.active)
      /\ T.shown = (old.shown \/ count = 1) /\ T.swept = old.swept
  BY <1>3 DEF TrayStates
<1> HIDE DEF p, T
<1>6. /\ tr \in TrayLists /\ tr[t] = T /\ \A u \in Trays : u # t => tr[u] = S.tray[u]
  BY <1>5, Parts DEF TrayLists
<1>7. Q \in NtfStates /\ Q.ntfs = p /\ Q.store = S.store /\ Q.tray = S.tray
      /\ Q.focused = S.focused /\ Q.source = S.source
  BY <1>4, SetField
<1> HIDE DEF tr, Q, R
<1>8. /\ R \in NtfStates /\ R.store = S.store /\ R.ntfs = p /\ R.tray = tr
      /\ R.focused = S.focused /\ R.source = S.source
  BY <1>1, <1>6, <1>7, SetField
<1>9. \A j \in DOMAIN p : (j \in DOMAIN q /\ p[j] = q[j]) \/ p[j] = n
  BY <1>3, <1>4
<1>10. \A j \in DOMAIN q : j \in DOMAIN p
  BY <1>3, <1>4
<1>11. Len(q) + 1 \in DOMAIN p
  BY <1>3, <1>4
<1>12. \A u, x : Has(R, u, x) <=> Has(S, u, x) \/ (u = t /\ x = k)
  <2>1. ASSUME NEW u, NEW x, Has(R, u, x) PROVE Has(S, u, x) \/ (u = t /\ x = k)
    <3>1. PICK j \in DOMAIN p : p[j].tray = u /\ p[j].key = x
      BY <1>8, <2>1, Found
    <3> QED BY <1>2, <1>9, <3>1, Found
  <2>2. ASSUME NEW u, NEW x, Has(S, u, x) PROVE Has(R, u, x)
    <3>1. PICK j \in DOMAIN q : q[j].tray = u /\ q[j].key = x
      BY <2>2, Found
    <3> QED BY <1>4, <1>8, <1>10, <3>1, Found
  <2>3. Has(R, t, k)
    BY <1>2, <1>4, <1>8, <1>11, Found
  <2> QED BY <2>1, <2>2, <2>3
<1>13. \A u, x : IsOpen(R, u, x) <=> IsOpen(S, u, x) \/ (u = t /\ x = k)
  <2>1. ASSUME NEW u, NEW x, IsOpen(R, u, x) PROVE IsOpen(S, u, x) \/ (u = t /\ x = k)
    <3>1. PICK j \in DOMAIN p : p[j].tray = u /\ p[j].key = x /\ ~p[j].closed
      BY <1>8, <2>1, Found
    <3> QED BY <1>2, <1>9, <3>1, Found
  <2>2. ASSUME NEW u, NEW x, IsOpen(S, u, x) PROVE IsOpen(R, u, x)
    <3>1. PICK j \in DOMAIN q : q[j].tray = u /\ q[j].key = x /\ ~q[j].closed
      BY <2>2, Found
    <3> QED BY <1>4, <1>8, <1>10, <3>1, Found
  <2>3. IsOpen(R, t, k)
    BY <1>2, <1>4, <1>8, <1>11, Found
  <2> QED BY <2>1, <2>2, <2>3
<1>14. Single(p)
  <2> SUFFICES ASSUME NEW i \in DOMAIN p, NEW j \in DOMAIN p,
                      p[i].tray = p[j].tray, p[i].key = p[j].key
               PROVE  i = j
    BY DEF Single
  <2>1. \A l \in DOMAIN q : ~(q[l].tray = t /\ q[l].key = k)
    BY Found
  <2>2. CASE i \in DOMAIN q /\ j \in DOMAIN q
    BY <1>4, <2>2 DEF Right, Single
  <2>3. CASE i \notin DOMAIN q \/ j \notin DOMAIN q
    <3>1. \A l \in DOMAIN p : l \notin DOMAIN q => l = Len(q) + 1 /\ p[l] = n
      BY <1>3, <1>4
    <3> QED BY <1>2, <1>4, <2>1, <2>3, <3>1
  <2> QED BY <2>2, <2>3
<1>15. Counted(R)
  <2> SUFFICES ASSUME NEW u \in Trays PROVE CountedOn(R, u)
    BY DEF Counted
  <2>0. CountedOn(S, u)
    BY DEF Right, Counted
  <2>1. CASE u # t
    <3>1. OpenIn(R, u) = OpenIn(S, u)
      BY <1>13, <2>1 DEF OpenIn
    <3>2. R.tray[u] = S.tray[u] /\ \A x : Has(R, u, x) <=> Has(S, u, x)
      BY <1>6, <1>8, <1>12, <2>1
    <3> QED BY <2>0, <3>1, <3>2 DEF CountedOn
  <2>2. CASE u = t
    <3>1. OpenIn(R, t) = OpenIn(S, t) \cup {k} /\ k \notin OpenIn(S, t)
      BY <1>13, Found DEF OpenIn
    <3>2. IsFiniteSet(OpenIn(S, t)) /\ Cardinality(OpenIn(S, t)) \in Nat /\ old.count \in Nat
      BY <1>3, <2>0, <2>2, FS_CardinalityType DEF CountedOn, TrayStates
    <3>3. IsFiniteSet(OpenIn(R, t)) /\ Cardinality(OpenIn(R, t)) = Cardinality(OpenIn(S, t)) + 1
      BY <3>1, <3>2, FS_AddElement
    <3>4. R.tray[t] = T
      BY <1>6, <1>8
    <3>5. T.count <= Cardinality(OpenIn(R, t))
          /\ (~T.swept => T.count = Cardinality(OpenIn(R, t)))
      BY <1>5, <2>0, <2>2, <3>2, <3>3 DEF CountedOn
    <3>6. ~T.swept => T.shown
      <4>1. ~old.swept /\ old.count > 0 => old.shown
        BY <2>0, <2>2 DEF CountedOn
      <4>2. count # 1 => old.count > 0
        BY <3>2
      <4> QED BY <1>5, <4>1, <4>2
    <3>7. T.count > 0 /\ T.active # Nobody /\ Has(R, t, T.active)
      <4>1. k # Nobody
        BY DEF NotifyAssumption
      <4>2. CASE count = 1
        BY <1>5, <1>12, <4>1, <4>2
      <4>3. CASE count # 1
        <5>1. old.count > 0 /\ T.active = old.active
          BY <1>5, <3>2, <4>3
        <5>2. old.active # Nobody /\ Has(S, t, old.active)
          BY <2>0, <2>2, <5>1 DEF CountedOn
        <5> QED BY <1>5, <1>12, <3>2, <5>1, <5>2
      <4> QED BY <4>2, <4>3
    <3> QED BY <2>2, <3>3, <3>4, <3>5, <3>6, <3>7 DEF CountedOn
  <2> QED BY <2>1, <2>2
<1>16. t = "normal" => Keyed(R)
  BY <1>6, <1>8 DEF Right, Keyed, Trays
<1>17. Ticks(R)
  BY <1>2, <1>8, <1>9 DEF Right, Ticks
<1>18. InStore(R, mv, top)
  <2>1. \A x \in Ids : Lasts(R.store[x]) /\ (x > top => R.store[x] = Nobody)
    BY <1>8 DEF Right, InStore
  <2>2. ASSUME NEW j \in DOMAIN p, p[j].key \in Ids
        PROVE  /\ p[j].key <= top
               /\ p[j].key \notin mv =>
                    /\ ~p[j].closed => R.store[p[j].key] # Nobody
                    /\ R.store[p[j].key] # Nobody => (p[j].tray = "urgent" <=> R.store[p[j].key].urgent)
    <3>1. CASE j \in DOMAIN q /\ p[j] = q[j]
      BY <1>8, <2>2, <3>1 DEF Right, InStore
    <3>2. CASE p[j] = n
      BY <1>2, <1>8, <2>2, <3>2
    <3> QED BY <1>9, <3>1, <3>2
  <2> QED BY <1>8, <2>1, <2>2 DEF InStore
<1> QED BY <1>8, <1>12, <1>14, <1>15, <1>16, <1>17, <1>18 DEF R

(***************************************************************************)
(* The invariant is kept, and what is closed stays closed.                 *)
(***************************************************************************)
ClosedStep ==
  \A id \in Ids :
    /\ id \notin Stored => \A t \in Trays : Has(NtfNow, t, id)' => Has(NtfNow, t, id)
    /\ id \notin Stored /\ id <= nextId => id \notin Stored'

LEMMA NowIs == ASSUME NEW R \in NtfStates, NtfBecome(R) PROVE NtfNow' = R
<1>1. R = [store |-> R.store, ntfs |-> R.ntfs, tray |-> R.tray, focused |-> R.focused,
           source |-> R.source]
  BY DEF NtfStates
<1> QED BY <1>1 DEF NtfBecome, NtfNow

LEMMA NowParts ==
  /\ NtfNow.store = store /\ NtfNow.ntfs = ntfs /\ NtfNow.tray = tray
  /\ NtfNow.focused = focused /\ NtfNow.source = source
BY DEF NtfNow

\* A handler that leaves a good state and adds no notifier but for what is stored, a
\* window or a volume that is mounted.
LEMMA Settles ==
  ASSUME NotifyAssumption, NtfInv, NEW R \in NtfStates, NtfBecome(R), Right(R, moved, nextId),
         \A id \in Ids : R.store[id] = store[id] \/ R.store[id] = Nobody,
         \A u \in Trays, x \in NtfKeys :
            Has(R, u, x) => Has(NtfNow, u, x) \/ x \in Stored \cup Windows \cup mounted',
         UNCHANGED <<nextId, moved, calls>>, asks' \in Seq(Ids), managed' \subseteq Windows,
         focus' \in Windows \cup {Nobody}, mounted \subseteq mounted', mounted' \subseteq Volumes
  PROVE  NtfInv' /\ ClosedStep
<1>1. NtfNow' = R
  BY NowIs
<1>2. \A u, x : Has(NtfNow, u, x)' <=> Has(R, u, x)
  BY <1>1
<1>3. Rest'
  <2>1. ASSUME NEW u \in Trays, NEW m \in Volumes, Has(NtfNow, u, m)' PROVE m \in mounted'
    <3>1. m \in NtfKeys /\ m \notin Stored \cup Windows
      BY DEF NotifyAssumption, NtfKeys, Stored
    <3>2. Has(R, u, m)
      BY <1>2, <2>1
    <3>3. Has(NtfNow, u, m) \/ m \in mounted'
      BY <3>1, <3>2
    <3> QED BY <3>3 DEF NtfInv, Rest
  <2> QED BY <2>1 DEF NtfInv, Rest
<1>4. NtfInv'
  BY <1>1, <1>3 DEF NtfInv
<1>5. ClosedStep
  <2> SUFFICES ASSUME NEW id \in Ids, id \notin Stored
               PROVE  /\ \A t \in Trays : Has(NtfNow, t, id)' => Has(NtfNow, t, id)
                      /\ id \notin Stored'
    BY DEF ClosedStep
  <2>1. id \in NtfKeys /\ id \notin Windows /\ id \notin Volumes
    BY DEF NotifyAssumption, NtfKeys
  <2>2. ASSUME NEW t \in Trays, Has(NtfNow, t, id)' PROVE Has(NtfNow, t, id)
    <3>1. Has(R, t, id)
      BY <1>2, <2>2
    <3> QED BY <2>1, <3>1
  <2>3. store' = R.store /\ store[id] = Nobody
    BY DEF NtfBecome, Stored
  <2>4. id \notin Stored'
    BY <2>3 DEF Stored
  <2> QED BY <2>2, <2>4
<1> QED BY <1>4, <1>5

LEMMA SafeSettles ==
  ASSUME NotifyAssumption, NtfInv, NEW R, NtfBecome(R), Safe(NtfNow, R, moved, nextId),
         UNCHANGED <<nextId, moved, calls>>, asks' \in Seq(Ids), managed' \subseteq Windows,
         focus' \in Windows \cup {Nobody}, UNCHANGED mounted
  PROVE  NtfInv' /\ ClosedStep
<1>1. R \in NtfStates /\ Right(R, moved, nextId) /\ Fewer(NtfNow, R)
  BY DEF Safe
<1>2. \A id \in Ids : R.store[id] = store[id] \/ R.store[id] = Nobody
  BY <1>1, NowParts DEF Fewer
<1>3. \A u \in Trays, x \in NtfKeys : Has(R, u, x) => Has(NtfNow, u, x)
  BY <1>1 DEF Fewer
<1>4. mounted \subseteq mounted' /\ mounted' \subseteq Volumes
  BY DEF NtfInv, Rest
<1> QED BY <1>1, <1>2, <1>3, <1>4, Settles

LEMMA NtfInitInv == ASSUME NotifyAssumption, NtfInit PROVE NtfInv
<1>1. NtfNow \in NtfStates
  <2>1. ntfs \in Seq(Notifiers) /\ store \in [Ids -> Messages \cup {Nobody}]
        /\ source \in Sources
    BY DEF NtfInit, Sources
  <2>2. tray \in [Trays -> TrayStates]
    BY DEF NtfInit, TrayStates
  <2>3. focused \in BOOLEAN
    BY DEF NtfInit
  <2> QED BY <2>1, <2>2, <2>3 DEF NtfNow, NtfStates
<1>2. NtfNow.ntfs = <<>> /\ DOMAIN NtfNow.ntfs = {}
  BY NowParts DEF NtfInit
<1>3. \A u, x : ~Has(NtfNow, u, x) /\ ~IsOpen(NtfNow, u, x)
  BY <1>2, Found
<1>4. Counted(NtfNow)
  <2> SUFFICES ASSUME NEW u \in Trays PROVE CountedOn(NtfNow, u)
    BY DEF Counted
  <2>1. OpenIn(NtfNow, u) = {}
    BY <1>3 DEF OpenIn
  <2>2. NtfNow.tray[u] = [count |-> 0, active |-> Nobody, shown |-> FALSE, swept |-> FALSE]
    BY NowParts DEF NtfInit
  <2> QED BY <2>1, <2>2, FS_EmptySet DEF CountedOn
<1>5. Single(NtfNow.ntfs) /\ Ticks(NtfNow)
  BY <1>2 DEF Single, Ticks
<1>6. Keyed(NtfNow)
  BY NowParts DEF NtfInit, Keyed, Trays
<1>7. InStore(NtfNow, moved, nextId)
  BY <1>2, NowParts DEF NtfInit, InStore, Lasts
<1>8. Rest
  BY <1>3 DEF NtfInit, Rest, NotifyAssumption
<1> QED BY <1>1, <1>4, <1>5, <1>6, <1>7, <1>8 DEF NtfInv, Right

LEMMA InvParts ==
  ASSUME NtfInv
  PROVE  /\ NtfNow \in NtfStates /\ Right(NtfNow, moved, nextId) /\ moved \in SUBSET Ids
         /\ asks \in Seq(Ids) /\ managed \subseteq Windows /\ focus \in Windows \cup {Nobody}
         /\ mounted \subseteq Volumes /\ ntfs \in Seq(Notifiers) /\ nextId \in Nat
         /\ \A i \in DOMAIN ntfs : ntfs[i].tray \in Trays /\ ntfs[i].key \in NtfKeys
<1>1. NtfNow \in NtfStates /\ Right(NtfNow, moved, nextId) /\ Rest
  BY DEF NtfInv
<1>2. ntfs \in Seq(Notifiers)
  BY <1>1, Parts, NowParts
<1>3. ASSUME NEW i \in DOMAIN ntfs PROVE ntfs[i].tray \in Trays /\ ntfs[i].key \in NtfKeys
  <2>1. ntfs[i] \in Notifiers
    BY <1>2, ElementOfSeq
  <2> QED BY <2>1 DEF Notifiers
<1> QED BY <1>1, <1>2, <1>3 DEF Rest

LEMMA CloseNotificationStep ==
  ASSUME NotifyAssumption, NtfInv, NEW id \in Ids, CloseNotification(id) \/ \E t : Action(t, id)
  PROVE  NtfInv' /\ ClosedStep
<1>1. NtfBecome(StoreClose(NtfNow, id)) /\ UNCHANGED Elsewhere
  BY DEF CloseNotification, Action
<1>2. Safe(NtfNow, StoreClose(NtfNow, id), moved, nextId)
  BY InvParts, StoreCloseSafe
<1> QED BY <1>1, <1>2, InvParts, SafeSettles DEF Elsewhere

LEMMA ClosedSettles ==
  ASSUME NotifyAssumption, NtfInv, NEW t \in Trays, NEW k \in NtfKeys, IsOpen(NtfNow, t, k),
         NtfBecome(Closed(NtfNow, t, k)), UNCHANGED Elsewhere
  PROVE  NtfInv' /\ ClosedStep
<1>1. Safe(NtfNow, Closed(NtfNow, t, k), moved, nextId)
  BY InvParts, ClosedSafe, Found
<1> QED BY <1>1, InvParts, SafeSettles DEF Elsewhere

LEMMA DismissStep ==
  ASSUME NotifyAssumption, NtfInv, NEW t \in Trays, NEW k \in NtfKeys, Dismiss(t, k)
  PROVE  NtfInv' /\ ClosedStep
BY ClosedSettles DEF Dismiss, Clickable

\* A timer that runs is that of an open notifier.
LEMMA TimesOutStep ==
  ASSUME NotifyAssumption, NtfInv, NEW t \in Trays, NEW k \in NtfKeys, TimesOut(t, k)
  PROVE  NtfInv' /\ ClosedStep
<1>1. PICK i \in Places(NtfNow, t, k) : ntfs[i].timer = "running"
  BY DEF TimesOut
<1>2. i \in DOMAIN ntfs /\ TicksOne(ntfs[i])
  BY <1>1, InvParts, NowParts DEF Places, Right, Ticks
<1>3. ~ntfs[i].closed
  BY <1>1, <1>2 DEF TicksOne
<1>4. IsOpen(NtfNow, t, k)
  BY <1>1, <1>3, NowParts DEF IsOpen
<1> QED BY <1>4, ClosedSettles DEF TimesOut

\* What changes one notifier.
LEMMA SetNotifierStep ==
  ASSUME NotifyAssumption, NtfInv, NEW i \in DOMAIN ntfs, NEW n \in Notifiers,
         n.tray = ntfs[i].tray, n.key = ntfs[i].key, n.closed = ntfs[i].closed, TicksOne(n),
         SetNotifier(i, n)
  PROVE  NtfInv' /\ ClosedStep
<1> DEFINE R == [NtfNow EXCEPT !.ntfs = [ntfs EXCEPT ![i] = n]]
<1>1. [ntfs EXCEPT ![i] = n] \in Seq(Notifiers)
  BY InvParts
<1>2. /\ R \in NtfStates /\ R.ntfs = [ntfs EXCEPT ![i] = n] /\ R.store = store /\ R.tray = tray
      /\ R.focused = focused /\ R.source = source
  <2>1. NtfNow \in NtfStates
    BY InvParts
  <2>2. /\ R \in NtfStates /\ R.ntfs = [ntfs EXCEPT ![i] = n] /\ R.store = NtfNow.store
        /\ R.tray = NtfNow.tray /\ R.focused = NtfNow.focused /\ R.source = NtfNow.source
    BY <1>1, <2>1, SetField
  <2> HIDE DEF R
  <2> QED BY <2>2, NowParts
<1> HIDE DEF R
<1>3. Safe(NtfNow, R, moved, nextId)
  BY <1>2, InvParts, NowParts, Touched
<1>4. NtfBecome(R) /\ UNCHANGED Elsewhere
  BY <1>2 DEF SetNotifier, NtfBecome
<1> QED BY <1>3, <1>4, InvParts, SafeSettles DEF Elsewhere

LEMMA EnterStep ==
  ASSUME NotifyAssumption, NtfInv, NEW t \in Trays, NEW k \in NtfKeys, Enter(t, k)
  PROVE  NtfInv' /\ ClosedStep
<1> DEFINE i == Place(NtfNow, t, k)
           n == [ntfs[i] EXCEPT !.hover = TRUE, !.timer = IF ntfs[i].limit > 0 THEN "none" ELSE @]
<1>1. SetNotifier(i, n) /\ IsOpen(NtfNow, t, k)
  BY DEF Enter, Clickable
<1>2. i \in DOMAIN ntfs /\ ntfs[i].tray = t /\ ntfs[i].key = k
  BY <1>1, Found, NowParts
<1>3. ~ntfs[i].closed
  <2>1. PICK j \in DOMAIN ntfs : ntfs[j].tray = t /\ ntfs[j].key = k /\ ~ntfs[j].closed
    BY <1>1, Found, NowParts
  <2>2. Single(ntfs)
    BY InvParts, NowParts DEF Right
  <2> QED BY <1>2, <2>1, <2>2 DEF Single
<1>4. ntfs[i] \in Notifiers /\ TicksOne(ntfs[i])
  BY <1>2, InvParts, NowParts, ElementOfSeq DEF Right, Ticks
<1> HIDE DEF i
<1>5. n \in Notifiers /\ n.tray = ntfs[i].tray /\ n.key = ntfs[i].key /\ n.closed = ntfs[i].closed
      /\ n.limit = ntfs[i].limit /\ n.hover
  BY <1>4 DEF Notifiers
<1> HIDE DEF n
<1>6. TicksOne(n)
  BY <1>3, <1>4, <1>5 DEF TicksOne
<1> QED BY <1>1, <1>2, <1>5, <1>6, SetNotifierStep DEF n, i

LEMMA LeaveStep ==
  ASSUME NotifyAssumption, NtfInv, NEW t \in Trays, NEW k \in NtfKeys, Leave(t, k)
  PROVE  NtfInv' /\ ClosedStep
<1>1. PICK i \in Places(NtfNow, t, k) :
        LET late == ntfs[i].limit < ntfs[i].armed
        IN /\ ntfs[i].hover
           /\ \E timer \in {"running"} \cup IF late THEN {"never"} ELSE {} :
                SetNotifier(i, [ntfs[i] EXCEPT
                  !.hover = FALSE,
                  !.timer = IF ntfs[i].limit = 0 \/ @ = "running" THEN @ ELSE timer,
                  !.armed = IF @ > 0 /\ ntfs[i].limit > @ THEN ntfs[i].limit ELSE @])
  BY DEF Leave
<1>2. PICK timer \in {"running", "never"} :
        SetNotifier(i, [ntfs[i] EXCEPT
                  !.hover = FALSE,
                  !.timer = IF ntfs[i].limit = 0 \/ @ = "running" THEN @ ELSE timer,
                  !.armed = IF @ > 0 /\ ntfs[i].limit > @ THEN ntfs[i].limit ELSE @])
  BY <1>1
<1> DEFINE n == [ntfs[i] EXCEPT
                  !.hover = FALSE,
                  !.timer = IF ntfs[i].limit = 0 \/ @ = "running" THEN @ ELSE timer,
                  !.armed = IF @ > 0 /\ ntfs[i].limit > @ THEN ntfs[i].limit ELSE @]
<1>3. i \in DOMAIN ntfs /\ ntfs[i].hover /\ SetNotifier(i, n)
  BY <1>1, <1>2, NowParts DEF Places
<1>4. ntfs[i] \in Notifiers /\ TicksOne(ntfs[i])
  BY <1>3, InvParts, NowParts, ElementOfSeq DEF Right, Ticks
<1>5. ~ntfs[i].closed
  BY <1>3, <1>4 DEF TicksOne
<1>6. n \in Notifiers /\ n.tray = ntfs[i].tray /\ n.key = ntfs[i].key /\ n.closed = ntfs[i].closed
      /\ n.limit = ntfs[i].limit
      /\ n.timer = IF ntfs[i].limit = 0 \/ ntfs[i].timer = "running" THEN ntfs[i].timer ELSE timer
  BY <1>4 DEF Notifiers
<1> HIDE DEF n
<1>7. TicksOne(n)
  BY <1>4, <1>5, <1>6 DEF TicksOne
<1> QED BY <1>3, <1>6, <1>7, SetNotifierStep

LEMMA FadeDoneStep ==
  ASSUME NotifyAssumption, NtfInv, NEW t \in Trays, NEW k \in NtfKeys, FadeDone(t, k)
  PROVE  NtfInv' /\ ClosedStep
<1>1. PICK i \in Places(NtfNow, t, k) : ntfs' = [ntfs EXCEPT ![i].fading = FALSE]
  BY DEF FadeDone
<1> DEFINE n == [ntfs[i] EXCEPT !.fading = FALSE]
           q == [ntfs EXCEPT ![i] = n]
           T == [tray[t] EXCEPT !.shown = @ /\ tray[t].count # 0]
           tr == [tray EXCEPT ![t] = T]
           R == [[NtfNow EXCEPT !.ntfs = q] EXCEPT !.tray = tr]
<1>2. i \in DOMAIN ntfs /\ ntfs' = q
  BY <1>1, NowParts DEF Places
<1>3. ntfs[i] \in Notifiers /\ TicksOne(ntfs[i])
  BY <1>2, InvParts, NowParts, ElementOfSeq DEF Right, Ticks
<1>4. n \in Notifiers /\ n.tray = ntfs[i].tray /\ n.key = ntfs[i].key /\ n.closed = ntfs[i].closed
      /\ TicksOne(n)
  BY <1>3 DEF Notifiers, TicksOne
<1> HIDE DEF n
<1>5. q \in Seq(Notifiers)
  BY <1>2, <1>4, InvParts
<1>6. tray \in TrayLists /\ tray[t] \in TrayStates
  BY InvParts, Parts, NowParts DEF TrayLists
<1>7. /\ T \in TrayStates /\ T.count = tray[t].count /\ T.active = tray[t].active
      /\ T.swept = tray[t].swept /\ (T.count > 0 => T.shown = tray[t].shown)
  <2> DEFINE b == tray[t].shown /\ tray[t].count # 0
  <2>1. b \in BOOLEAN /\ tray[t].count \in Nat /\ (tray[t].count > 0 => b = tray[t].shown)
    BY <1>6 DEF TrayStates
  <2>2. T = [tray[t] EXCEPT !.shown = b]
    BY <1>6 DEF TrayStates
  <2> HIDE DEF b, T
  <2> QED BY <1>6, <2>1, <2>2 DEF TrayStates
<1>8. tray' = tr
  BY <1>6 DEF FadeDone, TrayStates, TrayLists
<1> HIDE DEF T
<1>9. /\ tr \in TrayLists /\ tr[t] = T /\ \A u \in Trays : u # t => tr[u] = tray[u]
  BY <1>6, <1>7 DEF TrayLists
<1> HIDE DEF tr
<1>10. /\ R \in NtfStates /\ R.ntfs = q /\ R.store = store /\ R.tray = tr
       /\ R.focused = focused /\ R.source = source
  <2> DEFINE Q == [NtfNow EXCEPT !.ntfs = q]
  <2>1. /\ Q \in NtfStates /\ Q.ntfs = q /\ Q.store = store
        /\ Q.focused = focused /\ Q.source = source
    <3> HIDE DEF q
    <3> QED BY <1>5, InvParts, NowParts, SetField
  <2> HIDE DEF Q, q
  <2>2. R = [Q EXCEPT !.tray = tr]
    BY DEF Q
  <2> HIDE DEF R
  <2> QED BY <1>9, <2>1, <2>2, SetField
<1> HIDE DEF R
<1>11. Safe(NtfNow, R, moved, nextId)
  <2>1. \A u \in Trays : /\ R.tray[u].count = tray[u].count
                         /\ R.tray[u].active = tray[u].active
                         /\ R.tray[u].swept = tray[u].swept
                         /\ R.tray[u].count > 0 => R.tray[u].shown = tray[u].shown
    BY <1>7, <1>9, <1>10
  <2> QED BY <1>2, <1>4, <1>10, <2>1, InvParts, NowParts, Touched
<1>12. NtfBecome(R) /\ UNCHANGED Elsewhere
  BY <1>2, <1>8, <1>10 DEF FadeDone, NtfBecome
<1> QED BY <1>11, <1>12, InvParts, SafeSettles DEF Elsewhere

-----------------------------------------------------------------------------
\* A message is stored under an id that no notifier has, or under its own.
LEMMA AllowedIs ==
  ASSUME NEW u \in BOOLEAN, NEW r \in Int
  PROVE  Allowed(u, r) \in Nat /\ (~u => Allowed(u, r) > 0)
BY DEF Allowed, Default

LEMMA MessageStep ==
  ASSUME NotifyAssumption, NtfInv, NEW id \in 0..nextId, NEW a \in Apps, NEW u \in BOOLEAN,
         NEW r \in Lifetimes, Notify(id, a, u, r)
  PROVE  NtfInv' /\ ClosedStep
<1> DEFINE known == id # 0 /\ store[id] # Nobody
           i == IF known THEN id ELSE nextId + 1
           m == [urgent |-> u, app |-> a, timeout |-> Allowed(u, r)]
           d == [store EXCEPT ![i] = m]
           R == [NtfNow EXCEPT !.store = d]
<1>1. /\ calls < MaxCalls /\ calls' = calls + 1 /\ store' = d
      /\ nextId' = (IF known THEN nextId ELSE i) /\ asks' = Append(asks, i)
      /\ moved' = IF known /\ store[i].urgent # u THEN moved \cup {i} ELSE moved
      /\ UNCHANGED <<ntfs, tray, focused, source, managed, focus, mounted>>
  BY DEF Notify
<1>2. /\ nextId \in 0..calls /\ calls \in 0..MaxCalls /\ MaxCalls \in Nat /\ asks \in Seq(Ids)
      /\ moved \in SUBSET Ids
  BY DEF NtfInv, Rest, NotifyAssumption
<1>3. store \in [Ids -> Messages \cup {Nobody}]
  BY InvParts, Parts, NowParts
<1>4. i \in Ids /\ nextId' \in 0..calls' /\ calls' \in 0..MaxCalls /\ i <= nextId' /\ nextId <= nextId'
  BY <1>1, <1>2 DEF Ids
<1>5. m \in Messages /\ Lasts(m) /\ m # Nobody /\ m.urgent = u
  <2>1. Allowed(u, r) \in Nat /\ (~u => Allowed(u, r) > 0)
    BY AllowedIs DEF NotifyAssumption
  <2> QED BY <2>1 DEF Messages, Lasts, NotifyAssumption
<1>6. known => store[i] # Nobody /\ i = id
  OBVIOUS
<1>7. ~known => i = nextId + 1
  OBVIOUS
<1> HIDE DEF m
<1>8. d \in [Ids -> Messages \cup {Nobody}] /\ d[i] = m /\ \A x \in Ids : x # i => d[x] = store[x]
  BY <1>3, <1>4, <1>5
<1> HIDE DEF d, i, known
<1>9. /\ R \in NtfStates /\ R.ntfs = ntfs /\ R.store = d /\ R.tray = tray
      /\ R.focused = focused /\ R.source = source
  BY <1>8, InvParts, NowParts, SetField
<1> HIDE DEF R
<1>10. NtfNow' = R
  <2>1. NtfBecome(R)
    BY <1>1, <1>9 DEF NtfBecome
  <2> QED BY <1>9, <2>1, NowIs
<1>11. Right(NtfNow, moved, nextId)
  BY InvParts
<1>12. InStore(NtfNow, moved, nextId)
  BY <1>11 DEF Right
<1>13. InStore(R, moved', nextId')
  <2>1. ASSUME NEW x \in Ids PROVE Lasts(R.store[x]) /\ (x > nextId' => R.store[x] = Nobody)
    <3>1. Lasts(store[x]) /\ (x > nextId => store[x] = Nobody)
      BY <1>12, NowParts DEF InStore
    <3>2. CASE x = i
      <4>1. ~(x > nextId')
        BY <3>2, <1>2, <1>4 DEF Ids
      <4> QED BY <1>5, <1>8, <1>9, <3>2, <4>1
    <3>3. CASE x # i
      <4>1. x > nextId' => x > nextId
        BY <1>2, <1>4 DEF Ids
      <4> QED BY <1>8, <1>9, <3>1, <3>3, <4>1
    <3> QED BY <3>2, <3>3
  <2>2. ASSUME NEW j \in DOMAIN ntfs, ntfs[j].key \in Ids
        PROVE  /\ ntfs[j].key <= nextId'
               /\ ntfs[j].key \notin moved' =>
                    /\ ~ntfs[j].closed => R.store[ntfs[j].key] # Nobody
                    /\ R.store[ntfs[j].key] # Nobody => (ntfs[j].tray = "urgent" <=> R.store[ntfs[j].key].urgent)
    <3> DEFINE n == ntfs[j]
               x == n.key
    <3>1. /\ x <= nextId
          /\ x \notin moved =>
               /\ ~n.closed => store[x] # Nobody
               /\ store[x] # Nobody => (n.tray = "urgent" <=> store[x].urgent)
      BY <2>2, <1>12, NowParts DEF InStore
    <3>2. x <= nextId'
      BY <3>1, <2>2, <1>2, <1>4 DEF Ids
    <3>3. x = i => known
      BY <3>1, <1>7, <1>2, <2>2 DEF Ids
    <3>4. CASE x # i
      <4>1. x \notin moved' => x \notin moved
        BY <1>1
      <4> QED BY <1>8, <1>9, <2>2, <3>1, <3>2, <3>4, <4>1
    <3>5. CASE x = i
      <4>1. x \notin moved' => x \notin moved /\ store[x].urgent = u
        BY <1>1, <3>3, <3>5
      <4>2. store[x] # Nobody /\ R.store[x] = m
        BY <1>6, <1>8, <1>9, <3>3, <3>5
      <4> QED BY <1>5, <3>1, <3>2, <4>1, <4>2
    <3> QED BY <3>4, <3>5
  <2> QED BY <1>9, <2>1, <2>2 DEF InStore
<1>14. Right(R, moved', nextId')
  <2>1. R.ntfs = NtfNow.ntfs /\ R.tray = NtfNow.tray /\ R.focused = NtfNow.focused
    BY <1>9, NowParts
  <2>2. Single(R.ntfs) /\ Counted(R) /\ Ticks(R)
    BY <2>1, <1>11, SameNotifiers DEF Right
  <2>3. Keyed(R)
    BY <2>1, <1>11 DEF Right, Keyed
  <2> QED BY <1>13, <2>2, <2>3 DEF Right
<1>15. \A w, x : Has(NtfNow, w, x)' <=> Has(NtfNow, w, x)
  <2>1. R.ntfs = NtfNow.ntfs
    BY <1>9, NowParts
  <2> QED BY <1>10, <2>1, SameNotifiers
<1>16. Rest'
  <2>1. asks' \in Seq(Ids)
    BY <1>1, <1>2, <1>4
  <2>2. moved' \subseteq Ids
    BY <1>1, <1>2, <1>4
  <2>3. \A w \in Trays, x \in Volumes : Has(NtfNow, w, x)' => x \in mounted'
    BY <1>1, <1>15 DEF NtfInv, Rest
  <2> QED BY <1>1, <1>4, <2>1, <2>2, <2>3 DEF NtfInv, Rest
<1>17. NtfInv'
  BY <1>9, <1>10, <1>14, <1>16 DEF NtfInv
<1>18. ClosedStep
  <2> SUFFICES ASSUME NEW x \in Ids, x \notin Stored, x <= nextId PROVE x \notin Stored'
    BY <1>15 DEF ClosedStep
  <2>1. store[x] = Nobody
    BY DEF Stored
  <2>2. x # i
    <3>1. CASE known
      BY <3>1, <1>6, <2>1
    <3>2. CASE ~known
      BY <3>2, <1>7, <1>2 DEF Ids
    <3> QED BY <3>1, <3>2
  <2>3. store'[x] = Nobody
    BY <1>1, <1>8, <2>1, <2>2
  <2> QED BY <2>3 DEF Stored
<1> QED BY <1>17, <1>18

\* Finding or making an application's source changes nothing else.
LEMMA SourceIs ==
  ASSUME NEW S \in NtfStates, NEW a \in Apps, managed \subseteq Windows
  PROVE  LET W == WithSource(S, a)
         IN /\ W \in NtfStates /\ W.store = S.store /\ W.ntfs = S.ntfs /\ W.tray = S.tray
            /\ W.focused = S.focused /\ SourceOf(W, a) \in Windows \cup {Nobody}
<1> DEFINE W == WithSource(S, a)
           d == [S.source EXCEPT ![a] = IF a \in managed THEN "window" ELSE "bare"]
<1>1. S.source \in Sources
  BY Parts
<1>2. d \in Sources
  BY <1>1 DEF Sources
<1>3. W = IF S.source[a] # "none" THEN S ELSE [S EXCEPT !.source = d]
  BY DEF WithSource
<1> HIDE DEF d, W
<1>4. /\ W \in NtfStates /\ W.store = S.store /\ W.ntfs = S.ntfs /\ W.tray = S.tray
      /\ W.focused = S.focused
  BY <1>2, <1>3, SetField
<1>5. W.source \in Sources
  BY <1>4, Parts
<1>6. SourceOf(W, a) \in Windows \cup {Nobody}
  BY <1>5 DEF SourceOf, Sources
<1> QED BY <1>4, <1>6 DEF W

LEMMA LocalIs ==
  ASSUME NEW S \in NtfStates, NEW a \in Apps, managed \subseteq Windows
  PROVE  LET W == WithLocal(S, a)
         IN /\ W \in NtfStates /\ W.store = S.store /\ W.ntfs = S.ntfs /\ W.tray = S.tray
            /\ W.focused = S.focused /\ LocalOf(W, a) \in Windows \cup {Nobody}
BY SourceIs DEF WithLocal, LocalOf

LEMMA SameRight ==
  ASSUME NEW S, NEW R, NEW mv, NEW top, Right(S, mv, top), R.store = S.store, R.ntfs = S.ntfs,
         R.tray = S.tray, R.focused = S.focused
  PROVE  Right(R, mv, top)
<1>1. Single(R.ntfs) /\ Counted(R) /\ Ticks(R)
  BY SameNotifiers DEF Right
<1>2. Keyed(R) /\ InStore(R, mv, top)
  BY DEF Right, Keyed, InStore
<1> QED BY <1>1, <1>2 DEF Right

LEMMA AnnounceKeeps ==
  ASSUME NotifyAssumption, NtfInv, NEW id \in Ids, store[id] # Nobody
  PROVE  LET R == Announce(NtfNow, id)
         IN /\ R \in NtfStates /\ Right(R, moved, nextId)
            /\ \A x \in Ids : R.store[x] = store[x] \/ R.store[x] = Nobody
            /\ \A u \in Trays, x \in NtfKeys : Has(R, u, x) => Has(NtfNow, u, x) \/ x = id
<1> DEFINE entry == store[id]
           t == IF entry.urgent THEN "urgent" ELSE "normal"
           R == Announce(NtfNow, id)
<1>0. NtfNow \in NtfStates /\ Right(NtfNow, moved, nextId) /\ managed \subseteq Windows
  BY InvParts
<1>1. entry \in Messages
  <2>1. store \in [Ids -> Messages \cup {Nobody}]
    BY <1>0, Parts, NowParts
  <2> QED BY <2>1
<1>2. t \in Trays /\ entry.timeout \in Nat /\ entry.app \in Apps
      /\ (t = "urgent" <=> entry.urgent)
  BY <1>1 DEF Messages, Trays
<1>3. id <= nextId /\ (t = "normal" => entry.timeout > 0)
  <2>1. Lasts(entry) /\ (id > nextId => entry = Nobody)
    BY <1>0, NowParts DEF Right, InStore
  <2> QED BY <1>2, <2>1, InvParts DEF Lasts, Ids
<1>4. CASE Has(NtfNow, t, id)
  <2> DEFINE i == Place(NtfNow, t, id)
             n == [ntfs[i] EXCEPT !.limit = entry.timeout]
             q == [ntfs EXCEPT ![i] = n]
  <2>1. i \in DOMAIN ntfs /\ ntfs[i].tray = t /\ ntfs[i].key = id
    BY <1>4, Found, NowParts
  <2>2. ntfs[i] \in Notifiers /\ TicksOne(ntfs[i])
    BY <2>1, <1>0, InvParts, NowParts, ElementOfSeq DEF Right, Ticks
  <2>3. R = [NtfNow EXCEPT !.ntfs = q]
    BY <1>4, NowParts DEF Announce
  <2> HIDE DEF i
  <2>4. n \in Notifiers /\ n.tray = ntfs[i].tray /\ n.key = ntfs[i].key /\ n.closed = ntfs[i].closed
        /\ n.hover = ntfs[i].hover /\ n.timer = ntfs[i].timer /\ n.limit = entry.timeout
    BY <1>2, <2>2 DEF Notifiers
  <2> HIDE DEF n
  <2>5. TicksOne(n)
    BY <1>2, <1>3, <2>1, <2>2, <2>4 DEF TicksOne
  <2>6. q \in Seq(Notifiers)
    BY <2>1, <2>4, InvParts
  <2> HIDE DEF R
  <2>7. R \in NtfStates /\ R.ntfs = q /\ R.store = NtfNow.store /\ R.tray = NtfNow.tray
        /\ R.focused = NtfNow.focused
    <3> HIDE DEF q
    <3> QED BY <1>0, <2>3, <2>6, SetField
  <2>8. Safe(NtfNow, R, moved, nextId)
    BY <1>0, <2>1, <2>4, <2>5, <2>7, NowParts, Touched
  <2> QED BY <2>8, NowParts DEF R, Safe, Fewer
<1>5. CASE ~Has(NtfNow, t, id)
  <2> DEFINE W == WithLocal(NtfNow, entry.app)
             src == LocalOf(W, entry.app)
             A == Add(W, t, id, src, entry.timeout)
  <2>1. R = UpdateModal(A)
    BY <1>5, NowParts DEF Announce
  <2>2. /\ W \in NtfStates /\ W.store = store /\ W.ntfs = ntfs /\ W.tray = tray
        /\ W.focused = focused /\ src \in Windows \cup {Nobody}
    BY <1>0, <1>2, LocalIs, NowParts
  <2> HIDE DEF W, src
  <2>3. Right(W, moved, nextId) /\ \A u, x : Has(W, u, x) <=> Has(NtfNow, u, x)
    BY <1>0, <2>2, SameRight, SameNotifiers, NowParts
  <2>4. id \in NtfKeys
    BY DEF NtfKeys
  <2>5. /\ A \in NtfStates /\ A.store = store
        /\ Single(A.ntfs) /\ Counted(A) /\ InStore(A, moved, nextId) /\ Ticks(A)
        /\ \A u, x : Has(A, u, x) => Has(W, u, x) \/ (u = t /\ x = id)
    <3> HIDE DEF t
    <3> QED BY <1>2, <1>3, <1>5, <2>2, <2>3, <2>4, AddKeeps
  <2> HIDE DEF A, t, R
  <2>6. Safe(A, UpdateModal(A), moved, nextId) /\ UpdateModal(A).store = A.store
        /\ UpdateModal(A).ntfs = A.ntfs
    BY <2>5, ModalSafe
  <2>7. \A u, x : Has(R, u, x) => Has(NtfNow, u, x) \/ x = id
    BY <2>1, <2>3, <2>5, <2>6, SameNotifiers
  <2> QED BY <2>1, <2>5, <2>6, <2>7 DEF R, Safe
<1> QED BY <1>4, <1>5

LEMMA PidStep ==
  ASSUME NotifyAssumption, NtfInv, PidReply \/ PidFails
  PROVE  NtfInv' /\ ClosedStep
<1> DEFINE R == IF PidReply /\ store[Head(asks)] # Nobody THEN Announce(NtfNow, Head(asks)) ELSE NtfNow
<1>1. asks # <<>> /\ asks \in Seq(Ids) /\ asks' = Tail(asks) /\ UNCHANGED <<nextId, managed, focus, mounted, moved, calls>>
  BY InvParts DEF PidReply, PidFails
<1>2. Head(asks) \in Ids /\ asks' \in Seq(Ids)
  BY <1>1
<1>3. NtfBecome(R)
  <2>1. CASE PidReply
    BY <2>1 DEF PidReply
  <2>2. CASE PidFails /\ ~PidReply
    BY <2>2, NowParts DEF PidFails, NtfBecome
  <2> QED BY <2>1, <2>2
<1>4. /\ R \in NtfStates /\ Right(R, moved, nextId)
      /\ \A x \in Ids : R.store[x] = store[x] \/ R.store[x] = Nobody
      /\ \A u \in Trays, x \in NtfKeys : Has(R, u, x) => Has(NtfNow, u, x) \/ x \in Stored
  <2>1. CASE PidReply /\ store[Head(asks)] # Nobody
    <3>1. Head(asks) \in Stored
      BY <1>2, <2>1 DEF Stored
    <3> HIDE DEF R
    <3>2. R = Announce(NtfNow, Head(asks))
      BY <2>1 DEF R
    <3> QED BY <1>2, <2>1, <3>1, <3>2, AnnounceKeeps
  <2>2. CASE ~(PidReply /\ store[Head(asks)] # Nobody)
    BY <2>2, InvParts, NowParts
  <2> QED BY <2>1, <2>2
<1> HIDE DEF R
<1>5. /\ managed' \subseteq Windows /\ focus' \in Windows \cup {Nobody}
      /\ mounted \subseteq mounted' /\ mounted' \subseteq Volumes
  BY <1>1, InvParts
<1> QED BY <1>1, <1>2, <1>3, <1>4, <1>5, Settles

\* What the loop of "Dismiss All" starts from: the tray hidden and marked.
LEMMA HiddenIs ==
  ASSUME NtfInv, NEW t \in Trays
  PROVE  LET H == [NtfNow EXCEPT !.tray[t] = [@ EXCEPT !.shown = FALSE, !.swept = TRUE]]
         IN /\ H \in NtfStates /\ H.store = store /\ H.ntfs = ntfs
            /\ H.tray[t].swept /\ Right(H, moved, nextId)
<1> DEFINE T == [tray[t] EXCEPT !.shown = FALSE, !.swept = TRUE]
           tr == [tray EXCEPT ![t] = T]
           H == [NtfNow EXCEPT !.tray[t] = [@ EXCEPT !.shown = FALSE, !.swept = TRUE]]
<1>0. NtfNow \in NtfStates /\ Right(NtfNow, moved, nextId)
  BY InvParts
<1>1. tray \in TrayLists /\ tray[t] \in TrayStates
  BY <1>0, Parts, NowParts DEF TrayLists
<1>2. /\ T \in TrayStates /\ T.count = tray[t].count /\ T.active = tray[t].active /\ T.swept
  BY <1>1 DEF TrayStates
<1>3. H = [NtfNow EXCEPT !.tray = tr]
  BY DEF NtfNow
<1> HIDE DEF T, H
<1>4. tr \in TrayLists /\ tr[t] = T /\ \A u \in Trays : u # t => tr[u] = tray[u]
  BY <1>1, <1>2 DEF TrayLists
<1> HIDE DEF tr
<1>5. /\ H \in NtfStates /\ H.store = store /\ H.ntfs = ntfs /\ H.tray = tr /\ H.focused = focused
  BY <1>0, <1>3, <1>4, SetField, NowParts
<1>6. /\ Single(H.ntfs) /\ Ticks(H) /\ \A u, x : Has(H, u, x) <=> Has(NtfNow, u, x)
      /\ \A u : OpenIn(H, u) = OpenIn(NtfNow, u)
  BY <1>0, <1>5, SameNotifiers, NowParts DEF Right
<1>7. Counted(H)
  <2> SUFFICES ASSUME NEW u \in Trays PROVE CountedOn(H, u)
    BY DEF Counted
  <2>1. CountedOn(NtfNow, u)
    BY <1>0 DEF Right, Counted
  <2> QED BY <1>2, <1>4, <1>5, <1>6, <2>1, NowParts DEF CountedOn
<1>8. Keyed(H) /\ InStore(H, moved, nextId)
  <2>1. H.tray["urgent"].count = tray["urgent"].count
    BY <1>2, <1>4, <1>5 DEF Trays
  <2> QED BY <1>0, <1>5, <2>1, NowParts DEF Right, Keyed, InStore
<1> QED BY <1>2, <1>4, <1>5, <1>6, <1>7, <1>8 DEF Right, H

LEMMA DismissAllStep ==
  ASSUME NotifyAssumption, NtfInv, NEW t \in Trays, DismissAll(t)
  PROVE  NtfInv' /\ ClosedStep
<1> DEFINE Step(S, n) == IF n.tray = t /\ \A i \in Children(ntfs, t) : Has(S, t, ntfs[i].key)
                         THEN Closed(S, t, n.key) ELSE S
           hidden == [NtfNow EXCEPT !.tray[t] = [@ EXCEPT !.shown = FALSE, !.swept = TRUE]]
           N == Len(ntfs)
           F(h) == [i \in 0..N |-> IF i = 0 THEN hidden ELSE Step(h[i - 1], ntfs[i])]
           after == CHOOSE h : h = F(h)
           D == {R \in NtfStates : Right(R, moved, nextId) /\ Fewer(hidden, R)}
           g == [i \in 1..N |-> [S \in D |-> Step(S, ntfs[i])]]
<1>1. NtfBecome(after[N]) /\ UNCHANGED Elsewhere
  BY DEF DismissAll
<1>2. /\ hidden \in NtfStates /\ hidden.store = store /\ hidden.ntfs = ntfs
      /\ hidden.tray[t].swept /\ Right(hidden, moved, nextId)
  BY HiddenIs
<1>3. ntfs \in Seq(Notifiers) /\ N \in Nat /\ DOMAIN ntfs = 1..N /\ moved \in SUBSET Ids
  BY InvParts
<1> HIDE DEF hidden
<1>4. hidden \in D
  BY <1>2 DEF Fewer
<1>5. ASSUME NEW i \in 1..N, NEW S \in D PROVE Step(S, ntfs[i]) \in D
  <2>1. S \in NtfStates /\ Right(S, moved, nextId) /\ Fewer(hidden, S)
    OBVIOUS
  <2>2. CASE ntfs[i].tray = t /\ \A j \in Children(ntfs, t) : Has(S, t, ntfs[j].key)
    <3>1. Has(S, t, ntfs[i].key) /\ ntfs[i].key \in NtfKeys
      BY <1>3, <2>2, InvParts DEF Children
    <3>2. S.tray[t].swept
      BY <1>2, <2>1 DEF Fewer
    <3>3. Safe(S, Closed(S, t, ntfs[i].key), moved, nextId)
      BY <1>3, <2>1, <3>1, <3>2, ClosedSafe
    <3>4. Step(S, ntfs[i]) = Closed(S, t, ntfs[i].key)
      BY <2>2
    <3> HIDE DEF Step
    <3> QED BY <2>1, <3>3, <3>4, FewerYet DEF Safe
  <2>3. CASE ~(ntfs[i].tray = t /\ \A j \in Children(ntfs, t) : Has(S, t, ntfs[j].key))
    BY <2>3
  <2> QED BY <2>2, <2>3
<1> HIDE DEF Step, D
<1>6. g \in StepsIn(D, N)
  BY <1>5 DEF StepsIn
<1>7. PICK h \in PathsIn(D, N) : h[0] = hidden /\ \A n \in 1..N : h[n] = g[n][h[n - 1]]
  <2> HIDE DEF g, N
  <2> QED BY <1>3, <1>4, <1>6, Runs
<1>8. h = F(h)
  <2>1. \A n \in 1..N : n - 1 \in 0..N
    BY <1>3
  <2>2. \A n \in 1..N : h[n] = Step(h[n - 1], ntfs[n])
    BY <1>7, <2>1 DEF PathsIn
  <2>3. \A n \in 0..N : h[n] = IF n = 0 THEN hidden ELSE Step(h[n - 1], ntfs[n])
    BY <1>3, <1>7, <2>2
  <2>4. h \in [0..N -> D]
    BY <1>7 DEF PathsIn
  <2> HIDE DEF g
  <2> QED BY <2>3, <2>4
<1>9. after = F(after)
  <2> HIDE DEF F
  <2> QED BY <1>8
<1> HIDE DEF after
<1>10. after[0] = hidden /\ \A n \in 1..N : after[n] = Step(after[n - 1], ntfs[n])
  <2>1. 0 \in 0..N /\ \A n \in 1..N : n \in 0..N /\ n # 0
    BY <1>3
  <2>2. after[0] = F(after)[0] /\ \A n \in 1..N : after[n] = F(after)[n]
    <3> HIDE DEF F
    <3> QED BY <1>9
  <2> QED BY <2>1, <2>2
<1>11. after[N] \in D
  BY <1>3, <1>4, <1>5, <1>10, Stays
<1>12. after[N] \in NtfStates /\ Right(after[N], moved, nextId) /\ Fewer(hidden, after[N])
  BY <1>11 DEF D
<1>13. \A u \in Trays, x \in NtfKeys : Has(after[N], u, x) => Has(NtfNow, u, x)
  BY <1>2, <1>12, SameNotifiers, NowParts DEF Fewer
<1>14. \A x \in Ids : after[N].store[x] = store[x] \/ after[N].store[x] = Nobody
  BY <1>2, <1>12 DEF Fewer
<1>15. /\ UNCHANGED <<nextId, moved, calls>> /\ asks' \in Seq(Ids) /\ managed' \subseteq Windows
       /\ focus' \in Windows \cup {Nobody}
       /\ mounted \subseteq mounted' /\ mounted' \subseteq Volumes
  BY <1>1, InvParts DEF Elsewhere
<1> QED BY <1>1, <1>12, <1>13, <1>14, <1>15, Settles

-----------------------------------------------------------------------------
\* Windows and mounts.

LEMMA ClearSafe ==
  ASSUME NotifyAssumption, NtfInv, NEW w \in Windows
  PROVE  Safe(NtfNow, ClearAttention(NtfNow, w), moved, nextId)
<1>1. "normal" \in Trays /\ w \in NtfKeys
  BY DEF Trays, NtfKeys
<1> QED BY <1>1, InvParts, CloseOpenSafe DEF ClearAttention

LEMMA FocusStep ==
  ASSUME NotifyAssumption, NtfInv, NEW w \in managed \cup {Nobody}, Focus(w)
  PROVE  NtfInv' /\ ClosedStep
<1> DEFINE R == IF w = Nobody THEN NtfNow ELSE ClearAttention(NtfNow, w)
<1>1. /\ NtfBecome(R) /\ focus' = w /\ UNCHANGED <<nextId, asks, managed, mounted, moved, calls>>
  BY DEF Focus
<1>2. w \in Windows \cup {Nobody}
  BY InvParts
<1>3. Safe(NtfNow, R, moved, nextId)
  <2>1. CASE w = Nobody
    BY <2>1, InvParts DEF Safe, Fewer
  <2>2. CASE w # Nobody
    BY <1>2, <2>2, ClearSafe
  <2> QED BY <2>1, <2>2
<1> HIDE DEF R
<1> QED BY <1>1, <1>2, <1>3, InvParts, SafeSettles

LEMMA AttentionEndsStep ==
  ASSUME NotifyAssumption, NtfInv, NEW w \in Windows, AttentionEnds(w)
  PROVE  NtfInv' /\ ClosedStep
BY ClearSafe, InvParts, SafeSettles DEF AttentionEnds, Elsewhere

\* The handlers that add to the normal tray what is no message.
LEMMA AddSettles ==
  ASSUME NotifyAssumption, NtfInv, NEW S \in NtfStates, Right(S, moved, nextId),
         S.store = store, S.ntfs = ntfs,
         NEW k \in Windows \cup mounted', ~Has(NtfNow, "normal", k), NEW src \in Windows \cup {Nobody},
         NEW timeout \in Nat, NtfBecome(Add(S, "normal", k, src, timeout)),
         UNCHANGED <<nextId, asks, managed, focus, moved, calls>>,
         mounted \subseteq mounted', mounted' \subseteq Volumes
  PROVE  NtfInv' /\ ClosedStep
<1> DEFINE R == Add(S, "normal", k, src, timeout)
<1>1. "normal" \in Trays /\ k \in NtfKeys /\ k \notin Ids
  BY DEF Trays, NtfKeys, NotifyAssumption
<1>2. \A u, x : Has(S, u, x) <=> Has(NtfNow, u, x)
  BY SameNotifiers, NowParts
<1>3. /\ R \in NtfStates /\ R.store = S.store
      /\ Single(R.ntfs) /\ Counted(R) /\ InStore(R, moved, nextId) /\ Ticks(R) /\ Keyed(R)
      /\ \A u, x : Has(R, u, x) => Has(S, u, x) \/ (u = "normal" /\ x = k)
  BY <1>1, <1>2, AddKeeps
<1> HIDE DEF R
<1>4. NtfBecome(R) /\ Right(R, moved, nextId)
  BY <1>3 DEF R, Right
<1>5. \A u \in Trays, x \in NtfKeys : Has(R, u, x) => Has(NtfNow, u, x) \/ x \in Stored \cup Windows \cup mounted'
  BY <1>2, <1>3
<1>6. asks' \in Seq(Ids) /\ managed' \subseteq Windows /\ focus' \in Windows \cup {Nobody}
  BY InvParts
<1> QED BY <1>3, <1>4, <1>5, <1>6, Settles

LEMMA AttentionStep ==
  ASSUME NotifyAssumption, NtfInv, NEW w \in Windows, Attention(w)
  PROVE  NtfInv' /\ ClosedStep
<1> DEFINE W == WithSource(NtfNow, w)
           src == SourceOf(W, w)
<1>1. /\ NtfBecome(IF Has(NtfNow, "normal", w) THEN NtfNow ELSE Add(W, "normal", w, src, 0))
      /\ UNCHANGED Elsewhere
  BY DEF Attention
<1>2. CASE Has(NtfNow, "normal", w)
  <2>1. NtfBecome(NtfNow) /\ Safe(NtfNow, NtfNow, moved, nextId)
    BY <1>1, <1>2, InvParts DEF Safe, Fewer
  <2> QED BY <1>1, <2>1, InvParts, SafeSettles DEF Elsewhere
<1>3. CASE ~Has(NtfNow, "normal", w)
  <2>1. w \in Apps
    BY DEF Apps
  <2>2. /\ W \in NtfStates /\ W.store = store /\ W.ntfs = ntfs /\ W.tray = tray
        /\ W.focused = focused /\ src \in Windows \cup {Nobody}
    BY <2>1, InvParts, SourceIs, NowParts
  <2> HIDE DEF W, src
  <2>3. Right(W, moved, nextId)
    BY <2>2, InvParts, SameRight, NowParts
  <2>4. NtfBecome(Add(W, "normal", w, src, 0)) /\ w \in Windows \cup mounted' /\ 0 \in Nat
    BY <1>1, <1>3
  <2>5. /\ UNCHANGED <<nextId, asks, managed, focus, moved, calls>>
        /\ mounted \subseteq mounted' /\ mounted' \subseteq Volumes
    BY <1>1, InvParts DEF Elsewhere
  <2> QED BY <1>3, <2>2, <2>3, <2>4, <2>5, AddSettles
<1> QED BY <1>2, <1>3

LEMMA MountStep ==
  ASSUME NotifyAssumption, NtfInv, NEW m \in Volumes, MountAppears(m)
  PROVE  NtfInv' /\ ClosedStep
<1>1. /\ m \notin mounted /\ mounted' = mounted \cup {m}
      /\ NtfBecome(Add(NtfNow, "normal", m, Nobody, Default))
      /\ UNCHANGED <<nextId, asks, managed, focus, moved, calls>>
  BY DEF MountAppears
<1>2. ~Has(NtfNow, "normal", m)
  BY <1>1 DEF NtfInv, Rest, Trays
<1>3. m \in Windows \cup mounted' /\ mounted \subseteq mounted' /\ mounted' \subseteq Volumes
  BY <1>1, InvParts
<1>4. Default \in Nat
  BY DEF Default
<1> HIDE DEF Default
<1> QED BY <1>1, <1>2, <1>3, <1>4, InvParts, NowParts, AddSettles

LEMMA UnmanagedStep ==
  ASSUME NotifyAssumption, NtfInv, NEW w \in Windows, Unmanaged(w)
  PROVE  NtfInv' /\ ClosedStep
<1> DEFINE Step(S, n) == IF n.src = w THEN CloseOpen(S, n.tray, n.key) ELSE S
           N == Len(ntfs)
           F(h) == [i \in 0..N |-> IF i = 0 THEN NtfNow ELSE Step(h[i - 1], ntfs[i])]
           after == CHOOSE h : h = F(h)
           last == after[N]
           S2 == [last EXCEPT !.source[w] = IF @ = "window" THEN "none" ELSE @]
           D == {R \in NtfStates : Right(R, moved, nextId) /\ Fewer(NtfNow, R)}
           g == [i \in 1..N |-> [S \in D |-> Step(S, ntfs[i])]]
<1>1. /\ NtfBecome(ClearAttention(S2, w)) /\ managed' = managed \ {w}
      /\ focus' = IF focus = w THEN Nobody ELSE focus
      /\ UNCHANGED <<nextId, asks, mounted, moved, calls>>
  BY DEF Unmanaged
<1>2. ntfs \in Seq(Notifiers) /\ N \in Nat /\ DOMAIN ntfs = 1..N /\ moved \in SUBSET Ids
  BY InvParts
<1>3. NtfNow \in D
  BY InvParts DEF Fewer
<1>4. ASSUME NEW i \in 1..N, NEW S \in D PROVE Step(S, ntfs[i]) \in D
  <2>1. S \in NtfStates /\ Right(S, moved, nextId) /\ Fewer(NtfNow, S)
    OBVIOUS
  <2>2. CASE ntfs[i].src = w
    <3> DEFINE C == CloseOpen(S, ntfs[i].tray, ntfs[i].key)
    <3>1. ntfs[i].tray \in Trays /\ ntfs[i].key \in NtfKeys
      BY <1>2, InvParts
    <3>2. Safe(S, C, moved, nextId)
      BY <1>2, <2>1, <3>1, CloseOpenSafe
    <3>3. Step(S, ntfs[i]) = C
      BY <2>2
    <3> HIDE DEF Step, C
    <3> QED BY <2>1, <3>2, <3>3, FewerYet DEF Safe
  <2>3. CASE ntfs[i].src # w
    BY <2>3
  <2> QED BY <2>2, <2>3
<1> HIDE DEF Step, D
<1>5. g \in StepsIn(D, N)
  BY <1>4 DEF StepsIn
<1>6. PICK h \in PathsIn(D, N) : h[0] = NtfNow /\ \A n \in 1..N : h[n] = g[n][h[n - 1]]
  <2> HIDE DEF g, N
  <2> QED BY <1>2, <1>3, <1>5, Runs
<1>7. h = F(h)
  <2>1. h \in [0..N -> D] /\ \A n \in 1..N : n - 1 \in 0..N
    BY <1>2, <1>6 DEF PathsIn
  <2>2. \A n \in 1..N : h[n] = Step(h[n - 1], ntfs[n])
    BY <1>6, <2>1
  <2>3. \A n \in 0..N : h[n] = IF n = 0 THEN NtfNow ELSE Step(h[n - 1], ntfs[n])
    BY <1>2, <1>6, <2>2
  <2> HIDE DEF g
  <2> QED BY <2>1, <2>3
<1>8. after = F(after)
  <2> HIDE DEF F
  <2> QED BY <1>7
<1> HIDE DEF after
<1>9. after[0] = NtfNow /\ \A n \in 1..N : after[n] = Step(after[n - 1], ntfs[n])
  <2>1. 0 \in 0..N /\ \A n \in 1..N : n \in 0..N /\ n # 0
    BY <1>2
  <2>2. after[0] = F(after)[0] /\ \A n \in 1..N : after[n] = F(after)[n]
    <3> HIDE DEF F
    <3> QED BY <1>8
  <2> QED BY <2>1, <2>2
<1>10. last \in D
  BY <1>2, <1>3, <1>4, <1>9, Stays
<1>11. last \in NtfStates /\ Right(last, moved, nextId) /\ Fewer(NtfNow, last)
  BY <1>10 DEF D
<1> HIDE DEF last
<1> DEFINE d == [last.source EXCEPT ![w] = IF @ = "window" THEN "none" ELSE @]
<1>12. last.source \in Sources /\ w \in Apps
  BY <1>11, Parts DEF Apps
<1>13. d \in Sources
  BY <1>12 DEF Sources
<1>14. S2 = [last EXCEPT !.source = d]
  BY <1>11 DEF NtfStates
<1> HIDE DEF d, S2
<1>15. /\ S2 \in NtfStates /\ S2.store = last.store /\ S2.ntfs = last.ntfs /\ S2.tray = last.tray
       /\ S2.focused = last.focused
  BY <1>11, <1>13, <1>14, SetField
<1>16. Right(S2, moved, nextId) /\ Fewer(last, S2)
  BY <1>11, <1>15, SameRight, SameNotifiers DEF Fewer
<1> DEFINE R == ClearAttention(S2, w)
<1>17. Safe(S2, R, moved, nextId)
  <2>1. "normal" \in Trays /\ w \in NtfKeys
    BY DEF Trays, NtfKeys
  <2> QED BY <1>2, <1>15, <1>16, <2>1, CloseOpenSafe DEF ClearAttention
<1> HIDE DEF R
<1>18. Safe(NtfNow, R, moved, nextId)
  <2>1. Fewer(S2, R) /\ Fewer(NtfNow, S2)
    BY <1>11, <1>16, <1>17, FewerYet DEF Safe
  <2> QED BY <1>17, <2>1, FewerYet DEF Safe
<1>19. managed' \subseteq Windows /\ focus' \in Windows \cup {Nobody} /\ asks' \in Seq(Ids)
  BY <1>1, InvParts
<1> QED BY <1>1, <1>18, <1>19, SafeSettles DEF R

LEMMA NtfStutter == ASSUME NtfInv, UNCHANGED ntfVars PROVE NtfInv' /\ ClosedStep
<1>1. NtfNow' = NtfNow /\ UNCHANGED <<nextId, calls, asks, managed, focus, mounted, moved, store>>
  BY DEF ntfVars, NtfNow
<1>2. Rest'
  <2>1. \A u, x : Has(NtfNow, u, x)' <=> Has(NtfNow, u, x)
    BY <1>1
  <2> QED BY <1>1, <2>1 DEF NtfInv, Rest
<1>3. NtfInv'
  BY <1>1, <1>2 DEF NtfInv
<1>4. ClosedStep
  BY <1>1 DEF ClosedStep, Stored
<1> QED BY <1>3, <1>4

LEMMA NtfStep ==
  ASSUME NotifyAssumption, NtfInv, [NtfNext]_ntfVars PROVE NtfInv' /\ ClosedStep
<1>1. CASE \E id \in 0..nextId, a \in Apps, u \in BOOLEAN, r \in Lifetimes : Notify(id, a, u, r)
  BY <1>1, MessageStep
<1>2. CASE PidReply \/ PidFails
  BY <1>2, PidStep
<1>3. CASE \E id \in Ids : CloseNotification(id)
  BY <1>3, CloseNotificationStep
<1>4. CASE \E n \in ToSet(ntfs) : \/ Dismiss(n.tray, n.key) \/ TimesOut(n.tray, n.key)
                                  \/ Enter(n.tray, n.key) \/ Leave(n.tray, n.key)
                                  \/ FadeDone(n.tray, n.key)
                                  \/ n.key \in Ids /\ Action(n.tray, n.key)
  <2>1. PICK i \in DOMAIN ntfs :
          LET t == ntfs[i].tray
              k == ntfs[i].key
          IN Dismiss(t, k) \/ TimesOut(t, k) \/ Enter(t, k) \/ Leave(t, k) \/ FadeDone(t, k)
             \/ (k \in Ids /\ Action(t, k))
    BY <1>4 DEF ToSet
  <2> DEFINE t == ntfs[i].tray
             k == ntfs[i].key
  <2>2. t \in Trays /\ k \in NtfKeys
    BY InvParts
  <2>3. CASE Dismiss(t, k)
    BY <2>2, <2>3, DismissStep
  <2>4. CASE TimesOut(t, k)
    BY <2>2, <2>4, TimesOutStep
  <2>5. CASE Enter(t, k)
    BY <2>2, <2>5, EnterStep
  <2>6. CASE Leave(t, k)
    BY <2>2, <2>6, LeaveStep
  <2>7. CASE FadeDone(t, k)
    BY <2>2, <2>7, FadeDoneStep
  <2>8. CASE k \in Ids /\ Action(t, k)
    BY <2>8, CloseNotificationStep
  <2> QED BY <2>1, <2>3, <2>4, <2>5, <2>6, <2>7, <2>8
<1>5. CASE \E t \in Trays : DismissAll(t)
  BY <1>5, DismissAllStep
<1>6. CASE \E w \in Windows : Attention(w) \/ AttentionEnds(w) \/ Unmanaged(w)
  BY <1>6, AttentionStep, AttentionEndsStep, UnmanagedStep
<1>7. CASE \E w \in managed \cup {Nobody} : Focus(w)
  BY <1>7, FocusStep
<1>8. CASE \E m \in Volumes : MountAppears(m)
  BY <1>8, MountStep
<1>9. CASE UNCHANGED ntfVars
  BY <1>9, NtfStutter
<1> QED BY <1>1, <1>2, <1>3, <1>4, <1>5, <1>6, <1>7, <1>8, <1>9 DEF NtfNext

-----------------------------------------------------------------------------
LEMMA NtfInvAlways == NtfSpec => []NtfInv
<1>1. NtfInit => NtfInv
  BY NotifyAssumption, NtfInitInv
<1>2. NtfInv /\ [NtfNext]_ntfVars => NtfInv'
  BY NotifyAssumption, NtfStep
<1> QED BY <1>1, <1>2, PTL DEF NtfSpec

\* The variables of ntf-tray.c, ntf-notification.c, ntf-sources.c and the store keep
\* their types, and no tray holds two notifiers of one key, which the lookups by
\* key rely on.
THEOREM NtfTypeCorrect == NtfSpec => []NtfTypeOK
<1>1. NtfInv => NtfTypeOK
  <2> SUFFICES ASSUME NtfInv PROVE NtfTypeOK
    OBVIOUS
  <2>1. store \in [Ids -> Messages \cup {Nobody}] /\ ntfs \in Seq(Notifiers)
        /\ tray \in [Trays -> TrayStates] /\ focused \in BOOLEAN
        /\ source \in [Apps -> {"none", "bare", "window"}]
    BY InvParts, Parts, NowParts DEF TrayLists, Sources
  <2>2. nextId \in 0..MaxCalls /\ calls \in 0..MaxCalls
    BY NotifyAssumption DEF NtfInv, Rest, NotifyAssumption
  <2>3. \A i, j \in DOMAIN ntfs :
          ntfs[i].tray = ntfs[j].tray /\ ntfs[i].key = ntfs[j].key => i = j
    BY InvParts, NowParts DEF Right, Single
  <2> QED BY <2>1, <2>2, <2>3 DEF NtfTypeOK, NtfInv, Rest
<1> QED BY <1>1, NtfInvAlways, PTL

LEMMA InvGivesTrays == ASSUME NtfInv PROVE TraysAreRight
<1>0. NtfNow \in NtfStates /\ Right(NtfNow, moved, nextId)
  BY InvParts
<1>1. \A t \in Trays : CountedOn(NtfNow, t) /\ OpenIn(NtfNow, t) = OpenOn(t)
  BY <1>0 DEF Right, Counted, OpenIn, OpenOn
<1>2. ActiveExists
  BY <1>1, NowParts DEF ActiveExists, CountedOn
<1>3. \A t \in Trays : OpenOn(t) # {} => Cardinality(OpenOn(t)) > 0
  <2> SUFFICES ASSUME NEW t \in Trays, OpenOn(t) # {} PROVE Cardinality(OpenOn(t)) > 0
    OBVIOUS
  <2>1. IsFiniteSet(OpenOn(t))
    BY <1>1 DEF CountedOn
  <2> QED BY <2>1, FS_EmptySet, FS_CardinalityType
<1>4. OpenIsVisible
  BY <1>1, <1>3, NowParts DEF OpenIsVisible, CountedOn
<1>5. UrgentHasKeys
  <2>1. "urgent" \in Trays
    BY DEF Trays
  <2> QED BY <1>0, <1>3, <1>4, <2>1, NowParts DEF UrgentHasKeys, OpenIsVisible, Right, Keyed
<1>6. OpenIsStored
  BY <1>0, NowParts DEF OpenIsStored, Right, InStore, Stored
<1>7. NonUrgentTicks
  BY <1>0, NowParts DEF NonUrgentTicks, Right, Ticks, TicksOne
<1> QED BY <1>2, <1>4, <1>5, <1>6, <1>7 DEF TraysAreRight

\* Whatever ends notifiers, and within whichever emission of "closed": the active
\* notifier exists, the counts, the shown trays and the keyboard grab agree with the
\* open notifiers, open messages are stored, and those not urgent have a timer.
THEOREM TraysAlwaysRight == NtfSpec => []TraysAreRight
BY InvGivesTrays, NtfInvAlways, PTL

\* A late answer about a sender never shows a message that was closed meanwhile, and a
\* later Notify never reuses its id.
THEOREM ClosedAlwaysStays == NtfSpec => ClosedStaysClosed
<1>1. NtfInv /\ [NtfNext]_ntfVars => ClosedStep
  BY NotifyAssumption, NtfStep
<1>2. [][ClosedStep]_ntfVars => ClosedStaysClosed
  BY PTL DEF ClosedStep, ClosedStaysClosed
<1> QED BY <1>1, <1>2, NtfInvAlways, PTL DEF NtfSpec

(***************************************************************************)
(* The store of launches.  That it counts what was added is not inductive: *)
(* it rests on the locks.  Who is between looking up a record and writing  *)
(* has seen what the file still says, since nobody else adds to that file  *)
(* (HasLock), and queries keep the adders off (QueryHasLock).              *)
(***************************************************************************)
\* An adder has its file for itself; without a file there is nothing to share.
HasLock ==
  \A a, b \in Adders : Adding(a) /\ Adding(b) /\ adder[a].file = adder[b].file
                         /\ adder[a].file # 0 => a = b
QueryHasLock ==
  \A a \in Adders, q \in Queries :
    Adding(a) /\ query[q].at = "open" => adder[a].file # query[q].file

\* What an adder has looked up is what its file says, and it counts what is there.
SeenIsTrue ==
  \A a \in Adders : /\ adder[a].at \in {"counts", "copied"} =>
                         adder[a].seen = Contents(adder[a].file)
                    /\ adder[a].at = "counts" => adder[a].seen[Launched[a]] > 0
                    /\ adder[a].at = "copied" => adder[a].seen[Launched[a]] = 0

\* Only what exists is waited for or read.
FilesAreThere ==
  /\ \A a \in Adders  : adder[a].at = "waits" => adder[a].file # 0
  /\ \A q \in Queries : query[q].at # "closed" => query[q].file # 0

IInv == TypeOK /\ HasLock /\ QueryHasLock /\ SeenIsTrue /\ FilesAreThere /\ StoreIsRight

-----------------------------------------------------------------------------
LEMMA ContentsType == ASSUME TypeOK, NEW f \in 0 .. Len(files) PROVE Contents(f) \in Records
<1>1. CASE f = 0
  BY <1>1 DEF Contents, NoRecords, Records
<1>2. CASE f # 0
  <2>1. f \in 1 .. Len(files) /\ files \in Seq(Records)
    BY <1>2 DEF TypeOK
  <2>2. files[f] \in Records
    BY <2>1, ElementOfSeq
  <2>. QED  BY <1>2, <2>2 DEF Contents
<1>. QED  BY <1>1, <1>2

\* No file says more than was launched, so no adder has seen more.
LEMMA ContentsBound ==
  ASSUME TypeOK, NoneIsInvented, NEW f \in 0 .. Len(files), NEW e \in Executables
  PROVE  Contents(f)[e] <= launches[e]
<1>1. launches[e] \in Nat /\ DOMAIN files = 1 .. Len(files)
  BY DEF TypeOK, Records
<1>2. CASE f = 0
  BY <1>1, <1>2 DEF Contents, NoRecords
<1>3. CASE f # 0
  BY <1>1, <1>3 DEF Contents, NoneIsInvented
<1>. QED  BY <1>2, <1>3

LEMMA InitIInv == Init => IInv
<1>. SUFFICES ASSUME Init PROVE IInv
  OBVIOUS
<1>1. NoRecords \in Records
  BY DEF NoRecords, Records
<1>2. /\ files \in Seq(Records) /\ path \in 0 .. Len(files) /\ launches \in Records
      /\ Contents(path) = launches
      /\ \A f \in DOMAIN files : files[f] = launches
  <2>1. CASE files = <<>> /\ path = 0 /\ launches = NoRecords
    BY <1>1, <2>1 DEF Contents
  <2>2. CASE /\ launches \in [Executables -> 0..1]
             /\ files = <<launches>> /\ path = 1
    <3>1. launches \in Records
      BY <2>2 DEF Records
    <3>2. <<launches>> \in Seq(Records) /\ Len(<<launches>>) = 1 /\ <<launches>>[1] = launches
      BY <3>1
    <3>. QED  BY <2>2, <3>1, <3>2 DEF Contents
  <2>. QED  BY <2>1, <2>2 DEF Init
<1>3. \A e \in Executables : launches[e] <= launches[e]
  BY <1>2 DEF Records
<1>4. /\ \A a \in Adders : adder[a] = [at |-> "start", file |-> 0, seen |-> NoRecords]
      /\ \A q \in Queries : query[q] = [at |-> "closed", file |-> 0, seen |-> NoRecords]
      /\ astray = FALSE
  BY DEF Init
<1>5. TypeOK
  <2>1. 0 \in 0 .. Len(files)
    BY <1>2
  <2>. QED  BY <1>1, <1>2, <2>1 DEF TypeOK, Init
<1>6. HasLock /\ QueryHasLock /\ SeenIsTrue /\ FilesAreThere
  BY <1>4 DEF HasLock, QueryHasLock, SeenIsTrue, FilesAreThere, Adding
<1>7. LaunchesAreCounted /\ NoneIsInvented /\ QueriesSeeOneState
  BY <1>2, <1>3, <1>4 DEF LaunchesAreCounted, NoneIsInvented, QueriesSeeOneState
<1>. QED  BY <1>5, <1>6, <1>7 DEF IInv, StoreIsRight

-----------------------------------------------------------------------------
\* A step of one adder that leaves the files alone.
Moves(a) == /\ \A b \in Adders \ {a} : adder'[b] = adder[b]
            /\ UNCHANGED <<files, path, query, launches, astray>>

LEMMA MovesType ==
  ASSUME IInv, NEW a \in Adders, NEW r \in [at: {"start", "waits", "open", "counts", "copied", "added", "failed"},
          file: 0 .. Len(files), seen: Records],
         adder' = [adder EXCEPT ![a] = r],
         UNCHANGED <<files, path, query, launches, astray>>
  PROVE  TypeOK' /\ Moves(a) /\ adder'[a] = r
<1>1. TypeOK
  BY DEF IInv
<1>2. adder'[a] = r /\ \A b \in Adders \ {a} : adder'[b] = adder[b]
  BY <1>1 DEF TypeOK
<1>. QED  BY <1>1, <1>2 DEF TypeOK, Moves

\* What is left to show of such a step.
LEMMA MovesKeep ==
  ASSUME IInv, NEW a \in Adders, Moves(a), TypeOK',
         Adding(a)' => \/ Adding(a) /\ adder'[a].file = adder[a].file
                       \/ adder'[a].file = 0
                       \/ FreeToAdd(adder'[a].file),
         adder'[a].at \in {"counts", "copied"} => adder'[a].seen = Contents(adder'[a].file),
         adder'[a].at = "counts" => adder'[a].seen[Launched[a]] > 0,
         adder'[a].at = "copied" => adder'[a].seen[Launched[a]] = 0,
         adder'[a].at = "waits" => adder'[a].file # 0
  PROVE  IInv'
<1>1. /\ TypeOK /\ HasLock /\ QueryHasLock /\ SeenIsTrue /\ FilesAreThere /\ StoreIsRight
      /\ \A b \in Adders \ {a} : adder'[b] = adder[b]
      /\ files' = files /\ path' = path /\ query' = query /\ launches' = launches
      /\ astray' = astray
  BY DEF IInv, Moves
<1>2. \A b \in Adders \ {a} : Adding(b)' <=> Adding(b)
  BY <1>1 DEF Adding
<1>3. HasLock'
  <2>. SUFFICES ASSUME NEW b \in Adders, NEW c \in Adders, Adding(b)', Adding(c)',
                       adder'[b].file = adder'[c].file, adder'[b].file # 0
                PROVE  b = c
    BY DEF HasLock
  <2>1. CASE b # a /\ c # a
    BY <1>1, <1>2, <2>1 DEF HasLock
  <2>2. ASSUME NEW d \in Adders \ {a}, Adding(a)', Adding(d)', adder'[a].file = adder'[d].file,
               adder'[a].file # 0
        PROVE  FALSE
    <3>1. Adding(d) /\ adder[d].file = adder'[a].file
      BY <1>1, <1>2, <2>2
    <3>2. CASE Adding(a) /\ adder'[a].file = adder[a].file
      BY <1>1, <2>2, <3>1, <3>2 DEF HasLock
    <3>3. CASE FreeToAdd(adder'[a].file)
      BY <3>1, <3>3 DEF FreeToAdd, AddsTo
    <3>. QED  BY <2>2, <3>2, <3>3
  <2>. QED  BY <2>1, <2>2
<1>4. QueryHasLock'
  <2>. SUFFICES ASSUME NEW b \in Adders, NEW q \in Queries, Adding(b)', query'[q].at = "open"
                PROVE  adder'[b].file # query'[q].file
    BY DEF QueryHasLock
  <2>1. query[q].at = "open" /\ query'[q].file = query[q].file /\ query[q].file # 0
    BY <1>1 DEF FilesAreThere
  <2>2. CASE b # a
    BY <1>1, <1>2, <2>1, <2>2 DEF QueryHasLock
  <2>3. CASE b = a
    <3>1. CASE Adding(a) /\ adder'[a].file = adder[a].file
      BY <1>1, <2>1, <2>3, <3>1 DEF QueryHasLock
    <3>2. CASE FreeToAdd(adder'[a].file)
      BY <2>1, <2>3, <3>2 DEF FreeToAdd, Reads
    <3>. QED  BY <2>1, <2>3, <3>1, <3>2
  <2>. QED  BY <2>2, <2>3
<1>5. SeenIsTrue'
  <2>. SUFFICES ASSUME NEW b \in Adders
                PROVE  /\ adder'[b].at \in {"counts", "copied"} =>
                            adder'[b].seen = Contents(adder'[b].file)
                       /\ adder'[b].at = "counts" => adder'[b].seen[Launched[b]] > 0
                       /\ adder'[b].at = "copied" => adder'[b].seen[Launched[b]] = 0
    BY <1>1 DEF SeenIsTrue, Contents
  <2>1. CASE b = a
    BY <2>1
  <2>2. CASE b # a
    BY <1>1, <2>2 DEF SeenIsTrue
  <2>. QED  BY <2>1, <2>2
<1>6. FilesAreThere'
  BY <1>1 DEF FilesAreThere
<1>7. StoreIsRight'
  BY <1>1 DEF StoreIsRight, LaunchesAreCounted, NoneIsInvented, QueriesSeeOneState, Contents
<1>. QED  BY <1>3, <1>4, <1>5, <1>6, <1>7 DEF IInv

LEMMA AdderType ==
  ASSUME TypeOK, NEW a \in Adders
  PROVE  /\ adder[a].at \in {"start", "waits", "open", "counts", "copied", "added", "failed"}
         /\ adder[a].file \in 0 .. Len(files) /\ adder[a].seen \in Records
         /\ path \in 0 .. Len(files) /\ Len(files) \in Nat
         /\ Launched[a] \in Executables
         /\ DOMAIN adder = Adders
<1>1. files \in Seq(Records)
  BY DEF TypeOK
<1>2. Len(files) \in Nat
  BY <1>1, LenProperties
<1>. QED  BY <1>2, LaunchesAssumption DEF TypeOK

LEMMA OpenIInv == ASSUME IInv, NEW a \in Adders, Open(a) PROVE IInv'
<1>. DEFINE r == [adder[a] EXCEPT !.at = IF path = 0 THEN "open" ELSE "waits", !.file = path]
<1>1. TypeOK
  BY DEF IInv
<1>2. adder' = [adder EXCEPT ![a] = r]
  BY <1>1, AdderType DEF Open
<1>3. /\ r \in [at: {"start", "waits", "open", "counts", "copied", "added", "failed"},
                file: 0 .. Len(files), seen: Records]
      /\ r.at = (IF path = 0 THEN "open" ELSE "waits") /\ r.file = path
  BY <1>1, AdderType DEF TypeOK
<1>. HIDE DEF r
<1>4. TypeOK' /\ Moves(a) /\ adder'[a] = r
  BY <1>2, <1>3, MovesType DEF Open
<1>. QED  BY <1>3, <1>4, MovesKeep DEF Adding

LEMMA LockIInv == ASSUME IInv, NEW a \in Adders, Lock(a) PROVE IInv'
<1>. DEFINE r == [adder[a] EXCEPT !.at = "open"]
<1>1. TypeOK
  BY DEF IInv
<1>2. adder' = [adder EXCEPT ![a] = r]
  BY <1>1, AdderType DEF Lock
<1>3. /\ r \in [at: {"start", "waits", "open", "counts", "copied", "added", "failed"},
                file: 0 .. Len(files), seen: Records]
      /\ r.at = "open" /\ r.file = adder[a].file
  BY <1>1, AdderType DEF TypeOK
<1>. HIDE DEF r
<1>4. TypeOK' /\ Moves(a) /\ adder'[a] = r
  BY <1>2, <1>3, MovesType DEF Lock
<1>5. FreeToAdd(adder[a].file)
  BY DEF Lock
<1>. QED  BY <1>3, <1>4, <1>5, MovesKeep

LEMMA LookUpIInv == ASSUME IInv, NEW a \in Adders, LookUp(a) PROVE IInv'
<1>. DEFINE seen == Contents(adder[a].file)
            r == [adder[a] EXCEPT !.at = IF seen[Launched[a]] > 0 THEN "counts" ELSE "copied",
                                  !.seen = seen]
<1>1. TypeOK /\ seen \in Records
  BY ContentsType, AdderType DEF IInv
<1>2. adder' = [adder EXCEPT ![a] = r]
  BY <1>1, AdderType DEF LookUp
<1>. HIDE DEF seen
<1>3. /\ r \in [at: {"start", "waits", "open", "counts", "copied", "added", "failed"},
                file: 0 .. Len(files), seen: Records]
      /\ r.at = (IF seen[Launched[a]] > 0 THEN "counts" ELSE "copied")
      /\ r.file = adder[a].file /\ r.seen = seen
  BY <1>1, AdderType DEF TypeOK
<1>. HIDE DEF r
<1>4. TypeOK' /\ Moves(a) /\ adder'[a] = r
  BY <1>2, <1>3, MovesType DEF LookUp
<1>5. Adding(a)
  BY DEF Adding, LookUp
<1>6. seen = Contents(adder'[a].file)
  BY <1>3, <1>4 DEF seen
<1>7. /\ adder'[a].at # "waits" /\ (adder'[a].at = "counts" => seen[Launched[a]] > 0)
      /\ adder'[a].at = "copied" => seen[Launched[a]] = 0
  <2>1. seen[Launched[a]] \in Nat
    BY <1>1, AdderType DEF Records
  <2>. QED  BY <1>3, <1>4, <2>1
<1>. QED  BY <1>3, <1>4, <1>5, <1>6, <1>7, MovesKeep

LEMMA FailIInv == ASSUME IInv, NEW a \in Adders, Fail(a) PROVE IInv'
<1>. DEFINE r == [adder[a] EXCEPT !.at = "failed"]
<1>1. TypeOK
  BY DEF IInv
<1>2. adder' = [adder EXCEPT ![a] = r]
  BY <1>1, AdderType DEF Fail
<1>3. /\ r \in [at: {"start", "waits", "open", "counts", "copied", "added", "failed"},
                file: 0 .. Len(files), seen: Records]
      /\ r.at = "failed"
  BY <1>1, AdderType DEF TypeOK
<1>. HIDE DEF r
<1>4. TypeOK' /\ Moves(a) /\ adder'[a] = r
  BY <1>2, <1>3, MovesType DEF Fail
<1>. QED  BY <1>3, <1>4, MovesKeep DEF Adding

-----------------------------------------------------------------------------
\* A launch has been added to records that were true: g is what they say now.
Plus(c, e) == [c EXCEPT ![e] = c[e] + 1]
LEMMA AddedIsCounted ==
  ASSUME NEW c \in Records, NEW l \in Records, NEW e \in Executables,
         \A x \in Executables : c[x] <= l[x]
  PROVE  /\ Plus(c, e) \in Records /\ Plus(l, e) \in Records
         /\ \A x \in Executables : Plus(c, e)[x] <= Plus(l, e)[x] /\ l[x] <= Plus(l, e)[x]
<1>. DEFINE g == Plus(c, e)  m == Plus(l, e)
<1>1. g \in Records /\ m \in Records
  BY DEF Records, Plus
<1>2. ASSUME NEW x \in Executables PROVE g[x] <= m[x] /\ l[x] <= m[x]
  <2>1. c[x] \in Nat /\ l[x] \in Nat /\ c[x] <= l[x]
    BY DEF Records
  <2>2. CASE x = e
    <3>1. g[x] = c[x] + 1 /\ m[x] = l[x] + 1
      BY <2>2 DEF Records, Plus
    <3>. QED  BY <2>1, <3>1
  <2>3. CASE x # e
    <3>1. g[x] = c[x] /\ m[x] = l[x]
      BY <2>3 DEF Records, Plus
    <3>. QED  BY <2>1, <3>1
  <2>. QED  BY <2>2, <2>3
<1>. HIDE DEF g, m
<1>. QED  BY <1>1, <1>2 DEF g, m

\* What every addition has in common: a has seen its file and is done with it.
LEMMA AddedFacts ==
  ASSUME IInv, NEW a \in Adders, adder[a].at \in {"counts", "copied"}, Added(a)
  PROVE  /\ \A b \in Adders \ {a} : adder'[b] = adder[b]
         /\ adder'[a].at = "added" /\ adder'[a].file = adder[a].file
         /\ adder'[a].seen = adder[a].seen
         /\ Adding(a) /\ ~Adding(a)'
         /\ \A b \in Adders \ {a} : Adding(b)' <=> Adding(b)
         /\ adder[a].seen = Contents(adder[a].file) /\ adder[a].seen \in Records
         /\ \A x \in Executables : adder[a].seen[x] <= launches[x]
         /\ launches \in Records /\ launches' = [launches EXCEPT ![Launched[a]] = @ + 1]
         /\ launches' \in Records /\ \A x \in Executables : launches[x] <= launches'[x]
         /\ query' = query /\ astray' \in BOOLEAN
         /\ ~astray' => ~astray /\ adder[a].file = path
<1>1. TypeOK /\ SeenIsTrue /\ NoneIsInvented
  BY DEF IInv, StoreIsRight
<1>2. /\ \A b \in Adders \ {a} : adder'[b] = adder[b]
      /\ adder'[a] = [adder[a] EXCEPT !.at = "added"]
  BY <1>1, AdderType DEF Added
<1>3. adder'[a].at = "added" /\ adder'[a].file = adder[a].file /\ adder'[a].seen = adder[a].seen
  BY <1>1, <1>2 DEF TypeOK
<1>4. Adding(a) /\ ~Adding(a)' /\ \A b \in Adders \ {a} : Adding(b)' <=> Adding(b)
  BY <1>2, <1>3 DEF Adding
<1>5. adder[a].seen = Contents(adder[a].file) /\ adder[a].seen \in Records
  BY <1>1, AdderType DEF SeenIsTrue
<1>6. \A x \in Executables : adder[a].seen[x] <= launches[x]
  BY <1>1, <1>5, AdderType, ContentsBound
<1>7. /\ launches \in Records /\ launches' = [launches EXCEPT ![Launched[a]] = @ + 1]
      /\ query' = query /\ astray' \in BOOLEAN
      /\ ~astray' => ~astray /\ adder[a].file = path
  BY <1>1 DEF Added, TypeOK
<1>8. launches' \in Records /\ \A x \in Executables : launches[x] <= launches'[x]
  <2>1. Launched[a] \in Executables
    BY <1>1, AdderType
  <2>2. launches' = Plus(launches, Launched[a])
    BY <1>7 DEF Plus
  <2>. QED  BY <1>5, <1>6, <1>7, <2>1, <2>2, AddedIsCounted, ZenonT(60)
<1>. QED  BY <1>2, <1>3, <1>4, <1>5, <1>6, <1>7, <1>8

In(fs, f) == IF f = 0 THEN NoRecords ELSE fs[f]

\* An addition writes g: into its file, or as a new one.  Other adders and the queries
\* have other files.
LEMMA AddedIInv ==
  ASSUME IInv, NEW a \in Adders, adder[a].at \in {"counts", "copied"}, Added(a),
         NEW g, g = [adder[a].seen EXCEPT ![Launched[a]] = adder[a].seen[Launched[a]] + 1],
         files' \in Seq(Records), Len(files') >= Len(files), path' \in 0 .. Len(files'),
         \A k \in 1 .. Len(files) : k # adder[a].file => files'[k] = files[k],
         \A k \in 1 .. Len(files') :
           files'[k] = g \/ (k \in 1 .. Len(files) /\ files'[k] = files[k]),
         adder[a].file = path => path' # 0 /\ files'[path'] = g
  PROVE  IInv'
<1>1. /\ TypeOK /\ HasLock /\ QueryHasLock /\ SeenIsTrue /\ FilesAreThere
      /\ LaunchesAreCounted /\ NoneIsInvented /\ QueriesSeeOneState
  BY DEF IInv, StoreIsRight
<1>2. Launched[a] \in Executables /\ Len(files) \in Nat /\ Len(files') \in Nat
  BY <1>1, AdderType, LenProperties
<1>3. /\ g \in Records /\ \A x \in Executables : g[x] <= launches'[x]
      /\ adder[a].seen = launches => g = launches'
  <2>1. launches' = [launches EXCEPT ![Launched[a]] = launches[Launched[a]] + 1]
    BY AddedFacts
  <2>2. /\ adder[a].seen \in Records /\ launches \in Records
        /\ \A x \in Executables : adder[a].seen[x] <= launches[x]
    BY AddedFacts
  <2>. DEFINE c == adder[a].seen  l == launches  e == Launched[a]  m == launches'
  <2>3. g = Plus(c, e) /\ m = Plus(l, e)
    BY <2>1 DEF Plus
  <2>. HIDE DEF c, l, e, m
  <2>4. /\ c \in Records /\ l \in Records /\ e \in Executables
        /\ \A x \in Executables : c[x] <= l[x]
    BY <1>2, <2>2 DEF c, l, e
  <2>5. /\ g \in Records /\ \A x \in Executables : g[x] <= m[x]
        /\ c = l => g = m
    BY <2>3, <2>4, AddedIsCounted, ZenonT(60)
  <2>. QED  BY <2>5 DEF c, l, m
<1>4. TypeOK'
  <2>1. adder' \in [Adders -> [at: {"start", "waits", "open", "counts", "copied", "added", "failed"},
                               file: 0 .. Len(files'), seen: Records]]
    <3>1. adder' = [adder EXCEPT ![a].at = "added"]
      BY DEF Added
    <3>. QED  BY <1>1, <1>2, <3>1 DEF TypeOK
  <2>2. query' \in [Queries -> [at: {"closed", "waits", "open"}, file: 0 .. Len(files'),
                                seen: Records]]
    BY <1>1, <1>2, AddedFacts DEF TypeOK
  <2>3. launches' \in Records /\ astray' \in BOOLEAN
    BY AddedFacts
  <2>. QED  BY <2>1, <2>2, <2>3 DEF TypeOK
<1>5. \A b \in Adders \ {a} : adder'[b] = adder[b] /\ (Adding(b)' <=> Adding(b))
  BY AddedFacts
<1>6. ~Adding(a)' /\ adder'[a].at = "added" /\ Adding(a) /\ query' = query
  BY AddedFacts
<1>7. HasLock' /\ QueryHasLock' /\ FilesAreThere'
  BY <1>1, <1>5, <1>6 DEF HasLock, QueryHasLock, FilesAreThere
<1>8. SeenIsTrue'
  <2>. SUFFICES ASSUME NEW b \in Adders, adder'[b].at \in {"counts", "copied"}
                PROVE  /\ adder'[b].seen = In(files', adder'[b].file)
                       /\ adder'[b].at = "counts" => adder'[b].seen[Launched[b]] > 0
                       /\ adder'[b].at = "copied" => adder'[b].seen[Launched[b]] = 0
    BY DEF SeenIsTrue, Contents, In
  <2>1. b # a /\ adder'[b] = adder[b] /\ Adding(b)
    BY <1>5, <1>6 DEF Adding
  <2>2. adder[b].file = 0 \/ adder[b].file # adder[a].file
    BY <1>1, <1>6, <2>1 DEF HasLock
  <2>3. In(files', adder[b].file) = Contents(adder[b].file)
    <3>1. adder[b].file \in 0 .. Len(files)
      BY <1>1, <2>1, AdderType
    <3>2. CASE adder[b].file = 0
      BY <3>2 DEF Contents, In
    <3>3. CASE adder[b].file # 0
      BY <1>2, <2>2, <3>1, <3>3 DEF Contents, In
    <3>. QED  BY <3>2, <3>3
  <2>4. /\ adder[b].seen = Contents(adder[b].file)
        /\ adder[b].at = "counts" => adder[b].seen[Launched[b]] > 0
        /\ adder[b].at = "copied" => adder[b].seen[Launched[b]] = 0
    BY <1>1, <2>1 DEF SeenIsTrue
  <2>. QED  BY <2>1, <2>3, <2>4
<1>9. LaunchesAreCounted'
  <2>. SUFFICES ASSUME ~astray' PROVE Contents(path)' = launches'
    BY DEF LaunchesAreCounted
  <2>1. adder[a].file = path /\ Contents(path) = launches
    BY <1>1, AddedFacts DEF LaunchesAreCounted
  <2>2. adder[a].seen = launches
    BY <2>1, AddedFacts
  <2>3. path' # 0 /\ files'[path'] = launches'
    BY <1>3, <2>1, <2>2
  <2>. QED  BY <2>3 DEF Contents
<1>10. NoneIsInvented'
  <2>1. DOMAIN files' = 1 .. Len(files') /\ DOMAIN files = 1 .. Len(files)
    BY <1>1, LenProperties DEF TypeOK
  <2>. SUFFICES ASSUME NEW k \in 1 .. Len(files'), NEW x \in Executables
                PROVE  files'[k][x] <= launches'[x]
    BY <2>1 DEF NoneIsInvented
  <2>2. CASE files'[k] = g
    BY <1>3, <2>2
  <2>3. CASE k \in 1 .. Len(files) /\ files'[k] = files[k]
    <3>1. files[k][x] <= launches[x]
      BY <1>1, <2>1, <2>3 DEF NoneIsInvented
    <3>2. launches[x] <= launches'[x]
      BY AddedFacts
    <3>3. files[k][x] \in Nat /\ launches[x] \in Nat /\ launches'[x] \in Nat
      <4>1. files[k] \in Records
        BY <1>1, <2>3, ElementOfSeq DEF TypeOK
      <4>2. launches \in Records /\ launches' \in Records
        BY AddedFacts
      <4>. QED  BY <4>1, <4>2 DEF Records
    <3>. QED  BY <2>3, <3>1, <3>2, <3>3
  <2>. QED  BY <2>2, <2>3
<1>11. QueriesSeeOneState'
  <2>. SUFFICES ASSUME NEW q \in Queries, query[q].at = "open"
                PROVE  query[q].seen = files'[query[q].file]
    BY <1>6 DEF QueriesSeeOneState
  <2>1. query[q].file # 0 /\ query[q].file # adder[a].file
    BY <1>1, <1>6 DEF QueryHasLock, FilesAreThere
  <2>2. query[q].file \in 1 .. Len(files)
    BY <1>1, <1>2, <2>1 DEF TypeOK
  <2>. QED  BY <1>1, <2>1, <2>2 DEF QueriesSeeOneState
<1>. QED  BY <1>4, <1>7, <1>8, <1>9, <1>10, <1>11 DEF IInv, StoreIsRight

LEMMA CountIInv == ASSUME IInv, NEW a \in Adders, Count(a) PROVE IInv'
<1>. DEFINE c == adder[a].seen
            f == adder[a].file
            e == Launched[a]
            g == [c EXCEPT ![e] = c[e] + 1]
<1>1. TypeOK /\ adder[a].at = "counts" /\ Added(a) /\ path' = path
  BY DEF IInv, Count
<1>2. c \in Records /\ c = Contents(f) /\ e \in Executables
  BY <1>1, AddedFacts, AdderType
<1>3. f \in 1 .. Len(files) /\ files[f] = c
  <2>1. c[e] > 0
    BY <1>1 DEF IInv, SeenIsTrue
  <2>2. f # 0
    BY <1>2, <2>1 DEF Contents, NoRecords
  <2>3. f \in 0 .. Len(files) /\ Len(files) \in Nat
    BY <1>1, AdderType
  <2>. QED  BY <1>2, <2>2, <2>3 DEF Contents
<1>4. g \in Records
  BY <1>2 DEF Records
<1>5. files' = [files EXCEPT ![f] = g]
  BY <1>3 DEF Count
<1>. HIDE DEF c, f, e, g
<1>6. files \in Seq(Records) /\ path \in 0 .. Len(files)
  BY <1>1 DEF TypeOK
<1>7. /\ files' \in Seq(Records) /\ Len(files') = Len(files) /\ Len(files) \in Nat
      /\ files'[f] = g /\ \A k \in 1 .. Len(files) : k # f => files'[k] = files[k]
  BY <1>3, <1>4, <1>5, <1>6, ExceptSeq, LenProperties
<1>8. f = path => path' # 0 /\ files'[path'] = g
  BY <1>1, <1>3, <1>7
<1>9. \A k \in 1 .. Len(files') : files'[k] = g \/ (k \in 1 .. Len(files) /\ files'[k] = files[k])
  BY <1>7
<1>10. g = [adder[a].seen EXCEPT ![Launched[a]] = adder[a].seen[Launched[a]] + 1] /\ f = adder[a].file
  BY DEF g, c, e, f
<1>11. /\ files' \in Seq(Records) /\ Len(files') >= Len(files) /\ path' \in 0 .. Len(files')
       /\ \A k \in 1 .. Len(files) : k # adder[a].file => files'[k] = files[k]
       /\ \A k \in 1 .. Len(files') :
             files'[k] = g \/ (k \in 1 .. Len(files) /\ files'[k] = files[k])
       /\ adder[a].file = path => path' # 0 /\ files'[path'] = g
  BY <1>1, <1>6, <1>7, <1>8, <1>9, <1>10
<1>12. adder[a].at \in {"counts", "copied"} /\ Added(a)
  BY <1>1
<1>. QED  BY <1>10, <1>11, <1>12, AddedIInv

LEMMA RenameIInv == ASSUME IInv, NEW a \in Adders, Rename(a) PROVE IInv'
<1>. DEFINE c == adder[a].seen
            e == Launched[a]
            g == [c EXCEPT ![e] = 1]
<1>1. /\ TypeOK /\ adder[a].at = "copied" /\ Added(a) /\ path' = Len(files) + 1
      /\ files' = Append(files, g)
  BY DEF IInv, Rename
<1>2. c \in Records /\ e \in Executables
  BY <1>1, AddedFacts, AdderType
<1>3. c[e] = 0
  BY <1>1 DEF IInv, SeenIsTrue
<1>4. g = [c EXCEPT ![e] = c[e] + 1] /\ g \in Records
  BY <1>2, <1>3 DEF Records
<1>. HIDE DEF g, c, e
<1>5. files \in Seq(Records) /\ Len(files) \in Nat
  BY <1>1, LenProperties DEF TypeOK
<1>6. /\ files' \in Seq(Records) /\ Len(files') = Len(files) + 1
      /\ files'[Len(files) + 1] = g /\ \A k \in 1 .. Len(files) : files'[k] = files[k]
  BY <1>1, <1>4, <1>5, AppendProperties
<1>7. \A k \in 1 .. Len(files') : files'[k] = g \/ (k \in 1 .. Len(files) /\ files'[k] = files[k])
  BY <1>5, <1>6
<1>8. path' # 0 /\ files'[path'] = g /\ path' \in 0 .. Len(files') /\ Len(files') >= Len(files)
  BY <1>1, <1>5, <1>6
<1>9. g = [adder[a].seen EXCEPT ![Launched[a]] = adder[a].seen[Launched[a]] + 1]
  BY <1>4 DEF c, e
<1>. QED  BY <1>1, <1>6, <1>7, <1>8, <1>9, AddedIInv, SMTT(30)

-----------------------------------------------------------------------------
\* A step of one query.  What it sees, it sees in a file that nobody adds to.
LEMMA QueryMoves ==
  ASSUME IInv, NEW q \in Queries,
         NEW r \in [at: {"closed", "waits", "open"}, file: 0 .. Len(files), seen: Records],
         query' = [query EXCEPT ![q] = r],
         UNCHANGED <<files, path, adder, launches, astray>>,
         r.at # "closed" => r.file # 0,
         r.at = "open" => FreeToRead(r.file) /\ r.seen = files[r.file]
  PROVE  IInv'
<1>1. /\ TypeOK /\ HasLock /\ QueryHasLock /\ SeenIsTrue /\ FilesAreThere
      /\ LaunchesAreCounted /\ NoneIsInvented /\ QueriesSeeOneState
  BY DEF IInv, StoreIsRight
<1>2. query'[q] = r /\ \A p \in Queries \ {q} : query'[p] = query[p]
  BY <1>1 DEF TypeOK
<1>3. TypeOK'
  BY <1>1 DEF TypeOK
<1>4. HasLock' /\ SeenIsTrue' /\ LaunchesAreCounted' /\ NoneIsInvented'
  BY <1>1 DEF HasLock, SeenIsTrue, LaunchesAreCounted, NoneIsInvented, Adding, Contents
<1>5. QueryHasLock'
  <2>. SUFFICES ASSUME NEW a \in Adders, NEW p \in Queries, Adding(a), query'[p].at = "open"
                PROVE  adder[a].file # query'[p].file
    BY DEF QueryHasLock, Adding
  <2>1. CASE p = q
    BY <1>2, <2>1 DEF FreeToRead, AddsTo
  <2>2. CASE p # q
    BY <1>1, <1>2, <2>2 DEF QueryHasLock
  <2>. QED  BY <2>1, <2>2
<1>6. FilesAreThere' /\ QueriesSeeOneState'
  BY <1>1, <1>2 DEF FilesAreThere, QueriesSeeOneState
<1>. QED  BY <1>3, <1>4, <1>5, <1>6 DEF IInv, StoreIsRight

LEMMA QueryType ==
  ASSUME TypeOK, NEW q \in Queries
  PROVE  /\ query[q] \in [at: {"closed", "waits", "open"}, file: 0 .. Len(files), seen: Records]
         /\ DOMAIN query = Queries /\ path \in 0 .. Len(files) /\ Len(files) \in Nat
         /\ \A f \in 0 .. Len(files) : f # 0 => files[f] \in Records
<1>1. files \in Seq(Records) /\ Len(files) \in Nat
  BY LenProperties DEF TypeOK
<1>2. ASSUME NEW f \in 0 .. Len(files), f # 0 PROVE files[f] \in Records
  <2>1. f \in 1 .. Len(files)
    BY <1>1, <1>2
  <2>. QED  BY <1>1, <2>1, ElementOfSeq
<1>. QED  BY <1>1, <1>2 DEF TypeOK

LEMMA QueryIInv == ASSUME IInv, NEW q \in Queries, Query(q) PROVE IInv'
<1>. DEFINE r == [query[q] EXCEPT !.at = "waits", !.file = path]
<1>1. TypeOK
  BY DEF IInv
<1>2. query' = [query EXCEPT ![q] = r]
  BY <1>1, QueryType DEF Query
<1>3. /\ r \in [at: {"closed", "waits", "open"}, file: 0 .. Len(files), seen: Records]
      /\ r.at = "waits" /\ r.file = path
  BY <1>1, QueryType
<1>. HIDE DEF r
<1>. QED  BY <1>2, <1>3, QueryMoves DEF Query

LEMMA LockQueryIInv == ASSUME IInv, NEW q \in Queries, LockQuery(q) PROVE IInv'
<1>. DEFINE f == query[q].file
            r == [query[q] EXCEPT !.at = "open", !.seen = files[f]]
<1>1. TypeOK
  BY DEF IInv
<1>2. f \in 0 .. Len(files) /\ f # 0 /\ files[f] \in Records
  <2>1. f \in 0 .. Len(files) /\ f # 0
    BY <1>1, QueryType DEF IInv, FilesAreThere, LockQuery
  <2>. QED  BY <1>1, <2>1, QueryType
<1>3. query' = [query EXCEPT ![q] = r]
  BY <1>1, QueryType DEF LockQuery
<1>4. /\ r \in [at: {"closed", "waits", "open"}, file: 0 .. Len(files), seen: Records]
      /\ r.at = "open" /\ r.file = f /\ r.seen = files[f]
  BY <1>1, <1>2, QueryType
<1>5. FreeToRead(f)
  BY DEF LockQuery
<1>. HIDE DEF r, f
<1>. QED  BY <1>2, <1>3, <1>4, <1>5, QueryMoves DEF LockQuery

LEMMA EndQueryIInv == ASSUME IInv, NEW q \in Queries, EndQuery(q) PROVE IInv'
<1>. DEFINE r == [at |-> "closed", file |-> 0, seen |-> NoRecords]
<1>1. TypeOK
  BY DEF IInv
<1>2. query' = [query EXCEPT ![q] = r]
  BY DEF EndQuery
<1>3. /\ r \in [at: {"closed", "waits", "open"}, file: 0 .. Len(files), seen: Records]
      /\ r.at = "closed"
  BY <1>1, QueryType DEF NoRecords, Records
<1>. HIDE DEF r
<1>. QED  BY <1>2, <1>3, QueryMoves DEF EndQuery

-----------------------------------------------------------------------------
LEMMA StepIInv == IInv /\ [Next]_vars => IInv'
<1>. SUFFICES ASSUME IInv, [Next]_vars PROVE IInv'
  OBVIOUS
<1>1. CASE UNCHANGED vars
  BY <1>1 DEF vars, IInv, TypeOK, HasLock, QueryHasLock, SeenIsTrue, FilesAreThere, StoreIsRight,
       LaunchesAreCounted, NoneIsInvented, QueriesSeeOneState, Adding, Contents
<1>2. ASSUME NEW a \in Adders,
             Open(a) \/ Lock(a) \/ LookUp(a) \/ Count(a) \/ Rename(a) \/ Fail(a)
      PROVE  IInv'
  BY <1>2, OpenIInv, LockIInv, LookUpIInv, CountIInv, RenameIInv, FailIInv
<1>3. ASSUME NEW q \in Queries, Query(q) \/ LockQuery(q) \/ EndQuery(q)
      PROVE  IInv'
  BY <1>3, QueryIInv, LockQueryIInv, EndQueryIInv
<1>. QED  BY <1>1, <1>2, <1>3 DEF Next

\* Any number of processes that add launches, fail and die, and of queries, leave the
\* store with the launches that were added, unless a file was replaced under one
\* that waited for it; with none that was not; and queries see one state of it
\* (mpl_app_launches_store_add, mpl_app_launches_store_open).
THEOREM LaunchesAreRight == Spec => []StoreIsRight
<1>1. Spec => []IInv
  BY InitIInv, StepIInv, PTL DEF Spec
<1>2. IInv => StoreIsRight
  BY DEF IInv
<1>. QED  BY <1>1, <1>2, PTL
=============================================================================
