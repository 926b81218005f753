-------------------------------- MODULE Ofono -------------------------------
(***************************************************************************)
(* The network panel's agent for oFono (carrick-ofono-agent.c): a mirror   *)
(* of the modems, of how many of them have a ConnectionManager, and of the *)
(* PINs their SIMs require.                                                *)
(*                                                                         *)
(* External: oFono and the bus.  oFono serves the agent's calls in order   *)
(* and what it sends, replies and signals, arrives in order.  Making a     *)
(* proxy takes a round trip like a call; signals that find no proxy with a *)
(* handler are dropped.                                                    *)
(***************************************************************************)
EXTENDS Naturals, Sequences, FiniteSets

CONSTANTS
  ModemPaths,      \* object paths
  Locks,           \* the SIM properties that make a table of paths: PinRequired, LockedPins
  MaxModemChanges  \* bound: how often modems come, go and change

ASSUME OfonoAssumption == IsFiniteSet(ModemPaths)

VARIABLES
  there,     \* oFono's modems: [path -> interfaces], see Offers
  lock,      \* oFono's SIMs: what they require
  changes,   \* how often either has changed
  asked,     \* from the agent to oFono, in order
  wire,      \* from oFono to the agent, in order
  manager,   \* priv->ofono_mgr is there, with its handler
  modems,    \* priv->modems
  sims,      \* of these, the ones with a SIM's proxy
  counted,   \* the ones with has_connman
  locksOf,   \* their required_pin, locked_puk
  leaked,    \* paths that have a SIM proxy which no modem refers to
  table,     \* priv->required_pins, priv->locked_puks
  connmans,  \* priv->connmans
  odd        \* history: modems that changed while the agent was busy with them, see Changed

ofonoVars == <<there, lock, changes, asked, wire, manager, modems, sims, counted, locksOf, leaked,
               table, connmans, odd>>

None == "none"
Some == "some"                 \* a PIN is required, a PUK is locked
Offers == SUBSET {"sim", "cm"} \* SimManager, ConnectionManager
Gone == [offers |-> {}, is |-> FALSE]
LockStates == [Locks -> {None, Some}]
NoLocks == [k \in Locks |-> None]

Requests == [type: {"manager", "modems"}] \cup
            [type: {"modemProxy", "modemProps", "simProxy", "simProps"}, path: ModemPaths]

OfonoTypeOK ==
  /\ there \in [ModemPaths -> [offers: Offers, is: BOOLEAN]] /\ lock \in [ModemPaths -> LockStates]
  /\ asked \in Seq(Requests)
  /\ manager \in BOOLEAN /\ leaked \subseteq ModemPaths /\ odd \subseteq ModemPaths
  /\ modems \subseteq ModemPaths /\ sims \subseteq modems /\ counted \subseteq modems
  /\ locksOf \in [ModemPaths -> LockStates]
  /\ table \in [Locks -> [ModemPaths -> {None, Some}]] /\ connmans \in Nat

\* carrick_ofono_agent_init; oFono may have been running before.
OfonoInit ==
  /\ there \in [ModemPaths -> {Gone} \cup [offers: Offers, is: {TRUE}]]
  /\ lock \in [ModemPaths -> LockStates]
  /\ changes = 0
  /\ asked = <<[type |-> "manager"]>> /\ wire = <<>>
  /\ manager = FALSE /\ modems = {} /\ sims = {} /\ counted = {} /\ leaked = {} /\ odd = {}
  /\ locksOf = [p \in ModemPaths |-> NoLocks]
  /\ table = [k \in Locks |-> [p \in ModemPaths |-> None]] /\ connmans = 0

(***************************************************************************)
(* oFono.                                                                  *)
(***************************************************************************)
About(q, p) == \E i \in DOMAIN q : q[i].type # "manager" /\ (q[i].type # "modems" => q[i].path = p)
Busy(p) == About(asked, p) \/ About(wire, p)

agentVars == <<asked, manager, modems, sims, counted, locksOf, leaked, table, connmans>>

\* again: the change brings back a SIM of which the agent has something left.
Changed(p, again) ==
  /\ changes < MaxModemChanges /\ changes' = changes + 1
  /\ odd' = IF Busy(p) \/ again THEN odd \cup {p} ELSE odd
  /\ UNCHANGED <<lock, agentVars>>

ModemComes(p, offers) ==
  /\ ~there[p].is /\ offers \in Offers
  /\ there' = [there EXCEPT ![p] = [offers |-> offers, is |-> TRUE]]
  /\ wire' = Append(wire, [type |-> "added", path |-> p])
  /\ Changed(p, p \in leaked)

ModemGoes(p) ==
  /\ there[p].is /\ there' = [there EXCEPT ![p] = Gone]
  /\ wire' = Append(wire, [type |-> "removed", path |-> p])
  /\ Changed(p, FALSE)

InterfacesChange(p, offers) ==
  /\ there[p].is /\ offers \in Offers \ {there[p].offers}
  /\ there' = [there EXCEPT ![p] = [offers |-> offers, is |-> TRUE]]
  /\ wire' = Append(wire, [type |-> "interfaces", path |-> p, offers |-> offers])
  /\ Changed(p, "sim" \in offers /\ p \in modems /\ "sim" \notin there[p].offers
                  /\ (p \in leaked \/ locksOf[p] # NoLocks))

LockChanges(p, k) ==
  /\ lock' = [lock EXCEPT ![p][k] = IF @ = None THEN Some ELSE None]
  /\ wire' = IF "sim" \in there[p].offers
             THEN Append(wire, [type |-> "lock", path |-> p, lock |-> k, value |-> lock'[p][k]])
             ELSE wire
  /\ changes < MaxModemChanges /\ changes' = changes + 1
  /\ UNCHANGED <<there, odd, agentVars>>

\* The sequences that list the set.
Listings(ps) == {f \in [1..Cardinality(ps) -> ps] :
                   \A p \in ps : \E i \in 1..Cardinality(ps) : f[i] = p}

OfonoReply(c, paths) ==
  CASE c.type = "modems"     -> [type |-> "modems", paths |-> paths]
    [] c.type = "modemProps" -> [type |-> "modemProps", path |-> c.path,
                                 error |-> ~there[c.path].is, offers |-> there[c.path].offers]
    [] c.type = "simProps"   -> [type |-> "simProps", path |-> c.path,
                                 error |-> "sim" \notin there[c.path].offers, locks |-> lock[c.path]]
    [] OTHER                 -> c     \* proxies can be made for what is not there

OfonoServes ==
  /\ asked # <<>> /\ asked' = Tail(asked)
  /\ \E paths \in Listings({p \in ModemPaths : there[p].is}) :
       wire' = Append(wire, OfonoReply(Head(asked), paths))
  /\ UNCHANGED <<there, lock, changes, manager, modems, sims, counted, locksOf, leaked, table,
                 connmans, odd>>

(***************************************************************************)
(* The agent: functions of its state s.                                    *)
(***************************************************************************)
AgentState == [asked |-> asked, modems |-> modems, sims |-> sims, counted |-> counted,
               locksOf |-> locksOf, leaked |-> leaked, table |-> table, connmans |-> connmans]
AsksFor(s, type, p) == [s EXCEPT !.asked = Append(@, [type |-> type, path |-> p])]

\* carrick_ofono_agent_sim_property_changed, for each lock that changes; the path
\* is the key of both tables
LocksSet(s, p, locks) ==
  [s EXCEPT !.locksOf = [@ EXCEPT ![p] = locks],
            !.table = [k \in Locks |-> IF locks[k] = s.locksOf[p][k] THEN @[k]
                                       ELSE [@[k] EXCEPT ![p] = locks[k]]]]

\* carrick_ofono_agent_add_sim_to_modem
AddSim(s, p) == IF p \in s.sims THEN s ELSE AsksFor(s, "simProxy", p)

\* carrick_ofono_agent_remove_sim_from_modem
RemoveSimTwice(s, p) ==    \* (mutant: has_connman is not reset)
  IF p \notin s.sims THEN s
  ELSE [s EXCEPT !.sims = @ \ {p},
                 !.connmans = IF p \in s.counted THEN @ - 1 ELSE @,
                 !.table = [k \in Locks |-> [@[k] EXCEPT ![p] = None]]]
RemoveSimOnly(s, p) ==     \* (mutant: the tables keep the path)
  IF p \notin s.sims THEN s
  ELSE [s EXCEPT !.sims = @ \ {p}, !.counted = @ \ {p},
                 !.connmans = IF p \in s.counted THEN @ - 1 ELSE @]
RemoveSim(s, p) ==
  IF p \notin s.sims THEN s
  ELSE [s EXCEPT !.sims = @ \ {p}, !.counted = @ \ {p},
                 !.connmans = IF p \in s.counted THEN @ - 1 ELSE @,
                 !.table = [k \in Locks |-> [@[k] EXCEPT ![p] = None]]]

\* carrick_ofono_agent_modem_property_changed
ModemChanged(s, p, offers) ==
  LET t == IF "sim" \in offers THEN AddSim(s, p) ELSE RemoveSim(s, p)
  IN CASE "cm" \in offers /\ p \notin t.counted ->
            [t EXCEPT !.counted = @ \cup {p}, !.connmans = @ + 1]
       [] "cm" \notin offers /\ p \in t.counted ->
            [t EXCEPT !.counted = @ \ {p}, !.connmans = @ - 1]
       [] OTHER -> t

\* modem_free: what is left of a modem
Freed(s, p) == [s EXCEPT !.modems = @ \ {p}, !.sims = @ \ {p}, !.counted = @ \ {p},
                         !.locksOf = [@ EXCEPT ![p] = NoLocks]]

\* carrick_ofono_agent_remove_modem
RemoveModem(s, p) == IF p \in s.modems THEN Freed(RemoveSim(s, p), p) ELSE s

\* _modem_proxy_new_cb: a modem of that path is freed
AddModem(s, p) == AsksFor([Freed(s, p) EXCEPT !.modems = @ \cup {p}], "modemProps", p)

\* _sim_proxy_new_cb: another one is overwritten
SimProxyMade(s, p) ==
  IF p \notin s.modems THEN s
  ELSE AsksFor([s EXCEPT !.sims = @ \cup {p},
                         !.leaked = IF p \in s.sims THEN @ \cup {p} ELSE @], "simProps", p)

\* A SIM proxy lives while the modem has it, somebody leaked it or a call is pending.
SimProxyLives(p) ==
  \/ p \in sims \cup leaked
  \/ \E i \in DOMAIN asked : asked[i] = [type |-> "simProps", path |-> p]
  \/ \E i \in DOMAIN wire : wire[i].type = "simProps" /\ wire[i].path = p

\* _get_modems_cb
AddModems(s, paths) ==
  [s EXCEPT !.asked = @ \o [i \in DOMAIN paths |-> [type |-> "modemProxy", path |-> paths[i]]]]

(***************************************************************************)
(* Its callbacks, one per message m.                                       *)
(***************************************************************************)
AgentHandles(s, m) ==
  CASE m.type = "manager"    -> [s EXCEPT !.asked = Append(@, [type |-> "modems"])]
    [] m.type = "modems"     -> AddModems(s, m.paths)
    [] m.type = "added"      -> IF manager THEN AsksFor(s, "modemProxy", m.path) ELSE s
    [] m.type = "removed"    -> IF manager THEN RemoveModem(s, m.path) ELSE s
    [] m.type = "modemProxy" -> AddModem(s, m.path)
    [] m.type = "modemProps" -> IF m.path \in s.modems /\ ~m.error
                                THEN ModemChanged(s, m.path, m.offers) ELSE s
    [] m.type = "interfaces" -> IF m.path \in s.modems
                                THEN ModemChanged(s, m.path, m.offers) ELSE s
    [] m.type = "simProxy"   -> SimProxyMade(s, m.path)
    [] m.type = "simProps"   -> IF m.path \in s.modems /\ ~m.error
                                THEN LocksSet(s, m.path, m.locks) ELSE s
    [] m.type = "lock"       -> IF m.path \in s.modems /\ SimProxyLives(m.path)
                                THEN LocksSet(s, m.path, [s.locksOf[m.path] EXCEPT ![m.lock] = m.value])
                                ELSE s

AgentReceives ==
  /\ wire # <<>> /\ wire' = Tail(wire)
  /\ LET s == AgentHandles(AgentState, Head(wire))
     IN /\ asked' = s.asked /\ modems' = s.modems /\ sims' = s.sims /\ counted' = s.counted
        /\ locksOf' = s.locksOf /\ leaked' = s.leaked /\ table' = s.table
        /\ connmans' = s.connmans
  /\ manager' = (manager \/ Head(wire).type = "manager")
  /\ UNCHANGED <<there, lock, changes, odd>>

OfonoNext ==
  \/ \E p \in ModemPaths :
       \/ ModemGoes(p)
       \/ \E offers \in Offers : ModemComes(p, offers) \/ InterfacesChange(p, offers)
       \/ \E k \in Locks : LockChanges(p, k)
  \/ OfonoServes \/ AgentReceives

OfonoSpec == OfonoInit /\ [][OfonoNext]_ofonoVars

(***************************************************************************)
(* Properties.                                                             *)
(***************************************************************************)
\* However modems and interfaces come and go, also in the middle of a proxy's
\* creation, the unsigned count is not taken below zero.
CountNeverWraps == connmans >= Cardinality(counted)

\* "Number of modems with a ConnectionManager API"
CountsConnectionManagers == connmans = Cardinality(counted)

\* When all is quiet the agent's picture of a modem is oFono's, unless the modem
\* changed while the agent was busy with it, or a SIM came back of which the agent
\* had something left.
Mirrors ==
  asked = <<>> /\ wire = <<>> =>
    \A p \in ModemPaths \ odd :
      /\ p \in modems <=> there[p].is
      /\ p \in sims <=> "sim" \in there[p].offers
      /\ p \in counted <=> "cm" \in there[p].offers
      /\ \A k \in Locks : table[k][p] = IF p \in sims THEN lock[p][k] ELSE None

\* Nobody is asked for the PIN of a SIM that cannot be talked to.
LocksHaveSim == \A k \in Locks, p \in ModemPaths \ odd : table[k][p] # None => p \in sims

\* The agent's picture of oFono, in motion and at rest.
PictureIsTrue == CountNeverWraps /\ Mirrors /\ LocksHaveSim
=============================================================================
