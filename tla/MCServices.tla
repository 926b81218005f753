----------------------------- MODULE MCServices ----------------------------
(***************************************************************************)
(* The notifications and the panels that mirror a service of the system,   *)
(* checked side by side: a behaviour is one of one part, the others rest   *)
(* in their initial state.  The parts are proved about as well, so they    *)
(* are extended; the properties but for ServicesTypeOK are theirs.         *)
(***************************************************************************)
EXTENDS Launches, Notify, SimUnlock, Ofono, ServiceItem, Devices, Bluetooth, Radio, Network,
        ServiceList, Integers

CONSTANTS
  Parts           \* the parts that run

VARIABLE
  part            \* which one runs

\* Two processes launch the same application.
LaunchedBy == [a \in Adders |-> IF a = "x" THEN "one" ELSE "two"]

\* The parts that do not run stay in one initial state.
ServicesInit ==
  /\ part \in Parts
  /\ Init /\ (part # "launches" => files = <<>>)
  /\ NtfInit
  \* one of two modems may be there from the start
  /\ OfonoInit   /\ ~there["n"].is /\ lock["n"]["pin"] = "none"
  /\ (part # "ofono" => ~there["m"].is /\ lock["m"]["pin"] = "none")
  /\ TilesInit   /\ (part # "devices" => Here = {})
  /\ RadioInit   /\ (part # "radio" => ui = "pane" /\ ~radio["have"] /\ ~radio["offline"])
  /\ UnlockInit /\ ListInit
  /\ ItemInit /\ \A i \in Items : row[i].conf = "plain"
  /\ BtInit      /\ (part # "bluetooth" => box = <<>>)
  \* connman's services are alike, so their first order may be fixed; "c" comes later
  /\ NetInit    /\ services \in {<<>>, <<"a", "b">>}
  /\ (part # "network" => services = <<>>)

ServicesNext ==
  \/ /\ part = "launches" /\ Next
     /\ UNCHANGED <<part, ntfVars, ofonoVars, devicesVars, radioVars, unlockVars, listVars,
                    btVars, netVars, itemVars>>
  \* bound: of messages and mounts, two
  \/ /\ part = "notify" /\ NtfNext /\ calls' + Cardinality(mounted') <= 2
     /\ UNCHANGED <<part, vars, ofonoVars, devicesVars, radioVars, unlockVars, listVars, btVars,
                    netVars, itemVars>>
  \/ /\ part = "ofono" /\ OfonoNext
     /\ UNCHANGED <<part, vars, ntfVars, devicesVars, radioVars, unlockVars, listVars, btVars,
                    netVars, itemVars>>
  \/ /\ part = "devices" /\ TilesNext
     /\ UNCHANGED <<part, vars, ntfVars, ofonoVars, radioVars, unlockVars, listVars, btVars,
                    netVars, itemVars>>
  \/ /\ part = "radio" /\ RadioNext
     /\ UNCHANGED <<part, vars, ntfVars, ofonoVars, devicesVars, unlockVars, listVars, btVars,
                    netVars, itemVars>>
  \/ /\ part = "unlock" /\ UnlockNext
     /\ UNCHANGED <<part, vars, ntfVars, ofonoVars, devicesVars, radioVars, listVars, btVars,
                    netVars, itemVars>>
  \/ /\ part = "list" /\ ListNext
     /\ UNCHANGED <<part, vars, ntfVars, ofonoVars, devicesVars, radioVars, unlockVars,
                    btVars, netVars, itemVars>>
  \/ /\ part = "bluetooth" /\ BtNext
     /\ UNCHANGED <<part, vars, ntfVars, ofonoVars, devicesVars, radioVars, unlockVars,
                    listVars, netVars, itemVars>>
  \/ /\ part = "network" /\ NetNext
     /\ UNCHANGED <<part, vars, ntfVars, ofonoVars, devicesVars, radioVars, unlockVars,
                    listVars, btVars, itemVars>>
  \/ /\ part = "item" /\ ItemNext
     /\ UNCHANGED <<part, vars, ntfVars, ofonoVars, devicesVars, radioVars, unlockVars,
                    listVars, btVars, netVars>>

servicesVars == <<part, vars, ntfVars, ofonoVars, devicesVars, radioVars, unlockVars,
                  listVars, btVars, netVars, itemVars>>

ServicesSpec == ServicesInit /\ [][ServicesNext]_servicesVars

\* The parts' type invariants: a tray holds a message once.
ServicesTypeOK ==
  CASE part = "launches"  -> TypeOK
    [] part = "notify"    -> NtfTypeOK
    [] part = "ofono"     -> OfonoTypeOK
    [] part = "devices"   -> TilesTypeOK
    [] part = "radio"     -> RadioTypeOK
    [] part = "unlock"    -> UnlockTypeOK
    [] part = "list"      -> ListTypeOK
    [] part = "bluetooth" -> BtTypeOK
    [] part = "network"   -> NetTypeOK
    [] part = "item"      -> ItemTypeOK
=============================================================================
