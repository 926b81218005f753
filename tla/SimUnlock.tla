------------------------------- MODULE SimUnlock ------------------------------
(***************************************************************************)
(* How the network panel asks for the codes of SIM cards: the item that    *)
(* stands for the modems (carrick-service-item.c with is_modem_dummy) has  *)
(* one entry for whatever is required, PIN, PUK, or the new PIN after a    *)
(* PUK, of whichever modem, and sends oFono what was typed.                *)
(*                                                                         *)
(* External: the agent's tables (module Ofono is about them), oFono, and   *)
(* the user.  Codes are told apart by what the entry asked for when they   *)
(* were typed.                                                             *)
(***************************************************************************)
EXTENDS Naturals, FiniteSets

CONSTANTS
  Modems,
  MaxSimChanges,  \* bound: how often a SIM requires something else
  MaxCodes     \* bound: how many codes are sent

ASSUME UnlockAssumption == MaxSimChanges \in Nat /\ MaxCodes \in Nat

VARIABLES
  sim,        \* required-pins, locked-puks: what each SIM requires, whether it is locked
  nSimChanges,\* how often they changed
  wants,      \* priv->modem_requiring_pin, priv->required_pin_type
  stage,      \* priv->passphrase_type
  locked,     \* priv->locked_puk_type is not NULL
  puk,        \* priv->entered_puk
  prompt,     \* the passphrase box is visible
  text,       \* the text of its entry
  sent,       \* the calls oFono has not answered
  nCalls,     \* how many there were
  settling,   \* how often _wait_for_ofono_to_settle is still to run
  visible,    \* carrick_shell_is_visible
  simNote,    \* the desktop notification: the code it asks for, or none
  closed,     \* history: the user has closed the box
  resetSent   \* history: a ResetPin was sent since something else was required

unlockVars == <<sim, nSimChanges, wants, stage, locked, puk, prompt, text, sent, nCalls, settling,
                visible, simNote, closed, resetSent>>

Codes  == {"pin", "puk"}
NoCode == [modem |-> "", code |-> "none"]
Wanted == {NoCode} \cup [modem: Modems, code: Codes]
\* A text: the hint, nothing, or what was typed for that stage of that modem.
Empty  == [modem |-> "", stage |-> "empty"]
Hint   == [modem |-> "", stage |-> "hint"]
Texts  == {Empty, Hint} \cup [modem: Modems, stage: Codes \cup {"newpin"}]
Calls  == [method: {"EnterPin", "ResetPin"}, modem: Modems, puk: Texts, text: Texts, again: BOOLEAN,
           id: 1 .. MaxCodes]

UnlockTypeOK ==
  /\ sim \in [Modems -> [code: Codes \cup {"none"}, locked: BOOLEAN]]
  /\ wants \in Wanted /\ stage \in Codes \cup {"newpin", "wifi"} /\ locked \in BOOLEAN
  /\ puk \in Texts /\ prompt \in BOOLEAN /\ text \in Texts /\ sent \subseteq Calls
  /\ nCalls \in 0 .. MaxCodes /\ settling \in Nat /\ visible \in BOOLEAN /\ simNote \in Codes \cup {"none"}
  /\ closed \in BOOLEAN /\ resetSent \in BOOLEAN /\ nSimChanges \in 0 .. MaxSimChanges

\* The item is made before the agent has heard of any modem.
UnlockInit ==
  /\ sim = [m \in Modems |-> [code |-> "none", locked |-> FALSE]] /\ nSimChanges = 0
  /\ wants = NoCode /\ stage = "wifi" /\ locked = FALSE /\ puk = Empty
  /\ prompt = FALSE /\ text = Empty /\ sent = {} /\ nCalls = 0 /\ settling = 0
  /\ visible = FALSE /\ simNote = "none" /\ closed = FALSE /\ resetSent = FALSE

(***************************************************************************)
(* The item: functions of its state s.                                     *)
(***************************************************************************)
State == [wants |-> wants, stage |-> stage, locked |-> locked, puk |-> puk, prompt |-> prompt,
          text |-> text, simNote |-> simNote, closed |-> closed, resetSent |-> resetSent]
Become(s) == /\ wants' = s.wants /\ stage' = s.stage /\ locked' = s.locked /\ puk' = s.puk
             /\ prompt' = s.prompt /\ text' = s.text /\ simNote' = s.simNote
             /\ closed' = s.closed /\ resetSent' = s.resetSent

\* carrick_service_item_update; the dummy is always idle, so this ends in
\* carrick_service_item_update_cellular_info and _request_passphrase.
UpdateKeepsText(s) ==     \* (mutant: what was typed stays)
  IF s.wants = NoCode THEN [s EXCEPT !.prompt = FALSE, !.closed = FALSE]
  ELSE [s EXCEPT !.prompt = TRUE, !.text = IF s.prompt THEN @ ELSE Hint, !.closed = FALSE]
Update(s) == IF s.wants = NoCode THEN [s EXCEPT !.prompt = FALSE, !.closed = FALSE]
             ELSE [s EXCEPT !.prompt = TRUE, !.text = Hint, !.closed = FALSE]

\* carrick_service_desktop_notify_request_pin
NotifyPin(s) == IF s.wants = NoCode \/ s.locked THEN [s EXCEPT !.simNote = "none"]
                ELSE IF visible THEN s ELSE [s EXCEPT !.simNote = s.wants.code]

\* carrick_service_item_set_required_pin_type.  The stage of a code that is required
\* as before stays, it may be that of the new PIN.
Require(s, w) ==
  IF w = s.wants THEN s
  ELSE NotifyPin(Update([s EXCEPT !.wants = w, !.resetSent = FALSE,
                                  !.stage = IF w = NoCode THEN @ ELSE w.code]))

\* _ofono_notify_required_pins_cb: of several modems, the first that the table has
InTable(t) == {[modem |-> m, code |-> t[m].code] : m \in {n \in Modems : t[n].code # "none"}}
First(t) == IF InTable(t) = {} THEN {NoCode} ELSE InTable(t)

SimChanges(m, code) ==
  /\ nSimChanges < MaxSimChanges /\ nSimChanges' = nSimChanges + 1
  /\ code # sim[m].code /\ sim' = [sim EXCEPT ![m].code = code]
  /\ \E w \in First(sim') : Become(Require(State, w))
  /\ UNCHANGED <<sent, nCalls, settling, visible>>

\* _ofono_notify_locked_puks_cb, carrick_service_item_set_locked_puk_type: nothing is
\* shown anew when the last lock goes.
SimLocks(m) ==
  /\ nSimChanges < MaxSimChanges /\ nSimChanges' = nSimChanges + 1
  /\ sim' = [sim EXCEPT ![m].locked = ~@]
  /\ LET is == \E n \in Modems : sim'[n].locked
         s  == [State EXCEPT !.locked = is]
     IN Become(IF is THEN Update(s) ELSE s)
  /\ UNCHANGED <<sent, nCalls, settling, visible>>

\* _ofono_retries_changed_cb
RetriesChange ==
  /\ nSimChanges < MaxSimChanges /\ nSimChanges' = nSimChanges + 1
  /\ Become(Update(State)) /\ UNCHANGED <<sim, sent, nCalls, settling, visible>>

(***************************************************************************)
(* The user.                                                               *)
(***************************************************************************)
Type == /\ prompt /\ Become([State EXCEPT !.text = [modem |-> wants.modem, stage |-> stage]])
        /\ UNCHANGED <<sim, nSimChanges, sent, nCalls, settling, visible>>

\* _passphrase_entry_clear_released_cb: the second click closes the box
Clear == /\ prompt
         /\ Become(IF text # Empty THEN [State EXCEPT !.text = Empty]
                   ELSE [State EXCEPT !.prompt = FALSE, !.closed = TRUE])
         /\ UNCHANGED <<sim, nSimChanges, sent, nCalls, settling, visible>>

Sends(method, code) ==
  /\ nCalls < MaxCodes /\ nCalls' = nCalls + 1
  /\ sent' = sent \cup {[method |-> method, modem |-> wants.modem, puk |-> code, text |-> text,
                         again |-> resetSent, id |-> nCalls']}

\* _passphrase_button_or_entry_cb: carrick_service_item_enter_pin, the PUK, which is
\* kept until there is a new PIN, carrick_service_item_reset_pin
EnterPin == /\ prompt /\ stage = "pin" /\ Sends("EnterPin", Empty)
            /\ Become([State EXCEPT !.prompt = FALSE])
            /\ UNCHANGED <<sim, nSimChanges, settling, visible>>

EnterPuk == /\ prompt /\ stage = "puk"
            /\ Become(Update([State EXCEPT !.puk = text, !.stage = "newpin"]))
            /\ UNCHANGED <<sim, nSimChanges, sent, nCalls, settling, visible>>

ResetPin == /\ prompt /\ stage = "newpin" /\ Sends("ResetPin", puk)
            /\ Become([State EXCEPT !.prompt = FALSE, !.puk = Empty, !.resetSent = TRUE])
            /\ UNCHANGED <<sim, nSimChanges, settling, visible>>

\* carrick_shell_show, carrick_shell_hide
ShellToggles == /\ visible' = ~visible
                /\ UNCHANGED <<sim, nSimChanges, wants, stage, locked, puk, prompt, text, sent,
                               nCalls, settling, simNote, closed, resetSent>>

(***************************************************************************)
(* oFono's answer, whatever it is, and the 200 ms that follow.             *)
(***************************************************************************)
Answered(c) == /\ c \in sent /\ sent' = sent \ {c} /\ settling' = settling + 1
               /\ UNCHANGED <<sim, nSimChanges, wants, stage, locked, puk, prompt, text, nCalls,
                              visible, simNote, closed, resetSent>>

Settle == /\ settling > 0 /\ settling' = settling - 1 /\ Become(Update(State))
          /\ UNCHANGED <<sim, nSimChanges, sent, nCalls, visible>>

UnlockNext ==
  \/ \E m \in Modems : SimLocks(m) \/ \E code \in Codes \cup {"none"} : SimChanges(m, code)
  \/ RetriesChange \/ Type \/ Clear \/ EnterPin \/ EnterPuk \/ ResetPin \/ ShellToggles
  \/ (\E c \in sent : Answered(c)) \/ Settle

UnlockSpec == UnlockInit /\ [][UnlockNext]_unlockVars

(***************************************************************************)
(* Properties.                                                             *)
(***************************************************************************)
\* What was typed goes to the modem, and as the code, that it was typed for: another
\* SIM may come first, and a PIN turn into a PUK, while the user types.
CodesGoWhereAsked ==
  \A c \in sent :
    /\ c.text.stage \in {"hint", "empty"}
         \/ c.text = [modem |-> c.modem,
                      stage |-> IF c.method = "EnterPin" THEN "pin" ELSE "newpin"]
    /\ c.puk.stage \in {"hint", "empty"} \/ c.puk = [modem |-> c.modem, stage |-> "puk"]

\* A PUK goes with the first new PIN that is sent, and with no other.
PukIsUsedOnce == \A c \in sent : c.method = "ResetPin" /\ c.again => c.puk = Empty

\* When all is quiet the box asks for a code that some SIM requires, unless the user has
\* closed it, and nobody is asked for a code if none does.
AsksForRequired ==
  /\ wants \in First(sim)
  /\ wants.code = "pin" => stage = "pin"
  /\ wants.code = "puk" => stage \in {"puk", "newpin"}
  /\ sent = {} /\ settling = 0 => (prompt <=> wants # NoCode /\ ~closed)
  /\ prompt \/ simNote # "none" => wants # NoCode

UnlockIsRight == CodesGoWhereAsked /\ PukIsUsedOnce /\ AsksForRequired
=============================================================================
