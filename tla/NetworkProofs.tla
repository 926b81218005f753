---------------------------- MODULE NetworkProofs ---------------------------
(***************************************************************************)
(* What is proved about the network panel, for any number of services,     *)
(* modems, codes and acts of the user: the item of its list that asks for  *)
(* the codes of SIM cards (SimUnlock), those of the services (ServiceItem),*)
(* both carrick-service-item.c, the agent that says which codes are        *)
(* required (Ofono, carrick-ofono-agent.c), and the list itself, its icon  *)
(* and its notes (Network, carrick-network-model.c).                       *)
(***************************************************************************)
EXTENDS SimUnlock, ServiceItem, Ofono, Network, SequenceTheorems, FiniteSetTheorems,
        WellFoundedInduction, TLAPS

(***************************************************************************)
(* The item that asks for codes, whatever SIMs require and oFono answers   *)
(* while the user types.                                                   *)
(***************************************************************************)
\* What oFono may be sent as a code: nothing typed, or what was typed for it.
FitsFor(t, m, for) == t.stage \in {"hint", "empty"} \/ t = [modem |-> m, stage |-> for]

\* What is true of the item between handlers, as predicates on its state.
AsksRightly(s) ==
  /\ s.wants.code = "pin" => s.stage = "pin"
  /\ s.wants.code = "puk" => s.stage \in {"puk", "newpin"}
KeepsRightly(s) ==
  /\ s.wants # NoCode /\ s.stage = "newpin" => FitsFor(s.puk, s.wants.modem, "puk")
  /\ s.wants # NoCode /\ s.resetSent => s.stage = "newpin" /\ s.puk = Empty
PromptsRightly(s) ==
  s.prompt => s.wants # NoCode /\ ~s.closed /\ FitsFor(s.text, s.wants.modem, s.stage)
NotesRightly(s) == s.simNote # "none" => s.wants # NoCode
UnlockRight(s) == AsksRightly(s) /\ KeepsRightly(s) /\ PromptsRightly(s) /\ NotesRightly(s)

\* The box is there when it should be.
Shows(s) == s.wants # NoCode /\ ~s.closed => s.prompt

UnlockItems == [wants: Wanted, stage: Codes \cup {"newpin", "wifi"}, locked: BOOLEAN, puk: Texts,
                prompt: BOOLEAN, text: Texts, simNote: Codes \cup {"none"}, closed: BOOLEAN,
                resetSent: BOOLEAN]

UnlockItemInv == State \in UnlockItems /\ UnlockRight(State)
Around == /\ sim \in [Modems -> [code: Codes \cup {"none"}, locked: BOOLEAN]]
          /\ nSimChanges \in 0 .. MaxSimChanges /\ nCalls \in 0 .. MaxCodes
          /\ settling \in Nat /\ visible \in BOOLEAN
SentInv == sent \subseteq Calls /\ CodesGoWhereAsked /\ PukIsUsedOnce
WantsInv == wants \in First(sim)
QuietInv == sent = {} /\ settling = 0 => Shows(State)
UnlockInv == UnlockItemInv /\ Around /\ SentInv /\ WantsInv /\ QuietInv

(***************************************************************************)
(* The item's functions.                                                   *)
(***************************************************************************)
LEMMA Texting == Empty \in Texts /\ Hint \in Texts
                 /\ \A m \in Modems, c \in Codes \cup {"newpin"} :
                      [modem |-> m, stage |-> c] \in Texts
  BY DEF Texts

LEMMA Wanting == ASSUME NEW v \in Wanted, v # NoCode
                 PROVE  v.modem \in Modems /\ v.code \in Codes
  BY DEF Wanted, NoCode, Codes

LEMMA ItemFields ==
  ASSUME NEW s \in UnlockItems
  PROVE  /\ s.wants \in Wanted /\ s.stage \in Codes \cup {"newpin", "wifi"}
         /\ s.locked \in BOOLEAN /\ s.puk \in Texts /\ s.prompt \in BOOLEAN /\ s.text \in Texts
         /\ s.simNote \in Codes \cup {"none"} /\ s.closed \in BOOLEAN /\ s.resetSent \in BOOLEAN
  BY DEF UnlockItems

LEMMA NothingWanted == NoCode.code = "none"
  BY DEF NoCode

\* An item that asks for the right thing shows it after an update.
LEMMA UpdateKeeps ==
  ASSUME NEW s \in UnlockItems, AsksRightly(s), KeepsRightly(s)
  PROVE  /\ Update(s) \in UnlockItems /\ AsksRightly(Update(s)) /\ KeepsRightly(Update(s))
         /\ PromptsRightly(Update(s)) /\ Shows(Update(s))
         /\ Update(s).wants = s.wants /\ Update(s).simNote = s.simNote
  <1>1. CASE s.wants = NoCode
    <2>1. Update(s) = [s EXCEPT !.prompt = FALSE, !.closed = FALSE]
          BY <1>1 DEF Update
    <2> QED BY <1>1, <2>1 DEF UnlockItems, AsksRightly, KeepsRightly, PromptsRightly, Shows
  <1>2. CASE s.wants # NoCode
    <2>1. Update(s) = [s EXCEPT !.prompt = TRUE, !.text = Hint, !.closed = FALSE]
          BY <1>2 DEF Update
    <2>2. Update(s) \in UnlockItems
          BY <2>1, Texting DEF UnlockItems
    <2>3. /\ Update(s).text = Hint /\ Update(s).prompt = TRUE /\ Update(s).closed = FALSE
          /\ Update(s).wants = s.wants /\ Update(s).stage = s.stage /\ Update(s).puk = s.puk
          /\ Update(s).simNote = s.simNote /\ Update(s).resetSent = s.resetSent
          BY <2>1 DEF UnlockItems
    <2>4. FitsFor(Hint, s.wants.modem, s.stage)
          BY DEF FitsFor, Hint
    <2> QED BY <1>2, <2>2, <2>3, <2>4 DEF AsksRightly, KeepsRightly, PromptsRightly, Shows
  <1> QED BY <1>1, <1>2

\* What the desktop notification tells of is still required.
LEMMA NotifyKeeps ==
  ASSUME NEW s \in UnlockItems, AsksRightly(s), KeepsRightly(s), PromptsRightly(s), Shows(s)
  PROVE  /\ NotifyPin(s) \in UnlockItems /\ UnlockRight(NotifyPin(s)) /\ Shows(NotifyPin(s))
         /\ NotifyPin(s).wants = s.wants
  <1>1. s.wants # NoCode => s.wants.code \in Codes
        BY Wanting, ItemFields
  <1>2. PICK n \in Codes \cup {"none"} :
          /\ NotifyPin(s) = s \/ NotifyPin(s) = [s EXCEPT !.simNote = n]
          /\ s.wants = NoCode => NotifyPin(s) = [s EXCEPT !.simNote = n] /\ n = "none"
        BY <1>1 DEF NotifyPin
  <1>3. NotifyPin(s) \in UnlockItems
        BY <1>2 DEF UnlockItems
  <1>4. /\ NotifyPin(s).wants = s.wants /\ NotifyPin(s).stage = s.stage
        /\ NotifyPin(s).puk = s.puk /\ NotifyPin(s).prompt = s.prompt
        /\ NotifyPin(s).text = s.text /\ NotifyPin(s).closed = s.closed
        /\ NotifyPin(s).resetSent = s.resetSent
        BY <1>2 DEF UnlockItems
  <1>5. NotesRightly(NotifyPin(s))
        BY <1>2, <1>4 DEF UnlockItems, NotesRightly
  <1> QED BY <1>3, <1>4, <1>5 DEF UnlockRight, AsksRightly, KeepsRightly, PromptsRightly, Shows

\* Another code may be required at any time.
LEMMA RequireKeeps ==
  ASSUME NEW s \in UnlockItems, UnlockRight(s), NEW v \in Wanted
  PROVE  /\ Require(s, v) \in UnlockItems /\ UnlockRight(Require(s, v)) /\ Require(s, v).wants = v
         /\ Shows(s) \/ v # s.wants => Shows(Require(s, v))
  <1>1. CASE v = s.wants
    BY <1>1 DEF Require
  <1>2. CASE v # s.wants
    <2> DEFINE t == [s EXCEPT !.wants = v, !.resetSent = FALSE,
                              !.stage = IF v = NoCode THEN @ ELSE v.code]
    <2>1. v # NoCode => v.code \in Codes
          BY Wanting
    <2>2. t \in UnlockItems /\ t.wants = v /\ t.resetSent = FALSE
          BY <2>1 DEF UnlockItems
    <2>3. t.stage = IF v = NoCode THEN s.stage ELSE v.code
          BY DEF UnlockItems
    <2>4. Require(s, v) = NotifyPin(Update(t))
          BY <1>2 DEF Require
    <2> HIDE DEF t
    <2>5. v = NoCode => v.code = "none"
          BY NothingWanted
    <2>6. AsksRightly(t)
          BY <2>2, <2>3, <2>5 DEF AsksRightly
    <2>7. KeepsRightly(t)
          BY <2>1, <2>2, <2>3 DEF KeepsRightly, Codes
    <2>8. /\ Update(t) \in UnlockItems /\ AsksRightly(Update(t)) /\ KeepsRightly(Update(t))
          /\ PromptsRightly(Update(t)) /\ Shows(Update(t)) /\ Update(t).wants = v
          BY <2>2, <2>6, <2>7, UpdateKeeps
    <2> QED BY <2>4, <2>8, NotifyKeeps
  <1> QED BY <1>1, <1>2

(***************************************************************************)
(* The steps.                                                              *)
(***************************************************************************)
\* An action makes the item what its function gives.
LEMMA UnlockBecoming ==
  ASSUME NEW s \in UnlockItems, Become(s)
  PROVE  State' = s
  <1>1. s = [wants |-> s.wants, stage |-> s.stage, locked |-> s.locked, puk |-> s.puk,
             prompt |-> s.prompt, text |-> s.text, simNote |-> s.simNote, closed |-> s.closed,
             resetSent |-> s.resetSent]
        BY DEF UnlockItems
  <1> QED BY <1>1 DEF Become, State

LEMMA UnlockStarts == UnlockInit => UnlockInv
  <1> SUFFICES ASSUME UnlockInit PROVE UnlockInv
      OBVIOUS
  <1>1. State \in UnlockItems
        BY Texting DEF UnlockInit, State, UnlockItems, Wanted
  <1>2. UnlockRight(State) /\ Shows(State)
        BY DEF UnlockInit, State, UnlockRight, AsksRightly, KeepsRightly, PromptsRightly, NotesRightly,
               Shows, NoCode
  <1>3. Around
    <2>1. [code |-> "none", locked |-> FALSE] \in [code: Codes \cup {"none"}, locked: BOOLEAN]
          OBVIOUS
    <2>2. sim \in [Modems -> [code: Codes \cup {"none"}, locked: BOOLEAN]]
          BY <2>1 DEF UnlockInit
    <2>3. nSimChanges = 0 /\ nCalls = 0 /\ settling = 0 /\ visible = FALSE
          BY DEF UnlockInit
    <2>4. 0 \in 0 .. MaxSimChanges /\ 0 \in 0 .. MaxCodes /\ 0 \in Nat
          BY UnlockAssumption
    <2>5. /\ nSimChanges \in 0 .. MaxSimChanges /\ nCalls \in 0 .. MaxCodes
          /\ settling \in Nat /\ visible \in BOOLEAN
          BY <2>3, <2>4
    <2> QED BY <2>2, <2>5 DEF Around
  <1>4. WantsInv
        BY DEF UnlockInit, WantsInv, First, InTable
  <1>5. SentInv
        BY DEF UnlockInit, SentInv, CodesGoWhereAsked, PukIsUsedOnce
  <1> QED BY <1>1, <1>2, <1>3, <1>4, <1>5 DEF UnlockInv, UnlockItemInv, QuietInv

LEMMA FirstIsWanted ==
  ASSUME NEW t \in [Modems -> [code: Codes \cup {"none"}, locked: BOOLEAN]], NEW v \in First(t)
  PROVE  v \in Wanted
  <1>1. InTable(t) \subseteq Wanted
        BY DEF InTable, Wanted
  <1>2. NoCode \in Wanted
        BY DEF Wanted
  <1> QED BY <1>1, <1>2 DEF First

\* Steps that leave the calls, or what SIMs require, alone.
LEMMA CallsStay == ASSUME SentInv, sent' = sent PROVE SentInv'
  BY DEF SentInv, CodesGoWhereAsked, PukIsUsedOnce

LEMMA WantsStays ==
  ASSUME WantsInv, State'.wants = wants, \A n \in Modems : sim'[n].code = sim[n].code
  PROVE  WantsInv'
  <1>1. InTable(sim') = InTable(sim)
        BY DEF InTable
  <1> QED BY <1>1 DEF WantsInv, First, State

\* What the agent tells may change what is asked for, not what is on its way.
LEMMA AgentKeeps ==
  ASSUME UnlockInv,
         RetriesChange \/ \E m \in Modems : SimLocks(m)
                            \/ \E code \in Codes \cup {"none"} : SimChanges(m, code)
  PROVE  UnlockInv'
  <1>0. State \in UnlockItems /\ UnlockRight(State) /\ State.wants = wants
        BY DEF UnlockInv, UnlockItemInv, State
  <1>1. CASE RetriesChange
    <2>1. State' = Update(State)
          BY <1>0, <1>1, UpdateKeeps, UnlockBecoming DEF RetriesChange, UnlockRight
    <2>2. State' \in UnlockItems /\ UnlockRight(State') /\ Shows(State') /\ State'.wants = wants
          BY <1>0, <2>1, UpdateKeeps DEF UnlockRight, NotesRightly
    <2>3. Around'
          BY <1>1, UnlockAssumption DEF RetriesChange, UnlockInv, Around
    <2> QED BY <1>1, <2>2, <2>3, CallsStay, WantsStays DEF RetriesChange, UnlockInv, UnlockItemInv, QuietInv
  <1>2. ASSUME NEW m \in Modems, SimLocks(m) PROVE UnlockInv'
    <2> DEFINE is == \E n \in Modems : sim'[n].locked
               s  == [State EXCEPT !.locked = is]
    <2>1. s \in UnlockItems /\ UnlockRight(s) /\ s.wants = wants /\ (Shows(State) => Shows(s))
          BY <1>0 DEF UnlockItems, UnlockRight, AsksRightly, KeepsRightly, PromptsRightly, NotesRightly, Shows
    <2>2. Update(s) \in UnlockItems /\ UnlockRight(Update(s)) /\ Shows(Update(s)) /\ Update(s).wants = wants
          BY <2>1, UpdateKeeps DEF UnlockRight, NotesRightly
    <2>3. State' = Update(s) \/ State' = s
          BY <1>2, <2>1, <2>2, UnlockBecoming DEF SimLocks
    <2>4. State' \in UnlockItems /\ UnlockRight(State') /\ State'.wants = wants
          /\ (Shows(State) => Shows(State'))
          BY <2>1, <2>2, <2>3
    <2>5. sim' \in [Modems -> [code: Codes \cup {"none"}, locked: BOOLEAN]]
          BY <1>2 DEF SimLocks, UnlockInv, Around
    <2>6. nSimChanges' \in 0 .. MaxSimChanges
          BY <1>2, UnlockAssumption DEF SimLocks, UnlockInv, Around
    <2>7. Around'
          BY <1>2, <2>5, <2>6 DEF SimLocks, UnlockInv, Around
    <2>8. \A n \in Modems : sim'[n].code = sim[n].code
          BY <1>2 DEF SimLocks, UnlockInv, Around
    <2> QED BY <1>2, <2>4, <2>7, <2>8, CallsStay, WantsStays
            DEF SimLocks, UnlockInv, UnlockItemInv, QuietInv
  <1>3. ASSUME NEW m \in Modems, NEW code \in Codes \cup {"none"}, SimChanges(m, code)
        PROVE  UnlockInv'
    <2>1. PICK v \in First(sim') : Become(Require(State, v))
          BY <1>3 DEF SimChanges
    <2>2. Around'
          BY <1>3, UnlockAssumption DEF SimChanges, UnlockInv, Around
    <2>3. v \in Wanted
          BY <2>2, FirstIsWanted DEF Around
    <2>4. State' = Require(State, v)
          BY <1>0, <2>1, <2>3, RequireKeeps, UnlockBecoming
    <2>5. State' \in UnlockItems /\ UnlockRight(State') /\ State'.wants = v
          /\ (Shows(State) => Shows(State'))
          BY <1>0, <2>3, <2>4, RequireKeeps
    <2>6. WantsInv'
          BY <2>1, <2>5 DEF WantsInv, State
    <2> QED BY <1>3, <2>2, <2>5, <2>6, CallsStay DEF SimChanges, UnlockInv, UnlockItemInv, QuietInv
  <1> QED BY <1>1, <1>2, <1>3

\* What the user does at the box: only what was typed for a code is sent as that code.
LEMMA BoxFacts ==
  ASSUME UnlockInv, prompt
  PROVE  /\ State \in UnlockItems /\ UnlockRight(State) /\ State.wants = wants
         /\ wants # NoCode /\ wants.modem \in Modems /\ ~closed
         /\ stage \in Codes \cup {"newpin"} /\ text \in Texts /\ puk \in Texts
         /\ FitsFor(text, wants.modem, stage)
         /\ stage = "newpin" => FitsFor(puk, wants.modem, "puk")
         /\ resetSent => stage = "newpin" /\ puk = Empty
  <1>1. State \in UnlockItems /\ UnlockRight(State) /\ State.wants = wants
        BY DEF UnlockInv, UnlockItemInv, State
  <1>2. wants # NoCode /\ FitsFor(text, wants.modem, stage) /\ ~closed
        BY <1>1 DEF UnlockRight, PromptsRightly, State
  <1>3. wants \in Wanted /\ text \in Texts /\ puk \in Texts
        BY <1>1, ItemFields DEF State
  <1>4. wants.modem \in Modems /\ wants.code \in Codes
        BY <1>2, <1>3, Wanting
  <1>5. stage \in Codes \cup {"newpin"}
        BY <1>1, <1>4 DEF UnlockRight, AsksRightly, State, Codes
  <1>6. /\ stage = "newpin" => FitsFor(puk, wants.modem, "puk")
        /\ resetSent => stage = "newpin" /\ puk = Empty
        BY <1>1, <1>2 DEF UnlockRight, KeepsRightly, State
  <1> QED BY <1>1, <1>2, <1>3, <1>4, <1>5, <1>6

LEMMA TypingKeeps ==
  ASSUME UnlockInv, Type \/ Clear
  PROVE  UnlockInv'
  <1>1. prompt
        BY DEF Type, Clear
  <1> USE BoxFacts
  <1>2. CASE Type
    <2> DEFINE t == [modem |-> wants.modem, stage |-> stage]
               s == [State EXCEPT !.text = t]
    <2>1. t \in Texts /\ FitsFor(t, wants.modem, stage)
          BY <1>1, Texting DEF FitsFor
    <2>2. /\ s \in UnlockItems /\ s.wants = wants /\ s.stage = stage /\ s.text = t /\ s.puk = puk
          /\ s.prompt = prompt /\ s.closed = closed /\ s.resetSent = resetSent
          /\ s.simNote = State.simNote
          BY <1>1, <2>1 DEF UnlockItems, State
    <2>3. UnlockRight(s) /\ Shows(s)
          BY <1>1, <2>1, <2>2
             DEF UnlockRight, AsksRightly, KeepsRightly, PromptsRightly, NotesRightly, Shows, State
    <2>4. State' = s
          BY <1>2, <2>2, UnlockBecoming DEF Type
    <2> QED BY <1>2, <2>2, <2>3, <2>4, CallsStay, WantsStays
            DEF Type, UnlockInv, UnlockItemInv, QuietInv, Around
  <1>3. CASE Clear
    <2>1. PICK s : /\ Become(s)
                   /\ \/ s = [State EXCEPT !.text = Empty]
                      \/ s = [State EXCEPT !.prompt = FALSE, !.closed = TRUE]
          BY <1>3 DEF Clear
    <2>2. s \in UnlockItems /\ UnlockRight(s) /\ Shows(s) /\ s.wants = wants
      <3>1. CASE s = [State EXCEPT !.text = Empty]
        <4>1. FitsFor(Empty, wants.modem, stage)
              BY DEF FitsFor, Empty
        <4>2. /\ s \in UnlockItems /\ s.wants = wants /\ s.stage = stage /\ s.text = Empty
              /\ s.puk = puk /\ s.prompt = prompt /\ s.closed = closed
              /\ s.resetSent = resetSent /\ s.simNote = State.simNote
              BY <1>1, <3>1, Texting DEF UnlockItems, State
        <4> QED BY <1>1, <4>1, <4>2
                DEF UnlockRight, AsksRightly, KeepsRightly, PromptsRightly, NotesRightly, Shows, State
      <3>2. CASE s = [State EXCEPT !.prompt = FALSE, !.closed = TRUE]
        <4>1. /\ s \in UnlockItems /\ s.wants = wants /\ s.stage = stage /\ s.text = text
              /\ s.puk = puk /\ s.prompt = FALSE /\ s.closed = TRUE
              /\ s.resetSent = resetSent /\ s.simNote = State.simNote
              BY <1>1, <3>2 DEF UnlockItems, State
        <4> QED BY <1>1, <4>1
                DEF UnlockRight, AsksRightly, KeepsRightly, PromptsRightly, NotesRightly, Shows, State
      <3> QED BY <2>1, <3>1, <3>2
    <2>3. State' = s
          BY <2>1, <2>2, UnlockBecoming
    <2> QED BY <1>3, <2>2, <2>3, CallsStay, WantsStays
            DEF Clear, UnlockInv, UnlockItemInv, QuietInv, Around
  <1> QED BY <1>2, <1>3

LEMMA PukKeeps ==
  ASSUME UnlockInv, EnterPuk
  PROVE  UnlockInv'
  <1>1. prompt /\ stage = "puk"
        BY DEF EnterPuk
  <1>2. ~resetSent /\ wants.code # "pin"
        BY <1>1, BoxFacts DEF UnlockRight, AsksRightly, State
  <1> DEFINE s == [State EXCEPT !.puk = text, !.stage = "newpin"]
  <1>3. /\ s \in UnlockItems /\ s.wants = wants /\ s.stage = "newpin" /\ s.puk = text
        /\ s.resetSent = resetSent /\ s.simNote = State.simNote
        BY <1>1, BoxFacts DEF UnlockItems, State
  <1>4. AsksRightly(s) /\ KeepsRightly(s)
        BY <1>1, <1>2, <1>3, BoxFacts DEF AsksRightly, KeepsRightly
  <1>5. Update(s) \in UnlockItems /\ UnlockRight(Update(s)) /\ Shows(Update(s)) /\ Update(s).wants = wants
        BY <1>1, <1>3, <1>4, UpdateKeeps, BoxFacts DEF UnlockRight, NotesRightly
  <1>6. State' = Update(s)
        BY <1>5, UnlockBecoming DEF EnterPuk
  <1> QED BY <1>5, <1>6, CallsStay, WantsStays
          DEF EnterPuk, UnlockInv, UnlockItemInv, QuietInv, Around

LEMMA SendingKeeps ==
  ASSUME UnlockInv, EnterPin \/ ResetPin
  PROVE  UnlockInv'
  <1>1. prompt
        BY DEF EnterPin, ResetPin
  <1>2. PICK method \in {"EnterPin", "ResetPin"}, code \in Texts, reset \in BOOLEAN :
          /\ Sends(method, code)
          /\ method = "EnterPin" => stage = "pin" /\ code = Empty /\ reset = resetSent
                                    /\ Become([State EXCEPT !.prompt = FALSE])
          /\ method = "ResetPin" => stage = "newpin" /\ code = puk /\ reset = TRUE
                                    /\ Become([State EXCEPT !.prompt = FALSE, !.puk = Empty,
                                                            !.resetSent = TRUE])
        BY <1>1, BoxFacts, Texting, ItemFields DEF EnterPin, ResetPin, UnlockItems, State
  <1> DEFINE call == [method |-> method, modem |-> wants.modem, puk |-> code, text |-> text,
                      again |-> resetSent, id |-> nCalls']
  <1>3. nCalls' \in 1 .. MaxCodes /\ sent' = sent \cup {call}
        BY <1>2, UnlockAssumption DEF Sends, UnlockInv, Around
  <1>4. call \in Calls
    <2>1. wants.modem \in Modems /\ text \in Texts
          BY <1>1, BoxFacts
    <2>2. resetSent \in BOOLEAN
          BY <1>1, BoxFacts, ItemFields DEF State
    <2> QED BY <1>2, <1>3, <2>1, <2>2 DEF Calls
  <1>5. /\ call.method = method /\ call.modem = wants.modem /\ call.puk = code
        /\ call.text = text /\ call.again = resetSent
        OBVIOUS
  <1> HIDE DEF call
  <1>6. FitsFor(call.puk, call.modem, "puk")
    <2>1. FitsFor(Empty, call.modem, "puk")
          BY DEF FitsFor, Empty
    <2> QED BY <1>1, <1>2, <1>5, <2>1, BoxFacts
  <1>7. FitsFor(call.text, call.modem, IF call.method = "EnterPin" THEN "pin" ELSE "newpin")
        BY <1>1, <1>2, <1>5, BoxFacts
  <1>8. call.method = "ResetPin" /\ call.again => call.puk = Empty
        BY <1>1, <1>2, <1>5, BoxFacts
  <1>9. SentInv'
        BY <1>3, <1>4, <1>6, <1>7, <1>8
           DEF UnlockInv, SentInv, CodesGoWhereAsked, PukIsUsedOnce, FitsFor
  <1>10. PICK s \in UnlockItems :
            /\ State' = s /\ s.wants = wants /\ s.stage = stage /\ s.prompt = FALSE
            /\ s.simNote = State.simNote
            /\ \/ s.puk = puk /\ s.resetSent = resetSent
               \/ s.puk = Empty /\ s.stage = "newpin"
    <2>1. CASE method = "EnterPin"
      <3> DEFINE s == [State EXCEPT !.prompt = FALSE]
      <3>1. /\ s \in UnlockItems /\ s.wants = wants /\ s.stage = stage /\ s.prompt = FALSE
            /\ s.simNote = State.simNote /\ s.puk = puk /\ s.resetSent = resetSent
            BY <1>1, BoxFacts DEF UnlockItems, State
      <3>2. State' = s
            BY <1>2, <2>1, <3>1, UnlockBecoming
      <3> HIDE DEF s
      <3> QED BY <3>1, <3>2
    <2>2. CASE method = "ResetPin"
      <3> DEFINE s == [State EXCEPT !.prompt = FALSE, !.puk = Empty, !.resetSent = TRUE]
      <3>1. /\ s \in UnlockItems /\ s.wants = wants /\ s.stage = stage /\ s.prompt = FALSE
            /\ s.simNote = State.simNote /\ s.puk = Empty
            BY <1>1, BoxFacts, Texting DEF UnlockItems, State
      <3>2. State' = s
            BY <1>2, <2>2, <3>1, UnlockBecoming
      <3> HIDE DEF s
      <3> QED BY <1>2, <2>2, <3>1, <3>2
    <2> QED BY <1>2, <2>1, <2>2
  <1>11. AsksRightly(s) /\ NotesRightly(s) /\ PromptsRightly(s)
         BY <1>1, <1>10, BoxFacts
            DEF UnlockRight, AsksRightly, NotesRightly, PromptsRightly, State
  <1>12. KeepsRightly(s)
    <2>1. FitsFor(Empty, wants.modem, "puk")
          BY DEF FitsFor, Empty
    <2> QED BY <1>1, <1>10, <2>1, BoxFacts DEF KeepsRightly
  <1>13. sent' # {}
         BY <1>3
  <1>14. Around' /\ sim' = sim
         BY <1>2, <1>3, UnlockAssumption DEF EnterPin, ResetPin, Sends, UnlockInv, Around
  <1>15. WantsInv'
         BY <1>10, <1>14, WantsStays DEF UnlockInv
  <1> QED BY <1>9, <1>10, <1>11, <1>12, <1>13, <1>14, <1>15
          DEF UnlockInv, UnlockItemInv, QuietInv, UnlockRight

\* oFono's answers, and what the shell itself does.
LEMMA UnlockOthersKeep ==
  ASSUME UnlockInv,
         ShellToggles \/ Settle \/ (\E c \in sent : Answered(c)) \/ UNCHANGED unlockVars
  PROVE  UnlockInv'
  <1>0. State \in UnlockItems /\ UnlockRight(State) /\ State.wants = wants
        BY DEF UnlockInv, UnlockItemInv, State
  <1>1. ASSUME NEW c \in sent, Answered(c) PROVE UnlockInv'
    <2>1. State' = State /\ Around' /\ settling' # 0
          BY <1>1 DEF Answered, State, UnlockInv, Around
    <2>2. SentInv'
          BY <1>1 DEF Answered, UnlockInv, SentInv, CodesGoWhereAsked, PukIsUsedOnce
    <2> QED BY <1>0, <1>1, <2>1, <2>2, WantsStays
            DEF Answered, UnlockInv, UnlockItemInv, QuietInv
  <1>2. CASE Settle
    <2>1. /\ Update(State) \in UnlockItems /\ UnlockRight(Update(State)) /\ Shows(Update(State))
          /\ Update(State).wants = wants
          BY <1>0, UpdateKeeps DEF UnlockRight, NotesRightly
    <2>2. State' = Update(State)
          BY <1>2, <2>1, UnlockBecoming DEF Settle
    <2>3. Around'
          BY <1>2 DEF Settle, UnlockInv, Around
    <2> QED BY <1>2, <2>1, <2>2, <2>3, CallsStay, WantsStays
            DEF Settle, UnlockInv, UnlockItemInv, QuietInv
  <1>3. CASE ShellToggles \/ UNCHANGED unlockVars
    <2>1. State' = State /\ Around' /\ sent' = sent /\ settling' = settling /\ sim' = sim
          BY <1>3 DEF ShellToggles, unlockVars, State, UnlockInv, Around
    <2> QED BY <1>0, <2>1, CallsStay, WantsStays DEF UnlockInv, UnlockItemInv, QuietInv
  <1> QED BY <1>1, <1>2, <1>3

LEMMA UnlockStep == UnlockInv /\ [UnlockNext]_unlockVars => UnlockInv'
  BY AgentKeeps, TypingKeeps, PukKeeps, SendingKeeps, UnlockOthersKeep DEF UnlockNext

LEMMA UnlockInvariant == UnlockSpec => []UnlockInv
  BY UnlockStarts, UnlockStep, PTL DEF UnlockSpec

(***************************************************************************)
(* The theorems.                                                           *)
(***************************************************************************)
\* The type invariant, for any number of modems, changes and codes.
THEOREM UnlockTypeCorrect == UnlockSpec => []UnlockTypeOK
  <1>1. UnlockInv => UnlockTypeOK
        BY ItemFields DEF UnlockInv, UnlockItemInv, Around, SentInv, UnlockTypeOK, State
  <1> QED BY <1>1, UnlockInvariant, PTL

\* A code is sent to the modem, and as the code, it was typed for; a PUK is used once; and the
\* box asks for what some SIM requires.
THEOREM UnlockIsAlwaysRight == UnlockSpec => []UnlockIsRight
  <1>1. UnlockInv => AsksForRequired
    <2> SUFFICES ASSUME UnlockInv PROVE AsksForRequired
        OBVIOUS
    <2>1. UnlockRight(State) /\ wants \in First(sim)
          BY DEF UnlockInv, UnlockItemInv, WantsInv
    <2>2. sent = {} /\ settling = 0 => (prompt <=> wants # NoCode /\ ~closed)
          BY <2>1, BoxFacts DEF UnlockInv, QuietInv, Shows, State
    <2>3. prompt \/ simNote # "none" => wants # NoCode
          BY <2>1 DEF UnlockRight, PromptsRightly, NotesRightly, State
    <2>4. (wants.code = "pin" => stage = "pin")
          /\ (wants.code = "puk" => stage \in {"puk", "newpin"})
          BY <2>1 DEF UnlockRight, AsksRightly, State
    <2> QED BY <2>1, <2>2, <2>3, <2>4 DEF AsksForRequired
  <1>2. UnlockInv => CodesGoWhereAsked /\ PukIsUsedOnce
        BY DEF UnlockInv, SentInv
  <1> QED BY <1>1, <1>2, UnlockInvariant, PTL DEF UnlockIsRight

-----------------------------------------------------------------------------
(***************************************************************************)
(* The items of services, whatever the user does with them and connman     *)
(* answers.  ItemsAreRight is inductive, once it is said of one widget at  *)
(* a time; the lemmas follow the functions of a widget.                    *)
(***************************************************************************)
\* One widget r, what it knows of its service, and whether an answer came late for it.
Rests(r, k, isLate) ==
  ~r.active => /\ ~r.expanded /\ ~r.modified /\ r.form = k.conf
               /\ ~isLate => r.connects /\ ~r.asks
Fresh(r, k)  == r.expanded /\ ~r.modified => r.form = k.conf
Errors(r, k) == r.label = "failed" => k.state = "failure" /\ ~r.hidden
CanConnect(r) == ~(r.connects /\ r.asks)
Right(r, k, isLate) == Rests(r, k, isLate) /\ Fresh(r, k) /\ Errors(r, k) /\ CanConnect(r)

Alone(w)       == \A i, j \in Items : w[i].active /\ w[j].active => i = j
AllRight(w, l) == \A i \in Items : Right(w[i], known[i], i \in l)
ItemInv == ItemTypeOK /\ Alone(item) /\ \A i \in Items : Right(item[i], known[i], i \in late)

LEMMA InvIsRight == ItemInv => ItemsAreRight
  BY DEF ItemInv, Alone, Right, Rests, Fresh, Errors, CanConnect, ItemsAreRight, OneActive,
         OthersRest, FormIsFresh, ErrorsEnd

(***************************************************************************)
(* The functions of a widget.                                              *)
(***************************************************************************)
LEMMA FormStateKeeps ==
  ASSUME NEW r \in Item, NEW k \in ServiceRow
  PROVE  LET s == FormState(r, k)
         IN /\ s \in Item /\ s.form = k.conf /\ ~s.modified
            /\ s.active = r.active /\ s.expanded = r.expanded /\ s.connects = r.connects
            /\ s.asks = r.asks /\ s.label = r.label /\ s.hidden = r.hidden
  BY ZenonT(60) DEF FormState, Item, ServiceRow, Forms, Confs

LEMMA SetStateKeeps ==
  ASSUME NEW r \in Item, NEW k \in ServiceRow,
         r.label = "failed" /\ r.hidden => k.state # "failure",
         ~r.active => ~r.expanded /\ ~r.modified, CanConnect(r), NEW l,
         ~r.active /\ ~l => r.connects /\ ~r.asks
  PROVE  LET s == SetState(r, k)
         IN /\ s \in Item /\ Right(s, k, l) /\ s.active = r.active /\ s.expanded = r.expanded
            /\ s.modified = r.modified
  <1> DEFINE label == IF k.state # "failure" THEN "" ELSE IF r.hidden THEN r.label ELSE "failed"
             bar   == label # ""
             asks  == r.asks /\ k.state # "idle"
             gone  == k.state = "ready" \/ (r.removable /\ k.state \notin {"idle", "failure"})
             t == [r EXCEPT !.label = label, !.bar = bar, !.asks = asks, !.removable = gone]
  <1>0. r.hidden \in BOOLEAN /\ r.label \in {"", "failed", "invalid"}
        BY DEF Item
  <1>1. /\ label \in {"", "failed", "invalid"} /\ (label = "failed" => k.state = "failure" /\ ~r.hidden)
        /\ bar \in BOOLEAN /\ asks \in BOOLEAN /\ gone \in BOOLEAN
        BY <1>0
  <1>2. SetState(r, k) = IF r.modified THEN t ELSE FormState(t, k)
        BY DEF SetState
  <1>b. asks => r.asks
        OBVIOUS
  <1> HIDE DEF label, bar, asks, gone
  <1>3. t \in Item
        BY <1>1 DEF Item
  <1>a. /\ t.label = label /\ t.asks = asks
        /\ t.active = r.active /\ t.expanded = r.expanded /\ t.connects = r.connects
        /\ t.hidden = r.hidden /\ t.modified = r.modified
        BY DEF Item
  <1> HIDE DEF t
  <1>4. CASE r.modified
        BY <1>1, <1>2, <1>3, <1>a, <1>b, <1>4 DEF Right, Rests, Fresh, Errors, CanConnect
  <1>5. CASE ~r.modified
    <2>1. LET s == FormState(t, k)
          IN /\ s \in Item /\ s.form = k.conf /\ ~s.modified
             /\ s.active = t.active /\ s.expanded = t.expanded /\ s.connects = t.connects
             /\ s.asks = t.asks /\ s.label = t.label /\ s.hidden = t.hidden
          BY <1>3, FormStateKeeps
    <2>2. FormState(t, k).modified = r.modified
          BY <1>5, <2>1 DEF Item
    <2> QED BY <1>1, <1>2, <1>3, <1>a, <1>b, <1>5, <2>1, <2>2 DEF Right, Rests, Fresh, Errors, CanConnect
  <1> QED BY <1>4, <1>5

LEMMA InactiveKeeps ==
  ASSUME NEW r \in Item, NEW k \in ServiceRow, NEW l, Right(r, k, l)
  PROVE  Inactive(r, k) \in Item /\ Right(Inactive(r, k), k, l) /\ ~Inactive(r, k).active
  <1>1. CASE ~r.active
        BY <1>1 DEF Inactive
  <1>2. CASE r.active
    <2> DEFINE t == [r EXCEPT !.active = FALSE, !.hidden = TRUE, !.asks = FALSE, !.connects = TRUE,
                              !.bar = FALSE, !.label = "", !.expanded = FALSE]
    <2>1. Inactive(r, k) = FormState(t, k)
          BY <1>2 DEF Inactive
    <2>2. /\ t \in Item /\ ~t.active /\ ~t.asks /\ t.connects /\ t.label = "" /\ ~t.expanded
          BY DEF Item
    <2> HIDE DEF t
    <2>3. LET s == FormState(t, k)
          IN /\ s \in Item /\ s.form = k.conf /\ ~s.modified
             /\ s.active = t.active /\ s.expanded = t.expanded /\ s.connects = t.connects
             /\ s.asks = t.asks /\ s.label = t.label /\ s.hidden = t.hidden
          BY <2>2, FormStateKeeps
    <2> QED BY <2>1, <2>2, <2>3 DEF Right, Rests, Fresh, Errors, CanConnect
  <1> QED BY <1>1, <1>2

LEMMA RequestedKeeps ==
  ASSUME NEW r \in Item, NEW k \in ServiceRow, NEW l, NEW m, Right(r, k, l), r.active \/ m
  PROVE  Requested(r, k) \in Item /\ Right(Requested(r, k), k, m)
         /\ Requested(r, k).active = r.active
  <1> DEFINE t == IF k.pass = "" THEN PasswordHint ELSE k.pass
             h == t = r.text /\ (k.pass = "" \/ r.hint)
             s == [r EXCEPT !.connects = FALSE, !.asks = TRUE, !.text = t, !.hint = h]
  <1>1. t \in Entries /\ h \in BOOLEAN
        BY DEF ServiceRow, Entries, Valid, PasswordHint
  <1>2. Requested(r, k) = s
        BY DEF Requested
  <1> HIDE DEF t, h
  <1>3. s \in Item
        BY <1>1 DEF Item
  <1>4. /\ ~s.connects /\ s.active = r.active /\ s.expanded = r.expanded
        /\ s.modified = r.modified /\ s.form = r.form /\ s.label = r.label /\ s.hidden = r.hidden
        BY DEF Item
  <1> HIDE DEF s
  <1> QED BY <1>2, <1>3, <1>4 DEF Right, Rests, Fresh, Errors, CanConnect

(***************************************************************************)
(* All widgets.                                                            *)
(***************************************************************************)
LEMMA ReplacedKeeps ==
  ASSUME NEW w \in [Items -> Item], AllRight(w, late), Alone(w), NEW i \in Items, NEW s \in Item,
         Right(s, known[i], i \in late), s.active => w[i].active
  PROVE  LET v == [w EXCEPT ![i] = s]
         IN v \in [Items -> Item] /\ AllRight(v, late) /\ Alone(v)
  BY DEF AllRight, Alone

LEMMA ActiveKeeps ==
  ASSUME ItemInv, NEW i \in Items
  PROVE  /\ Active(i) \in [Items -> Item] /\ AllRight(Active(i), late) /\ Alone(Active(i))
         /\ Active(i)[i].active
  <1>0. /\ item \in [Items -> Item] /\ known \in [Items -> ServiceRow] /\ Alone(item)
        /\ AllRight(item, late)
        BY DEF ItemInv, ItemTypeOK, AllRight
  <1>1. CASE item[i].active
        BY <1>0, <1>1 DEF Active
  <1>2. CASE ~item[i].active
    <2> DEFINE s == [item[i] EXCEPT !.active = TRUE]
    <2>1. Active(i) = [j \in Items |-> IF j = i THEN s ELSE Inactive(item[j], known[j])]
          BY <1>2 DEF Active
    <2>2. /\ s \in Item /\ s.active /\ s.expanded = item[i].expanded
          /\ s.modified = item[i].modified /\ s.form = item[i].form /\ s.label = item[i].label
          /\ s.hidden = item[i].hidden /\ s.connects = item[i].connects /\ s.asks = item[i].asks
          BY <1>0 DEF Item
    <2> HIDE DEF s
    <2>3. Right(s, known[i], i \in late)
          BY <1>0, <2>2 DEF AllRight, Right, Rests, Fresh, Errors, CanConnect
    <2>4. ASSUME NEW j \in Items
          PROVE  /\ Inactive(item[j], known[j]) \in Item /\ ~Inactive(item[j], known[j]).active
                 /\ Right(Inactive(item[j], known[j]), known[j], j \in late)
          BY <1>0, InactiveKeeps DEF AllRight
    <2> QED BY <2>1, <2>2, <2>3, <2>4 DEF AllRight, Alone
  <1> QED BY <1>1, <1>2

LEMMA OthersKeep ==
  ASSUME ItemInv, NEW i \in Items
  PROVE  LET w == [item EXCEPT ![i] = Inactive(@, known[i])]
         IN w \in [Items -> Item] /\ AllRight(w, late) /\ Alone(w)
  <1>1. /\ item \in [Items -> Item] /\ known \in [Items -> ServiceRow] /\ Alone(item)
        /\ AllRight(item, late)
        BY DEF ItemInv, ItemTypeOK, AllRight
  <1>2. /\ Inactive(item[i], known[i]) \in Item /\ ~Inactive(item[i], known[i]).active
        /\ Right(Inactive(item[i], known[i]), known[i], i \in late)
        BY <1>1, InactiveKeeps DEF AllRight
  <1> QED BY <1>1, <1>2, ReplacedKeeps

LEMMA Becoming ==
  ASSUME NEW w \in [Items -> Item], AllRight(w, late), Alone(w), ItemsBecome(w), known' = known,
         late \subseteq Items
  PROVE  /\ item' \in [Items -> Item] /\ late' \subseteq Items /\ Alone(item')
         /\ \A i \in Items : Right(item'[i], known'[i], i \in late')
  <1>1. item' = w /\ late' = {i \in late : ~w[i].active}
        BY DEF ItemsBecome
  <1>2. ASSUME NEW i \in Items
        PROVE  Right(w[i], known[i], i \in late')
    <2>1. Right(w[i], known[i], i \in late)
          BY DEF AllRight
    <2>2. ~w[i].active => (i \in late' <=> i \in late)
          BY <1>1
    <2> QED BY <2>1, <2>2 DEF Right, Rests
  <1> QED BY <1>1, <1>2

\* What an action has to show.
LEMMA Kept ==
  ASSUME item' \in [Items -> Item] /\ late' \subseteq Items /\ Alone(item')
         /\ (\A i \in Items : Right(item'[i], known'[i], i \in late')),
         row' \in [Items -> ServiceRow], known' \in [Items -> ServiceRow],
         posted' \subseteq ServiceCall, dialog' \subseteq Items, nActs' \in 0 .. MaxActs
  PROVE  ItemInv'
  BY DEF ItemInv, ItemTypeOK, Alone

LEMMA Facts ==
  ASSUME ItemInv
  PROVE  /\ item \in [Items -> Item] /\ known \in [Items -> ServiceRow] /\ Alone(item)
         /\ row \in [Items -> ServiceRow] /\ AllRight(item, late) /\ late \subseteq Items
         /\ posted \subseteq ServiceCall /\ dialog \subseteq Items /\ nActs \in 0 .. MaxActs
  BY DEF ItemInv, ItemTypeOK, AllRight

LEMMA OneMoreKeeps ==
  ASSUME ItemInv, OneMore
  PROVE  nActs' \in 0 .. MaxActs
  BY ItemAssumption, Facts DEF OneMore

\* The most common kind of step: the widgets become w.
LEMMA StepKeeps ==
  ASSUME ItemInv, NEW w \in [Items -> Item], AllRight(w, late), Alone(w), ItemsBecome(w),
         known' = known, row' \in [Items -> ServiceRow], posted' \subseteq ServiceCall,
         dialog' \subseteq Items, nActs' \in 0 .. MaxActs
  PROVE  ItemInv'
  <1>1. late \subseteq Items /\ known' \in [Items -> ServiceRow]
        BY Facts
  <1>2. /\ item' \in [Items -> Item] /\ late' \subseteq Items /\ Alone(item')
        /\ \A i \in Items : Right(item'[i], known'[i], i \in late')
        BY <1>1, Becoming
  <1> QED BY <1>1, <1>2, Kept

\* A step in which one widget becomes s, after others were told to rest.
LEMMA OneBecomes ==
  ASSUME ItemInv, NEW w \in [Items -> Item], AllRight(w, late), Alone(w), NEW i \in Items,
         NEW s \in Item, Right(s, known[i], i \in late), s.active => w[i].active,
         ItemsBecome([w EXCEPT ![i] = s]),
         known' = known, row' \in [Items -> ServiceRow], posted' \subseteq ServiceCall,
         dialog' \subseteq Items, nActs' \in 0 .. MaxActs
  PROVE  ItemInv'
  <1> DEFINE v == [w EXCEPT ![i] = s]
  <1>1. v \in [Items -> Item] /\ AllRight(v, late) /\ Alone(v)
        BY ReplacedKeeps
  <1> HIDE DEF v
  <1>2. ItemsBecome(v)
        BY DEF v
  <1> QED BY <1>1, <1>2, StepKeeps

LEMMA PostedKeeps ==
  ASSUME ItemInv, NEW i \in Items,
         NEW m \in {"Connect", "Disconnect", "Remove", "Clear", "Password"} \cup Confs
  PROVE  posted \cup {[item |-> i, method |-> m]} \subseteq ServiceCall
  BY Facts DEF ServiceCall

(***************************************************************************)
(* The steps.                                                              *)
(***************************************************************************)
LEMMA InitRight == ItemInit => ItemInv
  <1> SUFFICES ASSUME ItemInit PROVE ItemInv
      OBVIOUS
  <1>1. row \in [Items -> ServiceRow] /\ known = row
        BY DEF ItemInit, ServiceRow, ServiceStates, Confs
  <1>2. ASSUME NEW i \in Items
        PROVE  /\ item[i] \in Item /\ ~item[i].active /\ ~item[i].expanded /\ ~item[i].modified
               /\ item[i].form = known[i].conf /\ item[i].connects /\ ~item[i].asks
               /\ item[i].label = ""
        BY <1>1 DEF ItemInit, Item, Forms, Confs, Entries, ServiceRow
  <1>3. item \in [Items -> Item]
        BY <1>2 DEF ItemInit
  <1>4. posted = {} /\ dialog = {} /\ late = {} /\ nActs = 0
        BY DEF ItemInit
  <1>5. Alone(item) /\ \A i \in Items : Right(item[i], known[i], i \in late)
        BY <1>2 DEF Alone, Right, Rests, Fresh, Errors, CanConnect
  <1> QED BY <1>1, <1>3, <1>4, <1>5, ItemAssumption DEF ItemInv, ItemTypeOK

LEMMA ConnectClickedKeeps ==
  ASSUME ItemInv, NEW i \in Items, ConnectClicked(i)
  PROVE  ItemInv'
  <1>1. /\ row' \in [Items -> ServiceRow] /\ known' = known /\ dialog' \subseteq Items
        /\ nActs' \in 0 .. MaxActs
        BY Facts, OneMoreKeeps DEF ConnectClicked, UserActs
  <1>2. /\ Active(i) \in [Items -> Item] /\ AllRight(Active(i), late) /\ Alone(Active(i))
        /\ Active(i)[i].active
        BY ActiveKeeps
  <1>3. CASE known[i].state \in {"association", "ready"}
    <2>1. /\ posted' = posted \cup {[item |-> i, method |-> "Disconnect"]}
          /\ ItemsBecome([item EXCEPT ![i] = Inactive(@, known[i])])
          BY <1>3 DEF ConnectClicked
    <2>2. posted' \subseteq ServiceCall
          BY <2>1, PostedKeeps
    <2> QED BY <1>1, <2>1, <2>2, OthersKeep, StepKeeps
  <1>4. CASE known[i].state \notin {"association", "ready"} /\ MustAsk(known[i])
    <2> DEFINE s == Requested(Active(i)[i], known[i])
    <2>1. ItemsBecome([Active(i) EXCEPT ![i] = s]) /\ posted' = posted
          BY <1>4 DEF ConnectClicked
    <2>2. Active(i)[i] \in Item /\ known[i] \in ServiceRow
          BY <1>2, Facts
    <2>3. Right(Active(i)[i], known[i], i \in late)
          BY <1>2 DEF AllRight
    <2>4. s \in Item /\ Right(s, known[i], i \in late)
          BY <1>2, <2>2, <2>3, RequestedKeeps
    <2>5. posted' \subseteq ServiceCall
          BY <2>1, Facts
    <2> HIDE DEF s
    <2> QED BY <1>1, <1>2, <2>1, <2>4, <2>5, OneBecomes
  <1>5. CASE known[i].state \notin {"association", "ready"} /\ ~MustAsk(known[i])
    <2>1. ItemsBecome(Active(i)) /\ posted' = posted \cup {[item |-> i, method |-> "Connect"]}
          BY <1>5 DEF ConnectClicked
    <2>2. posted' \subseteq ServiceCall
          BY <2>1, PostedKeeps
    <2> QED BY <1>1, <1>2, <2>1, <2>2, StepKeeps
  <1> QED BY <1>3, <1>4, <1>5

LEMMA UserTypesKeeps ==
  ASSUME ItemInv, NEW i \in Items, NEW t \in Entries, UserTypes(i, t)
  PROVE  ItemInv'
  <1> DEFINE s == [item[i] EXCEPT !.text = t, !.hint = FALSE]
  <1>1. /\ row' = row /\ known' = known /\ dialog' = dialog /\ posted' = posted /\ late' = late
        /\ nActs' \in 0 .. MaxActs /\ item' = [item EXCEPT ![i] = s]
        BY OneMoreKeeps DEF UserTypes, UserActs
  <1>2. /\ s \in Item /\ s.active = item[i].active /\ s.expanded = item[i].expanded
        /\ s.modified = item[i].modified /\ s.form = item[i].form /\ s.label = item[i].label
        /\ s.hidden = item[i].hidden /\ s.connects = item[i].connects /\ s.asks = item[i].asks
        BY Facts, ZenonT(60) DEF Item
  <1> HIDE DEF s
  <1>3. Right(s, known[i], i \in late)
        BY <1>2, Facts DEF AllRight, Right, Rests, Fresh, Errors, CanConnect
  <1>4. item' \in [Items -> Item] /\ AllRight(item', late) /\ Alone(item')
        BY <1>1, <1>2, <1>3, Facts, ReplacedKeeps
  <1> QED BY <1>1, <1>4, Facts, Kept DEF AllRight

LEMMA PasswordEnteredKeeps ==
  ASSUME ItemInv, NEW i \in Items, PasswordEntered(i)
  PROVE  ItemInv'
  <1> DEFINE w == Active(i)
  <1>1. w \in [Items -> Item] /\ AllRight(w, late) /\ Alone(w) /\ w[i].active
        BY ActiveKeeps
  <1>2. known' = known /\ dialog' \subseteq Items /\ nActs' \in 0 .. MaxActs
        BY Facts, OneMoreKeeps DEF PasswordEntered, UserActs
  <1>3. Right(w[i], known[i], i \in late) /\ w[i] \in Item
        BY <1>1 DEF AllRight
  <1>4. CASE w[i].hint
    <2>1. ItemsBecome(w) /\ row' = row /\ posted' = posted
          BY <1>4 DEF PasswordEntered
    <2> HIDE DEF w
    <2> QED BY <1>1, <1>2, <2>1, Facts, StepKeeps
  <1>5. CASE ~w[i].hint /\ w[i].text \in Valid
    <2> DEFINE s == [w[i] EXCEPT !.asks = FALSE, !.connects = TRUE]
    <2>1. /\ ItemsBecome([w EXCEPT ![i] = s]) /\ row' = [row EXCEPT ![i].pass = w[i].text]
          /\ posted' = posted \cup {[item |-> i, method |-> "Password"]}
          BY <1>5 DEF PasswordEntered
    <2> HIDE DEF w
    <2>2. posted' \subseteq ServiceCall
          BY <2>1, PostedKeeps
    <2>3. row' \in [Items -> ServiceRow]
          BY <1>5, <2>1, Facts DEF ServiceRow
    <2>4. /\ s \in Item /\ s.active = w[i].active /\ s.expanded = w[i].expanded
          /\ s.modified = w[i].modified /\ s.form = w[i].form /\ s.label = w[i].label
          /\ s.hidden = w[i].hidden /\ ~s.asks
          BY <1>3 DEF Item
    <2> HIDE DEF s
    <2>5. Right(s, known[i], i \in late)
          BY <1>1, <1>3, <2>4 DEF Right, Rests, Fresh, Errors, CanConnect
    <2> QED BY <1>1, <1>2, <2>1, <2>2, <2>3, <2>4, <2>5, OneBecomes
  <1>6. CASE ~w[i].hint /\ w[i].text \notin Valid
    <2> DEFINE s == [w[i] EXCEPT !.label = "invalid", !.bar = TRUE]
    <2>1. ItemsBecome([w EXCEPT ![i] = s]) /\ row' = row /\ posted' = posted
          BY <1>6 DEF PasswordEntered
    <2> HIDE DEF w
    <2>2. /\ s \in Item /\ s.active = w[i].active /\ s.expanded = w[i].expanded
          /\ s.modified = w[i].modified /\ s.form = w[i].form /\ s.label = "invalid"
          /\ s.hidden = w[i].hidden /\ s.asks = w[i].asks /\ s.connects = w[i].connects
          BY <1>3 DEF Item
    <2> HIDE DEF s
    <2>3. Right(s, known[i], i \in late)
          BY <1>1, <1>3, <2>2 DEF Right, Rests, Fresh, Errors, CanConnect
    <2> QED BY <1>1, <1>2, <2>1, <2>2, <2>3, Facts, OneBecomes
  <1> QED BY <1>4, <1>5, <1>6

LEMMA ShowPasswordToggledKeeps ==
  ASSUME ItemInv, NEW i \in Items, ShowPasswordToggled(i)
  PROVE  ItemInv'
  <1>1. /\ ItemsBecome(Active(i)) /\ row' = row /\ known' = known /\ posted' = posted
        /\ dialog' = dialog /\ nActs' \in 0 .. MaxActs
        BY OneMoreKeeps DEF ShowPasswordToggled, UserActs
  <1> QED BY <1>1, ActiveKeeps, Facts, StepKeeps

LEMMA ClearReleasedKeeps ==
  ASSUME ItemInv, NEW i \in Items, ClearReleased(i)
  PROVE  ItemInv'
  <1> DEFINE r == item[i]
             a == [r EXCEPT !.text = "", !.hint = FALSE]
             b == [r EXCEPT !.asks = FALSE, !.bar = FALSE, !.label = ""]
  <1>1. /\ ItemsBecome([item EXCEPT ![i] = IF r.text # "" THEN a ELSE b])
        /\ row' = row /\ known' = known /\ posted' = posted /\ dialog' = dialog
        /\ nActs' \in 0 .. MaxActs /\ r.asks
        BY OneMoreKeeps DEF ClearReleased, UserActs
  <1>2. r \in Item /\ Right(r, known[i], i \in late)
        BY Facts DEF AllRight
  <1>3. CASE r.text # ""
    <2>1. ItemsBecome([item EXCEPT ![i] = a])
          BY <1>1, <1>3
    <2> HIDE DEF r
    <2>2. /\ a \in Item /\ a.active = r.active /\ a.expanded = r.expanded
          /\ a.modified = r.modified /\ a.form = r.form /\ a.label = r.label
          /\ a.hidden = r.hidden /\ a.asks = r.asks /\ a.connects = r.connects
          BY <1>2 DEF Item, Entries
    <2> HIDE DEF a
    <2>3. Right(a, known[i], i \in late)
          BY <1>2, <2>2 DEF Right, Rests, Fresh, Errors, CanConnect
    <2> QED BY <1>1, <2>1, <2>2, <2>3, Facts, OneBecomes DEF r
  <1>4. CASE r.text = ""
    <2>1. ItemsBecome([item EXCEPT ![i] = b])
          BY <1>1, <1>4
    <2> HIDE DEF r
    <2>2. /\ b \in Item /\ b.active = r.active /\ b.expanded = r.expanded
          /\ b.modified = r.modified /\ b.form = r.form /\ b.label = ""
          /\ b.hidden = r.hidden /\ ~b.asks /\ b.connects = r.connects
          BY <1>2 DEF Item
    <2> HIDE DEF b
    <2>3. Right(b, known[i], i \in late)
          BY <1>1, <1>2, <2>2 DEF Right, Rests, Fresh, Errors, CanConnect
    <2> QED BY <1>1, <2>1, <2>2, <2>3, Facts, OneBecomes DEF r
  <1> QED BY <1>3, <1>4

LEMMA ExpanderClickedKeeps ==
  ASSUME ItemInv, NEW i \in Items, ExpanderClicked(i)
  PROVE  ItemInv'
  <1> DEFINE w == Active(i)
             r == [w[i] EXCEPT !.expanded = ~@]
             f == [r EXCEPT !.modified = FALSE]
             s == [SetState(f, known[i]) EXCEPT !.bar = FALSE]
  <1>1. /\ ItemsBecome([w EXCEPT ![i] = IF ~r.expanded THEN r ELSE s])
        /\ row' = row /\ known' = known /\ posted' = posted /\ dialog' = dialog
        /\ nActs' \in 0 .. MaxActs
        BY OneMoreKeeps DEF ExpanderClicked, UserActs
  <1>2. w \in [Items -> Item] /\ AllRight(w, late) /\ Alone(w) /\ w[i].active
        BY ActiveKeeps
  <1>3. w[i] \in Item /\ Right(w[i], known[i], i \in late) /\ known[i] \in ServiceRow
        BY <1>2, Facts DEF AllRight
  <1> HIDE DEF w
  <1>4. /\ r \in Item /\ r.active /\ r.label = w[i].label /\ r.hidden = w[i].hidden
        /\ r.asks = w[i].asks /\ r.connects = w[i].connects
        BY <1>2, <1>3 DEF Item
  <1> HIDE DEF r
  <1>5. CASE ~r.expanded
    <2>1. Right(r, known[i], i \in late)
          BY <1>3, <1>4, <1>5 DEF Right, Rests, Fresh, Errors, CanConnect
    <2>2. ItemsBecome([w EXCEPT ![i] = r])
          BY <1>1, <1>5
    <2> QED BY <1>1, <1>2, <1>4, <2>1, <2>2, Facts, OneBecomes
  <1>6. CASE r.expanded
    <2>1. /\ f \in Item /\ f.active /\ f.label = r.label /\ f.hidden = r.hidden
          /\ f.asks = r.asks /\ f.connects = r.connects
          BY <1>4 DEF Item
    <2> HIDE DEF f
    <2>2. /\ CanConnect(f) /\ (f.label = "failed" /\ f.hidden => known[i].state # "failure")
          BY <1>3, <1>4, <2>1 DEF Right, Errors, CanConnect
    <2> DEFINE t == SetState(f, known[i])
    <2>3. t \in Item /\ Right(t, known[i], i \in late) /\ t.active
          BY <1>3, <2>1, <2>2, SetStateKeeps
    <2> HIDE DEF t
    <2>4. s = [t EXCEPT !.bar = FALSE]
          BY DEF t
    <2> HIDE DEF s
    <2>5. /\ s \in Item /\ s.active = t.active /\ s.expanded = t.expanded
          /\ s.modified = t.modified /\ s.form = t.form /\ s.label = t.label
          /\ s.hidden = t.hidden /\ s.asks = t.asks /\ s.connects = t.connects
          BY <2>3, <2>4 DEF Item
    <2>6. Right(s, known[i], i \in late)
          BY <2>3, <2>5 DEF Right, Rests, Fresh, Errors, CanConnect
    <2>7. ItemsBecome([w EXCEPT ![i] = s])
          BY <1>1, <1>6
    <2> QED BY <1>1, <1>2, <2>5, <2>6, <2>7, Facts, OneBecomes
  <1> QED BY <1>5, <1>6

LEMMA FormEditedKeeps ==
  ASSUME ItemInv, NEW i \in Items, NEW form \in Forms, FormEdited(i, form)
  PROVE  ItemInv'
  <1> DEFINE r == item[i]
             s == [r EXCEPT !.form = form, !.modified = TRUE, !.bar = FALSE]
  <1>1. /\ row' = row /\ known' = known /\ dialog' = dialog /\ posted' = posted /\ late' = late
        /\ nActs' \in 0 .. MaxActs /\ item' = [item EXCEPT ![i] = s] /\ r.expanded
        BY OneMoreKeeps DEF FormEdited, UserActs
  <1>2. r \in Item /\ Right(r, known[i], i \in late)
        BY Facts DEF AllRight
  <1>3. r.active
        BY <1>1, <1>2 DEF Right, Rests
  <1> HIDE DEF r
  <1>4. /\ s \in Item /\ s.active = r.active /\ s.modified /\ s.label = r.label
        /\ s.hidden = r.hidden /\ s.connects = r.connects /\ s.asks = r.asks
        BY <1>2 DEF Item
  <1> HIDE DEF s
  <1>5. Right(s, known[i], i \in late)
        BY <1>2, <1>3, <1>4 DEF Right, Rests, Fresh, Errors, CanConnect
  <1>6. item' \in [Items -> Item] /\ AllRight(item', late) /\ Alone(item')
        BY <1>1, <1>3, <1>4, <1>5, Facts, ReplacedKeeps DEF r
  <1> QED BY <1>1, <1>6, Facts, Kept DEF AllRight

LEMMA ApplyClickedKeeps ==
  ASSUME ItemInv, NEW i \in Items, ApplyClicked(i)
  PROVE  ItemInv'
  <1> DEFINE w == Active(i)
             wrong == w[i].form \in {"badAddress", "badServer"}
             r == IF wrong THEN [w[i] EXCEPT !.label = "invalid", !.bar = TRUE] ELSE w[i]
             s == [r EXCEPT !.modified = FALSE, !.expanded = FALSE]
  <1>1. known' = known /\ row' = row /\ dialog' = dialog /\ nActs' \in 0 .. MaxActs
        BY OneMoreKeeps DEF ApplyClicked, UserActs
  <1>2. \/ w[i].form = "badServer" /\ ItemsBecome([w EXCEPT ![i] = r]) /\ posted' = posted
        \/ /\ w[i].form # "badServer" /\ ItemsBecome([w EXCEPT ![i] = s])
           /\ posted' = posted \cup
                {[item |-> i, method |-> IF wrong THEN "plain" ELSE w[i].form]}
        BY DEF ApplyClicked
  <1>3. w \in [Items -> Item] /\ AllRight(w, late) /\ Alone(w) /\ w[i].active
        BY ActiveKeeps
  <1>4. w[i] \in Item /\ Right(w[i], known[i], i \in late) /\ w[i].form \in Forms
        BY <1>3 DEF AllRight, Item
  <1>5. (IF wrong THEN "plain" ELSE w[i].form) \in Confs
        BY <1>4 DEF Forms, Confs
  <1> HIDE DEF w
  <1>6. /\ r \in Item /\ r.active /\ r.expanded = w[i].expanded /\ r.modified = w[i].modified
        /\ r.form = w[i].form /\ (r.label = "failed" => w[i].label = "failed")
        /\ r.hidden = w[i].hidden /\ r.asks = w[i].asks /\ r.connects = w[i].connects
    <2>1. CASE wrong
      <3> DEFINE u == [w[i] EXCEPT !.label = "invalid", !.bar = TRUE]
      <3>1. /\ u \in Item /\ u.active = w[i].active /\ u.expanded = w[i].expanded
            /\ u.modified = w[i].modified /\ u.form = w[i].form /\ u.label = "invalid"
            /\ u.hidden = w[i].hidden /\ u.asks = w[i].asks /\ u.connects = w[i].connects
            BY <1>4 DEF Item
      <3> QED BY <1>3, <2>1, <3>1
    <2>2. CASE ~wrong
          BY <1>3, <1>4, <2>2
    <2> QED BY <2>1, <2>2
  <1> HIDE DEF r
  <1>7. Right(r, known[i], i \in late)
        BY <1>4, <1>6 DEF Right, Rests, Fresh, Errors, CanConnect
  <1>8. /\ s \in Item /\ s.active = r.active /\ ~s.expanded /\ s.label = r.label
        /\ s.hidden = r.hidden /\ s.asks = r.asks /\ s.connects = r.connects
        BY <1>6 DEF Item
  <1> HIDE DEF s, wrong
  <1>9. Right(s, known[i], i \in late)
        BY <1>6, <1>7, <1>8 DEF Right, Rests, Fresh, Errors, CanConnect
  <1>10. CASE ItemsBecome([w EXCEPT ![i] = r]) /\ posted' = posted
         BY <1>1, <1>3, <1>6, <1>7, <1>10, Facts, OneBecomes
  <1>11. CASE /\ ItemsBecome([w EXCEPT ![i] = s])
              /\ posted' = posted \cup
                   {[item |-> i, method |-> IF wrong THEN "plain" ELSE w[i].form]}
    <2>1. posted' \subseteq ServiceCall
          BY <1>5, <1>11, PostedKeeps
    <2> QED BY <1>1, <1>3, <1>6, <1>8, <1>9, <1>11, <2>1, Facts, OneBecomes
  <1> QED BY <1>2, <1>10, <1>11

LEMMA DeleteClickedKeeps ==
  ASSUME ItemInv, NEW i \in Items, DeleteClicked(i)
  PROVE  ItemInv'
  <1>1. /\ row' = row /\ known' = known /\ item' = item /\ posted' = posted /\ late' = late
        /\ nActs' \in 0 .. MaxActs /\ dialog' = {i}
        BY OneMoreKeeps DEF DeleteClicked, UserActs
  <1> QED BY <1>1, Facts, Kept DEF AllRight

LEMMA DeleteAcceptedKeeps ==
  ASSUME ItemInv, NEW i \in Items, DeleteAccepted(i)
  PROVE  ItemInv'
  <1> DEFINE w == [item EXCEPT ![i] = Inactive(@, known[i])]
  <1>1. /\ row' = row /\ known' = known /\ nActs' = nActs /\ dialog' = {} /\ ItemsBecome(w)
        BY DEF DeleteAccepted
  <1>2. PICK m \in {"Remove"} \cup IF known[i].state = "failure" THEN {} ELSE {"Clear"} :
          posted' = posted \cup {[item |-> i, method |-> m]}
        BY DEF DeleteAccepted
  <1>3. posted' \subseteq ServiceCall
        BY <1>2, PostedKeeps
  <1>4. w \in [Items -> Item] /\ AllRight(w, late) /\ Alone(w)
        BY OthersKeep
  <1> HIDE DEF w
  <1> QED BY <1>1, <1>3, <1>4, Facts, StepKeeps

LEMMA DragBeginsKeeps ==
  ASSUME ItemInv, NEW i \in Items, DragBegins(i)
  PROVE  ItemInv'
  <1>1. /\ row' = row /\ known' = known /\ posted' = posted /\ dialog' = dialog
        /\ nActs' \in 0 .. MaxActs /\ ItemsBecome([item EXCEPT ![i] = Inactive(@, known[i])])
        BY OneMoreKeeps DEF DragBegins, UserActs
  <1> QED BY <1>1, OthersKeep, Facts, StepKeeps

LEMMA PanelShownKeeps == ItemInv /\ PanelShown => ItemInv'
  <1> SUFFICES ASSUME ItemInv, PanelShown PROVE ItemInv'
      OBVIOUS
  <1> DEFINE w == [i \in Items |-> Inactive(item[i], known[i])]
  <1>1. /\ row' = row /\ known' = known /\ posted' = posted /\ dialog' = {}
        /\ nActs' \in 0 .. MaxActs /\ ItemsBecome(w)
        BY OneMoreKeeps DEF PanelShown
  <1>2. ASSUME NEW i \in Items
        PROVE  /\ Inactive(item[i], known[i]) \in Item /\ ~Inactive(item[i], known[i]).active
               /\ Right(Inactive(item[i], known[i]), known[i], i \in late)
        BY Facts, InactiveKeeps DEF AllRight
  <1>3. w \in [Items -> Item] /\ AllRight(w, late) /\ Alone(w)
        BY <1>2 DEF AllRight, Alone
  <1> HIDE DEF w
  <1> QED BY <1>1, <1>3, Facts, StepKeeps

LEMMA AnswerIsARow ==
  ASSUME ItemInv, NEW i \in Items, NEW m
  PROVE  AsAsked(i, m) \in ServiceRow
  <1>1. row[i] \in ServiceRow
        BY Facts
  <1>2. /\ [row[i] EXCEPT !.state = "association"] \in ServiceRow
        /\ [row[i] EXCEPT !.state = "disconnect"] \in ServiceRow
        /\ [row[i] EXCEPT !.state = "idle", !.pass = ""] \in ServiceRow
        /\ [row[i] EXCEPT !.pass = ""] \in ServiceRow
        BY <1>1 DEF ServiceRow, ServiceStates
  <1>3. m \in Confs => [row[i] EXCEPT !.conf = m] \in ServiceRow
        BY <1>1 DEF ServiceRow
  <1> QED BY <1>1, <1>2, <1>3 DEF AsAsked

LEMMA ServiceAnsweredKeeps ==
  ASSUME ItemInv, NEW c \in posted, NEW done \in BOOLEAN, ServiceAnswered(c, done)
  PROVE  ItemInv'
  <1> DEFINE i == c.item
             starts == c.method \in Confs /\ known[i].state \in {"idle", "disconnect"}
             more == IF (c.method = "Password" /\ done) \/ (starts /\ ~MustAsk(known[i]))
                     THEN {[item |-> i, method |-> "Connect"]} ELSE {}
             s == Requested(item[i], known[i])
  <1>1. i \in Items
        BY Facts DEF ServiceCall
  <1>2. /\ row' = [row EXCEPT ![i] = IF done THEN AsAsked(i, c.method) ELSE @]
        /\ posted' = (posted \ {c}) \cup more
        /\ known' = known /\ dialog' = dialog /\ nActs' = nActs
        /\ \/ /\ item' = [item EXCEPT ![i] = s]
              /\ late' = late \cup ({i} \ {j \in Items : item[j].active})
           \/ item' = item /\ late' = late
        BY DEF ServiceAnswered
  <1>3. row' \in [Items -> ServiceRow]
        BY <1>1, <1>2, Facts, AnswerIsARow
  <1>4. more \subseteq ServiceCall
        BY <1>1 DEF ServiceCall
  <1>5. posted' \subseteq ServiceCall
        BY <1>2, <1>4, Facts
  <1> HIDE DEF i, more, starts
  <1>6. CASE item' = item /\ late' = late
        BY <1>2, <1>3, <1>5, <1>6, Facts, Kept DEF AllRight
  <1>7. CASE /\ item' = [item EXCEPT ![i] = s]
             /\ late' = late \cup ({i} \ {j \in Items : item[j].active})
    <2>1. item[i] \in Item /\ known[i] \in ServiceRow /\ Right(item[i], known[i], i \in late)
          BY <1>1, Facts DEF AllRight
    <2>2. item[i].active \/ i \in late'
          BY <1>1, <1>7
    <2>3. s \in Item /\ Right(s, known[i], i \in late') /\ s.active = item[i].active
          BY <2>1, <2>2, RequestedKeeps
    <2> HIDE DEF s
    <2>4. ASSUME NEW j \in Items
          PROVE  Right(item'[j], known'[j], j \in late')
      <3>1. CASE j = i
            BY <1>2, <1>7, <2>3, <3>1, Facts
      <3>2. CASE j # i
        <4>1. (j \in late') <=> (j \in late)
              BY <1>7, <3>2
        <4>2. item'[j] = item[j] /\ Right(item[j], known[j], j \in late)
              BY <1>7, <3>2, Facts DEF AllRight
        <4> QED BY <1>2, <4>1, <4>2 DEF Right, Rests
      <3> QED BY <3>1, <3>2
    <2>5. item' \in [Items -> Item] /\ late' \subseteq Items
          BY <1>1, <1>7, <2>3, Facts
    <2>6. Alone(item')
          BY <1>1, <1>7, <2>3, Facts DEF Alone
    <2> QED BY <1>2, <1>3, <1>5, <2>4, <2>5, <2>6, Facts, Kept
  <1> QED BY <1>2, <1>6, <1>7

LEMMA ProceedsKeeps ==
  ASSUME ItemInv, NEW i \in Items, Proceeds(i)
  PROVE  ItemInv'
  <1>1. /\ known' = known /\ item' = item /\ posted' = posted /\ dialog' = dialog /\ late' = late
        /\ nActs' = nActs
        BY DEF Proceeds
  <1>2. row' \in [Items -> ServiceRow]
        BY Facts DEF Proceeds, ServiceRow
  <1> QED BY <1>1, <1>2, Facts, Kept DEF AllRight

LEMMA ChangesByItselfKeeps ==
  ASSUME ItemInv, NEW i \in Items, ChangesByItself(i)
  PROVE  ItemInv'
  <1>1. /\ known' = known /\ item' = item /\ posted' = posted /\ dialog' = dialog /\ late' = late
        /\ nActs' \in 0 .. MaxActs
        BY OneMoreKeeps DEF ChangesByItself
  <1>2. row' \in [Items -> ServiceRow]
        BY Facts, ZenonT(60) DEF ChangesByItself, ServiceRow, ServiceStates
  <1> QED BY <1>1, <1>2, Facts, Kept DEF AllRight

LEMMA ItemUpdateKeeps ==
  ASSUME ItemInv, NEW i \in Items, ItemUpdate(i)
  PROVE  ItemInv'
  <1> DEFINE k == row[i]
             news == k.state = "failure" /\ known[i].state # "failure"
             hidden == item[i].hidden /\ ~news
             r == [item[i] EXCEPT !.hidden = hidden]
             s == SetState(r, k)
             w == [item EXCEPT ![i] = s]
  <1>1. /\ known' = [known EXCEPT ![i] = k] /\ ItemsBecome(w)
        /\ row' = row /\ posted' = posted /\ dialog' = dialog /\ nActs' = nActs
        BY Facts DEF ItemUpdate
  <1>2. k \in ServiceRow /\ item[i] \in Item /\ Right(item[i], known[i], i \in late)
        BY Facts DEF AllRight
  <1>3. hidden \in BOOLEAN /\ (hidden => item[i].hidden)
        BY <1>2 DEF Item
  <1> HIDE DEF k, hidden, news
  <1>4. /\ r \in Item /\ r.hidden = hidden /\ r.active = item[i].active
        /\ r.expanded = item[i].expanded /\ r.modified = item[i].modified
        /\ r.label = item[i].label /\ r.asks = item[i].asks /\ r.connects = item[i].connects
        BY <1>2, <1>3 DEF Item
  <1> HIDE DEF r
  <1>5. /\ (r.label = "failed" /\ r.hidden => k.state # "failure")
        /\ (~r.active => ~r.expanded /\ ~r.modified) /\ CanConnect(r)
        /\ (~r.active /\ ~(i \in late) => r.connects /\ ~r.asks)
        BY <1>2, <1>3, <1>4 DEF Right, Rests, Errors, CanConnect
  <1>6. s \in Item /\ Right(s, k, i \in late) /\ s.active = item[i].active
        BY <1>2, <1>4, <1>5, SetStateKeeps
  <1> HIDE DEF s
  <1>7. item' = w /\ late' = {j \in late : ~w[j].active}
        BY <1>1 DEF ItemsBecome
  <1>8. w \in [Items -> Item] /\ w[i] = s /\ \A j \in Items : j # i => w[j] = item[j]
        BY <1>6, Facts
  <1> HIDE DEF w
  <1>9. ASSUME NEW j \in Items
        PROVE  Right(item'[j], known'[j], j \in late')
    <2>1. ~w[j].active => (j \in late' <=> j \in late)
          BY <1>7
    <2>2. CASE j = i
          BY <1>1, <1>6, <1>7, <1>8, <2>1, <2>2, Facts DEF Right, Rests
    <2>3. CASE j # i
      <3>1. item'[j] = item[j] /\ known'[j] = known[j] /\ Right(item[j], known[j], j \in late)
            BY <1>1, <1>7, <1>8, <2>3, Facts DEF AllRight
      <3> QED BY <1>7, <2>1, <3>1 DEF Right, Rests
    <2> QED BY <2>2, <2>3
  <1>10. item' \in [Items -> Item] /\ late' \subseteq Items
         BY <1>7, <1>8, Facts
  <1>11. Alone(item')
         BY <1>6, <1>7, <1>8, Facts DEF Alone
  <1>12. known' \in [Items -> ServiceRow]
         BY <1>1, <1>2, Facts
  <1> QED BY <1>1, <1>9, <1>10, <1>11, <1>12, Facts, Kept

LEMMA NextKeeps == ItemInv /\ [ItemNext]_itemVars => ItemInv'
  <1> SUFFICES ASSUME ItemInv, [ItemNext]_itemVars PROVE ItemInv'
      OBVIOUS
  <1>1. CASE UNCHANGED itemVars
        BY <1>1, Facts, Kept DEF itemVars, AllRight
  <1>2. ASSUME NEW i \in Items,
               \/ ConnectClicked(i) \/ PasswordEntered(i) \/ ShowPasswordToggled(i)
               \/ ClearReleased(i) \/ ExpanderClicked(i) \/ ApplyClicked(i)
        PROVE  ItemInv'
        BY <1>2, ConnectClickedKeeps, PasswordEnteredKeeps, ShowPasswordToggledKeeps,
           ClearReleasedKeeps, ExpanderClickedKeeps, ApplyClickedKeeps
  <1>3. ASSUME NEW i \in Items, (\E t \in Entries : UserTypes(i, t)) \/ \E f \in Forms : FormEdited(i, f)
        PROVE  ItemInv'
        BY <1>3, UserTypesKeeps, FormEditedKeeps
  <1>4. ASSUME NEW i \in Items,
               \/ DeleteClicked(i) \/ DeleteAccepted(i) \/ DragBegins(i)
               \/ Proceeds(i) \/ ChangesByItself(i) \/ ItemUpdate(i)
        PROVE  ItemInv'
        BY <1>4, DeleteClickedKeeps, DeleteAcceptedKeeps, DragBeginsKeeps, ProceedsKeeps,
           ChangesByItselfKeeps, ItemUpdateKeeps
  <1>5. CASE DeleteRejected
        BY <1>5, Facts, Kept DEF DeleteRejected, AllRight
  <1>6. CASE PanelShown
        BY <1>6, PanelShownKeeps
  <1>7. ASSUME NEW c \in posted, NEW done \in BOOLEAN, ServiceAnswered(c, done)
        PROVE  ItemInv'
        BY <1>7, ServiceAnsweredKeeps
  <1> QED BY <1>1, <1>2, <1>3, <1>4, <1>5, <1>6, <1>7 DEF ItemNext

(***************************************************************************)
(* The theorems.                                                           *)
(***************************************************************************)
\* The state of the widgets keeps its type: every handler of carrick-service-item.c hands
\* back a widget, and asks connman only for what it knows.
THEOREM ItemTypeCorrect == ItemSpec => []ItemTypeOK
  <1>1. ItemInv => ItemTypeOK
        BY DEF ItemInv
  <1> QED BY InitRight, NextKeeps, <1>1, PTL DEF ItemSpec

\* For any number of services: however the user turns from one to another, and whatever
\* connman tells of them meanwhile, one is worked on, the others rest, and neither a form
\* nor an error is shown that is outdated (carrick_service_item_set_active, _set_state).
THEOREM ItemsAreAlwaysRight == ItemSpec => []ItemsAreRight
  <1> QED BY InitRight, NextKeeps, InvIsRight, PTL DEF ItemSpec

-----------------------------------------------------------------------------
(***************************************************************************)
(* The agent for oFono: its picture of the modems, for any number of them. *)
(*                                                                         *)
(* oFono says in order what it is asked and what changes, so what is under *)
(* way about a modem that has not changed under the agent's hands is a     *)
(* dialogue: each message may follow only some others (Follows), says what *)
(* is so (SaysSo), and where the agent's picture lacks something the       *)
(* message that will bring it is under way (Stages, Offered, LocksKnown).  *)
(***************************************************************************)
Messages ==
  [type: {"manager"}] \cup [type: {"modems"}, paths: Seq(ModemPaths)]
  \cup [type: {"added", "removed", "modemProxy", "simProxy"}, path: ModemPaths]
  \cup [type: {"interfaces"}, path: ModemPaths, offers: Offers]
  \cup [type: {"modemProps"}, path: ModemPaths, error: BOOLEAN, offers: Offers]
  \cup [type: {"simProps"}, path: ModemPaths, error: BOOLEAN, locks: LockStates]
  \cup [type: {"lock"}, path: ModemPaths, lock: Locks, value: {None, Some}]

\* What a message means for the modem of path p: its type, if it is about p.
Kind(m, p) == IF m.type \notin {"manager", "lock"} /\ (m.type # "modems" => m.path = p)
              THEN m.type ELSE "other"
Has(k, q, p) == \E i \in 1..Len(q) : Kind(q[i], p) = k
Kinds == {"added", "removed", "interfaces", "modems", "modemProxy", "modemProps", "simProxy",
          "simProps"}
OnWay(k, p) == Has(k, wire, p) \/ Has(k, asked, p)

\* What may follow what in the agent's dialogue about one modem.
Follows(k, l) ==
  \/ k = "other" \/ l = "other"
  \/ k \in {"added", "removed", "interfaces"} /\ l = "modems"
  \/ k \in {"modems", "modemProxy"} /\ l = "modemProxy"
  \/ k \in {"modemProxy", "modemProps"} /\ l = "modemProps"
  \/ k \in {"modemProps", "simProxy"} /\ l = "simProxy"
  \/ k \in {"simProxy", "simProps"} /\ l = "simProps"

\* What is on the wire w comes before what is asked for in a.
InOrder(w, a, p) ==
  /\ \A i, j \in 1..Len(w) : i < j => Follows(Kind(w[i], p), Kind(w[j], p))
  /\ \A i, j \in 1..Len(a) : i < j => Follows(Kind(a[i], p), Kind(a[j], p))
  /\ \A i \in 1..Len(w), j \in 1..Len(a) : Follows(Kind(w[i], p), Kind(a[j], p))

\* What is said of a modem is so, here and in what is under way.
IsTrue(m, p, has) ==
  /\ m.type = "modems" => (has.is <=> \E i \in 1..Len(m.paths) : m.paths[i] = p)
  /\ Kind(m, p) \in {"modemProps", "simProps"} => ~m.error
  /\ Kind(m, p) \in {"interfaces", "modemProps"} => m.offers = has.offers
  /\ m.type = "lock" /\ m.path = p => "sim" \in has.offers
AllTrue(w, p, has) == \A i \in 1..Len(w) : IsTrue(w[i], p, has)
SaysSo(p) ==
  /\ AllTrue(wire, p, there[p])
  /\ OnWay("removed", p) => ~there[p].is
  /\ OnWay("added", p) \/ OnWay("interfaces", p) \/ OnWay("modemProxy", p) \/ OnWay("modemProps", p)
       => there[p].is
  /\ OnWay("simProxy", p) \/ OnWay("simProps", p) => "sim" \in there[p].offers

\* How far the agent has got with a modem.
Early(p) == ~manager \/ OnWay("modems", p) \/ OnWay("added", p)
Stages(p) ==
  /\ there[p].is /\ p \notin modems => Early(p) \/ OnWay("modemProxy", p)
  /\ ~there[p].is /\ p \in modems => OnWay("removed", p)
  /\ Early(p) => p \notin modems
  /\ Early(p) \/ OnWay("modemProxy", p) \/ OnWay("modemProps", p) => p \notin leaked /\ p \notin sims
  /\ OnWay("modemProps", p) \/ OnWay("simProxy", p) => p \in modems
  /\ OnWay("simProps", p) => p \in sims

\* What a modem offers is known, or will be.
Asking(p) == OnWay("modemProxy", p) \/ OnWay("modemProps", p) \/ OnWay("interfaces", p)
Offered(p) ==
  /\ there[p].is /\ p \in modems /\ ~(p \in counted <=> "cm" \in there[p].offers) => Asking(p)
  /\ there[p].is /\ p \in modems /\ p \notin sims /\ "sim" \in there[p].offers
       => Asking(p) \/ OnWay("simProxy", p)
  /\ there[p].is /\ p \in sims /\ "sim" \notin there[p].offers => OnWay("interfaces", p)
  /\ "sim" \in there[p].offers /\ p \notin sims => locksOf[p] = NoLocks /\ p \notin leaked

\* The messages that carry a lock of p's SIM; the last one has it right.
Carries(m, p, k) == \/ m.type = "simProps" /\ m.path = p
                    \/ m.type = "lock" /\ m.path = p /\ m.lock = k
Said(m, k) == IF m.type = "lock" THEN m.value ELSE m.locks[k]
Carried(w, p, k) == \E i \in 1..Len(w) : Carries(w[i], p, k)
LastIsRight(w, p, k, v) ==
  \A i \in 1..Len(w) : Carries(w[i], p, k) =>
    Said(w[i], k) = v \/ \E j \in 1..Len(w) : i < j /\ Carries(w[j], p, k)
LocksKnown(p) ==
  \A k \in Locks :
    /\ table[k][p] = IF p \in sims THEN locksOf[p][k] ELSE None
    /\ LastIsRight(wire, p, k, lock[p][k])
    /\ p \in sims /\ "sim" \in there[p].offers =>
         \/ OnWay("simProxy", p) \/ OnWay("simProps", p) \/ Carried(wire, p, k)
         \/ locksOf[p][k] = lock[p][k]

ModemRight(p) == InOrder(wire, asked, p) /\ SaysSo(p) /\ Stages(p) /\ Offered(p) /\ LocksKnown(p)

\* Until the agent has its manager it knows nothing; the manager is asked for once.
Manager == [type |-> "manager"]
HasManager(q) == \E i \in 1..Len(q) : q[i].type = "manager"
OneManager(q) == \A i, j \in 1..Len(q) : q[i].type = "manager" /\ q[j].type = "manager" => i = j
Beginning ==
  /\ OneManager(wire)
  /\ manager => ~HasManager(wire) /\ ~HasManager(asked)
  /\ ~manager => /\ \/ asked = <<Manager>> /\ ~HasManager(wire)
                    \/ asked = <<>> /\ HasManager(wire)
                 /\ \A i \in 1..Len(wire) :
                      wire[i].type \in {"manager", "added", "removed", "interfaces", "lock"}
                 /\ modems = {} /\ leaked = {}

\* Of every modem, also an odd one.
NothingLeft == \A p \in ModemPaths : /\ ~there[p].is => there[p].offers = {}
                                     /\ p \notin modems => locksOf[p] = NoLocks

OfonoInv == /\ OfonoTypeOK /\ wire \in Seq(Messages) /\ Beginning /\ NothingLeft
            /\ IsFiniteSet(counted) /\ CountNeverWraps
            /\ \A p \in ModemPaths \ odd : ModemRight(p)

-----------------------------------------------------------------------------
(***************************************************************************)
(* Queues.                                                                 *)
(***************************************************************************)
Talk == Requests \cup Messages

LEMMA TalkGoes ==
  ASSUME NEW q \in Seq(Talk), q # <<>>
  PROVE  /\ Tail(q) \in Seq(Talk) /\ Len(q) \in Nat /\ Len(q) >= 1 /\ Len(Tail(q)) = Len(q) - 1
         /\ Head(q) = q[1] /\ Head(q) \in Talk
         /\ \A i \in 1..Len(Tail(q)) : i + 1 \in 1..Len(q) /\ Tail(q)[i] = q[i + 1]
         /\ \A i \in 1..Len(q) : i = 1 \/ (i - 1 \in 1..Len(Tail(q)) /\ Tail(q)[i - 1] = q[i])
<1>1. Tail(q) \in Seq(Talk) /\ Len(Tail(q)) = Len(q) - 1
      /\ \A i \in 1..(Len(q) - 1) : Tail(q)[i] = q[i + 1]
  BY HeadTailProperties
<1>2. Len(q) \in Nat /\ Len(q) >= 1
  BY EmptySeq, LenProperties
<1>3. Head(q) = q[1] /\ Head(q) \in Talk
  BY HeadTailProperties
<1> QED
  BY <1>1, <1>2, <1>3

LEMMA TalkComes ==
  ASSUME NEW q \in Seq(Talk), NEW m \in Talk
  PROVE  /\ Append(q, m) \in Seq(Talk) /\ Len(q) \in Nat /\ Len(Append(q, m)) = Len(q) + 1
         /\ Append(q, m)[Len(q) + 1] = m
         /\ \A i \in 1..Len(q) : i \in 1..Len(Append(q, m)) /\ Append(q, m)[i] = q[i]
         /\ \A i \in 1..Len(Append(q, m)) : i \in 1..Len(q) \/ i = Len(q) + 1
  BY AppendProperties, LenProperties

LEMMA HasComes ==
  ASSUME NEW q \in Seq(Talk), NEW m \in Talk, NEW k, NEW p
  PROVE  Has(k, Append(q, m), p) <=> Has(k, q, p) \/ Kind(m, p) = k
<1> DEFINE n == Len(q)
           r == Append(q, m)
<1>1. /\ n \in Nat /\ Len(r) = n + 1 /\ r[n + 1] = m
      /\ \A i \in 1..n : r[i] = q[i]
  BY TalkComes
<1> HIDE DEF r, n
<1>2. Has(k, q, p) <=> \E i \in 1..n : Kind(q[i], p) = k
  BY DEF n, Has
<1>3. Has(k, r, p) <=> \E i \in 1..n + 1 : Kind(r[i], p) = k
  BY <1>1 DEF Has
<1>4. Has(k, r, p) <=> Has(k, q, p) \/ Kind(m, p) = k
  BY <1>1, <1>2, <1>3
<1> QED
  BY <1>4 DEF r

LEMMA HasGoes ==
  ASSUME NEW q \in Seq(Talk), q # <<>>, NEW k, NEW p
  PROVE  Has(k, q, p) <=> Has(k, Tail(q), p) \/ Kind(Head(q), p) = k
<1> DEFINE n == Len(q)
           r == Tail(q)
<1>1. /\ n \in Nat /\ n >= 1 /\ Len(r) = n - 1 /\ Head(q) = q[1]
      /\ \A i \in 1..n - 1 : r[i] = q[i + 1]
  BY TalkGoes
<1> HIDE DEF r, n
<1>2. Has(k, q, p) <=> \E i \in 1..n : Kind(q[i], p) = k
  BY DEF n, Has
<1>3. Has(k, r, p) <=> \E i \in 1..n - 1 : Kind(r[i], p) = k
  BY <1>1 DEF Has
<1>4. ASSUME NEW i \in 1..n
      PROVE  i = 1 \/ (i - 1 \in 1..n - 1 /\ r[i - 1] = q[i])
  BY <1>1
<1>5. ASSUME NEW i \in 1..n - 1
      PROVE  i + 1 \in 1..n /\ r[i] = q[i + 1]
  BY <1>1
<1>6. Has(k, r, p) \/ Kind(Head(q), p) = k => Has(k, q, p)
  BY <1>1, <1>2, <1>3, <1>5
<1>7. Has(k, q, p) => Has(k, r, p) \/ Kind(Head(q), p) = k
  BY <1>1, <1>2, <1>3, <1>4
<1>8. Has(k, q, p) <=> Has(k, r, p) \/ Kind(Head(q), p) = k
  BY <1>6, <1>7
<1> QED
  BY <1>8 DEF r

\* The order of what is under way.
LEMMA OrderGoes ==
  ASSUME NEW w \in Seq(Talk), NEW a \in Seq(Talk), NEW p, w # <<>>, InOrder(w, a, p)
  PROVE  /\ InOrder(Tail(w), a, p)
         /\ \A k : Has(k, Tail(w), p) \/ Has(k, a, p) => Follows(Kind(Head(w), p), k)
<1> DEFINE n == Len(w)
           r == Tail(w)
<1>1. /\ n \in Nat /\ n >= 1 /\ Len(r) = n - 1 /\ Head(w) = w[1]
      /\ \A i \in 1..n - 1 : i + 1 \in 1..n /\ r[i] = w[i + 1]
  BY TalkGoes
<1>2. /\ \A i, j \in 1..n : i < j => Follows(Kind(w[i], p), Kind(w[j], p))
      /\ \A i, j \in 1..Len(a) : i < j => Follows(Kind(a[i], p), Kind(a[j], p))
      /\ \A i \in 1..n, j \in 1..Len(a) : Follows(Kind(w[i], p), Kind(a[j], p))
  BY DEF InOrder
<1> HIDE DEF r, n
<1>3. InOrder(r, a, p)
  <2>1. ASSUME NEW i \in 1..Len(r), NEW j \in 1..Len(r), i < j
        PROVE  Follows(Kind(r[i], p), Kind(r[j], p))
    <3>1. i + 1 \in 1..n /\ j + 1 \in 1..n /\ i + 1 < j + 1 /\ r[i] = w[i + 1] /\ r[j] = w[j + 1]
      BY <1>1, <2>1
    <3> QED
      BY <3>1, <1>2
  <2>2. ASSUME NEW i \in 1..Len(r), NEW j \in 1..Len(a)
        PROVE  Follows(Kind(r[i], p), Kind(a[j], p))
    BY <1>1, <1>2
  <2> QED
    BY <1>2, <2>1, <2>2 DEF InOrder
<1>4. ASSUME NEW k, Has(k, r, p) \/ Has(k, a, p)
      PROVE  Follows(Kind(w[1], p), k)
  <2>1. CASE Has(k, r, p)
    <3>1. PICK i \in 1..Len(r) : Kind(r[i], p) = k
      BY <2>1 DEF Has
    <3>2. 1 \in 1..n /\ i + 1 \in 1..n /\ 1 < i + 1 /\ r[i] = w[i + 1]
      BY <1>1
    <3> QED
      BY <3>1, <3>2, <1>2
  <2>2. CASE Has(k, a, p)
    <3>1. PICK i \in 1..Len(a) : Kind(a[i], p) = k
      BY <2>2 DEF Has
    <3>2. 1 \in 1..n
      BY <1>1
    <3> QED
      BY <3>1, <3>2, <1>2
  <2> QED
    BY <1>4, <2>1, <2>2
<1> QED
  BY <1>1, <1>3, <1>4 DEF r

\* Something is asked for.
LEMMA OrderAsks ==
  ASSUME NEW w \in Seq(Talk), NEW a \in Seq(Talk), NEW p, NEW c \in Talk, InOrder(w, a, p),
         \A k : Has(k, w, p) \/ Has(k, a, p) => Follows(k, Kind(c, p))
  PROVE  InOrder(w, Append(a, c), p)
<1> DEFINE n == Len(a)
           b == Append(a, c)
<1>1. /\ n \in Nat /\ Len(b) = n + 1 /\ b[n + 1] = c
      /\ \A i \in 1..n : b[i] = a[i]
      /\ \A i \in 1..n + 1 : i \in 1..n \/ i = n + 1
  BY TalkComes
<1>2. /\ \A i, j \in 1..Len(w) : i < j => Follows(Kind(w[i], p), Kind(w[j], p))
      /\ \A i, j \in 1..n : i < j => Follows(Kind(a[i], p), Kind(a[j], p))
      /\ \A i \in 1..Len(w), j \in 1..n : Follows(Kind(w[i], p), Kind(a[j], p))
  BY DEF InOrder
<1>3. /\ \A i \in 1..Len(w) : Follows(Kind(w[i], p), Kind(c, p))
      /\ \A i \in 1..n : Follows(Kind(a[i], p), Kind(c, p))
  BY DEF Has
<1> HIDE DEF b, n
<1>4. ASSUME NEW i \in 1..n + 1, NEW j \in 1..n + 1, i < j
      PROVE  Follows(Kind(b[i], p), Kind(b[j], p))
  <2>1. i \in 1..n
    BY <1>1, <1>4
  <2>2. CASE j \in 1..n
    BY <2>1, <2>2, <1>1, <1>2, <1>4
  <2>3. CASE j = n + 1
    BY <2>1, <2>3, <1>1, <1>3
  <2> QED
    BY <2>2, <2>3, <1>1
<1>5. ASSUME NEW i \in 1..Len(w), NEW j \in 1..n + 1
      PROVE  Follows(Kind(w[i], p), Kind(b[j], p))
  <2>1. CASE j \in 1..n
    BY <2>1, <1>1, <1>2
  <2>2. CASE j = n + 1
    BY <2>2, <1>1, <1>3
  <2> QED
    BY <2>1, <2>2, <1>1
<1>6. InOrder(w, b, p)
  BY <1>1, <1>2, <1>4, <1>5 DEF InOrder
<1> QED
  BY <1>6 DEF b

\* Something is said.
LEMMA OrderSays ==
  ASSUME NEW w \in Seq(Talk), NEW a \in Seq(Talk), NEW p, NEW m \in Talk, InOrder(w, a, p),
         \A k : Has(k, w, p) => Follows(k, Kind(m, p)),
         \A k : Has(k, a, p) => Follows(Kind(m, p), k)
  PROVE  InOrder(Append(w, m), a, p)
<1> DEFINE n == Len(w)
           v == Append(w, m)
<1>1. /\ n \in Nat /\ Len(v) = n + 1 /\ v[n + 1] = m
      /\ \A i \in 1..n : v[i] = w[i]
      /\ \A i \in 1..n + 1 : i \in 1..n \/ i = n + 1
  BY TalkComes
<1>2. /\ \A i, j \in 1..n : i < j => Follows(Kind(w[i], p), Kind(w[j], p))
      /\ \A i, j \in 1..Len(a) : i < j => Follows(Kind(a[i], p), Kind(a[j], p))
      /\ \A i \in 1..n, j \in 1..Len(a) : Follows(Kind(w[i], p), Kind(a[j], p))
  BY DEF InOrder
<1>3. /\ \A i \in 1..n : Follows(Kind(w[i], p), Kind(m, p))
      /\ \A i \in 1..Len(a) : Follows(Kind(m, p), Kind(a[i], p))
  BY DEF Has
<1> HIDE DEF v, n
<1>4. ASSUME NEW i \in 1..n + 1, NEW j \in 1..n + 1, i < j
      PROVE  Follows(Kind(v[i], p), Kind(v[j], p))
  <2>1. i \in 1..n
    BY <1>1, <1>4
  <2>2. CASE j \in 1..n
    BY <2>1, <2>2, <1>1, <1>2, <1>4
  <2>3. CASE j = n + 1
    BY <2>1, <2>3, <1>1, <1>3
  <2> QED
    BY <2>2, <2>3, <1>1
<1>5. ASSUME NEW i \in 1..n + 1, NEW j \in 1..Len(a)
      PROVE  Follows(Kind(v[i], p), Kind(a[j], p))
  <2>1. CASE i \in 1..n
    BY <2>1, <1>1, <1>2
  <2>2. CASE i = n + 1
    BY <2>2, <1>1, <1>3
  <2> QED
    BY <2>1, <2>2, <1>1
<1>6. InOrder(v, a, p)
  BY <1>1, <1>2, <1>4, <1>5 DEF InOrder
<1> QED
  BY <1>6 DEF v

\* Something is served: its reply is of the same kind.
LEMMA OrderServes ==
  ASSUME NEW w \in Seq(Talk), NEW a \in Seq(Talk), NEW p, NEW m \in Talk, InOrder(w, a, p),
         a # <<>>, Kind(m, p) = Kind(Head(a), p)
  PROVE  InOrder(Append(w, m), Tail(a), p)
<1> DEFINE n == Len(a)
           b == Tail(a)
<1>1. /\ n \in Nat /\ n >= 1 /\ Len(b) = n - 1 /\ Head(a) = a[1] /\ b \in Seq(Talk)
      /\ \A i \in 1..n - 1 : i + 1 \in 1..n /\ b[i] = a[i + 1]
  BY TalkGoes
<1>2. /\ \A i, j \in 1..Len(w) : i < j => Follows(Kind(w[i], p), Kind(w[j], p))
      /\ \A i, j \in 1..n : i < j => Follows(Kind(a[i], p), Kind(a[j], p))
      /\ \A i \in 1..Len(w), j \in 1..n : Follows(Kind(w[i], p), Kind(a[j], p))
  BY DEF InOrder
<1> HIDE DEF b, n
<1>3. InOrder(w, b, p)
  <2>1. ASSUME NEW i \in 1..Len(b), NEW j \in 1..Len(b), i < j
        PROVE  Follows(Kind(b[i], p), Kind(b[j], p))
    <3>1. i + 1 \in 1..n /\ j + 1 \in 1..n /\ i + 1 < j + 1 /\ b[i] = a[i + 1] /\ b[j] = a[j + 1]
      BY <1>1, <2>1
    <3> QED
      BY <3>1, <1>2
  <2>2. ASSUME NEW i \in 1..Len(w), NEW j \in 1..Len(b)
        PROVE  Follows(Kind(w[i], p), Kind(b[j], p))
    BY <1>1, <1>2
  <2> QED
    BY <1>2, <2>1, <2>2 DEF InOrder
<1>4. ASSUME NEW k, Has(k, w, p)
      PROVE  Follows(k, Kind(m, p))
  <2>1. PICK i \in 1..Len(w) : Kind(w[i], p) = k
    BY <1>4 DEF Has
  <2>2. 1 \in 1..n
    BY <1>1
  <2> QED
    BY <2>1, <2>2, <1>1, <1>2
<1>5. ASSUME NEW k, Has(k, b, p)
      PROVE  Follows(Kind(m, p), k)
  <2>1. PICK i \in 1..Len(b) : Kind(b[i], p) = k
    BY <1>5 DEF Has
  <2>2. 1 \in 1..n /\ i + 1 \in 1..n /\ 1 < i + 1 /\ b[i] = a[i + 1]
    BY <1>1
  <2> QED
    BY <2>1, <2>2, <1>1, <1>2
<1>6. InOrder(Append(w, m), b, p)
  BY <1>1, <1>3, <1>4, <1>5, OrderSays
<1> QED
  BY <1>6 DEF b

LEMMA TrueComes ==
  ASSUME NEW w \in Seq(Talk), NEW m \in Talk, NEW p, NEW has, AllTrue(w, p, has), IsTrue(m, p, has)
  PROVE  AllTrue(Append(w, m), p, has)
<1> DEFINE n == Len(w)
           v == Append(w, m)
<1>1. /\ n \in Nat /\ Len(v) = n + 1 /\ v[n + 1] = m /\ \A i \in 1..n : v[i] = w[i]
  BY TalkComes
<1>2. \A i \in 1..n : IsTrue(w[i], p, has)
  BY DEF AllTrue
<1> HIDE DEF v, n
<1>3. \A i \in 1..n + 1 : IsTrue(v[i], p, has)
  BY <1>1, <1>2
<1>4. AllTrue(v, p, has)
  BY <1>1, <1>3 DEF AllTrue
<1> QED
  BY <1>4 DEF v

LEMMA TrueGoes ==
  ASSUME NEW w \in Seq(Talk), NEW p, NEW has, w # <<>>, AllTrue(w, p, has)
  PROVE  AllTrue(Tail(w), p, has) /\ IsTrue(Head(w), p, has)
<1> DEFINE n == Len(w)
           v == Tail(w)
<1>1. /\ n \in Nat /\ n >= 1 /\ Len(v) = n - 1 /\ Head(w) = w[1]
      /\ \A i \in 1..n - 1 : i + 1 \in 1..n /\ v[i] = w[i + 1]
  BY TalkGoes
<1>2. \A i \in 1..n : IsTrue(w[i], p, has)
  BY DEF AllTrue
<1> HIDE DEF v, n
<1>3. (\A i \in 1..n - 1 : IsTrue(v[i], p, has)) /\ IsTrue(w[1], p, has)
  BY <1>1, <1>2
<1>4. AllTrue(v, p, has) /\ IsTrue(Head(w), p, has)
  BY <1>1, <1>3 DEF AllTrue
<1> QED
  BY <1>4 DEF v

\* The messages that carry a lock.
LEMMA CarriedComes ==
  ASSUME NEW w \in Seq(Talk), NEW m \in Talk, NEW p, NEW k
  PROVE  Carried(Append(w, m), p, k) <=> Carried(w, p, k) \/ Carries(m, p, k)
<1> DEFINE n == Len(w)
           v == Append(w, m)
<1>1. /\ n \in Nat /\ Len(v) = n + 1 /\ v[n + 1] = m /\ \A i \in 1..n : v[i] = w[i]
  BY TalkComes
<1> HIDE DEF v, n
<1>2. Carried(w, p, k) <=> \E i \in 1..n : Carries(w[i], p, k)
  BY DEF n, Carried
<1>3. Carried(v, p, k) <=> \E i \in 1..n + 1 : Carries(v[i], p, k)
  BY <1>1 DEF Carried
<1>4. Carried(v, p, k) <=> Carried(w, p, k) \/ Carries(m, p, k)
  BY <1>1, <1>2, <1>3
<1> QED
  BY <1>4 DEF v

LEMMA LastComes ==
  ASSUME NEW w \in Seq(Talk), NEW m \in Talk, NEW p, NEW k, NEW v,
         \/ LastIsRight(w, p, k, v) /\ ~Carries(m, p, k)
         \/ Carries(m, p, k) /\ Said(m, k) = v
  PROVE  LastIsRight(Append(w, m), p, k, v)
<1> DEFINE n == Len(w)
           r == Append(w, m)
<1>1. /\ n \in Nat /\ Len(r) = n + 1 /\ r[n + 1] = m /\ \A i \in 1..n : r[i] = w[i]
  BY TalkComes
<1>2. LastIsRight(w, p, k, v) => \A i \in 1..n : Carries(w[i], p, k) =>
        Said(w[i], k) = v \/ \E j \in 1..n : i < j /\ Carries(w[j], p, k)
  BY DEF LastIsRight
<1> HIDE DEF r, n
<1>3. SUFFICES ASSUME NEW i \in 1..n + 1, Carries(r[i], p, k)
               PROVE  Said(r[i], k) = v \/ \E j \in 1..n + 1 : i < j /\ Carries(r[j], p, k)
  <2>1. LastIsRight(r, p, k, v)
    BY <1>1, <1>3 DEF LastIsRight
  <2> QED
    BY <2>1 DEF r
<1>4. CASE i = n + 1
  BY <1>1, <1>3, <1>4
<1>5. CASE i \in 1..n /\ Carries(m, p, k)
  <2>1. n + 1 \in 1..n + 1 /\ i < n + 1
    BY <1>1, <1>5
  <2> QED
    BY <2>1, <1>1, <1>5
<1>6. CASE i \in 1..n /\ ~Carries(m, p, k)
  <2>1. Carries(w[i], p, k) /\ r[i] = w[i]
    BY <1>1, <1>3, <1>6
  <2>2. CASE Said(w[i], k) = v
    BY <2>1, <2>2
  <2>3. CASE Said(w[i], k) # v
    <3>1. PICK j \in 1..n : i < j /\ Carries(w[j], p, k)
      BY <2>1, <2>3, <1>2, <1>6
    <3>2. j \in 1..n + 1 /\ r[j] = w[j]
      BY <1>1
    <3> QED
      BY <3>1, <3>2
  <2> QED
    BY <2>2, <2>3
<1> QED
  BY <1>1, <1>4, <1>5, <1>6

LEMMA LastGoes ==
  ASSUME NEW w \in Seq(Talk), w # <<>>, NEW p, NEW k, NEW v, LastIsRight(w, p, k, v)
  PROVE  /\ LastIsRight(Tail(w), p, k, v)
         /\ Carried(w, p, k) => \/ Carried(Tail(w), p, k)
                                \/ Carries(Head(w), p, k) /\ Said(Head(w), k) = v
<1> DEFINE n == Len(w)
           r == Tail(w)
<1>1. /\ n \in Nat /\ n >= 1 /\ Len(r) = n - 1 /\ Head(w) = w[1]
      /\ \A i \in 1..n - 1 : i + 1 \in 1..n /\ r[i] = w[i + 1]
  BY TalkGoes
<1>2. \A i \in 1..n : Carries(w[i], p, k) =>
        Said(w[i], k) = v \/ \E j \in 1..n : i < j /\ Carries(w[j], p, k)
  BY DEF LastIsRight
<1>3. Carried(w, p, k) <=> \E i \in 1..n : Carries(w[i], p, k)
  BY DEF Carried
<1> HIDE DEF r, n
<1>4. ASSUME NEW i \in 1..n, NEW j \in 1..n, i < j
      PROVE  j - 1 \in 1..n - 1 /\ r[j - 1] = w[j]
  BY <1>1, <1>4
<1>5. ASSUME NEW i \in 1..n - 1, Carries(r[i], p, k)
      PROVE  Said(r[i], k) = v \/ \E j \in 1..n - 1 : i < j /\ Carries(r[j], p, k)
  <2>1. i + 1 \in 1..n /\ r[i] = w[i + 1]
    BY <1>1
  <2>2. CASE Said(w[i + 1], k) = v
    BY <2>1, <2>2
  <2>3. CASE Said(w[i + 1], k) # v
    <3>1. PICK j \in 1..n : i + 1 < j /\ Carries(w[j], p, k)
      BY <2>1, <2>3, <1>2, <1>5
    <3>2. j - 1 \in 1..n - 1 /\ r[j - 1] = w[j] /\ i < j - 1
      BY <3>1, <2>1, <1>4, <1>1
    <3> QED
      BY <3>1, <3>2
  <2> QED
    BY <2>2, <2>3
<1>6. LastIsRight(r, p, k, v)
  BY <1>1, <1>5 DEF LastIsRight
<1>7. ASSUME Carried(w, p, k), ~Carried(r, p, k)
      PROVE  Carries(w[1], p, k) /\ Said(w[1], k) = v
  <2>1. \A i \in 1..n - 1 : ~Carries(r[i], p, k)
    BY <1>1, <1>7 DEF Carried
  <2>2. 1 \in 1..n
    BY <1>1
  <2>3. ASSUME NEW j \in 1..n, 1 < j
        PROVE  ~Carries(w[j], p, k)
    BY <2>1, <2>2, <2>3, <1>4
  <2>4. PICK i \in 1..n : Carries(w[i], p, k)
    BY <1>3, <1>7
  <2>5. i = 1
    BY <2>3, <2>4, <1>1
  <2> QED
    BY <2>2, <2>3, <2>4, <2>5, <1>2
<1> QED
  BY <1>1, <1>6, <1>7 DEF r

-----------------------------------------------------------------------------
(***************************************************************************)
(* What the agent does with a message.                                     *)
(***************************************************************************)
Proxy(type, p) == [type |-> type, path |-> p]

LEMMA MessageFields ==
  ASSUME NEW m \in Messages
  PROVE  /\ m.type \in {"manager", "modems", "added", "removed", "modemProxy", "simProxy", "interfaces",
                        "modemProps", "simProps", "lock"}
         /\ m.type \notin {"manager", "modems"} => m.path \in ModemPaths
         /\ m.type = "modems" => m.paths \in Seq(ModemPaths)
         /\ m.type \in {"interfaces", "modemProps"} => m.offers \in Offers
         /\ m.type \in {"modemProps", "simProps"} => m.error \in BOOLEAN
         /\ m.type = "simProps" => m.locks \in LockStates
         /\ m.type = "lock" => m.lock \in Locks /\ m.value \in {None, Some}
  BY DEF Messages

LEMMA RequestFields ==
  ASSUME NEW c \in Requests
  PROVE  /\ c.type \in {"manager", "modems", "modemProxy", "modemProps", "simProxy", "simProps"}
         /\ c.type \notin {"manager", "modems"} => c.path \in ModemPaths
         /\ c.type \in {"manager", "modems"} => c = [type |-> c.type]
         /\ c.type \notin {"manager", "modems"} => c = [type |-> c.type, path |-> c.path]
  BY DEF Requests

\* The agent's state after a message.
Becomes8(a, ms, ss, cs, lo, le, ta, n) ==
  /\ asked' = a /\ modems' = ms /\ sims' = ss /\ counted' = cs /\ locksOf' = lo /\ leaked' = le
  /\ table' = ta /\ connmans' = n

LEMMA ManagerMade ==
  ASSUME AgentReceives, Head(wire).type = "manager"
  PROVE  Becomes8(Append(asked, [type |-> "modems"]), modems, sims, counted, locksOf, leaked, table,
                  connmans) /\ manager' = TRUE
  BY DEF AgentReceives, AgentHandles, AgentState, Becomes8

LEMMA ModemsListed ==
  ASSUME AgentReceives, NEW m, m = Head(wire), m.type = "modems"
  PROVE  Becomes8(asked \o [i \in DOMAIN m.paths |-> Proxy("modemProxy", m.paths[i])], modems, sims,
                  counted, locksOf, leaked, table, connmans)
  BY DEF AgentReceives, AgentHandles, AgentState, Becomes8, AddModems, Proxy

LEMMA ModemAdded ==
  ASSUME AgentReceives, NEW m, m = Head(wire), m.type = "added"
  PROVE  Becomes8(IF manager THEN Append(asked, Proxy("modemProxy", m.path)) ELSE asked, modems, sims,
                  counted, locksOf, leaked, table, connmans)
  BY DEF AgentReceives, AgentHandles, AgentState, Becomes8, AsksFor, Proxy

LEMMA ModemProxyMade ==
  ASSUME AgentReceives, NEW m, m = Head(wire), m.type = "modemProxy"
  PROVE  Becomes8(Append(asked, Proxy("modemProps", m.path)), (modems \ {m.path}) \cup {m.path},
                  sims \ {m.path}, counted \ {m.path},
                  [locksOf EXCEPT ![m.path] = NoLocks], leaked, table, connmans)
  BY DEF AgentReceives, AgentHandles, AgentState, Becomes8, AddModem, Freed, AsksFor, Proxy

LEMMA ModemRemoved ==
  ASSUME AgentReceives, NEW m, m = Head(wire), m.type = "removed"
  PROVE  \/ (~manager \/ m.path \notin modems)
            /\ Becomes8(asked, modems, sims, counted, locksOf, leaked, table, connmans)
         \/ manager /\ m.path \in modems /\ m.path \notin sims
            /\ Becomes8(asked, modems \ {m.path}, sims \ {m.path}, counted \ {m.path},
                        [locksOf EXCEPT ![m.path] = NoLocks], leaked, table, connmans)
         \/ manager /\ m.path \in modems /\ m.path \in sims
            /\ Becomes8(asked, modems \ {m.path}, (sims \ {m.path}) \ {m.path},
                        (counted \ {m.path}) \ {m.path},
                        [locksOf EXCEPT ![m.path] = NoLocks], leaked,
                        [k \in Locks |-> [table[k] EXCEPT ![m.path] = None]],
                        IF m.path \in counted THEN connmans - 1 ELSE connmans)
<1>1. CASE ~manager \/ m.path \notin modems
  BY <1>1 DEF AgentReceives, AgentHandles, AgentState, Becomes8, RemoveModem
<1>2. CASE manager /\ m.path \in modems /\ m.path \notin sims
  BY <1>2 DEF AgentReceives, AgentHandles, AgentState, Becomes8, RemoveModem, RemoveSim, Freed
<1>3. CASE manager /\ m.path \in modems /\ m.path \in sims
  BY <1>3 DEF AgentReceives, AgentHandles, AgentState, Becomes8, RemoveModem, RemoveSim, Freed
<1> QED
  BY <1>1, <1>2, <1>3

LEMMA SimProxyIsMade ==
  ASSUME AgentReceives, NEW m, m = Head(wire), m.type = "simProxy"
  PROVE  \/ m.path \notin modems
            /\ Becomes8(asked, modems, sims, counted, locksOf, leaked, table, connmans)
         \/ m.path \in modems
            /\ Becomes8(Append(asked, Proxy("simProps", m.path)), modems, sims \cup {m.path}, counted,
                        locksOf, IF m.path \in sims THEN leaked \cup {m.path} ELSE leaked, table,
                        connmans)
<1>1. CASE m.path \notin modems
  BY <1>1 DEF AgentReceives, AgentHandles, AgentState, Becomes8, SimProxyMade
<1>2. CASE m.path \in modems
  BY <1>2 DEF AgentReceives, AgentHandles, AgentState, Becomes8, SimProxyMade, AsksFor, Proxy
<1> QED
  BY <1>1, <1>2

LocksTable(p, locks) == [k \in Locks |-> IF locks[k] = locksOf[p][k] THEN table[k]
                                          ELSE [table[k] EXCEPT ![p] = locks[k]]]
LEMMA LocksSetFields ==
  ASSUME NEW p, NEW locks
  PROVE  LocksSet(AgentState, p, locks) =
           [asked |-> asked, modems |-> modems, sims |-> sims, counted |-> counted,
            locksOf |-> [locksOf EXCEPT ![p] = locks], leaked |-> leaked,
            table |-> LocksTable(p, locks),
            connmans |-> connmans]
<1> DEFINE s == AgentState
           l == [locksOf EXCEPT ![p] = locks]
           t == LocksTable(p, locks)
<1>1. s.locksOf = locksOf /\ s.table = table
  BY DEF AgentState
<1> HIDE DEF s
<1>2. LocksSet(s, p, locks) =
        [s EXCEPT !.locksOf = [s.locksOf EXCEPT ![p] = locks],
                  !.table = [k \in Locks |-> IF locks[k] = s.locksOf[p][k] THEN s.table[k]
                                           ELSE [s.table[k] EXCEPT ![p] = locks[k]]]]
  BY DEF LocksSet
<1>3. LocksSet(s, p, locks) = [s EXCEPT !.locksOf = l, !.table = t]
  BY <1>1, <1>2 DEF LocksTable
<1> HIDE DEF l, t
<1>4. LocksSet(s, p, locks) =
        [asked |-> asked, modems |-> modems, sims |-> sims, counted |-> counted, locksOf |-> l,
         leaked |-> leaked, table |-> t, connmans |-> connmans]
  BY <1>3 DEF s, AgentState
<1> QED
  BY <1>4 DEF l, t, s

LEMMA LocksAreSet ==
  ASSUME AgentReceives, NEW m, m = Head(wire), m.type = "simProps"
  PROVE  \/ ~(m.path \in modems /\ ~m.error)
            /\ Becomes8(asked, modems, sims, counted, locksOf, leaked, table, connmans)
         \/ m.path \in modems /\ ~m.error
            /\ Becomes8(asked, modems, sims, counted, [locksOf EXCEPT ![m.path] = m.locks], leaked,
                        LocksTable(m.path, m.locks),
                        connmans)
<1>1. CASE ~(m.path \in modems /\ ~m.error)
  BY <1>1 DEF AgentReceives, AgentHandles, AgentState, Becomes8
<1>2. CASE m.path \in modems /\ ~m.error
  <2>1. AgentHandles(AgentState, m) = LocksSet(AgentState, m.path, m.locks)
    BY <1>2 DEF AgentHandles, AgentState
  <2> QED
    BY <1>2, <2>1, LocksSetFields DEF AgentReceives, Becomes8
<1> QED
  BY <1>1, <1>2

LEMMA LockIsSet ==
  ASSUME AgentReceives, NEW m, m = Head(wire), m.type = "lock", NEW locks,
         locks = [locksOf[m.path] EXCEPT ![m.lock] = m.value]
  PROVE  \/ ~(m.path \in modems /\ SimProxyLives(m.path))
            /\ Becomes8(asked, modems, sims, counted, locksOf, leaked, table, connmans)
         \/ m.path \in modems /\ SimProxyLives(m.path)
            /\ Becomes8(asked, modems, sims, counted, [locksOf EXCEPT ![m.path] = locks], leaked,
                        LocksTable(m.path, locks),
                        connmans)
<1>1. CASE ~(m.path \in modems /\ SimProxyLives(m.path))
  BY <1>1 DEF AgentReceives, AgentHandles, AgentState, Becomes8
<1>2. CASE m.path \in modems /\ SimProxyLives(m.path)
  <2>1. AgentHandles(AgentState, m) = LocksSet(AgentState, m.path, locks)
    BY <1>2 DEF AgentHandles, AgentState
  <2>2. AgentHandles(AgentState, m) =
          [asked |-> asked, modems |-> modems, sims |-> sims, counted |-> counted,
           locksOf |-> [locksOf EXCEPT ![m.path] = locks], leaked |-> leaked,
           table |-> LocksTable(m.path, locks),
           connmans |-> connmans]
    BY <2>1, LocksSetFields
  <2> DEFINE s == AgentHandles(AgentState, m)
  <2>3. /\ asked' = s.asked /\ modems' = s.modems /\ sims' = s.sims /\ counted' = s.counted
        /\ locksOf' = s.locksOf /\ leaked' = s.leaked /\ table' = s.table
        /\ connmans' = s.connmans
    BY DEF AgentReceives
  <2> HIDE DEF s
  <2> QED
    BY <1>2, <2>2, <2>3 DEF Becomes8, s
<1> QED
  BY <1>1, <1>2

\* What ModemChanged makes of the agent's state.
WithSim(p, offers) == IF "sim" \in offers THEN AddSim(AgentState, p) ELSE RemoveSim(AgentState, p)
LEMMA WithSimFields ==
  ASSUME NEW p, NEW offers
  PROVE  WithSim(p, offers) =
           [asked |-> IF "sim" \in offers /\ p \notin sims
                      THEN Append(asked, Proxy("simProxy", p)) ELSE asked,
            modems |-> modems,
            sims |-> IF "sim" \in offers THEN sims ELSE sims \ {p},
            counted |-> IF "sim" \notin offers /\ p \in sims THEN counted \ {p} ELSE counted,
            locksOf |-> locksOf, leaked |-> leaked,
            table |-> IF "sim" \notin offers /\ p \in sims
                      THEN [k \in Locks |-> [table[k] EXCEPT ![p] = None]] ELSE table,
            connmans |-> IF "sim" \notin offers /\ p \in sims /\ p \in counted
                         THEN connmans - 1 ELSE connmans]
<1>1. CASE "sim" \in offers /\ p \in sims
  BY <1>1 DEF WithSim, AddSim, AgentState
<1>2. CASE "sim" \in offers /\ p \notin sims
  BY <1>2 DEF WithSim, AddSim, AgentState, AsksFor, Proxy
<1>3. CASE "sim" \notin offers /\ p \notin sims
  <2>1. sims = sims \ {p}
    BY <1>3
  <2> QED
    BY <1>3, <2>1 DEF WithSim, RemoveSim, AgentState
<1>4. CASE "sim" \notin offers /\ p \in sims
  BY <1>4 DEF WithSim, RemoveSim, AgentState
<1> QED
  BY <1>1, <1>2, <1>3, <1>4

LEMMA InterfacesSet ==
  ASSUME AgentReceives, NEW m, m = Head(wire), m.type \in {"interfaces", "modemProps"}, connmans \in Nat,
         connmans > 0 \/ m.path \notin counted
  PROVE  \/ ~(m.path \in modems /\ (m.type = "modemProps" => ~m.error))
            /\ Becomes8(asked, modems, sims, counted, locksOf, leaked, table, connmans)
         \/ /\ m.path \in modems /\ (m.type = "modemProps" => ~m.error)
            /\ asked' = IF "sim" \in m.offers /\ m.path \notin sims
                        THEN Append(asked, Proxy("simProxy", m.path)) ELSE asked
            /\ modems' = modems /\ locksOf' = locksOf /\ leaked' = leaked
            /\ sims' = IF "sim" \in m.offers THEN sims ELSE sims \ {m.path}
            /\ table' = IF "sim" \notin m.offers /\ m.path \in sims
                        THEN [k \in Locks |-> [table[k] EXCEPT ![m.path] = None]] ELSE table
            /\ counted' = IF "cm" \in m.offers THEN counted \cup {m.path} ELSE counted \ {m.path}
            /\ connmans' = CASE m.path \in counted /\ "cm" \notin m.offers -> connmans - 1
                             [] m.path \notin counted /\ "cm" \in m.offers -> connmans + 1
                             [] OTHER -> connmans
<1>1. CASE ~(m.path \in modems /\ (m.type = "modemProps" => ~m.error))
  BY <1>1 DEF AgentReceives, AgentHandles, AgentState, Becomes8
<1>2. CASE m.path \in modems /\ (m.type = "modemProps" => ~m.error)
  <2> DEFINE p == m.path
             t == WithSim(p, m.offers)
             u == ModemChanged(AgentState, p, m.offers)
  <2>1. AgentHandles(AgentState, m) = u
    BY <1>2 DEF AgentHandles, AgentState
  <2>2. u = CASE "cm" \in m.offers /\ p \notin t.counted ->
                   [t EXCEPT !.counted = @ \cup {p}, !.connmans = @ + 1]
              [] "cm" \notin m.offers /\ p \in t.counted ->
                   [t EXCEPT !.counted = @ \ {p}, !.connmans = @ - 1]
              [] OTHER -> t
    BY DEF ModemChanged, WithSim
  <2>a. t = WithSim(p, m.offers)
    OBVIOUS
  <2> HIDE DEF t, u, p
  <2>3. /\ t = [asked |-> t.asked, modems |-> t.modems, sims |-> t.sims, counted |-> t.counted,
                 locksOf |-> t.locksOf, leaked |-> t.leaked, table |-> t.table,
                 connmans |-> t.connmans]
        /\ t.asked = IF "sim" \in m.offers /\ p \notin sims
                      THEN Append(asked, Proxy("simProxy", p)) ELSE asked
        /\ t.modems = modems /\ t.locksOf = locksOf /\ t.leaked = leaked
        /\ t.sims = IF "sim" \in m.offers THEN sims ELSE sims \ {p}
        /\ t.counted = IF "sim" \notin m.offers /\ p \in sims THEN counted \ {p} ELSE counted
        /\ t.table = IF "sim" \notin m.offers /\ p \in sims
                      THEN [k \in Locks |-> [table[k] EXCEPT ![p] = None]] ELSE table
        /\ t.connmans = IF "sim" \notin m.offers /\ p \in sims /\ p \in counted
                         THEN connmans - 1 ELSE connmans
    BY <2>a, WithSimFields
  <2> USE DEF p
  <2>4. /\ u.asked = t.asked /\ u.modems = t.modems /\ u.sims = t.sims /\ u.locksOf = t.locksOf
        /\ u.leaked = t.leaked /\ u.table = t.table
        /\ u.counted = IF "cm" \in m.offers THEN counted \cup {p} ELSE counted \ {p}
        /\ u.connmans = CASE p \in counted /\ "cm" \notin m.offers -> connmans - 1
                             [] p \notin counted /\ "cm" \in m.offers -> connmans + 1
                             [] OTHER -> connmans
    <3>1. CASE "cm" \in m.offers /\ p \notin t.counted
      <4>1. u = [t EXCEPT !.counted = @ \cup {p}, !.connmans = @ + 1]
        BY <2>2, <3>1
      <4>2. u = [asked |-> t.asked, modems |-> t.modems, sims |-> t.sims,
                 counted |-> t.counted \cup {p}, locksOf |-> t.locksOf, leaked |-> t.leaked,
                 table |-> t.table, connmans |-> t.connmans + 1]
        BY <2>3, <4>1
      <4> HIDE DEF p
      <4>3. u.connmans = CASE p \in counted /\ "cm" \notin m.offers -> connmans - 1
                             [] p \notin counted /\ "cm" \in m.offers -> connmans + 1
                             [] OTHER -> connmans
        BY <4>2, <2>3, <3>1
      <4>4. t.counted \cup {p} = counted \cup {p}
        BY <2>3
      <4> QED
        BY <4>2, <4>3, <4>4, <3>1
    <3>2. CASE "cm" \notin m.offers /\ p \in t.counted
      <4>1. u = [t EXCEPT !.counted = @ \ {p}, !.connmans = @ - 1]
        BY <2>2, <3>2
      <4>2. u = [asked |-> t.asked, modems |-> t.modems, sims |-> t.sims,
                 counted |-> t.counted \ {p}, locksOf |-> t.locksOf, leaked |-> t.leaked,
                 table |-> t.table, connmans |-> t.connmans - 1]
        BY <2>3, <4>1
      <4> HIDE DEF p
      <4>3. t.counted = counted /\ p \in counted /\ t.connmans = connmans
        BY <2>3, <3>2
      <4> QED
        BY <4>2, <4>3, <3>2
    <3>3. CASE ~("cm" \in m.offers /\ p \notin t.counted) /\ ~("cm" \notin m.offers /\ p \in t.counted)
      <4>1. u = t
        BY <2>2, <3>3
      <4> HIDE DEF p
      <4>2. t.counted = IF "cm" \in m.offers THEN counted \cup {p} ELSE counted \ {p}
        BY <2>3, <3>3
      <4>3. t.connmans = CASE p \in counted /\ "cm" \notin m.offers -> connmans - 1
                             [] p \notin counted /\ "cm" \in m.offers -> connmans + 1
                             [] OTHER -> connmans
        BY <2>3, <3>3
      <4> QED
        BY <4>1, <4>2, <4>3
    <3> QED
      BY <3>1, <3>2, <3>3
  <2>5. /\ asked' = u.asked /\ modems' = u.modems /\ sims' = u.sims /\ counted' = u.counted
        /\ locksOf' = u.locksOf /\ leaked' = u.leaked /\ table' = u.table /\ connmans' = u.connmans
    BY <2>1 DEF AgentReceives
  <2> QED
    BY <1>2, <2>3, <2>4, <2>5
<1> QED
  BY <1>1, <1>2

-----------------------------------------------------------------------------
(***************************************************************************)
(* A modem that a step is not about.                                       *)
(***************************************************************************)
Still(p) ==
  /\ there'[p] = there[p] /\ lock'[p] = lock[p] /\ manager' = manager
  /\ (p \in modems' <=> p \in modems) /\ (p \in sims' <=> p \in sims)
  /\ (p \in counted' <=> p \in counted) /\ (p \in leaked' <=> p \in leaked)
  /\ locksOf'[p] = locksOf[p] /\ \A k \in Locks : table'[k][p] = table[k][p]

LEMMA Queued == OfonoInv => wire \in Seq(Talk) /\ asked \in Seq(Talk)
  BY DEF OfonoInv, OfonoTypeOK, Talk

LEMMA StaysRight ==
  ASSUME NEW p \in ModemPaths, ModemRight(p), Still(p), InOrder(wire', asked', p),
         \A k \in Kinds : Has(k, wire', p) \/ Has(k, asked', p) <=> Has(k, wire, p) \/ Has(k, asked, p),
         AllTrue(wire', p, there[p]),
         \A k \in Locks : LastIsRight(wire', p, k, lock[p][k]),
         \A k \in Locks : Carried(wire, p, k) => Carried(wire', p, k)
  PROVE  ModemRight(p)'
<1>1. \A k \in Kinds : OnWay(k, p)' <=> OnWay(k, p)
  BY DEF OnWay
<1>2. /\ OnWay("added", p)' <=> OnWay("added", p)
      /\ OnWay("removed", p)' <=> OnWay("removed", p)
      /\ OnWay("interfaces", p)' <=> OnWay("interfaces", p)
      /\ OnWay("modems", p)' <=> OnWay("modems", p)
      /\ OnWay("modemProxy", p)' <=> OnWay("modemProxy", p)
      /\ OnWay("modemProps", p)' <=> OnWay("modemProps", p)
      /\ OnWay("simProxy", p)' <=> OnWay("simProxy", p)
      /\ OnWay("simProps", p)' <=> OnWay("simProps", p)
  BY DEF OnWay, Kinds
<1>3. SaysSo(p)'
  BY <1>2 DEF SaysSo, Still, ModemRight
<1>4. Stages(p)'
  BY <1>2 DEF Stages, Early, Still, ModemRight
<1>5. Offered(p)'
  BY <1>2 DEF Offered, Asking, Still, ModemRight
<1>6. LocksKnown(p)'
  BY <1>2 DEF LocksKnown, Still, ModemRight
<1> QED
  BY <1>3, <1>4, <1>5, <1>6 DEF ModemRight

\* oFono says something about another modem.
LEMMA OtherChanges ==
  ASSUME OfonoInv, NEW p \in ModemPaths, ModemRight(p), Still(p), NEW m \in Messages,
         m.type \notin {"manager", "modems"}, m.path # p, wire' = Append(wire, m), asked' = asked
  PROVE  ModemRight(p)'
<1>1. Kind(m, p) = "other" /\ (\A k : ~Carries(m, p, k)) /\ IsTrue(m, p, there[p])
  BY DEF Kind, Carries, IsTrue
<1>2. wire \in Seq(Talk) /\ asked \in Seq(Talk) /\ m \in Talk
  BY Queued DEF Talk
<1>3. \A k : Follows(k, "other") /\ Follows("other", k)
  BY DEF Follows
<1>4. InOrder(wire', asked', p)
  BY <1>1, <1>2, <1>3, OrderSays DEF ModemRight
<1>5. ASSUME NEW k \in Kinds
      PROVE  Has(k, wire', p) <=> Has(k, wire, p)
  BY <1>1, <1>2, HasComes DEF Kinds
<1>6. AllTrue(wire', p, there[p])
  BY <1>1, <1>2, TrueComes DEF ModemRight, SaysSo
<1>7. ASSUME NEW k \in Locks
      PROVE  LastIsRight(wire', p, k, lock[p][k]) /\ (Carried(wire, p, k) => Carried(wire', p, k))
  BY <1>1, <1>2, LastComes, CarriedComes DEF ModemRight, LocksKnown
<1> QED
  BY <1>4, <1>5, <1>6, <1>7, StaysRight

\* Nothing is under way about a modem that the agent is not busy with.
LEMMA NotBusy ==
  ASSUME OfonoInv, NEW p \in ModemPaths, ~Busy(p)
  PROVE  /\ \A k \in Kinds : ~Has(k, wire, p) /\ ~Has(k, asked, p)
         /\ \A k \in Locks : ~Carried(wire, p, k)
<1>1. DOMAIN wire = 1..Len(wire) /\ DOMAIN asked = 1..Len(asked)
  BY Queued, LenProperties
<1>2. ~About(wire, p) /\ ~About(asked, p)
  BY DEF Busy
<1>3. /\ \A i \in 1..Len(wire) : ~(wire[i].type # "manager" /\ (wire[i].type # "modems" => wire[i].path = p))
      /\ \A i \in 1..Len(asked) :
           ~(asked[i].type # "manager" /\ (asked[i].type # "modems" => asked[i].path = p))
  BY <1>1, <1>2 DEF About
<1> QED
  BY <1>3 DEF Has, Kind, Kinds, Carried, Carries

\* What is under way about a modem after it has changed: that it did.
LEMMA Announced ==
  ASSUME OfonoInv, NEW p \in ModemPaths, ModemRight(p), ~Busy(p), NEW m \in Messages, m.path = p,
         m.type \in {"added", "removed", "interfaces"}, wire' = Append(wire, m), asked' = asked,
         IsTrue(m, p, there'[p])
  PROVE  /\ InOrder(wire', asked', p) /\ AllTrue(wire', p, there'[p])
         /\ \A k \in Kinds : (OnWay(k, p)' <=> k = m.type) /\ ~OnWay(k, p)
         /\ \A k \in Locks : LastIsRight(wire', p, k, lock[p][k]) /\ ~Carried(wire', p, k)
<1>1. Kind(m, p) = m.type /\ m.type \in Kinds /\ \A k : ~Carries(m, p, k)
  BY DEF Kind, Kinds, Carries
<1>2. wire \in Seq(Talk) /\ asked \in Seq(Talk) /\ m \in Talk
  BY Queued DEF Talk
<1>3. /\ \A k \in Kinds : ~Has(k, wire, p) /\ ~Has(k, asked, p)
      /\ \A k \in Locks : ~Carried(wire, p, k)
  BY NotBusy
<1>a. \A i \in 1..Len(wire) : wire[i] \in Messages
  BY LenProperties, ElementOfSeq DEF OfonoInv
<1>b. \A i \in 1..Len(asked) : asked[i] \in Requests
  BY LenProperties, ElementOfSeq DEF OfonoInv, OfonoTypeOK
<1>4. /\ \A i \in 1..Len(wire) : Kind(wire[i], p) = "other"
      /\ \A i \in 1..Len(asked) : Kind(asked[i], p) = "other"
  <2>1. \A i \in 1..Len(wire) : Kind(wire[i], p) \in Kinds \cup {"other"}
    BY <1>a, MessageFields DEF Kind, Kinds
  <2>2. \A i \in 1..Len(asked) : Kind(asked[i], p) \in Kinds \cup {"other"}
    BY <1>b, RequestFields DEF Kind, Kinds
  <2> QED
    BY <2>1, <2>2, <1>3 DEF Has
<1>5. /\ \A k : Has(k, wire, p) => Follows(k, Kind(m, p))
      /\ \A k : Has(k, asked, p) => Follows(Kind(m, p), k)
  BY <1>4 DEF Has, Follows
<1>6. InOrder(wire', asked', p)
  BY <1>2, <1>5, OrderSays DEF ModemRight
<1>7. AllTrue(wire, p, there'[p])
  <2>1. SUFFICES ASSUME NEW i \in 1..Len(wire)
                 PROVE  IsTrue(wire[i], p, there'[p])
    BY DEF AllTrue
  <2>2. Kind(wire[i], p) = "other"
    BY <1>4
  <2>3. DOMAIN wire = 1..Len(wire) /\ ~About(wire, p)
    BY <1>2, LenProperties DEF Busy
  <2>4. ~(wire[i].type # "manager" /\ (wire[i].type # "modems" => wire[i].path = p))
    BY <2>3 DEF About
  <2> QED
    BY <2>2, <2>4 DEF IsTrue
<1>8. AllTrue(wire', p, there'[p])
  BY <1>2, <1>7, TrueComes
<1>9. ASSUME NEW k \in Kinds
      PROVE  (OnWay(k, p)' <=> k = m.type) /\ ~OnWay(k, p)
  BY <1>1, <1>2, <1>3, HasComes DEF OnWay
<1>10. ASSUME NEW k \in Locks
       PROVE  LastIsRight(wire', p, k, lock[p][k]) /\ ~Carried(wire', p, k)
  BY <1>1, <1>2, <1>3, LastComes, CarriedComes DEF ModemRight, LocksKnown
<1> QED
  BY <1>6, <1>8, <1>9, <1>10

-----------------------------------------------------------------------------
(***************************************************************************)
(* oFono's modems and SIMs change.                                         *)
(***************************************************************************)
LEMMA ComesRight ==
  ASSUME OfonoInv, NEW p \in ModemPaths, NEW offers \in Offers, ModemComes(p, offers),
         NEW q \in ModemPaths \ odd'
  PROVE  ModemRight(q)'
<1> DEFINE m == [type |-> "added", path |-> p]
<1>1. m \in Messages /\ m.type = "added" /\ m.path = p
  BY DEF Messages
<1>2. /\ q \notin odd /\ wire' = Append(wire, m) /\ UNCHANGED <<lock, agentVars>>
      /\ there' = [there EXCEPT ![p] = [offers |-> offers, is |-> TRUE]]
      /\ ~there[p].is /\ (q = p => ~Busy(p) /\ p \notin leaked)
  BY DEF ModemComes, Changed, OfonoInv, OfonoTypeOK
<1>3. ModemRight(q)
  BY <1>2 DEF OfonoInv
<1> HIDE DEF m
<1>4. CASE q # p
  <2>1. Still(q) /\ asked' = asked
    BY <1>2, <1>4 DEF Still, agentVars, OfonoInv, OfonoTypeOK
  <2> QED
    BY <1>1, <1>2, <1>3, <1>4, <2>1, OtherChanges
<1>5. CASE q = p
  <2>1. there'[p].is /\ there'[p].offers = offers
    BY <1>2 DEF OfonoInv, OfonoTypeOK
  <2>2. IsTrue(m, p, there'[p])
    BY <1>1 DEF IsTrue, Kind
  <2>a. ModemRight(p) /\ ~Busy(p) /\ wire' = Append(wire, m) /\ asked' = asked
    BY <1>2, <1>3, <1>5 DEF agentVars
  <2>3. /\ InOrder(wire', asked', p) /\ AllTrue(wire', p, there'[p])
        /\ \A k \in Kinds : (OnWay(k, p)' <=> k = "added") /\ ~OnWay(k, p)
        /\ \A k \in Locks : LastIsRight(wire', p, k, lock[p][k]) /\ ~Carried(wire', p, k)
    BY <1>1, <2>2, <2>a, Announced
  <2>4. /\ OnWay("added", p)' /\ ~OnWay("removed", p)' /\ ~OnWay("interfaces", p)'
        /\ ~OnWay("modems", p)' /\ ~OnWay("modemProxy", p)' /\ ~OnWay("modemProps", p)'
        /\ ~OnWay("simProxy", p)' /\ ~OnWay("simProps", p)' /\ ~OnWay("removed", p)
    BY <2>3 DEF Kinds
  <2>5. p \notin modems /\ p \notin sims /\ locksOf[p] = NoLocks
    BY <1>2, <1>3, <1>5, <2>4 DEF ModemRight, Stages, OfonoInv, OfonoTypeOK, NothingLeft
  <2>6. SaysSo(p)'
    BY <2>1, <2>3, <2>4 DEF SaysSo
  <2>7. Stages(p)'
    BY <1>2, <1>5, <2>4, <2>5 DEF Stages, Early, agentVars
  <2>8. Offered(p)'
    BY <1>2, <1>5, <2>4, <2>5 DEF Offered, agentVars
  <2>9. LocksKnown(p)'
    BY <1>2, <1>3, <1>5, <2>3, <2>5 DEF LocksKnown, agentVars, ModemRight
  <2> QED
    BY <1>5, <2>3, <2>6, <2>7, <2>8, <2>9 DEF ModemRight
<1> QED
  BY <1>4, <1>5

LEMMA GoesRight ==
  ASSUME OfonoInv, NEW p \in ModemPaths, ModemGoes(p), NEW q \in ModemPaths \ odd'
  PROVE  ModemRight(q)'
<1> DEFINE m == [type |-> "removed", path |-> p]
<1>1. m \in Messages /\ m.type = "removed" /\ m.path = p
  BY DEF Messages
<1>2. /\ q \notin odd /\ wire' = Append(wire, m) /\ UNCHANGED <<lock, agentVars>>
      /\ there' = [there EXCEPT ![p] = Gone] /\ there[p].is /\ (q = p => ~Busy(p))
  BY DEF ModemGoes, Changed, OfonoInv, OfonoTypeOK
<1>3. ModemRight(q)
  BY <1>2 DEF OfonoInv
<1> HIDE DEF m
<1>4. CASE q # p
  <2>1. Still(q) /\ asked' = asked
    BY <1>2, <1>4 DEF Still, agentVars, OfonoInv, OfonoTypeOK
  <2> QED
    BY <1>1, <1>2, <1>3, <1>4, <2>1, OtherChanges
<1>5. CASE q = p
  <2>1. ~there'[p].is /\ there'[p].offers = {}
    BY <1>2 DEF OfonoInv, OfonoTypeOK, Gone
  <2>2. IsTrue(m, p, there'[p])
    BY <1>1 DEF IsTrue, Kind
  <2>a. ModemRight(p) /\ ~Busy(p) /\ wire' = Append(wire, m) /\ asked' = asked
    BY <1>2, <1>3, <1>5 DEF agentVars
  <2>3. /\ InOrder(wire', asked', p) /\ AllTrue(wire', p, there'[p])
        /\ \A k \in Kinds : (OnWay(k, p)' <=> k = "removed") /\ ~OnWay(k, p)
        /\ \A k \in Locks : LastIsRight(wire', p, k, lock[p][k]) /\ ~Carried(wire', p, k)
    BY <1>1, <2>2, <2>a, Announced
  <2>4. /\ OnWay("removed", p)' /\ ~OnWay("added", p)' /\ ~OnWay("interfaces", p)'
        /\ ~OnWay("modems", p)' /\ ~OnWay("modemProxy", p)' /\ ~OnWay("modemProps", p)'
        /\ ~OnWay("simProxy", p)' /\ ~OnWay("simProps", p)'
    BY <2>3 DEF Kinds
  <2>6. SaysSo(p)'
    BY <2>1, <2>3, <2>4 DEF SaysSo
  <2>7. Stages(p)'
    BY <1>2, <1>3, <1>5, <2>1, <2>4 DEF Stages, Early, agentVars, ModemRight
  <2>8. Offered(p)'
    BY <2>1 DEF Offered
  <2>9. LocksKnown(p)'
    BY <1>2, <1>3, <1>5, <2>1, <2>3 DEF LocksKnown, agentVars, ModemRight
  <2> QED
    BY <1>5, <2>3, <2>6, <2>7, <2>8, <2>9 DEF ModemRight
<1> QED
  BY <1>4, <1>5

LEMMA InterfacesRight ==
  ASSUME OfonoInv, NEW p \in ModemPaths, NEW offers \in Offers, InterfacesChange(p, offers),
         NEW q \in ModemPaths \ odd'
  PROVE  ModemRight(q)'
<1> DEFINE m == [type |-> "interfaces", path |-> p, offers |-> offers]
<1>1. m \in Messages /\ m.type = "interfaces" /\ m.path = p /\ m.offers = offers
  BY DEF Messages
<1>2. /\ q \notin odd /\ wire' = Append(wire, m) /\ UNCHANGED <<lock, agentVars>>
      /\ there' = [there EXCEPT ![p] = [offers |-> offers, is |-> TRUE]] /\ there[p].is
      /\ q = p => ~Busy(p) /\ ~("sim" \in offers /\ p \in modems /\ "sim" \notin there[p].offers
                                 /\ (p \in leaked \/ locksOf[p] # NoLocks))
  BY DEF InterfacesChange, Changed, OfonoInv, OfonoTypeOK
<1>3. ModemRight(q)
  BY <1>2 DEF OfonoInv
<1> HIDE DEF m
<1>4. CASE q # p
  <2>1. Still(q) /\ asked' = asked
    BY <1>2, <1>4 DEF Still, agentVars, OfonoInv, OfonoTypeOK
  <2> QED
    BY <1>1, <1>2, <1>3, <1>4, <2>1, OtherChanges
<1>5. CASE q = p
  <2>1. there'[p].is /\ there'[p].offers = offers
    BY <1>2 DEF OfonoInv, OfonoTypeOK
  <2>2. IsTrue(m, p, there'[p])
    BY <1>1, <2>1 DEF IsTrue, Kind
  <2>a. ModemRight(p) /\ ~Busy(p) /\ wire' = Append(wire, m) /\ asked' = asked
    BY <1>2, <1>3, <1>5 DEF agentVars
  <2>3. /\ InOrder(wire', asked', p) /\ AllTrue(wire', p, there'[p])
        /\ \A k \in Kinds : (OnWay(k, p)' <=> k = "interfaces") /\ ~OnWay(k, p)
        /\ \A k \in Locks : LastIsRight(wire', p, k, lock[p][k]) /\ ~Carried(wire', p, k)
    BY <1>1, <2>2, <2>a, Announced
  <2>4. /\ OnWay("interfaces", p)' /\ ~OnWay("added", p)' /\ ~OnWay("removed", p)'
        /\ ~OnWay("modems", p)' /\ ~OnWay("modemProxy", p)' /\ ~OnWay("modemProps", p)'
        /\ ~OnWay("simProxy", p)' /\ ~OnWay("simProps", p)'
    BY <2>3 DEF Kinds
  <2>5. /\ ~OnWay("interfaces", p) /\ ~OnWay("added", p) /\ ~OnWay("removed", p)
        /\ ~OnWay("modems", p) /\ ~OnWay("modemProxy", p) /\ ~OnWay("modemProps", p)
        /\ ~OnWay("simProxy", p) /\ ~OnWay("simProps", p)
    BY <2>3 DEF Kinds
  <2>6. SaysSo(p)'
    BY <2>1, <2>3, <2>4 DEF SaysSo
  <2>7. Stages(p)'
    BY <1>2, <1>3, <1>5, <2>1, <2>4, <2>5 DEF Stages, Early, agentVars, ModemRight
  \* A SIM that comes finds nothing left of an earlier one.
  <2>8. "sim" \in offers /\ p \notin sims => locksOf[p] = NoLocks /\ p \notin leaked
    <3>1. CASE p \in modems
      BY <1>2, <1>3, <1>5, <3>1 DEF ModemRight, Offered
    <3>2. CASE p \notin modems
      BY <1>2, <1>3, <1>5, <2>5, <3>2
      DEF ModemRight, Stages, Early, OfonoInv, NothingLeft
    <3> QED
      BY <3>1, <3>2
  <2>9. Offered(p)'
    BY <1>2, <1>5, <2>1, <2>4, <2>8 DEF Offered, Asking, agentVars
  <2>10. ASSUME NEW k \in Locks, p \in sims, "sim" \in offers
         PROVE  locksOf[p][k] = lock[p][k]
    <3>1. "sim" \in there[p].offers
      BY <1>2, <1>3, <1>5, <2>5, <2>10 DEF ModemRight, Offered
    <3>2. ~Carried(wire, p, k)
      BY <1>2, <1>5, NotBusy
    <3> QED
      BY <1>3, <1>5, <2>5, <2>10, <3>1, <3>2 DEF ModemRight, LocksKnown
  <2>11. LocksKnown(p)'
    BY <1>2, <1>3, <1>5, <2>1, <2>3, <2>10 DEF LocksKnown, agentVars, ModemRight
  <2> QED
    BY <1>5, <2>3, <2>6, <2>7, <2>9, <2>11 DEF ModemRight
<1> QED
  BY <1>4, <1>5

LEMMA LockChangesRight ==
  ASSUME OfonoInv, NEW p \in ModemPaths, NEW l \in Locks, LockChanges(p, l),
         NEW q \in ModemPaths \ odd'
  PROVE  ModemRight(q)'
<1> DEFINE v == lock'[p][l]
           m == [type |-> "lock", path |-> p, lock |-> l, value |-> v]
<1>1. /\ q \notin odd /\ UNCHANGED <<there, odd, agentVars>>
      /\ wire' = IF "sim" \in there[p].offers THEN Append(wire, m) ELSE wire
      /\ lock' = [lock EXCEPT ![p][l] = IF @ = None THEN Some ELSE None]
  BY DEF LockChanges, OfonoInv, OfonoTypeOK
<1>2. /\ v \in {None, Some} /\ (\A r \in ModemPaths \ {p} : lock'[r] = lock[r])
      /\ \A k \in Locks \ {l} : lock'[p][k] = lock[p][k]
  BY <1>1 DEF OfonoInv, OfonoTypeOK, LockStates
<1>3. ModemRight(q)
  BY <1>1 DEF OfonoInv
<1>4. m \in Messages /\ m.type = "lock" /\ m.path = p /\ m.lock = l /\ m.value = v
  BY <1>2 DEF Messages
<1>5. wire \in Seq(Talk) /\ asked \in Seq(Talk) /\ m \in Talk
  BY <1>4, Queued DEF Talk
<1>v. v = lock'[p][l]
  OBVIOUS
<1> HIDE DEF m, v
<1>6. CASE "sim" \in there[p].offers
  <2>1. wire' = Append(wire, m) /\ asked' = asked
    BY <1>1, <1>6 DEF agentVars
  <2>2. Kind(m, q) = "other"
    BY <1>4 DEF Kind
  <2>3. InOrder(wire', asked', q)
    <3>1. \A k : Follows(k, "other") /\ Follows("other", k)
      BY DEF Follows
    <3> QED
      BY <1>3, <1>5, <2>1, <2>2, <3>1, OrderSays DEF ModemRight
  <2>4. ASSUME NEW k \in Kinds
        PROVE  OnWay(k, q)' <=> OnWay(k, q)
    BY <1>5, <2>1, <2>2, HasComes DEF Kinds, OnWay
  <2>5. /\ OnWay("added", q)' <=> OnWay("added", q)
        /\ OnWay("removed", q)' <=> OnWay("removed", q)
        /\ OnWay("interfaces", q)' <=> OnWay("interfaces", q)
        /\ OnWay("modems", q)' <=> OnWay("modems", q)
        /\ OnWay("modemProxy", q)' <=> OnWay("modemProxy", q)
        /\ OnWay("modemProps", q)' <=> OnWay("modemProps", q)
        /\ OnWay("simProxy", q)' <=> OnWay("simProxy", q)
        /\ OnWay("simProps", q)' <=> OnWay("simProps", q)
    BY <2>4 DEF Kinds
  <2>6. AllTrue(wire', q, there[q])
    <3>1. IsTrue(m, q, there[q])
      BY <1>4, <1>6, <2>2 DEF IsTrue
    <3> QED
      BY <1>3, <1>5, <2>1, <3>1, TrueComes DEF ModemRight, SaysSo
  <2>7. SaysSo(q)'
    BY <1>1, <1>3, <2>5, <2>6 DEF SaysSo, ModemRight
  <2>8. Stages(q)'
    BY <1>1, <1>3, <2>5 DEF Stages, Early, agentVars, ModemRight
  <2>9. Offered(q)'
    BY <1>1, <1>3, <2>5 DEF Offered, Asking, agentVars, ModemRight
  <2>10. ASSUME NEW k \in Locks
         PROVE  /\ LastIsRight(wire', q, k, lock'[q][k])
                /\ Carried(wire', q, k) \/ (lock'[q][k] = lock[q][k] /\ ~Carried(wire, q, k))
    <3>1. CASE q = p /\ k = l
      <4>1. Carries(m, q, k) /\ Said(m, k) = lock'[q][k]
        BY <1>4, <1>v, <3>1 DEF Carries, Said
      <4> QED
        BY <1>5, <2>1, <4>1, LastComes, CarriedComes
    <3>2. CASE ~(q = p /\ k = l)
      <4>1. ~Carries(m, q, k) /\ lock'[q][k] = lock[q][k]
        BY <1>2, <1>4, <3>2 DEF Carries
      <4>2. LastIsRight(wire, q, k, lock[q][k])
        BY <1>3 DEF ModemRight, LocksKnown
      <4> QED
        BY <1>5, <2>1, <4>1, <4>2, LastComes, CarriedComes
    <3> QED
      BY <3>1, <3>2
  <2>11. LocksKnown(q)'
    BY <1>1, <1>3, <2>5, <2>10 DEF LocksKnown, agentVars, ModemRight
  <2> QED
    BY <2>3, <2>7, <2>8, <2>9, <2>11 DEF ModemRight
<1>7. CASE "sim" \notin there[p].offers
  <2>1. UNCHANGED <<there, odd, agentVars, wire>>
    BY <1>1, <1>7
  <2>2. ASSUME NEW k \in Locks
        PROVE  LastIsRight(wire, q, k, lock'[q][k]) /\ ("sim" \in there[q].offers => lock'[q][k] = lock[q][k])
    <3>1. CASE q # p
      BY <1>2, <1>3, <3>1 DEF ModemRight, LocksKnown
    <3>2. CASE q = p
      <4>1. ~Has("simProps", wire, p) /\ AllTrue(wire, p, there[p])
        BY <1>3, <1>7, <3>2 DEF ModemRight, SaysSo, OnWay
      <4>2. \A i \in 1..Len(wire) : ~Carries(wire[i], p, k)
        BY <1>7, <4>1 DEF Has, Kind, AllTrue, IsTrue, Carries
      <4> QED
        BY <1>7, <3>2, <4>2 DEF LastIsRight
    <3> QED
      BY <3>1, <3>2
  <2>3. SaysSo(q)' /\ Stages(q)' /\ Offered(q)' /\ InOrder(wire', asked', q)
    BY <1>3, <2>1 DEF ModemRight, SaysSo, Stages, Early, Offered, Asking, OnWay, agentVars
  <2>4. LocksKnown(q)'
    BY <1>3, <2>1, <2>2 DEF ModemRight, LocksKnown, OnWay, agentVars
  <2> QED
    BY <2>3, <2>4 DEF ModemRight
<1> QED
  BY <1>6, <1>7

LEMMA Replied ==
  ASSUME OfonoInv, OfonoServes
  PROVE  \E m \in Messages :
           LET c == Head(asked)
           IN /\ wire' = Append(wire, m) /\ c \in Requests /\ m.type = c.type
              /\ c.type \notin {"manager", "modems"} => m.path = c.path
              /\ c.type = "modems" => \A p \in ModemPaths :
                   there[p].is <=> \E i \in 1..Len(m.paths) : m.paths[i] = p
              /\ c.type = "modemProps" => m.error = ~there[c.path].is /\ m.offers = there[c.path].offers
              /\ c.type = "simProps" => /\ m.error = ("sim" \notin there[c.path].offers)
                                       /\ m.locks = lock[c.path]
<1> DEFINE c == Head(asked)
<1>1. PICK paths \in Listings({r \in ModemPaths : there[r].is}) :
        wire' = Append(wire, OfonoReply(c, paths))
  BY DEF OfonoServes
<1>2. asked # <<>>
  BY DEF OfonoServes
<1>4. c \in Requests
  BY <1>2, HeadTailProperties DEF OfonoInv, OfonoTypeOK
<1> DEFINE m == OfonoReply(c, paths)
<1>5. /\ paths \in Seq(ModemPaths)
      /\ \A r \in ModemPaths : there[r].is <=> \E i \in 1..Len(paths) : paths[i] = r
  <2> DEFINE ps == {r \in ModemPaths : there[r].is}
             n == Cardinality(ps)
  <2>1. IsFiniteSet(ps) /\ n \in Nat
    BY OfonoAssumption, FS_Subset, FS_CardinalityType
  <2> HIDE DEF n
  <2>2. paths \in [1..n -> ps] /\ \A r \in ps : \E i \in 1..n : paths[i] = r
    BY <1>1 DEF Listings, n
  <2>3. paths \in Seq(ps) /\ Len(paths) = n
    BY <2>1, <2>2, LenProperties, ElementOfSeq
  <2>4. paths \in Seq(ModemPaths)
    BY <2>1, <2>2
  <2> QED
    BY <2>2, <2>3, <2>4
<1>t. there \in [ModemPaths -> [offers: Offers, is: BOOLEAN]] /\ lock \in [ModemPaths -> LockStates]
  BY DEF OfonoInv, OfonoTypeOK
<1>6. /\ m \in Messages /\ m.type = c.type
      /\ c.type \notin {"manager", "modems"} => m.path = c.path
      /\ c.type = "modems" => m.paths = paths
      /\ c.type = "modemProps" => m.error = ~there[c.path].is /\ m.offers = there[c.path].offers
      /\ c.type = "simProps" => m.error = ("sim" \notin there[c.path].offers) /\ m.locks = lock[c.path]
  <2> USE <1>4, <1>5, <1>t, RequestFields
  <2>1. CASE c.type = "modems"
    BY <2>1 DEF OfonoReply, Messages
  <2>2. CASE c.type = "modemProps"
    BY <2>2 DEF OfonoReply, Messages
  <2>3. CASE c.type = "simProps"
    BY <2>3 DEF OfonoReply, Messages
  <2>4. CASE c.type \in {"manager", "modemProxy", "simProxy"}
    <3>1. m = c
      BY <2>4 DEF OfonoReply
    <3> QED
      BY <2>4, <3>1 DEF Messages
  <2> QED
    BY <2>1, <2>2, <2>3, <2>4
<1> HIDE DEF m, c
<1>7. wire' = Append(wire, m)
  BY <1>1 DEF m, c
<1>8. /\ wire' = Append(wire, m) /\ c \in Requests /\ m.type = c.type
      /\ c.type \notin {"manager", "modems"} => m.path = c.path
      /\ c.type = "modems" => \A p \in ModemPaths :
           there[p].is <=> \E i \in 1..Len(m.paths) : m.paths[i] = p
      /\ c.type = "modemProps" => m.error = ~there[c.path].is /\ m.offers = there[c.path].offers
      /\ c.type = "simProps" => /\ m.error = ("sim" \notin there[c.path].offers)
                               /\ m.locks = lock[c.path]
  BY <1>4, <1>5, <1>6, <1>7
<1> QED
  BY <1>6, <1>8 DEF c

LEMMA ServesRight ==
  ASSUME OfonoInv, OfonoServes, NEW p \in ModemPaths \ odd'
  PROVE  ModemRight(p)'
<1> DEFINE c == Head(asked)
<1>2. /\ asked # <<>> /\ asked' = Tail(asked) /\ p \notin odd
      /\ UNCHANGED <<there, lock, changes, manager, modems, sims, counted, locksOf, leaked, table,
                     connmans, odd>>
  BY DEF OfonoServes
<1>3. wire \in Seq(Talk) /\ asked \in Seq(Talk)
  BY Queued
<1>4. PICK m \in Messages :
        /\ wire' = Append(wire, m) /\ c \in Requests /\ m.type = c.type
        /\ c.type \notin {"manager", "modems"} => m.path = c.path
        /\ c.type = "modems" => \A r \in ModemPaths :
             there[r].is <=> \E i \in 1..Len(m.paths) : m.paths[i] = r
        /\ c.type = "modemProps" => m.error = ~there[c.path].is /\ m.offers = there[c.path].offers
        /\ c.type = "simProps" => /\ m.error = ("sim" \notin there[c.path].offers)
                                 /\ m.locks = lock[c.path]
  BY Replied
<1> HIDE DEF c
<1>w. wire' = Append(wire, m)
  BY <1>4
<1>h. c = Head(asked)
  BY DEF c
<1>7. m \in Talk /\ Kind(m, p) = Kind(c, p)
  BY <1>4, RequestFields DEF Talk, Kind
<1>8. ModemRight(p)
  BY <1>2 DEF OfonoInv
<1>10. InOrder(wire', asked', p)
  BY <1>2, <1>3, <1>7, <1>8, <1>w, <1>h, OrderServes DEF ModemRight
<1>11. ASSUME NEW k \in Kinds
       PROVE  Has(k, wire', p) \/ Has(k, asked', p) <=> Has(k, wire, p) \/ Has(k, asked, p)
  BY <1>2, <1>3, <1>7, <1>w, <1>h, HasComes, HasGoes
<1>12. Has(Kind(c, p), asked, p)
  BY <1>2, <1>3, <1>h, HasGoes
<1>13. IsTrue(m, p, there[p])
  <2>1. m.type = "modems" => (there[p].is <=> \E i \in 1..Len(m.paths) : m.paths[i] = p)
    BY <1>4
  <2>2. Kind(m, p) = "modemProps" => ~m.error /\ m.offers = there[p].offers
    <3>1. SUFFICES ASSUME Kind(m, p) = "modemProps"
                   PROVE  ~m.error /\ m.offers = there[p].offers
      OBVIOUS
    <3>2. OnWay("modemProps", p) /\ m.type = "modemProps" /\ m.path = p
      BY <1>4, <1>7, <1>12, <3>1 DEF OnWay, Kind
    <3> QED
      BY <1>4, <1>8, <3>2 DEF ModemRight, SaysSo
  <2>3. Kind(m, p) = "simProps" => ~m.error
    <3>1. SUFFICES ASSUME Kind(m, p) = "simProps"
                   PROVE  ~m.error
      OBVIOUS
    <3>2. OnWay("simProps", p) /\ m.type = "simProps" /\ m.path = p
      BY <1>4, <1>7, <1>12, <3>1 DEF OnWay, Kind
    <3> QED
      BY <1>4, <1>8, <3>2 DEF ModemRight, SaysSo
  <2>4. m.type # "lock" /\ Kind(m, p) # "interfaces"
    BY <1>4, RequestFields DEF Kind
  <2> QED
    BY <2>1, <2>2, <2>3, <2>4 DEF IsTrue
<1>14. AllTrue(wire', p, there[p])
  BY <1>3, <1>7, <1>8, <1>w, <1>13, TrueComes DEF ModemRight, SaysSo
<1>15. ASSUME NEW k \in Locks
       PROVE  LastIsRight(wire', p, k, lock[p][k]) /\ (Carried(wire, p, k) => Carried(wire', p, k))
  <2>1. Carries(m, p, k) => Said(m, k) = lock[p][k]
    BY <1>4, RequestFields DEF Carries, Said
  <2>2. LastIsRight(wire, p, k, lock[p][k])
    BY <1>8 DEF ModemRight, LocksKnown
  <2> QED
    BY <1>3, <1>7, <1>w, <2>1, <2>2, LastComes, CarriedComes
<1>16. Still(p)
  BY <1>2 DEF Still
<1> QED
  BY <1>8, <1>10, <1>11, <1>14, <1>15, <1>16, StaysRight

-----------------------------------------------------------------------------
(***************************************************************************)
(* The agent gets a message.                                               *)
(***************************************************************************)
\* What is under way besides the first message.
Rest(k, p) == Has(k, Tail(wire), p) \/ Has(k, asked, p)

LEMMA FirstMessage ==
  ASSUME OfonoInv, AgentReceives
  PROVE  /\ wire # <<>> /\ wire' = Tail(wire) /\ Head(wire) \in Messages /\ Head(wire) = wire[1]
         /\ wire \in Seq(Talk) /\ asked \in Seq(Talk) /\ wire' \in Seq(Talk)
         /\ wire' \in Seq(Messages) /\ 1 \in 1..Len(wire)
         /\ UNCHANGED <<there, lock, changes, odd>>
         /\ Head(wire).type # "manager" => manager' = manager
<1>1. /\ wire # <<>> /\ wire' = Tail(wire) /\ UNCHANGED <<there, lock, changes, odd>>
      /\ manager' = (manager \/ Head(wire).type = "manager") /\ manager \in BOOLEAN
  BY DEF AgentReceives, OfonoInv, OfonoTypeOK
<1>2. wire \in Seq(Talk) /\ asked \in Seq(Talk)
  BY Queued
<1>3. Head(wire) \in Messages /\ Tail(wire) \in Seq(Messages)
  BY <1>1, HeadTailProperties DEF OfonoInv
<1>4. Tail(wire) \in Seq(Talk) /\ Head(wire) = wire[1] /\ 1 \in 1..Len(wire)
  BY <1>1, <1>2, TalkGoes
<1> QED
  BY <1>1, <1>2, <1>3, <1>4

LEMMA Received ==
  ASSUME OfonoInv, AgentReceives, NEW p \in ModemPaths \ odd'
  PROVE  LET m == Head(wire)
         IN /\ p \notin odd /\ ModemRight(p) /\ InOrder(wire', asked, p)
            /\ \A k : OnWay(k, p) <=> Rest(k, p) \/ Kind(m, p) = k
            /\ \A k : Rest(k, p) => Follows(Kind(m, p), k)
            /\ IsTrue(m, p, there[p]) /\ AllTrue(wire', p, there[p])
            /\ \A k \in Locks : LastIsRight(wire', p, k, lock[p][k])
            /\ \A k \in Locks : Carried(wire, p, k) =>
                 Carried(wire', p, k) \/ (Carries(m, p, k) /\ Said(m, k) = lock[p][k])
<1>1. /\ wire # <<>> /\ wire' = Tail(wire) /\ wire \in Seq(Talk) /\ asked \in Seq(Talk)
      /\ UNCHANGED odd
  BY FirstMessage
<1>2. p \notin odd /\ ModemRight(p)
  BY <1>1 DEF OfonoInv
<1>3. /\ InOrder(wire, asked, p) /\ AllTrue(wire, p, there[p])
      /\ \A k \in Locks : LastIsRight(wire, p, k, lock[p][k])
  BY <1>2 DEF ModemRight, SaysSo, LocksKnown
<1>4. InOrder(wire', asked, p) /\ \A k : Rest(k, p) => Follows(Kind(Head(wire), p), k)
  BY <1>1, <1>3, OrderGoes DEF Rest
<1>5. ASSUME NEW k
      PROVE  OnWay(k, p) <=> Rest(k, p) \/ Kind(Head(wire), p) = k
  BY <1>1, HasGoes DEF Rest, OnWay
<1>6. IsTrue(Head(wire), p, there[p]) /\ AllTrue(wire', p, there[p])
  BY <1>1, <1>3, TrueGoes
<1>7. ASSUME NEW k \in Locks
      PROVE  /\ LastIsRight(wire', p, k, lock[p][k])
             /\ Carried(wire, p, k) =>
                  \/ Carried(wire', p, k)
                  \/ Carries(Head(wire), p, k) /\ Said(Head(wire), k) = lock[p][k]
  BY <1>1, <1>3, LastGoes
<1> QED
  BY <1>2, <1>4, <1>5, <1>6, <1>7

\* The agent asks for nothing, or for one thing.
LEMMA AsksNothing ==
  ASSUME OfonoInv, AgentReceives, NEW p \in ModemPaths \ odd', asked' = asked
  PROVE  InOrder(wire', asked', p) /\ \A k : OnWay(k, p)' <=> Rest(k, p)
<1>1. wire' = Tail(wire)
  BY FirstMessage
<1>2. InOrder(wire', asked', p)
  BY Received
<1>3. ASSUME NEW k
      PROVE  OnWay(k, p)' <=> Rest(k, p)
  BY <1>1 DEF OnWay, Rest
<1> QED
  BY <1>2, <1>3

LEMMA AsksOnce ==
  ASSUME OfonoInv, AgentReceives, NEW p \in ModemPaths \ odd', NEW c \in Requests,
         asked' = Append(asked, c), \A k : Rest(k, p) => Follows(k, Kind(c, p))
  PROVE  InOrder(wire', asked', p) /\ \A k : OnWay(k, p)' <=> Rest(k, p) \/ Kind(c, p) = k
<1>1. wire' = Tail(wire) /\ wire' \in Seq(Talk) /\ asked \in Seq(Talk) /\ c \in Talk
  BY FirstMessage DEF Talk
<1>2. InOrder(wire', asked, p)
  BY Received
<1>3. InOrder(wire', asked', p)
  BY <1>1, <1>2, OrderAsks DEF Rest
<1>4. ASSUME NEW k
      PROVE  OnWay(k, p)' <=> Rest(k, p) \/ Kind(c, p) = k
  BY <1>1, HasComes DEF OnWay, Rest
<1> QED
  BY <1>3, <1>4

\* A message about another modem.
LEMMA OtherReceived ==
  ASSUME OfonoInv, AgentReceives, NEW p \in ModemPaths \ odd', Still(p),
         Kind(Head(wire), p) = "other", \A k \in Locks : ~Carries(Head(wire), p, k),
         \/ asked' = asked
         \/ \E c \in Requests : asked' = Append(asked, c) /\ Kind(c, p) = "other"
  PROVE  ModemRight(p)'
<1>1. /\ ModemRight(p) /\ AllTrue(wire', p, there[p])
      /\ \A k : OnWay(k, p) <=> Rest(k, p) \/ k = "other"
      /\ \A k \in Locks : LastIsRight(wire', p, k, lock[p][k])
      /\ \A k \in Locks : Carried(wire, p, k) => Carried(wire', p, k)
  BY Received
<1>2. \A k : Follows(k, "other")
  BY DEF Follows
<1>3. InOrder(wire', asked', p) /\ \A k \in Kinds : OnWay(k, p)' <=> Rest(k, p)
  <2>1. CASE asked' = asked
    BY <2>1, AsksNothing
  <2>2. CASE \E c \in Requests : asked' = Append(asked, c) /\ Kind(c, p) = "other"
    <3>1. PICK c \in Requests : asked' = Append(asked, c) /\ Kind(c, p) = "other"
      BY <2>2
    <3>2. InOrder(wire', asked', p) /\ \A k : OnWay(k, p)' <=> Rest(k, p) \/ k = "other"
      BY <1>2, <3>1, AsksOnce
    <3> QED
      BY <3>2 DEF Kinds
  <2> QED
    BY <2>1, <2>2
<1>4. ASSUME NEW k \in Kinds
      PROVE  Has(k, wire', p) \/ Has(k, asked', p) <=> Has(k, wire, p) \/ Has(k, asked, p)
  <2>1. OnWay(k, p) <=> Rest(k, p)
    BY <1>1 DEF Kinds
  <2>2. OnWay(k, p)' <=> Rest(k, p)
    BY <1>3
  <2>3. OnWay(k, p)' <=> OnWay(k, p)
    BY <2>1, <2>2
  <2> QED
    BY <2>3 DEF OnWay
<1> QED
  BY <1>1, <1>3, <1>4, StaysRight

LEMMA AddedRight ==
  ASSUME OfonoInv, AgentReceives, NEW p \in ModemPaths \ odd', Head(wire).type = "added"
  PROVE  ModemRight(p)'
<1> DEFINE m == Head(wire)
           c == Proxy("modemProxy", m.path)
<1>1. m \in Messages /\ m.path \in ModemPaths /\ UNCHANGED <<there, lock, manager>>
  BY FirstMessage, MessageFields
<1>2. /\ asked' = IF manager THEN Append(asked, c) ELSE asked
      /\ UNCHANGED <<modems, sims, counted, locksOf, leaked, table, connmans>>
  BY ModemAdded DEF Becomes8
<1>3. c \in Requests /\ c.type = "modemProxy" /\ c.path = m.path
  BY <1>1 DEF Requests, Proxy
<1>4. m.type = "added"
  OBVIOUS
<1> HIDE DEF m, c
<1>5. CASE p # m.path
  <2>1. /\ Kind(m, p) = "other" /\ Kind(c, p) = "other" /\ \A k \in Locks : ~Carries(m, p, k)
    BY <1>3, <1>4, <1>5 DEF Kind, Carries
  <2>2. Still(p)
    BY <1>1, <1>2 DEF Still
  <2> QED
    BY <1>2, <1>3, <2>1, <2>2, OtherReceived DEF m
<1>6. CASE p = m.path
  <2>1. Kind(m, p) = "added" /\ Kind(c, p) = "modemProxy"
    BY <1>3, <1>4, <1>6 DEF Kind
  <2>2. /\ ModemRight(p) /\ AllTrue(wire', p, there[p])
        /\ \A k : OnWay(k, p) <=> Rest(k, p) \/ k = "added"
        /\ \A k : Rest(k, p) => Follows("added", k)
        /\ \A k \in Locks : LastIsRight(wire', p, k, lock[p][k])
    BY <2>1, Received DEF m
  <2>3. \A k : Rest(k, p) => k \in {"modems", "other"}
    BY <2>2 DEF Follows
  <2>4. /\ OnWay("added", p) /\ ~OnWay("removed", p) /\ ~OnWay("interfaces", p)
        /\ (OnWay("modems", p) <=> Rest("modems", p)) /\ ~OnWay("modemProxy", p)
        /\ ~OnWay("modemProps", p) /\ ~OnWay("simProxy", p) /\ ~OnWay("simProps", p)
    BY <2>2, <2>3
  <2>5. p \notin modems /\ p \notin sims /\ p \notin leaked /\ there[p].is
    BY <2>2, <2>4 DEF ModemRight, Stages, Early, SaysSo
  <2>6. CASE manager
    <3>1. \A k : Rest(k, p) => Follows(k, Kind(c, p))
      BY <2>1, <2>3 DEF Follows
    <3>2. InOrder(wire', asked', p) /\ \A k : OnWay(k, p)' <=> Rest(k, p) \/ k = "modemProxy"
      BY <1>2, <1>3, <2>1, <2>6, <3>1, AsksOnce
    <3>3. /\ ~OnWay("added", p)' /\ ~OnWay("removed", p)' /\ ~OnWay("interfaces", p)'
          /\ (OnWay("modems", p)' <=> Rest("modems", p)) /\ OnWay("modemProxy", p)'
          /\ ~OnWay("modemProps", p)' /\ ~OnWay("simProxy", p)' /\ ~OnWay("simProps", p)'
      BY <2>3, <3>2
    <3>4. SaysSo(p)'
      BY <1>1, <2>2, <2>5, <3>3 DEF SaysSo
    <3>5. Stages(p)'
      BY <1>1, <1>2, <2>5, <3>3 DEF Stages, Early
    <3>6. Offered(p)'
      BY <1>1, <1>2, <2>2, <2>5, <3>3 DEF Offered, Asking, ModemRight
    <3>7. LocksKnown(p)'
      BY <1>1, <1>2, <2>2, <2>5 DEF LocksKnown, ModemRight
    <3> QED
      BY <3>2, <3>4, <3>5, <3>6, <3>7 DEF ModemRight
  <2>7. CASE ~manager
    <3>2. InOrder(wire', asked', p) /\ \A k : OnWay(k, p)' <=> Rest(k, p)
      BY <1>2, <2>7, AsksNothing
    <3>3. /\ ~OnWay("added", p)' /\ ~OnWay("removed", p)' /\ ~OnWay("interfaces", p)'
          /\ (OnWay("modems", p)' <=> Rest("modems", p)) /\ ~OnWay("modemProxy", p)'
          /\ ~OnWay("modemProps", p)' /\ ~OnWay("simProxy", p)' /\ ~OnWay("simProps", p)'
      BY <2>3, <3>2
    <3>4. SaysSo(p)'
      BY <1>1, <2>2, <2>5, <3>3 DEF SaysSo
    <3>5. Stages(p)'
      BY <1>1, <1>2, <2>5, <2>7, <3>3 DEF Stages, Early
    <3>6. Offered(p)'
      BY <1>1, <1>2, <2>2, <2>5, <3>3 DEF Offered, Asking, ModemRight
    <3>7. LocksKnown(p)'
      BY <1>1, <1>2, <2>2, <2>5 DEF LocksKnown, ModemRight
    <3> QED
      BY <3>2, <3>4, <3>5, <3>6, <3>7 DEF ModemRight
  <2> QED
    BY <1>1, <2>6, <2>7 DEF OfonoInv, OfonoTypeOK
<1> QED
  BY <1>5, <1>6

LEMMA RemovedRight ==
  ASSUME OfonoInv, AgentReceives, NEW p \in ModemPaths \ odd', Head(wire).type = "removed"
  PROVE  ModemRight(p)'
<1> DEFINE m == Head(wire)
<1>1. m \in Messages /\ m.path \in ModemPaths /\ UNCHANGED <<there, lock, manager>>
  BY FirstMessage, MessageFields
<1>2. /\ asked' = asked /\ leaked' = leaked /\ m.type = "removed"
      /\ modems' \subseteq ModemPaths
      /\ \A q \in ModemPaths \ {m.path} : /\ q \in modems' <=> q \in modems
                                          /\ q \in sims' <=> q \in sims
                                          /\ q \in counted' <=> q \in counted
                                          /\ locksOf'[q] = locksOf[q]
                                          /\ \A k \in Locks : table'[k][q] = table[k][q]
      /\ manager => m.path \notin modems' /\ m.path \notin sims'
      /\ ~manager \/ m.path \notin modems => sims' = sims /\ modems' = modems
      /\ \A k \in Locks : table'[k][m.path] = table[k][m.path] \/ table'[k][m.path] = None
      /\ m.path \in sims /\ m.path \notin sims' => \A k \in Locks : table'[k][m.path] = None
  <2>t. /\ sims \subseteq modems /\ counted \subseteq modems /\ modems \subseteq ModemPaths
        /\ locksOf \in [ModemPaths -> LockStates] /\ table \in [Locks -> [ModemPaths -> {None, Some}]]
    BY DEF OfonoInv, OfonoTypeOK
  <2>1. CASE /\ ~manager \/ m.path \notin modems
             /\ Becomes8(asked, modems, sims, counted, locksOf, leaked, table, connmans)
    BY <1>1, <2>t, <2>1 DEF Becomes8
  <2>2. CASE /\ manager /\ m.path \in modems /\ m.path \notin sims
             /\ Becomes8(asked, modems \ {m.path}, sims \ {m.path}, counted \ {m.path},
                         [locksOf EXCEPT ![m.path] = NoLocks], leaked, table, connmans)
    BY <1>1, <2>t, <2>2 DEF Becomes8
  <2>3. CASE /\ manager /\ m.path \in modems /\ m.path \in sims
             /\ Becomes8(asked, modems \ {m.path}, (sims \ {m.path}) \ {m.path},
                        (counted \ {m.path}) \ {m.path},
                        [locksOf EXCEPT ![m.path] = NoLocks], leaked,
                        [k \in Locks |-> [table[k] EXCEPT ![m.path] = None]],
                        IF m.path \in counted THEN connmans - 1 ELSE connmans)
    BY <1>1, <2>t, <2>3 DEF Becomes8
  <2> QED
    BY <2>1, <2>2, <2>3, ModemRemoved
<1> HIDE DEF m
<1>5. CASE p # m.path
  <2>1. Kind(m, p) = "other" /\ \A k \in Locks : ~Carries(m, p, k)
    BY <1>2, <1>5 DEF Kind, Carries
  <2>2. Still(p)
    BY <1>1, <1>2, <1>5 DEF Still
  <2> QED
    BY <1>2, <2>1, <2>2, OtherReceived DEF m
<1>6. CASE p = m.path
  <2>1. Kind(m, p) = "removed"
    BY <1>2, <1>6 DEF Kind
  <2>2. /\ ModemRight(p) /\ AllTrue(wire', p, there[p])
        /\ \A k : OnWay(k, p) <=> Rest(k, p) \/ k = "removed"
        /\ \A k : Rest(k, p) => Follows("removed", k)
        /\ \A k \in Locks : LastIsRight(wire', p, k, lock[p][k])
    BY <2>1, Received DEF m
  <2>3. \A k : Rest(k, p) => k \in {"modems", "other"}
    BY <2>2 DEF Follows
  <2>4. /\ ~OnWay("added", p) /\ OnWay("removed", p) /\ ~OnWay("interfaces", p)
        /\ (OnWay("modems", p) <=> Rest("modems", p)) /\ ~OnWay("modemProxy", p)
        /\ ~OnWay("modemProps", p) /\ ~OnWay("simProxy", p) /\ ~OnWay("simProps", p)
    BY <2>2, <2>3
  <2>5. ~there[p].is /\ there[p].offers = {}
    BY <2>2, <2>4 DEF ModemRight, SaysSo, OfonoInv, NothingLeft
  <2>6. p \notin modems' /\ p \notin sims' /\ leaked' = leaked
    BY <1>1, <1>2, <1>6, <2>2 DEF ModemRight, Stages, Early, OfonoInv, OfonoTypeOK
  <2>7. InOrder(wire', asked', p) /\ \A k : OnWay(k, p)' <=> Rest(k, p)
    BY <1>2, AsksNothing
  <2>8. /\ ~OnWay("added", p)' /\ ~OnWay("removed", p)' /\ ~OnWay("interfaces", p)'
        /\ (OnWay("modems", p)' <=> Rest("modems", p)) /\ ~OnWay("modemProxy", p)'
        /\ ~OnWay("modemProps", p)' /\ ~OnWay("simProxy", p)' /\ ~OnWay("simProps", p)'
    BY <2>3, <2>7
  <2>9. SaysSo(p)'
    BY <1>1, <2>2, <2>5, <2>8 DEF SaysSo
  <2>10. Stages(p)'
    BY <1>1, <2>2, <2>4, <2>5, <2>6, <2>8 DEF ModemRight, Stages, Early
  <2>11. Offered(p)'
    BY <1>1, <2>5 DEF Offered
  <2>12. ASSUME NEW k \in Locks
         PROVE  table'[k][p] = None
    BY <1>2, <1>6, <2>2, <2>6 DEF ModemRight, LocksKnown
  <2>13. LocksKnown(p)'
    BY <1>1, <2>2, <2>6, <2>12 DEF LocksKnown
  <2> QED
    BY <2>7, <2>9, <2>10, <2>11, <2>13 DEF ModemRight
<1> QED
  BY <1>5, <1>6

LEMMA ModemProxyRight ==
  ASSUME OfonoInv, AgentReceives, NEW p \in ModemPaths \ odd', Head(wire).type = "modemProxy"
  PROVE  ModemRight(p)'
<1> DEFINE m == Head(wire)
           c == Proxy("modemProps", m.path)
<1>1. m \in Messages /\ m.path \in ModemPaths /\ UNCHANGED <<there, lock, manager>>
  BY FirstMessage, MessageFields
<1>2. /\ asked' = Append(asked, c) /\ modems' = (modems \ {m.path}) \cup {m.path}
      /\ sims' = sims \ {m.path} /\ counted' = counted \ {m.path}
      /\ locksOf' = [locksOf EXCEPT ![m.path] = NoLocks]
      /\ UNCHANGED <<leaked, table, connmans>>
  BY ModemProxyMade DEF Becomes8
<1>3. c \in Requests /\ c.type = "modemProps" /\ c.path = m.path
  BY <1>1 DEF Requests, Proxy
<1>4. m.type = "modemProxy"
  OBVIOUS
<1>m. manager
  BY <1>4, FirstMessage DEF OfonoInv, Beginning, OfonoTypeOK
<1> HIDE DEF m, c
<1>5. CASE p # m.path
  <2>1. Kind(m, p) = "other" /\ Kind(c, p) = "other" /\ \A k \in Locks : ~Carries(m, p, k)
    BY <1>3, <1>4, <1>5 DEF Kind, Carries
  <2>2. Still(p)
    BY <1>1, <1>2, <1>5 DEF Still, OfonoInv, OfonoTypeOK
  <2> QED
    BY <1>2, <1>3, <2>1, <2>2, OtherReceived DEF m
<1>6. CASE p = m.path
  <2>1. Kind(m, p) = "modemProxy" /\ Kind(c, p) = "modemProps"
    BY <1>3, <1>4, <1>6 DEF Kind
  <2>2. /\ ModemRight(p) /\ AllTrue(wire', p, there[p])
        /\ \A k : OnWay(k, p) <=> Rest(k, p) \/ k = "modemProxy"
        /\ \A k : Rest(k, p) => Follows("modemProxy", k)
        /\ \A k \in Locks : LastIsRight(wire', p, k, lock[p][k])
    BY <2>1, Received DEF m
  <2>3. \A k : Rest(k, p) => k \in {"modemProxy", "modemProps", "other"}
    BY <2>2 DEF Follows
  <2>4. /\ ~OnWay("added", p) /\ ~OnWay("removed", p) /\ ~OnWay("interfaces", p)
        /\ ~OnWay("modems", p) /\ OnWay("modemProxy", p)
        /\ (OnWay("modemProps", p) <=> Rest("modemProps", p)) /\ ~OnWay("simProxy", p)
        /\ ~OnWay("simProps", p)
    BY <2>2, <2>3
  <2>5. /\ p \notin sims /\ p \notin leaked /\ there[p].is
        /\ p \in modems' /\ p \notin sims' /\ p \notin leaked' /\ locksOf'[p] = NoLocks
    BY <1>1, <1>2, <1>6, <2>2, <2>4 DEF ModemRight, Stages, SaysSo, OfonoInv, OfonoTypeOK
  <2>6. \A k : Rest(k, p) => Follows(k, Kind(c, p))
    BY <2>1, <2>3 DEF Follows
  <2>7. InOrder(wire', asked', p) /\ \A k : OnWay(k, p)' <=> Rest(k, p) \/ k = "modemProps"
    BY <1>2, <1>3, <2>1, <2>6, AsksOnce
  <2>8. /\ ~OnWay("added", p)' /\ ~OnWay("removed", p)' /\ ~OnWay("interfaces", p)'
        /\ ~OnWay("modems", p)' /\ (OnWay("modemProxy", p)' <=> Rest("modemProxy", p))
        /\ OnWay("modemProps", p)' /\ ~OnWay("simProxy", p)' /\ ~OnWay("simProps", p)'
    BY <2>3, <2>7
  <2>9. SaysSo(p)'
    BY <1>1, <2>2, <2>5, <2>8 DEF SaysSo
  <2>10. Stages(p)'
    BY <1>1, <1>m, <2>5, <2>8 DEF Stages, Early
  <2>11. Offered(p)'
    BY <2>5, <2>8 DEF Offered, Asking
  <2>12. LocksKnown(p)'
    BY <1>1, <1>2, <2>2, <2>5 DEF LocksKnown, ModemRight
  <2> QED
    BY <2>7, <2>9, <2>10, <2>11, <2>12 DEF ModemRight
<1> QED
  BY <1>5, <1>6

LEMMA OffersTaken ==
  ASSUME OfonoInv, AgentReceives, NEW m, m = Head(wire), m.type \in {"interfaces", "modemProps"}
  PROVE  \/ ~(m.path \in modems /\ (m.type = "modemProps" => ~m.error))
            /\ Becomes8(asked, modems, sims, counted, locksOf, leaked, table, connmans)
         \/ /\ m.path \in modems /\ (m.type = "modemProps" => ~m.error)
            /\ asked' = IF "sim" \in m.offers /\ m.path \notin sims
                        THEN Append(asked, Proxy("simProxy", m.path)) ELSE asked
            /\ modems' = modems /\ locksOf' = locksOf /\ leaked' = leaked
            /\ sims' = IF "sim" \in m.offers THEN sims ELSE sims \ {m.path}
            /\ table' = IF "sim" \notin m.offers /\ m.path \in sims
                        THEN [k \in Locks |-> [table[k] EXCEPT ![m.path] = None]] ELSE table
            /\ counted' = IF "cm" \in m.offers THEN counted \cup {m.path} ELSE counted \ {m.path}
            /\ connmans' = CASE m.path \in counted /\ "cm" \notin m.offers -> connmans - 1
                             [] m.path \notin counted /\ "cm" \in m.offers -> connmans + 1
                             [] OTHER -> connmans
<1>1. connmans \in Nat /\ IsFiniteSet(counted) /\ connmans >= Cardinality(counted)
  BY DEF OfonoInv, OfonoTypeOK, CountNeverWraps
<1>2. m.path \in counted => Cardinality(counted) # 0
  BY <1>1, FS_EmptySet
<1>3. connmans > 0 \/ m.path \notin counted
  BY <1>1, <1>2, FS_CardinalityType
<1> QED
  BY <1>1, <1>3, InterfacesSet

\* What a modem offers is about no other modem.
LEMMA OffersElsewhere ==
  ASSUME OfonoInv, AgentReceives, NEW p \in ModemPaths \ odd',
         Head(wire).type \in {"interfaces", "modemProps"}, p # Head(wire).path
  PROVE  ModemRight(p)'
<1> DEFINE m == Head(wire)
           c == Proxy("simProxy", m.path)
<1>1. m \in Messages /\ m.path \in ModemPaths /\ UNCHANGED <<there, lock, manager>>
  BY FirstMessage, MessageFields
<1>2. /\ asked' = asked \/ asked' = Append(asked, c)
      /\ p \in modems' <=> p \in modems
      /\ p \in sims' <=> p \in sims
      /\ p \in counted' <=> p \in counted
      /\ locksOf' = locksOf /\ leaked' = leaked
      /\ \A k \in Locks : table'[k][p] = table[k][p]
  <2>1. table \in [Locks -> [ModemPaths -> {None, Some}]]
    BY DEF OfonoInv, OfonoTypeOK
  <2> QED
    BY <1>1, <2>1, OffersTaken DEF Becomes8
<1>3. c \in Requests /\ c.type = "simProxy" /\ c.path = m.path
  BY <1>1 DEF Requests, Proxy
<1>4. m.type \in {"interfaces", "modemProps"} /\ p # m.path
  OBVIOUS
<1> HIDE DEF m, c
<1>5. /\ Kind(m, p) = "other" /\ Kind(c, p) = "other" /\ \A k \in Locks : ~Carries(m, p, k)
  BY <1>3, <1>4 DEF Kind, Carries
<1>6. Still(p)
  BY <1>1, <1>2 DEF Still
<1> QED
  BY <1>2, <1>3, <1>5, <1>6, OtherReceived DEF m

LEMMA ModemPropsRight ==
  ASSUME OfonoInv, AgentReceives, NEW p \in ModemPaths \ odd', Head(wire).type = "modemProps"
  PROVE  ModemRight(p)'
<1> DEFINE m == Head(wire)
           c == Proxy("simProxy", m.path)
<1>1. m \in Messages /\ m.path \in ModemPaths /\ UNCHANGED <<there, lock, manager>>
  BY FirstMessage, MessageFields
<1>2. m.path \in modems /\ ~m.error =>
        /\ asked' = IF "sim" \in m.offers /\ m.path \notin sims THEN Append(asked, c) ELSE asked
        /\ modems' = modems /\ locksOf' = locksOf /\ leaked' = leaked
        /\ m.path \notin sims => sims' = sims \/ sims' = sims \ {m.path}
        /\ m.path \notin sims => table' = table
        /\ counted' = IF "cm" \in m.offers THEN counted \cup {m.path} ELSE counted \ {m.path}
  BY OffersTaken DEF Becomes8
<1>3. c \in Requests /\ c.type = "simProxy" /\ c.path = m.path
  BY <1>1 DEF Requests, Proxy
<1>4. m.type = "modemProps"
  OBVIOUS
<1>m. manager
  BY <1>4, FirstMessage DEF OfonoInv, Beginning, OfonoTypeOK
<1>5. CASE p # m.path
  BY <1>5, OffersElsewhere
<1> HIDE DEF m, c
<1>6. CASE p = m.path
  <2>1. Kind(m, p) = "modemProps" /\ Kind(c, p) = "simProxy"
    BY <1>3, <1>4, <1>6 DEF Kind
  <2>2. /\ ModemRight(p) /\ AllTrue(wire', p, there[p]) /\ IsTrue(m, p, there[p])
        /\ \A k : OnWay(k, p) <=> Rest(k, p) \/ k = "modemProps"
        /\ \A k : Rest(k, p) => Follows("modemProps", k)
        /\ \A k \in Locks : LastIsRight(wire', p, k, lock[p][k])
    BY <2>1, Received DEF m
  <2>3. \A k : Rest(k, p) => k \in {"modemProps", "simProxy", "other"}
    BY <2>2 DEF Follows
  <2>4. /\ ~OnWay("added", p) /\ ~OnWay("removed", p) /\ ~OnWay("interfaces", p)
        /\ ~OnWay("modems", p) /\ ~OnWay("modemProxy", p) /\ OnWay("modemProps", p)
        /\ (OnWay("simProxy", p) <=> Rest("simProxy", p)) /\ ~OnWay("simProps", p)
    BY <2>2, <2>3
  <2>5. /\ p \in modems /\ p \notin sims /\ p \notin leaked /\ there[p].is
        /\ m.offers = there[p].offers /\ ~m.error
    BY <2>1, <2>2, <2>4 DEF ModemRight, Stages, SaysSo, IsTrue
  <2>6. /\ asked' = IF "sim" \in there[p].offers THEN Append(asked, c) ELSE asked
        /\ modems' = modems /\ locksOf' = locksOf /\ leaked' = leaked /\ table' = table
        /\ p \notin sims' /\ (p \in counted' <=> "cm" \in there[p].offers)
    BY <1>2, <1>6, <2>5
  <2>7. CASE "sim" \in there[p].offers
    <3>1. \A k : Rest(k, p) => Follows(k, Kind(c, p))
      BY <2>1, <2>3 DEF Follows
    <3>2. InOrder(wire', asked', p) /\ \A k : OnWay(k, p)' <=> Rest(k, p) \/ k = "simProxy"
      BY <1>3, <2>1, <2>6, <2>7, <3>1, AsksOnce
    <3>3. /\ ~OnWay("added", p)' /\ ~OnWay("removed", p)' /\ ~OnWay("interfaces", p)'
          /\ ~OnWay("modems", p)' /\ ~OnWay("modemProxy", p)'
          /\ (OnWay("modemProps", p)' <=> Rest("modemProps", p)) /\ OnWay("simProxy", p)'
          /\ ~OnWay("simProps", p)'
      BY <2>3, <3>2
    <3>4. SaysSo(p)'
      BY <1>1, <2>2, <2>5, <2>7, <3>3 DEF SaysSo
    <3>5. Stages(p)'
      BY <1>1, <1>m, <2>5, <2>6, <3>3 DEF Stages, Early
    <3>6. Offered(p)'
      BY <1>1, <2>2, <2>5, <2>6, <3>3 DEF Offered, Asking, ModemRight
    <3>7. LocksKnown(p)'
      BY <1>1, <2>2, <2>5, <2>6 DEF LocksKnown, ModemRight
    <3> QED
      BY <3>2, <3>4, <3>5, <3>6, <3>7 DEF ModemRight
  <2>8. CASE "sim" \notin there[p].offers
    <3>2. InOrder(wire', asked', p) /\ \A k : OnWay(k, p)' <=> Rest(k, p)
      BY <2>6, <2>8, AsksNothing
    <3>3. /\ ~OnWay("added", p)' /\ ~OnWay("removed", p)' /\ ~OnWay("interfaces", p)'
          /\ ~OnWay("modems", p)' /\ ~OnWay("modemProxy", p)'
          /\ (OnWay("modemProps", p)' <=> Rest("modemProps", p))
          /\ (OnWay("simProxy", p)' <=> Rest("simProxy", p)) /\ ~OnWay("simProps", p)'
      BY <2>3, <3>2
    <3>4. SaysSo(p)'
      BY <1>1, <2>2, <2>4, <2>5, <3>3 DEF SaysSo, ModemRight
    <3>5. Stages(p)'
      BY <1>1, <1>m, <2>5, <2>6, <3>3 DEF Stages, Early
    <3>6. Offered(p)'
      BY <1>1, <2>6, <2>8 DEF Offered
    <3>7. LocksKnown(p)'
      BY <1>1, <2>2, <2>5, <2>6 DEF LocksKnown, ModemRight
    <3> QED
      BY <3>2, <3>4, <3>5, <3>6, <3>7 DEF ModemRight
  <2> QED
    BY <2>7, <2>8
<1> QED
  BY <1>5, <1>6

LEMMA InterfacesMessageRight ==
  ASSUME OfonoInv, AgentReceives, NEW p \in ModemPaths \ odd', Head(wire).type = "interfaces"
  PROVE  ModemRight(p)'
<1> DEFINE m == Head(wire)
           c == Proxy("simProxy", m.path)
<1>1. m \in Messages /\ m.path \in ModemPaths /\ UNCHANGED <<there, lock, manager>>
  BY FirstMessage, MessageFields
<1>2. \/ /\ m.path \notin modems
         /\ UNCHANGED <<asked, modems, sims, counted, locksOf, leaked, table>>
      \/ /\ m.path \in modems
         /\ asked' = IF "sim" \in m.offers /\ m.path \notin sims THEN Append(asked, c) ELSE asked
         /\ modems' = modems /\ locksOf' = locksOf /\ leaked' = leaked
         /\ sims' = IF "sim" \in m.offers THEN sims ELSE sims \ {m.path}
         /\ table' = IF "sim" \notin m.offers /\ m.path \in sims
                     THEN [k \in Locks |-> [table[k] EXCEPT ![m.path] = None]] ELSE table
         /\ counted' = IF "cm" \in m.offers THEN counted \cup {m.path} ELSE counted \ {m.path}
  BY OffersTaken DEF Becomes8
<1>3. c \in Requests /\ c.type = "simProxy" /\ c.path = m.path
  BY <1>1 DEF Requests, Proxy
<1>4. m.type = "interfaces"
  OBVIOUS
<1>5. CASE p # m.path
  BY <1>5, OffersElsewhere
<1> HIDE DEF m, c
<1>6. CASE p = m.path
  <2>1. Kind(m, p) = "interfaces" /\ Kind(c, p) = "simProxy"
    BY <1>3, <1>4, <1>6 DEF Kind
  <2>2. /\ ModemRight(p) /\ AllTrue(wire', p, there[p]) /\ IsTrue(m, p, there[p])
        /\ \A k : OnWay(k, p) <=> Rest(k, p) \/ k = "interfaces"
        /\ \A k : Rest(k, p) => Follows("interfaces", k)
        /\ \A k \in Locks : LastIsRight(wire', p, k, lock[p][k])
        /\ \A k \in Locks : Carried(wire, p, k) =>
             Carried(wire', p, k) \/ (Carries(m, p, k) /\ Said(m, k) = lock[p][k])
    BY <2>1, Received DEF m
  <2>3. \A k : Rest(k, p) => k \in {"modems", "other"}
    BY <2>2 DEF Follows
  <2>4. /\ ~OnWay("added", p) /\ ~OnWay("removed", p) /\ OnWay("interfaces", p)
        /\ (OnWay("modems", p) <=> Rest("modems", p)) /\ ~OnWay("modemProxy", p)
        /\ ~OnWay("modemProps", p) /\ ~OnWay("simProxy", p) /\ ~OnWay("simProps", p)
    BY <2>2, <2>3
  <2>5. there[p].is /\ m.offers = there[p].offers /\ \A k \in Locks : ~Carries(m, p, k)
    BY <1>4, <2>1, <2>2, <2>4 DEF ModemRight, SaysSo, IsTrue, Carries
  <2>6. CASE p \notin modems
    <3>1. UNCHANGED <<asked, modems, sims, counted, locksOf, leaked, table>>
      BY <1>2, <1>6, <2>6
    <3>2. InOrder(wire', asked', p) /\ \A k : OnWay(k, p)' <=> Rest(k, p)
      BY <3>1, AsksNothing
    <3>3. /\ ~OnWay("added", p)' /\ ~OnWay("removed", p)' /\ ~OnWay("interfaces", p)'
          /\ (OnWay("modems", p)' <=> Rest("modems", p)) /\ ~OnWay("modemProxy", p)'
          /\ ~OnWay("modemProps", p)' /\ ~OnWay("simProxy", p)' /\ ~OnWay("simProps", p)'
      BY <2>3, <3>2
    <3>a. p \notin sims
      BY <2>6 DEF OfonoInv, OfonoTypeOK
    <3>4. SaysSo(p)'
      BY <1>1, <2>2, <2>5, <3>3 DEF SaysSo
    <3>5. Stages(p)'
      BY <1>1, <2>2, <2>4, <2>5, <2>6, <3>1, <3>3, <3>a DEF ModemRight, Stages, Early
    <3>6. Offered(p)'
      BY <1>1, <2>2, <2>6, <3>1, <3>a DEF ModemRight, Offered
    <3>7. LocksKnown(p)'
      BY <1>1, <2>2, <3>1, <3>a DEF LocksKnown, ModemRight
    <3> QED
      BY <3>2, <3>4, <3>5, <3>6, <3>7 DEF ModemRight
  <2>7. CASE p \in modems
    <3>1. /\ asked' = IF "sim" \in there[p].offers /\ p \notin sims THEN Append(asked, c) ELSE asked
          /\ modems' = modems /\ locksOf' = locksOf /\ leaked' = leaked
          /\ sims' = IF "sim" \in there[p].offers THEN sims ELSE sims \ {p}
          /\ table' = IF "sim" \notin there[p].offers /\ p \in sims
                      THEN [k \in Locks |-> [table[k] EXCEPT ![p] = None]] ELSE table
          /\ p \in counted' <=> "cm" \in there[p].offers
      BY <1>2, <1>6, <2>5, <2>7
    <3>2. manager /\ \A k : Rest(k, p) => k = "other"
      BY <2>2, <2>3, <2>4, <2>7 DEF ModemRight, Stages, Early, OfonoInv, OfonoTypeOK
    <3>3. CASE "sim" \in there[p].offers /\ p \notin sims
      <4>1. \A k : Rest(k, p) => Follows(k, Kind(c, p))
        BY <2>1, <2>3, <3>2 DEF Follows
      <4>2. asked' = Append(asked, c)
        BY <3>1, <3>3
      <4>3. InOrder(wire', asked', p) /\ \A k : OnWay(k, p)' <=> Rest(k, p) \/ k = "simProxy"
        BY <1>3, <2>1, <4>1, <4>2, AsksOnce
      <4>4. /\ ~OnWay("added", p)' /\ ~OnWay("removed", p)' /\ ~OnWay("interfaces", p)'
            /\ ~OnWay("modems", p)' /\ ~OnWay("modemProxy", p)' /\ ~OnWay("modemProps", p)'
            /\ OnWay("simProxy", p)' /\ ~OnWay("simProps", p)'
        BY <3>2, <4>3
      <4>5. SaysSo(p)'
        BY <1>1, <2>2, <2>5, <3>3, <4>4 DEF SaysSo
      <4>6. Stages(p)'
        BY <1>1, <2>5, <2>7, <3>1, <3>2, <4>4 DEF Stages, Early
      <4>7. Offered(p)'
        BY <1>1, <2>2, <2>5, <3>1, <3>3, <4>4 DEF Offered, Asking, ModemRight
      <4>8. LocksKnown(p)'
        BY <1>1, <2>2, <3>1, <3>3 DEF LocksKnown, ModemRight
      <4> QED
        BY <4>3, <4>5, <4>6, <4>7, <4>8 DEF ModemRight
    <3>4. CASE ~("sim" \in there[p].offers /\ p \notin sims)
      <4>1. asked' = asked
        BY <3>1, <3>4
      <4>2. InOrder(wire', asked', p) /\ \A k : OnWay(k, p)' <=> Rest(k, p)
        BY <4>1, AsksNothing
      <4>3. /\ ~OnWay("added", p)' /\ ~OnWay("removed", p)' /\ ~OnWay("interfaces", p)'
            /\ ~OnWay("modems", p)' /\ ~OnWay("modemProxy", p)' /\ ~OnWay("modemProps", p)'
            /\ ~OnWay("simProxy", p)' /\ ~OnWay("simProps", p)'
        BY <3>2, <4>2
      <4>4. p \in sims' <=> "sim" \in there[p].offers
        BY <3>1, <3>4
      <4>5. SaysSo(p)'
        BY <1>1, <2>2, <2>5, <4>3 DEF SaysSo
      <4>6. Stages(p)'
        BY <1>1, <2>5, <2>7, <3>1, <3>2, <4>3 DEF Stages, Early
      <4>7. Offered(p)'
        BY <1>1, <2>5, <3>1, <4>4 DEF Offered
      <4>8. ASSUME NEW k \in Locks
            PROVE  table'[k][p] = IF p \in sims' THEN locksOf[p][k] ELSE None
        <5>1. table[k][p] = IF p \in sims THEN locksOf[p][k] ELSE None
          BY <2>2 DEF ModemRight, LocksKnown
        <5>2. table \in [Locks -> [ModemPaths -> {None, Some}]]
          BY DEF OfonoInv, OfonoTypeOK
        <5>3. CASE "sim" \notin there[p].offers /\ p \in sims
          BY <3>1, <4>4, <5>2, <5>3
        <5>4. CASE ~("sim" \notin there[p].offers /\ p \in sims)
          BY <3>1, <3>4, <4>4, <5>1, <5>4
        <5> QED
          BY <5>3, <5>4
      <4>9. ASSUME NEW k \in Locks, p \in sims', "sim" \in there[p].offers
            PROVE  Carried(wire', p, k) \/ locksOf[p][k] = lock[p][k]
        BY <2>2, <2>4, <2>5, <3>2, <3>4, <4>9 DEF ModemRight, LocksKnown
      <4>10. LocksKnown(p)'
        BY <1>1, <2>2, <3>1, <4>8, <4>9 DEF LocksKnown
      <4> QED
        BY <4>2, <4>5, <4>6, <4>7, <4>10 DEF ModemRight
    <3> QED
      BY <3>3, <3>4
  <2> QED
    BY <2>6, <2>7
<1> QED
  BY <1>5, <1>6

LEMMA SimProxyRight ==
  ASSUME OfonoInv, AgentReceives, NEW p \in ModemPaths \ odd', Head(wire).type = "simProxy"
  PROVE  ModemRight(p)'
<1> DEFINE m == Head(wire)
           c == Proxy("simProps", m.path)
<1>1. m \in Messages /\ m.path \in ModemPaths /\ UNCHANGED <<there, lock, manager>>
  BY FirstMessage, MessageFields
<1>2. \/ UNCHANGED <<asked, modems, sims, counted, locksOf, leaked, table>> /\ m.path \notin modems
      \/ /\ asked' = Append(asked, c) /\ m.path \in modems
         /\ sims' = sims \cup {m.path}
         /\ leaked' = IF m.path \in sims THEN leaked \cup {m.path} ELSE leaked
         /\ UNCHANGED <<modems, counted, locksOf, table>>
  BY SimProxyIsMade DEF Becomes8
<1>3. c \in Requests /\ c.type = "simProps" /\ c.path = m.path
  BY <1>1 DEF Requests, Proxy
<1>4. m.type = "simProxy"
  OBVIOUS
<1>m. manager
  BY <1>4, FirstMessage DEF OfonoInv, Beginning, OfonoTypeOK
<1> HIDE DEF m, c
<1>5. CASE p # m.path
  <2>1. Kind(m, p) = "other" /\ Kind(c, p) = "other" /\ \A k \in Locks : ~Carries(m, p, k)
    BY <1>3, <1>4, <1>5 DEF Kind, Carries
  <2>2. Still(p)
    BY <1>1, <1>2, <1>5 DEF Still
  <2> QED
    BY <1>2, <1>3, <2>1, <2>2, OtherReceived DEF m
<1>6. CASE p = m.path
  <2>1. Kind(m, p) = "simProxy" /\ Kind(c, p) = "simProps"
    BY <1>3, <1>4, <1>6 DEF Kind
  <2>2. /\ ModemRight(p) /\ AllTrue(wire', p, there[p])
        /\ \A k : OnWay(k, p) <=> Rest(k, p) \/ k = "simProxy"
        /\ \A k : Rest(k, p) => Follows("simProxy", k)
        /\ \A k \in Locks : LastIsRight(wire', p, k, lock[p][k])
    BY <2>1, Received DEF m
  <2>3. \A k : Rest(k, p) => k \in {"simProxy", "simProps", "other"}
    BY <2>2 DEF Follows
  <2>4. /\ ~OnWay("added", p) /\ ~OnWay("removed", p) /\ ~OnWay("interfaces", p)
        /\ ~OnWay("modems", p) /\ ~OnWay("modemProxy", p) /\ ~OnWay("modemProps", p)
        /\ OnWay("simProxy", p) /\ (OnWay("simProps", p) <=> Rest("simProps", p))
    BY <2>2, <2>3
  <2>5. p \in modems /\ "sim" \in there[p].offers /\ there[p].is
    BY <1>1, <2>2, <2>4 DEF ModemRight, Stages, SaysSo, OfonoInv, NothingLeft
  <2>6. /\ asked' = Append(asked, c) /\ p \in modems' /\ p \in sims'
        /\ UNCHANGED <<modems, counted, locksOf, table>>
    BY <1>2, <1>6, <2>5
  <2>7. \A k : Rest(k, p) => Follows(k, Kind(c, p))
    BY <2>1, <2>3 DEF Follows
  <2>8. InOrder(wire', asked', p) /\ \A k : OnWay(k, p)' <=> Rest(k, p) \/ k = "simProps"
    BY <1>3, <2>1, <2>6, <2>7, AsksOnce
  <2>9. /\ ~OnWay("added", p)' /\ ~OnWay("removed", p)' /\ ~OnWay("interfaces", p)'
        /\ ~OnWay("modems", p)' /\ ~OnWay("modemProxy", p)' /\ ~OnWay("modemProps", p)'
        /\ (OnWay("simProxy", p)' <=> Rest("simProxy", p)) /\ OnWay("simProps", p)'
    BY <2>3, <2>8
  <2>10. SaysSo(p)'
    BY <1>1, <2>2, <2>5, <2>9 DEF SaysSo
  <2>11. Stages(p)'
    BY <1>1, <1>m, <2>5, <2>6, <2>9 DEF Stages, Early
  <2>12. Offered(p)'
    BY <1>1, <2>2, <2>4, <2>5, <2>6 DEF Offered, Asking, ModemRight
  <2>13. ASSUME NEW k \in Locks
         PROVE  table[k][p] = locksOf[p][k]
    BY <2>2, <2>5 DEF ModemRight, LocksKnown, Offered, NoLocks
  <2>14. LocksKnown(p)'
    BY <1>1, <2>2, <2>6, <2>9, <2>13 DEF LocksKnown
  <2> QED
    BY <2>8, <2>10, <2>11, <2>12, <2>14 DEF ModemRight
<1> QED
  BY <1>5, <1>6

LEMMA TableSet ==
  ASSUME OfonoInv, NEW p \in ModemPaths, NEW q \in ModemPaths, NEW k \in Locks, NEW locks
  PROVE  LocksTable(p, locks)[k][q] = IF q = p /\ locks[k] # locksOf[p][k] THEN locks[k] ELSE table[k][q]
BY DEF LocksTable, OfonoInv, OfonoTypeOK

LEMMA SimPropsRight ==
  ASSUME OfonoInv, AgentReceives, NEW p \in ModemPaths \ odd', Head(wire).type = "simProps"
  PROVE  ModemRight(p)'
<1> DEFINE m == Head(wire)
<1>1. m \in Messages /\ m.path \in ModemPaths /\ UNCHANGED <<there, lock, manager>> /\ m = wire[1]
      /\ 1 \in 1..Len(wire)
  BY FirstMessage, MessageFields
<1>2. /\ UNCHANGED <<asked, modems, sims, counted, leaked>>
      /\ \/ UNCHANGED <<locksOf, table>> /\ ~(m.path \in modems /\ ~m.error)
         \/ locksOf' = [locksOf EXCEPT ![m.path] = m.locks] /\ table' = LocksTable(m.path, m.locks)
  BY LocksAreSet DEF Becomes8
<1>4. m.type = "simProps"
  OBVIOUS
<1>m. manager
  BY <1>4, FirstMessage DEF OfonoInv, Beginning, OfonoTypeOK
<1>l. locksOf \in [ModemPaths -> LockStates]
  BY DEF OfonoInv, OfonoTypeOK
<1> HIDE DEF m
<1>5. CASE p # m.path
  <2>1. Kind(m, p) = "other" /\ \A k \in Locks : ~Carries(m, p, k)
    BY <1>4, <1>5 DEF Kind, Carries
  <2>2. \A k \in Locks : table'[k][p] = table[k][p]
    BY <1>1, <1>2, <1>5, TableSet
  <2>3. Still(p)
    BY <1>1, <1>2, <1>5, <1>l, <2>2 DEF Still
  <2> QED
    BY <1>2, <2>1, <2>3, OtherReceived DEF m
<1>6. CASE p = m.path
  <2>1. Kind(m, p) = "simProps" /\ \A k \in Locks : Carries(m, p, k) /\ Said(m, k) = m.locks[k]
    BY <1>4, <1>6 DEF Kind, Carries, Said
  <2>2. /\ ModemRight(p) /\ AllTrue(wire', p, there[p]) /\ IsTrue(m, p, there[p])
        /\ \A k : OnWay(k, p) <=> Rest(k, p) \/ k = "simProps"
        /\ \A k : Rest(k, p) => Follows("simProps", k)
        /\ \A k \in Locks : LastIsRight(wire', p, k, lock[p][k])
        /\ \A k \in Locks : Carried(wire, p, k) =>
             Carried(wire', p, k) \/ (Carries(m, p, k) /\ Said(m, k) = lock[p][k])
    BY <2>1, Received DEF m
  <2>3. \A k : Rest(k, p) => k \in {"simProps", "other"}
    BY <2>2 DEF Follows
  <2>4. /\ ~OnWay("added", p) /\ ~OnWay("removed", p) /\ ~OnWay("interfaces", p)
        /\ ~OnWay("modems", p) /\ ~OnWay("modemProxy", p) /\ ~OnWay("modemProps", p)
        /\ ~OnWay("simProxy", p) /\ OnWay("simProps", p)
    BY <2>2, <2>3
  <2>5. p \in sims /\ p \in modems /\ "sim" \in there[p].offers /\ there[p].is /\ ~m.error
    BY <1>1, <2>1, <2>2, <2>4
    DEF ModemRight, Stages, SaysSo, IsTrue, OfonoInv, OfonoTypeOK, NothingLeft
  <2>6. locksOf'[p] = m.locks /\ table' = LocksTable(p, m.locks)
    BY <1>2, <1>6, <1>l, <2>5
  <2>7. InOrder(wire', asked', p) /\ \A k : OnWay(k, p)' <=> Rest(k, p)
    BY <1>2, AsksNothing
  <2>8. /\ ~OnWay("added", p)' /\ ~OnWay("removed", p)' /\ ~OnWay("interfaces", p)'
        /\ ~OnWay("modems", p)' /\ ~OnWay("modemProxy", p)' /\ ~OnWay("modemProps", p)'
        /\ ~OnWay("simProxy", p)' /\ (OnWay("simProps", p)' <=> Rest("simProps", p))
    BY <2>3, <2>7
  <2>9. SaysSo(p)'
    BY <1>1, <2>2, <2>5, <2>8 DEF SaysSo
  <2>10. Stages(p)'
    BY <1>1, <1>2, <1>m, <2>5, <2>8 DEF Stages, Early
  <2>11. Offered(p)'
    BY <1>1, <1>2, <2>2, <2>4, <2>5 DEF Offered, Asking, ModemRight
  <2>12. ASSUME NEW k \in Locks
         PROVE  /\ table'[k][p] = locksOf'[p][k]
                /\ Carried(wire', p, k) \/ locksOf'[p][k] = lock[p][k]
    <3>1. table[k][p] = locksOf[p][k]
      BY <2>2, <2>5 DEF ModemRight, LocksKnown
    <3>2. Carried(wire, p, k)
      BY <1>1, <2>1 DEF Carried
    <3> QED
      BY <2>1, <2>2, <2>6, <3>1, <3>2, TableSet
  <2>13. LocksKnown(p)'
    BY <1>1, <1>2, <2>2, <2>5, <2>12 DEF LocksKnown
  <2> QED
    BY <2>7, <2>9, <2>10, <2>11, <2>13 DEF ModemRight
<1> QED
  BY <1>5, <1>6

LEMMA LockRight ==
  ASSUME OfonoInv, AgentReceives, NEW p \in ModemPaths \ odd', Head(wire).type = "lock"
  PROVE  ModemRight(p)'
<1> DEFINE m == Head(wire)
           locks == [locksOf[m.path] EXCEPT ![m.lock] = m.value]
<1>1. m \in Messages /\ m.path \in ModemPaths /\ UNCHANGED <<there, lock, manager>> /\ m = wire[1]
      /\ 1 \in 1..Len(wire) /\ m.lock \in Locks
  BY FirstMessage, MessageFields
<1>2. /\ UNCHANGED <<asked, modems, sims, counted, leaked>>
      /\ \/ UNCHANGED <<locksOf, table>> /\ ~(m.path \in modems /\ SimProxyLives(m.path))
         \/ /\ locksOf' = [locksOf EXCEPT ![m.path] = locks] /\ table' = LocksTable(m.path, locks)
            /\ m.path \in modems /\ SimProxyLives(m.path)
  BY LockIsSet DEF Becomes8
<1>4. m.type = "lock"
  OBVIOUS
<1>l. locksOf \in [ModemPaths -> LockStates]
  BY DEF OfonoInv, OfonoTypeOK
<1>a. locks = [locksOf[m.path] EXCEPT ![m.lock] = m.value]
  OBVIOUS
<1> HIDE DEF m, locks
<1>5. CASE p # m.path
  <2>1. Kind(m, p) = "other" /\ \A k \in Locks : ~Carries(m, p, k)
    BY <1>4, <1>5 DEF Kind, Carries
  <2>2. \A k \in Locks : table'[k][p] = table[k][p]
    BY <1>1, <1>2, <1>5, TableSet
  <2>3. Still(p)
    BY <1>1, <1>2, <1>5, <1>l, <2>2 DEF Still
  <2> QED
    BY <1>2, <2>1, <2>3, OtherReceived DEF m
<1>6. CASE p = m.path
  <2>1. Kind(m, p) = "other" /\ \A k \in Locks : Carries(m, p, k) <=> k = m.lock
    BY <1>4, <1>6 DEF Kind, Carries
  <2>2. /\ ModemRight(p) /\ AllTrue(wire', p, there[p]) /\ IsTrue(m, p, there[p])
        /\ \A k : OnWay(k, p) <=> Rest(k, p) \/ k = "other"
        /\ \A k \in Locks : LastIsRight(wire', p, k, lock[p][k])
        /\ \A k \in Locks : Carried(wire, p, k) =>
             Carried(wire', p, k) \/ (Carries(m, p, k) /\ Said(m, k) = lock[p][k])
    BY <2>1, Received DEF m
  <2>3. InOrder(wire', asked', p) /\ \A k : OnWay(k, p)' <=> Rest(k, p)
    BY <1>2, AsksNothing
  <2>4. ASSUME NEW k \in Kinds
        PROVE  OnWay(k, p)' <=> OnWay(k, p)
    BY <2>2, <2>3 DEF Kinds
  <2>5. /\ OnWay("added", p)' <=> OnWay("added", p)
        /\ OnWay("removed", p)' <=> OnWay("removed", p)
        /\ OnWay("interfaces", p)' <=> OnWay("interfaces", p)
        /\ OnWay("modems", p)' <=> OnWay("modems", p)
        /\ OnWay("modemProxy", p)' <=> OnWay("modemProxy", p)
        /\ OnWay("modemProps", p)' <=> OnWay("modemProps", p)
        /\ OnWay("simProxy", p)' <=> OnWay("simProxy", p)
        /\ OnWay("simProps", p)' <=> OnWay("simProps", p)
    BY <2>4 DEF Kinds
  <2>6. "sim" \in there[p].offers
    BY <1>4, <1>6, <2>2 DEF IsTrue
  <2>7. SaysSo(p)'
    BY <1>1, <2>2, <2>5 DEF SaysSo, ModemRight
  <2>8. Stages(p)'
    BY <1>1, <1>2, <2>2, <2>5 DEF Stages, Early, ModemRight
  <2>9. CASE p \in sims
    <3>1. p \in modems /\ SimProxyLives(p)
      BY <2>9 DEF SimProxyLives, OfonoInv, OfonoTypeOK
    <3>2. locksOf' = [locksOf EXCEPT ![p] = locks] /\ table' = LocksTable(p, locks)
      BY <1>2, <1>6, <3>1
    <3>3. Offered(p)'
      BY <1>1, <1>2, <2>2, <2>5, <2>9 DEF Offered, Asking, ModemRight
    <3>4. ASSUME NEW k \in Locks
          PROVE  /\ table'[k][p] = locksOf'[p][k]
                 /\ \/ OnWay("simProxy", p)' \/ OnWay("simProps", p)' \/ Carried(wire', p, k)
                    \/ locksOf'[p][k] = lock[p][k]
      <4>1. /\ table[k][p] = locksOf[p][k]
            /\ \/ OnWay("simProxy", p) \/ OnWay("simProps", p) \/ Carried(wire, p, k)
               \/ locksOf[p][k] = lock[p][k]
        BY <2>2, <2>6, <2>9 DEF ModemRight, LocksKnown
      <4>2. locksOf'[p] = locks /\ locks[k] = IF k = m.lock THEN m.value ELSE locksOf[p][k]
        BY <1>1, <1>6, <1>a, <1>l, <3>2 DEF LockStates
      <4>3. table'[k][p] = locksOf'[p][k]
        BY <3>2, <4>1, <4>2, TableSet
      <4>4. CASE k = m.lock
        <5>1. Carries(m, p, k) /\ Said(m, k) = m.value /\ Carried(wire, p, k)
          BY <1>1, <1>4, <2>1, <4>4 DEF Said, Carried
        <5> QED
          BY <2>2, <4>2, <4>3, <4>4, <5>1
      <4>5. CASE k # m.lock
        <5>1. Carried(wire, p, k) => Carried(wire', p, k)
          BY <2>1, <2>2, <4>5
        <5> QED
          BY <2>5, <4>1, <4>2, <4>3, <4>5, <5>1
      <4> QED
        BY <4>4, <4>5
    <3>5. LocksKnown(p)'
      BY <1>1, <1>2, <2>2, <2>9, <3>4 DEF LocksKnown
    <3> QED
      BY <2>3, <2>7, <2>8, <3>3, <3>5 DEF ModemRight
  <2>10. CASE p \notin sims
    \* No proxy of the SIM is there, nor on its way.
    <3>1. ~SimProxyLives(p)
      <4>1. p \notin leaked /\ ~OnWay("simProps", p)
        BY <2>2, <2>6, <2>10 DEF ModemRight, Offered, Stages
      <4>2. DOMAIN wire = 1..Len(wire) /\ DOMAIN asked = 1..Len(asked)
        BY Queued, LenProperties
      <4>3. \A i \in 1..Len(asked) : asked[i] # [type |-> "simProps", path |-> p]
        BY <4>1 DEF OnWay, Has, Kind
      <4>4. \A i \in 1..Len(wire) : ~(wire[i].type = "simProps" /\ wire[i].path = p)
        BY <4>1 DEF OnWay, Has, Kind
      <4> QED
        BY <2>10, <4>1, <4>2, <4>3, <4>4 DEF SimProxyLives
    <3>2. UNCHANGED <<locksOf, table>>
      BY <1>2, <1>6, <3>1
    <3>3. Offered(p)'
      BY <1>1, <1>2, <2>2, <2>5, <3>2 DEF Offered, Asking, ModemRight
    <3>4. LocksKnown(p)'
      BY <1>1, <1>2, <2>2, <2>10, <3>2 DEF LocksKnown, ModemRight
    <3> QED
      BY <2>3, <2>7, <2>8, <3>3, <3>4 DEF ModemRight
  <2> QED
    BY <2>9, <2>10
<1> QED
  BY <1>5, <1>6

\* The list of the modems makes the agent ask for the proxies of all of them.
LEMMA HasMany ==
  ASSUME NEW a \in Seq(Talk), NEW b \in Seq(Talk), NEW k, NEW p
  PROVE  Has(k, a \o b, p) <=> Has(k, a, p) \/ Has(k, b, p)
<1> DEFINE n == Len(a)
           l == Len(b)
           c == a \o b
<1>1. /\ n \in Nat /\ l \in Nat /\ Len(c) = n + l
      /\ \A i \in 1..n + l : c[i] = IF i <= n THEN a[i] ELSE b[i - n]
  BY ConcatProperties, LenProperties
<1>2. /\ Has(k, a, p) <=> \E i \in 1..n : Kind(a[i], p) = k
      /\ Has(k, b, p) <=> \E i \in 1..l : Kind(b[i], p) = k
      /\ Has(k, c, p) <=> \E i \in 1..Len(c) : Kind(c[i], p) = k
  BY DEF Has
<1> HIDE DEF n, l, c
<1>3. ASSUME NEW i \in 1..n
      PROVE  i \in 1..n + l /\ c[i] = a[i]
  BY <1>1
<1>4. ASSUME NEW i \in 1..l
      PROVE  n + i \in 1..n + l /\ c[n + i] = b[i]
  <2>1. n + i \in 1..n + l /\ ~(n + i <= n) /\ (n + i) - n = i
    BY <1>1
  <2> QED
    BY <1>1, <2>1
<1>5. ASSUME NEW i \in 1..n + l
      PROVE  (i \in 1..n /\ c[i] = a[i]) \/ (i - n \in 1..l /\ c[i] = b[i - n])
  BY <1>1
<1>6. Has(k, a, p) \/ Has(k, b, p) => Has(k, c, p)
  BY <1>1, <1>2, <1>3, <1>4
<1>7. Has(k, c, p) => Has(k, a, p) \/ Has(k, b, p)
  BY <1>1, <1>2, <1>5
<1>8. Has(k, c, p) <=> Has(k, a, p) \/ Has(k, b, p)
  BY <1>6, <1>7
<1> QED
  BY <1>8 DEF c

LEMMA OrderAsksMany ==
  ASSUME NEW w \in Seq(Talk), NEW a \in Seq(Talk), NEW b \in Seq(Talk), NEW p, InOrder(w, a, p),
         \A k, l : (Has(k, w, p) \/ Has(k, a, p)) /\ Has(l, b, p) => Follows(k, l),
         \A k, l : Has(k, b, p) /\ Has(l, b, p) => Follows(k, l)
  PROVE  InOrder(w, a \o b, p)
<1> DEFINE n == Len(a)
           h == Len(b)
           c == a \o b
<1>1. /\ n \in Nat /\ h \in Nat /\ Len(c) = n + h
      /\ \A i \in 1..n + h : c[i] = IF i <= n THEN a[i] ELSE b[i - n]
  BY ConcatProperties, LenProperties
<1>2. /\ \A i, j \in 1..Len(w) : i < j => Follows(Kind(w[i], p), Kind(w[j], p))
      /\ \A i, j \in 1..n : i < j => Follows(Kind(a[i], p), Kind(a[j], p))
      /\ \A i \in 1..Len(w), j \in 1..n : Follows(Kind(w[i], p), Kind(a[j], p))
  BY DEF InOrder
<1>3. /\ \A i \in 1..Len(w), j \in 1..h : Follows(Kind(w[i], p), Kind(b[j], p))
      /\ \A i \in 1..n, j \in 1..h : Follows(Kind(a[i], p), Kind(b[j], p))
      /\ \A i \in 1..h, j \in 1..h : Follows(Kind(b[i], p), Kind(b[j], p))
  BY DEF Has
<1> HIDE DEF n, h, c
<1>4. ASSUME NEW i \in 1..n + h
      PROVE  (i \in 1..n /\ c[i] = a[i]) \/ (i - n \in 1..h /\ ~(i <= n) /\ c[i] = b[i - n])
  BY <1>1
<1>5. ASSUME NEW i \in 1..n + h, NEW j \in 1..n + h, i < j
      PROVE  Follows(Kind(c[i], p), Kind(c[j], p))
  <2>1. CASE j \in 1..n /\ c[j] = a[j]
    <3>1. i \in 1..n
      BY <1>1, <1>5, <2>1
    <3> QED
      BY <1>2, <1>4, <1>5, <2>1, <3>1
  <2>2. CASE j - n \in 1..h /\ c[j] = b[j - n]
    BY <1>3, <1>4, <2>2
  <2> QED
    BY <1>4, <2>1, <2>2
<1>6. ASSUME NEW i \in 1..Len(w), NEW j \in 1..n + h
      PROVE  Follows(Kind(w[i], p), Kind(c[j], p))
  BY <1>2, <1>3, <1>4
<1>7. InOrder(w, c, p)
  BY <1>1, <1>2, <1>5, <1>6 DEF InOrder
<1> QED
  BY <1>7 DEF c

ProxiesOf(paths) == [i \in DOMAIN paths |-> Proxy("modemProxy", paths[i])]
LEMMA ProxiesAsked ==
  ASSUME NEW paths \in Seq(ModemPaths)
  PROVE  /\ ProxiesOf(paths) \in Seq(Requests)
         /\ Len(ProxiesOf(paths)) = Len(paths)
         /\ \A i \in 1..Len(paths) : /\ ProxiesOf(paths)[i].type = "modemProxy"
                                     /\ ProxiesOf(paths)[i].path = paths[i]
<1>1. Len(paths) \in Nat /\ DOMAIN paths = 1..Len(paths) /\ \A i \in 1..Len(paths) : paths[i] \in ModemPaths
  BY LenProperties, ElementOfSeq
<1>2. \A i \in 1..Len(paths) : Proxy("modemProxy", paths[i]) \in Requests
  BY <1>1 DEF Proxy, Requests
<1>3. ProxiesOf(paths) \in [1..Len(paths) -> Requests]
  BY <1>1, <1>2 DEF ProxiesOf
<1>4. ProxiesOf(paths) \in Seq(Requests)
  BY <1>1, <1>3
<1>5. Len(ProxiesOf(paths)) = Len(paths)
  BY <1>1, <1>3, <1>4, LenProperties
<1>6. \A i \in 1..Len(paths) : ProxiesOf(paths)[i] = [type |-> "modemProxy", path |-> paths[i]]
  BY <1>1 DEF ProxiesOf, Proxy
<1>7. ASSUME NEW i \in 1..Len(paths)
      PROVE  ProxiesOf(paths)[i].type = "modemProxy" /\ ProxiesOf(paths)[i].path = paths[i]
  <2> DEFINE c == ProxiesOf(paths)[i]
  <2>1. c = [type |-> "modemProxy", path |-> paths[i]]
    BY <1>6
  <2> HIDE DEF c
  <2>2. c.type = "modemProxy" /\ c.path = paths[i]
    BY <2>1
  <2> QED
    BY <2>2 DEF c
<1> QED
  BY <1>4, <1>5, <1>7

LEMMA ModemsRight ==
  ASSUME OfonoInv, AgentReceives, NEW p \in ModemPaths \ odd', Head(wire).type = "modems"
  PROVE  ModemRight(p)'
<1> DEFINE m == Head(wire)
           b == ProxiesOf(m.paths)
<1>1. m \in Messages /\ m.paths \in Seq(ModemPaths) /\ UNCHANGED <<there, lock, manager>>
  BY FirstMessage, MessageFields
<1>2. asked' = asked \o b /\ UNCHANGED <<modems, sims, counted, locksOf, leaked, table>>
  BY ModemsListed DEF Becomes8, ProxiesOf
<1>4. m.type = "modems"
  OBVIOUS
<1>m. manager
  BY <1>4, FirstMessage DEF OfonoInv, Beginning, OfonoTypeOK
<1>5. /\ b \in Seq(Requests) /\ b \in Seq(Talk) /\ Len(b) = Len(m.paths)
      /\ \A i \in 1..Len(m.paths) : b[i].type = "modemProxy" /\ b[i].path = m.paths[i]
  <2>1. /\ b \in Seq(Requests) /\ Len(b) = Len(m.paths)
        /\ \A i \in 1..Len(m.paths) : b[i].type = "modemProxy" /\ b[i].path = m.paths[i]
    BY <1>1, ProxiesAsked
  <2> QED
    BY <2>1 DEF Talk
<1> HIDE DEF m, b
<1>6. Kind(m, p) = "modems" /\ \A k \in Locks : ~Carries(m, p, k)
  BY <1>4 DEF Kind, Carries
<1>7. /\ ModemRight(p) /\ AllTrue(wire', p, there[p]) /\ IsTrue(m, p, there[p])
      /\ InOrder(wire', asked, p)
      /\ \A k : OnWay(k, p) <=> Rest(k, p) \/ k = "modems"
      /\ \A k : Rest(k, p) => Follows("modems", k)
      /\ \A k \in Locks : LastIsRight(wire', p, k, lock[p][k])
  BY <1>6, Received DEF m
<1>8. \A k : Rest(k, p) => k \in {"modemProxy", "other"}
  BY <1>7 DEF Follows
<1>9. /\ ~OnWay("added", p) /\ ~OnWay("removed", p) /\ ~OnWay("interfaces", p)
      /\ OnWay("modems", p) /\ (OnWay("modemProxy", p) <=> Rest("modemProxy", p))
      /\ ~OnWay("modemProps", p) /\ ~OnWay("simProxy", p) /\ ~OnWay("simProps", p)
  BY <1>7, <1>8
<1>10. p \notin modems /\ p \notin sims /\ p \notin leaked
  BY <1>7, <1>9 DEF ModemRight, Stages, Early
<1>11. there[p].is <=> \E i \in 1..Len(b) : b[i].path = p
  <2>1. there[p].is <=> \E i \in 1..Len(m.paths) : m.paths[i] = p
    BY <1>4, <1>7 DEF IsTrue
  <2> QED
    BY <1>5, <2>1
<1>12. \A i \in 1..Len(b) : Kind(b[i], p) = IF b[i].path = p THEN "modemProxy" ELSE "other"
  BY <1>5 DEF Kind
<1>13. /\ \A k : Has(k, b, p) => k \in {"modemProxy", "other"}
       /\ Has("modemProxy", b, p) <=> there[p].is
  BY <1>11, <1>12 DEF Has
<1>14. wire' = Tail(wire) /\ wire' \in Seq(Talk) /\ asked \in Seq(Talk)
  BY FirstMessage
<1>15. InOrder(wire', asked', p)
  <2>1. \A k, l : (Has(k, wire', p) \/ Has(k, asked, p)) /\ Has(l, b, p) => Follows(k, l)
    BY <1>8, <1>13, <1>14 DEF Rest, Follows
  <2>2. \A k, l : Has(k, b, p) /\ Has(l, b, p) => Follows(k, l)
    BY <1>13 DEF Follows
  <2>3. InOrder(wire', asked \o b, p)
    BY <1>5, <1>7, <1>14, <2>1, <2>2, OrderAsksMany
  <2> QED
    BY <1>2, <2>3
<1>16. \A k : OnWay(k, p)' <=> Rest(k, p) \/ Has(k, b, p)
  BY <1>2, <1>5, <1>14, HasMany DEF OnWay, Rest
<1>17. /\ OnWay("modemProxy", p)' <=> there[p].is
       /\ ~OnWay("added", p)' /\ ~OnWay("removed", p)' /\ ~OnWay("interfaces", p)'
       /\ ~OnWay("modems", p)' /\ ~OnWay("modemProps", p)' /\ ~OnWay("simProxy", p)'
       /\ ~OnWay("simProps", p)'
  <2>1. Rest("modemProxy", p) => there[p].is
    BY <1>7, <1>9 DEF ModemRight, SaysSo
  <2> QED
    BY <1>8, <1>13, <1>16, <2>1
<1>18. SaysSo(p)'
  BY <1>1, <1>7, <1>17 DEF SaysSo
<1>19. Stages(p)'
  BY <1>1, <1>2, <1>m, <1>10, <1>17 DEF Stages, Early
<1>20. Offered(p)'
  BY <1>1, <1>2, <1>7, <1>10 DEF Offered, ModemRight
<1>21. LocksKnown(p)'
  BY <1>1, <1>2, <1>7, <1>10 DEF LocksKnown, ModemRight
<1> QED
  BY <1>15, <1>18, <1>19, <1>20, <1>21 DEF ModemRight

LEMMA ManagerRight ==
  ASSUME OfonoInv, AgentReceives, NEW p \in ModemPaths \ odd', Head(wire).type = "manager"
  PROVE  ModemRight(p)'
<1> DEFINE m == Head(wire)
           c == [type |-> "modems"]
<1>1. /\ m \in Messages /\ m = wire[1] /\ 1 \in 1..Len(wire) /\ UNCHANGED <<there, lock>>
      /\ wire' = Tail(wire) /\ wire \in Seq(Talk) /\ wire # <<>>
  BY FirstMessage
<1>2. asked' = Append(asked, c) /\ UNCHANGED <<modems, sims, counted, locksOf, leaked, table>>
  BY ManagerMade DEF Becomes8
<1>4. m.type = "manager"
  OBVIOUS
<1>5. c \in Requests /\ Kind(c, p) = "modems"
  BY DEF Requests, Kind
<1> HIDE DEF m, c
<1>6. HasManager(wire) /\ ~manager
  BY <1>1, <1>4 DEF HasManager, OfonoInv, Beginning
<1>7. /\ asked = <<>> /\ modems = {} /\ leaked = {} /\ sims = {}
      /\ \A i \in 1..Len(wire) : wire[i].type \in {"manager", "added", "removed", "interfaces", "lock"}
  BY <1>6 DEF OfonoInv, OfonoTypeOK, Beginning
<1>8. Kind(m, p) = "other" /\ \A k \in Locks : ~Carries(m, p, k)
  BY <1>4 DEF Kind, Carries
<1>9. /\ ModemRight(p) /\ AllTrue(wire', p, there[p])
      /\ \A k : OnWay(k, p) <=> Rest(k, p) \/ k = "other"
      /\ \A k \in Locks : LastIsRight(wire', p, k, lock[p][k])
  BY <1>8, Received DEF m
<1>10. \A k : Rest(k, p) => k \in {"added", "removed", "interfaces", "other"}
  <2>1. \A k : Has(k, wire, p) => k \in {"added", "removed", "interfaces", "other"}
    BY <1>7 DEF Has, Kind
  <2>2. \A k : Has(k, Tail(wire), p) => Has(k, wire, p)
    BY <1>1, HasGoes
  <2>3. \A k : ~Has(k, asked, p)
    BY <1>7 DEF Has
  <2> QED
    BY <2>1, <2>2, <2>3 DEF Rest
<1>11. \A k : Rest(k, p) => Follows(k, Kind(c, p))
  BY <1>5, <1>10 DEF Follows
<1>12. InOrder(wire', asked', p) /\ \A k : OnWay(k, p)' <=> Rest(k, p) \/ k = "modems"
  BY <1>2, <1>5, <1>11, AsksOnce
<1>13. /\ OnWay("modems", p)'
       /\ OnWay("added", p)' <=> OnWay("added", p)
       /\ OnWay("removed", p)' <=> OnWay("removed", p)
       /\ OnWay("interfaces", p)' <=> OnWay("interfaces", p)
       /\ ~OnWay("modemProxy", p)' /\ ~OnWay("modemProps", p)' /\ ~OnWay("simProxy", p)'
       /\ ~OnWay("simProps", p)'
  BY <1>9, <1>10, <1>12
<1>14. SaysSo(p)'
  BY <1>1, <1>9, <1>13 DEF SaysSo, ModemRight
<1>15. Stages(p)'
  BY <1>1, <1>2, <1>7, <1>13 DEF Stages, Early
<1>16. Offered(p)'
  BY <1>1, <1>2, <1>7 DEF Offered, OfonoInv, NothingLeft
<1>17. LocksKnown(p)'
  BY <1>1, <1>2, <1>7, <1>9 DEF LocksKnown, ModemRight
<1> QED
  BY <1>12, <1>14, <1>15, <1>16, <1>17 DEF ModemRight

LEMMA ReceivesRight ==
  ASSUME OfonoInv, AgentReceives, NEW p \in ModemPaths \ odd'
  PROVE  ModemRight(p)'
<1>1. Head(wire).type \in {"manager", "modems", "added", "removed", "modemProxy", "simProxy",
                           "interfaces", "modemProps", "simProps", "lock"}
  BY FirstMessage, MessageFields
<1> QED
  BY <1>1, ManagerRight, ModemsRight, AddedRight, RemovedRight, ModemProxyRight, SimProxyRight,
     InterfacesMessageRight, ModemPropsRight, SimPropsRight, LockRight

-----------------------------------------------------------------------------
(***************************************************************************)
(* The manager, and what else is the same for every modem.                 *)
(***************************************************************************)
LEMMA ManagerComes ==
  ASSUME NEW q \in Seq(Talk), NEW m \in Talk
  PROVE  /\ HasManager(Append(q, m)) <=> HasManager(q) \/ m.type = "manager"
         /\ OneManager(q) /\ (m.type = "manager" => ~HasManager(q)) => OneManager(Append(q, m))
<1> DEFINE n == Len(q)
           r == Append(q, m)
<1>1. /\ n \in Nat /\ Len(r) = n + 1 /\ r[n + 1] = m
      /\ \A i \in 1..n : r[i] = q[i]
  BY TalkComes
<1>2. /\ HasManager(q) <=> \E i \in 1..n : q[i].type = "manager"
      /\ OneManager(q) <=> \A i, j \in 1..n : q[i].type = "manager" /\ q[j].type = "manager" => i = j
      /\ HasManager(r) <=> \E i \in 1..Len(r) : r[i].type = "manager"
      /\ OneManager(r) <=>
           \A i, j \in 1..Len(r) : r[i].type = "manager" /\ r[j].type = "manager" => i = j
  BY DEF HasManager, OneManager
<1> HIDE DEF r, n
<1>3. \A i \in 1..n + 1 : i \in 1..n \/ i = n + 1
  BY <1>1
<1>a. \A i \in 1..n : i \in 1..n + 1
  BY <1>1
<1>b. n + 1 \in 1..n + 1
  BY <1>1
<1>4. HasManager(r) <=> HasManager(q) \/ m.type = "manager"
  BY <1>1, <1>2, <1>3, <1>a, <1>b
<1>5. ASSUME OneManager(q), m.type = "manager" => ~HasManager(q)
      PROVE  OneManager(r)
  <2>1. SUFFICES ASSUME NEW i \in 1..n + 1, NEW j \in 1..n + 1, r[i].type = "manager",
                        r[j].type = "manager"
                 PROVE  i = j
    BY <1>1, <1>2
  <2>2. CASE i \in 1..n /\ j \in 1..n
    BY <1>1, <1>2, <1>5, <2>1, <2>2
  <2>3. CASE i = n + 1 /\ j \in 1..n
    BY <1>1, <1>2, <1>5, <2>1, <2>3
  <2>4. CASE i \in 1..n /\ j = n + 1
    BY <1>1, <1>2, <1>5, <2>1, <2>4
  <2> QED
    BY <1>3, <2>2, <2>3, <2>4
<1>6. /\ HasManager(r) <=> HasManager(q) \/ m.type = "manager"
      /\ OneManager(q) /\ (m.type = "manager" => ~HasManager(q)) => OneManager(r)
  BY <1>4, <1>5
<1> QED
  BY <1>6 DEF r

LEMMA ManagerGoes ==
  ASSUME NEW q \in Seq(Talk), q # <<>>
  PROVE  /\ HasManager(q) <=> HasManager(Tail(q)) \/ Head(q).type = "manager"
         /\ OneManager(q) => OneManager(Tail(q))
         /\ OneManager(q) /\ Head(q).type = "manager" => ~HasManager(Tail(q))
<1> DEFINE n == Len(q)
           r == Tail(q)
<1>1. /\ n \in Nat /\ n >= 1 /\ Len(r) = n - 1 /\ Head(q) = q[1]
      /\ \A i \in 1..n - 1 : r[i] = q[i + 1]
  BY TalkGoes
<1>2. /\ HasManager(q) <=> \E i \in 1..n : q[i].type = "manager"
      /\ OneManager(q) <=> \A i, j \in 1..n : q[i].type = "manager" /\ q[j].type = "manager" => i = j
      /\ HasManager(r) <=> \E i \in 1..Len(r) : r[i].type = "manager"
      /\ OneManager(r) <=>
           \A i, j \in 1..Len(r) : r[i].type = "manager" /\ r[j].type = "manager" => i = j
  BY DEF HasManager, OneManager
<1> HIDE DEF r, n
<1>3. ASSUME NEW i \in 1..n
      PROVE  i = 1 \/ (i - 1 \in 1..n - 1 /\ r[i - 1] = q[i])
  BY <1>1
<1>4. ASSUME NEW i \in 1..n - 1
      PROVE  i + 1 \in 1..n /\ r[i] = q[i + 1] /\ i + 1 # 1
  BY <1>1
<1>5. 1 \in 1..n
  BY <1>1
<1>6. HasManager(q) <=> HasManager(r) \/ q[1].type = "manager"
  <2>1. HasManager(r) \/ q[1].type = "manager" => HasManager(q)
    BY <1>1, <1>2, <1>4, <1>5
  <2>2. HasManager(q) => HasManager(r) \/ q[1].type = "manager"
    BY <1>1, <1>2, <1>3
  <2> QED
    BY <2>1, <2>2
<1>7. ASSUME OneManager(q)
      PROVE  OneManager(r)
  <2>1. SUFFICES ASSUME NEW i \in 1..n - 1, NEW j \in 1..n - 1, r[i].type = "manager",
                        r[j].type = "manager"
                 PROVE  i = j
    BY <1>1, <1>2
  <2>2. i + 1 = j + 1
    BY <1>2, <1>4, <1>7, <2>1
  <2> QED
    BY <1>1, <2>2
<1>8. ASSUME OneManager(q), q[1].type = "manager"
      PROVE  ~HasManager(r)
  BY <1>1, <1>2, <1>4, <1>5, <1>8
<1>9. /\ HasManager(q) <=> HasManager(r) \/ Head(q).type = "manager"
      /\ OneManager(q) => OneManager(r)
      /\ OneManager(q) /\ Head(q).type = "manager" => ~HasManager(r)
  BY <1>1, <1>6, <1>7, <1>8
<1> QED
  BY <1>9 DEF r

\* What starts before the agent has its manager.
LEMMA WireComes ==
  ASSUME OfonoInv, NEW m \in Messages, m.type \in {"added", "removed", "interfaces", "lock"},
         wire' = Append(wire, m), UNCHANGED agentVars
  PROVE  wire' \in Seq(Messages) /\ Beginning'
<1>1. wire' \in Seq(Messages)
  BY AppendProperties DEF OfonoInv
<1>2. wire \in Seq(Talk) /\ m \in Talk
  BY Queued DEF Talk
<1>3. (HasManager(wire') <=> HasManager(wire)) /\ OneManager(wire')
  BY <1>2, ManagerComes DEF OfonoInv, Beginning
<1>4. ~manager => \A i \in 1..Len(wire') :
        wire'[i].type \in {"manager", "added", "removed", "interfaces", "lock"}
  <2>1. /\ \A i \in 1..Len(wire) : wire'[i] = wire[i]
        /\ \A i \in 1..Len(wire') : i \in 1..Len(wire) \/ wire'[i] = m
    BY <1>2, TalkComes
  <2>2. ASSUME ~manager, NEW i \in 1..Len(wire')
        PROVE  wire'[i].type \in {"manager", "added", "removed", "interfaces", "lock"}
    BY <2>1, <2>2 DEF OfonoInv, Beginning
  <2> QED
    BY <2>2
<1> QED
  BY <1>1, <1>3, <1>4 DEF OfonoInv, Beginning, agentVars

\* The invariant but for the modems' own parts.
Frame == /\ OfonoTypeOK /\ wire \in Seq(Messages) /\ Beginning /\ NothingLeft
         /\ IsFiniteSet(counted) /\ CountNeverWraps

LEMMA ChangesFrame ==
  ASSUME OfonoInv, NEW p \in ModemPaths,
         \/ ModemGoes(p)
         \/ \E offers \in Offers : ModemComes(p, offers) \/ InterfacesChange(p, offers)
         \/ \E k \in Locks : LockChanges(p, k)
  PROVE  Frame'
<1>1. UNCHANGED agentVars /\ odd' \subseteq ModemPaths
  BY DEF ModemGoes, ModemComes, InterfacesChange, LockChanges, Changed, OfonoInv, OfonoTypeOK
<1>2. IsFiniteSet(counted') /\ CountNeverWraps'
  BY <1>1 DEF agentVars, OfonoInv, CountNeverWraps
<1>t. there \in [ModemPaths -> [offers: Offers, is: BOOLEAN]] /\ lock \in [ModemPaths -> LockStates]
      /\ NothingLeft
  BY DEF OfonoInv, OfonoTypeOK
<1> DEFINE Fits == /\ there' \in [ModemPaths -> [offers: Offers, is: BOOLEAN]]
                   /\ lock' \in [ModemPaths -> LockStates]
                   /\ \A q \in ModemPaths : ~there'[q].is => there'[q].offers = {}
                   /\ wire' \in Seq(Messages) /\ Beginning'
<1>3. Fits
  <2>1. CASE ModemGoes(p)
    <3>1. /\ there' = [there EXCEPT ![p] = Gone] /\ lock' = lock
          /\ wire' = Append(wire, [type |-> "removed", path |-> p])
      BY <2>1 DEF ModemGoes, Changed
    <3>2. [type |-> "removed", path |-> p] \in Messages
      BY DEF Messages
    <3>3. wire' \in Seq(Messages) /\ Beginning'
      BY <1>1, <3>1, <3>2, WireComes
    <3> QED
      BY <1>t, <3>1, <3>3 DEF Gone, Offers, NothingLeft
  <2>2. ASSUME NEW offers \in Offers, ModemComes(p, offers)
        PROVE  Fits
    <3>1. /\ there' = [there EXCEPT ![p] = [offers |-> offers, is |-> TRUE]] /\ lock' = lock
          /\ wire' = Append(wire, [type |-> "added", path |-> p])
      BY <2>2 DEF ModemComes, Changed
    <3>2. [type |-> "added", path |-> p] \in Messages
      BY DEF Messages
    <3>3. wire' \in Seq(Messages) /\ Beginning'
      BY <1>1, <3>1, <3>2, WireComes
    <3> QED
      BY <1>t, <3>1, <3>3 DEF NothingLeft
  <2>3. ASSUME NEW offers \in Offers, InterfacesChange(p, offers)
        PROVE  Fits
    <3>1. /\ there' = [there EXCEPT ![p] = [offers |-> offers, is |-> TRUE]] /\ lock' = lock
          /\ wire' = Append(wire, [type |-> "interfaces", path |-> p, offers |-> offers])
      BY <2>3 DEF InterfacesChange, Changed
    <3>2. [type |-> "interfaces", path |-> p, offers |-> offers] \in Messages
      BY DEF Messages
    <3>3. wire' \in Seq(Messages) /\ Beginning'
      BY <1>1, <3>1, <3>2, WireComes
    <3> QED
      BY <1>t, <3>1, <3>3 DEF NothingLeft
  <2>4. ASSUME NEW k \in Locks, LockChanges(p, k)
        PROVE  Fits
    <3> DEFINE v == lock'[p][k]
               m == [type |-> "lock", path |-> p, lock |-> k, value |-> v]
    <3>1. /\ lock' = [lock EXCEPT ![p][k] = IF @ = None THEN Some ELSE None] /\ there' = there
          /\ wire' = IF "sim" \in there[p].offers THEN Append(wire, m) ELSE wire
      BY <2>4 DEF LockChanges
    <3>2. lock' \in [ModemPaths -> LockStates] /\ v \in {None, Some}
      BY <1>t, <3>1 DEF LockStates
    <3>3. m \in Messages
      BY <3>2 DEF Messages
    <3>4. m.type = "lock"
      OBVIOUS
    <3> HIDE DEF m, v
    <3>5. wire' \in Seq(Messages) /\ Beginning'
      <4>1. CASE "sim" \in there[p].offers
        BY <1>1, <3>1, <3>3, <3>4, <4>1, WireComes
      <4>2. CASE "sim" \notin there[p].offers
        BY <1>1, <3>1, <4>2 DEF agentVars, OfonoInv, Beginning
      <4> QED
        BY <4>1, <4>2
    <3> QED
      BY <1>t, <3>1, <3>2, <3>5 DEF NothingLeft
  <2> QED
    BY <2>1, <2>2, <2>3, <2>4
<1>4. OfonoTypeOK'
  BY <1>1, <1>3 DEF OfonoInv, OfonoTypeOK, agentVars
<1>5. NothingLeft'
  BY <1>1, <1>3 DEF OfonoInv, NothingLeft, agentVars
<1> QED
  BY <1>2, <1>3, <1>4, <1>5 DEF Frame

LEMMA ServesFrame ==
  ASSUME OfonoInv, OfonoServes
  PROVE  Frame'
<1> DEFINE c == Head(asked)
<1>1. /\ asked # <<>> /\ asked' = Tail(asked)
      /\ UNCHANGED <<there, lock, changes, manager, modems, sims, counted, locksOf, leaked, table,
                     connmans, odd>>
  BY DEF OfonoServes
<1>2. PICK m \in Messages : wire' = Append(wire, m) /\ c \in Requests /\ m.type = c.type
  BY Replied
<1>3. wire \in Seq(Talk) /\ asked \in Seq(Talk) /\ m \in Talk
  BY Queued DEF Talk
<1> HIDE DEF c
<1>c. c = Head(asked)
  BY DEF c
<1>4. /\ HasManager(asked) <=> HasManager(asked') \/ c.type = "manager"
      /\ HasManager(wire') <=> HasManager(wire) \/ c.type = "manager"
      /\ OneManager(wire) /\ (c.type = "manager" => ~HasManager(wire)) => OneManager(wire')
  BY <1>1, <1>2, <1>3, <1>c, ManagerComes, ManagerGoes
<1>5. CASE manager
  <2>1. Beginning'
    BY <1>1, <1>4, <1>5 DEF OfonoInv, Beginning
  <2> QED
    BY <1>1, <1>2, <2>1, AppendProperties, HeadTailProperties
    DEF Frame, OfonoInv, OfonoTypeOK, NothingLeft, CountNeverWraps
<1>6. CASE ~manager
  <2>1. /\ asked = <<Manager>> /\ ~HasManager(wire) /\ modems = {} /\ leaked = {} /\ OneManager(wire)
        /\ \A i \in 1..Len(wire) : wire[i].type \in {"manager", "added", "removed", "interfaces", "lock"}
    BY <1>1, <1>6 DEF OfonoInv, Beginning
  <2>2. asked' = <<>> /\ m.type = "manager"
    BY <1>1, <1>2, <1>c, <2>1 DEF Manager
  <2>3. HasManager(wire') /\ OneManager(wire')
    BY <1>2, <1>4, <2>1, <2>2
  <2>4. \A i \in 1..Len(wire') :
          wire'[i].type \in {"manager", "added", "removed", "interfaces", "lock"}
    <3>1. /\ \A i \in 1..Len(wire) : wire'[i] = wire[i]
          /\ \A i \in 1..Len(wire') : i \in 1..Len(wire) \/ wire'[i] = m
      BY <1>2, <1>3, TalkComes
    <3> QED
      BY <2>1, <2>2, <3>1
  <2>5. Beginning'
    BY <1>1, <1>6, <2>1, <2>2, <2>3, <2>4 DEF Beginning
  <2> QED
    BY <1>1, <1>2, <2>5, AppendProperties, HeadTailProperties
    DEF Frame, OfonoInv, OfonoTypeOK, NothingLeft, CountNeverWraps
<1> QED
  BY <1>5, <1>6 DEF OfonoInv, OfonoTypeOK

\* The agent's state keeps its shape, whatever comes.
Shape == /\ asked \in Seq(Requests)
         /\ leaked \subseteq ModemPaths
         /\ modems \subseteq ModemPaths /\ sims \subseteq modems /\ counted \subseteq modems
         /\ locksOf \in [ModemPaths -> LockStates]
         /\ table \in [Locks -> [ModemPaths -> {None, Some}]] /\ connmans \in Nat
         /\ \A p \in ModemPaths \ modems : locksOf[p] = NoLocks
         /\ IsFiniteSet(counted) /\ connmans >= Cardinality(counted)

LEMMA ShapeNow == OfonoInv => Shape
  BY DEF OfonoInv, OfonoTypeOK, NothingLeft, CountNeverWraps, Shape

LEMMA ProxyAsked ==
  ASSUME NEW q \in Seq(Requests), NEW type \in {"modemProxy", "modemProps", "simProxy", "simProps"},
         NEW p \in ModemPaths
  PROVE  Append(q, Proxy(type, p)) \in Seq(Requests)
<1>1. Proxy(type, p) \in Requests
  BY DEF Proxy, Requests
<1> QED
  BY <1>1, AppendProperties

LEMMA TableFits ==
  ASSUME Shape, NEW p \in ModemPaths, NEW locks \in LockStates
  PROVE  /\ LocksTable(p, locks) \in [Locks -> [ModemPaths -> {None, Some}]]
         /\ [k \in Locks |-> [table[k] EXCEPT ![p] = None]] \in [Locks -> [ModemPaths -> {None, Some}]]
         /\ [locksOf EXCEPT ![p] = locks] \in [ModemPaths -> LockStates]
         /\ [locksOf EXCEPT ![p] = NoLocks] \in [ModemPaths -> LockStates]
<1>1. NoLocks \in LockStates
  BY DEF NoLocks, LockStates
<1>2. /\ LocksTable(p, locks) \in [Locks -> [ModemPaths -> {None, Some}]]
      /\ [k \in Locks |-> [table[k] EXCEPT ![p] = None]] \in [Locks -> [ModemPaths -> {None, Some}]]
  BY DEF LocksTable, Shape, LockStates
<1> QED
  BY <1>1, <1>2 DEF Shape

LEMMA CountKept ==
  ASSUME Shape, NEW p
  PROVE  /\ IsFiniteSet(counted \ {p}) /\ IsFiniteSet(counted \cup {p})
         /\ connmans >= Cardinality(counted \ {p})
         /\ p \in counted => connmans - 1 >= Cardinality(counted \ {p}) /\ connmans - 1 \in Nat
         /\ p \notin counted => connmans + 1 >= Cardinality(counted \cup {p})
         /\ p \in counted => connmans >= Cardinality(counted \cup {p})
<1> DEFINE n == Cardinality(counted)
           a == Cardinality(counted \ {p})
           b == Cardinality(counted \cup {p})
<1>1. /\ IsFiniteSet(counted \ {p}) /\ IsFiniteSet(counted \cup {p})
      /\ n \in Nat /\ a \in Nat /\ b \in Nat /\ connmans \in Nat /\ connmans >= n
      /\ a = IF p \in counted THEN n - 1 ELSE n
      /\ b = IF p \in counted THEN n ELSE n + 1
  BY FS_AddElement, FS_RemoveElement, FS_CardinalityType DEF Shape
<1> HIDE DEF n, a, b
<1>2. /\ connmans >= a
      /\ p \in counted => connmans - 1 >= a /\ connmans - 1 \in Nat
      /\ p \notin counted => connmans + 1 >= b
      /\ p \in counted => connmans >= b
  BY <1>1
<1> QED
  BY <1>1, <1>2 DEF a, b

LEMMA ReceivesShape ==
  ASSUME OfonoInv, AgentReceives
  PROVE  Shape'
<1> DEFINE m == Head(wire)
           p == m.path
<1>1. /\ m \in Messages
      /\ m.type \in {"manager", "modems", "added", "removed", "modemProxy", "simProxy", "interfaces",
                     "modemProps", "simProps", "lock"}
      /\ m.type \notin {"manager", "modems"} => p \in ModemPaths
      /\ m.type = "modems" => m.paths \in Seq(ModemPaths)
      /\ m.type = "simProps" => m.locks \in LockStates
      /\ m.type = "lock" => m.lock \in Locks /\ m.value \in {None, Some}
  BY FirstMessage, MessageFields
<1>2. Shape
  BY ShapeNow
<1>n. NoLocks \in LockStates
  BY DEF NoLocks, LockStates
<1>3. CASE m.type = "manager"
  <2>1. asked' = Append(asked, [type |-> "modems"]) /\
        UNCHANGED <<modems, sims, counted, locksOf, leaked, table, connmans>>
    BY <1>3, ManagerMade DEF Becomes8
  <2>2. [type |-> "modems"] \in Requests
    BY DEF Requests
  <2> QED
    BY <1>2, <2>1, <2>2, AppendProperties DEF Shape
<1>4. CASE m.type = "modems"
  <2>1. asked' = asked \o ProxiesOf(m.paths) /\
        UNCHANGED <<modems, sims, counted, locksOf, leaked, table, connmans>>
    BY <1>4, ModemsListed DEF Becomes8, ProxiesOf
  <2>2. ProxiesOf(m.paths) \in Seq(Requests)
    BY <1>1, <1>4, ProxiesAsked
  <2> QED
    BY <1>2, <2>1, <2>2, ConcatProperties DEF Shape
<1>5. CASE m.type = "added"
  <2>1. /\ asked' = IF manager THEN Append(asked, Proxy("modemProxy", p)) ELSE asked
        /\ UNCHANGED <<modems, sims, counted, locksOf, leaked, table, connmans>>
    BY <1>5, ModemAdded DEF Becomes8
  <2> QED
    BY <1>1, <1>2, <1>5, <2>1, ProxyAsked DEF Shape
<1>6. CASE m.type = "modemProxy"
  <2>1. /\ asked' = Append(asked, Proxy("modemProps", p)) /\ modems' = (modems \ {p}) \cup {p}
        /\ sims' = sims \ {p} /\ counted' = counted \ {p}
        /\ locksOf' = [locksOf EXCEPT ![p] = NoLocks] /\ UNCHANGED <<leaked, table, connmans>>
    BY <1>6, ModemProxyMade DEF Becomes8
  <2>2. p \in ModemPaths
    BY <1>1, <1>6
  <2>3. asked' \in Seq(Requests)
    BY <1>2, <2>1, <2>2, ProxyAsked DEF Shape
  <2>4. IsFiniteSet(counted') /\ connmans' >= Cardinality(counted')
    BY <1>2, <2>1, CountKept
  <2>5. locksOf' \in [ModemPaths -> LockStates]
    BY <1>2, <1>n, <2>1, <2>2, TableFits
  <2> HIDE DEF p, m
  <2>6. modems' \subseteq ModemPaths /\ sims' \subseteq modems' /\ counted' \subseteq modems'
        /\ \A q \in ModemPaths \ modems' : locksOf'[q] = NoLocks
    BY <1>2, <2>1, <2>2 DEF Shape
  <2> QED
    BY <1>2, <2>1, <2>3, <2>4, <2>5, <2>6 DEF Shape
<1>7. CASE m.type = "removed"
  <2>1. CASE Becomes8(asked, modems, sims, counted, locksOf, leaked, table, connmans)
    BY <1>2, <2>1 DEF Becomes8, Shape
  <2>2. CASE /\ p \in modems
             /\ asked' = asked /\ modems' = modems \ {p} /\ sims' = sims \ {p}
             /\ counted' = counted \ {p} /\ locksOf' = [locksOf EXCEPT ![p] = NoLocks]
             /\ leaked' = leaked
             /\ table' = table \/ table' = [k \in Locks |-> [table[k] EXCEPT ![p] = None]]
             /\ connmans' = connmans \/ (p \in counted /\ connmans' = connmans - 1)
    <3>1. p \in ModemPaths
      BY <1>1, <1>7
    <3>2. /\ IsFiniteSet(counted') /\ connmans' >= Cardinality(counted') /\ connmans' \in Nat
      BY <1>2, <2>2, CountKept DEF Shape
    <3>3. locksOf' \in [ModemPaths -> LockStates] /\ table' \in [Locks -> [ModemPaths -> {None, Some}]]
      BY <1>2, <1>n, <2>2, <3>1, TableFits DEF Shape
    <3> HIDE DEF p, m
    <3>4. \A q \in ModemPaths \ modems' : locksOf'[q] = NoLocks
      BY <1>2, <2>2, <3>1 DEF Shape
    <3> QED
      BY <1>2, <2>2, <3>2, <3>3, <3>4 DEF Shape
  <2>3. (counted \ {p}) \ {p} = counted \ {p} /\ (sims \ {p}) \ {p} = sims \ {p}
    OBVIOUS
  <2> QED
    BY <1>7, <2>1, <2>2, <2>3, ModemRemoved DEF Becomes8
<1>8. CASE m.type = "simProxy"
  <2>1. CASE Becomes8(asked, modems, sims, counted, locksOf, leaked, table, connmans)
    BY <1>2, <2>1 DEF Becomes8, Shape
  <2>2. CASE /\ p \in modems /\ asked' = Append(asked, Proxy("simProps", p))
             /\ sims' = sims \cup {p} /\ (leaked' = leaked \/ leaked' = leaked \cup {p})
             /\ UNCHANGED <<modems, counted, locksOf, table, connmans>>
    <3>1. p \in ModemPaths
      BY <1>1, <1>8
    <3>2. asked' \in Seq(Requests)
      BY <1>2, <2>2, <3>1, ProxyAsked DEF Shape
    <3> HIDE DEF p, m
    <3> QED
      BY <1>2, <2>2, <3>1, <3>2 DEF Shape
  <2> QED
    BY <1>8, <2>1, <2>2, SimProxyIsMade DEF Becomes8
<1>9. CASE m.type \in {"interfaces", "modemProps"}
  <2>1. CASE Becomes8(asked, modems, sims, counted, locksOf, leaked, table, connmans)
    BY <1>2, <2>1 DEF Becomes8, Shape
  <2>2. CASE /\ p \in modems
             /\ asked' = asked \/ asked' = Append(asked, Proxy("simProxy", p))
             /\ modems' = modems /\ locksOf' = locksOf /\ leaked' = leaked
             /\ sims' \subseteq sims
             /\ table' = table \/ table' = [k \in Locks |-> [table[k] EXCEPT ![p] = None]]
             /\ \/ counted' = counted \cup {p} /\ p \notin counted /\ connmans' = connmans + 1
                \/ counted' = counted \cup {p} /\ p \in counted /\ connmans' = connmans
                \/ counted' = counted \ {p} /\ p \in counted /\ connmans' = connmans - 1
                \/ counted' = counted \ {p} /\ p \notin counted /\ connmans' = connmans
    <3>1. p \in ModemPaths
      BY <1>1, <1>9
    <3> HIDE DEF p, m
    <3>2. /\ IsFiniteSet(counted') /\ connmans' >= Cardinality(counted') /\ connmans' \in Nat
      <4>a. connmans \in Nat /\ connmans + 1 \in Nat
        BY <1>2 DEF Shape
      <4>1. /\ IsFiniteSet(counted \ {p}) /\ IsFiniteSet(counted \cup {p})
            /\ connmans >= Cardinality(counted \ {p})
            /\ p \in counted => connmans - 1 >= Cardinality(counted \ {p}) /\ connmans - 1 \in Nat
            /\ p \notin counted => connmans + 1 >= Cardinality(counted \cup {p})
            /\ p \in counted => connmans >= Cardinality(counted \cup {p})
        BY <1>2, CountKept
      <4>2. CASE counted' = counted \cup {p} /\ p \notin counted /\ connmans' = connmans + 1
        BY <4>a, <4>1, <4>2
      <4>3. CASE counted' = counted \cup {p} /\ p \in counted /\ connmans' = connmans
        BY <4>a, <4>1, <4>3
      <4>4. CASE counted' = counted \ {p} /\ p \in counted /\ connmans' = connmans - 1
        BY <4>a, <4>1, <4>4
      <4>5. CASE counted' = counted \ {p} /\ p \notin counted /\ connmans' = connmans
        BY <4>a, <4>1, <4>5
      <4> QED
        BY <2>2, <4>2, <4>3, <4>4, <4>5
    <3>3. table' \in [Locks -> [ModemPaths -> {None, Some}]]
      BY <1>2, <1>n, <2>2, <3>1, TableFits DEF Shape
    <3>4. asked' \in Seq(Requests)
      BY <1>2, <2>2, <3>1, ProxyAsked DEF Shape
    <3> QED
      BY <1>2, <2>2, <3>2, <3>3, <3>4 DEF Shape
  <2> QED
    BY <1>9, <2>1, <2>2, OffersTaken
<1>10. CASE m.type = "simProps"
  <2>1. CASE Becomes8(asked, modems, sims, counted, locksOf, leaked, table, connmans)
    BY <1>2, <2>1 DEF Becomes8, Shape
  <2>2. CASE /\ p \in modems /\ UNCHANGED <<asked, modems, sims, counted, leaked, connmans>>
             /\ locksOf' = [locksOf EXCEPT ![p] = m.locks] /\ table' = LocksTable(p, m.locks)
    <3>1. p \in ModemPaths /\ m.locks \in LockStates
      BY <1>1, <1>10
    <3>2. locksOf' \in [ModemPaths -> LockStates] /\ table' \in [Locks -> [ModemPaths -> {None, Some}]]
      BY <1>2, <2>2, <3>1, TableFits
    <3> HIDE DEF p, m
    <3>3. \A q \in ModemPaths \ modems' : locksOf'[q] = NoLocks
      BY <1>2, <2>2, <3>1 DEF Shape
    <3> QED
      BY <1>2, <2>2, <3>2, <3>3 DEF Shape
  <2> QED
    BY <1>10, <2>1, <2>2, LocksAreSet DEF Becomes8
<1>11. CASE m.type = "lock"
  <2> DEFINE locks == [locksOf[p] EXCEPT ![m.lock] = m.value]
  <2>1. CASE Becomes8(asked, modems, sims, counted, locksOf, leaked, table, connmans)
    BY <1>2, <2>1 DEF Becomes8, Shape
  <2>2. CASE /\ p \in modems /\ UNCHANGED <<asked, modems, sims, counted, leaked, connmans>>
             /\ locksOf' = [locksOf EXCEPT ![p] = locks] /\ table' = LocksTable(p, locks)
    <3>1. p \in ModemPaths
      BY <1>1, <1>11
    <3>2. locks \in LockStates
      BY <1>1, <1>2, <1>11, <3>1 DEF Shape, LockStates
    <3> HIDE DEF locks
    <3>3. locksOf' \in [ModemPaths -> LockStates] /\ table' \in [Locks -> [ModemPaths -> {None, Some}]]
      BY <1>2, <2>2, <3>1, <3>2, TableFits
    <3> HIDE DEF p, m
    <3>4. \A q \in ModemPaths \ modems' : locksOf'[q] = NoLocks
      BY <1>2, <2>2, <3>1 DEF Shape
    <3> QED
      BY <1>2, <2>2, <3>3, <3>4 DEF Shape
  <2> QED
    BY <1>11, <2>1, <2>2, LockIsSet DEF Becomes8
<1> QED
  BY <1>1, <1>3, <1>4, <1>5, <1>6, <1>7, <1>8, <1>9, <1>10, <1>11

\* The manager is asked for once, and nothing is known before it is there.
LEMMA ReceivesBeginning ==
  ASSUME OfonoInv, AgentReceives
  PROVE  Beginning'
<1> DEFINE m == Head(wire)
<1>1. /\ m \in Messages /\ wire' = Tail(wire) /\ wire # <<>> /\ wire \in Seq(Talk) /\ asked \in Seq(Talk)
      /\ m = wire[1] /\ 1 \in 1..Len(wire) /\ manager' = (manager \/ m.type = "manager")
  BY FirstMessage DEF AgentReceives
<1>2. OneManager(wire') /\ (m.type = "manager" => ~HasManager(wire'))
      /\ (HasManager(wire) <=> HasManager(wire') \/ m.type = "manager")
  BY <1>1, ManagerGoes DEF OfonoInv, Beginning
<1>3. CASE m.type = "manager"
  <2>1. asked' = Append(asked, [type |-> "modems"])
    BY <1>3, ManagerMade DEF Becomes8
  <2>2. ~manager /\ asked = <<>>
    BY <1>2, <1>3 DEF OfonoInv, Beginning
  <2>3. ~HasManager(asked')
    <3>1. [type |-> "modems"] \in Talk
      BY DEF Talk, Requests
    <3>2. HasManager(asked') <=> HasManager(asked)
      BY <1>1, <2>1, <3>1, ManagerComes
    <3> QED
      BY <2>2, <3>2 DEF HasManager
  <2> QED
    BY <1>1, <1>2, <1>3, <2>3 DEF Beginning
<1>4. CASE m.type # "manager" /\ manager
  <2>1. ~HasManager(wire') /\ ~HasManager(asked) /\ manager'
    BY <1>1, <1>2, <1>4 DEF OfonoInv, Beginning
  <2>2. \/ asked' = asked
        \/ \E c \in Talk : asked' = Append(asked, c) /\ c.type # "manager"
        \/ m.type = "modems" /\ asked' = asked \o ProxiesOf(m.paths)
    <3>1. ASSUME NEW type \in {"modemProxy", "modemProps", "simProxy", "simProps"},
                 m.type \notin {"manager", "modems"}
          PROVE  Proxy(type, m.path) \in Talk /\ Proxy(type, m.path).type # "manager"
      <4>1. m.path \in ModemPaths
        BY <1>1, <3>1, MessageFields
      <4> QED
        BY <4>1 DEF Proxy, Talk, Requests
    <3>2. CASE m.type = "modems"
      BY <3>2, ModemsListed DEF Becomes8, ProxiesOf
    <3>3. CASE m.type = "added"
      BY <3>1, <3>3, ModemAdded DEF Becomes8
    <3>4. CASE m.type = "modemProxy"
      BY <3>1, <3>4, ModemProxyMade DEF Becomes8
    <3>5. CASE m.type = "removed"
      BY <3>5, ModemRemoved DEF Becomes8
    <3>6. CASE m.type = "simProxy"
      BY <3>1, <3>6, SimProxyIsMade DEF Becomes8
    <3>7. CASE m.type \in {"interfaces", "modemProps"}
      <4>1. asked' = asked \/ asked' = Append(asked, Proxy("simProxy", m.path))
        BY <3>7, OffersTaken DEF Becomes8
      <4> QED
        BY <3>1, <3>7, <4>1
    <3>8. CASE m.type = "simProps"
      BY <3>8, LocksAreSet DEF Becomes8
    <3>9. CASE m.type = "lock"
      BY <3>9, LockIsSet DEF Becomes8
    <3> QED
      BY <1>1, <1>4, <3>2, <3>3, <3>4, <3>5, <3>6, <3>7, <3>8, <3>9, MessageFields
  <2>3. ~HasManager(asked')
    <3>1. CASE asked' = asked
      BY <2>1, <3>1
    <3>2. CASE \E c \in Talk : asked' = Append(asked, c) /\ c.type # "manager"
      BY <1>1, <2>1, <3>2, ManagerComes
    <3>3. CASE m.type = "modems" /\ asked' = asked \o ProxiesOf(m.paths)
      <4> DEFINE b == ProxiesOf(m.paths)
                 n == Len(asked)
                 h == Len(b)
                 a == asked'
      <4>1. /\ b \in Seq(Requests) /\ b \in Seq(Talk)
            /\ \A i \in 1..h : b[i].type # "manager"
        <5>1. m.paths \in Seq(ModemPaths)
          BY <1>1, <3>3, MessageFields
        <5>2. /\ b \in Seq(Requests) /\ h = Len(m.paths)
              /\ \A i \in 1..Len(m.paths) : b[i].type = "modemProxy"
          BY <5>1, ProxiesAsked
        <5> HIDE DEF b
        <5> QED
          BY <5>2 DEF Talk
      <4> HIDE DEF b
      <4>2. /\ n \in Nat /\ h \in Nat /\ Len(a) = n + h
            /\ \A i \in 1..n + h : a[i] = IF i <= n THEN asked[i] ELSE b[i - n]
        BY <1>1, <3>3, <4>1, ConcatProperties, LenProperties DEF b
      <4>3. \A i \in 1..n : asked[i].type # "manager"
        BY <2>1 DEF HasManager
      <4> HIDE DEF n, h
      <4>4. \A i \in 1..n + h : a[i].type # "manager"
        <5>1. SUFFICES ASSUME NEW i \in 1..n + h PROVE a[i].type # "manager"
          OBVIOUS
        <5>2. (i \in 1..n /\ a[i] = asked[i]) \/ (i - n \in 1..h /\ a[i] = b[i - n])
          BY <4>2
        <5> QED
          BY <4>1, <4>3, <5>2
      <4> QED
        BY <4>2, <4>4 DEF HasManager
    <3> QED
      BY <2>2, <3>1, <3>2, <3>3
  <2> QED
    BY <1>2, <2>1, <2>3 DEF Beginning
<1>5. CASE m.type # "manager" /\ ~manager
  <2>1. /\ asked = <<Manager>> \/ asked = <<>>
        /\ asked = <<Manager>> <=> ~HasManager(wire)
        /\ \A i \in 1..Len(wire) : wire[i].type \in {"manager", "added", "removed", "interfaces", "lock"}
        /\ modems = {} /\ leaked = {}
    BY <1>5 DEF OfonoInv, Beginning
  <2>2. m.type \in {"added", "removed", "interfaces", "lock"}
    BY <1>1, <1>5, <2>1
  <2>3. asked' = asked /\ modems' = modems /\ leaked' = leaked
    <3>1. CASE m.type = "added"
      BY <1>5, <3>1, ModemAdded DEF Becomes8
    <3>2. CASE m.type = "removed"
      BY <1>5, <3>2, ModemRemoved DEF Becomes8
    <3>3. CASE m.type = "interfaces"
      BY <2>1, <3>3, OffersTaken DEF Becomes8
    <3>4. CASE m.type = "lock"
      BY <2>1, <3>4, LockIsSet DEF Becomes8
    <3> QED
      BY <2>2, <3>1, <3>2, <3>3, <3>4
  <2>4. \A i \in 1..Len(wire') :
          wire'[i].type \in {"manager", "added", "removed", "interfaces", "lock"}
    BY <1>1, <2>1, TalkGoes
  <2>5. \/ asked' = <<Manager>> /\ ~HasManager(wire')
        \/ asked' = <<>> /\ HasManager(wire')
    BY <1>2, <1>5, <2>1, <2>3
  <2> QED
    BY <1>1, <1>2, <1>5, <2>1, <2>3, <2>4, <2>5 DEF Beginning
<1> QED
  BY <1>3, <1>4, <1>5

LEMMA ReceivesFrame ==
  ASSUME OfonoInv, AgentReceives
  PROVE  Frame'
<1>1. Shape' /\ Beginning'
  BY ReceivesShape, ReceivesBeginning
<1>2. UNCHANGED <<there, lock, changes, odd>> /\ wire' \in Seq(Messages) /\ manager' \in BOOLEAN
  BY FirstMessage DEF AgentReceives
<1>3. OfonoTypeOK'
  BY <1>1, <1>2 DEF Shape, OfonoInv, OfonoTypeOK
<1>4. NothingLeft'
  BY <1>1, <1>2 DEF Shape, OfonoInv, NothingLeft
<1> QED
  BY <1>1, <1>2, <1>3, <1>4 DEF Shape, Frame, CountNeverWraps

-----------------------------------------------------------------------------
(***************************************************************************)
(* What holds of the agent.                                                *)
(***************************************************************************)
LEMMA OfonoStarts == OfonoInit => OfonoInv
<1> SUFFICES ASSUME OfonoInit
             PROVE  OfonoInv
  OBVIOUS
<1>1. /\ asked = <<Manager>> /\ wire = <<>> /\ Len(wire) = 0
      /\ manager = FALSE /\ modems = {} /\ sims = {} /\ counted = {} /\ leaked = {} /\ odd = {}
      /\ locksOf = [p \in ModemPaths |-> NoLocks]
      /\ table = [k \in Locks |-> [p \in ModemPaths |-> None]] /\ connmans = 0
      /\ there \in [ModemPaths -> {Gone} \cup [offers: Offers, is: {TRUE}]]
      /\ lock \in [ModemPaths -> LockStates]
  BY DEF OfonoInit, Manager
<1>2. \A p \in ModemPaths : /\ there[p] \in [offers: Offers, is: BOOLEAN]
                            /\ ~there[p].is => there[p].offers = {}
  <2>1. SUFFICES ASSUME NEW p \in ModemPaths
                 PROVE  /\ there[p] \in [offers: Offers, is: BOOLEAN]
                        /\ ~there[p].is => there[p].offers = {}
    OBVIOUS
  <2>2. there[p] = Gone \/ there[p] \in [offers: Offers, is: {TRUE}]
    BY <1>1
  <2>3. CASE there[p] = Gone
    <3>1. Gone \in [offers: Offers, is: BOOLEAN] /\ Gone.offers = {}
      BY DEF Gone, Offers
    <3> QED
      BY <2>3, <3>1
  <2>4. CASE there[p] \in [offers: Offers, is: {TRUE}]
    BY <2>4
  <2> QED
    BY <2>2, <2>3, <2>4
<1>3. NoLocks \in LockStates /\ Manager \in Requests
  BY DEF NoLocks, LockStates, Manager, Requests
<1>4. OfonoTypeOK
  <2>1. there \in [ModemPaths -> [offers: Offers, is: BOOLEAN]]
    BY <1>1, <1>2
  <2>2. asked \in Seq(Requests)
    BY <1>1, <1>3
  <2>3. locksOf \in [ModemPaths -> LockStates]
    BY <1>1, <1>3
  <2> QED
    BY <1>1, <2>1, <2>2, <2>3 DEF OfonoTypeOK
<1>5. Beginning /\ wire \in Seq(Messages)
  BY <1>1 DEF Beginning, HasManager, OneManager
<1>6. NothingLeft /\ IsFiniteSet(counted) /\ CountNeverWraps
  BY <1>1, <1>2, FS_EmptySet DEF NothingLeft, CountNeverWraps
<1>7. ASSUME NEW p \in ModemPaths
      PROVE  ModemRight(p)
  <2>1. Len(asked) = 1 /\ asked[1] = Manager /\ Kind(asked[1], p) = "other"
    BY <1>1 DEF Manager, Kind
  <2>2. \A k : ~Has(k, wire, p) /\ (Has(k, asked, p) => k = "other")
    BY <1>1, <2>1 DEF Has
  <2>3. /\ ~OnWay("added", p) /\ ~OnWay("removed", p) /\ ~OnWay("interfaces", p)
        /\ ~OnWay("modems", p) /\ ~OnWay("modemProxy", p) /\ ~OnWay("modemProps", p)
        /\ ~OnWay("simProxy", p) /\ ~OnWay("simProps", p)
    BY <2>2 DEF OnWay
  <2>4. InOrder(wire, asked, p)
    BY <1>1, <2>1 DEF InOrder, Follows
  <2>5. SaysSo(p)
    BY <1>1, <2>3 DEF SaysSo, AllTrue
  <2>6. Stages(p)
    BY <1>1, <2>3 DEF Stages, Early
  <2>7. Offered(p)
    BY <1>1 DEF Offered
  <2>8. LocksKnown(p)
    BY <1>1 DEF LocksKnown, LastIsRight
  <2> QED
    BY <2>4, <2>5, <2>6, <2>7, <2>8 DEF ModemRight
<1> QED
  BY <1>4, <1>5, <1>6, <1>7 DEF OfonoInv

LEMMA OfonoSteps == OfonoInv /\ [OfonoNext]_ofonoVars => OfonoInv'
<1> SUFFICES ASSUME OfonoInv, [OfonoNext]_ofonoVars
             PROVE  OfonoInv'
  OBVIOUS
<1>1. CASE UNCHANGED ofonoVars
  <2>1. Frame'
    BY <1>1 DEF Frame, OfonoInv, ofonoVars, OfonoTypeOK, Beginning, NothingLeft, CountNeverWraps
  <2>2. ASSUME NEW p \in ModemPaths \ odd'
        PROVE  ModemRight(p)'
    BY <1>1 DEF OfonoInv, ofonoVars, ModemRight, SaysSo, Stages, Early, Offered, Asking, LocksKnown, OnWay
  <2> QED
    BY <2>1, <2>2 DEF Frame, OfonoInv
<1>2. CASE \E p \in ModemPaths :
             \/ ModemGoes(p)
             \/ \E offers \in Offers : ModemComes(p, offers) \/ InterfacesChange(p, offers)
             \/ \E k \in Locks : LockChanges(p, k)
  BY <1>2, ChangesFrame, GoesRight, ComesRight, InterfacesRight, LockChangesRight DEF Frame, OfonoInv
<1>3. CASE OfonoServes
  BY <1>3, ServesFrame, ServesRight DEF Frame, OfonoInv
<1>4. CASE AgentReceives
  BY <1>4, ReceivesFrame, ReceivesRight DEF Frame, OfonoInv
<1> QED
  BY <1>1, <1>2, <1>3, <1>4 DEF OfonoNext

LEMMA OfonoIsInv == OfonoSpec => []OfonoInv
  BY OfonoStarts, OfonoSteps, PTL DEF OfonoSpec

\* When nothing is under way the agent has its manager, and what is known of a modem is so.
LEMMA InvShowsPicture == OfonoInv => PictureIsTrue
<1> SUFFICES ASSUME OfonoInv
             PROVE  PictureIsTrue
  OBVIOUS
<1>1. CountNeverWraps
  BY DEF OfonoInv
<1>2. ASSUME NEW k \in Locks, NEW p \in ModemPaths \ odd, table[k][p] # None
      PROVE  p \in sims
  BY <1>2 DEF OfonoInv, ModemRight, LocksKnown
<1>3. ASSUME asked = <<>>, wire = <<>>, NEW p \in ModemPaths \ odd
      PROVE  /\ p \in modems <=> there[p].is
             /\ p \in sims <=> "sim" \in there[p].offers
             /\ p \in counted <=> "cm" \in there[p].offers
             /\ \A k \in Locks : table[k][p] = IF p \in sims THEN lock[p][k] ELSE None
  <2>1. Len(wire) = 0 /\ Len(asked) = 0
    BY <1>3
  <2>2. manager /\ ModemRight(p) /\ sims \subseteq modems /\ counted \subseteq modems
        /\ (~there[p].is => there[p].offers = {})
    BY <1>3, <2>1 DEF OfonoInv, OfonoTypeOK, NothingLeft, Beginning, HasManager
  <2>3. /\ ~OnWay("added", p) /\ ~OnWay("removed", p) /\ ~OnWay("interfaces", p)
        /\ ~OnWay("modems", p) /\ ~OnWay("modemProxy", p) /\ ~OnWay("modemProps", p)
        /\ ~OnWay("simProxy", p) /\ ~OnWay("simProps", p)
    BY <2>1 DEF OnWay, Has
  <2>4. \A k : ~Carried(wire, p, k)
    BY <2>1 DEF Carried
  <2>5. p \in modems <=> there[p].is
    BY <2>2, <2>3 DEF ModemRight, Stages, Early
  <2>6. p \in sims <=> "sim" \in there[p].offers
    BY <2>2, <2>3, <2>5 DEF ModemRight, Offered, Asking
  <2>7. p \in counted <=> "cm" \in there[p].offers
    BY <2>2, <2>3, <2>5 DEF ModemRight, Offered, Asking
  <2>8. \A k \in Locks : table[k][p] = IF p \in sims THEN lock[p][k] ELSE None
    BY <2>2, <2>3, <2>4, <2>6 DEF ModemRight, LocksKnown
  <2> QED
    BY <2>5, <2>6, <2>7, <2>8
<1> QED
  BY <1>1, <1>2, <1>3 DEF PictureIsTrue, Mirrors, LocksHaveSim

\* The agent's state is of its type: the modems with a SIM and with a
\* ConnectionManager are modems (carrick-ofono-agent.c, ModemData).
THEOREM OfonoTypeCorrect == OfonoSpec => []OfonoTypeOK
<1>1. OfonoInv => OfonoTypeOK
  BY DEF OfonoInv
<1> QED
  BY <1>1, OfonoIsInv, PTL

\* The number of modems with a ConnectionManager is not taken below zero, only PINs of SIMs
\* that are there are asked for, and when all is quiet the agent's picture of a modem is
\* oFono's, unless the modem changed while the agent was busy with it
\* (carrick_ofono_agent_modem_property_changed, _remove_modem, _get_modems_cb).
THEOREM OfonoPicture == OfonoSpec => []PictureIsTrue
  BY OfonoIsInv, InvShowsPicture, PTL
(***************************************************************************)
(* The list, its icon and its notes.  The mirror is a function of what     *)
(* came; every call is answered or dropped, every change comes as a word.  *)
(***************************************************************************)
LEMMA Least ==
  ASSUME NEW T \in SUBSET Nat, T # {}
  PROVE  \E m \in T : \A n \in T : m <= n
<1> DEFINE R == OpToRel(<, Nat)
<1>1. IsWellFoundedOn(R, Nat)
  BY NatLessThanWellFounded
<1>2. \E m \in T : \A n \in T : <<n, m>> \notin R
  <2> HIDE DEF R
  <2> QED BY <1>1, WFMin
<1>3. \A n, m \in Nat : <<n, m>> \in R <=> n < m
  BY DEF OpToRel
<1>4. PICK m \in T : \A n \in T : <<n, m>> \notin R
  BY <1>2
<1>5. ASSUME NEW n \in T PROVE m <= n
  <2>1. ~(n < m)
    BY <1>3, <1>4
  <2> QED BY <2>1
<1> QED BY <1>5

\* A recursive function exists if each of its steps can be taken,
StepsIn(D, N) == [1..N -> [D -> D]]
PathsIn(D, N) == [0..N -> D]

LEMMA Runs ==
  ASSUME NEW D, NEW s \in D, NEW N \in Nat, NEW g \in StepsIn(D, N)
  PROVE  \E h \in PathsIn(D, N) : h[0] = s /\ \A n \in 1..N : h[n] = g[n][h[n - 1]]
<1> DEFINE F(h, m) == [n \in 0..m |-> IF n = 0 THEN s ELSE g[n][h[n - 1]]]
           P(m) == \E h \in [0..m -> D] : h = F(h, m)
           bad == {m \in 0..N : ~P(m)}
<1>0. g \in [1..N -> [D -> D]]
  BY DEF StepsIn
<1>1. bad = {}
  <2>1. SUFFICES ASSUME bad # {} PROVE FALSE
    OBVIOUS
  <2>2. bad \in SUBSET Nat
    OBVIOUS
  <2>3. PICK m \in bad : \A n \in bad : m <= n
    BY <2>1, <2>2, Least
  <2>4. m \in 0..N /\ m \in Nat /\ ~P(m)
    OBVIOUS
  <2>5. CASE m = 0
    <3> DEFINE h == [n \in 0..0 |-> s]
    <3>1. h \in [0..0 -> D] /\ h = F(h, 0)
      OBVIOUS
    <3> QED BY <2>4, <2>5, <3>1
  <2>6. CASE m # 0
    <3>1. m - 1 \in 0..N /\ m - 1 \notin bad
      <4> HIDE DEF bad
      <4> QED BY <2>2, <2>3, <2>4, <2>6
    <3>2. PICK h \in [0..(m - 1) -> D] : h = F(h, m - 1)
      BY <3>1
    <3> DEFINE k == [n \in 0..m |-> IF n = m THEN g[m][h[m - 1]] ELSE h[n]]
    <3>3. h[m - 1] \in D /\ g[m] \in [D -> D]
      BY <1>0, <2>4, <2>6
    <3>4. k \in [0..m -> D]
      <4>1. \A n \in 0..m : n # m => n \in 0..(m - 1)
        BY <2>4
      <4>2. \A n \in 0..m : (IF n = m THEN g[m][h[m - 1]] ELSE h[n]) \in D
        BY <3>3, <4>1
      <4> QED BY <4>2
    <3>5. ASSUME NEW n \in 0..m PROVE k[n] = IF n = 0 THEN s ELSE g[n][k[n - 1]]
      <4>1. CASE n = 0
        <5>1. h[0] = s /\ 0 \in 0..(m - 1)
          BY <2>4, <2>6, <3>2
        <5> QED BY <4>1, <5>1, <2>6
      <4>2. CASE n # 0 /\ n # m
        <5>1. n \in 0..(m - 1) /\ n - 1 \in 0..(m - 1) /\ n - 1 # m /\ n - 1 \in 0..m
          BY <2>4, <4>2
        <5>2. h[n] = g[n][h[n - 1]]
          BY <3>2, <4>2, <5>1
        <5> QED BY <4>2, <5>1, <5>2
      <4>3. CASE n = m
        <5>1. m - 1 \in 0..m /\ m - 1 # m
          BY <2>4, <2>6
        <5> QED BY <4>3, <5>1, <2>6
      <4> QED BY <4>1, <4>2, <4>3
    <3>6. k = F(k, m)
      <4>1. k = [n \in 0..m |-> k[n]]
        OBVIOUS
      <4> HIDE DEF k
      <4>2. F(k, m) = [n \in 0..m |-> k[n]]
        BY <3>5
      <4> QED BY <4>1, <4>2
    <3> HIDE DEF k
    <3> QED BY <2>4, <3>4, <3>6
  <2> QED BY <2>5, <2>6
<1>2. P(N)
  <2> HIDE DEF P
  <2> QED BY <1>1
<1>3. PICK h \in [0..N -> D] : h = F(h, N)
  BY <1>2
<1>4. 0 \in 0..N /\ \A n \in 1..N : n \in 0..N /\ n # 0
  OBVIOUS
<1>5. h[0] = s /\ \A n \in 1..N : h[n] = g[n][h[n - 1]]
  <2>1. h[0] = F(h, N)[0] /\ \A n \in 1..N : h[n] = F(h, N)[n]
    <3> HIDE DEF F
    <3> QED BY <1>3
  <2> QED BY <1>4, <2>1
<1> QED BY <1>5 DEF PathsIn

\* The index is the place of a row, and every row is listed.
Placed(s) == /\ DOMAIN s.rows = ToSet(s.listed)
             /\ \A i \in DOMAIN s.listed : s.rows[s.listed[i]].index = i - 1
\* The user knows of the connection; the first row is the one that was looked at last.
TopIsTold(s) == s.last.up => s.told = s.last.name
TopIsShown(s) == s.listed # <<>> => s.last = ShownAs(s.listed[1], s.rows[s.listed[1]])

(***************************************************************************)
(* States are records.                                                     *)
(***************************************************************************)
RowTables == UNION {[D -> MirrorRow] : D \in SUBSET Services}
Callees == Services \cup {"manager", "nobody"}
Tellable == Services \cup {"", "nothing"}
NetStates == [rows: RowTables, listed: ServiceLists, kept: SUBSET Services, last: Connection,
              queued: Connection, note: BOOLEAN, told: Tellable, queries: Seq(Callees),
              incoming: Seq(NetMessages)]

LEMMA NetParts ==
  ASSUME NEW s \in NetStates
  PROVE  /\ s.rows \in RowTables /\ s.listed \in ServiceLists /\ s.kept \in SUBSET Services
         /\ s.last \in Connection /\ s.queued \in Connection /\ s.note \in BOOLEAN
         /\ s.told \in Tellable /\ s.queries \in Seq(Callees) /\ s.incoming \in Seq(NetMessages)
BY DEF NetStates

LEMMA Tables ==
  ASSUME NEW r
  PROVE  r \in RowTables <=> /\ DOMAIN r \in SUBSET Services /\ r = [p \in DOMAIN r |-> r[p]]
                             /\ \A p \in DOMAIN r : r[p] \in MirrorRow
<1>1. ASSUME r \in RowTables
      PROVE  /\ DOMAIN r \in SUBSET Services /\ r = [p \in DOMAIN r |-> r[p]]
             /\ \A p \in DOMAIN r : r[p] \in MirrorRow
  <2>1. PICK D \in SUBSET Services : r \in [D -> MirrorRow]
    BY <1>1 DEF RowTables
  <2> QED BY <2>1
<1>2. ASSUME DOMAIN r \in SUBSET Services, r = [p \in DOMAIN r |-> r[p]],
             \A p \in DOMAIN r : r[p] \in MirrorRow
      PROVE  r \in RowTables
  <2>1. r \in [DOMAIN r -> MirrorRow]
    BY <1>2
  <2> QED BY <1>2, <2>1 DEF RowTables
<1> QED BY <1>1, <1>2

LEMMA OrdersAre ==
  ASSUME NetAssumption, NEW q \in ServiceLists
  PROVE  /\ q \in Seq(Services) /\ Len(q) \in Nat /\ DOMAIN q = 1..Len(q)
         /\ \A i \in DOMAIN q : q[i] \in Services
         /\ \A i, j \in DOMAIN q : q[i] = q[j] => i = j
         /\ \A p : p \in ToSet(q) <=> \E i \in DOMAIN q : q[i] = p
         /\ q = <<>> <=> DOMAIN q = {}
<1>1. PICK n \in 0..Cardinality(Services) : q \in [1..n -> Services]
  BY DEF ServiceLists, SeqOf
<1>2. n \in Nat
  BY <1>1
<1>3. q \in Seq(Services) /\ Len(q) \in Nat /\ DOMAIN q = 1..Len(q)
  BY <1>1, <1>2
<1>4. \A i, j \in DOMAIN q : q[i] = q[j] => i = j
  BY DEF ServiceLists, IsInjective
<1>5. \A p : p \in ToSet(q) <=> \E i \in DOMAIN q : q[i] = p
  BY DEF ToSet
<1>6. q = <<>> <=> DOMAIN q = {}
  <2>1. q # <<>> => Len(q) \in Nat \ {0}
    BY <1>3, EmptySeq
  <2>2. q # <<>> => 1 \in DOMAIN q
    BY <1>3, <2>1
  <2>3. DOMAIN <<>> = {}
    OBVIOUS
  <2> QED BY <2>2, <2>3
<1> QED BY <1>1, <1>3, <1>4, <1>5, <1>6

LEMMA NoneIsAnOrder == ASSUME NetAssumption PROVE <<>> \in ServiceLists
<1>1. Cardinality(Services) \in Nat
  BY FS_CardinalityType DEF NetAssumption
<1>2. 0 \in 0..Cardinality(Services) /\ <<>> \in [1..0 -> Services]
  BY <1>1
<1>3. <<>> \in SeqOf(Services, Cardinality(Services))
  BY <1>2 DEF SeqOf
<1>4. IsInjective(<<>>)
  BY DEF IsInjective
<1> QED BY <1>3, <1>4 DEF ServiceLists

LEMMA NetSetField ==
  ASSUME NEW S \in NetStates
  PROVE  /\ \A x \in RowTables : LET R == [S EXCEPT !.rows = x] IN
              /\ R \in NetStates /\ R.rows = x /\ R.listed = S.listed /\ R.kept = S.kept
              /\ R.last = S.last /\ R.queued = S.queued /\ R.note = S.note /\ R.told = S.told
              /\ R.queries = S.queries /\ R.incoming = S.incoming
         /\ \A x \in ServiceLists : LET R == [S EXCEPT !.listed = x] IN
              /\ R \in NetStates /\ R.rows = S.rows /\ R.listed = x /\ R.kept = S.kept
              /\ R.last = S.last /\ R.queued = S.queued /\ R.note = S.note /\ R.told = S.told
              /\ R.queries = S.queries /\ R.incoming = S.incoming
         /\ \A x \in SUBSET Services : LET R == [S EXCEPT !.kept = x] IN
              /\ R \in NetStates /\ R.rows = S.rows /\ R.listed = S.listed /\ R.kept = x
              /\ R.last = S.last /\ R.queued = S.queued /\ R.note = S.note /\ R.told = S.told
              /\ R.queries = S.queries /\ R.incoming = S.incoming
         /\ \A x \in Seq(Callees) : LET R == [S EXCEPT !.queries = x] IN
              /\ R \in NetStates /\ R.rows = S.rows /\ R.listed = S.listed /\ R.kept = S.kept
              /\ R.last = S.last /\ R.queued = S.queued /\ R.note = S.note /\ R.told = S.told
              /\ R.queries = x /\ R.incoming = S.incoming
         /\ \A x \in Seq(NetMessages) : LET R == [S EXCEPT !.incoming = x] IN
              /\ R \in NetStates /\ R.rows = S.rows /\ R.listed = S.listed /\ R.kept = S.kept
              /\ R.last = S.last /\ R.queued = S.queued /\ R.note = S.note /\ R.told = S.told
              /\ R.queries = S.queries /\ R.incoming = x
<1> DEFINE A == RowTables
           B == ServiceLists
           C == SUBSET Services
           F == Connection
           G == Tellable
           H == Seq(Callees)
           I == Seq(NetMessages)
<1>1. NetStates = [rows: A, listed: B, kept: C, last: F, queued: F, note: BOOLEAN, told: G,
                   queries: H, incoming: I]
  BY DEF NetStates
<1> HIDE DEF A, B, C, F, G, H, I
<1>2. \A x \in A : LET R == [S EXCEPT !.rows = x] IN
              /\ R \in NetStates /\ R.rows = x /\ R.listed = S.listed /\ R.kept = S.kept
              /\ R.last = S.last /\ R.queued = S.queued /\ R.note = S.note /\ R.told = S.told
              /\ R.queries = S.queries /\ R.incoming = S.incoming
  BY <1>1
<1>3. \A x \in B : LET R == [S EXCEPT !.listed = x] IN
              /\ R \in NetStates /\ R.rows = S.rows /\ R.listed = x /\ R.kept = S.kept
              /\ R.last = S.last /\ R.queued = S.queued /\ R.note = S.note /\ R.told = S.told
              /\ R.queries = S.queries /\ R.incoming = S.incoming
  BY <1>1
<1>4. \A x \in C : LET R == [S EXCEPT !.kept = x] IN
              /\ R \in NetStates /\ R.rows = S.rows /\ R.listed = S.listed /\ R.kept = x
              /\ R.last = S.last /\ R.queued = S.queued /\ R.note = S.note /\ R.told = S.told
              /\ R.queries = S.queries /\ R.incoming = S.incoming
  BY <1>1
<1>5. \A x \in H : LET R == [S EXCEPT !.queries = x] IN
              /\ R \in NetStates /\ R.rows = S.rows /\ R.listed = S.listed /\ R.kept = S.kept
              /\ R.last = S.last /\ R.queued = S.queued /\ R.note = S.note /\ R.told = S.told
              /\ R.queries = x /\ R.incoming = S.incoming
  BY <1>1
<1>6. \A x \in I : LET R == [S EXCEPT !.incoming = x] IN
              /\ R \in NetStates /\ R.rows = S.rows /\ R.listed = S.listed /\ R.kept = S.kept
              /\ R.last = S.last /\ R.queued = S.queued /\ R.note = S.note /\ R.told = S.told
              /\ R.queries = S.queries /\ R.incoming = x
  BY <1>1
<1> QED BY <1>2, <1>3, <1>4, <1>5, <1>6 DEF A, B, C, H, I

(***************************************************************************)
(* A row is looked at, put and told of.                                    *)
(***************************************************************************)
LEMMA NotifiedIs ==
  ASSUME NEW s \in NetStates, NEW c \in Connection, NEW inSight \in BOOLEAN
  PROVE  LET t == Notified(s, c, inSight)
         IN /\ t \in NetStates /\ t.rows = s.rows /\ t.listed = s.listed /\ t.kept = s.kept
            /\ t.queries = s.queries /\ t.incoming = s.incoming /\ t.last = c
            /\ TopIsTold(s) => TopIsTold(t)
<1> DEFINE A == RowTables
           B == ServiceLists
           C == SUBSET Services
           F == Connection
           G == Tellable
           H == Seq(Callees)
           I == Seq(NetMessages)
           t == Notified(s, c, inSight)
           same  == s.last.name = c.name
           tells == IF same THEN s.last.up # c.up ELSE c.up
           told1 == IF c.up THEN c.name ELSE "nothing"
           told2 == IF ~tells THEN s.told ELSE IF c.up THEN c.name ELSE "nothing"
           note2 == s.note \/ (tells /\ ~inSight)
<1>1. NetStates = [rows: A, listed: B, kept: C, last: F, queued: F, note: BOOLEAN, told: G,
                   queries: H, incoming: I]
  BY DEF NetStates
<1>2. told1 \in G /\ told2 \in G /\ note2 \in BOOLEAN /\ NoConnection \in F /\ c \in F
  <2>1. c.name \in Services \cup {"", "nothing"} /\ s.told \in G
    BY NetParts DEF Connection
  <2>2. s.note \in BOOLEAN
    BY NetParts
  <2> QED BY <2>1, <2>2 DEF Tellable, Connection, NoConnection
<1>3. t = IF s.queued = c THEN [s EXCEPT !.queued = NoConnection, !.last = c, !.told = told1]
          ELSE [s EXCEPT !.last = c, !.note = note2, !.told = told2]
  BY DEF Notified
<1>4. c.up \in BOOLEAN /\ s.last.up \in BOOLEAN
  BY NetParts DEF Connection
<1>5. TopIsTold(s) /\ c.up => told2 = c.name
  BY <1>4 DEF TopIsTold
<1> HIDE DEF A, B, C, F, G, H, I, t, told1, told2, note2
<1>6. CASE s.queued = c
  <2>1. t = [s EXCEPT !.queued = NoConnection, !.last = c, !.told = told1]
    BY <1>3, <1>6
  <2>2. /\ t \in NetStates /\ t.rows = s.rows /\ t.listed = s.listed /\ t.kept = s.kept
        /\ t.queries = s.queries /\ t.incoming = s.incoming /\ t.last = c /\ t.told = told1
    BY <1>1, <1>2, <2>1
  <2> QED BY <2>2 DEF TopIsTold, told1, t
<1>7. CASE s.queued # c
  <2>1. t = [s EXCEPT !.last = c, !.note = note2, !.told = told2]
    BY <1>3, <1>7
  <2>2. /\ t \in NetStates /\ t.rows = s.rows /\ t.listed = s.listed /\ t.kept = s.kept
        /\ t.queries = s.queries /\ t.incoming = s.incoming /\ t.last = c /\ t.told = told2
    BY <1>1, <1>2, <2>1
  <2>3. TopIsTold(s) => TopIsTold(t)
    BY <1>5, <2>2 DEF TopIsTold
  <2> QED BY <2>2, <2>3 DEF t
<1> QED BY <1>6, <1>7

LEMMA ShownIs ==
  ASSUME NEW p \in Services, NEW rec \in MirrorRow
  PROVE  ShownAs(p, rec) \in Connection
BY DEF ShownAs, Connection, MirrorRow

\* q is r with p's row put.
WithRow(r, q, p, rec) ==
  /\ \A x : x \in DOMAIN q <=> x \in DOMAIN r \/ x = p
  /\ q[p] = rec /\ \A x \in DOMAIN r : x # p => q[x] = r[x]

LEMMA PutRowIs ==
  ASSUME NEW s \in NetStates, NEW p \in Services, NEW rec \in MirrorRow, NEW inSight \in BOOLEAN
  PROVE  LET t == PutRow(s, p, rec, inSight)
         IN /\ t \in NetStates /\ WithRow(s.rows, t.rows, p, rec) /\ t.listed = s.listed
            /\ t.kept = s.kept /\ t.queries = s.queries /\ t.incoming = s.incoming
            /\ rec.index = 0 => t.last = ShownAs(p, rec)
            /\ rec.index # 0 => t.last = s.last
            /\ TopIsTold(s) => TopIsTold(t)
<1> DEFINE lines == [x \in DOMAIN s.rows \cup {p} |-> IF x = p THEN rec ELSE s.rows[x]]
           u == [s EXCEPT !.rows = lines]
           t == PutRow(s, p, rec, inSight)
<1>1. /\ s.rows \in RowTables /\ DOMAIN s.rows \in SUBSET Services
      /\ \A x \in DOMAIN s.rows : s.rows[x] \in MirrorRow
  BY NetParts, Tables
<1>2. lines \in RowTables /\ WithRow(s.rows, lines, p, rec)
  <2>1. /\ DOMAIN lines = {p} \cup DOMAIN s.rows /\ lines = [x \in DOMAIN lines |-> lines[x]]
        /\ lines[p] = rec /\ \A x \in DOMAIN s.rows : x # p => lines[x] = s.rows[x]
    OBVIOUS
  <2> HIDE DEF lines
  <2>2. \A x \in DOMAIN lines : lines[x] \in MirrorRow
    BY <1>1, <2>1
  <2> QED BY <1>1, <2>1, <2>2, Tables DEF WithRow
<1>3. t = IF rec.index = 0 THEN Notified(u, ShownAs(p, u.rows[p]), inSight) ELSE u
  BY DEF PutRow, Emitted
<1> HIDE DEF lines
<1>4. /\ u \in NetStates /\ u.rows = lines /\ u.listed = s.listed /\ u.kept = s.kept
      /\ u.last = s.last /\ u.queued = s.queued /\ u.note = s.note /\ u.told = s.told
      /\ u.queries = s.queries /\ u.incoming = s.incoming
  BY <1>2, NetSetField
<1> HIDE DEF u, t
<1>5. TopIsTold(s) => TopIsTold(u)
  BY <1>4 DEF TopIsTold
<1>6. CASE rec.index = 0
  <2>1. u.rows[p] = rec /\ ShownAs(p, rec) \in Connection
    BY <1>2, <1>4, ShownIs DEF WithRow
  <2>2. t = Notified(u, ShownAs(p, rec), inSight)
    BY <1>3, <1>6, <2>1
  <2>3. /\ t \in NetStates /\ t.rows = u.rows /\ t.listed = u.listed /\ t.kept = u.kept
        /\ t.queries = u.queries /\ t.incoming = u.incoming /\ t.last = ShownAs(p, rec)
        /\ TopIsTold(u) => TopIsTold(t)
    BY <1>4, <2>1, <2>2, NotifiedIs
  <2> QED BY <1>2, <1>4, <1>5, <1>6, <2>3 DEF t
<1>7. CASE rec.index # 0
  <2>1. t = u
    BY <1>3, <1>7
  <2> QED BY <1>2, <1>4, <1>5, <1>7, <2>1 DEF t
<1> QED BY <1>6, <1>7

LEMMA TopRowIs ==
  ASSUME NEW r \in RowTables, DOMAIN r # {}
  PROVE  TopRow(r) \in DOMAIN r /\ \A q \in DOMAIN r : r[TopRow(r)].index <= r[q].index
<1>1. \A p \in DOMAIN r : r[p].index \in Nat
  BY Tables DEF MirrorRow
<1> DEFINE T == {r[p].index : p \in DOMAIN r}
<1>2. T \in SUBSET Nat /\ T # {}
  BY <1>1
<1>3. PICK m \in T : \A n \in T : m <= n
  <2> HIDE DEF T
  <2> QED BY <1>2, Least
<1>4. PICK p \in DOMAIN r : r[p].index = m
  OBVIOUS
<1>5. \A q \in DOMAIN r : r[p].index <= r[q].index
  BY <1>3, <1>4
<1> QED BY <1>5 DEF TopRow

(***************************************************************************)
(* Messages and calls that find nobody.                                    *)
(***************************************************************************)
IsList(m) == m.kind = "services"

\* r is q, where what is about a path that is not in P may find nobody.
Quieter(q, r, P) ==
  /\ DOMAIN r = DOMAIN q
  /\ \A j \in DOMAIN q : \/ r[j] = q[j]
                         \/ r[j] = Void /\ ~IsList(q[j]) /\ q[j].path \notin P

LEMMA VoidIs ==
  ASSUME NetAssumption
  PROVE  Void \in NetMessages /\ ~IsList(Void) /\ Void.kind = "void" /\ Void.run = 0
<1>1. <<>> \in ServiceLists
  BY NoneIsAnOrder
<1> QED BY <1>1 DEF Void, NetMessages, IsList, NetKinds

LEMMA UnheardIs ==
  ASSUME NetAssumption, NEW q \in Seq(NetMessages), NEW p, NEW kinds, "services" \notin kinds
  PROVE  LET r == Unheard(q, p, kinds)
         IN r \in Seq(NetMessages) /\ \A P : p \notin P => Quieter(q, r, P)
<1> DEFINE r == Unheard(q, p, kinds)
<1>1. /\ DOMAIN q = 1..Len(q) /\ Len(q) \in Nat /\ DOMAIN r = DOMAIN q
      /\ \A j \in DOMAIN q : q[j] \in NetMessages
      /\ \A j \in DOMAIN q : r[j] = IF q[j].kind \in kinds /\ q[j].path = p THEN Void ELSE q[j]
      /\ r = [j \in 1..Len(q) |-> r[j]]
  BY DEF Unheard
<1> HIDE DEF r
<1>2. \A j \in 1..Len(q) : r[j] \in NetMessages
  BY <1>1, VoidIs
<1>3. r \in Seq(NetMessages)
  <2>1. r \in [1..Len(q) -> NetMessages]
    BY <1>1, <1>2
  <2> QED BY <1>1, <2>1, SeqDef
<1>4. ASSUME NEW P, p \notin P PROVE Quieter(q, r, P)
  BY <1>1, <1>4 DEF Quieter, IsList
<1> QED BY <1>3, <1>4 DEF r

LEMMA CancelledIs ==
  ASSUME NEW q \in Seq(Callees), NEW p
  PROVE  LET r == Cancelled(q, p)
         IN r \in Seq(Callees) /\ DOMAIN r = DOMAIN q /\ \A j \in DOMAIN q : q[j] # p => r[j] = q[j]
<1> DEFINE r == Cancelled(q, p)
<1>1. /\ DOMAIN q = 1..Len(q) /\ Len(q) \in Nat /\ DOMAIN r = DOMAIN q
      /\ \A j \in DOMAIN q : q[j] \in Callees
      /\ \A j \in DOMAIN q : r[j] = IF q[j] = p THEN "nobody" ELSE q[j]
      /\ r = [j \in 1..Len(q) |-> r[j]]
  BY DEF Cancelled
<1> HIDE DEF r
<1>2. \A j \in 1..Len(q) : r[j] \in Callees
  BY <1>1 DEF Callees
<1>3. r \in Seq(Callees)
  <2>1. r \in [1..Len(q) -> Callees]
    BY <1>1, <1>2
  <2> QED BY <1>1, <2>1, SeqDef
<1> QED BY <1>1, <1>3 DEF r

LEMMA QuieterYet ==
  ASSUME NEW q, NEW r, NEW t, NEW P, Quieter(q, r, P), Quieter(r, t, P)
  PROVE  Quieter(q, t, P)
<1>1. ASSUME NEW j \in DOMAIN q
      PROVE  t[j] = q[j] \/ (t[j] = Void /\ ~IsList(q[j]) /\ q[j].path \notin P)
  <2>1. j \in DOMAIN r /\ (r[j] = q[j] \/ (r[j] = Void /\ ~IsList(q[j]) /\ q[j].path \notin P))
    BY DEF Quieter
  <2>2. t[j] = r[j] \/ (t[j] = Void /\ ~IsList(r[j]) /\ r[j].path \notin P)
    BY <2>1 DEF Quieter
  <2>3. CASE r[j] = q[j]
    BY <2>2, <2>3
  <2>4. CASE r[j] # q[j]
    BY <2>1, <2>2, <2>4
  <2> QED BY <2>3, <2>4
<1> QED BY <1>1 DEF Quieter

LEMMA QuieterSelf == ASSUME NEW q, NEW P PROVE Quieter(q, q, P)
BY DEF Quieter

LEMMA AppendIs ==
  ASSUME NEW X, NEW q \in Seq(X), NEW x \in X
  PROVE  LET r == Append(q, x)
         IN /\ r \in Seq(X) /\ Len(r) = Len(q) + 1 /\ DOMAIN r = 1 .. Len(q) + 1
            /\ r[Len(q) + 1] = x /\ \A j \in DOMAIN q : j \in DOMAIN r /\ r[j] = q[j]
            /\ DOMAIN q = 1..Len(q) /\ Len(q) \in Nat
BY AppendProperties

LEMMA TailIs ==
  ASSUME NEW X, NEW q \in Seq(X), q # <<>>
  PROVE  LET r == Tail(q)
         IN /\ r \in Seq(X) /\ Len(r) = Len(q) - 1 /\ DOMAIN r = 1 .. Len(q) - 1
            /\ \A j \in DOMAIN r : j + 1 \in DOMAIN q /\ r[j] = q[j + 1]
            /\ Head(q) = q[1] /\ Head(q) \in X /\ 1 \in DOMAIN q
            /\ DOMAIN q = 1..Len(q) /\ Len(q) \in Nat /\ Len(q) >= 1
<1>1. Len(q) \in Nat \ {0} /\ DOMAIN q = 1..Len(q)
  BY EmptySeq
<1>2. /\ Tail(q) \in Seq(X) /\ Len(Tail(q)) = Len(q) - 1
      /\ \A i \in 1 .. Len(q) - 1 : Tail(q)[i] = q[i + 1]
      /\ Head(q) = q[1] /\ Head(q) \in X
  BY HeadTailProperties
<1>3. DOMAIN Tail(q) = 1 .. Len(q) - 1
  BY <1>1, <1>2
<1> QED BY <1>1, <1>2, <1>3

\* Somebody waits for p's properties.
Asked(s, p) == \E k \in DOMAIN s.queries : s.queries[k] = p

(***************************************************************************)
(* A list of services: rows enter or move, and leave.                      *)
(***************************************************************************)
\* What a list leaves of a row.
SameState(rec, old) == rec.up = old.up /\ rec.named = old.named /\ rec.run = old.run

\* t is s after p's row has entered, or moved, to a place.
RowEntered(s, t, p, index, run) ==
  /\ t \in NetStates /\ t.listed = s.listed /\ t.kept = s.kept
  /\ \A x : x \in DOMAIN t.rows <=> (x \in DOMAIN s.rows \/ x = p)
  /\ \A x \in DOMAIN s.rows : x # p => t.rows[x] = s.rows[x]
  /\ t.rows[p].index = index
  /\ p \in DOMAIN s.rows => SameState(t.rows[p], s.rows[p])
  /\ p \notin DOMAIN s.rows => t.rows[p].run = run /\ Asked(t, p)
  /\ \A x : Asked(s, x) => Asked(t, x)
  /\ \A P : (p \notin P \/ p \in DOMAIN s.rows) => Quieter(s.incoming, t.incoming, P)
  /\ index # 0 => t.last = s.last
  /\ index = 0 /\ (p \in DOMAIN s.rows /\ s.rows[p].index = 0 => s.last = ShownAs(p, s.rows[p])) =>
       t.last = ShownAs(p, t.rows[p])
  /\ TopIsTold(s) => TopIsTold(t)

LEMMA EnterRowIs ==
  ASSUME NetAssumption, NEW s \in NetStates, NEW p \in Services, NEW index \in Nat, NEW run \in Nat,
         NEW inSight \in BOOLEAN
  PROVE  RowEntered(s, EnterRow(s, p, index, run, inSight), p, index, run)
<1> DEFINE t == EnterRow(s, p, index, run, inSight)
           quiet == IF p \in s.kept THEN s.incoming
                    ELSE Unheard(s.incoming, p, {"state", "passphrase", "properties"})
           calls == Append(s.queries, p)
           u == [s EXCEPT !.queries = calls]
           query == [u EXCEPT !.incoming = quiet]
           new == [index |-> index, up |-> FALSE, named |-> FALSE, run |-> run]
           moved == [s.rows[p] EXCEPT !.index = index]
<1>1. t = IF p \notin DOMAIN s.rows THEN PutRow(query, p, new, inSight)
          ELSE IF s.rows[p].index # index THEN PutRow(s, p, moved, inSight) ELSE s
  <2>1. [s EXCEPT !.queries = Append(@, p),
                  !.incoming = IF p \in s.kept THEN @
                               ELSE Unheard(@, p, {"state", "passphrase", "properties"})] = query
    BY DEF NetStates
  <2> QED BY <2>1 DEF EnterRow
<1>2. calls \in Seq(Callees) /\ \E k \in DOMAIN calls : calls[k] = p
      /\ \A j \in DOMAIN s.queries : j \in DOMAIN calls /\ calls[j] = s.queries[j]
  <2>1. s.queries \in Seq(Callees) /\ p \in Callees
    BY NetParts DEF Callees
  <2>2. /\ calls \in Seq(Callees) /\ DOMAIN calls = 1 .. Len(s.queries) + 1
        /\ calls[Len(s.queries) + 1] = p /\ Len(s.queries) \in Nat
        /\ \A j \in DOMAIN s.queries : j \in DOMAIN calls /\ calls[j] = s.queries[j]
    BY <2>1, AppendIs
  <2>3. Len(s.queries) + 1 \in DOMAIN calls
    BY <2>2
  <2> QED BY <2>2, <2>3
<1>3. quiet \in Seq(NetMessages) /\ \A P : p \notin P => Quieter(s.incoming, quiet, P)
  <2>1. CASE p \in s.kept
    BY <2>1, NetParts, QuieterSelf
  <2>2. CASE p \notin s.kept
    <3>1. "services" \notin {"state", "passphrase", "properties"} /\ s.incoming \in Seq(NetMessages)
      BY NetParts
    <3> QED BY <2>2, <3>1, UnheardIs
  <2> QED BY <2>1, <2>2
<1> HIDE DEF calls, quiet
<1>4. /\ u \in NetStates /\ u.rows = s.rows /\ u.listed = s.listed /\ u.kept = s.kept
      /\ u.last = s.last /\ u.told = s.told /\ u.queries = calls /\ u.incoming = s.incoming
  BY <1>2, NetSetField
<1> HIDE DEF u
<1>5. /\ query \in NetStates /\ query.rows = s.rows /\ query.listed = s.listed
      /\ query.kept = s.kept /\ query.last = s.last /\ query.told = s.told
      /\ query.queries = calls /\ query.incoming = quiet
  BY <1>3, <1>4, NetSetField
<1> HIDE DEF query, t
<1>6. ASSUME p \notin DOMAIN s.rows PROVE RowEntered(s, t, p, index, run)
  <2>1. new \in MirrorRow /\ new.index = index /\ new.run = run
    BY DEF MirrorRow
  <2>2. t = PutRow(query, p, new, inSight)
    BY <1>1, <1>6
  <2> HIDE DEF new
  <2>3. /\ t \in NetStates /\ WithRow(query.rows, t.rows, p, new) /\ t.listed = query.listed
        /\ t.kept = query.kept /\ t.queries = query.queries /\ t.incoming = query.incoming
        /\ new.index = 0 => t.last = ShownAs(p, new)
        /\ new.index # 0 => t.last = query.last
        /\ TopIsTold(query) => TopIsTold(t)
    BY <1>5, <2>1, <2>2, PutRowIs
  <2>4. Asked(t, p) /\ \A x : Asked(s, x) => Asked(t, x)
    BY <1>2, <1>5, <2>3 DEF Asked
  <2>5. TopIsTold(s) => TopIsTold(t)
    BY <1>5, <2>3 DEF TopIsTold
  <2>6. /\ \A x : x \in DOMAIN t.rows <=> (x \in DOMAIN s.rows \/ x = p)
        /\ \A x \in DOMAIN s.rows : x # p => t.rows[x] = s.rows[x]
        /\ t.rows[p] = new
    BY <1>5, <2>3 DEF WithRow
  <2>7. \A P : p \notin P => Quieter(s.incoming, t.incoming, P)
    BY <1>3, <1>5, <2>3
  <2> QED BY <1>5, <1>6, <2>1, <2>3, <2>4, <2>5, <2>6, <2>7 DEF RowEntered
<1>7. ASSUME p \in DOMAIN s.rows, s.rows[p].index # index
      PROVE  RowEntered(s, t, p, index, run)
  <2>1. s.rows[p] \in MirrorRow
    BY <1>7, NetParts, Tables
  <2>2. moved \in MirrorRow /\ moved.index = index /\ SameState(moved, s.rows[p])
    BY <2>1 DEF MirrorRow, SameState
  <2>3. t = PutRow(s, p, moved, inSight)
    BY <1>1, <1>7
  <2> HIDE DEF moved
  <2>4. /\ t \in NetStates /\ WithRow(s.rows, t.rows, p, moved) /\ t.listed = s.listed
        /\ t.kept = s.kept /\ t.queries = s.queries /\ t.incoming = s.incoming
        /\ moved.index = 0 => t.last = ShownAs(p, moved)
        /\ moved.index # 0 => t.last = s.last
        /\ TopIsTold(s) => TopIsTold(t)
    BY <2>2, <2>3, PutRowIs
  <2>5. \A x : Asked(s, x) => Asked(t, x)
    BY <2>4 DEF Asked
  <2>6. /\ \A x : x \in DOMAIN t.rows <=> (x \in DOMAIN s.rows \/ x = p)
        /\ \A x \in DOMAIN s.rows : x # p => t.rows[x] = s.rows[x]
        /\ t.rows[p] = moved
    BY <2>4 DEF WithRow
  <2>7. \A P : Quieter(s.incoming, t.incoming, P)
    BY <2>4, QuieterSelf
  <2> QED BY <1>7, <2>2, <2>4, <2>5, <2>6, <2>7 DEF RowEntered
<1>8. ASSUME p \in DOMAIN s.rows, s.rows[p].index = index
      PROVE  RowEntered(s, t, p, index, run)
  <2>1. t = s
    BY <1>1, <1>8
  <2>2. SameState(s.rows[p], s.rows[p]) /\ \A P : Quieter(s.incoming, s.incoming, P)
    BY QuieterSelf DEF SameState
  <2> QED BY <1>8, <2>1, <2>2 DEF RowEntered
<1>9. RowEntered(s, t, p, index, run)
  BY <1>6, <1>7, <1>8
<1> QED BY <1>9 DEF t

LEMMA DropRowIs ==
  ASSUME NetAssumption, NEW s \in NetStates, NEW p \in DOMAIN s.rows, NEW inSight \in BOOLEAN
  PROVE  LET t == DropRow(s, p, inSight)
         IN /\ t \in NetStates /\ t.listed = s.listed /\ t.kept = s.kept
            /\ \A x : x \in DOMAIN t.rows <=> (x \in DOMAIN s.rows /\ x # p)
            /\ \A x \in DOMAIN t.rows : t.rows[x] = s.rows[x]
            /\ \A x : x # p /\ Asked(s, x) => Asked(t, x)
            /\ \A P : p \notin P => Quieter(s.incoming, t.incoming, P)
            /\ \A x \in DOMAIN t.rows :
                 (\A y \in DOMAIN t.rows : y # x => t.rows[x].index < t.rows[y].index) =>
                   t.last = ShownAs(x, t.rows[x])
            /\ TopIsTold(s) => TopIsTold(t)
<1> DEFINE t == DropRow(s, p, inSight)
           lines == Restrict(s.rows, DOMAIN s.rows \ {p})
           calls == IF p \in s.kept THEN s.queries ELSE Cancelled(s.queries, p)
           quiet == IF p \in s.kept THEN s.incoming ELSE Unheard(s.incoming, p, {"properties"})
           u == [s EXCEPT !.rows = lines]
           v == [u EXCEPT !.queries = calls]
           w == [v EXCEPT !.incoming = quiet]
<1>1. t = IF DOMAIN w.rows = {} THEN w ELSE Emitted(w, TopRow(w.rows), inSight)
  <2>1. [s EXCEPT !.rows = Restrict(@, DOMAIN @ \ {p}),
                  !.queries = IF p \in s.kept THEN @ ELSE Cancelled(@, p),
                  !.incoming = IF p \in s.kept THEN @ ELSE Unheard(@, p, {"properties"})] = w
    BY DEF NetStates
  <2> QED BY <2>1 DEF DropRow
<1>2. p \in Services /\ s.rows \in RowTables
  BY NetParts, Tables
<1>3. /\ lines \in RowTables /\ \A x : x \in DOMAIN lines <=> x \in DOMAIN s.rows /\ x # p
      /\ \A x \in DOMAIN lines : lines[x] = s.rows[x]
  <2>1. /\ DOMAIN lines = DOMAIN s.rows \ {p} /\ \A x \in DOMAIN lines : lines[x] = s.rows[x]
        /\ lines = [x \in DOMAIN lines |-> lines[x]]
    BY DEF Restrict
  <2> HIDE DEF lines
  <2>2. DOMAIN s.rows \in SUBSET Services /\ \A x \in DOMAIN s.rows : s.rows[x] \in MirrorRow
    BY <1>2, Tables
  <2>3. DOMAIN lines \in SUBSET Services /\ \A x \in DOMAIN lines : lines[x] \in MirrorRow
    BY <2>1, <2>2
  <2>4. lines \in RowTables
    BY <2>1, <2>3, Tables
  <2> QED BY <2>1, <2>4
<1>4. calls \in Seq(Callees) /\ DOMAIN calls = DOMAIN s.queries
      /\ \A j \in DOMAIN s.queries : s.queries[j] # p => calls[j] = s.queries[j]
  BY NetParts, CancelledIs
<1>5. quiet \in Seq(NetMessages) /\ \A P : p \notin P => Quieter(s.incoming, quiet, P)
  <2>1. CASE p \in s.kept
    BY <2>1, NetParts, QuieterSelf
  <2>2. CASE p \notin s.kept
    <3>1. "services" \notin {"properties"} /\ s.incoming \in Seq(NetMessages)
      BY NetParts
    <3> QED BY <2>2, <3>1, UnheardIs
  <2> QED BY <2>1, <2>2
<1> HIDE DEF lines, calls, quiet, t
<1>6. /\ u \in NetStates /\ u.rows = lines /\ u.listed = s.listed /\ u.kept = s.kept
      /\ u.last = s.last /\ u.told = s.told /\ u.queries = s.queries /\ u.incoming = s.incoming
  BY <1>3, NetSetField
<1> HIDE DEF u
<1>7. /\ v \in NetStates /\ v.rows = lines /\ v.listed = s.listed /\ v.kept = s.kept
      /\ v.last = s.last /\ v.told = s.told /\ v.queries = calls /\ v.incoming = s.incoming
  BY <1>4, <1>6, NetSetField
<1> HIDE DEF v
<1>8. /\ w \in NetStates /\ w.rows = lines /\ w.listed = s.listed /\ w.kept = s.kept
      /\ w.last = s.last /\ w.told = s.told /\ w.queries = calls /\ w.incoming = quiet
  BY <1>5, <1>7, NetSetField
<1> HIDE DEF w
<1>9. TopIsTold(s) => TopIsTold(w)
  BY <1>8 DEF TopIsTold
<1>10. /\ t \in NetStates /\ t.rows = w.rows /\ t.listed = w.listed /\ t.kept = w.kept
       /\ t.queries = w.queries /\ t.incoming = w.incoming
       /\ DOMAIN t.rows # {} => t.last = ShownAs(TopRow(t.rows), t.rows[TopRow(t.rows)])
       /\ TopIsTold(w) => TopIsTold(t)
  <2>1. CASE DOMAIN w.rows = {}
    BY <1>1, <1>8, <2>1
  <2>2. CASE DOMAIN w.rows # {}
    <3> DEFINE top == TopRow(w.rows)
    <3>1. w.rows \in RowTables /\ top \in DOMAIN w.rows
      BY <1>3, <1>8, <2>2, TopRowIs
    <3>2. top \in Services /\ w.rows[top] \in MirrorRow
      BY <3>1, Tables
    <3>3. t = Notified(w, ShownAs(top, w.rows[top]), inSight)
      BY <1>1, <2>2 DEF Emitted
    <3>4. ShownAs(top, w.rows[top]) \in Connection
      BY <3>2, ShownIs
    <3> HIDE DEF top
    <3>5. /\ t \in NetStates /\ t.rows = w.rows /\ t.listed = w.listed /\ t.kept = w.kept
          /\ t.queries = w.queries /\ t.incoming = w.incoming
          /\ t.last = ShownAs(top, w.rows[top])
          /\ TopIsTold(w) => TopIsTold(t)
      BY <1>8, <3>3, <3>4, NotifiedIs
    <3>6. TopRow(t.rows) = top
      BY <3>5 DEF top
    <3>7. t.last = ShownAs(TopRow(t.rows), t.rows[TopRow(t.rows)])
      BY <3>5, <3>6
    <3> QED BY <3>5, <3>7
  <2> QED BY <2>1, <2>2
<1>11. ASSUME NEW x \in DOMAIN t.rows,
              \A y \in DOMAIN t.rows : y # x => t.rows[x].index < t.rows[y].index
       PROVE  t.last = ShownAs(x, t.rows[x])
  <2>1. t.rows \in RowTables /\ DOMAIN t.rows # {} /\ t.rows[x].index \in Nat
    BY <1>10, NetParts, Tables DEF MirrorRow
  <2>2. TopRow(t.rows) \in DOMAIN t.rows /\ t.rows[TopRow(t.rows)].index <= t.rows[x].index
        /\ t.rows[TopRow(t.rows)].index \in Nat
    BY <2>1, TopRowIs, Tables DEF MirrorRow
  <2>3. TopRow(t.rows) = x
    BY <1>11, <2>1, <2>2
  <2> QED BY <1>10, <2>1, <2>3
<1>12. \A x : x # p /\ Asked(s, x) => Asked(t, x)
  BY <1>4, <1>8, <1>10 DEF Asked
<1>13. \A x : x \in DOMAIN t.rows <=> (x \in DOMAIN s.rows /\ x # p)
  BY <1>3, <1>8, <1>10
<1>14. \A x \in DOMAIN t.rows : t.rows[x] = s.rows[x]
  BY <1>3, <1>8, <1>10
<1>15. \A P : p \notin P => Quieter(s.incoming, t.incoming, P)
  BY <1>5, <1>8, <1>10
<1> QED BY <1>8, <1>9, <1>10, <1>11, <1>12, <1>13, <1>14, <1>15 DEF t

LEMMA Climbs ==
  ASSUME NEW N \in Nat, NEW B, 0 \in B, \A n \in 1..N : n - 1 \in B => n \in B
  PROVE  N \in B
<1> DEFINE off == {n \in 0..N : n \notin B}
<1>1. SUFFICES ASSUME off # {} PROVE FALSE
  OBVIOUS
<1>2. off \in SUBSET Nat
  OBVIOUS
<1>3. PICK m \in off : \A n \in off : m <= n
  BY <1>1, <1>2, Least
<1>4. m \in 1..N /\ m - 1 \in 0..N /\ ~(m <= m - 1) /\ m \notin B
  OBVIOUS
<1>5. m - 1 \notin off
  BY <1>3, <1>4
<1> QED BY <1>4, <1>5

\* t is s after the first n of q's services have entered.
Entered(s, t, q, n, run) ==
  /\ t \in NetStates /\ t.listed = s.listed /\ t.kept = s.kept
  /\ n = 0 => t = s
  /\ \A x : x \in DOMAIN t.rows <=> (x \in DOMAIN s.rows \/ \E k \in 1..n : q[k] = x)
  /\ \A k \in 1..n : t.rows[q[k]].index = k - 1
  /\ \A x \in DOMAIN s.rows : SameState(t.rows[x], s.rows[x])
  /\ \A k \in 1..n : q[k] \notin DOMAIN s.rows => t.rows[q[k]].run = run /\ Asked(t, q[k])
  /\ \A x : Asked(s, x) => Asked(t, x)
  /\ Quieter(s.incoming, t.incoming, DOMAIN s.rows)
  /\ n > 0 => t.last = ShownAs(q[1], t.rows[q[1]])
  /\ TopIsTold(s) => TopIsTold(t)

LEMMA EnteredStarts ==
  ASSUME NetAssumption, NEW s \in NetStates, NEW q, NEW run
  PROVE  Entered(s, s, q, 0, run)
<1>1. \A k \in 1..0 : FALSE
  OBVIOUS
<1>2. \A x \in DOMAIN s.rows : SameState(s.rows[x], s.rows[x])
  BY DEF SameState
<1> QED BY <1>1, <1>2, QuieterSelf DEF Entered

LEMMA EnteredYet ==
  ASSUME NetAssumption, NEW s \in NetStates, NEW q \in ServiceLists, NEW run \in Nat,
         NEW inSight \in BOOLEAN, Placed(s), TopIsShown(s),
         NEW n \in 1..Len(q), NEW t, Entered(s, t, q, n - 1, run)
  PROVE  Entered(s, EnterRow(t, q[n], n - 1, run, inSight), q, n, run)
<1> DEFINE u == EnterRow(t, q[n], n - 1, run, inSight)
           p == q[n]
           place == n - 1
<1>1. /\ n \in Nat /\ n >= 1 /\ n - 1 \in Nat /\ p \in Services /\ DOMAIN q = 1..Len(q)
      /\ \A k \in 1..n : k \in DOMAIN q /\ (k # n => q[k] # p /\ k \in 1 .. n - 1)
      /\ \A k \in 1 .. n - 1 : k \in 1..n /\ k # n
      /\ Len(q) \in Nat
  BY OrdersAre
<1>2. t \in NetStates
  BY DEF Entered
<1>3. RowEntered(t, u, p, n - 1, run)
  <2>1. place \in Nat /\ p \in Services
    BY <1>1
  <2> HIDE DEF place, p
  <2>2. RowEntered(t, EnterRow(t, p, place, run, inSight), p, place, run)
    BY <1>2, <2>1, EnterRowIs
  <2> QED BY <2>2 DEF place, p
<1> HIDE DEF u
<1>4. \A x : x \in DOMAIN t.rows <=> (x \in DOMAIN s.rows \/ \E k \in 1 .. n - 1 : q[k] = x)
  BY DEF Entered
<1>5. \A x : x \in DOMAIN u.rows <=> (x \in DOMAIN s.rows \/ \E k \in 1..n : q[k] = x)
  BY <1>1, <1>3, <1>4 DEF RowEntered
<1>6. \A k \in 1..n : u.rows[q[k]].index = k - 1
  <2> TAKE k \in 1..n
  <2>1. CASE k = n
    BY <1>3, <2>1 DEF RowEntered
  <2>2. CASE k # n
    <3>1. q[k] \in DOMAIN t.rows /\ t.rows[q[k]].index = k - 1 /\ q[k] # p
      BY <1>1, <1>4, <2>2 DEF Entered
    <3> QED BY <1>3, <3>1 DEF RowEntered
  <2> QED BY <2>1, <2>2
<1>7. \A x \in DOMAIN s.rows : SameState(u.rows[x], s.rows[x])
  <2> TAKE x \in DOMAIN s.rows
  <2>1. x \in DOMAIN t.rows /\ SameState(t.rows[x], s.rows[x])
    BY <1>4 DEF Entered
  <2>2. SameState(u.rows[x], t.rows[x])
    BY <1>3, <2>1 DEF SameState, RowEntered
  <2> QED BY <2>1, <2>2 DEF SameState
<1>8. \A k \in 1..n : q[k] \notin DOMAIN s.rows => u.rows[q[k]].run = run /\ Asked(u, q[k])
  <2> SUFFICES ASSUME NEW k \in 1..n, q[k] \notin DOMAIN s.rows
               PROVE  u.rows[q[k]].run = run /\ Asked(u, q[k])
    OBVIOUS
  <2>1. CASE k = n
    <3>1. p \notin DOMAIN t.rows
      BY <1>1, <1>4, <2>1
    <3> QED BY <1>3, <2>1, <3>1 DEF RowEntered
  <2>2. CASE k # n
    <3>1. q[k] \in DOMAIN t.rows /\ q[k] # p /\ t.rows[q[k]].run = run /\ Asked(t, q[k])
      BY <1>1, <1>4, <2>2 DEF Entered
    <3> QED BY <1>3, <3>1 DEF RowEntered
  <2> QED BY <2>1, <2>2
<1>9. \A x : Asked(s, x) => Asked(u, x)
  BY <1>3 DEF Entered, RowEntered
<1>10. Quieter(s.incoming, u.incoming, DOMAIN s.rows)
  <2>1. Quieter(s.incoming, t.incoming, DOMAIN s.rows)
    BY DEF Entered
  <2>2. Quieter(t.incoming, u.incoming, DOMAIN s.rows)
    BY <1>3, <1>4 DEF RowEntered
  <2> QED BY <2>1, <2>2, QuieterYet
<1>11. u.last = ShownAs(q[1], u.rows[q[1]])
  <2>1. CASE n = 1
    <3>1. t = s
      BY <2>1 DEF Entered
    <3>2. ASSUME p \in DOMAIN s.rows, s.rows[p].index = 0 PROVE s.last = ShownAs(p, s.rows[p])
      <4>1. /\ s.listed \in ServiceLists /\ DOMAIN s.listed = 1..Len(s.listed)
            /\ Len(s.listed) \in Nat
            /\ \A x : x \in ToSet(s.listed) <=> \E i \in DOMAIN s.listed : s.listed[i] = x
            /\ s.listed = <<>> <=> DOMAIN s.listed = {}
        BY NetParts, OrdersAre
      <4>2. PICK i \in DOMAIN s.listed : s.listed[i] = p
        BY <3>2, <4>1 DEF Placed
      <4>3. i = 1 /\ s.listed # <<>>
        BY <3>2, <4>1, <4>2 DEF Placed
      <4> QED BY <4>2, <4>3 DEF TopIsShown
    <3> QED BY <1>3, <2>1, <3>1, <3>2 DEF RowEntered
  <2>2. CASE n # 1
    <3>1. 1 \in 1 .. n - 1 /\ n - 1 > 0 /\ n - 1 # 0
      BY <1>1, <2>2
    <3>2. t.last = ShownAs(q[1], t.rows[q[1]]) /\ q[1] \in DOMAIN t.rows /\ q[1] # p
      BY <1>1, <1>4, <3>1 DEF Entered
    <3> QED BY <1>3, <3>1, <3>2 DEF RowEntered
  <2> QED BY <2>1, <2>2
<1>12. (TopIsTold(s) => TopIsTold(u)) /\ u.listed = s.listed /\ u.kept = s.kept
  BY <1>3 DEF Entered, RowEntered
<1>13. Entered(s, u, q, n, run)
  BY <1>1, <1>3, <1>5, <1>6, <1>7, <1>8, <1>9, <1>10, <1>11, <1>12 DEF Entered, RowEntered
<1> QED BY <1>13 DEF u

\* t is e after those of the first n rows of l that are not in q have left.
Left(l, e, t, q, n) ==
  /\ t \in NetStates /\ t.listed = e.listed /\ t.kept = e.kept
  /\ \A x : x \in DOMAIN t.rows <=> (x \in ToSet(q) \/ \E k \in DOMAIN l : k > n /\ l[k] = x)
  /\ \A x \in DOMAIN t.rows : x \in DOMAIN e.rows /\ t.rows[x] = e.rows[x]
  /\ \A x \in ToSet(q) : Asked(e, x) => Asked(t, x)
  /\ Quieter(e.incoming, t.incoming, ToSet(q))
  /\ q # <<>> /\ (\A k \in DOMAIN l : k > n => l[k] \in ToSet(q)) =>
       t.last = ShownAs(q[1], t.rows[q[1]])
  /\ TopIsTold(e) => TopIsTold(t)

LEMMA LeftYet ==
  ASSUME NetAssumption, NEW l \in ServiceLists, NEW q \in ServiceLists, NEW e \in NetStates,
         \A k \in DOMAIN q : q[k] \in DOMAIN e.rows /\ e.rows[q[k]].index = k - 1,
         NEW inSight \in BOOLEAN, NEW n \in 1..Len(l), NEW t, Left(l, e, t, q, n - 1)
  PROVE  Left(l, e, IF l[n] \in ToSet(q) THEN t ELSE DropRow(t, l[n], inSight), q, n)
<1> DEFINE p == l[n]
           u == DropRow(t, p, inSight)
<1>1. /\ n \in Nat /\ Len(l) \in Nat /\ DOMAIN l = 1..Len(l) /\ n \in DOMAIN l
      /\ \A i, j \in DOMAIN l : l[i] = l[j] => i = j
  BY OrdersAre
<1>2. \A k \in DOMAIN l : k > n - 1 <=> (k > n \/ k = n)
  BY <1>1
<1>3. \A x : x \in DOMAIN t.rows <=> (x \in ToSet(q) \/ \E k \in DOMAIN l : k > n - 1 /\ l[k] = x)
  BY DEF Left
<1>4. CASE p \in ToSet(q)
  <2>1. \A x : x \in DOMAIN t.rows <=> (x \in ToSet(q) \/ \E k \in DOMAIN l : k > n /\ l[k] = x)
    BY <1>1, <1>2, <1>3, <1>4
  <2>2. (\A k \in DOMAIN l : k > n => l[k] \in ToSet(q)) =>
          \A k \in DOMAIN l : k > n - 1 => l[k] \in ToSet(q)
    BY <1>2, <1>4
  <2>3. Left(l, e, t, q, n)
    BY <2>1, <2>2 DEF Left
  <2> QED BY <1>4, <2>3
<1>5. CASE p \notin ToSet(q)
  <2>1. t \in NetStates /\ p \in DOMAIN t.rows
    BY <1>1, <1>2, <1>3 DEF Left
  <2>2. /\ u \in NetStates /\ u.listed = t.listed /\ u.kept = t.kept
        /\ \A x : x \in DOMAIN u.rows <=> (x \in DOMAIN t.rows /\ x # p)
        /\ \A x \in DOMAIN u.rows : u.rows[x] = t.rows[x]
        /\ \A x : x # p /\ Asked(t, x) => Asked(u, x)
        /\ \A P : p \notin P => Quieter(t.incoming, u.incoming, P)
        /\ \A x \in DOMAIN u.rows :
             (\A y \in DOMAIN u.rows : y # x => u.rows[x].index < u.rows[y].index) =>
               u.last = ShownAs(x, u.rows[x])
        /\ TopIsTold(t) => TopIsTold(u)
    BY <2>1, DropRowIs
  <2> HIDE DEF u
  <2>3. \A x : x \in DOMAIN u.rows <=> (x \in ToSet(q) \/ \E k \in DOMAIN l : k > n /\ l[k] = x)
    <3>1. \A k \in DOMAIN l : k > n => l[k] # p
      BY <1>1
    <3>2. \A k \in DOMAIN l : k > n - 1 /\ l[k] # p => k > n
      BY <1>2
    <3>3. \A k \in DOMAIN l : k > n => k > n - 1
      BY <1>2
    <3> QED BY <1>3, <1>5, <2>2, <3>1, <3>2, <3>3
  <2>4. \A x \in DOMAIN u.rows : x \in DOMAIN e.rows /\ u.rows[x] = e.rows[x]
    BY <2>2 DEF Left
  <2>5. \A x \in ToSet(q) : Asked(e, x) => Asked(u, x)
    BY <1>5, <2>2 DEF Left
  <2>6. Quieter(e.incoming, u.incoming, ToSet(q))
    <3>1. Quieter(e.incoming, t.incoming, ToSet(q)) /\ Quieter(t.incoming, u.incoming, ToSet(q))
      BY <1>5, <2>2 DEF Left
    <3> QED BY <3>1, QuieterYet
  <2>7. ASSUME q # <<>>, \A k \in DOMAIN l : k > n => l[k] \in ToSet(q)
        PROVE  u.last = ShownAs(q[1], u.rows[q[1]])
    <3>1. /\ DOMAIN q = 1..Len(q) /\ Len(q) \in Nat
          /\ \A x : x \in ToSet(q) <=> \E i \in DOMAIN q : q[i] = x
          /\ q = <<>> <=> DOMAIN q = {}
      BY OrdersAre
    <3>2. 1 \in DOMAIN q
      BY <2>7, <3>1
    <3>3. \A x : x \in DOMAIN u.rows <=> \E i \in DOMAIN q : q[i] = x
      BY <2>3, <2>7, <3>1
    <3>4. \A i \in DOMAIN q : u.rows[q[i]].index = i - 1
      BY <2>4, <3>3
    <3>5. ASSUME NEW y \in DOMAIN u.rows, y # q[1] PROVE u.rows[q[1]].index < u.rows[y].index
      <4>1. PICK i \in DOMAIN q : q[i] = y
        BY <3>3
      <4>2. i # 1 /\ u.rows[q[1]].index = 1 - 1 /\ u.rows[y].index = i - 1
        BY <3>2, <3>4, <3>5, <4>1
      <4> QED BY <3>1, <4>1, <4>2
    <3> QED BY <2>2, <3>2, <3>3, <3>5
  <2>8. (TopIsTold(e) => TopIsTold(u)) /\ u.listed = e.listed /\ u.kept = e.kept
    BY <2>2 DEF Left
  <2>9. Left(l, e, u, q, n)
    BY <2>2, <2>3, <2>4, <2>5, <2>6, <2>7, <2>8 DEF Left
  <2> QED BY <1>5, <2>9 DEF u
<1> QED BY <1>4, <1>5

LEMMA EnteredAll ==
  ASSUME NetAssumption, NEW s \in NetStates, NEW q \in ServiceLists, NEW run \in Nat,
         NEW inSight \in BOOLEAN, Placed(s), TopIsShown(s), NEW entered,
         entered = CHOOSE h : h = [i \in 0..Len(q) |->
           IF i = 0 THEN s ELSE EnterRow(h[i - 1], q[i], i - 1, run, inSight)]
  PROVE  Entered(s, entered[Len(q)], q, Len(q), run)
<1> DEFINE N == Len(q)
           Step(S, i) == EnterRow(S, q[i], i - 1, run, inSight)
           F(h) == [i \in 0..N |-> IF i = 0 THEN s ELSE Step(h[i - 1], i)]
           g == [i \in 1..N |-> [S \in NetStates |-> Step(S, i)]]
           B == {i \in 0..N : Entered(s, entered[i], q, i, run)}
<1>1. N \in Nat /\ DOMAIN q = 1..N /\ \A i \in 1..N : q[i] \in Services
  BY OrdersAre
<1>2. entered = CHOOSE h : h = F(h)
  OBVIOUS
<1>3. ASSUME NEW i \in 1..N, NEW S \in NetStates PROVE Step(S, i) \in NetStates
  <2> DEFINE p == q[i]
             place == i - 1
  <2>1. place \in Nat /\ p \in Services
    BY <1>1
  <2> HIDE DEF p, place
  <2>2. RowEntered(S, EnterRow(S, p, place, run, inSight), p, place, run)
    BY <2>1, EnterRowIs
  <2>3. EnterRow(S, p, place, run, inSight) \in NetStates
    BY <2>2 DEF RowEntered
  <2> QED BY <2>3 DEF p, place
<1> HIDE DEF Step, N
<1>4. g \in StepsIn(NetStates, N)
  BY <1>3 DEF StepsIn
<1>5. PICK h \in PathsIn(NetStates, N) : h[0] = s /\ \A n \in 1..N : h[n] = g[n][h[n - 1]]
  <2> HIDE DEF g
  <2> QED BY <1>1, <1>4, Runs
<1>6. h = F(h)
  <2>1. \A n \in 1..N : n - 1 \in 0..N
    BY <1>1
  <2>2. \A n \in 1..N : h[n] = Step(h[n - 1], n)
    BY <1>5, <2>1 DEF PathsIn
  <2>3. \A n \in 0..N : h[n] = IF n = 0 THEN s ELSE Step(h[n - 1], n)
    BY <1>1, <1>5, <2>2
  <2>4. h \in [0..N -> NetStates]
    BY <1>5 DEF PathsIn
  <2> HIDE DEF g
  <2> QED BY <2>3, <2>4
<1>7. entered = F(entered)
  <2> HIDE DEF F
  <2> QED BY <1>2, <1>6
<1>8. entered[0] = s /\ \A n \in 1..N : entered[n] = Step(entered[n - 1], n)
  <2>1. 0 \in 0..N /\ \A n \in 1..N : n \in 0..N /\ n # 0
    BY <1>1
  <2>2. entered[0] = F(entered)[0] /\ \A n \in 1..N : entered[n] = F(entered)[n]
    <3> HIDE DEF F
    <3> QED BY <1>7
  <2> QED BY <2>1, <2>2
<1>9. 0 \in B
  BY <1>1, <1>8, EnteredStarts
<1>10. ASSUME NEW n \in 1..N, n - 1 \in B PROVE n \in B
  <2>1. Entered(s, entered[n - 1], q, n - 1, run) /\ n \in 0..N
    BY <1>1, <1>10
  <2>2. Entered(s, Step(entered[n - 1], n), q, n, run)
    BY <2>1, EnteredYet DEF Step, N
  <2> QED BY <1>8, <2>1, <2>2
<1>11. N \in B
  <2> HIDE DEF B
  <2> QED BY <1>1, <1>9, <1>10, Climbs
<1> QED BY <1>11 DEF N

LEMMA LeftAll ==
  ASSUME NetAssumption, NEW l \in ServiceLists, NEW q \in ServiceLists, NEW e \in NetStates,
         \A k \in DOMAIN q : q[k] \in DOMAIN e.rows /\ e.rows[q[k]].index = k - 1,
         NEW inSight \in BOOLEAN, Left(l, e, e, q, 0), NEW left,
         left = CHOOSE h : h = [i \in 0..Len(l) |->
           IF i = 0 THEN e
           ELSE IF l[i] \in ToSet(q) THEN h[i - 1] ELSE DropRow(h[i - 1], l[i], inSight)]
  PROVE  Left(l, e, left[Len(l)], q, Len(l))
<1> DEFINE N == Len(l)
           Step(S, i) == IF l[i] \in ToSet(q) THEN S ELSE DropRow(S, l[i], inSight)
           F(h) == [i \in 0..N |-> IF i = 0 THEN e ELSE Step(h[i - 1], i)]
           g == [i \in 1..N |-> [S \in NetStates |-> Step(S, i)]]
           B == {i \in 0..N : Left(l, e, left[i], q, i)}
<1>1. N \in Nat
  BY OrdersAre
<1>2. left = CHOOSE h : h = F(h)
  OBVIOUS
<1>3. ASSUME NEW i \in 1..N, NEW S \in NetStates PROVE Step(S, i) \in NetStates
  <2>1. l[i] \in DOMAIN S.rows => DropRow(S, l[i], inSight) \in NetStates
    BY DropRowIs
  <2>2. l[i] \notin DOMAIN S.rows => DropRow(S, l[i], inSight) = S
    BY DEF DropRow
  <2> QED BY <2>1, <2>2
<1> HIDE DEF Step, N
<1>4. g \in StepsIn(NetStates, N)
  BY <1>3 DEF StepsIn
<1>5. PICK h \in PathsIn(NetStates, N) : h[0] = e /\ \A n \in 1..N : h[n] = g[n][h[n - 1]]
  <2> HIDE DEF g
  <2> QED BY <1>1, <1>4, Runs
<1>6. h = F(h)
  <2>1. \A n \in 1..N : n - 1 \in 0..N
    BY <1>1
  <2>2. \A n \in 1..N : h[n] = Step(h[n - 1], n)
    BY <1>5, <2>1 DEF PathsIn
  <2>3. \A n \in 0..N : h[n] = IF n = 0 THEN e ELSE Step(h[n - 1], n)
    BY <1>1, <1>5, <2>2
  <2>4. h \in [0..N -> NetStates]
    BY <1>5 DEF PathsIn
  <2> HIDE DEF g
  <2> QED BY <2>3, <2>4
<1>7. left = F(left)
  <2> HIDE DEF F
  <2> QED BY <1>2, <1>6
<1>8. left[0] = e /\ \A n \in 1..N : left[n] = Step(left[n - 1], n)
  <2>1. 0 \in 0..N /\ \A n \in 1..N : n \in 0..N /\ n # 0
    BY <1>1
  <2>2. left[0] = F(left)[0] /\ \A n \in 1..N : left[n] = F(left)[n]
    <3> HIDE DEF F
    <3> QED BY <1>7
  <2> QED BY <2>1, <2>2
<1>9. 0 \in B
  BY <1>1, <1>8
<1>10. ASSUME NEW n \in 1..N, n - 1 \in B PROVE n \in B
  <2>1. Left(l, e, left[n - 1], q, n - 1) /\ n \in 0..N
    BY <1>1, <1>10
  <2>2. Left(l, e, Step(left[n - 1], n), q, n)
    BY <2>1, LeftYet DEF Step, N
  <2> QED BY <1>8, <2>1, <2>2
<1>11. N \in B
  <2> HIDE DEF B
  <2> QED BY <1>1, <1>9, <1>10, Climbs
<1> QED BY <1>11 DEF N

\* t is s after connman's list q, of its run-th run.
Updated(s, t, q, run) ==
  /\ t \in NetStates /\ t.listed = q /\ t.kept = s.kept /\ Placed(t)
  /\ \A x \in DOMAIN t.rows : IF x \in DOMAIN s.rows THEN SameState(t.rows[x], s.rows[x])
                              ELSE t.rows[x].run = run /\ Asked(t, x)
  /\ \A x \in DOMAIN t.rows : Asked(s, x) => Asked(t, x)
  /\ Quieter(s.incoming, t.incoming, DOMAIN s.rows \cap ToSet(q))
  /\ TopIsShown(t)
  /\ TopIsTold(s) => TopIsTold(t)

LEMMA UpdatedIs ==
  ASSUME NetAssumption, NEW s \in NetStates, NEW m, m.list \in ServiceLists, m.run \in Nat,
         NEW inSight \in BOOLEAN, Placed(s), TopIsShown(s)
  PROVE  Updated(s, UpdatedServices(s, m, inSight), m.list, m.run)
<1> DEFINE q == m.list
           l == s.listed
           entered == CHOOSE h : h = [i \in 0..Len(q) |->
             IF i = 0 THEN s ELSE EnterRow(h[i - 1], q[i], i - 1, m.run, inSight)]
           e == entered[Len(q)]
           left == CHOOSE h : h = [i \in 0..Len(l) |->
             IF i = 0 THEN e
             ELSE IF l[i] \in ToSet(q) THEN h[i - 1] ELSE DropRow(h[i - 1], l[i], inSight)]
           u == left[Len(l)]
           t == UpdatedServices(s, m, inSight)
<1>1. t = [u EXCEPT !.listed = q]
  BY DEF UpdatedServices
<1>2. Entered(s, e, q, Len(q), m.run)
  <2> HIDE DEF entered
  <2> QED BY EnteredAll DEF entered
<1>3. /\ l \in ServiceLists /\ DOMAIN l = 1..Len(l) /\ Len(l) \in Nat
      /\ \A x : x \in ToSet(l) <=> \E i \in DOMAIN l : l[i] = x
      /\ DOMAIN q = 1..Len(q) /\ Len(q) \in Nat
      /\ \A x : x \in ToSet(q) <=> \E i \in DOMAIN q : q[i] = x
      /\ q = <<>> <=> DOMAIN q = {}
  BY NetParts, OrdersAre
<1>4. DOMAIN s.rows = ToSet(l)
  BY DEF Placed
<1> HIDE DEF entered, e, q, l, t
<1>5. /\ e \in NetStates
      /\ \A x : x \in DOMAIN e.rows <=> (x \in ToSet(l) \/ x \in ToSet(q))
      /\ \A k \in DOMAIN q : q[k] \in DOMAIN e.rows /\ e.rows[q[k]].index = k - 1
  BY <1>2, <1>3, <1>4 DEF Entered
<1>6. Left(l, e, e, q, 0)
  <2>1. \A x : x \in DOMAIN e.rows <=> (x \in ToSet(q) \/ \E k \in DOMAIN l : k > 0 /\ l[k] = x)
    <3>1. \A k \in DOMAIN l : k > 0
      BY <1>3
    <3> QED BY <1>3, <1>5, <3>1
  <2>2. q # <<>> => e.last = ShownAs(q[1], e.rows[q[1]])
    <3>1. q # <<>> => Len(q) > 0
      BY <1>3
    <3> QED BY <1>2, <3>1 DEF Entered
  <2>3. e.listed = e.listed /\ e.kept = e.kept /\ Quieter(e.incoming, e.incoming, ToSet(q))
    BY QuieterSelf
  <2> QED BY <1>5, <2>1, <2>2, <2>3 DEF Left
<1>7. Left(l, e, u, q, Len(l))
  <2>1. q \in ServiceLists
    BY DEF q
  <2> HIDE DEF left
  <2>2. left = CHOOSE h : h = [i \in 0..Len(l) |->
                  IF i = 0 THEN e
                  ELSE IF l[i] \in ToSet(q) THEN h[i - 1] ELSE DropRow(h[i - 1], l[i], inSight)]
    BY DEF left
  <2> QED BY <1>3, <1>5, <1>6, <2>1, <2>2, LeftAll
<1> HIDE DEF u
<1>8. /\ u \in NetStates /\ u.kept = s.kept
      /\ \A x : x \in DOMAIN u.rows <=> x \in ToSet(q)
      /\ \A x \in DOMAIN u.rows : x \in DOMAIN e.rows /\ u.rows[x] = e.rows[x]
      /\ \A x \in ToSet(q) : Asked(e, x) => Asked(u, x)
      /\ Quieter(e.incoming, u.incoming, ToSet(q))
      /\ q # <<>> => u.last = ShownAs(q[1], u.rows[q[1]])
      /\ TopIsTold(e) => TopIsTold(u)
  <2>1. \A k \in DOMAIN l : ~(k > Len(l))
    BY <1>3
  <2> QED BY <1>2, <1>7, <2>1 DEF Left, Entered
<1>9. /\ t \in NetStates /\ t.listed = q /\ t.rows = u.rows /\ t.kept = u.kept /\ t.last = u.last
      /\ t.told = u.told /\ t.queries = u.queries /\ t.incoming = u.incoming
  <2>1. q \in ServiceLists
    BY DEF q
  <2> QED BY <1>1, <1>8, <2>1, NetSetField
<1>10. Placed(t)
  <2>1. DOMAIN t.rows = ToSet(q)
    BY <1>8, <1>9
  <2>2. \A i \in DOMAIN q : t.rows[q[i]].index = i - 1
    BY <1>3, <1>5, <1>8, <1>9
  <2> QED BY <1>9, <2>1, <2>2 DEF Placed
<1>11. ASSUME NEW x \in DOMAIN t.rows
       PROVE  IF x \in DOMAIN s.rows THEN SameState(t.rows[x], s.rows[x])
              ELSE t.rows[x].run = m.run /\ Asked(t, x)
  <2>1. x \in ToSet(q) /\ t.rows[x] = e.rows[x]
    BY <1>8, <1>9
  <2>2. x \in DOMAIN s.rows => SameState(e.rows[x], s.rows[x])
    BY <1>2 DEF Entered
  <2>3. ASSUME x \notin DOMAIN s.rows PROVE e.rows[x].run = m.run /\ Asked(e, x)
    <3>1. PICK k \in 1..Len(q) : q[k] = x
      BY <1>3, <2>1
    <3> QED BY <1>2, <2>3, <3>1 DEF Entered
  <2>4. Asked(e, x) => Asked(t, x)
    BY <1>8, <1>9, <2>1 DEF Asked
  <2> QED BY <2>1, <2>2, <2>3, <2>4
<1>12. \A x \in DOMAIN t.rows : Asked(s, x) => Asked(t, x)
  <2>1. \A x : Asked(s, x) => Asked(e, x)
    BY <1>2 DEF Entered
  <2>2. \A x \in ToSet(q) : Asked(e, x) => Asked(t, x)
    BY <1>8, <1>9 DEF Asked
  <2> QED BY <1>8, <1>9, <2>1, <2>2
<1>13. Quieter(s.incoming, t.incoming, DOMAIN s.rows \cap ToSet(q))
  <2> DEFINE P == DOMAIN s.rows \cap ToSet(q)
  <2>1. Quieter(s.incoming, e.incoming, P)
    BY <1>2 DEF Entered, Quieter
  <2>2. Quieter(e.incoming, t.incoming, P)
    BY <1>8, <1>9 DEF Quieter
  <2> HIDE DEF P
  <2>3. Quieter(s.incoming, t.incoming, P)
    BY <2>1, <2>2, QuieterYet
  <2> QED BY <2>3 DEF P
<1>14. TopIsShown(t)
  BY <1>8, <1>9 DEF TopIsShown
<1>15. TopIsTold(s) => TopIsTold(t)
  BY <1>2, <1>8, <1>9 DEF Entered, TopIsTold
<1>16. Updated(s, t, q, m.run)
  BY <1>8, <1>9, <1>10, <1>11, <1>12, <1>13, <1>14, <1>15 DEF Updated
<1> QED BY <1>16 DEF t, q

(***************************************************************************)
(* The mirror: what is shown, with what is on the way, is connman's list.  *)
(***************************************************************************)
\* A word about p's state.
IsWord(m, p) == m.kind \in {"properties", "state"} /\ m.path = p
\* The i-th message is the last list before the j-th.
LastBefore(q, j, i) == i < j /\ IsList(q[i]) /\ \A k \in i + 1 .. j - 1 : ~IsList(q[k])
LastWord(q, j, p) == IsWord(q[j], p) /\ \A k \in DOMAIN q : k > j => ~IsWord(q[k], p)
NoLists(q) == \A i \in DOMAIN q : ~IsList(q[i])

\* Properties come for what is in the list before.
Expected(q, l) ==
  \A j \in DOMAIN q : q[j].kind = "properties" =>
    /\ \A i \in DOMAIN q : LastBefore(q, j, i) => q[j].path \in ToSet(q[i].list)
    /\ (\A i \in DOMAIN q : i < j => ~IsList(q[i])) => q[j].path \in ToSet(l)
\* Lists come in the order of connman's runs.
ListsInOrder(q, h) ==
  /\ \A j \in DOMAIN q : IsList(q[j]) => h <= q[j].run
  /\ \A i, j \in DOMAIN q : i < j /\ IsList(q[i]) /\ IsList(q[j]) => q[i].run <= q[j].run
RunsBounded(s, e) == /\ \A i \in DOMAIN s.incoming : s.incoming[i].run <= e
                     /\ \A p \in DOMAIN s.rows : s.rows[p].run <= e
\* Of connman's e-th run no list has been heard or is on the way.
NoneYet(s, e, h) ==
  h < e /\ \A i \in DOMAIN s.incoming : IsList(s.incoming[i]) => s.incoming[i].run < e
\* The last list is connman's, c.
Current(s, c, e, h) ==
  LET q == s.incoming
  IN /\ \A i \in DOMAIN q : LastBefore(q, Len(q) + 1, i) /\ q[i].run = e => q[i].list = c
     /\ NoLists(q) /\ h = e => s.listed = c
     /\ NoneYet(s, e, h) /\ e = 0 =>
          /\ DOMAIN s.rows = {}
          /\ \A k \in DOMAIN s.queries : s.queries[k] \in {"manager", "nobody"}
     /\ NoneYet(s, e, h) /\ e # 0 =>
          /\ c = <<>>
          /\ \A i \in DOMAIN q : q[i].run < e
          /\ \A p \in DOMAIN s.rows : s.rows[p].run < e
\* p's row stays, and the last word about its state is true, of those of this run.
Steady(s, c, p) ==
  /\ p \in DOMAIN s.rows /\ p \in ToSet(c)
  /\ \A i \in DOMAIN s.incoming : IsList(s.incoming[i]) => p \in ToSet(s.incoming[i].list)
Truth(s, o, e, p) ==
  LET q == s.incoming
  IN /\ \A j \in DOMAIN q : LastWord(q, j, p) /\ q[j].run = e => (q[j].up <=> p \in o)
     /\ (\A j \in DOMAIN q : ~IsWord(q[j], p)) /\ s.rows[p].run = e => (s.rows[p].up <=> p \in o)
Named(s, p) ==
  s.rows[p].named \/ \E j \in DOMAIN s.incoming : /\ s.incoming[j].kind = "properties"
                                                  /\ s.incoming[j].path = p
Mirrored(s, c, o, e) ==
  \A p \in Services : Steady(s, c, p) /\ ~Asked(s, p) => Truth(s, o, e, p) /\ (e = 0 => Named(s, p))

\* c: connman's list, of which o are online; e: its run; h: the run that was heard last
NetRight(s, c, o, e, h) ==
  /\ s \in NetStates /\ c \in ServiceLists /\ o \subseteq ToSet(c) /\ e \in Nat /\ h \in -1..e
  /\ Placed(s) /\ Expected(s.incoming, s.listed) /\ ListsInOrder(s.incoming, h)
  /\ RunsBounded(s, e) /\ Current(s, c, e, h) /\ Mirrored(s, c, o, e)
  /\ TopIsTold(s) /\ TopIsShown(s)

NetInv == NetRight(NetNow, services, online, exits, heard)

LEMMA MessageIs ==
  ASSUME NEW m \in NetMessages
  PROVE  /\ m.kind \in NetKinds \cup {"void"} /\ m.path \in Services \cup {"manager"}
         /\ m.list \in ServiceLists /\ m.up \in BOOLEAN /\ m.run \in Nat
BY DEF NetMessages

LEMMA LastListIs ==
  ASSUME NEW q \in Seq(NetMessages), ~NoLists(q)
  PROVE  \E i \in DOMAIN q : LastBefore(q, Len(q) + 1, i)
<1>1. DOMAIN q = 1..Len(q) /\ Len(q) \in Nat
  OBVIOUS
<1> DEFINE T == {Len(q) - i : i \in {k \in DOMAIN q : IsList(q[k])}}
<1>2. T \in SUBSET Nat /\ T # {}
  BY <1>1 DEF NoLists
<1>3. PICK n \in T : \A k \in T : n <= k
  <2> HIDE DEF T
  <2> QED BY <1>2, Least
<1>4. PICK i \in DOMAIN q : IsList(q[i]) /\ n = Len(q) - i
  OBVIOUS
<1>5. ASSUME NEW k \in i + 1 .. Len(q), IsList(q[k]) PROVE FALSE
  <2>1. k \in DOMAIN q /\ Len(q) - k \in T
    BY <1>1, <1>4, <1>5
  <2>2. n <= Len(q) - k
    BY <1>3, <2>1
  <2> QED BY <1>1, <1>4, <2>1, <2>2
<1> QED BY <1>1, <1>4, <1>5 DEF LastBefore

\* Once there has been a list of this run, the last list is connman's.
LEMMA NewestIs ==
  ASSUME NEW s, NEW c, NEW o, NEW e, NEW h, NetRight(s, c, o, e, h), ~NoneYet(s, e, h)
  PROVE  /\ \A i \in DOMAIN s.incoming :
              LastBefore(s.incoming, Len(s.incoming) + 1, i) => s.incoming[i].list = c
         /\ NoLists(s.incoming) => s.listed = c
<1> DEFINE q == s.incoming
<1>1. /\ q \in Seq(NetMessages) /\ DOMAIN q = 1..Len(q) /\ Len(q) \in Nat
      /\ \A i \in DOMAIN q : q[i].run \in Nat /\ q[i].run <= e
      /\ e \in Nat /\ h \in Int /\ h <= e
  <2>1. s \in NetStates /\ RunsBounded(s, e) /\ e \in Nat /\ h \in -1..e
    BY DEF NetRight
  <2>2. q \in Seq(NetMessages)
    BY <2>1, NetParts
  <2>3. \A i \in DOMAIN q : q[i] \in NetMessages
    BY <2>2
  <2> QED BY <2>1, <2>2, <2>3, MessageIs DEF RunsBounded
<1> HIDE DEF q
<1>2. Current(s, c, e, h) /\ ListsInOrder(q, h)
  BY DEF NetRight, q
<1>3. ASSUME NEW i \in DOMAIN q, LastBefore(q, Len(q) + 1, i) PROVE q[i].list = c
  <2>1. CASE q[i].run = e
    BY <1>2, <1>3, <2>1 DEF Current, q
  <2>2. CASE q[i].run # e
    <3>1. q[i].run < e /\ h <= q[i].run
      BY <1>1, <1>2, <1>3, <2>2 DEF ListsInOrder, LastBefore
    <3>2. ASSUME NEW k \in DOMAIN q, IsList(q[k]) PROVE q[k].run < e
      <4>1. k <= i
        BY <1>1, <1>3, <3>2 DEF LastBefore
      <4>2. q[k].run <= q[i].run
        <5>1. CASE k = i
          BY <1>1, <5>1
        <5>2. CASE k # i
          <6>1. k < i
            BY <1>1, <4>1, <5>2
          <6> QED BY <1>2, <1>3, <3>2, <6>1 DEF ListsInOrder, LastBefore
        <5> QED BY <5>1, <5>2
      <4> QED BY <1>1, <3>1, <4>2
    <3>3. NoneYet(s, e, h)
      BY <1>1, <3>1, <3>2 DEF NoneYet, q
    <3> QED BY <3>3
  <2> QED BY <2>1, <2>2
<1>4. ASSUME NoLists(q) PROVE s.listed = c
  <2>1. ~(h < e)
    BY <1>4 DEF NoLists, NoneYet, q
  <2>2. h = e
    BY <1>1, <2>1
  <2> QED BY <1>2, <1>4, <2>2 DEF Current, q
<1> QED BY <1>3, <1>4 DEF q

\* What is listed and on every list that is on the way is on connman's.
LEMMA ListedByAll ==
  ASSUME NetAssumption, NEW s, NEW c, NEW o, NEW e, NEW h, NetRight(s, c, o, e, h),
         ~NoneYet(s, e, h), NEW p \in DOMAIN s.rows,
         \A i \in DOMAIN s.incoming : IsList(s.incoming[i]) => p \in ToSet(s.incoming[i].list)
  PROVE  p \in ToSet(c)
<1>1. s \in NetStates /\ DOMAIN s.rows = ToSet(s.listed)
  BY DEF NetRight, Placed
<1>2. CASE NoLists(s.incoming)
  BY <1>1, <1>2, NewestIs
<1>3. CASE ~NoLists(s.incoming)
  <2>1. PICK i \in DOMAIN s.incoming : LastBefore(s.incoming, Len(s.incoming) + 1, i)
    BY <1>1, <1>3, NetParts, LastListIs
  <2>2. s.incoming[i].list = c /\ IsList(s.incoming[i])
    BY <2>1, NewestIs DEF LastBefore
  <2> QED BY <2>1, <2>2
<1> QED BY <1>2, <1>3

LEMMA RightParts ==
  ASSUME NEW s, NEW c, NEW o, NEW e, NEW h, NetRight(s, c, o, e, h)
  PROVE  /\ s \in NetStates /\ s.incoming \in Seq(NetMessages)
         /\ DOMAIN s.incoming = 1..Len(s.incoming) /\ Len(s.incoming) \in Nat
         /\ \A i \in DOMAIN s.incoming : s.incoming[i] \in NetMessages /\ s.incoming[i].run \in Nat
         /\ e \in Nat /\ h \in Int /\ h <= e /\ h >= -1
         /\ DOMAIN s.rows \in SUBSET Services
         /\ \A p \in DOMAIN s.rows : s.rows[p] \in MirrorRow /\ s.rows[p].run \in Nat
<1>1. s \in NetStates /\ e \in Nat /\ h \in -1..e
  BY DEF NetRight
<1>2. s.incoming \in Seq(NetMessages) /\ s.rows \in RowTables
  BY <1>1, NetParts
<1>3. \A i \in DOMAIN s.incoming : s.incoming[i] \in NetMessages
  BY <1>2
<1>4. DOMAIN s.rows \in SUBSET Services /\ \A p \in DOMAIN s.rows : s.rows[p] \in MirrorRow
  BY <1>2, Tables
<1> QED BY <1>1, <1>2, <1>3, <1>4, MessageIs DEF MirrorRow

LEMMA ExpectedComes ==
  ASSUME NEW q \in Seq(NetMessages), NEW m \in NetMessages, NEW l, Expected(q, l),
         m.kind = "properties" =>
           /\ \A i \in DOMAIN q : LastBefore(q, Len(q) + 1, i) => m.path \in ToSet(q[i].list)
           /\ NoLists(q) => m.path \in ToSet(l)
  PROVE  Expected(Append(q, m), l)
<1> DEFINE r == Append(q, m)
           N == Len(q)
<1>1. /\ DOMAIN r = 1 .. N + 1 /\ r[N + 1] = m /\ N \in Nat /\ DOMAIN q = 1..N
      /\ \A j \in DOMAIN q : j \in DOMAIN r /\ r[j] = q[j]
  BY AppendIs
<1> HIDE DEF r, N
<1> SUFFICES ASSUME NEW j \in DOMAIN r, r[j].kind = "properties"
             PROVE  /\ \A i \in DOMAIN r : LastBefore(r, j, i) => r[j].path \in ToSet(r[i].list)
                    /\ (\A i \in DOMAIN r : i < j => ~IsList(r[i])) => r[j].path \in ToSet(l)
  BY DEF Expected, r
<1>2. \A i \in DOMAIN r : LastBefore(r, j, i) => i \in DOMAIN q /\ r[i] = q[i] /\ LastBefore(q, j, i)
  <2> SUFFICES ASSUME NEW i \in DOMAIN r, LastBefore(r, j, i)
               PROVE  i \in DOMAIN q /\ r[i] = q[i] /\ LastBefore(q, j, i)
    OBVIOUS
  <2>1. i < j /\ IsList(r[i]) /\ \A k \in i + 1 .. j - 1 : ~IsList(r[k])
    BY DEF LastBefore
  <2>2. i \in DOMAIN q /\ \A k \in i + 1 .. j - 1 : k \in DOMAIN q
    BY <1>1, <2>1
  <2> QED BY <1>1, <2>1, <2>2 DEF LastBefore
<1>3. CASE j = N + 1
  <2>1. \A i \in DOMAIN r : LastBefore(r, j, i) => r[j].path \in ToSet(r[i].list)
    BY <1>1, <1>2, <1>3 DEF N
  <2>2. (\A i \in DOMAIN r : i < j => ~IsList(r[i])) => NoLists(q)
    <3>1. \A i \in DOMAIN q : i < j
      BY <1>1, <1>3
    <3> QED BY <1>1, <3>1 DEF NoLists
  <2> QED BY <1>1, <1>3, <2>1, <2>2
<1>4. CASE j # N + 1
  <2>1. j \in DOMAIN q /\ r[j] = q[j]
    BY <1>1, <1>4
  <2>2. \A i \in DOMAIN r : LastBefore(r, j, i) => r[j].path \in ToSet(r[i].list)
    BY <1>2, <2>1 DEF Expected
  <2>3. (\A i \in DOMAIN r : i < j => ~IsList(r[i])) => \A i \in DOMAIN q : i < j => ~IsList(q[i])
    BY <1>1
  <2> QED BY <2>1, <2>2, <2>3 DEF Expected
<1> QED BY <1>3, <1>4

LEMMA OrderComes ==
  ASSUME NEW q \in Seq(NetMessages), NEW m \in NetMessages, NEW h, ListsInOrder(q, h),
         IsList(m) => h <= m.run /\ \A i \in DOMAIN q : q[i].run <= m.run
  PROVE  ListsInOrder(Append(q, m), h)
<1> DEFINE r == Append(q, m)
           N == Len(q)
<1>1. /\ DOMAIN r = 1 .. N + 1 /\ r[N + 1] = m /\ N \in Nat /\ DOMAIN q = 1..N
      /\ \A j \in DOMAIN q : j \in DOMAIN r /\ r[j] = q[j]
  BY AppendIs
<1> HIDE DEF r, N
<1>2. \A j \in DOMAIN r : IsList(r[j]) => h <= r[j].run
  <2> TAKE j \in DOMAIN r
  <2>1. j = N + 1 \/ j \in DOMAIN q
    BY <1>1
  <2> QED BY <1>1, <2>1 DEF ListsInOrder
<1>3. \A i, j \in DOMAIN r : i < j /\ IsList(r[i]) /\ IsList(r[j]) => r[i].run <= r[j].run
  <2> SUFFICES ASSUME NEW i \in DOMAIN r, NEW j \in DOMAIN r, i < j, IsList(r[i]), IsList(r[j])
               PROVE  r[i].run <= r[j].run
    OBVIOUS
  <2>1. i \in DOMAIN q /\ (j = N + 1 \/ j \in DOMAIN q)
    BY <1>1
  <2> QED BY <1>1, <2>1 DEF ListsInOrder
<1> QED BY <1>2, <1>3 DEF ListsInOrder, r

LEMMA LastBeforeComes ==
  ASSUME NEW q \in Seq(NetMessages), NEW m \in NetMessages, NEW i \in DOMAIN Append(q, m),
         LastBefore(Append(q, m), Len(q) + 2, i)
  PROVE  IF IsList(m) THEN i = Len(q) + 1
         ELSE i \in DOMAIN q /\ LastBefore(q, Len(q) + 1, i)
<1> DEFINE r == Append(q, m)
           N == Len(q)
<1>1. /\ DOMAIN r = 1 .. N + 1 /\ r[N + 1] = m /\ N \in Nat /\ DOMAIN q = 1..N
      /\ \A j \in DOMAIN q : j \in DOMAIN r /\ r[j] = q[j]
  BY AppendIs
<1> HIDE DEF r, N
<1>2. i \in DOMAIN r /\ IsList(r[i]) /\ \A k \in i + 1 .. N + 1 : ~IsList(r[k])
  <2>1. N + 2 - 1 = N + 1
    BY <1>1
  <2> QED BY <2>1 DEF LastBefore, r, N
<1>3. CASE IsList(m)
  <2>1. ~(N + 1 \in i + 1 .. N + 1)
    BY <1>1, <1>2, <1>3
  <2>2. i = N + 1
    BY <1>1, <1>2, <2>1
  <2> QED BY <1>3, <2>2 DEF N
<1>4. CASE ~IsList(m)
  <2>1. i # N + 1
    BY <1>1, <1>2, <1>4
  <2>2. i \in DOMAIN q /\ i < N + 1
    BY <1>1, <1>2, <2>1
  <2>3. \A k \in i + 1 .. N + 1 - 1 : k \in i + 1 .. N + 1 /\ k \in DOMAIN q
    BY <1>1, <2>2
  <2>4. LastBefore(q, N + 1, i)
    BY <1>1, <1>2, <2>2, <2>3 DEF LastBefore
  <2> QED BY <1>4, <2>2, <2>4 DEF N
<1> QED BY <1>3, <1>4

\* connman sends m; its list is now d, and o2 are online.
LEMMA SentRight ==
  ASSUME NetAssumption, NEW s, NEW c, NEW o, NEW e, NEW h, NetRight(s, c, o, e, h),
         NEW m \in NetMessages, m.run = e, NEW t \in NetStates, NEW d \in ServiceLists,
         NEW o2, o2 \subseteq ToSet(d),
         IF IsList(m) THEN m.list = d ELSE d = c /\ c # <<>>,
         m.kind = "properties" => m.path \in ToSet(c) /\ Asked(s, m.path),
         \A x \in ToSet(d) : IF IsWord(m, x) THEN m.up <=> x \in o2 ELSE x \in o2 <=> x \in o,
         \A x \in ToSet(c) : Asked(s, x) => Asked(t, x) \/ (m.kind = "properties" /\ m.path = x),
         \A k \in DOMAIN t.queries : \E j \in DOMAIN s.queries : t.queries[k] = s.queries[j],
         t.rows = s.rows, t.listed = s.listed, t.last = s.last, t.told = s.told,
         t.incoming = Append(s.incoming, m)
  PROVE  NetRight(t, d, o2, e, h)
<1> DEFINE q == s.incoming
           r == t.incoming
           N == Len(q)
<1>1. /\ q \in Seq(NetMessages) /\ DOMAIN q = 1..N /\ N \in Nat
      /\ \A i \in DOMAIN q : q[i].run \in Nat
      /\ e \in Nat /\ h \in Int /\ h <= e /\ DOMAIN s.rows \in SUBSET Services
  BY RightParts
<1>2. /\ DOMAIN r = 1 .. N + 1 /\ r[N + 1] = m /\ Len(r) = N + 1 /\ r \in Seq(NetMessages)
      /\ \A j \in DOMAIN q : j \in DOMAIN r /\ r[j] = q[j]
  BY <1>1, AppendIs
<1>3. \A j \in DOMAIN r : j = N + 1 \/ j \in DOMAIN q
  BY <1>1, <1>2
<1>4. /\ Expected(q, s.listed) /\ ListsInOrder(q, h) /\ RunsBounded(s, e) /\ Current(s, c, e, h)
      /\ Mirrored(s, c, o, e)
  BY DEF NetRight
<1>5. m.kind = "properties" => ~NoneYet(s, e, h)
  <2> SUFFICES ASSUME m.kind = "properties", NoneYet(s, e, h) PROVE FALSE
    OBVIOUS
  <2>1. m.path \in ToSet(c) /\ Asked(s, m.path) /\ ~IsList(m)
    BY DEF IsList
  <2>2. e = 0
    BY <1>4, <2>1 DEF Current
  <2>3. m.path \in {"manager", "nobody"}
    BY <1>4, <2>1, <2>2 DEF Current, Asked
  <2>4. m.path \in Services
    <3>1. c \in ServiceLists
      BY DEF NetRight
    <3> QED BY <2>1, <3>1, OrdersAre
  <2> QED BY <2>3, <2>4 DEF NetAssumption, NoNames
<1> HIDE DEF q, r, N
<1>6. Expected(r, t.listed)
  <2>1. m.kind = "properties" =>
          /\ \A i \in DOMAIN q : LastBefore(q, Len(q) + 1, i) => m.path \in ToSet(q[i].list)
          /\ NoLists(q) => m.path \in ToSet(s.listed)
    BY <1>5, NewestIs DEF q
  <2>2. Expected(Append(q, m), s.listed)
    BY <1>1, <1>4, <2>1, ExpectedComes
  <2> QED BY <2>2 DEF r, q
<1>7. ListsInOrder(r, h)
  <2>1. \A i \in DOMAIN q : q[i].run <= m.run
    BY <1>4 DEF RunsBounded, q
  <2>2. ListsInOrder(Append(q, m), h)
    BY <1>1, <1>4, <2>1, OrderComes
  <2> QED BY <2>2 DEF r, q
<1>8. RunsBounded(t, e)
  <2>1. \A i \in DOMAIN r : r[i].run <= e
    BY <1>1, <1>2, <1>3, <1>4 DEF RunsBounded, q
  <2> QED BY <1>4, <2>1 DEF RunsBounded, r
<1>9. NoneYet(t, e, h) => NoneYet(s, e, h) /\ ~IsList(m)
  <2>1. NoneYet(t, e, h) => NoneYet(s, e, h)
    BY <1>2 DEF NoneYet, q, r
  <2>2. N + 1 \in DOMAIN r
    BY <1>1, <1>2
  <2> QED BY <1>1, <1>2, <2>1, <2>2 DEF NoneYet, r
<1>10. Current(t, d, e, h)
  <2>1. ASSUME NEW i \in DOMAIN r, LastBefore(r, Len(r) + 1, i), r[i].run = e PROVE r[i].list = d
    <3>1. Len(r) + 1 = N + 2
      BY <1>1, <1>2
    <3>2. IF IsList(m) THEN i = N + 1 ELSE i \in DOMAIN q /\ LastBefore(q, N + 1, i)
      <4>1. i \in DOMAIN Append(q, m) /\ LastBefore(Append(q, m), Len(q) + 2, i)
        BY <2>1, <3>1 DEF r, q, N
      <4> QED BY <1>1, <4>1, LastBeforeComes DEF N
    <3>3. CASE IsList(m)
      BY <1>2, <3>2, <3>3
    <3>4. CASE ~IsList(m)
      BY <1>2, <1>4, <2>1, <3>2, <3>4 DEF Current, q, N
    <3> QED BY <3>3, <3>4
  <2>2. ASSUME NoLists(r), h = e PROVE t.listed = d
    <3>1. NoLists(q) /\ ~IsList(m)
      <4>1. N + 1 \in DOMAIN r
        BY <1>1, <1>2
      <4> QED BY <1>2, <2>2, <4>1 DEF NoLists
    <3> QED BY <1>4, <2>2, <3>1 DEF Current, q
  <2>3. ASSUME NoneYet(t, e, h), e = 0
        PROVE  /\ DOMAIN t.rows = {}
               /\ \A k \in DOMAIN t.queries : t.queries[k] \in {"manager", "nobody"}
    BY <1>4, <1>9, <2>3 DEF Current
  <2>4. ASSUME NoneYet(t, e, h), e # 0 PROVE FALSE
    BY <1>4, <1>9, <2>4 DEF Current
  <2> QED BY <2>1, <2>2, <2>3, <2>4 DEF Current, r
<1>11. Mirrored(t, d, o2, e)
  <2> SUFFICES ASSUME NEW p \in Services, Steady(t, d, p), ~Asked(t, p)
               PROVE  Truth(t, o2, e, p) /\ (e = 0 => Named(t, p))
    BY DEF Mirrored
  <2>1. p \in DOMAIN s.rows /\ p \in ToSet(d)
        /\ \A i \in DOMAIN q : IsList(q[i]) => p \in ToSet(q[i].list)
    BY <1>2 DEF Steady, q, r
  <2>2. p \in ToSet(c) \/ (NoneYet(s, e, h) /\ IsList(m))
    BY <2>1, ListedByAll DEF q
  <2>3. IF IsWord(m, p) THEN m.up <=> p \in o2 ELSE p \in o2 <=> p \in o
    BY <2>1
  <2>4. N + 1 \in DOMAIN r /\ \A j \in DOMAIN q : N + 1 > j
    BY <1>1, <1>2
  <2>5. \A j \in DOMAIN r : LastWord(r, j, p) =>
          IF IsWord(m, p) THEN j = N + 1 ELSE j \in DOMAIN q /\ LastWord(q, j, p)
    BY <1>2, <1>3, <2>4 DEF LastWord
  <2>6. (\A j \in DOMAIN r : ~IsWord(r[j], p)) => ~IsWord(m, p) /\ \A j \in DOMAIN q : ~IsWord(q[j], p)
    BY <1>2, <2>4
  <2>7. CASE NoneYet(s, e, h) /\ IsList(m)
    <3>1. e # 0
      BY <1>4, <2>1, <2>7 DEF Current
    <3>2. (\A i \in DOMAIN q : q[i].run < e) /\ s.rows[p].run < e
      BY <1>4, <2>1, <2>7, <3>1 DEF Current, q
    <3>3. ~IsWord(m, p)
      BY <2>7 DEF IsWord, IsList
    <3>4. \A j \in DOMAIN r : LastWord(r, j, p) => r[j].run # e
      BY <1>1, <1>2, <2>5, <3>2, <3>3
    <3>5. s.rows[p].run # e
      BY <1>1, <3>2
    <3> QED BY <3>1, <3>4, <3>5 DEF Truth, r
  <2>8. CASE p \in ToSet(c) /\ IsWord(m, p)
    <3>1. Truth(t, o2, e, p)
      BY <1>2, <2>3, <2>5, <2>6, <2>8 DEF Truth, r
    <3>2. e = 0 => Named(t, p)
      <4>1. CASE m.kind = "properties"
        BY <1>2, <2>4, <2>8, <4>1 DEF Named, IsWord, r
      <4>2. CASE m.kind # "properties"
        <5>1. ~Asked(s, p) /\ Steady(s, c, p)
          BY <2>1, <2>8, <4>2 DEF Steady, q
        <5>2. e = 0 => Named(s, p)
          BY <1>4, <5>1 DEF Mirrored
        <5> QED BY <1>2, <5>2 DEF Named, q, r
      <4> QED BY <4>1, <4>2
    <3> QED BY <3>1, <3>2
  <2>9. CASE p \in ToSet(c) /\ ~IsWord(m, p)
    <3>1. ~Asked(s, p) /\ Steady(s, c, p)
      BY <2>1, <2>9 DEF Steady, IsWord, q
    <3>2. Truth(s, o, e, p) /\ (e = 0 => Named(s, p))
      BY <1>4, <3>1 DEF Mirrored
    <3>3. Truth(t, o2, e, p)
      BY <1>2, <2>3, <2>5, <2>6, <2>9, <3>2 DEF Truth, q, r
    <3>4. Named(s, p) => Named(t, p)
      BY <1>2 DEF Named, q, r
    <3> QED BY <3>2, <3>3, <3>4
  <2> QED BY <2>2, <2>7, <2>8, <2>9
<1>12. Placed(t) /\ TopIsTold(t) /\ TopIsShown(t)
  BY DEF NetRight, Placed, TopIsTold, TopIsShown
<1>13. h \in -1..e
  BY DEF NetRight
<1> QED BY <1>1, <1>6, <1>7, <1>8, <1>10, <1>11, <1>12, <1>13 DEF NetRight, r

\* r is q without its first message, where what is about no path of P may find nobody.
Popped(q, r, P) ==
  /\ DOMAIN r = 1 .. Len(q) - 1 /\ DOMAIN q = 1..Len(q) /\ Len(q) \in Nat /\ 1 \in DOMAIN q
  /\ \A j \in DOMAIN r : /\ j + 1 \in DOMAIN q /\ (IsList(r[j]) <=> IsList(q[j + 1]))
                         /\ r[j] # q[j + 1] => /\ r[j] = Void /\ ~IsList(r[j])
                                               /\ q[j + 1].path \notin P
  /\ \A j \in DOMAIN q : j # 1 => j - 1 \in DOMAIN r /\ (j - 1) + 1 = j

LEMMA PoppedIs ==
  ASSUME NetAssumption, NEW q \in Seq(NetMessages), q # <<>>, NEW r, NEW P, Quieter(Tail(q), r, P)
  PROVE  Popped(q, r, P)
<1> DEFINE T == Tail(q)
<1>1. /\ DOMAIN T = 1 .. Len(q) - 1
      /\ \A j \in DOMAIN T : j + 1 \in DOMAIN q /\ T[j] = q[j + 1]
      /\ 1 \in DOMAIN q /\ DOMAIN q = 1..Len(q) /\ Len(q) \in Nat
  BY TailIs
<1> HIDE DEF T
<1>2. /\ DOMAIN r = DOMAIN T
      /\ \A j \in DOMAIN T : r[j] = T[j] \/ (r[j] = Void /\ ~IsList(T[j]) /\ T[j].path \notin P)
  BY DEF Quieter, T
<1>3. \A j \in DOMAIN r : /\ j + 1 \in DOMAIN q /\ (IsList(r[j]) <=> IsList(q[j + 1]))
                          /\ r[j] # q[j + 1] => /\ r[j] = Void /\ ~IsList(r[j])
                                                /\ q[j + 1].path \notin P
  BY <1>1, <1>2, VoidIs
<1>4. \A j \in DOMAIN q : j # 1 => j - 1 \in DOMAIN r /\ (j - 1) + 1 = j
  BY <1>1, <1>2
<1> QED BY <1>1, <1>2, <1>3, <1>4 DEF Popped

LEMMA LastBeforeGoes ==
  ASSUME NEW q, NEW r, NEW P, Popped(q, r, P), NEW j \in 1..Len(q), NEW i \in DOMAIN r,
         LastBefore(r, j, i)
  PROVE  i + 1 \in DOMAIN q /\ r[i] = q[i + 1] /\ LastBefore(q, j + 1, i + 1)
<1>1. i < j /\ IsList(r[i]) /\ \A k \in i + 1 .. j - 1 : ~IsList(r[k])
  BY DEF LastBefore
<1>2. i \in Nat /\ j \in Nat /\ i + 1 \in DOMAIN q /\ r[i] = q[i + 1] /\ IsList(q[i + 1])
  BY <1>1 DEF Popped
<1>3. ASSUME NEW k \in (i + 1) + 1 .. (j + 1) - 1 PROVE ~IsList(q[k])
  <2>1. k - 1 \in i + 1 .. j - 1 /\ k - 1 \in DOMAIN r /\ (k - 1) + 1 = k
    BY <1>2 DEF Popped
  <2> QED BY <1>1, <2>1 DEF Popped
<1>4. i + 1 < j + 1
  BY <1>1, <1>2
<1> QED BY <1>2, <1>3, <1>4 DEF LastBefore

LEMMA ExpectedGoes ==
  ASSUME NEW q, NEW r, NEW P, Popped(q, r, P), NEW l, Expected(q, l),
         Void.kind = "void"
  PROVE  Expected(r, IF IsList(q[1]) THEN q[1].list ELSE l)
<1> SUFFICES ASSUME NEW j \in DOMAIN r, r[j].kind = "properties"
             PROVE  /\ \A i \in DOMAIN r : LastBefore(r, j, i) => r[j].path \in ToSet(r[i].list)
                    /\ (\A i \in DOMAIN r : i < j => ~IsList(r[i])) =>
                         r[j].path \in ToSet(IF IsList(q[1]) THEN q[1].list ELSE l)
  BY DEF Expected
<1>1. j + 1 \in DOMAIN q /\ r[j] = q[j + 1] /\ j \in 1..Len(q) /\ j \in Nat /\ j >= 1
      /\ 1 \in DOMAIN q
  BY DEF Popped
<1>2. /\ \A i \in DOMAIN q : LastBefore(q, j + 1, i) => q[j + 1].path \in ToSet(q[i].list)
      /\ (\A i \in DOMAIN q : i < j + 1 => ~IsList(q[i])) => q[j + 1].path \in ToSet(l)
  BY <1>1 DEF Expected
<1>3. \A i \in DOMAIN r : LastBefore(r, j, i) => r[j].path \in ToSet(r[i].list)
  <2> SUFFICES ASSUME NEW i \in DOMAIN r, LastBefore(r, j, i) PROVE r[j].path \in ToSet(r[i].list)
    OBVIOUS
  <2>1. i + 1 \in DOMAIN q /\ r[i] = q[i + 1] /\ LastBefore(q, j + 1, i + 1)
    BY <1>1, LastBeforeGoes
  <2> QED BY <1>1, <1>2, <2>1
<1>4. ASSUME \A i \in DOMAIN r : i < j => ~IsList(r[i])
      PROVE  r[j].path \in ToSet(IF IsList(q[1]) THEN q[1].list ELSE l)
  <2>1. ASSUME NEW i \in DOMAIN q, i # 1, i < j + 1 PROVE ~IsList(q[i])
    <3>1. i - 1 \in DOMAIN r /\ (i - 1) + 1 = i /\ i - 1 < j
      BY <1>1, <2>1 DEF Popped
    <3> QED BY <1>4, <3>1 DEF Popped
  <2>2. CASE IsList(q[1])
    <3>1. \A k \in 1 + 1 .. (j + 1) - 1 : k \in DOMAIN q /\ k # 1 /\ k < j + 1
      BY <1>1 DEF Popped
    <3>2. LastBefore(q, j + 1, 1)
      BY <1>1, <2>1, <2>2, <3>1 DEF LastBefore
    <3> QED BY <1>1, <1>2, <2>2, <3>2
  <2>3. CASE ~IsList(q[1])
    BY <1>1, <1>2, <2>1, <2>3
  <2> QED BY <2>2, <2>3
<1> QED BY <1>3, <1>4

LEMMA FlowsGoes ==
  ASSUME NEW q, NEW r, NEW P, Popped(q, r, P), NEW h, ListsInOrder(q, h)
  PROVE  ListsInOrder(r, IF IsList(q[1]) THEN q[1].run ELSE h)
<1>1. \A j \in DOMAIN r : IsList(r[j]) => /\ j + 1 \in DOMAIN q /\ r[j] = q[j + 1]
                                          /\ IsList(q[j + 1]) /\ 1 < j + 1 /\ 1 \in DOMAIN q
  BY DEF Popped
<1>2. \A j \in DOMAIN r : IsList(r[j]) => (IF IsList(q[1]) THEN q[1].run ELSE h) <= r[j].run
  BY <1>1 DEF ListsInOrder
<1>3. \A i, j \in DOMAIN r : i < j => i + 1 < j + 1
  BY DEF Popped
<1>4. \A i, j \in DOMAIN r : i < j /\ IsList(r[i]) /\ IsList(r[j]) => r[i].run <= r[j].run
  <2> SUFFICES ASSUME NEW i \in DOMAIN r, NEW j \in DOMAIN r, i < j, IsList(r[i]), IsList(r[j])
               PROVE  r[i].run <= r[j].run
    OBVIOUS
  <2>1. i + 1 < j + 1 /\ i + 1 \in DOMAIN q /\ j + 1 \in DOMAIN q /\ r[i] = q[i + 1]
        /\ r[j] = q[j + 1] /\ IsList(q[i + 1]) /\ IsList(q[j + 1])
    BY <1>1, <1>3
  <2> QED BY <2>1 DEF ListsInOrder
<1> QED BY <1>2, <1>4 DEF ListsInOrder

LEMMA WordsGo ==
  ASSUME NEW q, NEW r, NEW P, Popped(q, r, P), NEW p \in P, Void.kind = "void"
  PROVE  /\ \A j \in DOMAIN r : LastWord(r, j, p) =>
              j + 1 \in DOMAIN q /\ r[j] = q[j + 1] /\ LastWord(q, j + 1, p)
         /\ (\A j \in DOMAIN r : ~IsWord(r[j], p)) => \A j \in DOMAIN q : j # 1 => ~IsWord(q[j], p)
         /\ \A j \in DOMAIN q : j # 1 /\ q[j].kind = "properties" /\ q[j].path = p =>
              \E i \in DOMAIN r : r[i].kind = "properties" /\ r[i].path = p
<1>1. \A j \in DOMAIN r : IsWord(r[j], p) <=> IsWord(q[j + 1], p)
  BY DEF Popped, IsWord
<1>2. \A j \in DOMAIN q : j # 1 => (IsWord(r[j - 1], p) <=> IsWord(q[j], p)) /\ j - 1 \in DOMAIN r
  BY <1>1 DEF Popped
<1>3. ASSUME NEW j \in DOMAIN r, LastWord(r, j, p)
      PROVE  j + 1 \in DOMAIN q /\ r[j] = q[j + 1] /\ LastWord(q, j + 1, p)
  <2>1. j + 1 \in DOMAIN q /\ IsWord(r[j], p) /\ j \in Nat /\ j >= 1 /\ Len(q) \in Nat
        /\ DOMAIN q = 1..Len(q)
    BY <1>3 DEF LastWord, Popped
  <2>2. r[j] = q[j + 1]
    BY <1>3, <2>1 DEF Popped, IsWord
  <2>3. ASSUME NEW k \in DOMAIN q, k > j + 1 PROVE ~IsWord(q[k], p)
    <3>1. k # 1 /\ k - 1 > j
      BY <2>1, <2>3
    <3> QED BY <1>2, <1>3, <3>1 DEF LastWord
  <2> QED BY <2>1, <2>2, <2>3 DEF LastWord
<1>4. ASSUME NEW j \in DOMAIN q, j # 1, q[j].kind = "properties", q[j].path = p
      PROVE  \E i \in DOMAIN r : r[i].kind = "properties" /\ r[i].path = p
  <2>1. j - 1 \in DOMAIN r /\ r[j - 1] = q[j]
    BY <1>4 DEF Popped
  <2> QED BY <1>4, <2>1
<1> QED BY <1>2, <1>3, <1>4

LEMMA LastListGoes ==
  ASSUME NEW q, NEW r \in Seq(NetMessages), NEW P, Popped(q, r, P)
  PROVE  /\ \A i \in DOMAIN r : LastBefore(r, Len(r) + 1, i) =>
              i + 1 \in DOMAIN q /\ r[i] = q[i + 1] /\ LastBefore(q, Len(q) + 1, i + 1)
         /\ NoLists(r) => IF IsList(q[1]) THEN LastBefore(q, Len(q) + 1, 1) ELSE NoLists(q)
<1> DEFINE N == Len(q)
<1>1. DOMAIN r = 1 .. N - 1 /\ N \in Nat /\ N >= 1 /\ DOMAIN q = 1..N
  BY DEF Popped
<1>2. Len(r) = N - 1
  <2>1. DOMAIN r = 1..Len(r) /\ Len(r) \in Nat
    OBVIOUS
  <2>2. N - 1 > 0 => N - 1 \in 1..Len(r)
    BY <1>1, <2>1
  <2>3. Len(r) > 0 => Len(r) \in 1 .. N - 1
    BY <1>1, <2>1
  <2>4. N - 1 \in Nat /\ Len(r) \in Nat
    BY <1>1, <2>1
  <2>5. (N - 1 > 0 => N - 1 <= Len(r)) /\ (Len(r) > 0 => Len(r) <= N - 1)
    BY <2>2, <2>3, <2>4
  <2> QED BY <2>4, <2>5
<1>3. ASSUME NEW i \in DOMAIN r, LastBefore(r, Len(r) + 1, i)
      PROVE  i + 1 \in DOMAIN q /\ r[i] = q[i + 1] /\ LastBefore(q, Len(q) + 1, i + 1)
  <2>1. N \in 1..Len(q) /\ Len(r) + 1 = N
    BY <1>1, <1>2
  <2>2. LastBefore(r, N, i)
    BY <1>3, <2>1
  <2> HIDE DEF N
  <2>3. i + 1 \in DOMAIN q /\ r[i] = q[i + 1] /\ LastBefore(q, N + 1, i + 1)
    BY <2>1, <2>2, LastBeforeGoes
  <2> QED BY <2>3 DEF N
<1>4. ASSUME NoLists(r) PROVE IF IsList(q[1]) THEN LastBefore(q, Len(q) + 1, 1) ELSE NoLists(q)
  <2>1. \A j \in DOMAIN q : j # 1 => ~IsList(q[j])
    BY <1>4 DEF Popped, NoLists
  <2>2. \A k \in 1 + 1 .. (Len(q) + 1) - 1 : k \in DOMAIN q /\ k # 1
    BY <1>1
  <2>3. 1 < Len(q) + 1
    BY <1>1
  <2> QED BY <2>1, <2>2, <2>3 DEF LastBefore, NoLists
<1> QED BY <1>3, <1>4

\* The first message was no list: m, which may have told of a row's state.
LEMMA HeardRight ==
  ASSUME NetAssumption, NEW s, NEW c, NEW o, NEW e, NEW h, NetRight(s, c, o, e, h),
         s.incoming # <<>>, NEW m, m = Head(s.incoming), ~IsList(m),
         NEW t \in NetStates, t.listed = s.listed, t.incoming = Tail(s.incoming),
         \A x : x \in DOMAIN t.rows <=> x \in DOMAIN s.rows,
         \A x \in DOMAIN s.rows :
           /\ t.rows[x].index = s.rows[x].index
           /\ ~IsWord(m, x) => t.rows[x] = s.rows[x]
           /\ IsWord(m, x) => /\ t.rows[x].up = m.up /\ t.rows[x].run = m.run
                              /\ t.rows[x].named = (s.rows[x].named \/ m.kind = "properties"),
         \A x : Asked(s, x) => Asked(t, x),
         DOMAIN s.rows = {} => t.queries = s.queries,
         TopIsTold(t), TopIsShown(t)
  PROVE  NetRight(t, c, o, e, h)
<1> DEFINE q == s.incoming
           r == t.incoming
           P == Services
<1>1. /\ q \in Seq(NetMessages) /\ \A i \in DOMAIN q : q[i].run \in Nat
      /\ e \in Nat /\ h \in Int /\ h <= e /\ DOMAIN s.rows \in SUBSET Services
      /\ \A p \in DOMAIN s.rows : s.rows[p].run \in Nat /\ s.rows[p] \in MirrorRow
  BY RightParts
<1>2. Popped(q, r, P) /\ r \in Seq(NetMessages) /\ q[1] = m /\ \A j \in DOMAIN r : r[j] = q[j + 1]
  <2>1. Quieter(Tail(q), r, P)
    BY QuieterSelf
  <2> QED BY <1>1, <2>1, PoppedIs, TailIs
<1>3. /\ Expected(q, s.listed) /\ ListsInOrder(q, h) /\ RunsBounded(s, e) /\ Current(s, c, e, h)
      /\ Mirrored(s, c, o, e) /\ Placed(s)
  BY DEF NetRight
<1>4. \A j \in DOMAIN r : j + 1 \in DOMAIN q /\ r[j] = q[j + 1] /\ 1 \in DOMAIN q
  BY <1>2 DEF Popped
<1>5. 1 \in DOMAIN q
  BY <1>2 DEF Popped
<1> HIDE DEF q, r, P
<1>6. Expected(r, t.listed) /\ ListsInOrder(r, h)
  BY <1>2, <1>3, ExpectedGoes, FlowsGoes, VoidIs
<1>7. RunsBounded(t, e)
  <2>1. \A i \in DOMAIN r : r[i].run <= e
    BY <1>3, <1>4 DEF RunsBounded, q
  <2>2. ASSUME NEW x \in DOMAIN t.rows PROVE t.rows[x].run <= e
    <3>1. t.rows[x].run = s.rows[x].run \/ t.rows[x].run = q[1].run
      BY <1>2
    <3> QED BY <1>3, <1>5, <3>1 DEF RunsBounded, q
  <2> QED BY <2>1, <2>2 DEF RunsBounded, r
<1>8. NoneYet(t, e, h) => NoneYet(s, e, h)
  <2> SUFFICES ASSUME NoneYet(t, e, h), NEW i \in DOMAIN q, IsList(q[i]) PROVE q[i].run < e
    BY DEF NoneYet, q
  <2>1. i # 1
    BY <1>2
  <2>2. i - 1 \in DOMAIN r /\ r[i - 1] = q[i]
    BY <1>2, <2>1 DEF Popped
  <2> QED BY <2>2 DEF NoneYet, r
<1>9. Current(t, c, e, h)
  <2>1. ASSUME NEW i \in DOMAIN r, LastBefore(r, Len(r) + 1, i), r[i].run = e PROVE r[i].list = c
    <3>1. i + 1 \in DOMAIN q /\ r[i] = q[i + 1] /\ LastBefore(q, Len(q) + 1, i + 1)
      BY <1>2, <2>1, LastListGoes
    <3> QED BY <1>3, <2>1, <3>1 DEF Current, q
  <2>2. ASSUME NoLists(r), h = e PROVE t.listed = c
    <3>1. NoLists(q)
      BY <1>2, <2>2, LastListGoes
    <3> QED BY <1>3, <2>2, <3>1 DEF Current, q
  <2>3. ASSUME NoneYet(t, e, h), e = 0
        PROVE  /\ DOMAIN t.rows = {}
               /\ \A k \in DOMAIN t.queries : t.queries[k] \in {"manager", "nobody"}
    BY <1>3, <1>8, <2>3 DEF Current
  <2>4. ASSUME NoneYet(t, e, h), e # 0
        PROVE  /\ c = <<>>
               /\ \A i \in DOMAIN r : r[i].run < e
               /\ \A p \in DOMAIN t.rows : t.rows[p].run < e
    <3>1. /\ c = <<>> /\ \A i \in DOMAIN q : q[i].run < e
          /\ \A p \in DOMAIN s.rows : s.rows[p].run < e
      BY <1>3, <1>8, <2>4 DEF Current, q
    <3>2. ASSUME NEW x \in DOMAIN t.rows PROVE t.rows[x].run < e
      <4>1. t.rows[x].run = s.rows[x].run \/ t.rows[x].run = q[1].run
        BY <1>2
      <4> QED BY <1>5, <3>1, <4>1
    <3> QED BY <1>4, <3>1, <3>2
  <2> QED BY <2>1, <2>2, <2>3, <2>4 DEF Current, r
<1>10. Mirrored(t, c, o, e)
  <2> SUFFICES ASSUME NEW p \in Services, Steady(t, c, p), ~Asked(t, p)
               PROVE  Truth(t, o, e, p) /\ (e = 0 => Named(t, p))
    BY DEF Mirrored
  <2>1. Steady(s, c, p) /\ ~Asked(s, p)
    <3>1. \A i \in DOMAIN q : IsList(q[i]) => i - 1 \in DOMAIN r /\ r[i - 1] = q[i]
      BY <1>2 DEF Popped
    <3>2. \A i \in DOMAIN q : IsList(q[i]) => p \in ToSet(q[i].list)
      BY <3>1 DEF Steady, r
    <3> QED BY <3>2 DEF Steady, q
  <2>2. Truth(s, o, e, p) /\ (e = 0 => Named(s, p)) /\ p \in DOMAIN s.rows
    BY <1>3, <2>1 DEF Mirrored, Steady
  <2>3. /\ \A j \in DOMAIN r : LastWord(r, j, p) =>
             j + 1 \in DOMAIN q /\ r[j] = q[j + 1] /\ LastWord(q, j + 1, p)
        /\ (\A j \in DOMAIN r : ~IsWord(r[j], p)) => \A j \in DOMAIN q : j # 1 => ~IsWord(q[j], p)
        /\ \A j \in DOMAIN q : j # 1 /\ q[j].kind = "properties" /\ q[j].path = p =>
             \E i \in DOMAIN r : r[i].kind = "properties" /\ r[i].path = p
    BY <1>2, WordsGo, VoidIs DEF P
  <2>4. \A j \in DOMAIN r : LastWord(r, j, p) /\ r[j].run = e => (r[j].up <=> p \in o)
    BY <2>2, <2>3 DEF Truth, q
  <2>5. ASSUME \A j \in DOMAIN r : ~IsWord(r[j], p), t.rows[p].run = e
        PROVE  t.rows[p].up <=> p \in o
    <3>1. CASE IsWord(m, p)
      <4>1. \A k \in DOMAIN q : k > 1 => ~IsWord(q[k], p)
        BY <2>3, <2>5
      <4>2. LastWord(q, 1, p)
        BY <1>2, <3>1, <4>1 DEF LastWord
      <4>3. t.rows[p].up = q[1].up /\ q[1].run = e
        BY <1>2, <2>2, <2>5, <3>1
      <4> QED BY <1>5, <2>2, <4>2, <4>3 DEF Truth, q
    <3>2. CASE ~IsWord(m, p)
      <4>1. \A j \in DOMAIN q : ~IsWord(q[j], p)
        BY <1>2, <2>3, <2>5, <3>2
      <4>2. t.rows[p] = s.rows[p]
        BY <2>2, <3>2
      <4> QED BY <2>2, <2>5, <4>1, <4>2 DEF Truth, q
    <3> QED BY <3>1, <3>2
  <2>6. Named(s, p) => Named(t, p)
    <3> SUFFICES ASSUME Named(s, p) PROVE Named(t, p)
      OBVIOUS
    <3>1. CASE s.rows[p].named
      <4>1. t.rows[p].named
        BY <2>2, <3>1
      <4> QED BY <4>1 DEF Named
    <3>2. CASE ~s.rows[p].named
      <4>1. PICK j \in DOMAIN q : q[j].kind = "properties" /\ q[j].path = p
        BY <3>2 DEF Named, q
      <4>2. CASE j = 1
        <5>1. IsWord(m, p) /\ m.kind = "properties"
          BY <1>2, <4>1, <4>2 DEF IsWord
        <5>2. t.rows[p].named
          BY <2>2, <5>1
        <5> QED BY <5>2 DEF Named
      <4>3. CASE j # 1
        BY <2>3, <4>1, <4>3 DEF Named, r
      <4> QED BY <4>2, <4>3
    <3> QED BY <3>1, <3>2
  <2> QED BY <2>2, <2>4, <2>5, <2>6 DEF Truth, r
<1>11. Placed(t)
  <2>1. DOMAIN t.rows = ToSet(t.listed)
    BY <1>3 DEF Placed
  <2>2. \A i \in DOMAIN s.listed : s.listed[i] \in ToSet(s.listed)
    BY DEF ToSet
  <2>3. \A i \in DOMAIN s.listed : t.rows[s.listed[i]].index = i - 1
    BY <1>3, <2>2 DEF Placed
  <2> QED BY <2>1, <2>3 DEF Placed
<1>12. c \in ServiceLists /\ o \subseteq ToSet(c) /\ h \in -1..e
  BY DEF NetRight
<1> QED BY <1>1, <1>6, <1>7, <1>9, <1>10, <1>11, <1>12 DEF NetRight, r

\* The first message was a list, and t is what it made of the rows.
LEMMA ListHeardRight ==
  ASSUME NetAssumption, NEW s, NEW c, NEW o, NEW e, NEW h, NetRight(s, c, o, e, h),
         s.incoming # <<>>, NEW m, m = Head(s.incoming), IsList(m),
         NEW u, u.rows = s.rows, u.queries = s.queries, u.incoming = Tail(s.incoming),
         TopIsTold(u), NEW t, Updated(u, t, m.list, m.run)
  PROVE  NetRight(t, c, o, e, m.run)
<1> DEFINE q == s.incoming
           r == t.incoming
           P == DOMAIN s.rows \cap ToSet(m.list)
           f == m.run
<1>1. /\ q \in Seq(NetMessages) /\ \A i \in DOMAIN q : q[i].run \in Nat /\ q[i] \in NetMessages
      /\ e \in Nat /\ h \in Int /\ h <= e /\ DOMAIN s.rows \in SUBSET Services
      /\ \A p \in DOMAIN s.rows : s.rows[p].run \in Nat
  BY RightParts
<1>2. /\ t \in NetStates /\ t.listed = m.list /\ Placed(t)
      /\ \A x \in DOMAIN t.rows : IF x \in DOMAIN s.rows THEN SameState(t.rows[x], s.rows[x])
                                  ELSE t.rows[x].run = f /\ Asked(t, x)
      /\ \A x \in DOMAIN t.rows : Asked(s, x) => Asked(t, x)
      /\ Quieter(Tail(q), r, P) /\ TopIsShown(t) /\ TopIsTold(t)
  BY DEF Updated, Asked
<1>3. Popped(q, r, P) /\ r \in Seq(NetMessages) /\ q[1] = m
  BY <1>1, <1>2, PoppedIs, TailIs, NetParts
<1>4. /\ Expected(q, s.listed) /\ ListsInOrder(q, h) /\ RunsBounded(s, e) /\ Current(s, c, e, h)
      /\ Mirrored(s, c, o, e)
  BY DEF NetRight
<1>5. 1 \in DOMAIN q /\ h <= f /\ f <= e /\ f \in Nat
  <2>1. 1 \in DOMAIN q
    BY <1>3 DEF Popped
  <2> QED BY <1>1, <1>3, <1>4, <2>1 DEF ListsInOrder, RunsBounded
<1> HIDE DEF q, r, P, f
<1>6. \A j \in DOMAIN r : j + 1 \in DOMAIN q /\ (r[j] = q[j + 1] \/ r[j].run = 0)
  BY <1>3, VoidIs DEF Popped
<1>7. Expected(r, t.listed) /\ ListsInOrder(r, f)
  BY <1>2, <1>3, <1>4, ExpectedGoes, FlowsGoes, VoidIs DEF f
<1>8. RunsBounded(t, e)
  <2>1. \A i \in DOMAIN r : r[i].run <= e
    BY <1>1, <1>4, <1>6 DEF RunsBounded, q
  <2>2. \A x \in DOMAIN t.rows : t.rows[x].run <= e
    BY <1>2, <1>4, <1>5 DEF RunsBounded, SameState
  <2> QED BY <2>1, <2>2 DEF RunsBounded, r
<1>9. NoneYet(t, e, f) => NoneYet(s, e, h) /\ e # 0 /\ f < e
  <2> SUFFICES ASSUME NoneYet(t, e, f) PROVE NoneYet(s, e, h) /\ e # 0 /\ f < e
    OBVIOUS
  <2>1. f < e /\ h < e /\ e # 0
    BY <1>1, <1>5 DEF NoneYet
  <2>2. ASSUME NEW i \in DOMAIN q, IsList(q[i]) PROVE q[i].run < e
    <3>1. CASE i = 1
      BY <1>3, <2>1, <3>1 DEF f
    <3>2. CASE i # 1
      <4>1. i - 1 \in DOMAIN r /\ r[i - 1] = q[i]
        BY <1>3, <2>2, <3>2 DEF Popped
      <4> QED BY <2>2, <4>1 DEF NoneYet, r
    <3> QED BY <3>1, <3>2
  <2> QED BY <2>1, <2>2 DEF NoneYet, q
<1>10. Current(t, c, e, f)
  <2>1. ASSUME NEW i \in DOMAIN r, LastBefore(r, Len(r) + 1, i), r[i].run = e PROVE r[i].list = c
    <3>1. i + 1 \in DOMAIN q /\ r[i] = q[i + 1] /\ LastBefore(q, Len(q) + 1, i + 1)
      BY <1>3, <2>1, LastListGoes
    <3> QED BY <1>4, <2>1, <3>1 DEF Current, q
  <2>2. ASSUME NoLists(r), f = e PROVE t.listed = c
    <3>1. LastBefore(q, Len(q) + 1, 1)
      BY <1>3, <2>2, LastListGoes
    <3> QED BY <1>2, <1>3, <1>4, <1>5, <2>2, <3>1 DEF Current, q, f
  <2>3. ASSUME NoneYet(t, e, f)
        PROVE  /\ c = <<>> /\ e # 0
               /\ \A i \in DOMAIN r : r[i].run < e
               /\ \A p \in DOMAIN t.rows : t.rows[p].run < e
    <3>1. /\ c = <<>> /\ (\A i \in DOMAIN q : q[i].run < e) /\ f < e /\ e # 0
          /\ \A p \in DOMAIN s.rows : s.rows[p].run < e
      BY <1>4, <1>9, <2>3 DEF Current, q
    <3>2. \A i \in DOMAIN r : r[i].run < e
      BY <1>1, <1>6, <3>1
    <3> QED BY <1>2, <3>1, <3>2 DEF SameState
  <2> QED BY <2>1, <2>2, <2>3 DEF Current, r
<1>11. Mirrored(t, c, o, e)
  <2> SUFFICES ASSUME NEW p \in Services, Steady(t, c, p), ~Asked(t, p)
               PROVE  Truth(t, o, e, p) /\ (e = 0 => Named(t, p))
    BY DEF Mirrored
  <2>1. p \in DOMAIN s.rows /\ p \in DOMAIN t.rows /\ SameState(t.rows[p], s.rows[p])
        /\ ~Asked(s, p) /\ p \in ToSet(c) /\ p \in ToSet(m.list)
    BY <1>2 DEF Steady, Placed
  <2>2. p \in P
    BY <2>1 DEF P
  <2>3. Steady(s, c, p)
    <3>1. \A i \in DOMAIN q : i # 1 /\ IsList(q[i]) => i - 1 \in DOMAIN r /\ r[i - 1] = q[i]
      BY <1>3 DEF Popped
    <3>2. \A i \in DOMAIN q : IsList(q[i]) => p \in ToSet(q[i].list)
      BY <1>3, <2>1, <3>1 DEF Steady, r
    <3> QED BY <2>1, <3>2 DEF Steady, q
  <2>4. Truth(s, o, e, p) /\ (e = 0 => Named(s, p))
    BY <1>4, <2>1, <2>3 DEF Mirrored
  <2>5. /\ \A j \in DOMAIN r : LastWord(r, j, p) =>
             j + 1 \in DOMAIN q /\ r[j] = q[j + 1] /\ LastWord(q, j + 1, p)
        /\ (\A j \in DOMAIN r : ~IsWord(r[j], p)) => \A j \in DOMAIN q : j # 1 => ~IsWord(q[j], p)
        /\ \A j \in DOMAIN q : j # 1 /\ q[j].kind = "properties" /\ q[j].path = p =>
             \E i \in DOMAIN r : r[i].kind = "properties" /\ r[i].path = p
    BY <1>3, <2>2, WordsGo, VoidIs
  <2>6. ~IsWord(q[1], p) /\ q[1].kind # "properties"
    BY <1>3 DEF IsWord, IsList
  <2>7. Truth(t, o, e, p)
    BY <2>1, <2>4, <2>5, <2>6 DEF Truth, q, r, SameState
  <2>8. Named(s, p) => Named(t, p)
    BY <2>1, <2>5, <2>6 DEF Named, q, r, SameState
  <2> QED BY <2>4, <2>7, <2>8
<1>12. c \in ServiceLists /\ o \subseteq ToSet(c) /\ f \in -1..e
  BY <1>1, <1>5 DEF NetRight
<1>13. NetRight(t, c, o, e, f)
  BY <1>1, <1>2, <1>7, <1>8, <1>10, <1>11, <1>12 DEF NetRight, r
<1> QED BY <1>13 DEF f

(***************************************************************************)
(* connman's and the user's steps, and the panel's.                        *)
(***************************************************************************)
LEMMA NowIs ==
  /\ NetNow.rows = rows /\ NetNow.listed = listed /\ NetNow.kept = kept /\ NetNow.last = last
  /\ NetNow.queued = queued /\ NetNow.note = note /\ NetNow.told = told
  /\ NetNow.queries = queries /\ NetNow.incoming = incoming
  /\ NetNow'.rows = rows' /\ NetNow'.listed = listed' /\ NetNow'.kept = kept'
  /\ NetNow'.last = last' /\ NetNow'.queued = queued' /\ NetNow'.note = note'
  /\ NetNow'.told = told' /\ NetNow'.queries = queries' /\ NetNow'.incoming = incoming'
BY DEF NetNow

LEMMA NowParts ==
  ASSUME NetInv
  PROVE  /\ NetNow \in NetStates
         /\ rows \in RowTables /\ listed \in ServiceLists /\ kept \in SUBSET Services
         /\ last \in Connection /\ queued \in Connection /\ note \in BOOLEAN
         /\ told \in Tellable /\ queries \in Seq(Callees) /\ incoming \in Seq(NetMessages)
         /\ services \in ServiceLists /\ online \subseteq ToSet(services) /\ exits \in Nat
         /\ heard \in -1..exits
<1>1. NetNow \in NetStates
  BY DEF NetInv, NetRight
<1> QED BY <1>1, NetParts, NowIs DEF NetInv, NetRight

LEMMA NowIsAState ==
  ASSUME rows' \in RowTables, listed' \in ServiceLists, kept' \in SUBSET Services,
         last' \in Connection, queued' \in Connection, note' \in BOOLEAN, told' \in Tellable,
         queries' \in Seq(Callees), incoming' \in Seq(NetMessages)
  PROVE  NetNow' \in NetStates
<1> DEFINE A == RowTables
           B == ServiceLists
           C == SUBSET Services
           F == Connection
           G == Tellable
           H == Seq(Callees)
           I == Seq(NetMessages)
<1>1. NetStates = [rows: A, listed: B, kept: C, last: F, queued: F, note: BOOLEAN, told: G,
                   queries: H, incoming: I]
  BY DEF NetStates
<1>2. rows' \in A /\ listed' \in B /\ kept' \in C /\ last' \in F /\ queued' \in F
      /\ note' \in BOOLEAN /\ told' \in G /\ queries' \in H /\ incoming' \in I
  OBVIOUS
<1> HIDE DEF A, B, C, F, G, H, I
<1> QED BY <1>1, <1>2 DEF NetNow

LEMMA SentIs ==
  ASSUME NetAssumption, NetInv, NEW kind \in NetKinds, NEW path \in Services \cup {"manager"},
         NEW list \in ServiceLists, NEW up \in BOOLEAN
  PROVE  \E m \in NetMessages :
           /\ m.kind = kind /\ m.path = path /\ m.list = list /\ m.up = up /\ m.run = exits
           /\ FromConnman(kind, path, list, up) = Append(incoming, m)
           /\ FromConnman(kind, path, list, up) \in Seq(NetMessages)
<1> DEFINE m == [kind |-> kind, path |-> path, list |-> list, up |-> up, run |-> exits]
<1>1. m \in NetMessages /\ m.kind = kind /\ m.path = path /\ m.list = list /\ m.up = up
      /\ m.run = exits
  BY NowParts DEF NetMessages
<1>2. FromConnman(kind, path, list, up) = Append(incoming, m)
  BY DEF FromConnman
<1> HIDE DEF m
<1>3. Append(incoming, m) \in Seq(NetMessages)
  BY <1>1, NowParts, AppendIs
<1> QED BY <1>1, <1>2, <1>3

LEMMA NetStarts == ASSUME NetAssumption, NetInit PROVE NetInv
<1>1. <<>> \in ServiceLists /\ ToSet(<<>>) = {} /\ DOMAIN <<>> = {} /\ Len(<<>>) = 0
  BY NoneIsAnOrder DEF ToSet
<1>2. NetNow \in NetStates
  <2>1. rows \in RowTables
    <3>1. DOMAIN rows = {} /\ rows = [p \in DOMAIN rows |-> rows[p]]
      BY DEF NetInit
    <3> QED BY <3>1, Tables
  <2>2. queries \in Seq(Callees)
    BY DEF NetInit, Callees
  <2>3. incoming \in Seq(NetMessages)
    BY DEF NetInit
  <2>4. last \in Connection /\ queued \in Connection /\ told \in Tellable
    BY DEF NetInit, NoConnection, Connection, Tellable
  <2>5. listed \in ServiceLists /\ kept \in SUBSET Services /\ note \in BOOLEAN
    BY <1>1 DEF NetInit
  <2> DEFINE A == RowTables
             B == ServiceLists
             C == SUBSET Services
             F == Connection
             G == Tellable
             H == Seq(Callees)
             I == Seq(NetMessages)
  <2>6. NetStates = [rows: A, listed: B, kept: C, last: F, queued: F, note: BOOLEAN, told: G,
                     queries: H, incoming: I]
    BY DEF NetStates
  <2>7. rows \in A /\ listed \in B /\ kept \in C /\ last \in F /\ queued \in F
        /\ note \in BOOLEAN /\ told \in G /\ queries \in H /\ incoming \in I
    BY <2>1, <2>2, <2>3, <2>4, <2>5
  <2> HIDE DEF A, B, C, F, G, H, I
  <2> QED BY <2>6, <2>7 DEF NetNow
<1>3. DOMAIN rows = {} /\ DOMAIN incoming = {} /\ listed = <<>> /\ exits = 0 /\ heard = -1
      /\ last.up = FALSE /\ \A k \in DOMAIN queries : queries[k] = "manager"
  BY <1>1 DEF NetInit, NoConnection
<1>4. services \in ServiceLists /\ online \subseteq ToSet(services) /\ 0 \in Nat /\ -1 \in -1..0
  BY DEF NetInit
<1>5. Placed(NetNow) /\ TopIsTold(NetNow) /\ TopIsShown(NetNow)
  BY <1>1, <1>3, NowIs DEF Placed, TopIsTold, TopIsShown
<1>6. Expected(incoming, listed) /\ ListsInOrder(incoming, heard) /\ RunsBounded(NetNow, exits)
  BY <1>3, NowIs DEF Expected, ListsInOrder, RunsBounded
<1>7. Current(NetNow, services, exits, heard)
  BY <1>3, NowIs DEF Current, NoneYet
<1>8. Mirrored(NetNow, services, online, exits)
  BY <1>3, NowIs DEF Mirrored, Steady
<1> QED BY <1>2, <1>3, <1>4, <1>5, <1>6, <1>7, <1>8, NowIs DEF NetInv, NetRight

LEMMA ServicesChangeRight ==
  ASSUME NetAssumption, NetInv, NEW d \in ServiceLists, ServicesChange(d)
  PROVE  NetInv'
<1>1. /\ services' = d /\ online' = online \cap ToSet(d)
      /\ incoming' = FromConnman("services", "manager", d, FALSE)
      /\ UNCHANGED <<exits, queries, queued, listed, rows, kept, last, note, told, heard>>
  BY DEF ServicesChange, panelVars
<1>2. PICK m \in NetMessages :
        /\ m.kind = "services" /\ m.list = d /\ m.run = exits
        /\ incoming' = Append(incoming, m) /\ incoming' \in Seq(NetMessages)
  <2>1. "services" \in NetKinds /\ "manager" \in Services \cup {"manager"}
    BY DEF NetKinds
  <2>2. PICK up \in BOOLEAN : up = FALSE
    OBVIOUS
  <2>3. incoming' = FromConnman("services", "manager", d, up)
    BY <1>1, <2>2
  <2> QED BY <2>1, <2>3, SentIs
<1>3. NetNow' \in NetStates
  BY <1>1, <1>2, NowParts, NowIsAState
<1>4. IsList(m) /\ \A x : ~IsWord(m, x)
  BY <1>2 DEF IsList, IsWord
<1>5. \A x \in ToSet(d) : x \in online' <=> x \in online
  BY <1>1
<1>6. \A x : Asked(NetNow, x) <=> Asked(NetNow', x)
  BY <1>1, NowIs DEF Asked
<1> DEFINE t == NetNow'
<1>7. t \in NetStates /\ t.rows = rows /\ t.listed = listed /\ t.last = last /\ t.told = told
      /\ t.queries = queries /\ t.incoming = Append(incoming, m)
  BY <1>1, <1>2, <1>3, NowIs
<1> HIDE DEF t
<1>8. NetRight(t, d, online', exits, heard)
  <2>1. NetRight(NetNow, services, online, exits, heard) /\ \A x : Asked(NetNow, x) => Asked(t, x)
    BY <1>6 DEF NetInv, t
  <2>2. online' \subseteq ToSet(d)
    BY <1>1
  <2>3. m.kind # "properties"
    BY <1>2
  <2> QED BY <1>2, <1>4, <1>5, <1>7, <2>1, <2>2, <2>3, NowIs, SentRight
<1> QED BY <1>1, <1>8 DEF NetInv, t

LEMMA WordRight ==
  ASSUME NetAssumption, NetInv, NEW p \in ToSet(services), NEW kind \in {"state", "passphrase"},
         NEW up \in BOOLEAN, incoming' = FromConnman(kind, p, <<>>, up),
         \A x \in ToSet(services) : IF kind = "state" /\ x = p THEN up <=> x \in online'
                                    ELSE x \in online' <=> x \in online,
         online' \subseteq ToSet(services),
         UNCHANGED <<services, exits, queries, queued, listed, rows, kept, last, note, told, heard>>
  PROVE  NetInv'
<1>1. /\ p \in Services /\ services # <<>> /\ kind \in NetKinds /\ <<>> \in ServiceLists
  BY NowParts, OrdersAre, NoneIsAnOrder DEF NetKinds
<1>2. PICK m \in NetMessages :
        /\ m.kind = kind /\ m.path = p /\ m.up = up /\ m.run = exits
        /\ incoming' = Append(incoming, m) /\ incoming' \in Seq(NetMessages)
  BY <1>1, SentIs
<1>3. NetNow' \in NetStates
  BY <1>2, NowParts, NowIsAState
<1>4. ~IsList(m) /\ (\A x : IsWord(m, x) <=> (kind = "state" /\ x = p)) /\ m.kind # "properties"
  BY <1>2 DEF IsList, IsWord
<1>5. \A x \in ToSet(services) : IF IsWord(m, x) THEN m.up <=> x \in online'
                                 ELSE x \in online' <=> x \in online
  BY <1>2, <1>4
<1>6. \A x : Asked(NetNow, x) <=> Asked(NetNow', x)
  BY NowIs DEF Asked
<1> DEFINE t == NetNow'
<1>7. t \in NetStates /\ t.rows = rows /\ t.listed = listed /\ t.last = last /\ t.told = told
      /\ t.queries = queries /\ t.incoming = Append(incoming, m)
  BY <1>2, <1>3, NowIs
<1> HIDE DEF t
<1>8. NetRight(t, services, online', exits, heard)
  <2>1. NetRight(NetNow, services, online, exits, heard) /\ \A x : Asked(NetNow, x) => Asked(t, x)
    BY <1>6 DEF NetInv, t
  <2>2. services \in ServiceLists
    BY NowParts
  <2> QED BY <1>1, <1>2, <1>4, <1>5, <1>7, <2>1, <2>2, NowIs, SentRight
<1> QED BY <1>8 DEF NetInv, t

LEMMA StateChangesRight ==
  ASSUME NetAssumption, NetInv, NEW p \in Services, StateChanges(p)
  PROVE  NetInv'
<1>1. /\ p \in ToSet(services) /\ online' = (online \cup {p}) \ (online \cap {p})
      /\ incoming' = FromConnman("state", p, <<>>, p \notin online)
      /\ UNCHANGED <<services, exits, queries, queued, listed, rows, kept, last, note, told, heard>>
  BY DEF StateChanges, panelVars
<1>2. online' \subseteq ToSet(services)
  BY <1>1, NowParts
<1>3. PICK up \in BOOLEAN : up = (p \notin online)
  OBVIOUS
<1>4. \A x \in ToSet(services) : IF x = p THEN up <=> x \in online' ELSE x \in online' <=> x \in online
  BY <1>1, <1>3
<1> QED BY <1>1, <1>2, <1>3, <1>4, WordRight

LEMMA PassphraseChangesRight ==
  ASSUME NetAssumption, NetInv, NEW p \in Services, PassphraseChanges(p)
  PROVE  NetInv'
<1>1. /\ p \in ToSet(services) /\ incoming' = FromConnman("passphrase", p, <<>>, FALSE)
      /\ UNCHANGED <<services, online, exits, queries, queued, listed, rows, kept, last, note,
                     told, heard>>
  BY DEF PassphraseChanges, panelVars
<1> QED BY <1>1, NowParts, WordRight

LEMMA AnswersRight ==
  ASSUME NetAssumption, NetInv, Answers
  PROVE  NetInv'
<1> DEFINE p == Head(queries)
<1>1. /\ queries # <<>> /\ queries' = Tail(queries)
      /\ incoming' = IF p = "manager" THEN FromConnman("services", p, services, FALSE)
                     ELSE IF p \in ToSet(services)
                     THEN FromConnman("properties", p, <<>>, p \in online)
                     ELSE incoming
      /\ UNCHANGED <<services, online, exits, queued, listed, rows, kept, last, note, told, heard>>
  BY DEF Answers, panelVars
<1>2. /\ queries \in Seq(Callees) /\ queries' \in Seq(Callees) /\ 1 \in DOMAIN queries
      /\ p = queries[1] /\ DOMAIN queries = 1..Len(queries) /\ Len(queries) \in Nat
      /\ DOMAIN queries' = 1 .. Len(queries) - 1
      /\ \A k \in DOMAIN queries' : k + 1 \in DOMAIN queries /\ queries'[k] = queries[k + 1]
  BY <1>1, NowParts, TailIs
<1> HIDE DEF p
<1>3. \A x : Asked(NetNow, x) => Asked(NetNow', x) \/ x = p
  <2> SUFFICES ASSUME NEW x, Asked(NetNow, x), x # p PROVE Asked(NetNow', x)
    OBVIOUS
  <2>1. PICK k \in DOMAIN queries : queries[k] = x
    BY NowIs DEF Asked
  <2>2. k - 1 \in DOMAIN queries' /\ (k - 1) + 1 = k
    BY <1>2, <2>1
  <2> QED BY <1>2, <2>1, <2>2, NowIs DEF Asked
<1>4. \A k \in DOMAIN queries' : \E j \in DOMAIN queries : queries'[k] = queries[j]
  BY <1>2
<1>5. Asked(NetNow, p)
  BY <1>2, NowIs DEF Asked
<1>6. services \in ServiceLists /\ online \subseteq ToSet(services) /\ <<>> \in ServiceLists
      /\ "manager" \notin Services /\ "nobody" \notin Services
      /\ (ToSet(services) \subseteq Services) /\ (services = <<>> => ToSet(services) = {})
  <2>1. "manager" \notin Services /\ "nobody" \notin Services
    BY DEF NetAssumption, NoNames
  <2> QED BY <2>1, NowParts, NoneIsAnOrder, OrdersAre
<1> DEFINE t == NetNow'
<1>7. t.rows = rows /\ t.listed = listed /\ t.last = last /\ t.told = told
      /\ t.queries = queries' /\ t.incoming = incoming'
  BY <1>1, NowIs
<1>8. incoming' \in Seq(NetMessages) => t \in NetStates
  BY <1>1, <1>2, NowParts, NowIsAState
<1> HIDE DEF t
<1>9. NetRight(NetNow, services, online, exits, heard) /\ \A x : Asked(NetNow, x) => Asked(t, x) \/ x = p
  BY <1>3 DEF NetInv, t
<1>10. CASE p = "manager"
  <2>1. PICK m \in NetMessages :
          /\ m.kind = "services" /\ m.list = services /\ m.run = exits
          /\ incoming' = Append(incoming, m) /\ incoming' \in Seq(NetMessages)
    <3>1. "services" \in NetKinds /\ p \in Services \cup {"manager"}
      BY <1>10 DEF NetKinds
    <3>2. PICK up \in BOOLEAN : up = FALSE
      OBVIOUS
    <3>3. incoming' = FromConnman("services", p, services, up)
      BY <1>1, <1>10, <3>2
    <3> QED BY <1>6, <3>1, <3>3, SentIs
  <2>2. IsList(m) /\ (\A x : ~IsWord(m, x)) /\ m.kind # "properties"
    BY <2>1 DEF IsList, IsWord
  <2>3. \A x \in ToSet(services) : Asked(NetNow, x) => Asked(t, x)
    BY <1>6, <1>9, <1>10
  <2>4. NetRight(t, services, online, exits, heard)
    BY <1>4, <1>6, <1>7, <1>8, <1>9, <2>1, <2>2, <2>3, NowIs, SentRight
  <2> QED BY <1>1, <2>4 DEF NetInv, t
<1>11. CASE p # "manager" /\ p \in ToSet(services)
  <2>1. PICK up \in BOOLEAN : up = (p \in online)
    <3>1. (p \in online) \in BOOLEAN
      OBVIOUS
    <3> QED BY <3>1, Zenon
  <2>2. PICK m \in NetMessages :
          /\ m.kind = "properties" /\ m.path = p /\ m.up = up /\ m.run = exits
          /\ incoming' = Append(incoming, m) /\ incoming' \in Seq(NetMessages)
    <3>1. p \in Services \cup {"manager"} /\ "properties" \in NetKinds
      BY <1>6, <1>11 DEF NetKinds
    <3>2. incoming' = FromConnman("properties", p, <<>>, up)
      BY <1>1, <1>11, <2>1
    <3> QED BY <1>6, <3>1, <3>2, SentIs
  <2>3. ~IsList(m) /\ \A x : IsWord(m, x) <=> x = p
    BY <2>2 DEF IsList, IsWord
  <2>4. \A x \in ToSet(services) : IF IsWord(m, x) THEN m.up <=> x \in online
                                   ELSE x \in online <=> x \in online
    BY <2>1, <2>2, <2>3
  <2>5. \A x \in ToSet(services) : Asked(NetNow, x) =>
          Asked(t, x) \/ (m.kind = "properties" /\ m.path = x)
    BY <1>9, <2>2
  <2>6. m.path \in ToSet(services) /\ Asked(NetNow, m.path) /\ services # <<>>
    BY <1>5, <1>6, <1>11, <2>2
  <2>7. NetRight(t, services, online, exits, heard)
    BY <1>4, <1>6, <1>7, <1>8, <1>9, <2>2, <2>3, <2>4, <2>5, <2>6, NowIs, SentRight
  <2> QED BY <1>1, <2>7 DEF NetInv, t
<1>12. CASE p # "manager" /\ p \notin ToSet(services)
  <2>1. incoming' = incoming
    BY <1>1, <1>12
  <2>2. t \in NetStates /\ t.incoming = incoming
    BY <1>7, <1>8, <2>1, NowParts
  <2> DEFINE s == NetNow
  <2>3. s.rows = t.rows /\ s.listed = t.listed /\ s.last = t.last /\ s.told = t.told
        /\ s.incoming = t.incoming /\ s.queries = queries
    BY <1>7, <2>2, NowIs
  <2> HIDE DEF s
  <2>4. NetRight(s, services, online, exits, heard) /\ \A x : Asked(s, x) => Asked(t, x) \/ x = p
    BY <1>9 DEF s
  <2>5. Current(t, services, exits, heard)
    <3>1. Current(s, services, exits, heard)
      BY <2>4 DEF NetRight
    <3>2. NoneYet(t, exits, heard) <=> NoneYet(s, exits, heard)
      BY <2>3 DEF NoneYet
    <3> QED BY <1>4, <1>7, <2>3, <3>1, <3>2 DEF Current
  <2>6. Mirrored(t, services, online, exits)
    <3> SUFFICES ASSUME NEW x \in Services, Steady(t, services, x), ~Asked(t, x)
                 PROVE  Truth(t, online, exits, x) /\ (exits = 0 => Named(t, x))
      BY DEF Mirrored
    <3>1. Steady(s, services, x) /\ ~Asked(s, x)
      BY <1>12, <2>3, <2>4 DEF Steady
    <3>2. Truth(s, online, exits, x) /\ (exits = 0 => Named(s, x))
      BY <2>4, <3>1 DEF NetRight, Mirrored
    <3> QED BY <2>3, <3>2 DEF Truth, Named
  <2>7. Placed(t) /\ TopIsTold(t) /\ TopIsShown(t) /\ RunsBounded(t, exits)
    BY <2>3, <2>4 DEF NetRight, Placed, TopIsTold, TopIsShown, RunsBounded
  <2>8. NetRight(t, services, online, exits, heard)
    BY <2>2, <2>3, <2>4, <2>5, <2>6, <2>7 DEF NetRight
  <2> QED BY <1>1, <2>8 DEF NetInv, t
<1> QED BY <1>10, <1>11, <1>12

LEMMA ConnmanStopsRight ==
  ASSUME NetAssumption, NetInv, ConnmanStops
  PROVE  NetInv'
<1>1. /\ exits' = exits + 1 /\ services' = <<>> /\ online' = {} /\ queries' = <<>>
      /\ UNCHANGED <<incoming, queued, listed, rows, kept, last, note, told, heard>>
  BY DEF ConnmanStops, panelVars
<1> DEFINE t == NetNow'
           s == NetNow
           q == incoming
<1>2. t \in NetStates
  <2>1. queries' \in Seq(Callees)
    BY <1>1
  <2> QED BY <1>1, <2>1, NowParts, NowIsAState
<1>3. /\ t.rows = s.rows /\ t.listed = s.listed /\ t.last = s.last /\ t.told = s.told
      /\ t.incoming = q /\ s.incoming = q
  BY <1>1, NowIs
<1> HIDE DEF t, s, q
<1>4. NetRight(s, services, online, exits, heard)
  BY DEF NetInv, s
<1>5. /\ exits \in Nat /\ heard \in Int /\ heard <= exits /\ heard >= -1
      /\ \A i \in DOMAIN q : q[i].run \in Nat /\ q[i].run <= exits
      /\ \A p \in DOMAIN s.rows : s.rows[p].run \in Nat /\ s.rows[p].run <= exits
  <2>1. RunsBounded(s, exits)
    BY <1>4 DEF NetRight
  <2> QED BY <1>3, <1>4, <2>1, RightParts DEF RunsBounded
<1>6. Current(t, <<>>, exits + 1, heard)
  <2>1. \A i \in DOMAIN q : q[i].run # exits + 1 /\ q[i].run < exits + 1
    BY <1>5
  <2>2. \A p \in DOMAIN s.rows : s.rows[p].run < exits + 1
    BY <1>5
  <2>3. heard # exits + 1 /\ exits + 1 # 0
    BY <1>5
  <2> QED BY <1>3, <2>1, <2>2, <2>3 DEF Current
<1>7. Mirrored(t, <<>>, {}, exits + 1)
  <2>1. \A p : p \notin ToSet(<<>>)
    BY DEF ToSet
  <2> QED BY <2>1 DEF Mirrored, Steady
<1>8. RunsBounded(t, exits + 1)
  <2>1. \A i \in DOMAIN q : q[i].run <= exits + 1
    BY <1>5
  <2>2. \A p \in DOMAIN s.rows : s.rows[p].run <= exits + 1
    BY <1>5
  <2> QED BY <1>3, <2>1, <2>2 DEF RunsBounded
<1>9. /\ Placed(t) /\ TopIsTold(t) /\ TopIsShown(t) /\ Expected(t.incoming, t.listed)
      /\ ListsInOrder(t.incoming, heard)
  BY <1>3, <1>4 DEF NetRight, Placed, TopIsTold, TopIsShown
<1>10. exits + 1 \in Nat /\ heard \in -1 .. exits + 1 /\ {} \subseteq ToSet(<<>>)
  BY <1>5
<1>11. NetRight(t, <<>>, {}, exits + 1, heard)
  BY <1>2, <1>6, <1>7, <1>8, <1>9, <1>10, NoneIsAnOrder DEF NetRight
<1> QED BY <1>1, <1>11 DEF NetInv, t

\* What was asked for and the note are not of the mirror.
LEMMA ElsewhereRight ==
  ASSUME NetInv, queued' \in Connection, note' \in BOOLEAN,
         UNCHANGED <<services, online, exits, queries, incoming, listed, rows, kept, last, told, heard>>
  PROVE  NetInv'
<1> DEFINE t == NetNow'
           s == NetNow
<1>1. t \in NetStates
  BY NowParts, NowIsAState
<1>2. /\ t.rows = s.rows /\ t.listed = s.listed /\ t.last = s.last /\ t.told = s.told
      /\ t.incoming = s.incoming /\ t.queries = s.queries
  BY NowIs
<1> HIDE DEF t, s
<1>3. NetRight(s, services, online, exits, heard)
  BY DEF NetInv, s
<1>4. Current(t, services, exits, heard)
  <2>1. NoneYet(t, exits, heard) <=> NoneYet(s, exits, heard)
    BY <1>2 DEF NoneYet
  <2> QED BY <1>2, <1>3, <2>1 DEF NetRight, Current
<1>5. Mirrored(t, services, online, exits)
  <2> SUFFICES ASSUME NEW p \in Services, Steady(t, services, p), ~Asked(t, p)
               PROVE  Truth(t, online, exits, p) /\ (exits = 0 => Named(t, p))
    BY DEF Mirrored
  <2>1. Steady(s, services, p) /\ ~Asked(s, p)
    BY <1>2 DEF Steady, Asked
  <2>2. Truth(s, online, exits, p) /\ (exits = 0 => Named(s, p))
    BY <1>3, <2>1 DEF NetRight, Mirrored
  <2> QED BY <1>2, <2>2 DEF Truth, Named
<1>6. Placed(t) /\ TopIsTold(t) /\ TopIsShown(t) /\ RunsBounded(t, exits)
  BY <1>2, <1>3 DEF NetRight, Placed, TopIsTold, TopIsShown, RunsBounded
<1>7. NetRight(t, services, online, exits, heard)
  BY <1>1, <1>2, <1>3, <1>4, <1>5, <1>6 DEF NetRight
<1> QED BY <1>7 DEF NetInv, t

LEMMA UserPicksRight ==
  ASSUME NetInv, NEW p \in Services, NEW up \in BOOLEAN, UserPicks(p, up)
  PROVE  NetInv'
<1>1. queued' = [name |-> p, up |-> up]
      /\ UNCHANGED <<services, online, exits, queries, incoming, listed, rows, kept, last, note,
                     told, heard>>
  BY DEF UserPicks, panelVars
<1>2. queued' \in Connection
  BY <1>1 DEF Connection
<1> QED BY <1>1, <1>2, NowParts, ElsewhereRight

LEMMA BecomesIs ==
  ASSUME NEW t \in NetStates, NetBecome(t)
  PROVE  NetNow' = t /\ UNCHANGED <<services, online, exits>>
<1> DEFINE A == RowTables
           B == ServiceLists
           C == SUBSET Services
           F == Connection
           G == Tellable
           H == Seq(Callees)
           I == Seq(NetMessages)
<1>1. NetStates = [rows: A, listed: B, kept: C, last: F, queued: F, note: BOOLEAN, told: G,
                   queries: H, incoming: I]
  BY DEF NetStates
<1> HIDE DEF A, B, C, F, G, H, I
<1> QED BY <1>1 DEF NetNow, NetBecome

\* A row keeps its place.
LEMMA PutShown ==
  ASSUME NEW s, NEW t, NEW p, NEW rec, Placed(s), TopIsShown(s), p \in DOMAIN s.rows,
         NetAssumption, s.listed \in ServiceLists, rec.index = s.rows[p].index,
         WithRow(s.rows, t.rows, p, rec), t.listed = s.listed,
         rec.index = 0 => t.last = ShownAs(p, rec),
         rec.index # 0 => t.last = s.last
  PROVE  TopIsShown(t)
<1> DEFINE l == s.listed
<1>1. /\ DOMAIN l = 1..Len(l) /\ Len(l) \in Nat /\ (l = <<>> <=> DOMAIN l = {})
      /\ \A x : x \in ToSet(l) <=> \E i \in DOMAIN l : l[i] = x
      /\ \A i, j \in DOMAIN l : l[i] = l[j] => i = j
  BY OrdersAre
<1>2. PICK i \in DOMAIN l : l[i] = p
  BY <1>1 DEF Placed
<1>3. 1 \in DOMAIN l /\ rec.index = i - 1 /\ i \in Nat
  BY <1>1, <1>2 DEF Placed
<1>4. CASE i = 1
  BY <1>2, <1>3, <1>4 DEF TopIsShown, WithRow
<1>5. CASE i # 1
  <2>1. l[1] # p /\ rec.index # 0 /\ l # <<>> /\ l[1] \in DOMAIN s.rows
    BY <1>1, <1>2, <1>3, <1>5 DEF Placed
  <2> QED BY <2>1 DEF TopIsShown, WithRow
<1> QED BY <1>4, <1>5

LEMMA HeardNow ==
  ASSUME NetAssumption, NetInv, incoming # <<>>
  PROVE  LET m == Head(incoming)
             s == [NetNow EXCEPT !.incoming = Tail(@)]
         IN /\ m \in NetMessages /\ s \in NetStates /\ s.rows = rows /\ s.listed = listed
            /\ s.kept = kept /\ s.last = last /\ s.told = told /\ s.queries = queries
            /\ s.incoming = Tail(incoming)
            /\ Placed(s) /\ TopIsTold(s) /\ TopIsShown(s)
<1> DEFINE s == [NetNow EXCEPT !.incoming = Tail(@)]
           x == Tail(incoming)
<1>1. Head(incoming) \in NetMessages /\ x \in Seq(NetMessages)
  BY NowParts, TailIs
<1>2. s = [NetNow EXCEPT !.incoming = x]
  BY NowIs
<1> HIDE DEF x, s
<1>3. NetNow \in NetStates
  BY NowParts
<1>4. /\ s \in NetStates /\ s.rows = rows /\ s.listed = listed
      /\ s.kept = kept /\ s.last = last /\ s.told = told /\ s.queries = queries
      /\ s.incoming = x
  BY <1>1, <1>2, <1>3, NetSetField, NowIs
<1>5. Placed(s) /\ TopIsTold(s) /\ TopIsShown(s)
  <2>1. Placed(NetNow) /\ TopIsTold(NetNow) /\ TopIsShown(NetNow)
    BY DEF NetInv, NetRight
  <2> QED BY <1>4, <2>1, NowIs DEF Placed, TopIsTold, TopIsShown
<1> QED BY <1>1, <1>4, <1>5 DEF s, x

\* A message about p's state has put its row.
LEMMA PutRight ==
  ASSUME NetAssumption, NetInv, incoming # <<>>, NEW m \in NetMessages, m = Head(incoming),
         m.kind \in {"properties", "state"}, m.path \in DOMAIN rows,
         NEW s \in NetStates, s.rows = rows, s.listed = listed, s.last = last, s.told = told,
         s.queries = queries, s.incoming = Tail(incoming),
         NEW rec \in MirrorRow, NEW inSight \in BOOLEAN,
         rec.index = rows[m.path].index, rec.up = m.up, rec.run = m.run,
         rec.named = (rows[m.path].named \/ m.kind = "properties"),
         NetBecome(PutRow(s, m.path, rec, inSight)), UNCHANGED heard
  PROVE  NetInv'
<1> DEFINE p == m.path
           t == PutRow(s, p, rec, inSight)
           n == NetNow
<1>1. NetRight(n, services, online, exits, heard) /\ p \in Services
  <2>1. rows \in RowTables
    BY NowParts
  <2> QED BY <2>1, Tables DEF NetInv
<1> HIDE DEF p
<1>2. /\ t \in NetStates /\ WithRow(s.rows, t.rows, p, rec) /\ t.listed = s.listed
      /\ t.kept = s.kept /\ t.queries = s.queries /\ t.incoming = s.incoming
      /\ rec.index = 0 => t.last = ShownAs(p, rec)
      /\ rec.index # 0 => t.last = s.last
      /\ TopIsTold(s) => TopIsTold(t)
  BY <1>1, PutRowIs
<1>3. NetBecome(t) /\ p = m.path
  BY DEF p
<1> HIDE DEF t
<1>4. n.rows = rows /\ n.listed = listed /\ n.last = last /\ n.told = told /\ n.queries = queries
      /\ n.incoming = incoming
  BY NowIs
<1> HIDE DEF n
<1>5. NetNow' = t /\ UNCHANGED <<services, online, exits>>
  BY <1>2, <1>3, BecomesIs
<1>6. Placed(s) /\ TopIsTold(s) /\ TopIsShown(s)
  BY <1>1, <1>4 DEF NetRight, Placed, TopIsTold, TopIsShown
<1>7. TopIsShown(t) /\ TopIsTold(t)
  BY <1>2, <1>3, <1>6, NowParts, PutShown
<1>8. ~IsList(m) /\ \A x : IsWord(m, x) <=> x = p
  BY <1>3 DEF IsList, IsWord
<1>9. \A x : x \in DOMAIN t.rows <=> x \in DOMAIN n.rows
  BY <1>2, <1>3, <1>4 DEF WithRow
<1>10. \A x \in DOMAIN n.rows :
         /\ t.rows[x].index = n.rows[x].index
         /\ ~IsWord(m, x) => t.rows[x] = n.rows[x]
         /\ IsWord(m, x) => /\ t.rows[x].up = m.up /\ t.rows[x].run = m.run
                            /\ t.rows[x].named = (n.rows[x].named \/ m.kind = "properties")
  BY <1>2, <1>3, <1>4, <1>8 DEF WithRow
<1>11. (\A x : Asked(n, x) => Asked(t, x)) /\ t.queries = n.queries
  BY <1>2, <1>4 DEF Asked
<1>12. t.listed = n.listed /\ t.incoming = Tail(n.incoming) /\ n.incoming # <<>> /\ m = Head(n.incoming)
  BY <1>2, <1>4
<1>13. NetRight(t, services, online, exits, heard)
  BY <1>1, <1>2, <1>7, <1>8, <1>9, <1>10, <1>11, <1>12, HeardRight
<1> QED BY <1>5, <1>13 DEF NetInv

\* A message that tells of no row's state has changed no row.
LEMMA PassRight ==
  ASSUME NetAssumption, NetInv, incoming # <<>>, NEW m \in NetMessages, m = Head(incoming),
         ~IsList(m), \A x \in DOMAIN rows : ~IsWord(m, x),
         NEW t \in NetStates, t.rows = rows, t.listed = listed, t.last = last, t.told = told,
         t.incoming = Tail(incoming), \A k \in DOMAIN queries : \E j \in DOMAIN t.queries :
                                        t.queries[j] = queries[k],
         DOMAIN rows = {} => t.queries = queries,
         NetBecome(t), UNCHANGED heard
  PROVE  NetInv'
<1> DEFINE n == NetNow
<1>1. NetRight(n, services, online, exits, heard)
  BY DEF NetInv
<1>2. n.rows = rows /\ n.listed = listed /\ n.last = last /\ n.told = told /\ n.queries = queries
      /\ n.incoming = incoming
  BY NowIs
<1> HIDE DEF n
<1>3. NetNow' = t /\ UNCHANGED <<services, online, exits>>
  BY BecomesIs
<1>4. TopIsTold(t) /\ TopIsShown(t)
  BY <1>1, <1>2 DEF NetRight, TopIsTold, TopIsShown
<1>5. \A x : Asked(n, x) => Asked(t, x)
  BY <1>2 DEF Asked
<1>6. /\ t.listed = n.listed /\ t.incoming = Tail(n.incoming) /\ n.incoming # <<>>
      /\ m = Head(n.incoming) /\ t.rows = n.rows /\ \A x \in DOMAIN n.rows : ~IsWord(m, x)
      /\ DOMAIN n.rows = {} => t.queries = n.queries
  BY <1>2
<1>7. NetRight(t, services, online, exits, heard)
  BY <1>1, <1>4, <1>5, <1>6, HeardRight
<1> QED BY <1>3, <1>7 DEF NetInv

LEMMA ServicesHeardRight ==
  ASSUME NetAssumption, NetInv, incoming # <<>>, NEW inSight \in BOOLEAN,
         Head(incoming).kind = "services", heard' = Head(incoming).run,
         NetBecome(UpdatedServices([NetNow EXCEPT !.incoming = Tail(@)], Head(incoming), inSight))
  PROVE  NetInv'
<1> DEFINE m == Head(incoming)
           s == [NetNow EXCEPT !.incoming = Tail(@)]
           t == UpdatedServices(s, m, inSight)
           n == NetNow
<1>1. /\ m \in NetMessages /\ s \in NetStates /\ s.rows = rows /\ s.listed = listed
      /\ s.queries = queries /\ s.incoming = Tail(incoming)
      /\ Placed(s) /\ TopIsTold(s) /\ TopIsShown(s)
  BY HeardNow
<1>2. NetBecome(t) /\ IsList(m) /\ heard' = m.run /\ m = Head(incoming)
  BY DEF IsList
<1>3. n.rows = rows /\ n.queries = queries /\ n.incoming = incoming
      /\ NetRight(n, services, online, exits, heard)
  BY NowIs DEF NetInv
<1> HIDE DEF m, s, n
<1>4. m.list \in ServiceLists /\ m.run \in Nat
  BY <1>1, MessageIs
<1>5. Updated(s, t, m.list, m.run)
  BY <1>1, <1>4, UpdatedIs
<1> HIDE DEF t
<1>6. t \in NetStates
  BY <1>5 DEF Updated
<1>7. NetNow' = t /\ UNCHANGED <<services, online, exits>>
  BY <1>2, <1>6, BecomesIs
<1>8. NetRight(t, services, online, exits, m.run)
  <2>1. s.rows = n.rows /\ s.queries = n.queries /\ s.incoming = Tail(n.incoming)
        /\ n.incoming # <<>> /\ m = Head(n.incoming)
    BY <1>1, <1>2, <1>3
  <2> QED BY <1>1, <1>2, <1>3, <1>5, <2>1, ListHeardRight
<1> QED BY <1>2, <1>7, <1>8 DEF NetInv

LEMMA PropertiesHeardRight ==
  ASSUME NetAssumption, NetInv, incoming # <<>>, NEW inSight \in BOOLEAN,
         Head(incoming).kind = "properties", UNCHANGED heard,
         NetBecome(GotProperties([NetNow EXCEPT !.incoming = Tail(@)], Head(incoming), inSight))
  PROVE  NetInv'
<1> DEFINE m == Head(incoming)
           s == [NetNow EXCEPT !.incoming = Tail(@)]
           rec == [index |-> rows[m.path].index, up |-> m.up, named |-> TRUE, run |-> m.run]
<1>1. /\ m \in NetMessages /\ s \in NetStates /\ s.rows = rows /\ s.listed = listed
      /\ s.last = last /\ s.told = told /\ s.queries = queries /\ s.incoming = Tail(incoming)
  BY HeardNow
<1>2. m = incoming[1] /\ 1 \in DOMAIN incoming /\ DOMAIN incoming = 1..Len(incoming)
      /\ Len(incoming) \in Nat
  BY NowParts, TailIs
<1>3. NetBecome(GotProperties(s, m, inSight)) /\ m.kind = "properties" /\ m = Head(incoming)
  OBVIOUS
<1> HIDE DEF m, s
<1>4. m.path \in DOMAIN rows
  <2>1. Expected(incoming, listed) /\ Placed(NetNow)
    BY NowIs DEF NetInv, NetRight
  <2>2. \A i \in DOMAIN incoming : ~(i < 1)
    BY <1>2
  <2>3. m.path \in ToSet(listed)
    BY <1>2, <1>3, <2>1, <2>2 DEF Expected
  <2> QED BY <2>1, <2>3, NowIs DEF Placed
<1>5. rec \in MirrorRow /\ rec.index = rows[m.path].index /\ rec.up = m.up /\ rec.run = m.run
      /\ rec.named = TRUE
  <2>1. rows[m.path] \in MirrorRow
    BY <1>4, NowParts, Tables
  <2>2. rows[m.path].index \in Nat
    BY <2>1 DEF MirrorRow
  <2> QED BY <1>1, <2>2, MessageIs DEF MirrorRow
<1>6. GotProperties(s, m, inSight) = PutRow(s, m.path, rec, inSight)
  BY <1>1, <1>4 DEF GotProperties
<1> HIDE DEF rec
<1>7. rec.named = (rows[m.path].named \/ m.kind = "properties")
  BY <1>3, <1>5
<1> QED BY <1>1, <1>3, <1>4, <1>5, <1>6, <1>7, PutRight

LEMMA ChangeHeardRight ==
  ASSUME NetAssumption, NetInv, incoming # <<>>, NEW inSight \in BOOLEAN,
         Head(incoming).kind \in {"state", "passphrase"}, UNCHANGED heard,
         NetBecome(ServiceChanged([NetNow EXCEPT !.incoming = Tail(@)], Head(incoming), inSight))
  PROVE  NetInv'
<1> DEFINE m == Head(incoming)
           s == [NetNow EXCEPT !.incoming = Tail(@)]
           p == m.path
           t == ServiceChanged(s, m, inSight)
<1>1. /\ m \in NetMessages /\ s \in NetStates /\ s.rows = rows /\ s.listed = listed
      /\ s.kept = kept /\ s.last = last /\ s.told = told /\ s.queries = queries
      /\ s.incoming = Tail(incoming)
  BY HeardNow
<1>2. NetBecome(t) /\ m.kind \in {"state", "passphrase"} /\ m = Head(incoming) /\ p = m.path
  OBVIOUS
<1>3. t = IF p \notin DOMAIN s.rows THEN s
          ELSE IF m.kind = "passphrase" THEN [s EXCEPT !.queries = Append(@, p)]
          ELSE PutRow([s EXCEPT !.kept = @ \cup {p}], p,
                      [s.rows[p] EXCEPT !.up = m.up, !.run = m.run], inSight)
  BY DEF ServiceChanged
<1> HIDE DEF m, s, p, t
<1>4. ~IsList(m) /\ \A x : IsWord(m, x) <=> (m.kind = "state" /\ x = p)
  BY <1>2 DEF IsList, IsWord
<1>5. CASE p \notin DOMAIN rows
  <2>1. t = s /\ \A x \in DOMAIN rows : ~IsWord(m, x)
    BY <1>1, <1>3, <1>4, <1>5
  <2> QED BY <1>1, <1>2, <1>4, <2>1, PassRight
<1>6. ASSUME p \in DOMAIN rows, m.kind = "passphrase" PROVE NetInv'
  <2> DEFINE calls == Append(queries, p)
  <2>1. p \in Services
    BY <1>6, NowParts, Tables
  <2>2. calls \in Seq(Callees) /\ \A k \in DOMAIN queries : k \in DOMAIN calls /\ calls[k] = queries[k]
    <3>1. p \in Callees
      BY <2>1 DEF Callees
    <3> QED BY <3>1, NowParts, AppendIs
  <2>3. t = [s EXCEPT !.queries = calls]
    BY <1>1, <1>3, <1>6
  <2> HIDE DEF calls
  <2>4. /\ t \in NetStates /\ t.rows = rows /\ t.listed = listed /\ t.last = last
        /\ t.told = told /\ t.incoming = Tail(incoming) /\ t.queries = calls
    BY <1>1, <2>2, <2>3, NetSetField
  <2>5. \A x \in DOMAIN rows : ~IsWord(m, x)
    BY <1>4, <1>6
  <2>6. DOMAIN rows # {}
    BY <1>6
  <2> QED BY <1>1, <1>2, <1>4, <2>2, <2>4, <2>5, <2>6, PassRight
<1>7. ASSUME p \in DOMAIN rows, m.kind = "state" PROVE NetInv'
  <2> DEFINE x == s.kept \cup {p}
             u == [s EXCEPT !.kept = x]
             rec == [rows[p] EXCEPT !.up = m.up, !.run = m.run]
  <2>1. p \in Services /\ rows[p] \in MirrorRow
    BY <1>7, NowParts, Tables
  <2>2. t = PutRow(u, p, rec, inSight)
    BY <1>1, <1>3, <1>7
  <2>3. rec \in MirrorRow /\ rec.index = rows[p].index /\ rec.up = m.up /\ rec.run = m.run
        /\ rec.named = rows[p].named
    BY <1>1, <2>1, MessageIs DEF MirrorRow
  <2>4. x \in SUBSET Services
    BY <1>1, <2>1, NowParts
  <2> HIDE DEF x, rec
  <2>5. /\ u \in NetStates /\ u.rows = rows /\ u.listed = listed /\ u.last = last
        /\ u.told = told /\ u.queries = queries /\ u.incoming = Tail(incoming)
    BY <1>1, <2>4, NetSetField
  <2> HIDE DEF u
  <2>6. rec.named = (rows[p].named \/ m.kind = "properties")
    <3>1. rows[p].named \in BOOLEAN /\ m.kind # "properties"
      BY <1>7, <2>1 DEF MirrorRow
    <3> QED BY <2>3, <3>1
  <2> QED BY <1>1, <1>2, <1>7, <2>2, <2>3, <2>5, <2>6, PutRight
<1> QED BY <1>2, <1>5, <1>6, <1>7

LEMMA HandleRight ==
  ASSUME NetAssumption, NetInv, NEW inSight \in BOOLEAN, Handle(inSight)
  PROVE  NetInv'
<1> DEFINE m == Head(incoming)
           s == [NetNow EXCEPT !.incoming = Tail(@)]
<1>1. incoming # <<>>
  BY DEF Handle
<1>2. \/ /\ m.kind = "services" /\ heard' = m.run
         /\ NetBecome(UpdatedServices(s, m, inSight))
      \/ /\ m.kind = "properties" /\ UNCHANGED heard
         /\ NetBecome(GotProperties(s, m, inSight))
      \/ /\ m.kind \in {"state", "passphrase"} /\ UNCHANGED heard
         /\ NetBecome(ServiceChanged(s, m, inSight))
      \/ m.kind = "void" /\ UNCHANGED heard /\ NetBecome(s)
  BY DEF Handle
<1>3. CASE m.kind = "services" /\ heard' = m.run /\ NetBecome(UpdatedServices(s, m, inSight))
  BY <1>1, <1>3, ServicesHeardRight
<1>4. CASE m.kind = "properties" /\ UNCHANGED heard /\ NetBecome(GotProperties(s, m, inSight))
  BY <1>1, <1>4, PropertiesHeardRight
<1>5. CASE m.kind \in {"state", "passphrase"} /\ UNCHANGED heard
           /\ NetBecome(ServiceChanged(s, m, inSight))
  BY <1>1, <1>5, ChangeHeardRight
<1>6. CASE m.kind = "void" /\ UNCHANGED heard /\ NetBecome(s)
  <2>1. /\ m \in NetMessages /\ s \in NetStates /\ s.rows = rows /\ s.listed = listed
        /\ s.last = last /\ s.told = told /\ s.queries = queries /\ s.incoming = Tail(incoming)
    BY <1>1, HeardNow
  <2>2. ~IsList(m) /\ \A x \in DOMAIN rows : ~IsWord(m, x)
    BY <1>6 DEF IsList, IsWord
  <2>3. m = Head(incoming) /\ NetBecome(s) /\ UNCHANGED heard
    BY <1>6
  <2> HIDE DEF m, s
  <2> QED BY <1>1, <2>1, <2>2, <2>3, PassRight
<1> HIDE DEF m, s
<1> QED BY <1>2, <1>3, <1>4, <1>5, <1>6

LEMMA NetKeeps == ASSUME NetAssumption, NetInv, [NetNext]_netVars PROVE NetInv'
<1>1. CASE Answers
  BY <1>1, AnswersRight
<1>2. CASE ConnmanStops
  BY <1>2, ConnmanStopsRight
<1>3. CASE NoteClosed
  BY <1>3, NowParts, ElsewhereRight DEF NoteClosed
<1>4. ASSUME NEW d \in ServiceLists, ServicesChange(d) PROVE NetInv'
  BY <1>4, ServicesChangeRight
<1>5. ASSUME NEW p \in Services, StateChanges(p) PROVE NetInv'
  BY <1>5, StateChangesRight
<1>6. ASSUME NEW p \in Services, PassphraseChanges(p) PROVE NetInv'
  BY <1>6, PassphraseChangesRight
<1>7. ASSUME NEW p \in Services, NEW up \in BOOLEAN, UserPicks(p, up) PROVE NetInv'
  BY <1>7, UserPicksRight
<1>8. ASSUME NEW inSight \in BOOLEAN, Handle(inSight) PROVE NetInv'
  BY <1>8, HandleRight
<1>9. CASE UNCHANGED netVars
  BY <1>9, NowParts, ElsewhereRight DEF netVars
<1> QED BY <1>1, <1>2, <1>3, <1>4, <1>5, <1>6, <1>7, <1>8, <1>9 DEF NetNext

LEMMA NetIsInv == NetSpec => []NetInv
<1>1. NetInit => NetInv
  BY NetAssumption, NetStarts
<1>2. NetInv /\ [NetNext]_netVars => NetInv'
  BY NetAssumption, NetKeeps
<1> QED BY <1>1, <1>2, PTL DEF NetSpec

\* The network panel's lists, rows, calls and messages are of their types.
THEOREM NetTypeCorrect == NetSpec => []NetTypeOK
<1>1. NetInv => NetTypeOK
  <2> SUFFICES ASSUME NetInv PROVE NetTypeOK
    OBVIOUS
  <2>1. DOMAIN rows \subseteq Services /\ \A p \in DOMAIN rows : rows[p] \in MirrorRow
    BY NowParts, Tables
  <2>2. Callees = Services \cup {"manager", "nobody"} /\ Tellable = Services \cup {"", "nothing"}
    BY DEF Callees, Tellable
  <2> QED BY <2>1, <2>2, NowParts DEF NetTypeOK
<1> QED BY <1>1, NetIsInv, PTL

\* Whatever lists, signals and answers follow each other, connman's rows are mirrored
\* when all is quiet, and the icon and the notes tell of the first of them at any time.
THEOREM NetworkIsAlwaysRight == NetSpec => []NetworkIsRight
<1>1. NetInv => NetworkIsRight
  <2> SUFFICES ASSUME NetInv PROVE NetworkIsRight
    OBVIOUS
  <2>1. /\ Placed(NetNow) /\ TopIsTold(NetNow) /\ TopIsShown(NetNow)
        /\ Current(NetNow, services, exits, heard) /\ Mirrored(NetNow, services, online, exits)
    BY DEF NetInv, NetRight
  <2>2. /\ DOMAIN listed = 1..Len(listed) /\ Len(listed) \in Nat
        /\ (listed = <<>> <=> DOMAIN listed = {})
        /\ \A x : x \in ToSet(listed) <=> \E i \in DOMAIN listed : listed[i] = x
        /\ \A i \in DOMAIN services : services[i] \in Services /\ services[i] \in ToSet(services)
    <3>1. services \in ServiceLists /\ listed \in ServiceLists
      BY NowParts
    <3>2. /\ \A i \in DOMAIN services : services[i] \in Services
          /\ \A x : x \in ToSet(services) <=> \E i \in DOMAIN services : services[i] = x
      BY <3>1, NetAssumption, OrdersAre
    <3> QED BY <3>1, <3>2, NetAssumption, OrdersAre
  <2>3. /\ DOMAIN rows = ToSet(listed)
        /\ \A i \in DOMAIN listed : rows[listed[i]].index = i - 1
    BY <2>1, NowIs DEF Placed
  <2>4. RowsAreListed
    BY <2>3 DEF RowsAreListed
  <2>5. UserIsTold
    <3>1. ASSUME DOMAIN rows # {} PROVE last = ShownAs(TopRow(rows), rows[TopRow(rows)])
      <4>1. TopRow(rows) \in DOMAIN rows /\ \A p \in DOMAIN rows : rows[TopRow(rows)].index <= rows[p].index
        BY <3>1, NowParts, TopRowIs
      <4>2. PICK i \in DOMAIN listed : listed[i] = TopRow(rows)
        BY <2>2, <2>3, <4>1
      <4>3. 1 \in DOMAIN listed /\ listed[1] \in DOMAIN rows
        BY <2>2, <2>3, <4>2
      <4>4. i - 1 <= 1 - 1
        BY <2>3, <4>1, <4>2, <4>3
      <4>5. i = 1
        BY <2>2, <4>2, <4>4
      <4> QED BY <2>1, <2>2, <4>2, <4>3, <4>5, NowIs DEF TopIsShown
    <3> QED BY <2>1, <3>1, NowIs DEF UserIsTold, TopIsTold
  <2>6. RowsMirrorServices
    <3> SUFFICES ASSUME NetQuiet
                 PROVE  /\ DOMAIN rows = ToSet(services)
                        /\ \A i \in DOMAIN services :
                             LET rec == rows[services[i]]
                             IN /\ rec.index = i - 1
                                /\ rec.run = exits => (rec.up <=> services[i] \in online)
                                /\ exits = 0 => rec.named
      BY DEF RowsMirrorServices
    <3>1. DOMAIN incoming = {} /\ DOMAIN queries = {} /\ heard = exits
      BY DEF NetQuiet
    <3>2. listed = services
      BY <2>1, <3>1, NowIs DEF Current, NoLists
    <3>3. ASSUME NEW i \in DOMAIN services
          PROVE  LET rec == rows[services[i]]
                 IN /\ rec.run = exits => (rec.up <=> services[i] \in online)
                    /\ exits = 0 => rec.named
      <4>1. Steady(NetNow, services, services[i]) /\ ~Asked(NetNow, services[i])
        BY <2>2, <2>3, <3>1, <3>2, NowIs DEF Steady, Asked
      <4>2. Truth(NetNow, online, exits, services[i]) /\ (exits = 0 => Named(NetNow, services[i]))
        BY <2>1, <2>2, <4>1 DEF Mirrored
      <4> QED BY <3>1, <4>2, NowIs DEF Truth, Named
    <3> QED BY <2>3, <3>2, <3>3
  <2> QED BY <2>4, <2>5, <2>6 DEF NetworkIsRight
<1> QED BY <1>1, NetIsInv, PTL
=============================================================================
