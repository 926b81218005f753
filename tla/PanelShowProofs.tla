-------------------------- MODULE PanelShowProofs --------------------------
(***************************************************************************)
(* Theorems about PanelShow, for any number of panels and of requests:     *)
(* type correctness; that the shell's belief about the windows is right    *)
(* when all is quiet; that at most one panel covers the screen then; that  *)
(* buttons and panels agree; that the panel asked for last is shown; and   *)
(* that who hides a panel decides what becomes of the toolbar.  Each names *)
(* what must not interfere: modal windows, deaths, requests that overlap.  *)
(***************************************************************************)
EXTENDS PanelShow, SequenceTheorems, FiniteSetTheorems, TLAPS

-----------------------------------------------------------------------------
\* What sending calls to its process leaves alone in a panel.
Keeps(r, t) == t.have = r.have /\ t.mapped = r.mapped /\ t.anim = r.anim

\* Only a panel whose window is known to be mapped is animated.
Tame(r) == r.anim # "none" => r.mapped

LEMMA SlotFields ==
  ASSUME NEW r \in Slots
  PROVE  /\ r.button \in BOOLEAN /\ r.have \in BOOLEAN /\ r.pinged \in BOOLEAN
         /\ r.failed \in BOOLEAN /\ r.mapped \in BOOLEAN
         /\ r.anim \in {"none", "show", "hide"} /\ r.dontHide \in BOOLEAN
         /\ r.calls \in Seq({"Show", "Hide"})
BY DEF Slots

LEMMA ShowCallKeeps ==
  ASSUME NEW r \in Slots
  PROVE  /\ ShowCall(r) \in Slots
         /\ r.anim # "hide" => Keeps(r, ShowCall(r))
         /\ ShowCall(r).have = r.have /\ ShowCall(r).mapped = r.mapped
<1>. DEFINE cs == Append(r.calls, "Show")
<1>1. cs \in Seq({"Show", "Hide"})
  BY SlotFields, AppendProperties
<1>. HIDE DEF cs
<1>2. ShowCall(r) = IF r.anim = "show" THEN r
                    ELSE [r EXCEPT !.anim = "none", !.calls = cs]
  BY DEF ShowCall, cs, Slots
<1>. QED  BY <1>1, <1>2 DEF Keeps, Slots

LEMMA HideCallKeeps ==
  ASSUME NEW r \in Slots
  PROVE  HideCall(r) \in Slots /\ Keeps(r, HideCall(r))
<1>. DEFINE cs == Append(r.calls, "Hide")
<1>1. cs \in Seq({"Show", "Hide"})
  BY SlotFields, AppendProperties
<1>. HIDE DEF cs
<1>2. HideCall(r) = IF r.anim = "hide" THEN r
                    ELSE [r EXCEPT !.dontHide = TRUE, !.calls = cs]
  BY DEF HideCall, cs, Slots
<1>. QED  BY <1>1, <1>2 DEF Keeps, Slots

LEMMA TurnedFromKeeps ==
  ASSUME NEW r \in Slots
  PROVE  TurnedFrom(r) \in Slots /\ Keeps(r, TurnedFrom(r))
<1>. DEFINE t == IF Mapped(r) THEN HideCall(r) ELSE r
<1>1. t \in Slots /\ Keeps(r, t)
  BY HideCallKeeps DEF Keeps
<1>. HIDE DEF t
<1>2. TurnedFrom(r) = [t EXCEPT !.button = FALSE, !.pinged = FALSE]
  BY DEF TurnedFrom, t
<1>. QED  BY <1>1, <1>2 DEF Keeps, Slots

-----------------------------------------------------------------------------
States == [panel : [Panels -> Slots], bar : Bars]
AllKeep(s, t) == \A q \in Panels : Keeps(s.panel[q], t.panel[q])

\* The handler of a button's toggle.
LEMMA ToggledKeeps ==
  ASSUME NEW s \in States, NEW p \in Panels, NEW byUser \in BOOLEAN
  PROVE  /\ Toggled(s, p, byUser) \in States
         /\ Tame(s.panel[p]) => AllKeep(s, Toggled(s, p, byUser))
<1>. DEFINE r == s.panel[p]
            show   == r.button /\ r.have /\ ~r.mapped
            hide   == ~r.button /\ Mapped(r)
            ask    == r.button /\ ~r.have /\ ~r.failed
            refuse == r.button /\ ~r.have /\ r.failed
            hold   == ~r.button /\ ~r.have /\ ~r.failed /\ byUser
            own    == CASE show   -> ShowCall(r)
                        [] hide   -> HideCall(r)
                        [] ask    -> [r EXCEPT !.pinged = TRUE]
                        [] refuse -> [r EXCEPT !.button = FALSE]
                        [] hold   -> [r EXCEPT !.button = TRUE]
                        [] OTHER  -> r
            all    == [q \in Panels |-> IF q = p THEN own ELSE TurnedFrom(s.panel[q])]
            b      == [s.bar EXCEPT
                         !.waiting   = @ \/ show \/ ask,
                         !.timed     = show \/ (@ /\ ~ask),
                         !.stub      = IF ask THEN p
                                       ELSE IF show /\ s.bar.stubTimer THEN None ELSE @,
                         !.stubTimer = ask \/ (@ /\ ~show)]
<1>1. Toggled(s, p, byUser) = [panel |-> all, bar |-> b]
  BY DEF Toggled
<1>2. \A q \in Panels : s.panel[q] \in Slots
  BY DEF States
<1>3. own \in Slots /\ (Tame(r) => Keeps(r, own))
  <2>1. r \in Slots /\ Keeps(r, r)
    BY <1>2 DEF Keeps
  <2>2. CASE show
    <3>1. own = ShowCall(r)
      BY <2>2
    <3>2. Tame(r) => r.anim # "hide"
      BY <2>2 DEF Tame
    <3>. QED  BY <2>1, <3>1, <3>2, ShowCallKeeps
  <2>3. CASE hide
    <3>1. own = HideCall(r)
      BY <2>3 DEF Mapped
    <3>. QED  BY <2>1, <3>1, HideCallKeeps
  <2>4. CASE ~show /\ ~hide
    <3>1. own \in {[r EXCEPT !.pinged = TRUE], [r EXCEPT !.button = FALSE],
                   [r EXCEPT !.button = TRUE], r}
      BY <2>4
    <3>2. \A t \in {[r EXCEPT !.pinged = TRUE], [r EXCEPT !.button = FALSE],
                    [r EXCEPT !.button = TRUE], r} :
             t \in Slots /\ Keeps(r, t)
      BY <2>1 DEF Keeps, Slots
    <3>. QED  BY <3>1, <3>2
  <2>. QED  BY <2>2, <2>3, <2>4
<1>4. \A q \in Panels : /\ all[q] \in Slots
                        /\ Tame(r) => Keeps(s.panel[q], all[q])
  BY <1>2, <1>3, TurnedFromKeeps
<1>5. b \in Bars
  BY DEF States, Bars
<1>6. all = [q \in Panels |-> all[q]]
  OBVIOUS
<1>. HIDE DEF own, b, all
<1>7. all \in [Panels -> Slots]
  <2>1. \A q \in Panels : all[q] \in Slots
    BY <1>4
  <2>. QED  BY <1>6, <2>1
<1>. QED  BY <1>1, <1>4, <1>5, <1>7 DEF States, AllKeep

LEMMA ToggleKeeps ==
  ASSUME NEW s \in States, NEW p \in Panels, NEW on \in BOOLEAN
  PROVE  /\ Toggle(s, p, on) \in States
         /\ Tame(s.panel[p]) => AllKeep(s, Toggle(s, p, on))
<1>. DEFINE t == SetButton(s, p, on)
            r == [s.panel[p] EXCEPT !.button = on]
<1>1. r \in Slots /\ Keeps(s.panel[p], r)
  BY DEF States, Keeps, Slots
<1>2. /\ t.panel = [s.panel EXCEPT ![p] = r]
      /\ t = [panel |-> t.panel, bar |-> s.bar]
  BY DEF SetButton, States
<1>. HIDE DEF t, r
<1>3. t \in States
  BY <1>1, <1>2 DEF States
<1>4. AllKeep(s, t)
  BY <1>1, <1>2 DEF States, AllKeep, Keeps
<1>5. /\ Toggled(t, p, FALSE) \in States
      /\ Tame(t.panel[p]) => AllKeep(t, Toggled(t, p, FALSE))
  BY <1>3, ToggledKeeps
<1>6. Tame(s.panel[p]) => Tame(t.panel[p])
  BY <1>4 DEF AllKeep, Keeps, Tame
<1>7. AllKeep(s, s) /\ (Tame(s.panel[p]) => AllKeep(s, Toggled(t, p, FALSE)))
  BY <1>4, <1>5, <1>6 DEF AllKeep, Keeps
<1>8. Toggle(s, p, on) = IF s.panel[p].button = on THEN s ELSE Toggled(t, p, FALSE)
  BY DEF Toggle, t
<1>. QED  BY <1>5, <1>7, <1>8

LEMMA StateType ==
  ASSUME TypeOK
  PROVE  State \in States /\ State.panel = panel /\ State.bar = bar
BY DEF TypeOK, State, States

LEMMA BecomeType ==
  ASSUME NEW t \in States, Become(t)
  PROVE  panel' \in [Panels -> Slots] /\ bar' \in Bars
BY DEF Become, States

-----------------------------------------------------------------------------
LEMMA EmptyMeansNoLength ==
  ASSUME NEW S, NEW es \in Seq(S)
  PROVE  Len(es) \in Nat /\ (es = <<>> <=> Len(es) = 0)
BY EmptySeq, LenProperties

LEMMA ChangesDiffer ==
  ASSUME NEW on \in BOOLEAN
  PROVE  /\ Change(on) # Change(~on) /\ Change(~~on) = Change(on)
         /\ Change(on) \in {"map", "unmap"}
         /\ \A known \in BOOLEAN : Change(known) = Change(on) <=> known = on
BY DEF Change

\* News that is read tells of a change, after which the story goes on.
LEMMA CoherentTail ==
  ASSUME NEW es \in Seq({"map", "unmap"}), es # <<>>,
         NEW known \in BOOLEAN, NEW on \in BOOLEAN, Coherent(known, es, on)
  PROVE  /\ Head(es) = Change(~known)
         /\ Coherent(~known, Tail(es), on)
<1>. DEFINE ts == Tail(es)
<1>1. /\ Len(es) \in Nat \ {0} /\ Head(es) = es[1]
      /\ ts \in Seq({"map", "unmap"}) /\ Len(ts) = Len(es) - 1
      /\ \A i \in 1..(Len(es) - 1) : ts[i] = es[i + 1]
  BY HeadTailProperties, EmptyMeansNoLength
<1>2. /\ es[1] = Change(~known) /\ es[Len(es)] = Change(on)
      /\ \A i \in 1..(Len(es) - 1) : es[i] # es[i + 1]
  BY DEF Coherent
<1>3. \A i \in 1..Len(es) : es[i] \in {"map", "unmap"}
  BY ElementOfSeq
<1>. HIDE DEF ts
<1>4. ts = <<>> <=> Len(es) = 1
  <2>1. ts = <<>> <=> Len(ts) = 0
    BY <1>1, EmptyMeansNoLength
  <2>. QED  BY <1>1, <2>1
<1>5. \A i \in 1..(Len(ts) - 1) : ts[i] # ts[i + 1]
  BY <1>1, <1>2
<1>6. CASE Len(es) = 1
  <2>1. on = ~known
    BY <1>2, <1>6, ChangesDiffer
  <2>. QED  BY <1>1, <1>2, <1>4, <1>5, <1>6, <2>1 DEF Coherent, ts
<1>7. CASE Len(es) # 1
  <2>1. ts[1] = Change(known)
    BY <1>1, <1>2, <1>3, <1>7 DEF Change
  <2>2. ts[Len(ts)] = Change(on)
    BY <1>1, <1>2, <1>7
  <2>3. ts[1] = Change(~~known)
    BY <2>1, ChangesDiffer
  <2>. QED  BY <1>1, <1>2, <1>4, <1>5, <1>7, <2>2, <2>3 DEF Coherent, ts
<1>. QED  BY <1>6, <1>7

\* News that is sent when the window changes continues the story.
LEMMA CoherentAppend ==
  ASSUME NEW es \in Seq({"map", "unmap"}),
         NEW known \in BOOLEAN, NEW on \in BOOLEAN, Coherent(known, es, ~on)
  PROVE  Coherent(known, Append(es, Change(on)), on)
<1>. DEFINE fs == Append(es, Change(on))
<1>1. /\ Len(es) \in Nat /\ Len(fs) = Len(es) + 1
      /\ \A i \in 1..Len(es) : fs[i] = es[i]
      /\ fs[Len(es) + 1] = Change(on)
      /\ fs # <<>>
  BY ChangesDiffer, AppendProperties, LenProperties
<1>4. es = <<>> <=> Len(es) = 0
  BY EmptyMeansNoLength
<1>. HIDE DEF fs
<1>2. CASE Len(es) = 0
  <2>1. known = ~on /\ Len(fs) = 1
    BY <1>1, <1>2, <1>4 DEF Coherent
  <2>2. fs[1] = Change(~known) /\ fs[Len(fs)] = Change(on)
    BY <1>1, <1>2, <2>1, ChangesDiffer
  <2>3. \A i \in 1..(Len(fs) - 1) : fs[i] # fs[i + 1]
    BY <2>1
  <2>. QED  BY <1>1, <2>2, <2>3 DEF Coherent
<1>3. CASE Len(es) # 0
  <2>1. /\ es[1] = Change(~known) /\ es[Len(es)] = Change(~on)
        /\ \A i \in 1..(Len(es) - 1) : es[i] # es[i + 1]
    BY <1>3, <1>4 DEF Coherent
  <2>2. fs[1] = Change(~known) /\ fs[Len(fs)] = Change(on)
    BY <1>1, <1>3, <2>1
  <2>3. \A i \in 1..(Len(fs) - 1) : fs[i] # fs[i + 1]
    <3>. SUFFICES ASSUME NEW i \in 1..(Len(fs) - 1) PROVE fs[i] # fs[i + 1]
      OBVIOUS
    <3>1. CASE i = Len(es)
      BY <1>1, <1>3, <2>1, <3>1, ChangesDiffer
    <3>2. CASE i # Len(es)
      BY <1>1, <2>1, <3>2
    <3>. QED  BY <3>1, <3>2
  <2>. QED  BY <1>1, <2>2, <2>3 DEF Coherent
<1>. QED  BY <1>1, <1>2, <1>3 DEF fs

\* X tells of what a process does to its window.
LEMMA WindowSet ==
  ASSUME TypeOK, NEW p \in Panels, NEW on \in BOOLEAN, SetWindow(p, on)
  PROVE  /\ window' \subseteq Panels
         /\ events' \in [Panels -> Seq({"map", "unmap"})]
         /\ \A q \in Panels \ {p} : /\ q \in window' <=> q \in window
                                    /\ events'[q] = events[q]
         /\ p \in window' <=> on
         /\ events'[p] = <<>> => events[p] = <<>> /\ (p \in window <=> on)
         /\ \A known \in BOOLEAN : Coherent(known, events[p], p \in window) =>
                                   Coherent(known, events'[p], on)
<1>. DEFINE es == events[p]
            fs == Append(es, Change(on))
<1>1. /\ window' = (IF on THEN window \cup {p} ELSE window \ {p})
      /\ events' = (IF on = (p \in window) THEN events ELSE [events EXCEPT ![p] = fs])
  BY DEF SetWindow, Change
<1>2. /\ es \in Seq({"map", "unmap"}) /\ fs \in Seq({"map", "unmap"}) /\ fs # <<>>
      /\ events \in [Panels -> Seq({"map", "unmap"})] /\ window \subseteq Panels
  <2>1. es \in Seq({"map", "unmap"})
    BY DEF TypeOK
  <2>2. Change(on) \in {"map", "unmap"}
    BY DEF Change
  <2>. QED  BY <2>1, <2>2, AppendProperties DEF TypeOK
<1>3. \A known \in BOOLEAN : Coherent(known, es, ~on) => Coherent(known, fs, on)
  BY <1>2, CoherentAppend
<1>. HIDE DEF fs
<1>5. window' \subseteq Panels /\ (p \in window' <=> on)
  BY <1>1, <1>2
<1>6. events' \in [Panels -> Seq({"map", "unmap"})]
  BY <1>1, <1>2
<1>7. \A q \in Panels \ {p} : /\ q \in window' <=> q \in window
                              /\ events'[q] = events[q]
  BY <1>1, <1>2
<1>8. CASE on = (p \in window)
  BY <1>1, <1>5, <1>6, <1>7, <1>8
<1>9. CASE on # (p \in window)
  <2>1. events'[p] = fs
    BY <1>1, <1>2, <1>9
  <2>2. \A known \in BOOLEAN : Coherent(known, es, p \in window) => Coherent(known, es, ~on)
    BY <1>9
  <2>. QED  BY <1>2, <1>3, <1>5, <1>6, <1>7, <2>1, <2>2
<1>. QED  BY <1>8, <1>9

-----------------------------------------------------------------------------
LEMMA NewSlotType ==
  ASSUME NEW r \in Slots, NEW there \in BOOLEAN
  PROVE  /\ NewSlot(r, there) \in Slots
         /\ NewSlot(r, there).have = there /\ NewSlot(r, there).mapped = FALSE
         /\ NewSlot(r, there).anim = "none"
<1>1. <<>> \in Seq({"Show", "Hide"})
  BY EmptySeq
<1>. QED  BY <1>1 DEF NewSlot, Slots

\* News that is read is gone.
LEMMA NewsType ==
  ASSUME TypeOK, NEW p \in Panels, NEW what \in {"map", "unmap"}, News(p, what)
  PROVE  /\ events' \in [Panels -> Seq({"map", "unmap"})]
         /\ events[p] \in Seq({"map", "unmap"}) /\ events[p] # <<>>
         /\ Head(events[p]) = what
         /\ events'[p] = Tail(events[p])
         /\ \A q \in Panels \ {p} : events'[q] = events[q]
<1>. DEFINE es == events[p]
            ts == Tail(es)
<1>1. es \in Seq({"map", "unmap"}) /\ es # <<>> /\ Head(es) = what
  BY DEF TypeOK, News
<1>2. ts \in Seq({"map", "unmap"})
  BY <1>1, HeadTailProperties
<1>3. events' = [events EXCEPT ![p] = ts]
  BY DEF News
<1>. HIDE DEF ts
<1>4. /\ events' \in [Panels -> Seq({"map", "unmap"})] /\ events'[p] = ts
      /\ \A q \in Panels \ {p} : events'[q] = events[q]
  BY <1>2, <1>3 DEF TypeOK
<1>. QED  BY <1>1, <1>4 DEF ts

LEMMA SlotReplaced ==
  ASSUME NEW s \in States, NEW p \in Panels, NEW r \in Slots
  PROVE  /\ [s EXCEPT !.panel[p] = r] \in States
         /\ [s EXCEPT !.panel[p] = r].panel = [s.panel EXCEPT ![p] = r]
<1>. DEFINE u == [s.panel EXCEPT ![p] = r]
<1>1. u \in [Panels -> Slots]
  BY DEF States
<1>2. [s EXCEPT !.panel[p] = r] = [panel |-> u, bar |-> s.bar]
  BY DEF States
<1>. HIDE DEF u
<1>3. [panel |-> u, bar |-> s.bar] \in States
  BY <1>1 DEF States
<1>. QED  BY <1>2, <1>3 DEF u

LEMMA SlotChanged ==
  ASSUME TypeOK, NEW p \in Panels, NEW r \in Slots
  PROVE  /\ [State EXCEPT !.panel[p] = r] \in States
         /\ [State EXCEPT !.panel[p] = r].panel = [panel EXCEPT ![p] = r]
BY StateType, SlotReplaced

\* A toggle of one button, after a change of one panel's state.
LEMMA ToggleStepType ==
  ASSUME TypeOK, NEW p \in Panels, NEW r \in Slots, NEW on \in BOOLEAN,
         NEW t, t = [State EXCEPT !.panel[p] = r]
  PROVE  Toggle(t, p, on) \in States
BY SlotChanged, ToggleKeeps

-----------------------------------------------------------------------------
LEMMA InitType == Init => TypeOK
<1>. SUFFICES ASSUME Init PROVE TypeOK
  OBVIOUS
<1>1. /\ <<>> \in Seq({"Show", "Hide"})
      /\ <<>> \in Seq({"map", "unmap"})
  BY EmptySeq
<1>2. panel \in [Panels -> Slots]
  BY <1>1 DEF Init, Slots
<1>3. bar \in Bars
  BY DEF Init, Bars
<1>4. events \in [Panels -> Seq({"map", "unmap"})]
  BY <1>1 DEF Init
<1>5. up \subseteq Panels /\ window \subseteq Panels /\ wanted \in Panels \cup {None}
  BY DEF Init
<1>6. told \subseteq Panels /\ moves \in Nat /\ deaths \in Nat
  BY DEF Init
<1>. QED  BY <1>2, <1>3, <1>4, <1>5, <1>6 DEF TypeOK

LEMMA ClickType ==
  ASSUME TypeOK, NEW p \in Panels, Click(p)
  PROVE  TypeOK'
<1>. DEFINE t == SetButton(State, p, ~panel[p].button)
            r == [panel[p] EXCEPT !.button = ~panel[p].button]
<1>1. t \in States
  <2>1. r \in Slots
    BY DEF TypeOK, Slots
  <2>2. t = [State EXCEPT !.panel[p] = r]
    BY DEF SetButton, State
  <2>. HIDE DEF r, t
  <2>3. [State EXCEPT !.panel[p] = r] \in States
    BY <2>1, SlotChanged
  <2>. QED  BY <2>2, <2>3
<1>. HIDE DEF r, t
<1>2. Toggled(t, p, TRUE) \in States
  BY <1>1, ToggledKeeps
<1>3. panel' \in [Panels -> Slots] /\ bar' \in Bars
  <2>1. Become(Toggled(t, p, TRUE))
    BY DEF Click, t
  <2>. QED  BY <1>2, <2>1, BecomeType
<1>4. wanted' \in Panels \cup {None} /\ moves' \in Nat
  BY DEF Click, Move, TypeOK
<1>. QED  BY <1>3, <1>4 DEF Click, TypeOK

LEMMA ActivateType ==
  ASSUME TypeOK, NEW p \in Panels, Activate(p)
  PROVE  TypeOK'
<1>. DEFINE u == [q \in Panels |->
                    IF q = p
                    THEN IF panel[q].have THEN ShowCall(panel[q]) ELSE panel[q]
                    ELSE IF Mapped(panel[q]) THEN HideCall(panel[q])
                    ELSE panel[q]]
            b == IF panel[p].have
                 THEN [bar EXCEPT !.waiting = TRUE, !.timed = TRUE] ELSE bar
            s == [panel |-> u, bar |-> b]
<1>1. \A q \in Panels : u[q] \in Slots
  <2>1. \A q \in Panels : /\ panel[q] \in Slots
                          /\ ShowCall(panel[q]) \in Slots
                          /\ HideCall(panel[q]) \in Slots
    BY ShowCallKeeps, HideCallKeeps DEF TypeOK
  <2>. QED  BY <2>1
<1>2. u = [q \in Panels |-> u[q]]
  OBVIOUS
<1>3. b \in Bars
  BY DEF TypeOK, Bars
<1>4. Become(IF panel[p].have THEN s ELSE Toggle(s, p, TRUE))
  BY DEF Activate
<1>. HIDE DEF u, b
<1>5. s \in States
  BY <1>1, <1>2, <1>3 DEF States
<1>. HIDE DEF s
<1>6. Toggle(s, p, TRUE) \in States
  BY <1>5, ToggleKeeps
<1>7. panel' \in [Panels -> Slots] /\ bar' \in Bars
  BY <1>4, <1>5, <1>6, BecomeType
<1>8. wanted' \in Panels \cup {None} /\ moves' \in Nat
  BY DEF Activate, Move, TypeOK
<1>. QED  BY <1>7, <1>8 DEF Activate, TypeOK

LEMMA HidePanelType ==
  ASSUME TypeOK, NEW p \in Panels, HidePanel(p)
  PROVE  TypeOK'
<1>1. HideCall(panel[p]) \in Slots
  BY HideCallKeeps DEF TypeOK
<1>2. panel' \in [Panels -> Slots]
  BY <1>1 DEF HidePanel, TypeOK
<1>3. wanted' \in Panels \cup {None} /\ moves' \in Nat
  BY DEF HidePanel, Move, TypeOK
<1>. QED  BY <1>2, <1>3 DEF HidePanel, TypeOK

LEMMA HandleCallType ==
  ASSUME TypeOK, NEW p \in Panels, HandleCall(p)
  PROVE  TypeOK'
<1>. DEFINE cs == panel[p].calls
            r == [panel[p] EXCEPT !.calls = Tail(cs)]
<1>1. panel[p] \in Slots /\ cs \in Seq({"Show", "Hide"})
  BY SlotFields DEF TypeOK
<1>2. Tail(cs) \in Seq({"Show", "Hide"})
  BY <1>1, HeadTailProperties DEF HandleCall
<1>3. r \in Slots
  BY <1>1, <1>2 DEF Slots
<1>4. panel' = [panel EXCEPT ![p] = r]
  BY DEF HandleCall
<1>. HIDE DEF r
<1>5. panel' \in [Panels -> Slots]
  BY <1>3, <1>4 DEF TypeOK
<1>6. window' \subseteq Panels /\ events' \in [Panels -> Seq({"map", "unmap"})]
  <2>1. SetWindow(p, Head(panel[p].calls) = "Show")
    BY DEF HandleCall
  <2>2. (Head(panel[p].calls) = "Show") \in BOOLEAN
    OBVIOUS
  <2>. QED  BY <2>1, <2>2, WindowSet
<1>7. told' \subseteq Panels
  BY DEF HandleCall, TypeOK
<1>. QED  BY <1>5, <1>6, <1>7 DEF HandleCall, TypeOK

LEMMA MoveItselfType ==
  ASSUME TypeOK, NEW p \in Panels, NEW on \in BOOLEAN, MoveItself(p, on)
  PROVE  TypeOK'
<1>1. window' \subseteq Panels /\ events' \in [Panels -> Seq({"map", "unmap"})]
  BY WindowSet DEF MoveItself
<1>2. wanted' \in Panels \cup {None} /\ moves' \in Nat /\ told' \subseteq Panels
  BY DEF MoveItself, Move, TypeOK
<1>. QED  BY <1>1, <1>2 DEF MoveItself, TypeOK

LEMMA DieType ==
  ASSUME TypeOK, NEW p \in Panels, Die(p)
  PROVE  TypeOK'
<1>1. window' \subseteq Panels /\ events' \in [Panels -> Seq({"map", "unmap"})]
  BY WindowSet DEF Die
<1>2. panel' \in [Panels -> Slots]
  <2>1. <<>> \in Seq({"Show", "Hide"})
    BY EmptySeq
  <2>2. [panel[p] EXCEPT !.calls = <<>>] \in Slots
    BY <2>1 DEF TypeOK, Slots
  <2>. QED  BY <2>2 DEF Die, TypeOK
<1>3. wanted' \in Panels \cup {None} /\ deaths' \in Nat
  BY DEF Die, TypeOK
<1>4. told' \subseteq Panels /\ up' \subseteq Panels
  BY DEF Die, TypeOK
<1>. QED  BY <1>1, <1>2, <1>3, <1>4 DEF Die, TypeOK

LEMMA DiedType ==
  ASSUME TypeOK, NEW p \in Panels, Died(p)
  PROVE  TypeOK'
<1>1. panel' \in [Panels -> Slots]
  BY NewSlotType DEF Died, TypeOK
<1>2. events' \in [Panels -> Seq({"map", "unmap"})]
  BY EmptySeq DEF Died, TypeOK
<1>. QED  BY <1>1, <1>2 DEF Died, TypeOK

\* What a panel looks like that has just appeared.
LEMMA AppearsSlot ==
  ASSUME TypeOK, NEW p \in Panels, Appears(p)
  PROVE  \E r \in Slots : /\ panel' = [panel EXCEPT ![p] = r]
                          /\ r.have /\ ~r.mapped /\ r.anim = "none"
<1>. DEFINE n == NewSlot(panel[p], TRUE)
            r == [n EXCEPT !.failed = FALSE, !.pinged = FALSE]
<1>1. n \in Slots /\ n.have = TRUE /\ n.mapped = FALSE /\ n.anim = "none"
  BY NewSlotType DEF TypeOK
<1>. HIDE DEF n
<1>2. r \in Slots /\ r.have = TRUE /\ r.mapped = FALSE /\ r.anim = "none"
  BY <1>1 DEF Slots
<1>3. panel' = IF panel[p].pinged THEN [panel EXCEPT ![p] = ShowCall(r)]
               ELSE [panel EXCEPT ![p] = r]
  BY DEF Appears, n
<1>. HIDE DEF r
<1>4. /\ ShowCall(r) \in Slots /\ ShowCall(r).have /\ ~ShowCall(r).mapped
      /\ ShowCall(r).anim = "none"
  BY <1>2, ShowCallKeeps DEF Keeps
<1>. QED  BY <1>2, <1>3, <1>4

LEMMA AppearsType ==
  ASSUME TypeOK, NEW p \in Panels, Appears(p)
  PROVE  TypeOK'
<1>1. panel' \in [Panels -> Slots]
  BY AppearsSlot DEF TypeOK
<1>2. bar' \in Bars
  BY DEF Appears, TypeOK, Bars
<1>3. up' \subseteq Panels
  BY DEF Appears, TypeOK
<1>. QED  BY <1>1, <1>2, <1>3 DEF Appears, TypeOK

LEMMA WindowMappedType ==
  ASSUME TypeOK, NEW p \in Panels, WindowMapped(p)
  PROVE  TypeOK'
<1>1. events' \in [Panels -> Seq({"map", "unmap"})]
  BY NewsType DEF WindowMapped
<1>2. panel' \in [Panels -> Slots]
  <2>1. panel[p] \in Slots /\ HideCall(panel[p]) \in Slots
    BY HideCallKeeps DEF TypeOK
  <2>2. [panel[p] EXCEPT !.mapped = TRUE, !.anim = "show"] \in Slots
    BY <2>1 DEF Slots
  <2>. QED  BY <2>1, <2>2 DEF WindowMapped, TypeOK
<1>3. wanted' \in Panels \cup {None}
  BY DEF WindowMapped, TypeOK
<1>. QED  BY <1>1, <1>2, <1>3 DEF WindowMapped, TypeOK

LEMMA ShowCompletedType ==
  ASSUME TypeOK, NEW p \in Panels, ShowCompleted(p)
  PROVE  TypeOK'
<1>. DEFINE r == [panel[p] EXCEPT !.anim = "none", !.dontHide = FALSE]
            t == Toggle([State EXCEPT !.panel[p] = r], p, TRUE)
            u == [StopWaiting(t) EXCEPT !.bar.stub = None]
<1>1. r \in Slots
  BY DEF TypeOK, Slots
<1>2. Become(u)
  <2>1. [State EXCEPT !.panel[p].anim = "none", !.panel[p].dontHide = FALSE]
          = [State EXCEPT !.panel[p] = r]
    BY DEF State, TypeOK
  <2>. QED  BY <2>1 DEF ShowCompleted
<1>. HIDE DEF r
<1>3. t \in States
  BY <1>1, ToggleStepType
<1>. HIDE DEF t
<1>4. u.panel = t.panel /\ u.bar \in Bars
  BY <1>3 DEF States, Bars, StopWaiting
<1>5. panel' \in [Panels -> Slots] /\ bar' \in Bars
  BY <1>2, <1>3, <1>4 DEF Become, States
<1>. QED  BY <1>5 DEF ShowCompleted, TypeOK

LEMMA WindowUnmappedType ==
  ASSUME TypeOK, NEW p \in Panels, WindowUnmapped(p)
  PROVE  TypeOK'
<1>. DEFINE r == [panel[p] EXCEPT !.anim = "hide",
                                  !.dontHide = @ /\ panel[p].anim # "show"]
            t == Toggle([State EXCEPT !.panel[p] = r], p, FALSE)
<1>1. r \in Slots
  BY DEF TypeOK, Slots
<1>2. UNCHANGED <<panel, bar>> \/ Become(t)
  <2>1. [State EXCEPT !.panel[p].anim = "hide",
                      !.panel[p].dontHide = @ /\ panel[p].anim # "show"]
          = [State EXCEPT !.panel[p] = r]
    BY DEF State, TypeOK
  <2>. QED  BY <2>1 DEF WindowUnmapped
<1>. HIDE DEF r
<1>3. t \in States
  BY <1>1, ToggleStepType
<1>. HIDE DEF t
<1>4. panel' \in [Panels -> Slots] /\ bar' \in Bars
  BY <1>2, <1>3, BecomeType DEF TypeOK
<1>5. events' \in [Panels -> Seq({"map", "unmap"})]
  BY NewsType DEF WindowUnmapped
<1>. QED  BY <1>4, <1>5 DEF WindowUnmapped, TypeOK

LEMMA HideCompletedType ==
  ASSUME TypeOK, NEW p \in Panels, HideCompleted(p)
  PROVE  TypeOK'
<1>1. [panel[p] EXCEPT !.anim = "none", !.mapped = FALSE] \in Slots
  BY DEF TypeOK, Slots
<1>2. panel' \in [Panels -> Slots]
  BY <1>1 DEF HideCompleted, TypeOK
<1>. QED  BY <1>2 DEF HideCompleted, TypeOK

LEMMA WaitTimeoutType ==
  ASSUME TypeOK, WaitTimeout
  PROVE  TypeOK'
<1>1. panel' = panel /\ bar' \in Bars
  BY DEF WaitTimeout, Become, StopWaiting, State, TypeOK, Bars
<1>. QED  BY <1>1 DEF WaitTimeout, TypeOK

LEMMA GivenUpSlot ==
  ASSUME NEW r \in Slots
  PROVE  [r EXCEPT !.pinged = FALSE, !.failed = TRUE] \in Slots
BY DEF Slots

\* The stub's timeout changes the bar and, perhaps, one panel and its button.
LEMMA StubTimeoutStep ==
  ASSUME TypeOK, StubTimeout
  PROVE  \/ panel' = panel /\ bar' \in Bars
         \/ \E p \in Panels, t \in States :
              AllKeep(State, t) /\ Become(Toggle(t, p, FALSE))
<1>. DEFINE p == bar.stub
            x == [State EXCEPT !.bar.stub = None, !.bar.stubTimer = FALSE]
            s == StopWaiting(x)
            t == [s EXCEPT !.panel[p].pinged = FALSE, !.panel[p].failed = TRUE]
<1>1. bar \in Bars /\ p \in Panels \cup {None} /\ panel \in [Panels -> Slots]
  BY DEF TypeOK, Bars
<1>2. x \in States /\ x.panel = panel
  BY <1>1 DEF State, States, Bars
<1>. HIDE DEF x
<1>3. s \in States /\ s.panel = panel
  BY <1>2 DEF StopWaiting, States, Bars
<1>. HIDE DEF s
<1>4. CASE p # None /\ panel[p].button
  <2>1. p \in Panels
    BY <1>1, <1>4
  <2>2. t \in States
    <3>. DEFINE r == [s.panel[p] EXCEPT !.pinged = FALSE, !.failed = TRUE]
    <3>0. s.panel[p] \in Slots
      BY <1>3, <2>1 DEF States
    <3>1. r \in Slots
      BY <3>0, GivenUpSlot
    <3>2. t = [s EXCEPT !.panel[p] = r]
      BY <1>3, <2>1 DEF States
    <3>. HIDE DEF r, t
    <3>. QED  BY <1>3, <2>1, <3>1, <3>2, SlotReplaced
  <2>3. AllKeep(State, t)
    BY <1>3, <2>1, StateType DEF AllKeep, Keeps, States, Slots
  <2>4. Become(Toggle(t, p, FALSE))
    BY <1>4 DEF StubTimeout, s, x
  <2>. HIDE DEF t, p
  <2>. QED  BY <2>1, <2>2, <2>3, <2>4
<1>5. CASE ~(p # None /\ panel[p].button)
  <2>1. Become(s)
    BY <1>5 DEF StubTimeout, s, x
  <2>. QED  BY <1>3, <2>1 DEF Become, States
<1>. QED  BY <1>4, <1>5

LEMMA StubTimeoutType ==
  ASSUME TypeOK, StubTimeout
  PROVE  TypeOK'
<1>1. panel' \in [Panels -> Slots] /\ bar' \in Bars
  <2>1. CASE panel' = panel /\ bar' \in Bars
    BY <2>1 DEF TypeOK
  <2>2. ASSUME NEW p \in Panels, NEW t \in States, Become(Toggle(t, p, FALSE))
        PROVE  panel' \in [Panels -> Slots] /\ bar' \in Bars
    BY <2>2, ToggleKeeps, BecomeType
  <2>. QED  BY <2>1, <2>2, StubTimeoutStep
<1>2. wanted' \in Panels \cup {None}
  BY DEF StubTimeout, TypeOK
<1>. QED  BY <1>1, <1>2 DEF StubTimeout, TypeOK

LEMMA TypeStep == TypeOK /\ [Next]_vars => TypeOK'
<1>. SUFFICES ASSUME TypeOK, [Next]_vars PROVE TypeOK'
  OBVIOUS
<1>1. ASSUME NEW p \in Panels, Click(p) PROVE TypeOK'
  BY <1>1, ClickType
<1>2. ASSUME NEW p \in Panels, Activate(p) PROVE TypeOK'
  BY <1>2, ActivateType
<1>3. ASSUME NEW p \in Panels, HidePanel(p) PROVE TypeOK'
  BY <1>3, HidePanelType
<1>4. ASSUME NEW p \in Panels, HandleCall(p) PROVE TypeOK'
  BY <1>4, HandleCallType
<1>5. ASSUME NEW p \in Panels, MoveItself(p, TRUE) \/ MoveItself(p, FALSE) PROVE TypeOK'
  BY <1>5, MoveItselfType
<1>6. ASSUME NEW p \in Panels, Die(p) PROVE TypeOK'
  BY <1>6, DieType
<1>7. ASSUME NEW p \in Panels, Died(p) PROVE TypeOK'
  BY <1>7, DiedType
<1>8. ASSUME NEW p \in Panels, Appears(p) PROVE TypeOK'
  BY <1>8, AppearsType
<1>9. ASSUME NEW p \in Panels, WindowMapped(p) PROVE TypeOK'
  BY <1>9, WindowMappedType
<1>10. ASSUME NEW p \in Panels, ShowCompleted(p) PROVE TypeOK'
  BY <1>10, ShowCompletedType
<1>11. ASSUME NEW p \in Panels, WindowUnmapped(p) PROVE TypeOK'
  BY <1>11, WindowUnmappedType
<1>12. ASSUME NEW p \in Panels, HideCompleted(p) PROVE TypeOK'
  BY <1>12, HideCompletedType
<1>13. CASE WaitTimeout
  BY <1>13, WaitTimeoutType
<1>14. CASE StubTimeout
  BY <1>14, StubTimeoutType
<1>15. CASE UNCHANGED vars
  BY <1>15 DEF vars, TypeOK
<1>. QED  BY <1>1, <1>2, <1>3, <1>4, <1>5, <1>6, <1>7, <1>8, <1>9, <1>10, <1>11,
             <1>12, <1>13, <1>14, <1>15 DEF Next

\* Type correctness, for any number of panels, moves and deaths, with modal
\* windows or without: buttons, calls on their way and X's news stay well formed
\* however the handlers of mnb-toolbar.c and mnb-panel-oop.c interleave.
THEOREM ShowTypeCorrect == Spec => []TypeOK
<1>. QED  BY InitType, TypeStep, PTL DEF Spec

-----------------------------------------------------------------------------
\* A panel that keeps what the belief speaks of keeps its belief.
LEMMA BeliefKept ==
  ASSUME NEW q \in Panels, Belief(q), Keeps(panel[q], panel'[q]),
         events'[q] = events[q], q \in window' <=> q \in window, q \in up' <=> q \in up
  PROVE  Belief(q)'
<1>1. Knows(panel[q])' = Knows(panel[q]) /\ (q \in window)' = (q \in window)
  BY DEF Keeps, Knows
<1>2. Coherent(Knows(panel[q]), events[q], q \in window)'
  BY <1>1 DEF Belief, Coherent, Change
<1>. QED  BY <1>2 DEF Belief, Keeps

LEMMA BeliefsKept ==
  ASSUME Beliefs, \A q \in Panels : Keeps(panel[q], panel'[q]),
         UNCHANGED <<up, window, events>>
  PROVE  Beliefs'
<1>. SUFFICES ASSUME NEW q \in Panels PROVE Belief(q)'
  BY DEF Beliefs
<1>1. Belief(q)
  BY DEF Beliefs
<1>. QED  BY <1>1, BeliefKept

LEMMA BeliefsTame ==
  ASSUME Beliefs
  PROVE  \A q \in Panels : Tame(panel[q])
BY DEF Beliefs, Belief, Tame

\* A toggle disturbs no belief.
LEMMA ToggleBeliefs ==
  ASSUME TypeOK, Beliefs, NEW t \in States, AllKeep(State, t), NEW p \in Panels,
         NEW on \in BOOLEAN, Become(Toggle(t, p, on)), UNCHANGED <<up, window, events>>
  PROVE  Beliefs'
<1>1. \A q \in Panels : Keeps(panel[q], t.panel[q])
  BY StateType DEF AllKeep
<1>2. Tame(t.panel[p])
  BY <1>1, BeliefsTame DEF Tame, Keeps
<1>3. AllKeep(t, Toggle(t, p, on)) /\ panel' = Toggle(t, p, on).panel
  BY <1>2, ToggleKeeps DEF Become
<1>4. \A q \in Panels : Keeps(panel[q], panel'[q])
  BY <1>1, <1>3 DEF AllKeep, Keeps
<1>. QED  BY <1>4, BeliefsKept

LEMMA InitBeliefs == Init => Beliefs
<1>. SUFFICES ASSUME Init, NEW p \in Panels PROVE Belief(p)
  BY DEF Beliefs
<1>1. ~panel[p].mapped /\ panel[p].anim = "none" /\ (panel[p].have <=> p \in up)
  BY DEF Init
<1>2. events[p] = <<>> /\ p \notin window
  BY DEF Init
<1>3. Len(events[p]) = 0
  BY <1>2, EmptySeq
<1>4. Knows(panel[p]) = (p \in window)
  BY <1>1, <1>2 DEF Knows
<1>5. Coherent(Knows(panel[p]), events[p], p \in window)
  BY <1>2, <1>3, <1>4 DEF Coherent
<1>. QED  BY <1>1, <1>2, <1>5 DEF Belief

LEMMA ClickBeliefs ==
  ASSUME TypeOK, Beliefs, NEW p \in Panels, Click(p)
  PROVE  Beliefs'
<1>. DEFINE r == [panel[p] EXCEPT !.button = ~panel[p].button]
            t == SetButton(State, p, ~panel[p].button)
<1>1. r \in Slots /\ Keeps(panel[p], r)
  BY DEF TypeOK, Slots, Keeps
<1>2. t = [State EXCEPT !.panel[p] = r]
  BY DEF SetButton, State
<1>3. Become(Toggled(t, p, TRUE)) /\ UNCHANGED <<up, window, events>>
  BY DEF Click
<1>. HIDE DEF r, t
<1>4. t \in States /\ t.panel = [panel EXCEPT ![p] = r]
  BY <1>1, <1>2, SlotChanged
<1>5. \A q \in Panels : Keeps(panel[q], t.panel[q])
  BY <1>1, <1>4 DEF Keeps, TypeOK
<1>6. Tame(t.panel[p])
  BY <1>5, BeliefsTame DEF Tame, Keeps
<1>7. AllKeep(t, Toggled(t, p, TRUE)) /\ panel' = Toggled(t, p, TRUE).panel
  BY <1>3, <1>4, <1>6, ToggledKeeps DEF Become
<1>8. \A q \in Panels : Keeps(panel[q], panel'[q])
  BY <1>5, <1>7 DEF AllKeep, Keeps
<1>. QED  BY <1>3, <1>8, BeliefsKept

LEMMA ActivateBeliefs ==
  ASSUME TypeOK, Beliefs, NEW p \in Panels, Activate(p)
  PROVE  Beliefs'
<1>1. UNCHANGED <<up, window, events>>
  BY DEF Activate
<1>2. CASE panel[p].have
  <2>1. panel' = [q \in Panels |->
                    IF q = p THEN ShowCall(panel[q])
                    ELSE IF Mapped(panel[q]) THEN HideCall(panel[q]) ELSE panel[q]]
    BY <1>2 DEF Activate, Become
  <2>2. \A q \in Panels : /\ panel[q] \in Slots
                          /\ Keeps(panel[q], panel[q])
                          /\ Keeps(panel[q], HideCall(panel[q]))
    BY HideCallKeeps DEF TypeOK, Keeps
  <2>3. panel[p].anim # "hide"
    BY <1>2, BeliefsTame DEF Activate, Mapped, Tame
  <2>4. Keeps(panel[p], ShowCall(panel[p]))
    BY <2>2, <2>3, ShowCallKeeps
  <2>5. \A q \in Panels : Keeps(panel[q], panel'[q])
    BY <2>1, <2>2, <2>4
  <2>. QED  BY <1>1, <2>5, BeliefsKept
<1>3. CASE ~panel[p].have
  <2>. DEFINE u == [q \in Panels |->
                      IF q = p THEN panel[q]
                      ELSE IF Mapped(panel[q]) THEN HideCall(panel[q]) ELSE panel[q]]
              t == [panel |-> u, bar |-> bar]
  <2>1. \A q \in Panels : u[q] \in Slots /\ Keeps(panel[q], u[q])
    BY HideCallKeeps DEF TypeOK, Keeps
  <2>2. u = [q \in Panels |-> u[q]]
    OBVIOUS
  <2>3. Become(Toggle(t, p, TRUE))
    <3>1. u = [q \in Panels |->
                 IF q = p
                 THEN IF panel[q].have THEN ShowCall(panel[q]) ELSE panel[q]
                 ELSE IF Mapped(panel[q]) THEN HideCall(panel[q])
                 ELSE panel[q]]
      BY <1>3
    <3>. QED  BY <1>3, <3>1 DEF Activate
  <2>. HIDE DEF u
  <2>4. t \in States
    BY <2>1, <2>2 DEF States, TypeOK
  <2>5. AllKeep(State, t)
    BY <2>1, StateType DEF AllKeep
  <2>. QED  BY <1>1, <2>3, <2>4, <2>5, ToggleBeliefs
<1>. QED  BY <1>2, <1>3

LEMMA HidePanelBeliefs ==
  ASSUME TypeOK, Beliefs, NEW p \in Panels, HidePanel(p)
  PROVE  Beliefs'
<1>1. panel[p] \in Slots /\ Keeps(panel[p], HideCall(panel[p]))
  BY HideCallKeeps DEF TypeOK
<1>2. \A q \in Panels : Keeps(panel[q], panel'[q])
  BY <1>1 DEF HidePanel, Keeps, TypeOK
<1>. QED  BY <1>2, BeliefsKept DEF HidePanel

\* A running panel's window changes.
LEMMA WindowSetBeliefs ==
  ASSUME TypeOK, Beliefs, NEW p \in Panels, NEW on \in BOOLEAN, SetWindow(p, on),
         p \in up, on => p \in up', \A q \in Panels \ {p} : q \in up' <=> q \in up,
         \A q \in Panels : Keeps(panel[q], panel'[q])
  PROVE  Beliefs'
<1>1. /\ \A q \in Panels \ {p} : /\ q \in window' <=> q \in window
                                 /\ events'[q] = events[q]
      /\ p \in window' <=> on
      /\ Coherent(Knows(panel[p]), events[p], p \in window) =>
           Coherent(Knows(panel[p]), events'[p], on)
  <2>1. Knows(panel[p]) \in BOOLEAN
    BY DEF Knows, TypeOK, Slots
  <2>. QED  BY <2>1, WindowSet
<1>2. \A q \in Panels : Belief(q)
  BY DEF Beliefs
<1>3. \A q \in Panels \ {p} : Belief(q)'
  BY <1>1, <1>2, BeliefKept
<1>4. Belief(p)'
  <2>1. Knows(panel[p])' = Knows(panel[p]) /\ (p \in window)' = on
    BY <1>1 DEF Knows, Keeps
  <2>2. Coherent(Knows(panel[p]), events[p], p \in window)'
    BY <1>1, <1>2, <2>1 DEF Belief, Coherent, Change
  <2>3. panel[p].have /\ (panel[p].anim # "none" => panel[p].mapped)
    BY <1>2 DEF Belief
  <2>4. /\ panel'[p].have
        /\ panel'[p].anim # "none" => panel'[p].mapped
    BY <2>3 DEF Keeps
  <2>. QED  BY <1>1, <2>2, <2>4 DEF Belief
<1>. QED  BY <1>3, <1>4 DEF Beliefs

LEMMA HandleCallBeliefs ==
  ASSUME TypeOK, Beliefs, NEW p \in Panels, HandleCall(p)
  PROVE  Beliefs'
<1>1. \A q \in Panels : Keeps(panel[q], panel'[q])
  BY DEF HandleCall, Keeps, TypeOK, Slots
<1>2. /\ SetWindow(p, Head(panel[p].calls) = "Show") /\ p \in up /\ up' = up
      /\ (Head(panel[p].calls) = "Show") \in BOOLEAN
  BY DEF HandleCall
<1>. QED  BY <1>1, <1>2, WindowSetBeliefs

LEMMA MoveItselfBeliefs ==
  ASSUME TypeOK, Beliefs, NEW p \in Panels, NEW on \in BOOLEAN, MoveItself(p, on)
  PROVE  Beliefs'
<1>1. \A q \in Panels : Keeps(panel[q], panel'[q])
  BY DEF MoveItself, Keeps
<1>. QED  BY <1>1, WindowSetBeliefs DEF MoveItself

LEMMA DieBeliefs ==
  ASSUME TypeOK, Beliefs, NEW p \in Panels, Die(p)
  PROVE  Beliefs'
<1>1. \A q \in Panels : Keeps(panel[q], panel'[q])
  BY DEF Die, Keeps, TypeOK, Slots
<1>2. /\ SetWindow(p, FALSE) /\ p \in up
      /\ \A q \in Panels \ {p} : q \in up' <=> q \in up
  BY DEF Die
<1>. QED  BY <1>1, <1>2, WindowSetBeliefs

LEMMA DiedBeliefs ==
  ASSUME TypeOK, Beliefs, NEW p \in Panels, Died(p)
  PROVE  Beliefs'
<1>. DEFINE r == NewSlot(panel[p], FALSE)
<1>1. r \in Slots /\ r.mapped = FALSE /\ r.anim = "none"
  BY NewSlotType DEF TypeOK
<1>2. panel' = [panel EXCEPT ![p] = r] /\ events' = [events EXCEPT ![p] = <<>>]
  BY DEF Died
<1>. HIDE DEF r
<1>3. panel'[p] = r /\ events'[p] = <<>>
  BY <1>2 DEF TypeOK
<1>4. \A q \in Panels \ {p} : panel'[q] = panel[q] /\ events'[q] = events[q]
  BY <1>2 DEF TypeOK
<1>5. \A q \in Panels : Belief(q)
  BY DEF Beliefs
<1>6. \A q \in Panels \ {p} : Belief(q)'
  BY <1>4, <1>5, BeliefKept DEF Died, Keeps
<1>7. Belief(p)'
  <2>1. p \notin window' /\ p \notin up'
    BY <1>5 DEF Died, Belief
  <2>2. Knows(panel[p])' = (p \in window)'
    BY <1>1, <1>3, <2>1 DEF Knows
  <2>3. Coherent(Knows(panel[p]), events[p], p \in window)'
    BY <1>3, <2>2, EmptySeq DEF Coherent
  <2>. QED  BY <1>1, <1>3, <2>1, <2>3 DEF Belief
<1>. QED  BY <1>6, <1>7 DEF Beliefs

LEMMA AppearsBeliefs ==
  ASSUME TypeOK, Beliefs, NEW p \in Panels, Appears(p)
  PROVE  Beliefs'
<1>1. PICK r \in Slots : /\ panel' = [panel EXCEPT ![p] = r]
                         /\ r.have /\ ~r.mapped /\ r.anim = "none"
  BY AppearsSlot
<1>2. panel'[p] = r /\ \A q \in Panels \ {p} : panel'[q] = panel[q]
  BY <1>1 DEF TypeOK
<1>3. \A q \in Panels : Belief(q)
  BY DEF Beliefs
<1>4. \A q \in Panels \ {p} : Belief(q)'
  BY <1>2, <1>3, BeliefKept DEF Appears, Keeps
<1>5. Belief(p)'
  <2>1. events'[p] = <<>> /\ p \notin window'
    BY <1>3 DEF Appears, Belief
  <2>2. Knows(panel[p])' = (p \in window)'
    BY <1>1, <1>2, <2>1 DEF Knows
  <2>3. Coherent(Knows(panel[p]), events[p], p \in window)'
    BY <2>1, <2>2, EmptySeq DEF Coherent
  <2>. QED  BY <1>1, <1>2, <2>1, <2>3 DEF Belief
<1>. QED  BY <1>4, <1>5 DEF Beliefs

\* News is news: it tells of a change the shell does not know of.
LEMMA NewsIsChange ==
  ASSUME TypeOK, Beliefs, NEW p \in Panels, NEW what \in {"map", "unmap"}, News(p, what)
  PROVE  /\ Knows(panel[p]) \in BOOLEAN
         /\ what = "map" <=> ~Knows(panel[p])
         /\ Coherent(~Knows(panel[p]), Tail(events[p]), p \in window)
<1>1. Knows(panel[p]) \in BOOLEAN
  BY DEF Knows, TypeOK, Slots
<1>2. Coherent(Knows(panel[p]), events[p], p \in window)
  BY DEF Beliefs, Belief
<1>3. /\ Head(events[p]) = Change(~Knows(panel[p]))
      /\ Coherent(~Knows(panel[p]), Tail(events[p]), p \in window)
  <2>1. events[p] \in Seq({"map", "unmap"}) /\ events[p] # <<>>
    BY NewsType
  <2>2. (p \in window) \in BOOLEAN
    OBVIOUS
  <2>. QED  BY <1>1, <1>2, <2>1, <2>2, CoherentTail
<1>4. what = Change(~Knows(panel[p]))
  BY <1>3, NewsType
<1>. QED  BY <1>1, <1>3, <1>4 DEF Change

\* The shell reads news of one window, learns of it, and other panels keep
\* what the belief speaks of.
LEMMA NewsBeliefs ==
  ASSUME TypeOK, Beliefs, NEW p \in Panels, NEW what \in {"map", "unmap"}, News(p, what),
         UNCHANGED <<up, window>>,
         \A q \in Panels \ {p} : Keeps(panel[q], panel'[q]),
         panel'[p].have = panel[p].have, panel'[p].mapped,
         panel'[p].anim = "hide" <=> Knows(panel[p])
  PROVE  Beliefs'
<1>1. \A q \in Panels : Belief(q)
  BY DEF Beliefs
<1>2. /\ events'[p] = Tail(events[p]) /\ events[p] # <<>>
      /\ \A q \in Panels \ {p} : events'[q] = events[q]
  BY NewsType
<1>3. \A q \in Panels \ {p} : Belief(q)'
  BY <1>1, <1>2, BeliefKept
<1>4. Belief(p)'
  <2>1. Knows(panel[p])' = ~Knows(panel[p])
    BY NewsIsChange DEF Knows
  <2>2. Coherent(Knows(panel[p]), events[p], p \in window)'
    <3>. DEFINE known == ~Knows(panel[p])  news == Tail(events[p])  on == p \in window
    <3>1. Coherent(known, news, on)
      BY NewsIsChange
    <3>2. Knows(panel'[p]) = known /\ events'[p] = news /\ (p \in window') = on
      BY <1>2, <2>1
    <3>. HIDE DEF known, news, on
    <3>. QED  BY <3>1, <3>2
  <2>3. panel[p].have /\ (p \in window => p \in up)
    BY <1>1, <1>2 DEF Belief
  <2>. QED  BY <2>2, <2>3 DEF Belief
<1>. QED  BY <1>3, <1>4 DEF Beliefs

LEMMA WindowMappedBeliefs ==
  ASSUME TypeOK, Beliefs, ~Modal, NEW p \in Panels, WindowMapped(p)
  PROVE  Beliefs'
<1>1. News(p, "map") /\ UNCHANGED <<up, window>>
  BY DEF WindowMapped
<1>2. panel' = [panel EXCEPT ![p].mapped = TRUE, ![p].anim = "show"]
  BY DEF WindowMapped
<1>3. \A q \in Panels \ {p} : Keeps(panel[q], panel'[q])
  BY <1>2 DEF Keeps, TypeOK
<1>4. panel'[p].have = panel[p].have /\ panel'[p].mapped /\ panel'[p].anim = "show"
  BY <1>2 DEF TypeOK, Slots
<1>5. ~Knows(panel[p])
  BY <1>1, NewsIsChange
<1>. QED  BY <1>1, <1>3, <1>4, <1>5, NewsBeliefs

LEMMA WindowUnmappedBeliefs ==
  ASSUME TypeOK, Beliefs, NEW p \in Panels, WindowUnmapped(p)
  PROVE  Beliefs'
<1>. DEFINE r == [panel[p] EXCEPT !.anim = "hide",
                                  !.dontHide = @ /\ panel[p].anim # "show"]
            s == [State EXCEPT !.panel[p] = r]
            t == Toggle(s, p, FALSE)
<1>1. News(p, "unmap") /\ UNCHANGED <<up, window>>
  BY DEF WindowUnmapped
<1>2. Knows(panel[p])
  BY <1>1, NewsIsChange
<1>3. r \in Slots /\ r.have = panel[p].have /\ r.mapped /\ r.anim = "hide"
  BY <1>2 DEF TypeOK, Slots, Knows
<1>4. Become(t)
  <2>1. [State EXCEPT !.panel[p].anim = "hide",
                      !.panel[p].dontHide = @ /\ panel[p].anim # "show"] = s
    BY DEF State, TypeOK
  <2>. QED  BY <1>2, <2>1 DEF WindowUnmapped, Knows
<1>. HIDE DEF r
<1>5. s \in States /\ s.panel = [panel EXCEPT ![p] = r]
  BY <1>3, SlotChanged
<1>. HIDE DEF s
<1>6. s.panel[p] = r /\ \A q \in Panels \ {p} : s.panel[q] = panel[q]
  BY <1>5 DEF TypeOK
<1>7. AllKeep(s, t) /\ panel' = t.panel
  BY <1>3, <1>4, <1>5, <1>6, ToggleKeeps DEF Tame, Become
<1>. HIDE DEF t
<1>8. \A q \in Panels \ {p} : Keeps(panel[q], panel'[q])
  BY <1>6, <1>7 DEF AllKeep, Keeps
<1>9. panel'[p].have = panel[p].have /\ panel'[p].mapped /\ panel'[p].anim = "hide"
  BY <1>3, <1>6, <1>7 DEF AllKeep, Keeps
<1>. QED  BY <1>1, <1>2, <1>8, <1>9, NewsBeliefs

\* An animation ends; nothing the story speaks of changes.
LEMMA EndedBeliefs ==
  ASSUME TypeOK, Beliefs, NEW p \in Panels, UNCHANGED <<up, window, events>>,
         \A q \in Panels \ {p} : Keeps(panel[q], panel'[q]),
         panel'[p].have = panel[p].have, panel'[p].anim = "none",
         panel'[p].mapped <=> Knows(panel[p])
  PROVE  Beliefs'
<1>1. \A q \in Panels : Belief(q)
  BY DEF Beliefs
<1>2. \A q \in Panels \ {p} : Belief(q)'
  BY <1>1, BeliefKept
<1>3. Belief(p)'
  <2>1. Knows(panel[p])' = Knows(panel[p])
    BY DEF Knows
  <2>2. Coherent(Knows(panel[p]), events[p], p \in window)'
    BY <1>1, <2>1 DEF Belief, Coherent, Change
  <2>. QED  BY <1>1, <2>2 DEF Belief
<1>. QED  BY <1>2, <1>3 DEF Beliefs

LEMMA ShowCompletedBeliefs ==
  ASSUME TypeOK, Beliefs, NEW p \in Panels, ShowCompleted(p)
  PROVE  Beliefs'
<1>. DEFINE r == [panel[p] EXCEPT !.anim = "none", !.dontHide = FALSE]
            s == [State EXCEPT !.panel[p] = r]
            t == Toggle(s, p, TRUE)
            u == [StopWaiting(t) EXCEPT !.bar.stub = None]
<1>1. r \in Slots /\ r.have = panel[p].have /\ r.mapped = panel[p].mapped /\ r.anim = "none"
  BY DEF TypeOK, Slots
<1>2. Become(u)
  <2>1. [State EXCEPT !.panel[p].anim = "none", !.panel[p].dontHide = FALSE] = s
    BY DEF State, TypeOK
  <2>. QED  BY <2>1 DEF ShowCompleted
<1>. HIDE DEF r
<1>3. s \in States /\ s.panel = [panel EXCEPT ![p] = r]
  BY <1>1, SlotChanged
<1>. HIDE DEF s
<1>4. s.panel[p] = r /\ \A q \in Panels \ {p} : s.panel[q] = panel[q]
  BY <1>3 DEF TypeOK
<1>5. t \in States /\ AllKeep(s, t)
  BY <1>1, <1>3, <1>4, ToggleKeeps DEF Tame
<1>. HIDE DEF t
<1>6. panel' = t.panel
  BY <1>2, <1>5 DEF Become, StopWaiting, States
<1>7. \A q \in Panels \ {p} : Keeps(panel[q], panel'[q])
  BY <1>4, <1>5, <1>6 DEF AllKeep, Keeps
<1>8. /\ panel'[p].have = panel[p].have /\ panel'[p].anim = "none"
      /\ panel'[p].mapped = panel[p].mapped
  BY <1>1, <1>4, <1>5, <1>6 DEF AllKeep, Keeps
<1>9. panel[p].mapped <=> Knows(panel[p])
  BY DEF ShowCompleted, Knows
<1>. QED  BY <1>7, <1>8, <1>9, EndedBeliefs DEF ShowCompleted

LEMMA HideCompletedBeliefs ==
  ASSUME TypeOK, Beliefs, NEW p \in Panels, HideCompleted(p)
  PROVE  Beliefs'
<1>1. /\ panel'[p].have = panel[p].have /\ panel'[p].anim = "none"
      /\ panel'[p].mapped = FALSE
      /\ \A q \in Panels \ {p} : Keeps(panel[q], panel'[q])
  BY DEF HideCompleted, TypeOK, Slots, Keeps
<1>2. ~Knows(panel[p])
  BY DEF HideCompleted, Knows
<1>. QED  BY <1>1, <1>2, EndedBeliefs DEF HideCompleted

LEMMA WaitTimeoutBeliefs ==
  ASSUME TypeOK, Beliefs, WaitTimeout
  PROVE  Beliefs'
<1>1. panel' = panel
  BY DEF WaitTimeout, Become, StopWaiting, State
<1>2. \A q \in Panels : Keeps(panel[q], panel'[q])
  BY <1>1 DEF Keeps
<1>. QED  BY <1>2, BeliefsKept DEF WaitTimeout

LEMMA StubTimeoutBeliefs ==
  ASSUME TypeOK, Beliefs, StubTimeout
  PROVE  Beliefs'
<1>1. UNCHANGED <<up, window, events>>
  BY DEF StubTimeout
<1>2. CASE panel' = panel
  <2>1. \A q \in Panels : Keeps(panel[q], panel'[q])
    BY <1>2 DEF Keeps
  <2>. QED  BY <1>1, <2>1, BeliefsKept
<1>3. ASSUME NEW p \in Panels, NEW t \in States,
             AllKeep(State, t), Become(Toggle(t, p, FALSE))
      PROVE  Beliefs'
  BY <1>1, <1>3, ToggleBeliefs
<1>. QED  BY <1>2, <1>3, StubTimeoutStep

LEMMA BeliefsStep == ~Modal /\ TypeOK /\ Beliefs /\ [Next]_vars => Beliefs'
<1>. SUFFICES ASSUME ~Modal, TypeOK, Beliefs, [Next]_vars PROVE Beliefs'
  OBVIOUS
<1>1. ASSUME NEW p \in Panels, Click(p) PROVE Beliefs'
  BY <1>1, ClickBeliefs
<1>2. ASSUME NEW p \in Panels, Activate(p) PROVE Beliefs'
  BY <1>2, ActivateBeliefs
<1>3. ASSUME NEW p \in Panels, HidePanel(p) PROVE Beliefs'
  BY <1>3, HidePanelBeliefs
<1>4. ASSUME NEW p \in Panels, HandleCall(p) PROVE Beliefs'
  BY <1>4, HandleCallBeliefs
<1>5. ASSUME NEW p \in Panels, MoveItself(p, TRUE) \/ MoveItself(p, FALSE) PROVE Beliefs'
  BY <1>5, MoveItselfBeliefs
<1>6. ASSUME NEW p \in Panels, Die(p) PROVE Beliefs'
  BY <1>6, DieBeliefs
<1>7. ASSUME NEW p \in Panels, Died(p) PROVE Beliefs'
  BY <1>7, DiedBeliefs
<1>8. ASSUME NEW p \in Panels, Appears(p) PROVE Beliefs'
  BY <1>8, AppearsBeliefs
<1>9. ASSUME NEW p \in Panels, WindowMapped(p) PROVE Beliefs'
  BY <1>9, WindowMappedBeliefs
<1>10. ASSUME NEW p \in Panels, ShowCompleted(p) PROVE Beliefs'
  BY <1>10, ShowCompletedBeliefs
<1>11. ASSUME NEW p \in Panels, WindowUnmapped(p) PROVE Beliefs'
  BY <1>11, WindowUnmappedBeliefs
<1>12. ASSUME NEW p \in Panels, HideCompleted(p) PROVE Beliefs'
  BY <1>12, HideCompletedBeliefs
<1>13. CASE WaitTimeout
  BY <1>13, WaitTimeoutBeliefs
<1>14. CASE StubTimeout
  BY <1>14, StubTimeoutBeliefs
<1>15. CASE UNCHANGED vars
  <2>1. panel' = panel /\ UNCHANGED <<up, window, events>>
    BY <1>15 DEF vars
  <2>2. \A q \in Panels : Keeps(panel[q], panel'[q])
    BY <2>1 DEF Keeps
  <2>. QED  BY <2>1, <2>2, BeliefsKept
<1>. QED  BY <1>1, <1>2, <1>3, <1>4, <1>5, <1>6, <1>7, <1>8, <1>9, <1>10, <1>11,
             <1>12, <1>13, <1>14, <1>15 DEF Next

\* Where no modal window stands in the way, the shell's belief about a panel's
\* window, X's news and the window tell one story, whatever users, callers,
\* panels and deaths do between the handlers of mnb-panel-oop.c.
THEOREM ShowBeliefs == ASSUME ~Modal PROVE Spec => []Beliefs
<1>1. TypeOK /\ Beliefs /\ [Next]_vars => Beliefs'
  BY BeliefsStep
<1>. QED  BY <1>1, InitBeliefs, ShowTypeCorrect, PTL DEF Spec

LEMMA BeliefsSuffice == TypeOK /\ Beliefs => MappedIsWindow
<1>. SUFFICES ASSUME TypeOK, Beliefs, Quiet, NEW p \in Panels, panel[p].have
              PROVE  panel[p].mapped <=> p \in window
  BY DEF MappedIsWindow
<1>1. events[p] = <<>> /\ panel[p].anim = "none"
  BY DEF Quiet
<1>2. Knows(panel[p]) = (p \in window)
  BY <1>1 DEF Beliefs, Belief, Coherent
<1>. QED  BY <1>1, <1>2 DEF Knows, TypeOK, Slots

\* ... so that when all is quiet the toolbar believes a panel is shown exactly if
\* its window is mapped (mapped of mnb-panel-oop.c).
THEOREM ShowMappedIsWindow == ASSUME ~Modal PROVE Spec => []MappedIsWindow
<1>1. TypeOK /\ Beliefs => MappedIsWindow
  BY BeliefsSuffice
<1>. QED  BY <1>1, ShowTypeCorrect, ShowBeliefs, PTL

-----------------------------------------------------------------------------
(***************************************************************************)
(* What the handlers' common parts do to the fields of a panel.            *)
(***************************************************************************)
Has(cs, c) == \E i \in 1..Len(cs) : cs[i] = c

LEMMA HasNone == \A c : ~Has(<<>>, c)
BY DEF Has

LEMMA HasAppend ==
  ASSUME NEW S, NEW cs \in Seq(S), NEW d \in S
  PROVE  \A c : Has(Append(cs, d), c) <=> Has(cs, c) \/ c = d
<1>. DEFINE ds == Append(cs, d)
<1>1. /\ Len(cs) \in Nat /\ Len(ds) = Len(cs) + 1
      /\ \A i \in 1..Len(cs) : ds[i] = cs[i]
      /\ ds[Len(cs) + 1] = d
  BY AppendProperties, LenProperties
<1>. HIDE DEF ds
<1>2. \A i : i \in 1..Len(ds) <=> i \in 1..Len(cs) \/ i = Len(cs) + 1
  BY <1>1
<1>3. Len(cs) + 1 \in 1..Len(ds)
  BY <1>1
<1>4. \A c : Has(ds, c) <=> Has(cs, c) \/ c = d
  BY <1>1, <1>2, <1>3 DEF Has
<1>. QED  BY <1>4 DEF ds

LEMMA HasTail ==
  ASSUME NEW S, NEW cs \in Seq(S), cs # <<>>
  PROVE  /\ Tail(cs) \in Seq(S)
         /\ \A c : Has(cs, c) <=> Head(cs) = c \/ Has(Tail(cs), c)
<1>. DEFINE ts == Tail(cs)
<1>1. /\ Len(cs) \in Nat \ {0} /\ Head(cs) = cs[1]
      /\ ts \in Seq(S) /\ Len(ts) = Len(cs) - 1
      /\ \A i \in 1..(Len(cs) - 1) : ts[i] = cs[i + 1]
  BY HeadTailProperties, EmptyMeansNoLength
<1>. HIDE DEF ts
<1>2. ASSUME NEW c, Has(cs, c) PROVE cs[1] = c \/ Has(ts, c)
  <2>1. PICK i \in 1..Len(cs) : cs[i] = c
    BY <1>2 DEF Has
  <2>2. CASE i = 1
    BY <2>1, <2>2
  <2>3. CASE i # 1
    <3>1. i - 1 \in 1..(Len(cs) - 1) /\ ts[i - 1] = cs[(i - 1) + 1] /\ (i - 1) + 1 = i
      BY <1>1, <2>3
    <3>. QED  BY <1>1, <2>1, <3>1 DEF Has
  <2>. QED  BY <2>2, <2>3
<1>3. ASSUME NEW c, cs[1] = c PROVE Has(cs, c)
  BY <1>1, <1>3 DEF Has
<1>4. ASSUME NEW c, Has(ts, c) PROVE Has(cs, c)
  <2>1. PICK i \in 1..Len(ts) : ts[i] = c
    BY <1>4 DEF Has
  <2>2. cs[i + 1] = c /\ i + 1 \in 1..Len(cs)
    BY <1>1, <2>1
  <2>. QED  BY <2>2 DEF Has
<1>. QED  BY <1>1, <1>2, <1>3, <1>4 DEF ts

\* A field of a panel changes, and a call may be sent.
LEMMA ShowCallFields ==
  ASSUME NEW r \in Slots
  PROVE  /\ ShowCall(r) \in Slots
         /\ ShowCall(r).button = r.button /\ ShowCall(r).have = r.have
         /\ ShowCall(r).pinged = r.pinged /\ ShowCall(r).failed = r.failed
         /\ ShowCall(r).mapped = r.mapped /\ ShowCall(r).dontHide = r.dontHide
         /\ r.anim = "show" => ShowCall(r) = r
         /\ r.anim # "show" => /\ ShowCall(r).anim = "none"
                               /\ ShowCall(r).calls = Append(r.calls, "Show")
                              /\ \A c : Has(ShowCall(r).calls, c) <=>
                                           Has(r.calls, c) \/ c = "Show"
<1>. DEFINE cs == Append(r.calls, "Show")
<1>1. cs \in Seq({"Show", "Hide"})
  BY SlotFields, AppendProperties
<1>2. \A c : Has(cs, c) <=> Has(r.calls, c) \/ c = "Show"
  BY SlotFields, HasAppend
<1>3. cs = Append(r.calls, "Show")
  OBVIOUS
<1>. HIDE DEF cs
<1>4. ShowCall(r) = IF r.anim = "show" THEN r
                    ELSE [r EXCEPT !.anim = "none", !.calls = cs]
  BY DEF ShowCall, cs, Slots
<1>. QED  BY <1>1, <1>2, <1>3, <1>4, ZenonT(60) DEF Slots

LEMMA HideCallFields ==
  ASSUME NEW r \in Slots
  PROVE  /\ HideCall(r) \in Slots
         /\ HideCall(r).button = r.button /\ HideCall(r).have = r.have
         /\ HideCall(r).pinged = r.pinged /\ HideCall(r).failed = r.failed
         /\ HideCall(r).mapped = r.mapped /\ HideCall(r).anim = r.anim
         /\ r.anim = "hide" => HideCall(r) = r
         /\ r.anim # "hide" => /\ HideCall(r).dontHide
                               /\ HideCall(r).calls = Append(r.calls, "Hide")
                              /\ \A c : Has(HideCall(r).calls, c) <=>
                                           Has(r.calls, c) \/ c = "Hide"
<1>. DEFINE cs == Append(r.calls, "Hide")
<1>1. cs \in Seq({"Show", "Hide"})
  BY SlotFields, AppendProperties
<1>2. \A c : Has(cs, c) <=> Has(r.calls, c) \/ c = "Hide"
  BY SlotFields, HasAppend
<1>3. cs = Append(r.calls, "Hide")
  OBVIOUS
<1>. HIDE DEF cs
<1>4. HideCall(r) = IF r.anim = "hide" THEN r
                    ELSE [r EXCEPT !.dontHide = TRUE, !.calls = cs]
  BY DEF HideCall, cs, Slots
<1>. QED  BY <1>1, <1>2, <1>3, <1>4 DEF Slots

LEMMA TurnedFromFields ==
  ASSUME NEW r \in Slots
  PROVE  /\ TurnedFrom(r) \in Slots
         /\ ~TurnedFrom(r).button /\ ~TurnedFrom(r).pinged
         /\ TurnedFrom(r).have = r.have /\ TurnedFrom(r).failed = r.failed
         /\ TurnedFrom(r).mapped = r.mapped /\ TurnedFrom(r).anim = r.anim
         /\ Mapped(r) /\ r.anim # "hide" =>
              /\ TurnedFrom(r).dontHide
              /\ \A c : Has(TurnedFrom(r).calls, c) <=> Has(r.calls, c) \/ c = "Hide"
         /\ ~(Mapped(r) /\ r.anim # "hide") => /\ TurnedFrom(r).dontHide = r.dontHide
                                               /\ TurnedFrom(r).calls = r.calls
<1>. DEFINE t == IF Mapped(r) THEN HideCall(r) ELSE r
<1>1. /\ t \in Slots /\ t.have = r.have /\ t.failed = r.failed
      /\ t.mapped = r.mapped /\ t.anim = r.anim
      /\ Mapped(r) /\ r.anim # "hide" =>
           t.dontHide /\ \A c : Has(t.calls, c) <=> Has(r.calls, c) \/ c = "Hide"
      /\ ~(Mapped(r) /\ r.anim # "hide") => t = r
  BY HideCallFields
<1>. HIDE DEF t
<1>2. TurnedFrom(r) = [t EXCEPT !.button = FALSE, !.pinged = FALSE]
  BY DEF TurnedFrom, t
<1>3. TurnedFrom(r).calls = t.calls /\ TurnedFrom(r).dontHide = t.dontHide
  BY <1>1, <1>2 DEF Slots
<1>4. /\ TurnedFrom(r) \in Slots
      /\ ~TurnedFrom(r).button /\ ~TurnedFrom(r).pinged
      /\ TurnedFrom(r).have = r.have /\ TurnedFrom(r).failed = r.failed
      /\ TurnedFrom(r).mapped = r.mapped /\ TurnedFrom(r).anim = r.anim
  BY <1>1, <1>2 DEF Slots
<1>. QED  BY <1>1, <1>3, <1>4

\* What the handler of a toggle does to the panel whose button it is.
Own(r, byUser) ==
  LET show   == r.button /\ r.have /\ ~r.mapped
      hide   == ~r.button /\ Mapped(r)
      ask    == r.button /\ ~r.have /\ ~r.failed
      refuse == r.button /\ ~r.have /\ r.failed
      hold   == ~r.button /\ ~r.have /\ ~r.failed /\ byUser
  IN CASE show   -> ShowCall(r)
       [] hide   -> HideCall(r)
       [] ask    -> [r EXCEPT !.pinged = TRUE]
       [] refuse -> [r EXCEPT !.button = FALSE]
       [] hold   -> [r EXCEPT !.button = TRUE]
       [] OTHER  -> r

LEMMA OwnCases ==
  ASSUME NEW r \in Slots, NEW byUser \in BOOLEAN
  PROVE  \/ r.button /\ r.have /\ ~r.mapped /\ Own(r, byUser) = ShowCall(r)
         \/ ~r.button /\ Mapped(r) /\ Own(r, byUser) = HideCall(r)
         \/ r.button /\ ~r.have /\ ~r.failed /\ Own(r, byUser) = [r EXCEPT !.pinged = TRUE]
         \/ r.button /\ ~r.have /\ r.failed /\ Own(r, byUser) = [r EXCEPT !.button = FALSE]
         \/ ~r.button /\ ~r.have /\ byUser /\ Own(r, byUser) = [r EXCEPT !.button = TRUE]
         \/ (r.button <=> Mapped(r)) /\ Own(r, byUser) = r
BY DEF Own, Slots, Mapped

LEMMA OwnType ==
  ASSUME NEW r \in Slots, NEW byUser \in BOOLEAN
  PROVE  /\ Own(r, byUser) \in Slots
         /\ Own(r, byUser).have = r.have /\ Own(r, byUser).mapped = r.mapped
         /\ r.mapped \/ r.anim # "hide" => Own(r, byUser).anim = r.anim
         /\ Own(r, byUser).anim = "none" \/ Own(r, byUser).anim = r.anim
<1>. DEFINE o == Own(r, byUser)
<1>1. /\ ShowCall(r) \in Slots /\ ShowCall(r).have = r.have /\ ShowCall(r).mapped = r.mapped
      /\ r.anim # "hide" => ShowCall(r).anim = r.anim
      /\ ShowCall(r).anim = "none" \/ ShowCall(r).anim = r.anim
  BY ShowCallFields DEF Slots
<1>2. /\ HideCall(r) \in Slots /\ HideCall(r).have = r.have
      /\ HideCall(r).mapped = r.mapped /\ HideCall(r).anim = r.anim
  BY HideCallFields
<1>3. \A t \in {[r EXCEPT !.pinged = TRUE], [r EXCEPT !.button = FALSE],
                [r EXCEPT !.button = TRUE], r} :
        t \in Slots /\ t.have = r.have /\ t.mapped = r.mapped /\ t.anim = r.anim
  BY DEF Slots
<1>4. \/ o = ShowCall(r) /\ ~r.mapped
      \/ o = HideCall(r)
      \/ o \in {[r EXCEPT !.pinged = TRUE], [r EXCEPT !.button = FALSE],
                [r EXCEPT !.button = TRUE], r}
  BY OwnCases
<1>. HIDE DEF o
<1>5. /\ o \in Slots
      /\ o.have = r.have /\ o.mapped = r.mapped
      /\ r.mapped \/ r.anim # "hide" => o.anim = r.anim
      /\ o.anim = "none" \/ o.anim = r.anim
  <2>1. CASE o = ShowCall(r) /\ ~r.mapped
    BY <1>1, <2>1
  <2>2. CASE o = HideCall(r)
    BY <1>2, <2>2
  <2>3. CASE o \in {[r EXCEPT !.pinged = TRUE], [r EXCEPT !.button = FALSE],
                    [r EXCEPT !.button = TRUE], r}
    BY <1>3, <2>3
  <2>. QED  BY <1>4, <2>1, <2>2, <2>3
<1>. QED  BY <1>5 DEF o

\* One button is toggled: its panel is handled, all the others are turned from.
TurnsTo(ps, p, r, byUser) ==
  [q \in Panels |-> IF q = p THEN Own(r, byUser) ELSE TurnedFrom(ps[q])]

LEMMA ToggledPanel ==
  ASSUME NEW s, NEW p \in Panels, NEW byUser \in BOOLEAN
  PROVE  Toggled(s, p, byUser).panel = TurnsTo(s.panel, p, s.panel[p], byUser)
BY DEF Toggled, TurnsTo, Own

\* ... and what it does to the timeout of the panel that is waited for.
LEMMA ToggledBar ==
  ASSUME NEW s, s.bar \in Bars, NEW p \in Panels, NEW byUser \in BOOLEAN
  PROVE  LET r    == s.panel[p]
             ask  == r.button /\ ~r.have /\ ~r.failed
             show == r.button /\ r.have /\ ~r.mapped
             b    == Toggled(s, p, byUser).bar
         IN  /\ b.stubTimer <=> ask \/ (s.bar.stubTimer /\ ~show)
             /\ ask => b.stub = p
             /\ ~ask /\ ~show => b.stub = s.bar.stub
<1>. DEFINE r    == s.panel[p]
            ask  == r.button /\ ~r.have /\ ~r.failed
            show == r.button /\ r.have /\ ~r.mapped
            b    == Toggled(s, p, byUser).bar
<1>1. b = [s.bar EXCEPT
             !.waiting   = @ \/ show \/ ask,
             !.timed     = show \/ (@ /\ ~ask),
             !.stub      = IF ask THEN p
                           ELSE IF show /\ s.bar.stubTimer THEN None ELSE @,
             !.stubTimer = ask \/ (@ /\ ~show)]
  BY DEF Toggled
<1>2. /\ b.stub = IF ask THEN p ELSE IF show /\ s.bar.stubTimer THEN None ELSE s.bar.stub
      /\ b.stubTimer = (ask \/ (s.bar.stubTimer /\ ~show))
  BY <1>1 DEF Bars
<1>. HIDE DEF b, ask, show
<1>3. /\ b.stubTimer <=> ask \/ (s.bar.stubTimer /\ ~show)
      /\ ask => b.stub = p
      /\ ~ask /\ ~show => b.stub = s.bar.stub
  BY <1>2
<1>. QED  BY <1>3 DEF b, ask, show

LEMMA ToggleBar ==
  ASSUME NEW s \in States, NEW p \in Panels, NEW on \in BOOLEAN,
         ~on \/ (s.panel[p].have /\ s.panel[p].mapped)
  PROVE  /\ Toggle(s, p, on).bar.stubTimer <=> s.bar.stubTimer
         /\ Toggle(s, p, on).bar.stub = s.bar.stub
<1>. DEFINE t == SetButton(s, p, on)
            r == [s.panel[p] EXCEPT !.button = on]
<1>1. t.panel = [s.panel EXCEPT ![p] = r] /\ t.bar = s.bar
  BY DEF SetButton, States
<1>2. Toggle(s, p, on) = IF s.panel[p].button = on THEN s ELSE Toggled(t, p, FALSE)
  BY DEF Toggle
<1>3. /\ r.button = on /\ r.have = s.panel[p].have /\ r.mapped = s.panel[p].mapped
      /\ s.bar \in Bars
  BY DEF States, Slots
<1>. HIDE DEF t, r
<1>4. t.panel[p] = r
  BY <1>1 DEF States
<1>5. /\ Toggled(t, p, FALSE).bar.stubTimer <=> t.bar.stubTimer
      /\ Toggled(t, p, FALSE).bar.stub = t.bar.stub
  BY <1>1, <1>3, <1>4, ToggledBar, ZenonT(60)
<1>. QED  BY <1>1, <1>2, <1>5

LEMMA TogglePanel ==
  ASSUME NEW s \in States, NEW p \in Panels, NEW on \in BOOLEAN
  PROVE  /\ s.panel[p].button = on => Toggle(s, p, on) = s
         /\ s.panel[p].button # on =>
              Toggle(s, p, on).panel =
                TurnsTo(s.panel, p, [s.panel[p] EXCEPT !.button = on], FALSE)
<1>. DEFINE t == SetButton(s, p, on)
            r == [s.panel[p] EXCEPT !.button = on]
<1>1. t.panel = [s.panel EXCEPT ![p] = r]
  BY DEF SetButton, States
<1>2. Toggle(s, p, on) = IF s.panel[p].button = on THEN s ELSE Toggled(t, p, FALSE)
  BY DEF Toggle
<1>. HIDE DEF t, r
<1>3. Toggled(t, p, FALSE).panel = TurnsTo(t.panel, p, t.panel[p], FALSE)
  BY ToggledPanel
<1>4. t.panel[p] = r /\ \A q \in Panels \ {p} : t.panel[q] = s.panel[q]
  BY <1>1 DEF States
<1>5. TurnsTo(t.panel, p, t.panel[p], FALSE) = TurnsTo(s.panel, p, r, FALSE)
  BY <1>4 DEF TurnsTo
<1>. QED  BY <1>2, <1>3, <1>5 DEF r

-----------------------------------------------------------------------------
(***************************************************************************)
(* What each action that toggles a button does to the panels.              *)
(***************************************************************************)
LEMMA ClickPanel ==
  ASSUME TypeOK, NEW p \in Panels, Click(p)
  PROVE  /\ panel' = TurnsTo(panel, p, [panel[p] EXCEPT !.button = ~panel[p].button], TRUE)
         /\ [panel[p] EXCEPT !.button = ~panel[p].button] \in Slots
         /\ UNCHANGED <<up, window, events>>
         /\ LET ask  == ~panel[p].button /\ ~panel[p].have /\ ~panel[p].failed
                show == ~panel[p].button /\ panel[p].have /\ ~panel[p].mapped
            IN  /\ bar'.stubTimer <=> ask \/ (bar.stubTimer /\ ~show)
                /\ ask => bar'.stub = p
<1>. DEFINE r == [panel[p] EXCEPT !.button = ~panel[p].button]
            t == SetButton(State, p, ~panel[p].button)
<1>1. r \in Slots
  BY DEF TypeOK, Slots
<1>2. t = [State EXCEPT !.panel[p] = r]
  BY DEF SetButton, State
<1>3. Become(Toggled(t, p, TRUE)) /\ UNCHANGED <<up, window, events>>
  BY DEF Click
<1>8. t.bar = bar /\ bar \in Bars
  BY DEF SetButton, State, TypeOK
<1>9. /\ r.button = ~panel[p].button /\ r.have = panel[p].have
      /\ r.mapped = panel[p].mapped /\ r.failed = panel[p].failed
  BY DEF TypeOK, Slots
<1>. HIDE DEF r, t
<1>4. t \in States /\ t.panel = [panel EXCEPT ![p] = r]
  BY <1>1, <1>2, SlotChanged
<1>5. panel' = TurnsTo(t.panel, p, t.panel[p], TRUE)
  BY <1>3, ToggledPanel DEF Become
<1>6. t.panel[p] = r /\ \A q \in Panels \ {p} : t.panel[q] = panel[q]
  BY <1>4 DEF TypeOK
<1>7. panel' = TurnsTo(panel, p, r, TRUE)
  BY <1>5, <1>6 DEF TurnsTo
<1>10. LET ask  == r.button /\ ~r.have /\ ~r.failed
           show == r.button /\ r.have /\ ~r.mapped
       IN  /\ bar'.stubTimer <=> ask \/ (bar.stubTimer /\ ~show)
           /\ ask => bar'.stub = p
  BY <1>3, <1>6, <1>8, ToggledBar, ZenonT(60) DEF Become
<1>11. LET ask  == ~panel[p].button /\ ~panel[p].have /\ ~panel[p].failed
           show == ~panel[p].button /\ panel[p].have /\ ~panel[p].mapped
       IN  /\ bar'.stubTimer <=> ask \/ (bar.stubTimer /\ ~show)
           /\ ask => bar'.stub = p
  BY <1>9, <1>10
<1>. QED  BY <1>1, <1>3, <1>7, <1>11 DEF r

\* The panels as mnb_toolbar_activate_panel_internal leaves them before it toggles.
Others(p) == [q \in Panels |-> IF q # p /\ Mapped(panel[q]) THEN HideCall(panel[q])
                               ELSE panel[q]]

LEMMA OthersType ==
  ASSUME TypeOK, NEW p \in Panels
  PROVE  /\ Others(p) \in [Panels -> Slots] /\ Others(p)[p] = panel[p]
         /\ \A q \in Panels \ {p} :
              Others(p)[q] = IF Mapped(panel[q]) THEN HideCall(panel[q]) ELSE panel[q]
<1>. DEFINE u == Others(p)
<1>1. \A q \in Panels : panel[q] \in Slots /\ HideCall(panel[q]) \in Slots
  BY HideCallFields DEF TypeOK
<1>2. \A q \in Panels : u[q] = IF q # p /\ Mapped(panel[q]) THEN HideCall(panel[q])
                               ELSE panel[q]
  BY DEF Others
<1>3. u = [q \in Panels |-> u[q]]
  BY DEF Others
<1>. HIDE DEF u
<1>4. \A q \in Panels : u[q] \in Slots
  BY <1>1, <1>2
<1>. QED  BY <1>2, <1>3, <1>4 DEF u

LEMMA ActivatePanel ==
  ASSUME TypeOK, NEW p \in Panels, Activate(p)
  PROVE  /\ UNCHANGED <<up, window, events>> /\ ~Mapped(panel[p])
         /\ IF panel[p].have
            THEN panel' = [Others(p) EXCEPT ![p] = ShowCall(panel[p])]
            ELSE \/ panel[p].button /\ panel' = Others(p)
                 \/ /\ ~panel[p].button
                    /\ panel' = TurnsTo(Others(p), p, [panel[p] EXCEPT !.button = TRUE], FALSE)
<1>1. UNCHANGED <<up, window, events>> /\ ~Mapped(panel[p])
  BY DEF Activate
<1>2. CASE panel[p].have
  <2>1. panel' = [q \in Panels |->
                    IF q = p THEN ShowCall(panel[q])
                    ELSE IF Mapped(panel[q]) THEN HideCall(panel[q]) ELSE panel[q]]
    BY <1>2 DEF Activate, Become
  <2>2. panel' = [Others(p) EXCEPT ![p] = ShowCall(panel[p])]
    BY <2>1 DEF Others
  <2>. QED  BY <1>1, <1>2, <2>2
<1>3. CASE ~panel[p].have
  <2>. DEFINE u == [q \in Panels |->
                      IF q = p THEN panel[q]
                      ELSE IF Mapped(panel[q]) THEN HideCall(panel[q]) ELSE panel[q]]
              t == [panel |-> u, bar |-> bar]
  <2>1. u = Others(p)
    BY DEF Others
  <2>2. Become(Toggle(t, p, TRUE))
    <3>1. u = [q \in Panels |->
                 IF q = p
                 THEN IF panel[q].have THEN ShowCall(panel[q]) ELSE panel[q]
                 ELSE IF Mapped(panel[q]) THEN HideCall(panel[q])
                 ELSE panel[q]]
      BY <1>3
    <3>. QED  BY <1>3, <3>1 DEF Activate
  <2>. HIDE DEF u
  <2>3. t \in States /\ t.panel = Others(p) /\ t.panel[p] = panel[p]
    BY <2>1, OthersType DEF States, TypeOK
  <2>. HIDE DEF t
  <2>4. panel' = Toggle(t, p, TRUE).panel
    BY <2>2 DEF Become
  <2>5. panel[p].button \in BOOLEAN
    BY DEF TypeOK, Slots
  <2>. QED  BY <1>1, <1>3, <2>3, <2>4, <2>5, TogglePanel
<1>. QED  BY <1>2, <1>3

LEMMA ShowCompletedPanel ==
  ASSUME TypeOK, NEW p \in Panels, ShowCompleted(p)
  PROVE  \E r \in Slots :
           /\ r = [panel[p] EXCEPT !.anim = "none", !.dontHide = FALSE]
           /\ panel[p].anim = "show" /\ UNCHANGED <<up, window, events>>
           /\ \/ panel[p].button /\ panel' = [panel EXCEPT ![p] = r]
              \/ /\ ~panel[p].button
                 /\ panel' = TurnsTo(panel, p, [r EXCEPT !.button = TRUE], FALSE)
           /\ panel[p].have /\ panel[p].mapped => (bar'.stubTimer <=> bar.stubTimer)
<1>. DEFINE r == [panel[p] EXCEPT !.anim = "none", !.dontHide = FALSE]
            s == [State EXCEPT !.panel[p] = r]
            t == Toggle(s, p, TRUE)
            u == [StopWaiting(t) EXCEPT !.bar.stub = None]
<1>0. panel[p].anim = "show" /\ UNCHANGED <<up, window, events>>
  BY DEF ShowCompleted
<1>1. /\ r \in Slots /\ r.button = panel[p].button /\ r.button \in BOOLEAN
      /\ r.have = panel[p].have /\ r.mapped = panel[p].mapped
  BY DEF TypeOK, Slots
<1>2. Become(u)
  <2>1. [State EXCEPT !.panel[p].anim = "none", !.panel[p].dontHide = FALSE] = s
    BY DEF State, TypeOK
  <2>. QED  BY <2>1 DEF ShowCompleted
<1>3. r = [panel[p] EXCEPT !.anim = "none", !.dontHide = FALSE]
  OBVIOUS
<1>. HIDE DEF r
<1>4. s \in States /\ s.panel = [panel EXCEPT ![p] = r] /\ s.bar = bar
  BY <1>1, SlotChanged DEF State
<1>. HIDE DEF s
<1>5. s.panel[p] = r /\ \A q \in Panels \ {p} : s.panel[q] = panel[q]
  BY <1>4 DEF TypeOK
<1>6. t \in States
  BY <1>4, ToggleKeeps
<1>10. r.have /\ r.mapped => (t.bar.stubTimer <=> bar.stubTimer)
  BY <1>4, <1>5, ToggleBar
<1>7. \/ r.button /\ t = s
      \/ ~r.button /\ t.panel = TurnsTo(s.panel, p, [r EXCEPT !.button = TRUE], FALSE)
  BY <1>1, <1>4, <1>5, TogglePanel
<1>. HIDE DEF t
<1>8. panel' = t.panel /\ bar'.stubTimer = t.bar.stubTimer
  BY <1>2, <1>6 DEF Become, StopWaiting, States, Bars
<1>9. TurnsTo(s.panel, p, [r EXCEPT !.button = TRUE], FALSE)
        = TurnsTo(panel, p, [r EXCEPT !.button = TRUE], FALSE)
  BY <1>5 DEF TurnsTo
<1>. QED  BY <1>0, <1>1, <1>3, <1>4, <1>7, <1>8, <1>9, <1>10

LEMMA WindowUnmappedPanel ==
  ASSUME TypeOK, NEW p \in Panels, WindowUnmapped(p)
  PROVE  /\ News(p, "unmap") /\ UNCHANGED <<up, window>>
         /\ (bar'.stubTimer <=> bar.stubTimer) /\ bar'.stub = bar.stub
         /\ \/ panel[p].anim = "hide" /\ panel' = panel
            \/ \E r \in Slots :
                 /\ r = [panel[p] EXCEPT !.anim = "hide",
                                         !.dontHide = @ /\ panel[p].anim # "show"]
                 /\ panel[p].anim # "hide"
                 /\ \/ ~panel[p].button /\ panel' = [panel EXCEPT ![p] = r]
                    \/ /\ panel[p].button
                       /\ panel' = TurnsTo(panel, p, [r EXCEPT !.button = FALSE], FALSE)
<1>0. News(p, "unmap") /\ UNCHANGED <<up, window>>
  BY DEF WindowUnmapped
<1>1. CASE panel[p].anim = "hide"
  BY <1>0, <1>1 DEF WindowUnmapped
<1>2. CASE panel[p].anim # "hide"
  <2>. DEFINE r == [panel[p] EXCEPT !.anim = "hide",
                                    !.dontHide = @ /\ panel[p].anim # "show"]
              s == [State EXCEPT !.panel[p] = r]
              t == Toggle(s, p, FALSE)
  <2>1. r \in Slots /\ r.button = panel[p].button /\ r.button \in BOOLEAN
    BY DEF TypeOK, Slots
  <2>2. Become(t)
    <3>1. [State EXCEPT !.panel[p].anim = "hide",
                        !.panel[p].dontHide = @ /\ panel[p].anim # "show"] = s
      BY DEF State, TypeOK
    <3>. QED  BY <1>2, <3>1 DEF WindowUnmapped
  <2>3. r = [panel[p] EXCEPT !.anim = "hide",
                             !.dontHide = @ /\ panel[p].anim # "show"]
    OBVIOUS
  <2>. HIDE DEF r
  <2>4. s \in States /\ s.panel = [panel EXCEPT ![p] = r] /\ s.bar = bar
    BY <2>1, SlotChanged DEF State
  <2>. HIDE DEF s
  <2>5. s.panel[p] = r /\ \A q \in Panels \ {p} : s.panel[q] = panel[q]
    BY <2>4 DEF TypeOK
  <2>6. \/ ~r.button /\ t = s
        \/ r.button /\ t.panel = TurnsTo(s.panel, p, [r EXCEPT !.button = FALSE], FALSE)
    BY <2>1, <2>4, <2>5, TogglePanel
  <2>9. (t.bar.stubTimer <=> bar.stubTimer) /\ t.bar.stub = bar.stub
    BY <2>4, ToggleBar
  <2>. HIDE DEF t
  <2>7. panel' = t.panel /\ bar' = t.bar
    BY <2>2 DEF Become
  <2>8. TurnsTo(s.panel, p, [r EXCEPT !.button = FALSE], FALSE)
          = TurnsTo(panel, p, [r EXCEPT !.button = FALSE], FALSE)
    BY <2>5 DEF TurnsTo
  <2>. QED  BY <1>0, <1>2, <2>1, <2>3, <2>4, <2>6, <2>7, <2>8, <2>9
<1>. QED  BY <1>1, <1>2

LEMMA StubTimeoutPanel ==
  ASSUME TypeOK, StubTimeout
  PROVE  /\ UNCHANGED <<up, window, events>> /\ bar.stubTimer /\ ~bar'.stubTimer
         /\ \/ ~(bar.stub # None /\ panel[bar.stub].button) /\ panel' = panel
            \/ \E p \in Panels, r \in Slots :
                 /\ p = bar.stub /\ panel[p].button
                 /\ r = [panel[p] EXCEPT !.pinged = FALSE, !.failed = TRUE]
                 /\ panel' = TurnsTo(panel, p, [r EXCEPT !.button = FALSE], FALSE)
<1>. DEFINE p == bar.stub
            x == [State EXCEPT !.bar.stub = None, !.bar.stubTimer = FALSE]
            s == StopWaiting(x)
            t == [s EXCEPT !.panel[p].pinged = FALSE, !.panel[p].failed = TRUE]
<1>0. UNCHANGED <<up, window, events>> /\ bar.stubTimer
  BY DEF StubTimeout
<1>1. bar \in Bars /\ p \in Panels \cup {None} /\ panel \in [Panels -> Slots]
  BY DEF TypeOK, Bars
<1>2. x \in States /\ x.panel = panel /\ ~x.bar.stubTimer
  BY <1>1 DEF State, States, Bars
<1>. HIDE DEF x
<1>3. s \in States /\ s.panel = panel /\ ~s.bar.stubTimer
  BY <1>2 DEF StopWaiting, States, Bars
<1>. HIDE DEF s
<1>4. CASE p # None /\ panel[p].button
  <2>. DEFINE r == [panel[p] EXCEPT !.pinged = FALSE, !.failed = TRUE]
  <2>1. p \in Panels
    BY <1>1, <1>4
  <2>2. panel[p] \in Slots
    BY <1>1, <2>1
  <2>3. r \in Slots
    BY <2>2, GivenUpSlot
  <2>4. t = [s EXCEPT !.panel[p] = r]
    BY <1>3, <2>1 DEF States
  <2>5. r.button = panel[p].button
    BY <2>2 DEF Slots
  <2>6. r = [panel[p] EXCEPT !.pinged = FALSE, !.failed = TRUE]
    OBVIOUS
  <2>7. Become(Toggle(t, p, FALSE))
    BY <1>4 DEF StubTimeout, s, x
  <2>12. t.bar = s.bar
    BY <1>3 DEF States
  <2>. HIDE DEF r, t
  <2>8. t \in States /\ t.panel = [panel EXCEPT ![p] = r]
    BY <1>3, <2>1, <2>3, <2>4, SlotReplaced
  <2>13. ~bar'.stubTimer
    BY <1>3, <2>1, <2>7, <2>8, <2>12, ToggleBar DEF Become
  <2>9. t.panel[p] = r /\ \A q \in Panels \ {p} : t.panel[q] = panel[q]
    BY <1>1, <2>1, <2>8
  <2>10. panel' = TurnsTo(t.panel, p, [r EXCEPT !.button = FALSE], FALSE)
    <3>1. Toggle(t, p, FALSE).panel = TurnsTo(t.panel, p, [t.panel[p] EXCEPT !.button = FALSE], FALSE)
      BY <1>4, <2>1, <2>5, <2>8, <2>9, TogglePanel
    <3>. QED  BY <2>7, <2>9, <3>1 DEF Become
  <2>11. panel' = TurnsTo(panel, p, [r EXCEPT !.button = FALSE], FALSE)
    BY <2>9, <2>10 DEF TurnsTo
  <2>. QED  BY <1>0, <1>4, <2>1, <2>3, <2>6, <2>11, <2>13
<1>5. CASE ~(p # None /\ panel[p].button)
  <2>1. Become(s)
    BY <1>5 DEF StubTimeout, s, x
  <2>. QED  BY <1>0, <1>3, <1>5, <2>1 DEF Become, States
<1>. QED  BY <1>4, <1>5

-----------------------------------------------------------------------------
(***************************************************************************)
(* At most one panel covers the screen.                                    *)
(***************************************************************************)
\* A panel that stays on the screen: it is not being shown or hidden, nobody has
\* asked it to hide.
Rests(r) == Mapped(r) /\ r.anim = "none" /\ ~Has(r.calls, "Hide")

OneButton == \A p, q \in Panels : panel[p].button /\ panel[q].button => p = q
RestDown == \A p \in Panels : Rests(panel[p]) /\ events[p] = <<>> => panel[p].button

\* What a modal window leaves of the story: the shell may not know of a window
\* that is mapped, but it learns of every window that is unmapped.
Story(known, news, on) == \/ Coherent(TRUE, news, on)
                          \/ ~known /\ Coherent(FALSE, news, on)
Stories == \A p \in Panels : Story(Knows(panel[p]), events[p], p \in window)

OneDown == OneButton /\ RestDown /\ Stories

LEMMA HideCallRests ==
  ASSUME NEW r \in Slots
  PROVE  /\ HideCall(r).button = r.button /\ ~Rests(HideCall(r))
         /\ Knows(HideCall(r)) <=> Knows(r)
<1>1. r.anim = "hide" => ~Rests(HideCall(r))
  BY HideCallFields DEF Rests
<1>2. r.anim # "hide" => ~Rests(HideCall(r))
  BY HideCallFields DEF Rests
<1>3. HideCall(r).button = r.button /\ (Knows(HideCall(r)) <=> Knows(r))
  BY HideCallFields DEF Knows
<1>. QED  BY <1>1, <1>2, <1>3

\* A toggle leaves one button down at most, and only its panel on the screen.
LEMMA TurnsToOneDown ==
  ASSUME NEW x \in [Panels -> Slots], NEW p \in Panels, NEW r \in Slots,
         NEW byUser \in BOOLEAN, panel' = TurnsTo(x, p, r, byUser)
  PROVE  OneButton' /\ RestDown'
<1>1. /\ \A q \in Panels \ {p} : panel'[q] = TurnedFrom(x[q])
      /\ panel'[p] = Own(r, byUser)
  BY DEF TurnsTo
<1>2. \A q \in Panels \ {p} : ~panel'[q].button /\ ~Rests(panel'[q])
  <2>. SUFFICES ASSUME NEW q \in Panels \ {p}
                PROVE  ~panel'[q].button /\ ~Rests(panel'[q])
    OBVIOUS
  <2>1. x[q] \in Slots /\ panel'[q] = TurnedFrom(x[q])
    BY <1>1
  <2>. QED  BY <2>1, TurnedFromFields DEF Rests, Mapped
<1>3. Rests(panel'[p]) => panel'[p].button
  <2>. DEFINE o == Own(r, byUser)
  <2>1. CASE o = ShowCall(r) /\ ~r.mapped
    BY <1>1, <2>1, ShowCallFields DEF Rests, Mapped
  <2>2. CASE o = HideCall(r)
    BY <1>1, <2>2, HideCallRests
  <2>3. CASE ~r.have /\ o \in {[r EXCEPT !.pinged = TRUE], [r EXCEPT !.button = FALSE],
                               [r EXCEPT !.button = TRUE]}
    <3>1. ~o.have
      BY <2>3 DEF Slots
    <3>. QED  BY <1>1, <3>1 DEF Rests, Mapped
  <2>4. CASE (r.button <=> Mapped(r)) /\ o = r
    BY <1>1, <2>4 DEF Rests
  <2>. HIDE DEF o
  <2>. QED  BY <2>1, <2>2, <2>3, <2>4, OwnCases DEF o
<1>. QED  BY <1>2, <1>3 DEF OneButton, RestDown

\* Steps that press no button and bring no panel to rest.
LEMMA OneDownKept ==
  ASSUME OneButton, RestDown,
         \A q \in Panels : /\ panel'[q].button = panel[q].button
                           /\ Rests(panel'[q]) /\ events'[q] = <<>> =>
                                Rests(panel[q]) /\ events[q] = <<>>
  PROVE  OneButton' /\ RestDown'
BY DEF OneButton, RestDown

LEMMA StoriesKept ==
  ASSUME Stories, \A q \in Panels : Knows(panel'[q]) => Knows(panel[q]),
         UNCHANGED <<window, events>>
  PROVE  Stories'
<1>. SUFFICES ASSUME NEW q \in Panels
              PROVE  Story(Knows(panel[q]), events[q], q \in window)'
  BY DEF Stories
<1>1. Story(Knows(panel[q]), events[q], q \in window)
  BY DEF Stories
<1>2. (q \in window)' = (q \in window) /\ events'[q] = events[q]
  OBVIOUS
<1>3. Story(Knows(panel'[q]), events[q], q \in window)
  BY <1>1 DEF Story
<1>. QED  BY <1>2, <1>3

LEMMA KnowsKept ==
  ASSUME NEW r \in Slots, NEW byUser \in BOOLEAN
  PROVE  /\ Knows(TurnedFrom(r)) <=> Knows(r)
         /\ Knows(HideCall(r)) <=> Knows(r)
         /\ Knows(Own(r, byUser)) => Knows(r)
         /\ ~r.mapped => ~Knows(ShowCall(r))
<1>1. Knows(Own(r, byUser)) => Knows(r)
  BY OwnType DEF Knows
<1>. QED  BY <1>1, TurnedFromFields, HideCallFields, ShowCallFields DEF Knows

LEMMA TurnsToKnows ==
  ASSUME NEW x \in [Panels -> Slots], NEW p \in Panels, NEW r \in Slots,
         NEW byUser \in BOOLEAN, panel' = TurnsTo(x, p, r, byUser)
  PROVE  /\ \A q \in Panels \ {p} : Knows(panel'[q]) <=> Knows(x[q])
         /\ Knows(panel'[p]) => Knows(r)
BY KnowsKept DEF TurnsTo

-----------------------------------------------------------------------------
LEMMA InitOneDown == Init => OneDown
<1>. SUFFICES ASSUME Init PROVE OneDown
  OBVIOUS
<1>1. OneButton
  BY DEF Init, OneButton
<1>2. RestDown
  BY DEF Init, RestDown, Rests, Mapped
<1>3. Stories
  <2>. SUFFICES ASSUME NEW p \in Panels
                PROVE  Story(Knows(panel[p]), events[p], p \in window)
    BY DEF Stories
  <2>1. events[p] = <<>> /\ p \notin window /\ ~Knows(panel[p])
    BY DEF Init, Knows
  <2>2. Coherent(FALSE, events[p], p \in window)
    BY <2>1, EmptySeq DEF Coherent
  <2>. QED  BY <2>1, <2>2 DEF Story
<1>. QED  BY <1>1, <1>2, <1>3 DEF OneDown

LEMMA ClickOneDown ==
  ASSUME TypeOK, OneDown, NEW p \in Panels, Click(p)
  PROVE  OneDown'
<1>. DEFINE r == [panel[p] EXCEPT !.button = ~panel[p].button]
<1>1. r \in Slots /\ panel' = TurnsTo(panel, p, r, TRUE) /\ UNCHANGED <<window, events>>
  BY ClickPanel
<1>2. panel \in [Panels -> Slots] /\ Knows(r) = Knows(panel[p])
  BY DEF TypeOK, Slots, Knows
<1>. HIDE DEF r
<1>3. Stories'
  BY <1>1, <1>2, TurnsToKnows, StoriesKept DEF OneDown
<1>. QED  BY <1>1, <1>2, <1>3, TurnsToOneDown DEF OneDown

LEMMA ActivateOneDown ==
  ASSUME TypeOK, OneDown, NEW p \in Panels, Activate(p)
  PROVE  OneDown'
<1>. DEFINE o == Others(p)
<1>1. /\ o \in [Panels -> Slots] /\ o[p] = panel[p] /\ panel \in [Panels -> Slots]
      /\ \A q \in Panels \ {p} : o[q] = IF Mapped(panel[q]) THEN HideCall(panel[q])
                                        ELSE panel[q]
  BY OthersType DEF TypeOK
<1>2. /\ UNCHANGED <<window, events>> /\ ~Mapped(panel[p])
      /\ IF panel[p].have
         THEN panel' = [o EXCEPT ![p] = ShowCall(panel[p])]
         ELSE \/ panel' = o
              \/ panel' = TurnsTo(o, p, [panel[p] EXCEPT !.button = TRUE], FALSE)
  BY ActivatePanel
<1>. HIDE DEF o
<1>3. \A q \in Panels : /\ o[q].button = panel[q].button
                        /\ Rests(o[q]) => Rests(panel[q])
                        /\ Knows(o[q]) <=> Knows(panel[q])
  <2>. SUFFICES ASSUME NEW q \in Panels
                PROVE  /\ o[q].button = panel[q].button
                       /\ Rests(o[q]) => Rests(panel[q])
                       /\ Knows(o[q]) <=> Knows(panel[q])
    OBVIOUS
  <2>1. panel[q] \in Slots
    BY <1>1
  <2>2. CASE o[q] = HideCall(panel[q])
    BY <2>1, <2>2, HideCallRests
  <2>3. CASE o[q] = panel[q]
    BY <2>3
  <2>. QED  BY <1>1, <2>2, <2>3
<1>4. CASE panel[p].have
  <2>1. panel[p] \in Slots /\ ~panel[p].mapped
    BY <1>1, <1>2, <1>4 DEF Mapped
  <2>2. /\ panel'[p] = ShowCall(panel[p])
        /\ \A q \in Panels \ {p} : panel'[q] = o[q]
    BY <1>1, <1>2, <1>4
  <2>3. /\ panel'[p].button = panel[p].button
        /\ ~Rests(panel'[p]) /\ ~Knows(panel'[p])
    BY <2>1, <2>2, ShowCallFields DEF Rests, Mapped, Knows
  <2>4. OneButton' /\ RestDown'
    BY <1>2, <1>3, <2>2, <2>3, OneDownKept DEF OneDown
  <2>5. Stories'
    BY <1>2, <1>3, <2>2, <2>3, StoriesKept DEF OneDown
  <2>. QED  BY <2>4, <2>5 DEF OneDown
<1>5. CASE panel' = o
  BY <1>2, <1>3, <1>5, OneDownKept, StoriesKept DEF OneDown
<1>6. CASE panel' = TurnsTo(o, p, [panel[p] EXCEPT !.button = TRUE], FALSE)
  <2>. DEFINE r == [panel[p] EXCEPT !.button = TRUE]
  <2>1. r \in Slots /\ Knows(r) = Knows(panel[p])
    BY <1>1 DEF Slots, Knows
  <2>2. panel' = TurnsTo(o, p, r, FALSE)
    BY <1>6
  <2>. HIDE DEF r
  <2>3. \A q \in Panels : Knows(panel'[q]) => Knows(panel[q])
    BY <1>1, <1>3, <2>1, <2>2, TurnsToKnows
  <2>. QED  BY <1>1, <1>2, <2>1, <2>2, <2>3, TurnsToOneDown, StoriesKept DEF OneDown
<1>. QED  BY <1>2, <1>4, <1>5, <1>6

LEMMA HidePanelOneDown ==
  ASSUME TypeOK, OneDown, NEW p \in Panels, HidePanel(p)
  PROVE  OneDown'
<1>1. panel \in [Panels -> Slots] /\ panel[p] \in Slots
  BY DEF TypeOK
<1>2. /\ panel'[p] = HideCall(panel[p])
      /\ \A q \in Panels \ {p} : panel'[q] = panel[q]
      /\ UNCHANGED <<window, events>>
  BY <1>1 DEF HidePanel
<1>3. \A q \in Panels : /\ panel'[q].button = panel[q].button
                        /\ Rests(panel'[q]) => Rests(panel[q])
                        /\ Knows(panel'[q]) => Knows(panel[q])
  BY <1>1, <1>2, HideCallRests
<1>. QED  BY <1>2, <1>3, OneDownKept, StoriesKept DEF OneDown

-----------------------------------------------------------------------------
\* A window changes and its panel may be rid of a call.
LEMMA WindowSetOneDown ==
  ASSUME TypeOK, OneDown, NEW p \in Panels, NEW on \in BOOLEAN, SetWindow(p, on),
         \A q \in Panels \ {p} : panel'[q] = panel[q],
         panel'[p].button = panel[p].button,
         Knows(panel'[p]) <=> Knows(panel[p]),
         Rests(panel'[p]) => Knows(panel[p]) /\ (Rests(panel[p]) \/ ~on)
  PROVE  OneDown'
<1>1. /\ \A q \in Panels \ {p} : /\ q \in window' <=> q \in window
                                 /\ events'[q] = events[q]
      /\ p \in window' <=> on
      /\ events'[p] = <<>> => events[p] = <<>> /\ (p \in window <=> on)
      /\ \A known \in BOOLEAN : Coherent(known, events[p], p \in window) =>
                                   Coherent(known, events'[p], on)
  BY WindowSet
<1>2. \A q \in Panels : Story(Knows(panel[q]), events[q], q \in window)
  BY DEF OneDown, Stories
<1>3. Rests(panel'[p]) /\ events'[p] = <<>> => Rests(panel[p]) /\ events[p] = <<>>
  <2>. SUFFICES ASSUME Rests(panel'[p]), events'[p] = <<>>, ~on PROVE FALSE
    BY <1>1
  <2>1. events[p] = <<>> /\ p \notin window
    BY <1>1
  <2>2. ~Coherent(TRUE, events[p], p \in window)
    BY <2>1 DEF Coherent
  <2>. QED  BY <1>2, <2>2 DEF Story
<1>4. OneButton' /\ RestDown'
  BY <1>1, <1>3, OneDownKept DEF OneDown
<1>5. Story(Knows(panel'[p]), events'[p], on)
  BY <1>1, <1>2 DEF Story
<1>6. ASSUME NEW q \in Panels PROVE Story(Knows(panel[q]), events[q], q \in window)'
  <2>1. CASE q = p
    <3>1. (p \in window') = on
      BY <1>1
    <3>. QED  BY <1>5, <2>1, <3>1
  <2>2. CASE q # p
    <3>1. (q \in window') = (q \in window) /\ events'[q] = events[q] /\ panel'[q] = panel[q]
      BY <1>1, <2>2
    <3>2. Story(Knows(panel[q]), events[q], q \in window)
      BY <1>2
    <3>. QED  BY <3>1, <3>2
  <2>. QED  BY <2>1, <2>2
<1>. QED  BY <1>4, <1>6 DEF OneDown, Stories

\* One call fewer on its way.
LEMMA CallsDropped ==
  ASSUME NEW r \in Slots, NEW cs \in Seq({"Show", "Hide"}), NEW t,
         t = [r EXCEPT !.calls = cs]
  PROVE  /\ t \in Slots /\ t.calls = cs
         /\ t.button = r.button /\ t.have = r.have /\ t.pinged = r.pinged
         /\ t.failed = r.failed /\ t.mapped = r.mapped /\ t.anim = r.anim
         /\ t.dontHide = r.dontHide
BY DEF Slots

LEMMA HandleCallPanel ==
  ASSUME TypeOK, NEW p \in Panels, HandleCall(p)
  PROVE  /\ \A q \in Panels \ {p} : panel'[q] = panel[q]
         /\ panel[p] \in Slots /\ panel'[p] \in Slots
         /\ panel'[p].button = panel[p].button /\ panel'[p].have = panel[p].have
         /\ panel'[p].pinged = panel[p].pinged /\ panel'[p].mapped = panel[p].mapped
         /\ panel'[p].anim = panel[p].anim /\ panel'[p].dontHide = panel[p].dontHide
         /\ Head(panel[p].calls) \in {"Show", "Hide"}
         /\ panel[p].calls # <<>> /\ p \in up /\ UNCHANGED <<bar, up, wanted, moves>>
         /\ SetWindow(p, Head(panel[p].calls) = "Show")
         /\ \A c : Has(panel[p].calls, c) <=>
                      Head(panel[p].calls) = c \/ Has(panel'[p].calls, c)
<1>. DEFINE cs == panel[p].calls
            ts == Tail(cs)
<1>1. /\ panel[p] \in Slots /\ panel \in [Panels -> Slots]
      /\ cs \in Seq({"Show", "Hide"}) /\ cs # <<>>
  BY DEF TypeOK, HandleCall, Slots
<1>2. ts \in Seq({"Show", "Hide"}) /\ Head(cs) \in {"Show", "Hide"}
  BY <1>1, HeadTailProperties
<1>3. \A c : Has(cs, c) <=> Head(cs) = c \/ Has(ts, c)
  BY <1>1, HasTail
<1>4. panel' = [panel EXCEPT ![p] = [panel[p] EXCEPT !.calls = ts]]
  BY <1>1 DEF HandleCall
<1>5. /\ p \in up /\ UNCHANGED <<bar, up, wanted, moves>>
      /\ SetWindow(p, Head(cs) = "Show")
  BY DEF HandleCall
<1>. HIDE DEF ts
<1>6. /\ \A q \in Panels \ {p} : panel'[q] = panel[q]
      /\ panel'[p] = [panel[p] EXCEPT !.calls = ts]
  BY <1>1, <1>4
<1>7. /\ panel'[p] \in Slots /\ panel'[p].calls = ts
      /\ panel'[p].button = panel[p].button /\ panel'[p].have = panel[p].have
      /\ panel'[p].pinged = panel[p].pinged /\ panel'[p].mapped = panel[p].mapped
      /\ panel'[p].anim = panel[p].anim /\ panel'[p].dontHide = panel[p].dontHide
  BY <1>1, <1>2, <1>6, CallsDropped
<1>. QED  BY <1>1, <1>2, <1>3, <1>5, <1>6, <1>7 DEF ts

LEMMA HandleCallOneDown ==
  ASSUME TypeOK, OneDown, NEW p \in Panels, HandleCall(p)
  PROVE  OneDown'
<1>. DEFINE on == Head(panel[p].calls) = "Show"
<1>1. /\ \A q \in Panels \ {p} : panel'[q] = panel[q]
      /\ panel[p] \in Slots /\ SetWindow(p, on)
      /\ \A c : Has(panel[p].calls, c) <=>
                   Head(panel[p].calls) = c \/ Has(panel'[p].calls, c)
      /\ Head(panel[p].calls) \in {"Show", "Hide"}
  BY HandleCallPanel
<1>2. /\ panel'[p].button = panel[p].button /\ panel'[p].have = panel[p].have
      /\ panel'[p].mapped = panel[p].mapped /\ panel'[p].anim = panel[p].anim
  BY HandleCallPanel
<1>3. on \in BOOLEAN
  OBVIOUS
<1>4. Knows(panel'[p]) <=> Knows(panel[p])
  BY <1>2 DEF Knows
<1>5. Rests(panel'[p]) => Knows(panel[p]) /\ (Rests(panel[p]) \/ ~on)
  BY <1>1, <1>2 DEF Rests, Mapped, Knows
<1>. HIDE DEF on
<1>. QED  BY <1>1, <1>2, <1>3, <1>4, <1>5, WindowSetOneDown

LEMMA MoveItselfOneDown ==
  ASSUME TypeOK, OneDown, NEW p \in Panels, NEW on \in BOOLEAN, MoveItself(p, on)
  PROVE  OneDown'
<1>1. SetWindow(p, on) /\ panel' = panel
  BY DEF MoveItself
<1>2. Rests(panel[p]) => Knows(panel[p])
  BY DEF Rests, Mapped, Knows
<1>. QED  BY <1>1, <1>2, WindowSetOneDown

LEMMA DieOneDown ==
  ASSUME TypeOK, OneDown, NEW p \in Panels, Die(p)
  PROVE  OneDown'
<1>1. <<>> \in Seq({"Show", "Hide"})
  BY EmptySeq
<1>2. panel[p] \in Slots /\ panel \in [Panels -> Slots]
  BY DEF TypeOK
<1>3. /\ panel'[p] = [panel[p] EXCEPT !.calls = <<>>]
      /\ \A q \in Panels \ {p} : panel'[q] = panel[q]
      /\ SetWindow(p, FALSE)
  BY <1>2 DEF Die
<1>4. /\ panel'[p].button = panel[p].button /\ panel'[p].have = panel[p].have
      /\ panel'[p].mapped = panel[p].mapped /\ panel'[p].anim = panel[p].anim
  BY <1>1, <1>2, <1>3 DEF Slots
<1>5. /\ Knows(panel'[p]) <=> Knows(panel[p])
      /\ Rests(panel'[p]) => Knows(panel[p])
  BY <1>4 DEF Knows, Rests, Mapped
<1>. QED  BY <1>3, <1>4, <1>5, WindowSetOneDown

\* One panel changes otherwise, its window does not, nor does any button.
LEMMA SlotOneDown ==
  ASSUME TypeOK, OneDown, NEW p \in Panels, panel' \in [Panels -> Slots], window' = window,
         \A q \in Panels \ {p} : panel'[q] = panel[q] /\ events'[q] = events[q],
         panel'[p].button = panel[p].button,
         Rests(panel'[p]) /\ events'[p] = <<>> => panel'[p].button,
         Story(Knows(panel'[p]), events'[p], p \in window)
  PROVE  OneDown'
<1>1. OneButton'
  BY DEF OneDown, OneButton
<1>2. RestDown'
  BY DEF OneDown, RestDown
<1>3. ASSUME NEW q \in Panels PROVE Story(Knows(panel[q]), events[q], q \in window)'
  <2>1. CASE q = p
    BY <2>1
  <2>2. CASE q # p
    <3>1. Story(Knows(panel[q]), events[q], q \in window)
      BY DEF OneDown, Stories
    <3>2. events'[q] = events[q] /\ panel'[q] = panel[q]
      BY <2>2
    <3>. QED  BY <3>1, <3>2
  <2>. QED  BY <2>1, <2>2
<1>. QED  BY <1>1, <1>2, <1>3 DEF OneDown, Stories

LEMMA DiedOneDown ==
  ASSUME TypeOK, OneDown, NEW p \in Panels, Died(p)
  PROVE  OneDown'
<1>. DEFINE r == NewSlot(panel[p], FALSE)
<1>1. /\ r \in Slots /\ r.mapped = FALSE /\ panel \in [Panels -> Slots]
      /\ r.button = panel[p].button
  <2>1. r.button = panel[p].button
    BY DEF NewSlot, TypeOK, Slots
  <2>. QED  BY <2>1, NewSlotType DEF TypeOK
<1>2. /\ panel' = [panel EXCEPT ![p] = r] /\ events' = [events EXCEPT ![p] = <<>>]
      /\ window' = window
  BY DEF Died
<1>. HIDE DEF r
<1>3. /\ panel'[p] = r /\ events'[p] = <<>> /\ panel' \in [Panels -> Slots]
      /\ \A q \in Panels \ {p} : panel'[q] = panel[q] /\ events'[q] = events[q]
  BY <1>1, <1>2 DEF TypeOK
<1>4. ~Rests(panel'[p]) /\ ~Knows(panel'[p])
  BY <1>1, <1>3 DEF Rests, Mapped, Knows
<1>5. Coherent(TRUE, <<>>, p \in window) \/ Coherent(FALSE, <<>>, p \in window)
  BY EmptySeq DEF Coherent
<1>6. Story(Knows(panel'[p]), events'[p], p \in window)
  BY <1>3, <1>4, <1>5 DEF Story
<1>. QED  BY <1>1, <1>2, <1>3, <1>4, <1>6, SlotOneDown

LEMMA AppearsPanel ==
  ASSUME TypeOK, NEW p \in Panels, Appears(p)
  PROVE  \E r \in Slots :
           /\ panel' = [panel EXCEPT ![p] = r]
           /\ r.button = panel[p].button /\ r.have /\ ~r.pinged /\ ~r.mapped
           /\ r.anim = "none" /\ ~r.dontHide
           /\ \A c : Has(r.calls, c) <=> panel[p].pinged /\ c = "Show"
<1>. DEFINE n == NewSlot(panel[p], TRUE)
            r == [n EXCEPT !.failed = FALSE, !.pinged = FALSE]
<1>1. /\ n \in Slots /\ n.have /\ ~n.mapped /\ n.anim = "none" /\ ~n.dontHide
      /\ n.button = panel[p].button /\ n.calls = <<>>
  <2>1. panel[p] \in Slots
    BY DEF TypeOK
  <2>2. n \in Slots /\ n.have = TRUE /\ n.mapped = FALSE /\ n.anim = "none"
    BY <2>1, NewSlotType
  <2>3. ~n.dontHide /\ n.button = panel[p].button /\ n.calls = <<>>
    BY <2>1 DEF NewSlot, Slots
  <2>. QED  BY <2>2, <2>3
<1>2. panel' = IF panel[p].pinged THEN [panel EXCEPT ![p] = ShowCall(r)]
               ELSE [panel EXCEPT ![p] = r]
  BY DEF Appears, n
<1>. HIDE DEF n
<1>3. /\ r \in Slots /\ r.have /\ ~r.mapped /\ r.anim = "none" /\ ~r.dontHide /\ ~r.pinged
      /\ r.button = panel[p].button /\ r.calls = <<>>
  BY <1>1 DEF Slots
<1>. HIDE DEF r
<1>4. \A c : ~Has(r.calls, c)
  BY <1>3, HasNone
<1>5. CASE panel[p].pinged
  <2>1. /\ ShowCall(r) \in Slots /\ ShowCall(r).have /\ ~ShowCall(r).mapped
        /\ ShowCall(r).anim = "none" /\ ~ShowCall(r).dontHide /\ ~ShowCall(r).pinged
        /\ ShowCall(r).button = panel[p].button
        /\ \A c : Has(ShowCall(r).calls, c) <=> c = "Show"
    BY <1>3, <1>4, ShowCallFields
  <2>. QED  BY <1>2, <1>5, <2>1
<1>6. CASE ~panel[p].pinged
  BY <1>2, <1>3, <1>4, <1>6
<1>. QED  BY <1>5, <1>6

LEMMA AppearsOneDown ==
  ASSUME TypeOK, OneDown, NEW p \in Panels, Appears(p)
  PROVE  OneDown'
<1>1. PICK r \in Slots : /\ panel' = [panel EXCEPT ![p] = r]
                         /\ r.button = panel[p].button /\ ~r.mapped
  BY AppearsPanel
<1>2. UNCHANGED <<window, events>>
  BY DEF Appears
<1>3. /\ panel'[p] = r /\ panel' \in [Panels -> Slots]
      /\ \A q \in Panels \ {p} : panel'[q] = panel[q]
  BY <1>1 DEF TypeOK
<1>4. ~Rests(panel'[p]) /\ ~Knows(panel'[p])
  BY <1>1, <1>3 DEF Rests, Mapped, Knows
<1>5. Story(Knows(panel[p]), events[p], p \in window)
  BY DEF OneDown, Stories
<1>6. Story(Knows(panel'[p]), events'[p], p \in window)
  BY <1>2, <1>4, <1>5 DEF Story
<1>. QED  BY <1>1, <1>2, <1>3, <1>4, <1>6, SlotOneDown

-----------------------------------------------------------------------------
\* News that is read is what the shell then knows.
LEMMA NewsTells ==
  ASSUME TypeOK, Stories, NEW p \in Panels, NEW what \in {"map", "unmap"}, News(p, what)
  PROVE  /\ Coherent(what = "map", events'[p], p \in window)
         /\ \A q \in Panels \ {p} : events'[q] = events[q]
<1>1. /\ events[p] \in Seq({"map", "unmap"}) /\ events[p] # <<>>
      /\ Head(events[p]) = what /\ events'[p] = Tail(events[p])
      /\ \A q \in Panels \ {p} : events'[q] = events[q]
  BY NewsType
<1>2. (p \in window) \in BOOLEAN
  OBVIOUS
<1>3. \A known \in BOOLEAN : Coherent(known, events[p], p \in window) =>
                               /\ Head(events[p]) = Change(~known)
                               /\ Coherent(~known, Tail(events[p]), p \in window)
  BY <1>1, <1>2, CoherentTail
<1>4. PICK known \in BOOLEAN : Coherent(known, events[p], p \in window)
  BY DEF Stories, Story
<1>5. what = Change(~known) /\ Coherent(~known, events'[p], p \in window)
  BY <1>1, <1>3, <1>4
<1>6. ~known = (what = "map")
  BY <1>4, <1>5 DEF Change
<1>. QED  BY <1>1, <1>5, <1>6

LEMMA WindowMappedOneDown ==
  ASSUME TypeOK, OneDown, NEW p \in Panels, WindowMapped(p)
  PROVE  OneDown'
<1>1. News(p, "map") /\ window' = window
  BY DEF WindowMapped
<1>2. /\ Coherent(TRUE, events'[p], p \in window)
      /\ \A q \in Panels \ {p} : events'[q] = events[q]
  <2>1. Coherent("map" = "map", events'[p], p \in window)
        /\ \A q \in Panels \ {p} : events'[q] = events[q]
    BY <1>1, NewsTells DEF OneDown
  <2>. QED  BY <2>1
<1>3. panel \in [Panels -> Slots] /\ panel[p] \in Slots
  BY DEF TypeOK
<1>4. PICK r \in Slots : /\ panel' = [panel EXCEPT ![p] = r]
                         /\ r.button = panel[p].button /\ ~Rests(r)
  <2>1. CASE panel' = [panel EXCEPT ![p].mapped = TRUE, ![p].anim = "show"]
    <3>. DEFINE r == [panel[p] EXCEPT !.mapped = TRUE, !.anim = "show"]
    <3>1. r \in Slots /\ r.button = panel[p].button /\ ~Rests(r)
      BY <1>3 DEF Slots, Rests
    <3>2. panel' = [panel EXCEPT ![p] = r]
      BY <1>3, <2>1
    <3>. QED  BY <3>1, <3>2
  <2>2. CASE panel' = [panel EXCEPT ![p] = HideCall(@)]
    <3>1. HideCall(panel[p]) \in Slots
      BY <1>3, HideCallFields
    <3>. QED  BY <1>3, <2>2, <3>1, HideCallRests
  <2>. QED  BY <2>1, <2>2 DEF WindowMapped
<1>5. /\ panel'[p] = r /\ panel' \in [Panels -> Slots]
      /\ \A q \in Panels \ {p} : panel'[q] = panel[q]
  BY <1>3, <1>4
<1>6. Story(Knows(panel'[p]), events'[p], p \in window)
  BY <1>2 DEF Story
<1>. QED  BY <1>1, <1>2, <1>4, <1>5, <1>6, SlotOneDown

LEMMA ShowCompletedOneDown ==
  ASSUME TypeOK, OneDown, NEW p \in Panels, ShowCompleted(p)
  PROVE  OneDown'
<1>1. PICK r \in Slots :
           /\ r = [panel[p] EXCEPT !.anim = "none", !.dontHide = FALSE]
           /\ panel[p].anim = "show" /\ UNCHANGED <<up, window, events>>
           /\ \/ panel[p].button /\ panel' = [panel EXCEPT ![p] = r]
              \/ /\ ~panel[p].button
                 /\ panel' = TurnsTo(panel, p, [r EXCEPT !.button = TRUE], FALSE)
  BY ShowCompletedPanel
<1>2. panel \in [Panels -> Slots] /\ panel[p] \in Slots
  BY DEF TypeOK
<1>3. r.button = panel[p].button /\ (Knows(r) <=> Knows(panel[p]))
  BY <1>1, <1>2 DEF Slots, Knows
<1>4. CASE panel[p].button /\ panel' = [panel EXCEPT ![p] = r]
  <2>1. /\ panel'[p] = r /\ panel' \in [Panels -> Slots]
        /\ \A q \in Panels \ {p} : panel'[q] = panel[q]
    BY <1>2, <1>4
  <2>2. Story(Knows(panel[p]), events[p], p \in window)
    BY DEF OneDown, Stories
  <2>3. Story(Knows(panel'[p]), events'[p], p \in window)
    BY <1>1, <1>3, <2>1, <2>2 DEF Story
  <2>. QED  BY <1>1, <1>3, <1>4, <2>1, <2>3, SlotOneDown
<1>5. CASE panel' = TurnsTo(panel, p, [r EXCEPT !.button = TRUE], FALSE)
  <2>. DEFINE t == [r EXCEPT !.button = TRUE]
  <2>1. t \in Slots /\ Knows(t) = Knows(r)
    BY DEF Slots, Knows
  <2>2. panel' = TurnsTo(panel, p, t, FALSE)
    BY <1>5
  <2>. HIDE DEF t
  <2>3. \A q \in Panels : Knows(panel'[q]) => Knows(panel[q])
    BY <1>2, <1>3, <2>1, <2>2, TurnsToKnows
  <2>. QED  BY <1>1, <1>2, <2>1, <2>2, <2>3, TurnsToOneDown, StoriesKept DEF OneDown
<1>. QED  BY <1>1, <1>4, <1>5

LEMMA WindowUnmappedOneDown ==
  ASSUME TypeOK, OneDown, NEW p \in Panels, WindowUnmapped(p)
  PROVE  OneDown'
<1>1. /\ News(p, "unmap") /\ UNCHANGED <<up, window>>
      /\ \/ panel[p].anim = "hide" /\ panel' = panel
         \/ \E r \in Slots :
              /\ r = [panel[p] EXCEPT !.anim = "hide",
                                      !.dontHide = @ /\ panel[p].anim # "show"]
              /\ panel[p].anim # "hide"
              /\ \/ ~panel[p].button /\ panel' = [panel EXCEPT ![p] = r]
                 \/ /\ panel[p].button
                    /\ panel' = TurnsTo(panel, p, [r EXCEPT !.button = FALSE], FALSE)
  BY WindowUnmappedPanel
<1>2. /\ Coherent(FALSE, events'[p], p \in window)
      /\ \A q \in Panels \ {p} : events'[q] = events[q]
  <2>1. Coherent("unmap" = "map", events'[p], p \in window)
        /\ \A q \in Panels \ {p} : events'[q] = events[q]
    BY <1>1, NewsTells DEF OneDown
  <2>2. ("unmap" = "map") = FALSE
    OBVIOUS
  <2>. QED  BY <2>1, <2>2
<1>3. panel \in [Panels -> Slots] /\ panel[p] \in Slots
  BY DEF TypeOK
<1>4. ASSUME panel' \in [Panels -> Slots], panel'[p].anim = "hide",
             panel'[p].button = panel[p].button,
             \A q \in Panels \ {p} : panel'[q] = panel[q]
      PROVE  OneDown'
  <2>1. ~Rests(panel'[p]) /\ ~Knows(panel'[p])
    BY <1>4 DEF Rests, Knows
  <2>2. Story(Knows(panel'[p]), events'[p], p \in window)
    BY <1>2, <2>1 DEF Story
  <2>. QED  BY <1>1, <1>2, <1>4, <2>1, <2>2, SlotOneDown
<1>5. CASE panel[p].anim = "hide" /\ panel' = panel
  BY <1>3, <1>4, <1>5
<1>6. ASSUME NEW r \in Slots,
             r = [panel[p] EXCEPT !.anim = "hide",
                                  !.dontHide = @ /\ panel[p].anim # "show"],
             panel' = [panel EXCEPT ![p] = r]
      PROVE  OneDown'
  <2>1. r.anim = "hide" /\ r.button = panel[p].button
    BY <1>3, <1>6 DEF Slots
  <2>. QED  BY <1>3, <1>4, <1>6, <2>1
<1>7. ASSUME NEW r \in Slots,
             r = [panel[p] EXCEPT !.anim = "hide",
                                  !.dontHide = @ /\ panel[p].anim # "show"],
             panel' = TurnsTo(panel, p, [r EXCEPT !.button = FALSE], FALSE)
      PROVE  OneDown'
  <2>. DEFINE t == [r EXCEPT !.button = FALSE]
  <2>0. r.anim = "hide"
    BY <1>3, <1>7 DEF Slots
  <2>1. t \in Slots /\ ~Knows(t)
    BY <2>0 DEF Slots, Knows
  <2>2. panel' = TurnsTo(panel, p, t, FALSE)
    BY <1>7
  <2>. HIDE DEF t
  <2>3. /\ \A q \in Panels \ {p} : Knows(panel'[q]) <=> Knows(panel[q])
        /\ ~Knows(panel'[p])
    BY <1>3, <2>1, <2>2, TurnsToKnows
  <2>4. OneButton' /\ RestDown'
    BY <1>3, <2>1, <2>2, TurnsToOneDown
  <2>5. ASSUME NEW q \in Panels PROVE Story(Knows(panel[q]), events[q], q \in window)'
    <3>0. (q \in window)' = (q \in window)
      BY <1>1
    <3>1. CASE q = p
      BY <1>2, <2>3, <3>0, <3>1 DEF Story
    <3>2. CASE q # p
      <4>1. Story(Knows(panel[q]), events[q], q \in window)
        BY DEF OneDown, Stories
      <4>2. events'[q] = events[q] /\ (Knows(panel'[q]) <=> Knows(panel[q]))
        BY <1>2, <2>3, <3>2
      <4>3. Story(Knows(panel'[q]), events'[q], q \in window)
        BY <4>1, <4>2 DEF Story
      <4>. QED  BY <3>0, <4>3
    <3>. QED  BY <3>1, <3>2
  <2>. QED  BY <2>4, <2>5 DEF OneDown, Stories
<1>. QED  BY <1>1, <1>5, <1>6, <1>7

LEMMA HideCompletedPanel ==
  ASSUME TypeOK, NEW p \in Panels, HideCompleted(p)
  PROVE  /\ panel' \in [Panels -> Slots] /\ UNCHANGED <<up, window, events>>
         /\ panel[p].anim = "hide"
         /\ panel'[p] = [panel[p] EXCEPT !.anim = "none", !.mapped = FALSE]
         /\ \A q \in Panels \ {p} : panel'[q] = panel[q]
<1>. DEFINE r == [panel[p] EXCEPT !.anim = "none", !.mapped = FALSE]
<1>1. r \in Slots /\ panel \in [Panels -> Slots]
  BY DEF TypeOK, Slots
<1>2. panel' = [panel EXCEPT ![p] = r] /\ UNCHANGED <<up, window, events>>
  BY <1>1 DEF HideCompleted
<1>. HIDE DEF r
<1>3. /\ panel' \in [Panels -> Slots] /\ panel'[p] = r
      /\ \A q \in Panels \ {p} : panel'[q] = panel[q]
  BY <1>1, <1>2
<1>. QED  BY <1>2, <1>3 DEF HideCompleted, r

LEMMA HideCompletedOneDown ==
  ASSUME TypeOK, OneDown, NEW p \in Panels, HideCompleted(p)
  PROVE  OneDown'
<1>1. /\ panel' \in [Panels -> Slots] /\ UNCHANGED <<up, window, events>>
      /\ panel'[p] = [panel[p] EXCEPT !.anim = "none", !.mapped = FALSE]
      /\ \A q \in Panels \ {p} : panel'[q] = panel[q]
  BY HideCompletedPanel
<1>2. panel[p] \in Slots
  BY DEF TypeOK
<1>3. /\ panel'[p].button = panel[p].button
      /\ ~Rests(panel'[p]) /\ ~Knows(panel'[p])
  BY <1>1, <1>2 DEF Slots, Rests, Mapped, Knows
<1>4. panel[p].anim = "hide"
  BY DEF HideCompleted
<1>5. Story(Knows(panel[p]), events[p], p \in window)
  BY DEF OneDown, Stories
<1>6. Story(Knows(panel'[p]), events'[p], p \in window)
  BY <1>1, <1>3, <1>5 DEF Story
<1>. QED  BY <1>1, <1>3, <1>6, SlotOneDown

LEMMA StubTimeoutOneDown ==
  ASSUME TypeOK, OneDown, StubTimeout
  PROVE  OneDown'
<1>1. UNCHANGED <<window, events>>
  BY StubTimeoutPanel
<1>2. panel \in [Panels -> Slots]
  BY DEF TypeOK
<1>3. CASE panel' = panel
  BY <1>1, <1>3, OneDownKept, StoriesKept DEF OneDown
<1>4. ASSUME NEW p \in Panels, NEW r \in Slots,
             r = [panel[p] EXCEPT !.pinged = FALSE, !.failed = TRUE],
             panel' = TurnsTo(panel, p, [r EXCEPT !.button = FALSE], FALSE)
      PROVE  OneDown'
  <2>. DEFINE t == [r EXCEPT !.button = FALSE]
  <2>1. t \in Slots /\ Knows(t) = Knows(panel[p])
    BY <1>2, <1>4 DEF Slots, Knows
  <2>2. panel' = TurnsTo(panel, p, t, FALSE)
    BY <1>4
  <2>. HIDE DEF t
  <2>3. \A q \in Panels : Knows(panel'[q]) => Knows(panel[q])
    BY <1>2, <2>1, <2>2, TurnsToKnows
  <2>. QED  BY <1>1, <1>2, <2>1, <2>2, <2>3, TurnsToOneDown, StoriesKept DEF OneDown
<1>. QED  BY <1>3, <1>4, StubTimeoutPanel

LEMMA UnchangedOneDown ==
  ASSUME OneDown, UNCHANGED <<panel, window, events>>
  PROVE  OneDown'
BY OneDownKept, StoriesKept DEF OneDown

LEMMA OneDownStep == TypeOK /\ OneDown /\ [Next]_vars => OneDown'
<1>. SUFFICES ASSUME TypeOK, OneDown, [Next]_vars PROVE OneDown'
  OBVIOUS
<1>1. ASSUME NEW p \in Panels, Click(p) PROVE OneDown'
  BY <1>1, ClickOneDown
<1>2. ASSUME NEW p \in Panels, Activate(p) PROVE OneDown'
  BY <1>2, ActivateOneDown
<1>3. ASSUME NEW p \in Panels, HidePanel(p) PROVE OneDown'
  BY <1>3, HidePanelOneDown
<1>4. ASSUME NEW p \in Panels, HandleCall(p) PROVE OneDown'
  BY <1>4, HandleCallOneDown
<1>5. ASSUME NEW p \in Panels, MoveItself(p, TRUE) \/ MoveItself(p, FALSE) PROVE OneDown'
  BY <1>5, MoveItselfOneDown
<1>6. ASSUME NEW p \in Panels, Die(p) PROVE OneDown'
  BY <1>6, DieOneDown
<1>7. ASSUME NEW p \in Panels, Died(p) PROVE OneDown'
  BY <1>7, DiedOneDown
<1>8. ASSUME NEW p \in Panels, Appears(p) PROVE OneDown'
  BY <1>8, AppearsOneDown
<1>9. ASSUME NEW p \in Panels, WindowMapped(p) PROVE OneDown'
  BY <1>9, WindowMappedOneDown
<1>10. ASSUME NEW p \in Panels, ShowCompleted(p) PROVE OneDown'
  BY <1>10, ShowCompletedOneDown
<1>11. ASSUME NEW p \in Panels, WindowUnmapped(p) PROVE OneDown'
  BY <1>11, WindowUnmappedOneDown
<1>12. ASSUME NEW p \in Panels, HideCompleted(p) PROVE OneDown'
  BY <1>12, HideCompletedOneDown
<1>13. CASE WaitTimeout
  <2>1. UNCHANGED <<panel, window, events>>
    BY <1>13 DEF WaitTimeout, Become, StopWaiting, State
  <2>. QED  BY <2>1, UnchangedOneDown
<1>14. CASE StubTimeout
  BY <1>14, StubTimeoutOneDown
<1>15. CASE UNCHANGED vars
  BY <1>15, UnchangedOneDown DEF vars
<1>. QED  BY <1>1, <1>2, <1>3, <1>4, <1>5, <1>6, <1>7, <1>8, <1>9, <1>10, <1>11,
             <1>12, <1>13, <1>14, <1>15 DEF Next

LEMMA OneDownSuffices == TypeOK /\ OneDown => OneActive
<1>. SUFFICES ASSUME TypeOK, OneDown, Quiet PROVE Cardinality(Active) <= 1
  BY DEF OneActive
<1>1. ASSUME NEW p \in Active PROVE p \in Panels /\ panel[p].button
  <2>1. p \in Panels /\ Mapped(panel[p])
    BY DEF Active
  <2>2. panel[p].calls = <<>> /\ events[p] = <<>> /\ panel[p].anim = "none"
    BY <2>1 DEF Quiet
  <2>3. Rests(panel[p])
    BY <2>1, <2>2, HasNone DEF Rests
  <2>. QED  BY <2>1, <2>2, <2>3 DEF OneDown, RestDown
<1>2. \A p, q \in Active : p = q
  BY <1>1 DEF OneDown, OneButton
<1>3. CASE Active = {}
  BY <1>3, FS_EmptySet
<1>4. CASE Active # {}
  <2>1. PICK p : p \in Active
    BY <1>4
  <2>2. Active = {p}
    BY <1>2, <2>1
  <2>3. Cardinality({p}) = 1
    BY FS_Singleton, Zenon
  <2>. QED  BY <2>2, <2>3
<1>. QED  BY <1>3, <1>4

LEMMA ShowOneDown == Spec => []OneDown
<1>1. TypeOK /\ OneDown /\ [Next]_vars => OneDown'
  BY OneDownStep
<1>. QED  BY <1>1, InitOneDown, ShowTypeCorrect, PTL DEF Spec

\* When all is quiet at most one panel covers the screen, for any number of panels,
\* any requests, deaths and modal windows: mnb_toolbar_button_toggled_cb releases
\* every other button and hides every other panel, and a panel comes to rest only
\* with its button down.
THEOREM ShowOneActive == Spec => []OneActive
<1>1. TypeOK /\ OneDown => OneActive
  BY OneDownSuffices
<1>. QED  BY <1>1, ShowTypeCorrect, ShowOneDown, PTL

-----------------------------------------------------------------------------
(***************************************************************************)
(* Where no modal window, no death and no click on a panel that is being   *)
(* hidden interferes, buttons and panels agree.                            *)
(***************************************************************************)
\* The button of a panel is down only if the panel is shown or will be, and it is
\* up while the panel is being hidden.
Fit(r, news) ==
  /\ r.button => IF r.have THEN r.mapped \/ news # <<>> \/ Has(r.calls, "Show")
                 ELSE r.pinged
  /\ r.anim = "hide" => ~r.button
  /\ ~r.have => ~r.mapped

Fits == \A p \in Panels : Fit(panel[p], events[p]) /\ (panel[p].have => p \in up)

\* A toggle leaves every panel fit, whatever news it has.
LEMMA TurnsToFits ==
  ASSUME NEW x \in [Panels -> Slots], NEW p \in Panels, NEW r \in Slots,
         NEW byUser \in BOOLEAN, panel' = TurnsTo(x, p, r, byUser),
         \A q \in Panels \ {p} : ~x[q].have => ~x[q].mapped,
         ~r.have => ~r.mapped, Tame(r), r.anim = "hide" => ~r.button,
         byUser /\ ~r.button /\ ~r.have => r.pinged
  PROVE  \A q \in Panels : \A news : Fit(panel'[q], news)
<1>1. /\ \A q \in Panels \ {p} : panel'[q] = TurnedFrom(x[q])
      /\ panel'[p] = Own(r, byUser)
  BY DEF TurnsTo
<1>2. ASSUME NEW q \in Panels \ {p} PROVE \A news : Fit(panel'[q], news)
  <2>1. x[q] \in Slots /\ panel'[q] = TurnedFrom(x[q])
    BY <1>1
  <2>2. /\ ~panel'[q].button /\ panel'[q].have = x[q].have
        /\ panel'[q].mapped = x[q].mapped
    BY <2>1, TurnedFromFields
  <2>. QED  BY <2>2 DEF Fit
<1>3. \A news : Fit(panel'[p], news)
  <2>. DEFINE o == Own(r, byUser)
  <2>1. CASE r.button /\ r.have /\ ~r.mapped /\ o = ShowCall(r)
    <3>1. r.anim = "none"
      BY <2>1 DEF Tame
    <3>2. Has(o.calls, "Show") /\ o.have /\ o.anim = "none"
      BY <2>1, <3>1, ShowCallFields
    <3>. QED  BY <1>1, <3>2 DEF Fit
  <2>2. CASE ~r.button /\ Mapped(r) /\ o = HideCall(r)
    <3>1. ~o.button /\ o.have
      BY <2>2, HideCallFields DEF Mapped
    <3>. QED  BY <1>1, <3>1 DEF Fit
  <2>3. CASE ~r.have
    <3>1. r.anim = "none" /\ ~r.mapped
      BY <2>3 DEF Tame
    <3>2. CASE r.button /\ o = [r EXCEPT !.pinged = TRUE]
      <4>1. o.pinged /\ ~o.have /\ ~o.mapped /\ o.anim = "none"
        BY <2>3, <3>1, <3>2 DEF Slots
      <4>. QED  BY <1>1, <4>1 DEF Fit
    <3>3. CASE r.button /\ o = [r EXCEPT !.button = FALSE]
      <4>1. ~o.button /\ ~o.have /\ ~o.mapped
        BY <2>3, <3>1, <3>3 DEF Slots
      <4>. QED  BY <1>1, <4>1 DEF Fit
    <3>4. CASE ~r.button /\ byUser /\ o = [r EXCEPT !.button = TRUE]
      <4>1. o.pinged /\ ~o.have /\ ~o.mapped /\ o.anim = "none"
        BY <2>3, <3>1, <3>4 DEF Slots
      <4>. QED  BY <1>1, <4>1 DEF Fit
    <3>5. CASE o = r /\ ~r.button
      BY <1>1, <3>1, <3>5 DEF Fit
    <3>. HIDE DEF o
    <3>. QED  BY <2>3, <3>2, <3>3, <3>4, <3>5, OwnCases DEF o, Mapped
  <2>4. CASE r.have /\ (r.button <=> Mapped(r)) /\ o = r
    BY <1>1, <2>4 DEF Fit, Mapped
  <2>. HIDE DEF o
  <2>. QED  BY <2>1, <2>2, <2>3, <2>4, OwnCases DEF o
<1>. QED  BY <1>2, <1>3

\* Steps that touch one panel at most.
LEMMA FitsKept ==
  ASSUME Fits, up' = up, NEW p \in Panels,
         \A q \in Panels \ {p} : panel'[q] = panel[q] /\ events'[q] = events[q],
         panel'[p].have = panel[p].have,
         Fit(panel'[p], events'[p])
  PROVE  Fits'
<1>. SUFFICES ASSUME NEW q \in Panels
              PROVE  Fit(panel'[q], events'[q]) /\ (panel'[q].have => q \in up')
  BY DEF Fits
<1>1. Fit(panel[q], events[q]) /\ (panel[q].have => q \in up)
  BY DEF Fits
<1>. QED  BY <1>1

\* Steps that toggle a button.
LEMMA FitsToggled ==
  ASSUME Fits, up' = up, \A q \in Panels : panel'[q].have = panel[q].have,
         \A q \in Panels : \A news : Fit(panel'[q], news)
  PROVE  Fits'
BY DEF Fits

LEMMA TurnsToHave ==
  ASSUME NEW x \in [Panels -> Slots], NEW p \in Panels, NEW r \in Slots,
         NEW byUser \in BOOLEAN, panel' = TurnsTo(x, p, r, byUser)
  PROVE  /\ \A q \in Panels \ {p} : panel'[q].have = x[q].have
         /\ panel'[p].have = r.have
<1>1. /\ \A q \in Panels \ {p} : panel'[q] = TurnedFrom(x[q])
      /\ panel'[p] = Own(r, byUser)
  BY DEF TurnsTo
<1>2. ASSUME NEW q \in Panels \ {p} PROVE panel'[q].have = x[q].have
  <2>1. x[q] \in Slots
    OBVIOUS
  <2>. QED  BY <1>1, <2>1, TurnedFromFields
<1>. QED  BY <1>1, <1>2, OwnType

LEMMA InitFits == Init => Fits
<1>. SUFFICES ASSUME Init, NEW p \in Panels
              PROVE  Fit(panel[p], events[p]) /\ (panel[p].have => p \in up)
  BY DEF Fits
<1>1. /\ ~panel[p].button /\ ~panel[p].mapped /\ panel[p].anim = "none"
      /\ panel[p].have => p \in up
  BY DEF Init
<1>. QED  BY <1>1 DEF Fit

LEMMA ClickFits ==
  ASSUME "reclick" \notin Uses, TypeOK, Beliefs, Fits, NEW p \in Panels, Click(p)
  PROVE  Fits'
<1>. DEFINE r == [panel[p] EXCEPT !.button = ~panel[p].button]
<1>1. /\ r \in Slots /\ panel' = TurnsTo(panel, p, r, TRUE)
      /\ UNCHANGED <<up, window, events>>
  BY ClickPanel
<1>2. panel \in [Panels -> Slots] /\ panel[p] \in Slots
  BY DEF TypeOK
<1>3. /\ r.have = panel[p].have /\ r.mapped = panel[p].mapped /\ r.anim = panel[p].anim
      /\ r.button = ~panel[p].button /\ r.pinged = panel[p].pinged
  BY <1>2 DEF Slots
<1>. HIDE DEF r
<1>4. r.anim # "hide" /\ Tame(r)
  BY <1>3, BeliefsTame DEF Click, Tame
<1>5. \A q \in Panels : Fit(panel[q], events[q])
  BY DEF Fits
<1>6. ~r.button /\ ~r.have => r.pinged
  BY <1>2, <1>3, <1>5 DEF Fit, Slots
<1>7. \A q \in Panels : ~panel[q].have => ~panel[q].mapped
  BY <1>5 DEF Fit
<1>8. \A q \in Panels : \A news : Fit(panel'[q], news)
  BY <1>1, <1>2, <1>3, <1>4, <1>6, <1>7, TurnsToFits
<1>9. \A q \in Panels : panel'[q].have = panel[q].have
  BY <1>1, <1>2, <1>3, TurnsToHave, ZenonT(60)
<1>. QED  BY <1>1, <1>8, <1>9, FitsToggled

LEMMA ActivateFits ==
  ASSUME TypeOK, Beliefs, Fits, NEW p \in Panels, Activate(p)
  PROVE  Fits'
<1>. DEFINE o == Others(p)
<1>1. /\ o \in [Panels -> Slots] /\ o[p] = panel[p] /\ panel \in [Panels -> Slots]
      /\ \A q \in Panels \ {p} : o[q] = IF Mapped(panel[q]) THEN HideCall(panel[q])
                                        ELSE panel[q]
  BY OthersType DEF TypeOK
<1>2. /\ UNCHANGED <<up, events>> /\ ~Mapped(panel[p])
      /\ IF panel[p].have
         THEN panel' = [o EXCEPT ![p] = ShowCall(panel[p])]
         ELSE \/ panel' = o
              \/ panel' = TurnsTo(o, p, [panel[p] EXCEPT !.button = TRUE], FALSE)
  BY ActivatePanel
<1>. HIDE DEF o
<1>3. \A q \in Panels : Fit(panel[q], events[q]) /\ (panel[q].have => q \in up)
  BY DEF Fits
<1>4. \A q \in Panels : /\ Fit(o[q], events[q]) /\ o[q].have = panel[q].have
                        /\ o[q].mapped = panel[q].mapped
  <2>. SUFFICES ASSUME NEW q \in Panels
                PROVE  /\ Fit(o[q], events[q]) /\ o[q].have = panel[q].have
                       /\ o[q].mapped = panel[q].mapped
    OBVIOUS
  <2>1. panel[q] \in Slots /\ Fit(panel[q], events[q])
    BY <1>1, <1>3
  <2>2. CASE Mapped(panel[q]) /\ o[q] = HideCall(panel[q])
    <3>1. /\ o[q].button = panel[q].button /\ o[q].have = panel[q].have
          /\ o[q].mapped = panel[q].mapped /\ o[q].anim = panel[q].anim
      BY <2>1, <2>2, HideCallFields
    <3>. QED  BY <2>1, <2>2, <3>1 DEF Fit, Mapped
  <2>3. CASE o[q] = panel[q]
    BY <2>1, <2>3
  <2>. QED  BY <1>1, <2>2, <2>3
<1>5. CASE panel[p].have
  <2>1. panel[p] \in Slots /\ ~panel[p].mapped /\ panel[p].anim = "none"
    BY <1>1, <1>2, <1>5, BeliefsTame DEF Mapped, Tame
  <2>2. /\ panel'[p] = ShowCall(panel[p])
        /\ \A q \in Panels \ {p} : panel'[q] = o[q]
    BY <1>1, <1>2, <1>5
  <2>3. /\ panel'[p].have = panel[p].have /\ Has(panel'[p].calls, "Show")
        /\ panel'[p].anim = "none"
    BY <2>1, <2>2, ShowCallFields
  <2>4. Fit(panel'[p], events[p])
    BY <1>5, <2>3 DEF Fit
  <2>. QED  BY <1>2, <1>3, <1>4, <2>2, <2>3, <2>4 DEF Fits
<1>6. CASE panel' = o
  BY <1>2, <1>3, <1>4, <1>6 DEF Fits
<1>7. CASE ~panel[p].have /\ panel' = TurnsTo(o, p, [panel[p] EXCEPT !.button = TRUE], FALSE)
  <2>. DEFINE r == [panel[p] EXCEPT !.button = TRUE]
  <2>1. /\ r \in Slots /\ r.have = panel[p].have /\ r.mapped = panel[p].mapped
        /\ r.anim = panel[p].anim
    BY <1>1 DEF Slots
  <2>2. panel' = TurnsTo(o, p, r, FALSE)
    BY <1>7
  <2>. HIDE DEF r
  <2>3. ~r.mapped /\ r.anim = "none" /\ Tame(r)
    BY <1>3, <1>7, <2>1, BeliefsTame DEF Fit, Tame
  <2>4. \A q \in Panels \ {p} : ~o[q].have => ~o[q].mapped
    BY <1>4 DEF Fit
  <2>5. \A q \in Panels : \A news : Fit(panel'[q], news)
    BY <1>1, <2>1, <2>2, <2>3, <2>4, TurnsToFits
  <2>6. \A q \in Panels : panel'[q].have = panel[q].have
    <3>1. panel'[p].have = r.have /\ \A q \in Panels \ {p} : panel'[q].have = o[q].have
      BY <1>1, <2>1, <2>2, TurnsToHave
    <3>. QED  BY <1>4, <2>1, <3>1
  <2>. QED  BY <1>2, <2>5, <2>6, FitsToggled
<1>. QED  BY <1>2, <1>5, <1>6, <1>7

LEMMA HidePanelFits ==
  ASSUME TypeOK, Fits, NEW p \in Panels, HidePanel(p)
  PROVE  Fits'
<1>1. panel \in [Panels -> Slots] /\ panel[p] \in Slots
  BY DEF TypeOK
<1>2. /\ panel'[p] = HideCall(panel[p]) /\ Mapped(panel[p])
      /\ \A q \in Panels \ {p} : panel'[q] = panel[q] /\ events'[q] = events[q]
      /\ up' = up
  BY <1>1 DEF HidePanel
<1>3. /\ panel'[p].button = panel[p].button /\ panel'[p].have = panel[p].have
      /\ panel'[p].mapped = panel[p].mapped /\ panel'[p].anim = panel[p].anim
  BY <1>1, <1>2, HideCallFields
<1>4. Fit(panel'[p], events'[p])
  BY <1>2, <1>3 DEF Fits, Fit, Mapped
<1>. QED  BY <1>2, <1>3, <1>4, FitsKept

LEMMA HandleCallFits ==
  ASSUME TypeOK, Beliefs, Fits, NEW p \in Panels, HandleCall(p)
  PROVE  Fits'
<1>. DEFINE on == Head(panel[p].calls) = "Show"
<1>1. /\ \A q \in Panels \ {p} : panel'[q] = panel[q]
      /\ panel[p] \in Slots /\ SetWindow(p, on) /\ up' = up
      /\ \A c : Has(panel[p].calls, c) <=>
                   Head(panel[p].calls) = c \/ Has(panel'[p].calls, c)
      /\ Head(panel[p].calls) \in {"Show", "Hide"}
  BY HandleCallPanel
<1>2. /\ panel'[p].button = panel[p].button /\ panel'[p].have = panel[p].have
      /\ panel'[p].mapped = panel[p].mapped /\ panel'[p].anim = panel[p].anim
      /\ panel'[p].pinged = panel[p].pinged
  BY HandleCallPanel
<1>3. on \in BOOLEAN
  OBVIOUS
<1>4. /\ \A q \in Panels \ {p} : events'[q] = events[q]
      /\ events'[p] = <<>> => events[p] = <<>> /\ (p \in window <=> on)
  BY <1>1, <1>3, WindowSet
<1>5. Fit(panel[p], events[p]) /\ Belief(p)
  BY DEF Fits, Beliefs
<1>6. Fit(panel'[p], events'[p])
  <2>. SUFFICES ASSUME panel[p].button, panel[p].have, ~panel[p].mapped,
                       events'[p] = <<>>, ~Has(panel'[p].calls, "Show")
                PROVE  FALSE
    BY <1>2, <1>5 DEF Fit
  <2>1. events[p] = <<>> /\ (p \in window <=> on)
    BY <1>4
  <2>2. Has(panel[p].calls, "Show")
    BY <1>5, <2>1 DEF Fit
  <2>3. p \in window
    BY <1>1, <2>1, <2>2
  <2>4. ~Knows(panel[p])
    BY DEF Knows
  <2>5. Coherent(Knows(panel[p]), events[p], p \in window)
    BY <1>5 DEF Belief
  <2>. QED  BY <2>1, <2>3, <2>4, <2>5 DEF Coherent
<1>. QED  BY <1>1, <1>2, <1>4, <1>6, FitsKept

LEMMA MoveItselfFits ==
  ASSUME TypeOK, Fits, NEW p \in Panels, NEW on \in BOOLEAN, MoveItself(p, on)
  PROVE  Fits'
<1>1. SetWindow(p, on) /\ panel' = panel /\ up' = up
  BY DEF MoveItself
<1>2. /\ \A q \in Panels \ {p} : events'[q] = events[q]
      /\ events'[p] = <<>> => events[p] = <<>>
  BY <1>1, WindowSet
<1>3. Fit(panel'[p], events'[p])
  BY <1>1, <1>2 DEF Fits, Fit
<1>. QED  BY <1>1, <1>2, <1>3, FitsKept

LEMMA AppearsFits ==
  ASSUME TypeOK, Fits, NEW p \in Panels, Appears(p)
  PROVE  Fits'
<1>1. PICK r \in Slots :
           /\ panel' = [panel EXCEPT ![p] = r]
           /\ r.button = panel[p].button /\ r.have /\ r.anim = "none"
           /\ \A c : Has(r.calls, c) <=> panel[p].pinged /\ c = "Show"
  BY AppearsPanel
<1>2. /\ events' = events /\ up' = up \cup {p} /\ ~panel[p].have
      /\ panel'[p] = r /\ \A q \in Panels \ {p} : panel'[q] = panel[q]
  BY <1>1 DEF Appears, TypeOK
<1>3. \A q \in Panels : Fit(panel[q], events[q]) /\ (panel[q].have => q \in up)
  BY DEF Fits
<1>4. Fit(panel'[p], events'[p])
  BY <1>1, <1>2, <1>3 DEF Fit
<1>. QED  BY <1>2, <1>3, <1>4 DEF Fits

LEMMA WindowMappedFits ==
  ASSUME ~Modal, TypeOK, Beliefs, Fits, NEW p \in Panels, WindowMapped(p)
  PROVE  Fits'
<1>1. /\ News(p, "map") /\ up' = up
      /\ panel' = [panel EXCEPT ![p].mapped = TRUE, ![p].anim = "show"]
  BY DEF WindowMapped
<1>2. \A q \in Panels \ {p} : events'[q] = events[q] /\ panel'[q] = panel[q]
  BY <1>1, NewsType DEF TypeOK
<1>3. /\ panel'[p].have = panel[p].have /\ panel'[p].mapped /\ panel'[p].anim = "show"
  BY <1>1 DEF TypeOK, Slots
<1>4. panel[p].have
  BY <1>1, NewsType DEF Beliefs, Belief
<1>5. Fit(panel'[p], events'[p])
  BY <1>3, <1>4 DEF Fit
<1>. QED  BY <1>1, <1>2, <1>3, <1>5, FitsKept

LEMMA ShowCompletedFits ==
  ASSUME TypeOK, Beliefs, Fits, NEW p \in Panels, ShowCompleted(p)
  PROVE  Fits'
<1>1. PICK r \in Slots :
           /\ r = [panel[p] EXCEPT !.anim = "none", !.dontHide = FALSE]
           /\ panel[p].anim = "show" /\ UNCHANGED <<up, window, events>>
           /\ \/ panel[p].button /\ panel' = [panel EXCEPT ![p] = r]
              \/ /\ ~panel[p].button
                 /\ panel' = TurnsTo(panel, p, [r EXCEPT !.button = TRUE], FALSE)
  BY ShowCompletedPanel
<1>2. panel \in [Panels -> Slots] /\ panel[p] \in Slots
  BY DEF TypeOK
<1>3. /\ r.button = panel[p].button /\ r.have = panel[p].have
      /\ r.mapped = panel[p].mapped /\ r.anim = "none"
  BY <1>1, <1>2 DEF Slots
<1>4. \A q \in Panels : Fit(panel[q], events[q])
  BY DEF Fits
<1>5. panel[p].mapped /\ panel[p].have
  BY <1>1, <1>4, BeliefsTame DEF Tame, Fit
<1>6. CASE panel[p].button /\ panel' = [panel EXCEPT ![p] = r]
  <2>1. panel'[p] = r /\ \A q \in Panels \ {p} : panel'[q] = panel[q]
    BY <1>2, <1>6
  <2>2. Fit(panel'[p], events'[p])
    BY <1>3, <1>5, <2>1 DEF Fit
  <2>. QED  BY <1>1, <1>3, <2>1, <2>2, FitsKept
<1>7. CASE panel' = TurnsTo(panel, p, [r EXCEPT !.button = TRUE], FALSE)
  <2>. DEFINE t == [r EXCEPT !.button = TRUE]
  <2>1. t \in Slots /\ t.have = panel[p].have /\ t.anim = "none"
    BY <1>3 DEF Slots
  <2>2. panel' = TurnsTo(panel, p, t, FALSE)
    BY <1>7
  <2>. HIDE DEF t
  <2>3. \A q \in Panels : ~panel[q].have => ~panel[q].mapped
    BY <1>4 DEF Fit
  <2>4. \A q \in Panels : \A news : Fit(panel'[q], news)
    BY <1>2, <1>5, <2>1, <2>2, <2>3, TurnsToFits DEF Tame
  <2>5. \A q \in Panels : panel'[q].have = panel[q].have
    BY <1>2, <2>1, <2>2, TurnsToHave, ZenonT(60)
  <2>. QED  BY <1>1, <2>4, <2>5, FitsToggled
<1>. QED  BY <1>1, <1>6, <1>7

LEMMA WindowUnmappedFits ==
  ASSUME TypeOK, Beliefs, Fits, NEW p \in Panels, WindowUnmapped(p)
  PROVE  Fits'
<1>1. News(p, "unmap") /\ UNCHANGED <<up, window>>
  BY WindowUnmappedPanel
<1>2. panel[p].anim # "hide" /\ panel[p].mapped
  BY <1>1, NewsIsChange DEF Knows
<1>3. PICK r \in Slots :
           /\ r = [panel[p] EXCEPT !.anim = "hide",
                                   !.dontHide = @ /\ panel[p].anim # "show"]
           /\ \/ ~panel[p].button /\ panel' = [panel EXCEPT ![p] = r]
              \/ /\ panel[p].button
                 /\ panel' = TurnsTo(panel, p, [r EXCEPT !.button = FALSE], FALSE)
  BY <1>2, WindowUnmappedPanel
<1>4. panel \in [Panels -> Slots] /\ panel[p] \in Slots
  BY DEF TypeOK
<1>5. /\ r.button = panel[p].button /\ r.have = panel[p].have
      /\ r.mapped = panel[p].mapped /\ r.anim = "hide"
  BY <1>3, <1>4 DEF Slots
<1>6. \A q \in Panels : Fit(panel[q], events[q])
  BY DEF Fits
<1>7. \A q \in Panels \ {p} : events'[q] = events[q]
  BY <1>1, NewsType
<1>8. CASE ~panel[p].button /\ panel' = [panel EXCEPT ![p] = r]
  <2>1. panel'[p] = r /\ \A q \in Panels \ {p} : panel'[q] = panel[q]
    BY <1>4, <1>8
  <2>2. Fit(panel'[p], events'[p])
    BY <1>5, <1>6, <1>8, <2>1 DEF Fit
  <2>. QED  BY <1>1, <1>5, <1>7, <2>1, <2>2, FitsKept
<1>9. CASE panel' = TurnsTo(panel, p, [r EXCEPT !.button = FALSE], FALSE)
  <2>. DEFINE t == [r EXCEPT !.button = FALSE]
  <2>1. /\ t \in Slots /\ t.have = panel[p].have /\ t.mapped = panel[p].mapped
        /\ ~t.button
    BY <1>5 DEF Slots
  <2>2. panel' = TurnsTo(panel, p, t, FALSE)
    BY <1>9
  <2>. HIDE DEF t
  <2>3. \A q \in Panels : ~panel[q].have => ~panel[q].mapped
    BY <1>6 DEF Fit
  <2>4. \A q \in Panels : \A news : Fit(panel'[q], news)
    BY <1>2, <1>4, <2>1, <2>2, <2>3, TurnsToFits DEF Tame
  <2>5. \A q \in Panels : panel'[q].have = panel[q].have
    BY <1>4, <2>1, <2>2, TurnsToHave
  <2>. QED  BY <1>1, <2>4, <2>5, FitsToggled
<1>. QED  BY <1>3, <1>8, <1>9

LEMMA HideCompletedFits ==
  ASSUME TypeOK, Fits, NEW p \in Panels, HideCompleted(p)
  PROVE  Fits'
<1>1. /\ panel' \in [Panels -> Slots] /\ UNCHANGED <<up, window, events>>
      /\ panel[p].anim = "hide"
      /\ panel'[p] = [panel[p] EXCEPT !.anim = "none", !.mapped = FALSE]
      /\ \A q \in Panels \ {p} : panel'[q] = panel[q]
  BY HideCompletedPanel
<1>2. panel[p] \in Slots
  BY DEF TypeOK
<1>3. /\ panel'[p].button = panel[p].button /\ panel'[p].have = panel[p].have
      /\ ~panel'[p].mapped /\ panel'[p].anim = "none"
  BY <1>1, <1>2 DEF Slots
<1>4. ~panel[p].button
  BY <1>1 DEF Fits, Fit
<1>5. Fit(panel'[p], events'[p])
  BY <1>3, <1>4 DEF Fit
<1>. QED  BY <1>1, <1>3, <1>5, FitsKept

LEMMA StubTimeoutFits ==
  ASSUME TypeOK, Beliefs, Fits, StubTimeout
  PROVE  Fits'
<1>1. UNCHANGED <<up, window, events>>
  BY StubTimeoutPanel
<1>2. panel \in [Panels -> Slots]
  BY DEF TypeOK
<1>3. CASE panel' = panel
  BY <1>1, <1>3 DEF Fits
<1>4. ASSUME NEW p \in Panels, NEW r \in Slots,
             r = [panel[p] EXCEPT !.pinged = FALSE, !.failed = TRUE],
             panel' = TurnsTo(panel, p, [r EXCEPT !.button = FALSE], FALSE)
      PROVE  Fits'
  <2>. DEFINE t == [r EXCEPT !.button = FALSE]
  <2>1. /\ t \in Slots /\ t.have = panel[p].have /\ t.mapped = panel[p].mapped
        /\ t.anim = panel[p].anim /\ ~t.button
    BY <1>2, <1>4 DEF Slots
  <2>2. panel' = TurnsTo(panel, p, t, FALSE)
    BY <1>4
  <2>. HIDE DEF t
  <2>3. \A q \in Panels : ~panel[q].have => ~panel[q].mapped
    BY DEF Fits, Fit
  <2>4. Tame(t)
    BY <2>1, BeliefsTame DEF Tame
  <2>5. \A q \in Panels : \A news : Fit(panel'[q], news)
    BY <1>2, <2>1, <2>2, <2>3, <2>4, TurnsToFits
  <2>6. \A q \in Panels : panel'[q].have = panel[q].have
    BY <1>2, <2>1, <2>2, TurnsToHave, ZenonT(60)
  <2>. QED  BY <1>1, <2>5, <2>6, FitsToggled
<1>. QED  BY <1>3, <1>4, StubTimeoutPanel

\* Nobody dies.
LEMMA NoDeaths ==
  ASSUME MaxDeaths = 0, TypeOK, Fits
  PROVE  \A p \in Panels : ~Die(p) /\ ~Died(p)
<1>1. ~(deaths < MaxDeaths)
  BY DEF TypeOK
<1>2. \A p \in Panels : panel[p].have => p \in up
  BY DEF Fits
<1>. QED  BY <1>1, <1>2 DEF Die, Died

LEMMA FitsStep ==
  ASSUME ~Modal, "reclick" \notin Uses, MaxDeaths = 0
  PROVE  TypeOK /\ Beliefs /\ Fits /\ [Next]_vars => Fits'
<1>. SUFFICES ASSUME TypeOK, Beliefs, Fits, [Next]_vars PROVE Fits'
  OBVIOUS
<1>1. ASSUME NEW p \in Panels, Click(p) PROVE Fits'
  BY <1>1, ClickFits
<1>2. ASSUME NEW p \in Panels, Activate(p) PROVE Fits'
  BY <1>2, ActivateFits
<1>3. ASSUME NEW p \in Panels, HidePanel(p) PROVE Fits'
  BY <1>3, HidePanelFits
<1>4. ASSUME NEW p \in Panels, HandleCall(p) PROVE Fits'
  BY <1>4, HandleCallFits
<1>5. ASSUME NEW p \in Panels, MoveItself(p, TRUE) \/ MoveItself(p, FALSE) PROVE Fits'
  BY <1>5, MoveItselfFits
<1>6. ASSUME NEW p \in Panels, Die(p) \/ Died(p) PROVE Fits'
  BY <1>6, NoDeaths
<1>7. ASSUME NEW p \in Panels, Appears(p) PROVE Fits'
  BY <1>7, AppearsFits
<1>8. ASSUME NEW p \in Panels, WindowMapped(p) PROVE Fits'
  BY <1>8, WindowMappedFits
<1>9. ASSUME NEW p \in Panels, ShowCompleted(p) PROVE Fits'
  BY <1>9, ShowCompletedFits
<1>10. ASSUME NEW p \in Panels, WindowUnmapped(p) PROVE Fits'
  BY <1>10, WindowUnmappedFits
<1>11. ASSUME NEW p \in Panels, HideCompleted(p) PROVE Fits'
  BY <1>11, HideCompletedFits
<1>12. CASE WaitTimeout
  <2>1. UNCHANGED <<panel, up, events>>
    BY <1>12 DEF WaitTimeout, Become, StopWaiting, State
  <2>. QED  BY <2>1 DEF Fits
<1>13. CASE StubTimeout
  BY <1>13, StubTimeoutFits
<1>14. CASE UNCHANGED vars
  BY <1>14 DEF vars, Fits
<1>. QED  BY <1>1, <1>2, <1>3, <1>4, <1>5, <1>6, <1>7, <1>8, <1>9, <1>10, <1>11,
             <1>12, <1>13, <1>14 DEF Next

LEMMA FitsSuffice == TypeOK /\ OneDown /\ Fits => ButtonMatches
<1>. SUFFICES ASSUME TypeOK, OneDown, Fits, Quiet, NEW p \in Panels, panel[p].have
              PROVE  panel[p].button <=> panel[p].mapped
  BY DEF ButtonMatches
<1>1. panel[p].calls = <<>> /\ events[p] = <<>> /\ panel[p].anim = "none"
  BY DEF Quiet
<1>2. ~Has(panel[p].calls, "Show") /\ ~Has(panel[p].calls, "Hide")
  BY <1>1, HasNone
<1>3. panel[p].button => panel[p].mapped
  BY <1>1, <1>2 DEF Fits, Fit
<1>4. panel[p].mapped => panel[p].button
  BY <1>1, <1>2 DEF OneDown, RestDown, Rests, Mapped
<1>. QED  BY <1>3, <1>4 DEF TypeOK, Slots

LEMMA ShowFits ==
  ASSUME ~Modal, "reclick" \notin Uses, MaxDeaths = 0
  PROVE  Spec => []Fits
<1>1. TypeOK /\ Beliefs /\ Fits /\ [Next]_vars => Fits'
  BY FitsStep
<1>. QED  BY <1>1, InitFits, ShowTypeCorrect, ShowBeliefs, PTL DEF Spec

\* Where no modal window stands in the way, nobody clicks on the button of a panel
\* that is being hidden, and no panel's process dies, buttons and panels agree when
\* all is quiet, however requests overlap (mnb_toolbar_button_toggled_cb and the
\* handlers of mnb-panel-oop.c that toggle buttons again).
THEOREM ShowButtonMatches ==
  ASSUME ~Modal, "reclick" \notin Uses, MaxDeaths = 0
  PROVE  Spec => []ButtonMatches
<1>1. TypeOK /\ OneDown /\ Fits => ButtonMatches
  BY FitsSuffice
<1>. QED  BY <1>1, ShowTypeCorrect, ShowOneDown, ShowFits, PTL

-----------------------------------------------------------------------------
(***************************************************************************)
(* Where one request is made at a time, the panel asked for last comes.    *)
(***************************************************************************)
\* A panel is on its way to the screen, or off it.
Rising(r, news) == IF r.have THEN Has(r.calls, "Show") \/ Has(news, "map") \/ r.anim = "show"
                   ELSE r.pinged
Hiding(r, news) == r.have /\ (Has(r.calls, "Hide") \/ Has(news, "unmap") \/ r.anim = "hide")
Goes(p) == Rising(panel[p], events[p])
Leaves(p) == Hiding(panel[p], events[p])

\* Only the panel that is wanted comes, and it does: it is on the screen or on its
\* way there; a panel that leaves with its button down leaves the screen empty.
OnlyWantedGoes == \A q \in Panels : Goes(q) => wanted = q
WantedComes == wanted # None => ~Leaves(wanted) /\ (Mapped(panel[wanted]) \/ Goes(wanted))
LeavesAlone == \A q \in Panels :
  Leaves(q) /\ panel[q].button =>
    wanted = None /\ \A r \in Panels \ {q} : ~Mapped(panel[r])

\* A panel that waits for its process is the one the timeout is about.
PingIsTimed ==
  /\ \A q \in Panels : ~panel[q].have /\ panel[q].pinged =>
                         bar.stubTimer /\ bar.stub = q /\ panel[q].button
  /\ bar.stubTimer => bar.stub # None /\ ~panel[bar.stub].have /\ panel[bar.stub].pinged

\* The panel is told that it is the shell that hides it exactly if it is.
Tells(r, news, said) ==
  /\ Mapped(r) /\ Has(r.calls, "Hide") => r.dontHide
  /\ (r.have /\ Has(news, "unmap")) \/ r.anim = "hide" => (r.dontHide <=> said)
  /\ Rests(r) /\ news = <<>> => ~r.dontHide /\ ~said
  /\ r.anim = "show" \/ Has(news, "map") => ~said
  /\ r.have /\ Has(news, "unmap") /\ ~said => r.button
AllTell == \A p \in Panels : Tells(panel[p], events[p], p \in told)

Course == OnlyWantedGoes /\ WantedComes /\ LeavesAlone /\ PingIsTimed /\ AllTell

\* What is known of every state where one request is made at a time.
Known == TypeOK /\ Beliefs /\ OneDown /\ Fits

\* Being turned from takes no panel to the screen and tells it what it is told.
LEMMA TurnedFromCourse ==
  ASSUME NEW r \in Slots, NEW news, NEW said \in BOOLEAN, Tells(r, news, said),
         ~(Hiding(r, news) /\ r.button)
  PROVE  /\ Tells(TurnedFrom(r), news, said)
         /\ Rising(TurnedFrom(r), news) => Rising(r, news)
         /\ Mapped(TurnedFrom(r)) <=> Mapped(r)
         /\ ~TurnedFrom(r).button /\ ~TurnedFrom(r).pinged
<1>. DEFINE t == TurnedFrom(r)
<1>1. /\ t \in Slots
      /\ ~t.button /\ ~t.pinged
      /\ t.have = r.have /\ t.failed = r.failed
      /\ t.mapped = r.mapped /\ t.anim = r.anim
      /\ Mapped(r) /\ r.anim # "hide" =>
           t.dontHide /\ \A c : Has(t.calls, c) <=> Has(r.calls, c) \/ c = "Hide"
      /\ ~(Mapped(r) /\ r.anim # "hide") => t.dontHide = r.dontHide /\ t.calls = r.calls
  BY TurnedFromFields
<1>. HIDE DEF t
<1>2. (Mapped(t) <=> Mapped(r)) /\ (Rising(t, news) => Rising(r, news))
  BY <1>1 DEF Mapped, Rising
<1>3. r.have /\ Has(news, "unmap") => said
  BY DEF Tells, Hiding
<1>4. CASE Mapped(r) /\ r.anim # "hide"
  <2>1. t.dontHide /\ ~Rests(t) /\ t.anim # "hide"
    BY <1>1, <1>4 DEF Rests
  <2>2. r.anim = "show" \/ Has(news, "map") => ~said
    BY DEF Tells
  <2>. QED  BY <1>1, <1>2, <1>3, <2>1, <2>2 DEF Tells, t
<1>5. CASE ~(Mapped(r) /\ r.anim # "hide")
  <2>1. t.dontHide = r.dontHide /\ t.calls = r.calls
    BY <1>1, <1>5
  <2>2. Rests(t) <=> Rests(r)
    BY <1>1, <1>2, <2>1 DEF Rests
  <2>. QED  BY <1>1, <1>2, <1>3, <2>1, <2>2 DEF Tells, t
<1>. QED  BY <1>4, <1>5

\* When all is quiet every panel is on the screen with its button down or is not
\* there with its button up, at most one is, and none waits for its process.
LEMMA QuietSlot ==
  ASSUME Known, Course, Quiet, NEW q \in Panels
  PROVE  /\ panel[q] \in Slots /\ events[q] = <<>> /\ panel[q].anim = "none"
         /\ \A c : ~Has(panel[q].calls, c) /\ ~Has(events[q], c)
         /\ panel[q].button <=> Mapped(panel[q])
         /\ panel[q].have => (panel[q].mapped <=> q \in window)
         /\ Mapped(panel[q]) => ~panel[q].dontHide /\ q \notin told
         /\ ~panel[q].have => ~panel[q].pinged /\ ~panel[q].mapped
         /\ ~Goes(q) /\ ~Leaves(q) /\ ~bar.stubTimer
<1>1. /\ panel[q] \in Slots /\ panel[q].calls = <<>> /\ events[q] = <<>>
      /\ panel[q].anim = "none" /\ ~bar.stubTimer
  BY DEF Known, TypeOK, Quiet
<1>2. \A c : ~Has(panel[q].calls, c) /\ ~Has(events[q], c)
  BY <1>1, HasNone
<1>3. panel[q].have => (panel[q].mapped <=> q \in window)
  BY BeliefsSuffice DEF Known, MappedIsWindow
<1>4. ~panel[q].have => ~panel[q].pinged /\ ~panel[q].mapped
  BY <1>1 DEF Known, Fits, Fit, Course, PingIsTimed
<1>5. panel[q].button <=> Mapped(panel[q])
  <2>1. panel[q].have => (panel[q].button <=> panel[q].mapped)
    BY FitsSuffice DEF Known, ButtonMatches
  <2>2. ~panel[q].have => ~panel[q].button
    BY <1>4 DEF Known, Fits, Fit
  <2>. QED  BY <2>1, <2>2 DEF Mapped
<1>6. Mapped(panel[q]) => ~panel[q].dontHide /\ q \notin told
  <2>1. Tells(panel[q], events[q], q \in told)
    BY DEF Course, AllTell
  <2>. QED  BY <1>1, <1>2, <2>1 DEF Tells, Rests
<1>7. ~Goes(q) /\ ~Leaves(q)
  BY <1>1, <1>2, <1>4 DEF Goes, Leaves, Rising, Hiding
<1>. QED  BY <1>1, <1>2, <1>3, <1>4, <1>5, <1>6, <1>7

\* ... and the screen is the wanted panel's.
LEMMA QuietScreen ==
  ASSUME Known, Course, Quiet, NEW q \in Panels, Mapped(panel[q])
  PROVE  /\ wanted \in {q, None}
         /\ \A r \in Panels \ {q} : ~Mapped(panel[r])
<1>1. \A r \in Panels : Mapped(panel[r]) => panel[r].button
  BY QuietSlot
<1>2. \A r \in Panels \ {q} : ~Mapped(panel[r])
  BY <1>1 DEF Known, OneDown, OneButton
<1>3. wanted \in Panels \cup {None}
  BY DEF Known, TypeOK
<1>4. CASE wanted # None
  <2>1. wanted \in Panels
    BY <1>3, <1>4
  <2>2. ~Goes(wanted)
    BY <2>1, QuietSlot
  <2>. QED  BY <1>2, <1>4, <2>1, <2>2 DEF Course, WantedComes
<1>. QED  BY <1>2, <1>4

\* Steps of one panel that nobody asks for.
LEMMA CourseKept ==
  ASSUME TypeOK, Course, NEW p \in Panels,
         \A q \in Panels \ {p} : /\ panel'[q] = panel[q] /\ events'[q] = events[q]
                                 /\ q \in told' <=> q \in told,
         wanted' = wanted, bar'.stubTimer <=> bar.stubTimer,
         bar.stubTimer => bar'.stub = bar.stub,
         panel'[p].button = panel[p].button, panel'[p].have = panel[p].have,
         panel'[p].pinged = panel[p].pinged,
         Rising(panel'[p], events'[p]) => wanted = p,
         wanted = p => /\ ~Hiding(panel'[p], events'[p])
                       /\ Mapped(panel'[p]) \/ Rising(panel'[p], events'[p]),
         Hiding(panel'[p], events'[p]) => Leaves(p),
         Mapped(panel'[p]) => Mapped(panel[p]) \/ wanted = p,
         Tells(panel'[p], events'[p], p \in told')
  PROVE  Course'
<1>1. p # None
  BY ShowAssumption
<1>2. \A q \in Panels \ {p} : /\ Rising(panel'[q], events'[q]) <=> Goes(q)
                              /\ Hiding(panel'[q], events'[q]) <=> Leaves(q)
  BY DEF Goes, Leaves
<1>3. OnlyWantedGoes'
  BY <1>2 DEF Course, OnlyWantedGoes, Goes
<1>4. WantedComes'
  <2>. SUFFICES ASSUME wanted # None
                PROVE  /\ ~Hiding(panel'[wanted], events'[wanted])
                       /\ Mapped(panel'[wanted]) \/ Rising(panel'[wanted], events'[wanted])
    BY DEF WantedComes, Goes, Leaves
  <2>1. CASE wanted = p
    BY <2>1
  <2>2. CASE wanted # p
    <3>1. ~Leaves(wanted) /\ (Mapped(panel[wanted]) \/ Goes(wanted))
      BY DEF Course, WantedComes
    <3>2. wanted \in Panels \ {p}
      BY <2>2 DEF TypeOK
    <3>. QED  BY <1>2, <3>1, <3>2
  <2>. QED  BY <2>1, <2>2
<1>5. LeavesAlone'
  <2>. SUFFICES ASSUME NEW q \in Panels, Hiding(panel'[q], events'[q]), panel'[q].button
                PROVE  wanted = None /\ \A r \in Panels \ {q} : ~Mapped(panel'[r])
    BY DEF LeavesAlone, Leaves
  <2>1. Leaves(q) /\ panel[q].button
    BY <1>2
  <2>2. wanted = None /\ \A r \in Panels \ {q} : ~Mapped(panel[r])
    BY <2>1 DEF Course, LeavesAlone
  <2>. QED  BY <1>1, <2>2
<1>6. PingIsTimed'
  <2>1. \A q \in Panels : /\ panel'[q].have = panel[q].have
                          /\ panel'[q].pinged = panel[q].pinged
                          /\ panel'[q].button = panel[q].button
    OBVIOUS
  <2>2. bar.stub # None => bar.stub \in Panels
    BY DEF TypeOK, Bars
  <2>. QED  BY <2>1, <2>2 DEF Course, PingIsTimed
<1>7. AllTell'
  <2>. SUFFICES ASSUME NEW q \in Panels PROVE Tells(panel'[q], events'[q], q \in told')
    BY DEF AllTell
  <2>1. CASE q = p
    BY <2>1
  <2>2. CASE q # p
    <3>1. Tells(panel[q], events[q], q \in told)
      BY DEF Course, AllTell
    <3>2. /\ panel'[q] = panel[q] /\ events'[q] = events[q]
          /\ (q \in told') = (q \in told)
      BY <2>2
    <3>. QED  BY <3>1, <3>2
  <2>. QED  BY <2>1, <2>2
<1>. QED  BY <1>3, <1>4, <1>5, <1>6, <1>7 DEF Course

-----------------------------------------------------------------------------
\* Steps that toggle the button of p.
LEMMA CourseTurned ==
  ASSUME TypeOK, Course, NEW p \in Panels, NEW r \in Slots, NEW byUser \in BOOLEAN,
         panel' = TurnsTo(panel, p, r, byUser), told' = told,
         \A q \in Panels \ {p} : events'[q] = events[q],
         \A q \in Panels \ {p} : ~(Leaves(q) /\ panel[q].button),
         \A q \in Panels \ {p} : Goes(q) => wanted' = q,
         Rising(panel'[p], events'[p]) => wanted' = p,
         wanted' # None => /\ wanted' = p /\ ~Hiding(panel'[p], events'[p])
                           /\ Mapped(panel'[p]) \/ Rising(panel'[p], events'[p]),
         ~(Hiding(panel'[p], events'[p]) /\ panel'[p].button),
         ~panel'[p].have /\ panel'[p].pinged =>
           bar'.stubTimer /\ bar'.stub = p /\ panel'[p].button,
         bar'.stubTimer => bar'.stub = p /\ ~panel'[p].have /\ panel'[p].pinged,
         Tells(panel'[p], events'[p], p \in told)
  PROVE  Course'
<1>1. p # None
  BY ShowAssumption
<1>2. ASSUME NEW q \in Panels \ {p}
      PROVE  /\ ~panel'[q].button /\ ~panel'[q].pinged
             /\ Rising(panel'[q], events'[q]) => Goes(q)
             /\ Tells(panel'[q], events'[q], q \in told')
  <2>1. panel[q] \in Slots /\ panel'[q] = TurnedFrom(panel[q])
    BY DEF TypeOK, TurnsTo
  <2>2. Tells(panel[q], events[q], q \in told)
    BY DEF Course, AllTell
  <2>3. ~(Hiding(panel[q], events[q]) /\ panel[q].button)
    BY DEF Leaves
  <2>4. (q \in told) \in BOOLEAN
    OBVIOUS
  <2>5. /\ Tells(TurnedFrom(panel[q]), events[q], q \in told)
        /\ Rising(TurnedFrom(panel[q]), events[q]) => Rising(panel[q], events[q])
        /\ ~TurnedFrom(panel[q]).button /\ ~TurnedFrom(panel[q]).pinged
    BY <2>1, <2>2, <2>3, <2>4, TurnedFromCourse
  <2>6. events'[q] = events[q] /\ (q \in told') = (q \in told)
    OBVIOUS
  <2>. QED  BY <2>1, <2>5, <2>6 DEF Goes
<1>3. OnlyWantedGoes'
  BY <1>2 DEF OnlyWantedGoes, Goes
<1>4. WantedComes'
  BY DEF WantedComes, Goes, Leaves
<1>5. LeavesAlone'
  BY <1>2 DEF LeavesAlone, Leaves
<1>6. PingIsTimed'
  BY <1>1, <1>2 DEF PingIsTimed
<1>7. AllTell'
  <2>. SUFFICES ASSUME NEW q \in Panels PROVE Tells(panel'[q], events'[q], q \in told')
    BY DEF AllTell
  <2>. QED  BY <1>2
<1>. QED  BY <1>3, <1>4, <1>5, <1>6, <1>7 DEF Course

\* Requests that do not toggle a button at once.
LEMMA CourseMoved ==
  ASSUME Known, Course, Quiet, NEW p \in Panels, bar' = bar,
         \A q \in Panels \ {p} : /\ panel'[q] = panel[q] /\ events'[q] = events[q]
                                 /\ q \in told' <=> q \in told,
         panel'[p].button = panel[p].button, panel'[p].have = panel[p].have,
         panel'[p].pinged = panel[p].pinged,
         Rising(panel'[p], events'[p]) => wanted' = p,
         wanted' # None => /\ wanted' = p /\ ~Hiding(panel'[p], events'[p])
                           /\ Rising(panel'[p], events'[p]),
         Hiding(panel'[p], events'[p]) => wanted' = None /\ Mapped(panel[p]),
         Tells(panel'[p], events'[p], p \in told')
  PROVE  Course'
<1>1. p # None
  BY ShowAssumption
<1>2. ASSUME NEW q \in Panels \ {p}
      PROVE  ~Rising(panel'[q], events'[q]) /\ ~Hiding(panel'[q], events'[q])
  <2>1. ~Goes(q) /\ ~Leaves(q)
    BY QuietSlot
  <2>. QED  BY <2>1 DEF Goes, Leaves
<1>3. OnlyWantedGoes'
  BY <1>2 DEF OnlyWantedGoes, Goes
<1>4. WantedComes'
  BY DEF WantedComes, Goes, Leaves
<1>5. LeavesAlone'
  <2>. SUFFICES ASSUME NEW q \in Panels, Hiding(panel'[q], events'[q])
                PROVE  wanted' = None /\ \A r \in Panels \ {q} : ~Mapped(panel'[r])
    BY DEF LeavesAlone, Leaves
  <2>1. q = p
    BY <1>2
  <2>2. \A r \in Panels \ {p} : ~Mapped(panel[r])
    BY <2>1, QuietScreen
  <2>. QED  BY <2>1, <2>2
<1>6. PingIsTimed'
  <2>1. \A q \in Panels : ~(~panel'[q].have /\ panel'[q].pinged)
    BY QuietSlot
  <2>2. ~bar'.stubTimer
    BY QuietSlot
  <2>. QED  BY <2>1, <2>2 DEF PingIsTimed
<1>7. AllTell'
  <2>. SUFFICES ASSUME NEW q \in Panels PROVE Tells(panel'[q], events'[q], q \in told')
    BY DEF AllTell
  <2>1. CASE q = p
    BY <2>1
  <2>2. CASE q # p
    <3>1. Tells(panel[q], events[q], q \in told)
      BY DEF Course, AllTell
    <3>2. /\ panel'[q] = panel[q] /\ events'[q] = events[q]
          /\ (q \in told') = (q \in told)
      BY <2>2
    <3>. QED  BY <3>1, <3>2
  <2>. QED  BY <2>1, <2>2
<1>. QED  BY <1>3, <1>4, <1>5, <1>6, <1>7 DEF Course

-----------------------------------------------------------------------------
LEMMA InitCourse == Init => Course
<1>. SUFFICES ASSUME Init PROVE Course
  OBVIOUS
<1>1. \A q \in Panels : /\ ~panel[q].pinged /\ ~panel[q].mapped /\ panel[q].anim = "none"
                        /\ ~panel[q].button /\ panel[q].calls = <<>> /\ events[q] = <<>>
  BY DEF Init
<1>2. \A q \in Panels : \A c : ~Has(panel[q].calls, c) /\ ~Has(events[q], c)
  BY <1>1, HasNone
<1>3. \A q \in Panels : ~Goes(q) /\ ~Leaves(q)
  BY <1>1, <1>2 DEF Goes, Leaves, Rising, Hiding
<1>4. \A q \in Panels : Tells(panel[q], events[q], q \in told)
  BY <1>1, <1>2 DEF Tells, Rests, Mapped
<1>5. wanted = None /\ ~bar.stubTimer
  BY DEF Init
<1>. QED  BY <1>1, <1>3, <1>4, <1>5 DEF Course, OnlyWantedGoes, WantedComes, LeavesAlone,
                                       PingIsTimed, AllTell

\* A hide call that is sent to a panel that is not animated.
LEMMA HideCallSent ==
  ASSUME NEW r \in Slots, r.anim = "none", NEW o, o = HideCall(r)
  PROVE  /\ o.button = r.button /\ o.have = r.have /\ o.pinged = r.pinged
         /\ o.mapped = r.mapped /\ o.anim = "none" /\ o.dontHide
         /\ \A c : Has(o.calls, c) <=> Has(r.calls, c) \/ c = "Hide"
<1>1. r.anim # "hide"
  OBVIOUS
<1>2. /\ o.button = r.button /\ o.have = r.have /\ o.pinged = r.pinged
      /\ o.mapped = r.mapped /\ o.anim = "none"
  BY HideCallFields
<1>3. HideCall(r).dontHide
      /\ \A c : Has(HideCall(r).calls, c) <=> Has(r.calls, c) \/ c = "Hide"
  BY <1>1, HideCallFields
<1>. QED  BY <1>2, <1>3

\* The panel whose button the user clicks on.
LEMMA ClickOwn ==
  ASSUME Known, Course, Quiet, NEW p \in Panels, NEW r \in Slots, NEW o,
         r = [panel[p] EXCEPT !.button = ~panel[p].button], o = Own(r, TRUE)
  PROVE  /\ ~Hiding(o, events[p]) \/ ~o.button
         /\ Rising(o, events[p]) => o.button
         /\ o.button => Rising(o, events[p]) /\ ~Hiding(o, events[p])
         /\ ~o.have /\ o.pinged <=> ~panel[p].button /\ ~panel[p].have /\ ~panel[p].failed
         /\ Tells(o, events[p], p \in told)
<1>1. /\ panel[p] \in Slots /\ events[p] = <<>> /\ panel[p].anim = "none"
      /\ \A c : ~Has(panel[p].calls, c) /\ ~Has(events[p], c)
      /\ panel[p].button <=> Mapped(panel[p])
      /\ Mapped(panel[p]) => ~panel[p].dontHide /\ p \notin told
      /\ ~panel[p].have => ~panel[p].pinged /\ ~panel[p].mapped
  BY QuietSlot
<1>2. /\ r.button = ~panel[p].button /\ r.have = panel[p].have /\ r.failed = panel[p].failed
      /\ r.mapped = panel[p].mapped /\ r.anim = panel[p].anim /\ r.calls = panel[p].calls
      /\ r.dontHide = panel[p].dontHide /\ r.pinged = panel[p].pinged
  BY <1>1 DEF Slots
<1>3. /\ r.anim = "none" /\ \A c : ~Has(r.calls, c) /\ ~Has(events[p], c)
      /\ r.button <=> ~Mapped(r)
      /\ Mapped(r) => ~r.dontHide /\ p \notin told
      /\ ~r.have => ~r.pinged /\ ~r.mapped
  BY <1>1, <1>2 DEF Mapped, Slots
<1>4. CASE r.button /\ r.have /\ ~r.mapped /\ o = ShowCall(r)
  <2>1. /\ o.button /\ o.have /\ ~o.mapped /\ o.anim = "none"
        /\ \A c : Has(o.calls, c) <=> c = "Show"
    BY <1>3, <1>4, ShowCallFields, ZenonT(60)
  <2>. QED  BY <1>2, <1>3, <1>4, <2>1 DEF Hiding, Rising, Tells, Rests, Mapped
<1>5. CASE ~r.button /\ Mapped(r) /\ o = HideCall(r)
  <2>1. /\ ~o.button /\ o.have /\ o.anim = "none" /\ o.dontHide
        /\ \A c : Has(o.calls, c) <=> c = "Hide"
    <3>1. /\ o.button = r.button /\ o.have = r.have /\ o.anim = "none" /\ o.dontHide
          /\ \A c : Has(o.calls, c) <=> Has(r.calls, c) \/ c = "Hide"
      <4>1. r.anim = "none" /\ o = HideCall(r)
        BY <1>3, <1>5
      <4>. QED  BY <4>1, HideCallSent
    <3>. QED  BY <1>3, <1>5, <3>1 DEF Mapped
  <2>. QED  BY <1>2, <1>3, <1>5, <2>1 DEF Hiding, Rising, Tells, Rests, Mapped
<1>6. CASE r.button /\ ~r.have /\ ~r.failed /\ o = [r EXCEPT !.pinged = TRUE]
  <2>1. /\ o.button /\ ~o.have /\ o.pinged /\ ~o.mapped /\ o.anim = "none"
    BY <1>3, <1>6 DEF Slots
  <2>. QED  BY <1>2, <1>3, <1>6, <2>1 DEF Hiding, Rising, Tells, Rests, Mapped
<1>7. CASE r.button /\ ~r.have /\ r.failed /\ o = [r EXCEPT !.button = FALSE]
  <2>1. ~o.button /\ ~o.have /\ ~o.pinged /\ ~o.mapped /\ o.anim = "none"
    BY <1>3, <1>7 DEF Slots
  <2>. QED  BY <1>2, <1>3, <1>7, <2>1 DEF Hiding, Rising, Tells, Rests, Mapped
<1>8. ~(~r.button /\ ~r.have)
  BY <1>3 DEF Mapped
<1>9. ~(r.button <=> Mapped(r))
  BY <1>3 DEF Slots, Mapped
<1>. QED  BY <1>4, <1>5, <1>6, <1>7, <1>8, <1>9, OwnCases

LEMMA ClickCourse ==
  ASSUME Uses = {}, Known, Course, NEW p \in Panels, Click(p)
  PROVE  Course'
<1>1. Quiet
  BY DEF Click, Move
<1>2. PICK r \in Slots : /\ r = [panel[p] EXCEPT !.button = ~panel[p].button]
                         /\ panel' = TurnsTo(panel, p, r, TRUE)
  BY ClickPanel DEF Known
<1>3. /\ UNCHANGED <<window, events>>
      /\ LET ask  == ~panel[p].button /\ ~panel[p].have /\ ~panel[p].failed
             show == ~panel[p].button /\ panel[p].have /\ ~panel[p].mapped
         IN  /\ bar'.stubTimer <=> ask \/ (bar.stubTimer /\ ~show)
             /\ ask => bar'.stub = p
  BY ClickPanel DEF Known
<1>4. ~bar.stubTimer /\ \A q \in Panels : ~Goes(q) /\ ~Leaves(q)
  BY <1>1, QuietSlot
<1>. DEFINE o == panel'[p]
<1>5. o = Own(r, TRUE)
  BY <1>2 DEF TurnsTo
<1>6. /\ ~Hiding(o, events[p]) \/ ~o.button
      /\ Rising(o, events[p]) => o.button
      /\ o.button => Rising(o, events[p]) /\ ~Hiding(o, events[p])
      /\ ~o.have /\ o.pinged <=> ~panel[p].button /\ ~panel[p].have /\ ~panel[p].failed
      /\ Tells(o, events[p], p \in told)
  BY <1>1, <1>2, <1>5, ClickOwn
<1>7. wanted' = (IF o.button THEN p ELSE None) /\ told' = told
  BY DEF Click
<1>8. ~o.have /\ o.pinged => o.button
  BY <1>6 DEF Rising
<1>9. events'[p] = events[p] /\ \A q \in Panels \ {p} : events'[q] = events[q]
  BY <1>3
<1>10. TypeOK
  BY DEF Known
<1>. HIDE DEF o
<1>11. /\ Rising(o, events'[p]) => wanted' = p
       /\ wanted' # None => /\ wanted' = p /\ ~Hiding(o, events'[p])
                            /\ Mapped(o) \/ Rising(o, events'[p])
       /\ ~(Hiding(o, events'[p]) /\ o.button)
       /\ Tells(o, events'[p], p \in told)
  BY <1>6, <1>7, <1>9
<1>12. /\ ~o.have /\ o.pinged => bar'.stubTimer /\ bar'.stub = p /\ o.button
       /\ bar'.stubTimer => bar'.stub = p /\ ~o.have /\ o.pinged
  BY <1>3, <1>4, <1>6, <1>8
<1>. QED  BY <1>2, <1>4, <1>7, <1>9, <1>10, <1>11, <1>12, CourseTurned DEF o

LEMMA HidePanelCourse ==
  ASSUME Uses = {}, Known, Course, NEW p \in Panels, HidePanel(p)
  PROVE  Course'
<1>1. Quiet /\ Mapped(panel[p])
  BY DEF HidePanel, Move
<1>2. /\ panel[p] \in Slots /\ events[p] = <<>> /\ panel[p].anim = "none"
      /\ \A c : ~Has(panel[p].calls, c) /\ ~Has(events[p], c)
  BY <1>1, QuietSlot
<1>3. /\ panel'[p] = HideCall(panel[p])
      /\ \A q \in Panels \ {p} : panel'[q] = panel[q]
      /\ UNCHANGED <<bar, events, told>>
      /\ wanted' = IF wanted = p THEN None ELSE wanted
  BY DEF HidePanel, Known, TypeOK
<1>. DEFINE o == panel'[p]
<1>4. /\ o.button = panel[p].button /\ o.have = panel[p].have /\ o.pinged = panel[p].pinged
      /\ o.mapped = panel[p].mapped /\ o.anim = "none" /\ o.dontHide
      /\ \A c : Has(o.calls, c) <=> c = "Hide"
  <2>1. /\ o.button = panel[p].button /\ o.have = panel[p].have
        /\ o.pinged = panel[p].pinged /\ o.mapped = panel[p].mapped
        /\ o.anim = "none" /\ o.dontHide
        /\ \A c : Has(o.calls, c) <=> Has(panel[p].calls, c) \/ c = "Hide"
    BY <1>2, <1>3, HideCallSent
  <2>. QED  BY <1>2, <2>1
<1>5. wanted' = None
  BY <1>1, <1>3, QuietScreen
<1>6. ~Rising(o, events[p]) /\ Tells(o, events[p], p \in told)
  BY <1>1, <1>2, <1>4 DEF Rising, Tells, Rests, Mapped
<1>. HIDE DEF o
<1>7. /\ Rising(o, events'[p]) => wanted' = p
      /\ Hiding(o, events'[p]) => wanted' = None /\ Mapped(panel[p])
      /\ Tells(o, events'[p], p \in told')
  BY <1>1, <1>3, <1>5, <1>6
<1>. QED  BY <1>1, <1>3, <1>4, <1>5, <1>7, CourseMoved DEF o

\* What X's news is when there was none.
LEMMA FirstNews ==
  ASSUME TypeOK, NEW p \in Panels, NEW on \in BOOLEAN, SetWindow(p, on),
         on # (p \in window)
  PROVE  /\ events'[p] = Append(events[p], Change(on))
         /\ \A c : Has(events'[p], c) <=> Has(events[p], c) \/ c = Change(on)
<1>1. events'[p] = Append(events[p], Change(on))
  BY DEF SetWindow, TypeOK, Change
<1>2. events[p] \in Seq({"map", "unmap"}) /\ Change(on) \in {"map", "unmap"}
  BY DEF TypeOK, Change
<1>. QED  BY <1>1, <1>2, HasAppend

LEMMA MoveItselfCourse ==
  ASSUME Uses = {}, Known, Course, NEW p \in Panels, NEW on \in BOOLEAN, MoveItself(p, on)
  PROVE  Course'
<1>1. /\ Quiet /\ panel[p].have /\ on # (p \in window) /\ SetWindow(p, on)
      /\ UNCHANGED <<panel, bar>> /\ told' = told \ {p}
      /\ wanted' = IF on THEN p ELSE IF wanted = p THEN None ELSE wanted
  BY DEF MoveItself, Move
<1>2. /\ panel[p] \in Slots /\ panel[p].anim = "none"
      /\ \A c : ~Has(panel[p].calls, c) /\ ~Has(events[p], c)
      /\ panel[p].button <=> Mapped(panel[p])
      /\ panel[p].have => (panel[p].mapped <=> p \in window)
      /\ Mapped(panel[p]) => ~panel[p].dontHide /\ p \notin told
  BY <1>1, QuietSlot
<1>3. /\ \A q \in Panels \ {p} : events'[q] = events[q]
      /\ events'[p] # <<>>
  BY <1>1, WindowSet DEF Known
<1>4. \A c : Has(events'[p], c) <=> c = Change(on)
  BY <1>1, <1>2, FirstNews DEF Known
<1>5. Mapped(panel[p]) <=> ~on
  BY <1>1, <1>2 DEF Mapped
<1>6. CASE on
  <2>1. /\ Has(events'[p], "map") /\ ~Has(events'[p], "unmap") /\ p \notin told'
        /\ wanted' = p
    BY <1>1, <1>4, <1>6 DEF Change
  <2>2. Rising(panel[p], events'[p]) /\ ~Hiding(panel[p], events'[p])
    BY <1>1, <1>2, <2>1 DEF Rising, Hiding
  <2>3. Tells(panel[p], events'[p], p \in told')
    BY <1>2, <1>3, <2>1 DEF Tells
  <2>. QED  BY <1>1, <1>3, <2>1, <2>2, <2>3, CourseMoved
<1>7. CASE ~on
  <2>1. /\ Has(events'[p], "unmap") /\ ~Has(events'[p], "map") /\ p \notin told'
        /\ wanted' = None
    BY <1>1, <1>4, <1>5, <1>7, QuietScreen DEF Change
  <2>2. ~Rising(panel[p], events'[p])
    BY <1>1, <1>2, <2>1 DEF Rising
  <2>3. Tells(panel[p], events'[p], p \in told')
    BY <1>2, <1>3, <1>5, <1>7, <2>1 DEF Tells
  <2>. QED  BY <1>1, <1>3, <1>5, <1>7, <2>1, <2>2, <2>3, CourseMoved
<1>. QED  BY <1>6, <1>7

-----------------------------------------------------------------------------
\* The last news of a window is what it is.
LEMMA LastNews ==
  ASSUME TypeOK, Beliefs, NEW p \in Panels
  PROVE  /\ p \in window => (events[p] = <<>> /\ Knows(panel[p])) \/ Has(events[p], "map")
         /\ p \notin window => (events[p] = <<>> /\ ~Knows(panel[p])) \/ Has(events[p], "unmap")
<1>. DEFINE es == events[p]
<1>1. Coherent(Knows(panel[p]), es, p \in window)
  BY DEF Beliefs, Belief
<1>2. es \in Seq({"map", "unmap"}) /\ Len(es) \in Nat /\ (es = <<>> <=> Len(es) = 0)
  BY EmptyMeansNoLength DEF TypeOK
<1>. HIDE DEF es
<1>3. CASE es = <<>>
  BY <1>1, <1>3 DEF Coherent, es
<1>4. CASE es # <<>>
  <2>1. es[Len(es)] = Change(p \in window) /\ Len(es) \in 1..Len(es)
    BY <1>1, <1>2, <1>4 DEF Coherent
  <2>2. Has(es, Change(p \in window))
    BY <2>1 DEF Has
  <2>. QED  BY <2>2 DEF Change, es
<1>. QED  BY <1>3, <1>4

LEMMA GoesOrLeaves ==
  ASSUME Course, NEW p \in Panels
  PROVE  /\ Goes(p) => wanted = p /\ ~Leaves(p)
         /\ Leaves(p) => wanted # p /\ ~Goes(p)
         /\ wanted = p => ~Leaves(p)
<1>1. p # None
  BY ShowAssumption
<1>. QED  BY <1>1 DEF Course, OnlyWantedGoes, WantedComes

LEMMA HandleCallCourse ==
  ASSUME Known, Course, NEW p \in Panels, HandleCall(p)
  PROVE  Course'
<1>. DEFINE r == panel[p]  o == panel'[p]
            on == Head(panel[p].calls) = "Show"
<1>1. /\ \A q \in Panels \ {p} : panel'[q] = panel[q]
      /\ o.button = r.button /\ o.have = r.have /\ o.pinged = r.pinged
      /\ o.mapped = r.mapped /\ o.anim = r.anim /\ o.dontHide = r.dontHide
      /\ p \in up /\ UNCHANGED <<bar, wanted>> /\ SetWindow(p, on)
      /\ \A c : Has(r.calls, c) <=> Head(r.calls) = c \/ Has(o.calls, c)
      /\ Head(r.calls) \in {"Show", "Hide"}
  BY HandleCallPanel DEF Known
<1>2. told' = IF on THEN told \ {p} ELSE IF p \in window THEN told \cup {p} ELSE told
  BY DEF HandleCall
<1>3. r.have
  BY <1>1 DEF Known, Beliefs, Belief
<1>4. on \in BOOLEAN
  OBVIOUS
<1>5. /\ \A q \in Panels \ {p} : events'[q] = events[q]
      /\ events'[p] = <<>> => events[p] = <<>> /\ (p \in window <=> on)
  BY <1>1, <1>4, WindowSet DEF Known
<1>6. on # (p \in window) =>
        \A c : Has(events'[p], c) <=> Has(events[p], c) \/ c = Change(on)
  BY <1>1, <1>4, FirstNews DEF Known
<1>7. on = (p \in window) => events' = events
  BY <1>1 DEF SetWindow
<1>8. /\ p \in window => (events[p] = <<>> /\ Knows(r)) \/ Has(events[p], "map")
      /\ p \notin window => (events[p] = <<>> /\ ~Knows(r)) \/ Has(events[p], "unmap")
  BY LastNews DEF Known
<1>9. Tells(r, events[p], p \in told)
  BY DEF Course, AllTell
<1>10. \A q \in Panels \ {p} : q \in told' <=> q \in told
  BY <1>2
<1>11. Mapped(o) <=> Mapped(r)
  BY <1>1 DEF Mapped
<1>12. TypeOK
  BY DEF Known
<1>. HIDE DEF o
<1>13. CASE on
  <2>1. Goes(p) /\ wanted = p /\ ~Leaves(p)
    <3>1. Goes(p)
      BY <1>1, <1>3, <1>13 DEF Goes, Rising
    <3>. QED  BY <3>1, GoesOrLeaves
  <2>2. ~Has(r.calls, "Hide") /\ ~Has(events[p], "unmap") /\ r.anim # "hide"
    BY <1>3, <2>1 DEF Leaves, Hiding
  <2>3. ~Has(o.calls, "Hide") /\ ~Has(events'[p], "unmap") /\ o.anim # "hide"
    BY <1>1, <1>6, <1>7, <1>13, <2>2 DEF Change
  <2>4. ~Hiding(o, events'[p])
    BY <2>3 DEF Hiding
  <2>5. Mapped(o) \/ Rising(o, events'[p])
    <3>1. CASE p \in window
      BY <1>1, <1>3, <1>7, <1>8, <1>11, <1>13, <3>1 DEF Knows, Mapped, Rising
    <3>2. CASE p \notin window
      BY <1>1, <1>3, <1>6, <1>13, <3>2 DEF Change, Rising
    <3>. QED  BY <3>1, <3>2
  <2>6. p \notin told'
    BY <1>2, <1>13
  <2>7. Rests(o) /\ events'[p] = <<>> => ~o.dontHide
    BY <1>1, <1>5, <1>9, <1>11, <2>2 DEF Tells, Rests
  <2>8. Tells(o, events'[p], p \in told')
    BY <2>3, <2>6, <2>7 DEF Tells
  <2>. QED  BY <1>1, <1>5, <1>10, <1>11, <1>12, <2>1, <2>4, <2>5, <2>8, CourseKept DEF o
<1>14. CASE ~on
  <2>1. Leaves(p) /\ ~Goes(p) /\ wanted # p
    <3>1. Leaves(p)
      BY <1>1, <1>3, <1>14 DEF Leaves, Hiding
    <3>. QED  BY <3>1, GoesOrLeaves
  <2>2. ~Has(r.calls, "Show") /\ ~Has(events[p], "map") /\ r.anim # "show"
    BY <1>3, <2>1 DEF Goes, Rising
  <2>3. ~Has(o.calls, "Show") /\ ~Has(events'[p], "map") /\ o.anim # "show"
    BY <1>1, <1>6, <1>7, <1>14, <2>2 DEF Change
  <2>4. ~Rising(o, events'[p])
    BY <1>1, <1>3, <2>3 DEF Rising
  <2>5. Tells(o, events'[p], p \in told')
    <3>1. CASE p \in window
      <4>1. Knows(r) /\ Has(events'[p], "unmap") /\ p \in told' /\ events'[p] # <<>>
        BY <1>2, <1>5, <1>6, <1>8, <1>14, <2>2, <3>1 DEF Change
      <4>2. r.dontHide
        BY <1>1, <1>3, <1>9, <1>14, <4>1 DEF Tells, Knows, Mapped
      <4>. QED  BY <1>1, <2>3, <4>1, <4>2 DEF Tells
    <3>2. CASE p \notin window
      <4>1. events' = events /\ told' = told
        BY <1>2, <1>7, <1>14, <3>2
      <4>2. Mapped(o) /\ Has(o.calls, "Hide") => o.dontHide
        BY <1>1, <1>9, <1>11 DEF Tells
      <4>3. ~(Rests(o) /\ events'[p] = <<>>)
        <5>1. Rests(o) => Knows(r)
          BY <1>1 DEF Rests, Knows, Mapped
        <5>2. ~Has(<<>>, "unmap")
          BY HasNone
        <5>. QED  BY <1>8, <3>2, <4>1, <5>1, <5>2
      <4>. QED  BY <1>1, <1>9, <2>3, <4>1, <4>2, <4>3 DEF Tells
    <3>. QED  BY <3>1, <3>2
  <2>. QED  BY <1>1, <1>5, <1>10, <1>11, <1>12, <2>1, <2>4, <2>5, CourseKept DEF o
<1>. QED  BY <1>13, <1>14

-----------------------------------------------------------------------------
LEMMA AppearsCourse ==
  ASSUME Known, Course, NEW p \in Panels, Appears(p)
  PROVE  Course'
<1>1. PICK r \in Slots :
           /\ panel' = [panel EXCEPT ![p] = r]
           /\ r.button = panel[p].button /\ r.have /\ ~r.pinged /\ ~r.mapped
           /\ r.anim = "none" /\ ~r.dontHide
           /\ \A c : Has(r.calls, c) <=> panel[p].pinged /\ c = "Show"
  BY AppearsPanel DEF Known
<1>2. /\ ~panel[p].have /\ UNCHANGED <<events, wanted, told>>
      /\ bar' = IF panel[p].pinged THEN [bar EXCEPT !.stubTimer = FALSE] ELSE bar
  BY DEF Appears
<1>3. /\ panel'[p] = r /\ \A q \in Panels \ {p} : panel'[q] = panel[q]
      /\ bar \in Bars
  BY <1>1 DEF Known, TypeOK
<1>4. bar'.stub = bar.stub /\ (bar'.stubTimer <=> bar.stubTimer /\ ~panel[p].pinged)
  BY <1>2, <1>3 DEF Bars
<1>5. events[p] = <<>> /\ ~panel[p].mapped
  BY <1>2 DEF Known, Beliefs, Belief, Fits, Fit
<1>6. \A c : ~Has(events[p], c)
  BY <1>5, HasNone
<1>7. /\ Rising(r, events[p]) <=> Goes(p)
      /\ ~Hiding(r, events[p]) /\ ~Mapped(r) /\ ~Mapped(panel[p])
  BY <1>1, <1>2, <1>6 DEF Goes, Rising, Hiding, Mapped
<1>8. Tells(r, events[p], p \in told)
  BY <1>1, <1>6, <1>7 DEF Tells, Rests
<1>9. OnlyWantedGoes'
  BY <1>2, <1>3, <1>7 DEF Course, OnlyWantedGoes, Goes
<1>10. WantedComes'
  BY <1>2, <1>3, <1>7 DEF Course, WantedComes, Goes, Leaves, Known, TypeOK
<1>11. LeavesAlone'
  BY <1>2, <1>3, <1>7 DEF Course, LeavesAlone, Leaves
<1>12. PingIsTimed'
  <2>1. ASSUME NEW q \in Panels, ~panel'[q].have, panel'[q].pinged
        PROVE  bar'.stubTimer /\ bar'.stub = q /\ panel'[q].button
    <3>1. q # p /\ panel'[q] = panel[q]
      BY <1>1, <1>3, <2>1
    <3>2. bar.stubTimer /\ bar.stub = q /\ panel[q].button
      BY <2>1, <3>1 DEF Course, PingIsTimed
    <3>3. Goes(q) /\ (panel[p].pinged => Goes(p))
      BY <1>2, <2>1, <3>1 DEF Goes, Rising
    <3>4. ~panel[p].pinged
      BY <3>1, <3>3 DEF Course, OnlyWantedGoes
    <3>. QED  BY <1>4, <3>1, <3>2, <3>4
  <2>2. ASSUME bar'.stubTimer
        PROVE  bar'.stub # None /\ ~panel'[bar'.stub].have /\ panel'[bar'.stub].pinged
    <3>1. bar.stubTimer /\ ~panel[p].pinged
      BY <1>4, <2>2
    <3>2. bar.stub # None /\ ~panel[bar.stub].have /\ panel[bar.stub].pinged
      BY <3>1 DEF Course, PingIsTimed
    <3>3. bar.stub \in Panels \ {p}
      BY <1>3, <3>1, <3>2 DEF Bars
    <3>. QED  BY <1>3, <1>4, <3>2, <3>3
  <2>. QED  BY <2>1, <2>2 DEF PingIsTimed
<1>13. AllTell'
  <2>. SUFFICES ASSUME NEW q \in Panels PROVE Tells(panel'[q], events[q], q \in told)
    BY <1>2 DEF AllTell
  <2>1. CASE q = p
    BY <1>3, <1>8, <2>1
  <2>2. CASE q # p
    <3>1. Tells(panel[q], events[q], q \in told)
      BY DEF Course, AllTell
    <3>. QED  BY <1>3, <2>2, <3>1
  <2>. QED  BY <2>1, <2>2
<1>. QED  BY <1>9, <1>10, <1>11, <1>12, <1>13 DEF Course

\* The shell reads the news of a panel's window.
LEMMA NewsCourse ==
  ASSUME Known, Course, NEW p \in Panels, NEW what \in {"map", "unmap"}, News(p, what)
  PROVE  /\ \A c : Has(events[p], c) <=> what = c \/ Has(events'[p], c)
         /\ \A q \in Panels \ {p} : events'[q] = events[q]
         /\ panel[p].have /\ panel[p] \in Slots
         /\ what = "map" => Goes(p)
         /\ what = "unmap" => /\ Leaves(p) /\ Knows(panel[p])
                              /\ ~Has(events'[p], "map") => events'[p] = <<>>
<1>1. /\ events[p] \in Seq({"map", "unmap"}) /\ events[p] # <<>>
      /\ Head(events[p]) = what /\ events'[p] = Tail(events[p])
      /\ \A q \in Panels \ {p} : events'[q] = events[q]
  BY NewsType DEF Known
<1>2. \A c : Has(events[p], c) <=> what = c \/ Has(events'[p], c)
  BY <1>1, HasTail
<1>3. panel[p].have /\ panel[p] \in Slots
  BY <1>1 DEF Known, Beliefs, Belief, TypeOK
<1>4. what = "map" => Goes(p)
  BY <1>2, <1>3 DEF Goes, Rising
<1>5. what = "unmap" => Leaves(p)
  BY <1>2, <1>3 DEF Leaves, Hiding
<1>6. ASSUME what = "unmap", events'[p] # <<>>
      PROVE  Has(events'[p], "map")
  <2>1. Knows(panel[p]) /\ Coherent(~Knows(panel[p]), Tail(events[p]), p \in window)
    BY <1>6, NewsIsChange DEF Known
  <2>2. events'[p][1] = "map"
    BY <1>1, <1>6, <2>1 DEF Coherent, Change
  <2>3. events'[p] \in Seq({"map", "unmap"})
    BY <1>1, HasTail
  <2>4. 1 \in 1..Len(events'[p])
    BY <1>6, <2>3, EmptyMeansNoLength
  <2>. QED  BY <2>2, <2>4 DEF Has
<1>7. what = "unmap" => Knows(panel[p])
  BY NewsIsChange DEF Known
<1>. QED  BY <1>1, <1>2, <1>3, <1>4, <1>5, <1>6, <1>7

LEMMA WindowMappedCourse ==
  ASSUME ~Modal, Known, Course, NEW p \in Panels, WindowMapped(p)
  PROVE  Course'
<1>. DEFINE r == panel[p]  o == panel'[p]
<1>1. /\ News(p, "map") /\ UNCHANGED <<bar, wanted, told>>
      /\ panel' = [panel EXCEPT ![p].mapped = TRUE, ![p].anim = "show"]
  BY DEF WindowMapped
<1>2. /\ \A c : Has(events[p], c) <=> "map" = c \/ Has(events'[p], c)
      /\ \A q \in Panels \ {p} : events'[q] = events[q]
      /\ r.have /\ r \in Slots /\ Goes(p)
  BY <1>1, NewsCourse
<1>3. /\ \A q \in Panels \ {p} : panel'[q] = panel[q]
      /\ o = [r EXCEPT !.mapped = TRUE, !.anim = "show"]
  BY <1>1 DEF Known, TypeOK
<1>4. /\ o.button = r.button /\ o.have = r.have /\ o.pinged = r.pinged
      /\ o.mapped /\ o.anim = "show" /\ o.calls = r.calls
  <2>1. r \in Slots
    BY <1>2
  <2>2. o = [r EXCEPT !.mapped = TRUE, !.anim = "show"]
    BY <1>3
  <2>. HIDE DEF o, r
  <2>. QED  BY <2>1, <2>2 DEF Slots
<1>. HIDE DEF o
<1>5. wanted = p /\ ~Leaves(p)
  BY <1>2, GoesOrLeaves
<1>6. ~Has(o.calls, "Hide") /\ ~Has(events'[p], "unmap") /\ Mapped(o)
  BY <1>2, <1>4, <1>5 DEF Leaves, Hiding, Mapped
<1>7. ~Hiding(o, events'[p])
  BY <1>4, <1>6 DEF Hiding
<1>8. p \notin told
  BY <1>2 DEF Course, AllTell, Tells
<1>9. Tells(o, events'[p], p \in told)
  BY <1>4, <1>6, <1>8 DEF Tells, Rests
<1>10. TypeOK
  BY DEF Known
<1>. QED  BY <1>1, <1>2, <1>3, <1>4, <1>5, <1>6, <1>7, <1>9, <1>10, CourseKept DEF o

LEMMA NoStubTimer ==
  ASSUME Known, Course, ~bar.stubTimer \/ \A q \in Panels : wanted = q => panel[q].have
  PROVE  ~bar.stubTimer
<1>. SUFFICES ASSUME bar.stubTimer PROVE FALSE
  OBVIOUS
<1>1. bar.stub # None /\ ~panel[bar.stub].have /\ panel[bar.stub].pinged
  BY DEF Course, PingIsTimed
<1>2. bar.stub \in Panels
  BY <1>1 DEF Known, TypeOK, Bars
<1>3. wanted = bar.stub
  BY <1>1, <1>2 DEF Course, OnlyWantedGoes, Goes, Rising
<1>. QED  BY <1>1, <1>2, <1>3

LEMMA ShowCompletedCourse ==
  ASSUME Known, Course, NEW p \in Panels, ShowCompleted(p)
  PROVE  Course'
<1>1. PICK r \in Slots :
           /\ r = [panel[p] EXCEPT !.anim = "none", !.dontHide = FALSE]
           /\ panel[p].anim = "show" /\ UNCHANGED <<up, window, events>>
           /\ \/ panel[p].button /\ panel' = [panel EXCEPT ![p] = r]
              \/ /\ ~panel[p].button
                 /\ panel' = TurnsTo(panel, p, [r EXCEPT !.button = TRUE], FALSE)
           /\ panel[p].have /\ panel[p].mapped => (bar'.stubTimer <=> bar.stubTimer)
  BY ShowCompletedPanel DEF Known
<1>2. panel \in [Panels -> Slots] /\ panel[p] \in Slots /\ TypeOK
  BY DEF Known, TypeOK
<1>3. /\ r.button = panel[p].button /\ r.have = panel[p].have /\ r.calls = panel[p].calls
      /\ r.mapped = panel[p].mapped /\ r.anim = "none" /\ ~r.dontHide
      /\ r.pinged = panel[p].pinged
  BY <1>1, <1>2 DEF Slots
<1>4. panel[p].mapped /\ panel[p].have
  BY <1>1, BeliefsTame DEF Known, Tame, Fits, Fit
<1>5. wanted = p /\ ~Leaves(p)
  <2>1. Goes(p)
    BY <1>1, <1>4 DEF Goes, Rising
  <2>. QED  BY <2>1, GoesOrLeaves
<1>6. ~bar.stubTimer /\ ~bar'.stubTimer
  <2>1. ~bar.stubTimer
    BY <1>4, <1>5, NoStubTimer
  <2>. QED  BY <1>1, <1>4, <2>1
<1>7. wanted' = wanted /\ told' = told
  BY DEF ShowCompleted
<1>8. p \notin told
  BY <1>1 DEF Course, AllTell, Tells
<1>9. /\ ~Has(r.calls, "Hide") /\ ~Has(events[p], "unmap")
      /\ events'[p] = events[p] /\ \A q \in Panels \ {p} : events'[q] = events[q]
  BY <1>1, <1>3, <1>4, <1>5 DEF Leaves, Hiding
<1>10. ASSUME NEW t, t.have, t.mapped, t.anim = "none", ~t.dontHide, t.calls = r.calls
       PROVE  ~Hiding(t, events'[p]) /\ Mapped(t) /\ Tells(t, events'[p], p \in told)
  <2>1. Tells(panel[p], events[p], p \in told)
    BY DEF Course, AllTell
  <2>. QED  BY <1>8, <1>9, <1>10, <2>1 DEF Hiding, Mapped, Tells
<1>11. CASE panel[p].button /\ panel' = [panel EXCEPT ![p] = r]
  <2>1. panel'[p] = r /\ \A q \in Panels \ {p} : panel'[q] = panel[q]
    BY <1>2, <1>11
  <2>2. ~Hiding(r, events'[p]) /\ Mapped(r) /\ Tells(r, events'[p], p \in told)
    BY <1>3, <1>4, <1>10
  <2>. QED  BY <1>2, <1>3, <1>5, <1>6, <1>7, <1>9, <2>1, <2>2, CourseKept
<1>12. CASE panel' = TurnsTo(panel, p, [r EXCEPT !.button = TRUE], FALSE)
  <2>. DEFINE t == [r EXCEPT !.button = TRUE]
  <2>1. /\ t \in Slots /\ t.have /\ t.mapped /\ t.anim = "none" /\ ~t.dontHide
        /\ t.calls = r.calls /\ t.button
    BY <1>3, <1>4 DEF Slots
  <2>2. panel' = TurnsTo(panel, p, t, FALSE)
    BY <1>12
  <2>. HIDE DEF t
  <2>3. panel'[p] = t
    <3>1. panel'[p] = Own(t, FALSE)
      BY <2>2 DEF TurnsTo
    <3>. QED  BY <2>1, <3>1, OwnCases DEF Mapped
  <2>4. ~Hiding(t, events'[p]) /\ Mapped(t) /\ Tells(t, events'[p], p \in told)
    BY <1>10, <2>1
  <2>5. /\ \A q \in Panels \ {p} : ~(Leaves(q) /\ panel[q].button)
        /\ \A q \in Panels \ {p} : Goes(q) => wanted' = q
    <3>1. wanted # None
      BY <1>5, ShowAssumption
    <3>. QED  BY <1>7, <3>1 DEF Course, LeavesAlone, OnlyWantedGoes
  <2>. QED  BY <1>2, <1>5, <1>6, <1>7, <1>9, <2>1, <2>2, <2>3, <2>4, <2>5, CourseTurned
<1>. QED  BY <1>1, <1>11, <1>12

-----------------------------------------------------------------------------
LEMMA WindowUnmappedCourse ==
  ASSUME Known, Course, NEW p \in Panels, WindowUnmapped(p)
  PROVE  Course'
<1>1. /\ News(p, "unmap") /\ (bar'.stubTimer <=> bar.stubTimer) /\ bar'.stub = bar.stub
      /\ \/ panel[p].anim = "hide" /\ panel' = panel
         \/ \E r \in Slots :
              /\ r = [panel[p] EXCEPT !.anim = "hide",
                                      !.dontHide = @ /\ panel[p].anim # "show"]
              /\ panel[p].anim # "hide"
              /\ \/ ~panel[p].button /\ panel' = [panel EXCEPT ![p] = r]
                 \/ /\ panel[p].button
                    /\ panel' = TurnsTo(panel, p, [r EXCEPT !.button = FALSE], FALSE)
  BY WindowUnmappedPanel DEF Known
<1>2. wanted' = wanted /\ told' = told
  BY DEF WindowUnmapped
<1>3. /\ \A c : Has(events[p], c) <=> "unmap" = c \/ Has(events'[p], c)
      /\ \A q \in Panels \ {p} : events'[q] = events[q]
      /\ panel[p].have /\ panel[p] \in Slots /\ Leaves(p) /\ Knows(panel[p])
      /\ ~Has(events'[p], "map") => events'[p] = <<>>
  BY <1>1, NewsCourse
<1>4. wanted # p /\ ~Goes(p)
  BY <1>3, GoesOrLeaves
<1>5. ~Has(panel[p].calls, "Show") /\ ~Has(events[p], "map") /\ panel[p].anim # "show"
  BY <1>3, <1>4 DEF Goes, Rising
<1>6. panel[p].anim = "none" /\ panel[p].mapped
  BY <1>3, <1>5 DEF Knows, Slots
<1>7. events'[p] = <<>>
  BY <1>3, <1>5
<1>8. \A c : ~Has(events'[p], c)
  BY <1>7, HasNone
<1>9. PICK r \in Slots :
        /\ r = [panel[p] EXCEPT !.anim = "hide",
                                !.dontHide = @ /\ panel[p].anim # "show"]
        /\ \/ ~panel[p].button /\ panel' = [panel EXCEPT ![p] = r]
           \/ /\ panel[p].button
              /\ panel' = TurnsTo(panel, p, [r EXCEPT !.button = FALSE], FALSE)
  BY <1>1, <1>6
<1>10. /\ r.button = panel[p].button /\ r.have /\ r.mapped /\ r.anim = "hide"
       /\ r.pinged = panel[p].pinged /\ r.calls = panel[p].calls
       /\ r.dontHide = panel[p].dontHide
  <2>1. panel[p] \in Slots /\ panel[p].have /\ panel[p].mapped /\ panel[p].anim = "none"
    BY <1>3, <1>6
  <2>2. r = [panel[p] EXCEPT !.anim = "hide", !.dontHide = @ /\ panel[p].anim # "show"]
    BY <1>9
  <2>. QED  BY <2>1, <2>2 DEF Slots
<1>11. Tells(panel[p], events[p], p \in told)
  BY DEF Course, AllTell
<1>12. Has(events[p], "unmap")
  BY <1>3
<1>13. r.dontHide <=> p \in told
  BY <1>3, <1>10, <1>11, <1>12 DEF Tells
<1>14. ASSUME NEW t, t.have, t.mapped, t.anim = "hide", t.calls = r.calls,
              t.dontHide = r.dontHide
       PROVE  ~Rising(t, events'[p]) /\ Tells(t, events'[p], p \in told)
  <2>1. Has(r.calls, "Hide") => r.dontHide
    BY <1>3, <1>6, <1>10, <1>11 DEF Tells, Mapped
  <2>. QED  BY <1>5, <1>8, <1>10, <1>13, <1>14, <2>1 DEF Rising, Tells, Rests
<1>15. panel \in [Panels -> Slots] /\ TypeOK
  BY DEF Known, TypeOK
<1>16. CASE ~panel[p].button /\ panel' = [panel EXCEPT ![p] = r]
  <2>1. panel'[p] = r /\ \A q \in Panels \ {p} : panel'[q] = panel[q]
    BY <1>15, <1>16
  <2>2. ~Rising(r, events'[p]) /\ Tells(r, events'[p], p \in told)
    BY <1>10, <1>14
  <2>3. Mapped(panel[p])
    BY <1>3, <1>6 DEF Mapped
  <2>4. r.have = panel[p].have
    BY <1>3, <1>10
  <2>5. \A q \in Panels \ {p} : q \in told' <=> q \in told
    BY <1>2
  <2>. QED  BY <1>1, <1>2, <1>3, <1>4, <1>10, <1>15, <2>1, <2>2, <2>3, <2>4, <2>5, CourseKept
<1>17. CASE panel[p].button /\ panel' = TurnsTo(panel, p, [r EXCEPT !.button = FALSE], FALSE)
  <2>. DEFINE t == [r EXCEPT !.button = FALSE]
  <2>1. /\ t \in Slots /\ t.have /\ t.mapped /\ t.anim = "hide" /\ t.calls = r.calls
        /\ ~t.button /\ t.dontHide = r.dontHide
    BY <1>10 DEF Slots
  <2>2. panel' = TurnsTo(panel, p, t, FALSE)
    BY <1>17
  <2>. HIDE DEF t
  <2>3. panel'[p] = t
    <3>1. panel'[p] = Own(t, FALSE)
      BY <2>2 DEF TurnsTo
    <3>2. HideCall(t) = t
      BY <2>1, HideCallFields
    <3>3. ~t.button /\ Mapped(t)
      BY <2>1 DEF Mapped
    <3>. QED  BY <2>1, <3>1, <3>2, <3>3, OwnCases DEF Mapped
  <2>4. ~Rising(t, events'[p]) /\ Tells(t, events'[p], p \in told)
    BY <1>14, <2>1
  <2>5. wanted = None
    BY <1>3, <1>17 DEF Course, LeavesAlone
  <2>6. \A q \in Panels \ {p} : ~(Leaves(q) /\ panel[q].button)
    BY <1>17 DEF Known, OneDown, OneButton
  <2>7. \A q \in Panels : Goes(q) => wanted' = q
    BY <1>2 DEF Course, OnlyWantedGoes
  <2>8. ~bar'.stubTimer
    <3>1. \A q \in Panels : wanted = q => panel[q].have
      BY <2>5, ShowAssumption
    <3>. QED  BY <1>1, <3>1, NoStubTimer
  <2>. QED  BY <1>2, <1>3, <1>15, <2>1, <2>2, <2>3, <2>4, <2>5, <2>6, <2>7, <2>8, CourseTurned
<1>. QED  BY <1>9, <1>16, <1>17

LEMMA HideCompletedCourse ==
  ASSUME Known, Course, NEW p \in Panels, HideCompleted(p)
  PROVE  Course'
<1>. DEFINE o == panel'[p]
<1>1. /\ UNCHANGED <<up, window, events>> /\ panel[p].anim = "hide"
      /\ o = [panel[p] EXCEPT !.anim = "none", !.mapped = FALSE]
      /\ \A q \in Panels \ {p} : panel'[q] = panel[q]
  BY HideCompletedPanel DEF Known
<1>2. panel[p] \in Slots /\ TypeOK
  BY DEF Known, TypeOK
<1>3. /\ o.button = panel[p].button /\ o.have = panel[p].have /\ o.pinged = panel[p].pinged
      /\ ~o.mapped /\ o.anim = "none" /\ o.calls = panel[p].calls
      /\ o.dontHide = panel[p].dontHide
  BY <1>1, <1>2 DEF Slots
<1>4. panel[p].have
  BY <1>1, BeliefsTame DEF Known, Tame, Fits, Fit
<1>5. Leaves(p) /\ wanted # p /\ ~Goes(p)
  <2>1. Leaves(p)
    BY <1>1, <1>4 DEF Leaves, Hiding
  <2>. QED  BY <2>1, GoesOrLeaves
<1>. HIDE DEF o
<1>6. ~Rising(o, events'[p]) /\ ~Mapped(o)
  BY <1>1, <1>3, <1>4, <1>5 DEF Goes, Rising, Mapped
<1>7. Tells(o, events'[p], p \in told)
  <2>1. Tells(panel[p], events[p], p \in told)
    BY DEF Course, AllTell
  <2>. QED  BY <1>1, <1>3, <1>6, <2>1 DEF Tells, Rests
<1>8. UNCHANGED <<bar, wanted, told>>
  BY DEF HideCompleted
<1>. QED  BY <1>1, <1>2, <1>3, <1>5, <1>6, <1>7, <1>8, CourseKept DEF o

LEMMA StubTimeoutCourse ==
  ASSUME Known, Course, StubTimeout
  PROVE  Course'
<1>1. /\ UNCHANGED <<up, window, events>> /\ bar.stubTimer /\ ~bar'.stubTimer
      /\ \/ ~(bar.stub # None /\ panel[bar.stub].button) /\ panel' = panel
         \/ \E p \in Panels, r \in Slots :
              /\ p = bar.stub /\ panel[p].button
              /\ r = [panel[p] EXCEPT !.pinged = FALSE, !.failed = TRUE]
              /\ panel' = TurnsTo(panel, p, [r EXCEPT !.button = FALSE], FALSE)
  BY StubTimeoutPanel DEF Known
<1>. DEFINE p == bar.stub
<1>2. p \in Panels /\ p # None
  BY <1>1 DEF Course, PingIsTimed, Known, TypeOK, Bars
<1>3. ~panel[p].have /\ panel[p].pinged /\ panel[p].button
  BY <1>1, <1>2 DEF Course, PingIsTimed
<1>4. wanted = p
  BY <1>2, <1>3 DEF Course, OnlyWantedGoes, Goes, Rising
<1>5. wanted' = None /\ told' = told
  BY <1>4 DEF StubTimeout
<1>6. PICK r \in Slots :
        /\ r = [panel[p] EXCEPT !.pinged = FALSE, !.failed = TRUE]
        /\ panel' = TurnsTo(panel, p, [r EXCEPT !.button = FALSE], FALSE)
  BY <1>1, <1>2, <1>3
<1>7. panel \in [Panels -> Slots] /\ TypeOK
  BY DEF Known, TypeOK
<1>. HIDE DEF p
<1>8. panel[p].anim = "none" /\ ~panel[p].mapped /\ events[p] = <<>>
  BY <1>2, <1>3 DEF Known, Beliefs, Belief, Fits, Fit
<1>. DEFINE t == [r EXCEPT !.button = FALSE]
<1>9. /\ t \in Slots /\ ~t.button /\ ~t.have /\ ~t.pinged /\ ~t.mapped /\ t.anim = "none"
  BY <1>2, <1>3, <1>6, <1>7, <1>8 DEF Slots
<1>10. panel' = TurnsTo(panel, p, t, FALSE)
  BY <1>6
<1>. HIDE DEF t
<1>11. panel'[p] = t
  <2>1. panel'[p] = Own(t, FALSE)
    BY <1>2, <1>10 DEF TurnsTo
  <2>. QED  BY <1>9, <2>1, OwnCases DEF Mapped
<1>12. ~Rising(t, events'[p]) /\ ~Hiding(t, events'[p]) /\ Tells(t, events'[p], p \in told)
  <2>1. ~Has(events'[p], "map")
    BY <1>1, <1>8, HasNone
  <2>. QED  BY <1>9, <2>1 DEF Rising, Hiding, Tells, Rests, Mapped
<1>13. \A q \in Panels \ {p} : ~Goes(q) /\ ~(Leaves(q) /\ panel[q].button)
  BY <1>2, <1>3, <1>4 DEF Known, OneDown, OneButton, Course, OnlyWantedGoes
<1>14. \A q \in Panels \ {p} : events'[q] = events[q]
  BY <1>1
<1>. QED  BY <1>1, <1>2, <1>5, <1>7, <1>9, <1>10, <1>11, <1>12, <1>13, <1>14, CourseTurned

\* Steps that none of it is about.
LEMMA UnchangedCourse ==
  ASSUME Course, UNCHANGED <<panel, events, wanted, told>>,
         bar'.stub = bar.stub, bar'.stubTimer = bar.stubTimer
  PROVE  Course'
BY DEF Course, OnlyWantedGoes, WantedComes, LeavesAlone, PingIsTimed, AllTell, Goes, Leaves

LEMMA CourseStep ==
  ASSUME ~Modal, Uses = {}, MaxDeaths = 0
  PROVE  Known /\ Course /\ [Next]_vars => Course'
<1>. SUFFICES ASSUME Known, Course, [Next]_vars PROVE Course'
  OBVIOUS
<1>1. ASSUME NEW p \in Panels, Click(p) PROVE Course'
  BY <1>1, ClickCourse
<1>2. ASSUME NEW p \in Panels, Activate(p) PROVE Course'
  BY <1>2 DEF Activate
<1>3. ASSUME NEW p \in Panels, HidePanel(p) PROVE Course'
  BY <1>3, HidePanelCourse
<1>4. ASSUME NEW p \in Panels, HandleCall(p) PROVE Course'
  BY <1>4, HandleCallCourse
<1>5. ASSUME NEW p \in Panels, MoveItself(p, TRUE) \/ MoveItself(p, FALSE) PROVE Course'
  BY <1>5, MoveItselfCourse
<1>6. ASSUME NEW p \in Panels, Die(p) \/ Died(p) PROVE Course'
  BY <1>6, NoDeaths DEF Known
<1>7. ASSUME NEW p \in Panels, Appears(p) PROVE Course'
  BY <1>7, AppearsCourse
<1>8. ASSUME NEW p \in Panels, WindowMapped(p) PROVE Course'
  BY <1>8, WindowMappedCourse
<1>9. ASSUME NEW p \in Panels, ShowCompleted(p) PROVE Course'
  BY <1>9, ShowCompletedCourse
<1>10. ASSUME NEW p \in Panels, WindowUnmapped(p) PROVE Course'
  BY <1>10, WindowUnmappedCourse
<1>11. ASSUME NEW p \in Panels, HideCompleted(p) PROVE Course'
  BY <1>11, HideCompletedCourse
<1>12. CASE WaitTimeout
  <2>1. bar \in Bars
    BY DEF Known, TypeOK
  <2>2. UNCHANGED <<panel, events, wanted, told>> /\ bar' = StopWaiting(State).bar
    BY <1>12 DEF WaitTimeout, Become, StopWaiting, State
  <2>3. bar'.stub = bar.stub /\ bar'.stubTimer = bar.stubTimer
    BY <2>1, <2>2 DEF StopWaiting, State, Bars
  <2>. QED  BY <2>2, <2>3, UnchangedCourse
<1>13. CASE StubTimeout
  BY <1>13, StubTimeoutCourse
<1>14. CASE UNCHANGED vars
  BY <1>14, UnchangedCourse DEF vars
<1>. QED  BY <1>1, <1>2, <1>3, <1>4, <1>5, <1>6, <1>7, <1>8, <1>9, <1>10, <1>11,
             <1>12, <1>13, <1>14 DEF Next

LEMMA ShowKnown ==
  ASSUME ~Modal, Uses = {}, MaxDeaths = 0
  PROVE  Spec => []Known
<1>1. "reclick" \notin Uses
  OBVIOUS
<1>2. Spec => []Fits
  BY <1>1, ShowFits
<1>3. TypeOK /\ Beliefs /\ OneDown /\ Fits => Known
  BY DEF Known
<1>. QED  BY <1>2, <1>3, ShowTypeCorrect, ShowBeliefs, ShowOneDown, PTL

LEMMA ShowCourse ==
  ASSUME ~Modal, Uses = {}, MaxDeaths = 0
  PROVE  Spec => []Course
<1>1. Known /\ Course /\ [Next]_vars => Course'
  BY CourseStep
<1>. QED  BY <1>1, InitCourse, ShowKnown, PTL DEF Spec

LEMMA CourseSuffices ==
  ASSUME Known, Course
  PROVE  LastWins /\ HiderDecides
<1>1. LastWins
  <2>. SUFFICES ASSUME Quiet, wanted # None PROVE Mapped(panel[wanted])
    BY DEF LastWins
  <2>1. wanted \in Panels
    BY DEF Known, TypeOK
  <2>. QED  BY <2>1, QuietSlot DEF Course, WantedComes
<1>2. \A p \in Panels : panel[p].anim = "hide" => (panel[p].dontHide <=> p \in told)
  BY DEF Course, AllTell, Tells
<1>. QED  BY <1>1, <1>2 DEF HiderDecides, ToldKeepsToolbar, SelfTakesToolbar

\* Where requests come one at a time and neither a modal window nor a death
\* interferes, the panel that was asked for last is on the screen when all is quiet:
\* no handler that turns buttons back, and no timeout, undoes a request.
THEOREM ShowLastWins ==
  ASSUME ~Modal, Uses = {}, MaxDeaths = 0
  PROVE  Spec => []LastWins
<1>1. Known /\ Course => LastWins
  BY CourseSuffices
<1>. QED  BY <1>1, ShowKnown, ShowCourse, PTL

\* ... and dont_hide_toolbar is set throughout a hide animation exactly if it was the
\* shell that asked the panel to hide (mnb_panel_oop_hide, mnb_panel_oop_hide_animate).
THEOREM ShowHiderDecides ==
  ASSUME ~Modal, Uses = {}, MaxDeaths = 0
  PROVE  Spec => []HiderDecides
<1>1. Known /\ Course => HiderDecides
  BY CourseSuffices
<1>. QED  BY <1>1, ShowKnown, ShowCourse, PTL
=============================================================================
