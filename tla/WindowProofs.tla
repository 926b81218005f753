----------------------------- MODULE WindowProofs ---------------------------
(***************************************************************************)
(* What is proved about the window manager plugin's windows: the Alt+Tab   *)
(* switcher (Alttab), and the workspaces, the list of fullscreen windows   *)
(* and the compositor (Workspaces), for any number of windows and of       *)
(* workspaces.                                                             *)
(***************************************************************************)
EXTENDS Alttab, Workspaces, SequenceTheorems, FiniteSetTheorems, TLAPS

(***************************************************************************)
(* Lists without repetitions: what is left without one element, and what   *)
(* they are with one more.                                                 *)
(***************************************************************************)
LEMMA SameNotions == \A q : Elements(q) = ToSet(q) /\ (Distinct(q) <=> Once(q))
BY DEF Elements, ToSet, Distinct, Once

LEMMA ElementsType ==
  ASSUME NEW S, NEW q \in Seq(S)
  PROVE  Elements(q) \subseteq S
BY DEF Elements

LEMMA NoElements == Elements(<<>>) = {} /\ Distinct(<<>>)
BY DEF Elements, Distinct

LEMMA FirstPut ==
  ASSUME NEW S, NEW q \in Seq(S), NEW w \in S
  PROVE  /\ <<w>> \o q \in Seq(S)
         /\ Elements(<<w>> \o q) = {w} \cup Elements(q)
         /\ Distinct(q) /\ w \notin Elements(q) => Distinct(<<w>> \o q)
<1>. DEFINE p == <<w>> \o q
<1>1. /\ p \in Seq(S) /\ Len(q) \in Nat /\ Len(p) = 1 + Len(q)
      /\ DOMAIN q = 1..Len(q) /\ DOMAIN p = 1..Len(p)
      /\ p[1] = w /\ \A i \in 1..Len(q) : p[i + 1] = q[i]
  BY ConcatProperties
<1>. HIDE DEF p
<1>2. \A i \in DOMAIN p \ {1} : i - 1 \in DOMAIN q /\ p[i] = q[i - 1]
  <2>. SUFFICES ASSUME NEW i \in DOMAIN p \ {1} PROVE i - 1 \in DOMAIN q /\ p[i] = q[i - 1]
    OBVIOUS
  <2>1. i - 1 \in 1..Len(q) /\ (i - 1) + 1 = i
    BY <1>1
  <2>. QED  BY <1>1, <2>1
<1>3. \A i \in DOMAIN q : i + 1 \in DOMAIN p /\ p[i + 1] = q[i]
  BY <1>1
<1>4. 1 \in DOMAIN p
  BY <1>1
<1>5. Elements(p) = {w} \cup Elements(q)
  <2>1. ASSUME NEW x \in Elements(p) PROVE x = w \/ x \in Elements(q)
    BY <1>1, <1>2 DEF Elements
  <2>2. ASSUME NEW x \in Elements(q) PROVE x \in Elements(p)
    BY <1>3 DEF Elements
  <2>3. w \in Elements(p)
    BY <1>1, <1>4 DEF Elements
  <2>. QED  BY <2>1, <2>2, <2>3
<1>6. ASSUME Distinct(q), w \notin Elements(q) PROVE Distinct(p)
  <2>. SUFFICES ASSUME NEW i \in DOMAIN p, NEW j \in DOMAIN p, p[i] = p[j] PROVE i = j
    BY DEF Distinct
  <2>1. i = 1 <=> j = 1
    BY <1>1, <1>2, <1>6 DEF Elements
  <2>2. CASE i # 1
    <3>1. i - 1 = j - 1
      BY <1>2, <1>6, <2>1, <2>2 DEF Distinct
    <3>. QED  BY <1>1, <3>1
  <2>. QED  BY <2>1, <2>2
<1>. QED  BY <1>1, <1>5, <1>6 DEF p

LEMMA OneLess ==
  ASSUME NEW S, NEW q \in Seq(S), NEW n \in 1..Len(q), Once(q)
  PROVE  /\ RemoveAt(q, n) \in Seq(S) /\ Len(RemoveAt(q, n)) = Len(q) - 1
         /\ Once(RemoveAt(q, n)) /\ ToSet(RemoveAt(q, n)) = ToSet(q) \ {q[n]}
<1>. DEFINE a == SubSeq(q, 1, n - 1)
            b == SubSeq(q, n + 1, Len(q))
            p == a \o b
<1>1. Len(q) \in Nat /\ n \in Nat /\ 1 <= n /\ n <= Len(q) /\ DOMAIN q = 1..Len(q)
  OBVIOUS
<1>2. a \in Seq(S) /\ Len(a) = n - 1 /\ \A i \in 1..(n - 1) : a[i] = q[i]
  BY <1>1, SubSeqProperties
<1>3. b \in Seq(S) /\ Len(b) = Len(q) - n /\ \A i \in 1..(Len(q) - n) : b[i] = q[n + i]
  <2>. DEFINE l == Len(q)
  <2>1. /\ b \in Seq(S) /\ Len(b) = (IF n + 1 <= l THEN l - (n + 1) + 1 ELSE 0)
        /\ \A i \in 1..(l - (n + 1) + 1) : b[i] = q[(n + 1) + i - 1]
    <3>1. \A i \in (n + 1)..Len(q) : q[i] \in S
      BY <1>1
    <3>. QED  BY <1>1, <3>1, SubSeqProperties
  <2>2. l \in Nat /\ n \in Nat /\ n <= l
    BY <1>1
  <2>. HIDE DEF b, l
  <2>3. (IF n + 1 <= l THEN l - (n + 1) + 1 ELSE 0) = l - n
    BY <2>2
  <2>4. ASSUME NEW i \in 1..(l - n) PROVE b[i] = q[n + i]
    <3>1. (n + 1) + i - 1 = n + i /\ i \in 1..(l - (n + 1) + 1)
      BY <2>2
    <3>. QED  BY <2>1, <3>1
  <2>. QED  BY <2>1, <2>3, <2>4 DEF l
<1>. HIDE DEF a, b
<1>4. /\ p \in Seq(S) /\ Len(p) = Len(a) + Len(b)
      /\ \A i \in 1..Len(a) + Len(b) : p[i] = IF i <= Len(a) THEN a[i] ELSE b[i - Len(a)]
  BY <1>2, <1>3, ConcatProperties
<1>. HIDE DEF p
<1>5. Len(p) = Len(q) - 1 /\ DOMAIN p = 1..(Len(q) - 1)
  BY <1>1, <1>2, <1>3, <1>4
<1>6. ASSUME NEW i \in 1..(n - 1) PROVE i \in DOMAIN p /\ p[i] = q[i]
  <2>1. i \in 1..Len(a) + Len(b) /\ i <= Len(a) /\ i \in DOMAIN p
    BY <1>1, <1>2, <1>3, <1>5
  <2>. QED  BY <1>2, <1>4, <2>1
<1>7. ASSUME NEW i \in n..(Len(q) - 1) PROVE i \in DOMAIN p /\ p[i] = q[i + 1]
  <2>1. i - Len(a) \in 1..(Len(q) - n) /\ n + (i - Len(a)) = i + 1
    BY <1>1, <1>2
  <2>2. b[i - Len(a)] = q[i + 1]
    BY <1>3, <2>1
  <2>3. i \in 1..Len(a) + Len(b) /\ ~(i <= Len(a)) /\ i \in DOMAIN p
    BY <1>1, <1>2, <1>3, <1>5
  <2>. QED  BY <1>4, <2>2, <2>3
<1>8. ASSUME NEW i \in DOMAIN p
      PROVE  \E j \in DOMAIN q \ {n} : p[i] = q[j] /\ j = (IF i < n THEN i ELSE i + 1)
  <2>1. CASE i < n
    <3>1. i \in 1..(n - 1) /\ i \in DOMAIN q \ {n}
      BY <1>1, <1>5, <2>1
    <3>. QED  BY <1>6, <2>1, <3>1
  <2>2. CASE ~(i < n)
    <3>1. i \in n..(Len(q) - 1) /\ i + 1 \in DOMAIN q \ {n}
      BY <1>1, <1>5, <2>2
    <3>. QED  BY <1>7, <2>2, <3>1
  <2>. QED  BY <2>1, <2>2
<1>9. Once(p)
  <2>. SUFFICES ASSUME NEW i \in DOMAIN p, NEW j \in DOMAIN p, p[i] = p[j] PROVE i = j
    BY DEF Once
  <2>1. (IF i < n THEN i ELSE i + 1) = (IF j < n THEN j ELSE j + 1)
    BY <1>8 DEF Once
  <2>. QED  BY <1>1, <1>5, <2>1
<1>10. ToSet(p) = ToSet(q) \ {q[n]}
  <2>1. ASSUME NEW i \in DOMAIN p PROVE p[i] \in ToSet(q) \ {q[n]}
    BY <1>1, <1>8 DEF Once, ToSet
  <2>2. ASSUME NEW j \in DOMAIN q, q[j] # q[n] PROVE q[j] \in ToSet(p)
    <3>1. CASE j < n
      <4>1. j \in 1..(n - 1)
        BY <1>1, <3>1
      <4>2. j \in DOMAIN p /\ p[j] = q[j]
        BY <1>6, <4>1
      <4>. QED  BY <4>2 DEF ToSet
    <3>2. CASE j > n
      <4>1. j - 1 \in n..(Len(q) - 1) /\ (j - 1) + 1 = j
        BY <1>1, <3>2
      <4>2. j - 1 \in DOMAIN p /\ p[j - 1] = q[j]
        BY <1>7, <4>1
      <4>. QED  BY <4>2 DEF ToSet
    <3>. QED  BY <1>1, <2>2, <3>1, <3>2
  <2>. QED  BY <2>1, <2>2 DEF ToSet
<1>11. RemoveAt(q, n) = p
  BY DEF RemoveAt, p, a, b
<1>. QED  BY <1>4, <1>5, <1>9, <1>10, <1>11

LEMMA WithoutOne ==
  ASSUME NEW S, NEW q \in Seq(S), NEW w, Once(q)
  PROVE  /\ Without(q, w) \in Seq(S) /\ Once(Without(q, w))
         /\ ToSet(Without(q, w)) = ToSet(q) \ {w}
<1>1. CASE w \notin ToSet(q)
  BY <1>1 DEF Without
<1>2. CASE w \in ToSet(q)
  <2>. DEFINE k == CHOOSE i \in DOMAIN q : q[i] = w /\ \A j \in 1..i - 1 : q[j] # w
  <2>1. PICK i \in DOMAIN q : q[i] = w
    BY <1>2 DEF ToSet
  <2>2. \A j \in 1..i - 1 : q[j] # w
    <3>1. \A j \in 1..i - 1 : j \in DOMAIN q /\ j # i
      BY <2>1
    <3>. QED  BY <2>1, <3>1 DEF Once
  <2>3. k \in 1..Len(q) /\ q[k] = w
    BY <2>1, <2>2
  <2>4. Without(q, w) = RemoveAt(q, k)
    BY <1>2 DEF Without
  <2>. HIDE DEF k
  <2>. QED  BY <2>3, <2>4, OneLess
<1>. QED  BY <1>1, <1>2

LEMMA LeftOut ==
  ASSUME NEW S, NEW q \in Seq(S), NEW w, Distinct(q)
  PROVE  /\ Minus(q, w) \in Seq(S) /\ Distinct(Minus(q, w))
         /\ Elements(Minus(q, w)) = Elements(q) \ {w}
<1>1. CASE w \notin Elements(q)
  BY <1>1 DEF Minus
<1>2. CASE w \in Elements(q)
  <2>1. At(q, w) \in 1..Len(q) /\ q[At(q, w)] = w
    BY <1>2 DEF At, Elements
  <2>2. Minus(q, w) = RemoveAt(q, At(q, w))
    BY <1>2 DEF Minus, RemoveAt
  <2>. QED  BY <2>1, <2>2, OneLess, SameNotions
<1>. QED  BY <1>1, <1>2

LEMMA OneBefore ==
  ASSUME NEW S, NEW q \in Seq(S), NEW w \in S, Once(q), w \notin ToSet(q)
  PROVE  <<w>> \o q \in Seq(S) /\ Once(<<w>> \o q) /\ ToSet(<<w>> \o q) = {w} \cup ToSet(q)
BY FirstPut, SameNotions

LEMMA OneAfter ==
  ASSUME NEW S, NEW q \in Seq(S), NEW w \in S, Once(q), w \notin ToSet(q)
  PROVE  /\ Append(q, w) \in Seq(S) /\ Once(Append(q, w)) /\ ToSet(Append(q, w)) = {w} \cup ToSet(q)
         /\ Len(Append(q, w)) = Len(q) + 1 /\ Append(q, w)[Len(q) + 1] = w
<1>1. Len(q) \in Nat /\ DOMAIN q = 1..Len(q)
  OBVIOUS
<1>2. \A i \in DOMAIN q : q[i] # w
  BY DEF ToSet
<1>. QED
  <2>. DEFINE r == Append(q, w)
  <2>1. /\ r \in Seq(S) /\ Len(r) = Len(q) + 1 /\ r[Len(q) + 1] = w
        /\ \A i \in 1..Len(q) : r[i] = q[i]
    BY AppendProperties
  <2>2. DOMAIN r = 1..(Len(q) + 1)
    BY <2>1
  <2>. HIDE DEF r
  <2>3. \A i \in DOMAIN r : i \in DOMAIN q \/ i = Len(q) + 1
    BY <1>1, <2>2
  <2>4. Once(r)
    <3>. SUFFICES ASSUME NEW i \in DOMAIN r, NEW j \in DOMAIN r, r[i] = r[j] PROVE i = j
      BY DEF Once
    <3>. QED  BY <1>1, <1>2, <2>1, <2>3 DEF Once
  <2>5. ToSet(r) = {w} \cup ToSet(q)
    <3>1. ASSUME NEW i \in DOMAIN r PROVE r[i] \in {w} \cup ToSet(q)
      BY <1>1, <2>1, <2>3 DEF ToSet
    <3>2. ASSUME NEW i \in DOMAIN q PROVE i \in DOMAIN r /\ q[i] = r[i]
      BY <1>1, <2>1, <2>2
    <3>3. Len(q) + 1 \in DOMAIN r
      BY <1>1, <2>2
    <3>. QED  BY <2>1, <3>1, <3>2, <3>3 DEF ToSet
  <2>. QED  BY <2>1, <2>4, <2>5 DEF r

-----------------------------------------------------------------------------
(***************************************************************************)
(* However Tab and Alt are hit, and whatever windows, grabs, notifications *)
(* and timeouts do meanwhile: a switch by Alt+Tab begins with nothing left *)
(* of the one before, and releasing Alt goes to the highlighted window.    *)
(***************************************************************************)
AltStates == [mru: Seq(AltWindows), grabbed: BOOLEAN, inGrab: BOOLEAN, down: BOOLEAN,
              waiting: BOOLEAN, timers: Nat, slow: BOOLEAN, shown: BOOLEAN,
              apps: Seq(AltWindows), lit: AltWindows \cup {NoWindow},
              picked: AltWindows \cup {NoWindow}]

\* The one initial timeout runs only while the overlay is hidden, and the slow-down
\* timeout only while it is shown.
OneTimeout(s) == /\ s.timers = (IF s.waiting THEN 1 ELSE 0)
                 /\ s.waiting => ~s.shown
                 /\ s.slow => s.shown

\* The overlay's apps are open windows, and the highlighted one is the picked one.
Lists(s) == /\ Distinct(s.mru) /\ Distinct(s.apps)
            /\ Elements(s.apps) \subseteq Elements(s.mru)
            /\ ~s.shown => s.apps = <<>>
            /\ s.lit # NoWindow => s.lit \in Elements(s.apps) /\ s.picked = s.lit

Clean(s) == s \in AltStates /\ OneTimeout(s) /\ Lists(s)

AltInv == Clean(AltState) /\ {urgent, sysModal, noCompositor} \subseteq BOOLEAN

-----------------------------------------------------------------------------
(***************************************************************************)
(* The handlers' common parts.                                             *)
(***************************************************************************)
LEMMA AltFields ==
  ASSUME NEW s \in AltStates
  PROVE  /\ s.mru \in Seq(AltWindows) /\ s.apps \in Seq(AltWindows)
         /\ s.lit \in AltWindows \cup {NoWindow} /\ s.picked \in AltWindows \cup {NoWindow}
         /\ s.timers \in Nat /\ s.waiting \in BOOLEAN /\ s.shown \in BOOLEAN
         /\ s.inGrab \in BOOLEAN /\ s.slow \in BOOLEAN /\ s.down \in BOOLEAN
         /\ s.grabbed \in BOOLEAN
BY DEF AltStates

\* The grab, the flag for Alt and a slow-down timeout that goes are nobody's matter.
Same(s, t) == /\ t \in AltStates /\ t.mru = s.mru /\ t.apps = s.apps
              /\ t.lit = s.lit /\ t.picked = s.picked /\ t.shown = s.shown
              /\ t.waiting = s.waiting /\ t.timers = s.timers /\ (t.slow => s.slow)

LEMMA SameIsClean ==
  ASSUME NEW s, Clean(s), NEW t, Same(s, t)
  PROVE  Clean(t)
BY DEF Clean, Same, OneTimeout, Lists

LEMMA FlagsSame ==
  ASSUME NEW s \in AltStates, NEW on \in BOOLEAN
  PROVE  /\ Same(s, s) /\ Same(s, EndGrab(s)) /\ Same(s, [s EXCEPT !.slow = FALSE])
         /\ Same(s, [s EXCEPT !.down = on]) /\ Same(s, [s EXCEPT !.grabbed = on])
         /\ Same(s, [s EXCEPT !.inGrab = on])
BY ZenonT(60) DEF Same, EndGrab, AltStates

LEMMA HideIsClean ==
  ASSUME NEW s, Clean(s)
  PROVE  /\ Clean(HideOverlay(s)) /\ HideOverlay(s).mru = s.mru
         /\ ~HideOverlay(s).shown
<1>. DEFINE t == HideOverlay(s)
<1>1. <<>> \in Seq(AltWindows) /\ NoWindow \in AltWindows \cup {NoWindow}
  OBVIOUS
<1>2. /\ t \in AltStates /\ t.mru = s.mru /\ t.apps = <<>> /\ t.lit = NoWindow
      /\ ~t.shown /\ ~t.slow /\ t.waiting = s.waiting /\ t.timers = s.timers
  BY <1>1 DEF Clean, AltStates, HideOverlay
<1>. HIDE DEF t
<1>. QED  BY <1>2, NoElements DEF Clean, OneTimeout, Lists, t

LEMMA ActivateIsClean ==
  ASSUME NEW s, Clean(s), NEW w \in Elements(s.mru)
  PROVE  /\ Clean(ActivateWindow(s, w)) /\ ActivateWindow(s, w).shown = s.shown
         /\ ActivateWindow(s, w).mru = <<w>> \o Minus(s.mru, w)
<1>. DEFINE m == <<w>> \o Minus(s.mru, w)
            t == ActivateWindow(s, w)
<1>1. s.mru \in Seq(AltWindows) /\ Distinct(s.mru) /\ w \in AltWindows
  BY ElementsType DEF Clean, AltStates, Lists
<1>2. /\ Minus(s.mru, w) \in Seq(AltWindows) /\ Distinct(Minus(s.mru, w))
      /\ Elements(Minus(s.mru, w)) = Elements(s.mru) \ {w}
  BY <1>1, LeftOut
<1>3. m \in Seq(AltWindows) /\ Distinct(m) /\ Elements(m) = Elements(s.mru)
  <2>1. /\ m \in Seq(AltWindows) /\ Elements(m) = {w} \cup Elements(Minus(s.mru, w))
        /\ w \notin Elements(Minus(s.mru, w)) => Distinct(m)
    BY <1>1, <1>2, FirstPut
  <2>. QED  BY <1>2, <2>1
<1>. HIDE DEF m
<1>4. t = [s EXCEPT !.inGrab = FALSE, !.mru = m]
  BY DEF ActivateWindow, m
<1>. HIDE DEF t
<1>5. /\ t \in AltStates /\ t.mru = m /\ t.apps = s.apps /\ t.lit = s.lit
      /\ t.picked = s.picked /\ t.shown = s.shown /\ t.slow = s.slow
      /\ t.waiting = s.waiting /\ t.timers = s.timers
  BY <1>3, <1>4 DEF Clean, AltStates
<1>6. Clean(t)
  BY <1>3, <1>5 DEF Clean, OneTimeout, Lists
<1>. QED  BY <1>5, <1>6 DEF t, m

\* An action that leaves the rest alone goes to the state it computes.
LEMMA AltBecoming ==
  ASSUME AltInv, NEW t, Clean(t), AltBecome(t)
  PROVE  AltInv' /\ AltState' = t
<1>1. t = [mru |-> t.mru, grabbed |-> t.grabbed, inGrab |-> t.inGrab, down |-> t.down,
           waiting |-> t.waiting, timers |-> t.timers, slow |-> t.slow, shown |-> t.shown,
           apps |-> t.apps, lit |-> t.lit, picked |-> t.picked]
  BY DEF Clean, AltStates
<1>2. AltState' = t
  BY <1>1 DEF AltBecome, AltState
<1>3. Clean(AltState)'
  BY <1>2
<1>. QED  BY <1>2, <1>3 DEF AltBecome, AltInv

-----------------------------------------------------------------------------
(***************************************************************************)
(* The handlers.                                                           *)
(***************************************************************************)
\* Whatever hides the overlay leaves the windows' order alone or goes to the
\* window that is highlighted.
GoesRight(s, t) == s.shown /\ ~t.shown /\ s.lit # NoWindow
                     => t.mru = s.mru \/ t.mru = <<s.lit>> \o Minus(s.mru, s.lit)

\* What every handler does.
Handled == \E t : Clean(t) /\ GoesRight(AltState, t) /\ AltBecome(t)

LEMMA DroppedIsClean ==
  ASSUME NEW s, Clean(s)
  PROVE  Clean(Dropped(s)) /\ Dropped(s).mru = s.mru
<1>. DEFINE h == IF s.shown THEN HideOverlay(s) ELSE s
            e == EndGrab(h)
<1>1. Clean(h) /\ h.mru = s.mru
  BY HideIsClean
<1>. HIDE DEF h
<1>2. Clean(e) /\ e.mru = s.mru
  BY <1>1, FlagsSame, SameIsClean DEF Clean, Same
<1>. HIDE DEF e
<1>3. Clean([e EXCEPT !.down = FALSE]) /\ [e EXCEPT !.down = FALSE].mru = s.mru
  BY <1>2, FlagsSame, SameIsClean, ZenonT(60) DEF Clean, Same
<1>. QED  BY <1>3 DEF Dropped, e, h

LEMMA AdvanceIsClean ==
  ASSUME NEW s, Clean(s), NEW backward \in BOOLEAN
  PROVE  Clean(Advance(s, backward)) /\ Advance(s, backward).shown = s.shown
<1>1. CASE s.lit = NoWindow
  BY <1>1 DEF Advance
<1>2. CASE s.lit # NoWindow
  <2>. DEFINE w == After(s, backward)
              t == [s EXCEPT !.lit = w, !.picked = w]
  <2>1. s.apps \in Seq(AltWindows) /\ s.lit \in Elements(s.apps)
    BY <1>2 DEF Clean, AltStates, Lists
  <2>2. At(s.apps, s.lit) \in DOMAIN s.apps
    BY <2>1 DEF At, Elements
  <2>3. w \in Elements(s.apps)
    <3>1. DOMAIN s.apps = 1..Len(s.apps) /\ Len(s.apps) \in Nat
      BY <2>1
    <3>2. PICK k \in DOMAIN s.apps : w = s.apps[k]
      BY <2>2, <3>1 DEF After
    <3>. QED  BY <3>2 DEF Elements
  <2>4. w \in AltWindows
    BY <2>1, <2>3, ElementsType
  <2>. HIDE DEF w
  <2>5. /\ t \in AltStates /\ t.mru = s.mru /\ t.apps = s.apps /\ t.shown = s.shown
        /\ t.slow = s.slow /\ t.waiting = s.waiting /\ t.timers = s.timers
        /\ t.lit = w /\ t.picked = w
    BY <2>4 DEF Clean, AltStates
  <2>6. Advance(s, backward) = t
    BY <1>2 DEF Advance, w
  <2>. HIDE DEF t
  <2>. QED  BY <2>3, <2>5, <2>6 DEF Clean, OneTimeout, Lists
<1>. QED  BY <1>1, <1>2

LEMMA ShowIsClean ==
  ASSUME NEW s, Clean(s), ~s.waiting, ~s.shown, Len(s.mru) >= 2
  PROVE  Clean(ShowOverlay(s))
<1>. DEFINE w == s.mru[2]
            t == ShowOverlay(s)
<1>1. s.mru \in Seq(AltWindows) /\ s.apps = <<>>
  BY DEF Clean, AltStates, Lists
<1>2. s.mru \o s.apps = s.mru
  BY <1>1, ConcatEmptySeq
<1>3. w \in Elements(s.mru) /\ w \in AltWindows
  <2>1. 2 \in DOMAIN s.mru
    BY <1>1
  <2>. QED  BY <1>1, <2>1, ElementsType DEF Elements
<1>. HIDE DEF w
<1>4. t = [s EXCEPT !.shown = TRUE, !.apps = s.mru \o s.apps, !.lit = w, !.picked = w]
  BY DEF ShowOverlay, w, Clean, AltStates
<1>. HIDE DEF t
<1>5. /\ t \in AltStates /\ t.mru = s.mru /\ t.apps = s.mru /\ t.shown
      /\ t.slow = s.slow /\ t.waiting = s.waiting /\ t.timers = s.timers
      /\ t.lit = w /\ t.picked = w
  BY <1>1, <1>2, <1>3, <1>4 DEF Clean, AltStates
<1>. QED  BY <1>3, <1>5 DEF Clean, OneTimeout, Lists, t

LEMMA TakenSame ==
  ASSUME Clean(AltState)
  PROVE  Same(AltState, Taken) /\ Clean(Taken)
<1>1. Same(AltState, Taken)
  BY DEF Clean, AltStates, Same, Taken
<1>. QED  BY <1>1, SameIsClean

\* The app that is picked is gone only if nothing is highlighted.
LEMMA SelectionIsClean ==
  ASSUME NEW s, Clean(s), NEW x \in SelectionOutcomes(s)
  PROVE  Clean(x) /\ GoesRight(s, x)
<1>. DEFINE t == [s EXCEPT !.picked = NoWindow]
            u == IF s.shown THEN HideOverlay(t) ELSE t
<1>1. CASE s.picked = NoWindow
  BY <1>1 DEF SelectionOutcomes, GoesRight
<1>2. /\ t \in AltStates /\ t.mru = s.mru /\ t.apps = s.apps /\ t.shown = s.shown
      /\ t.slow = s.slow /\ t.waiting = s.waiting /\ t.timers = s.timers /\ t.lit = s.lit
  BY DEF Clean, AltStates
<1>3. s.lit = NoWindow => Clean(t)
  BY <1>2 DEF Clean, OneTimeout, Lists
<1>4. Clean(u) \/ (~s.shown /\ s.lit # NoWindow)
  <2>1. CASE s.shown
    <3>. DEFINE h == HideOverlay(s)
    <3>1. Clean(h) /\ h.lit = NoWindow
      BY HideIsClean DEF HideOverlay, Clean, AltStates
    <3>2. HideOverlay(t) = [h EXCEPT !.picked = NoWindow]
      BY DEF HideOverlay, Clean, AltStates
    <3>. HIDE DEF h
    <3>3. Clean([h EXCEPT !.picked = NoWindow])
      BY <3>1 DEF Clean, AltStates, OneTimeout, Lists
    <3>4. u = [h EXCEPT !.picked = NoWindow]
      BY <2>1, <3>2
    <3>. HIDE DEF u
    <3>. QED  BY <3>3, <3>4
  <2>2. CASE ~s.shown
    <3>1. u = t
      BY <2>2
    <3>. HIDE DEF u, t
    <3>. QED  BY <1>3, <2>2, <3>1
  <2>. QED  BY <2>1, <2>2
<1>5. u.mru = s.mru
  BY <1>2 DEF HideOverlay, AltStates
<1>6. ~s.shown => s.apps = <<>> /\ s.lit = NoWindow
  BY NoElements DEF Clean, Lists
<1>7. Clean(u)
  BY <1>4, <1>6
<1>. HIDE DEF u
<1>8. \A w \in Elements(s.mru) : /\ Clean(ActivateWindow(u, w))
                                 /\ ActivateWindow(u, w).mru = <<w>> \o Minus(s.mru, w)
  BY <1>5, <1>7, ActivateIsClean
<1>9. CASE s.picked # NoWindow /\ s.picked \in Elements(s.apps)
  <2>1. x = ActivateWindow(u, s.picked)
    BY <1>9 DEF SelectionOutcomes, u
  <2>2. s.picked \in Elements(s.mru) /\ (s.lit # NoWindow => s.picked = s.lit)
    BY <1>9 DEF Clean, Lists
  <2>. QED  BY <1>8, <2>1, <2>2 DEF GoesRight
<1>10. CASE s.picked # NoWindow /\ s.picked \notin Elements(s.apps)
  <2>1. s.lit = NoWindow
    BY <1>10 DEF Clean, Lists
  <2>2. x = t \/ \E w \in Elements(s.mru) : x = ActivateWindow(u, w)
    BY <1>10 DEF SelectionOutcomes, u
  <2>. QED  BY <1>3, <1>8, <2>1, <2>2 DEF GoesRight
<1>. QED  BY <1>1, <1>9, <1>10

-----------------------------------------------------------------------------
(***************************************************************************)
(* The actions.                                                            *)
(***************************************************************************)
\* A handler that keeps the overlay, or the order of the windows.
LEMMA HandledSo ==
  ASSUME NEW t, Clean(t), AltBecome(t), t.shown = shown \/ t.mru = mru
  PROVE  Handled
<1>1. GoesRight(AltState, t)
  BY DEF GoesRight, AltState
<1>. QED  BY <1>1 DEF Handled

LEMMA SameHandled ==
  ASSUME Clean(AltState), NEW t, Same(AltState, t), AltBecome(t)
  PROVE  Handled
<1>1. Clean(t) /\ t.mru = mru
  BY SameIsClean DEF Same, AltState
<1>. QED  BY <1>1, HandledSo

LEMMA TabFullscreenHandled ==
  ASSUME Clean(AltState), TabFullscreen
  PROVE  Handled
<1>. DEFINE s == IF Len(mru) >= 2 THEN ActivateWindow(AltState, mru[Len(mru)]) ELSE AltState
            t == IF s.inGrab THEN [EndGrab(s) EXCEPT !.down = FALSE] ELSE s
<1>1. mru \in Seq(AltWindows)
  BY DEF Clean, AltStates, AltState
<1>2. Clean(s) /\ s.shown = shown
  <2>1. CASE Len(mru) >= 2
    <3>. DEFINE w == mru[Len(mru)]
    <3>1. Len(mru) \in DOMAIN mru
      BY <1>1, <2>1
    <3>2. w \in Elements(AltState.mru)
      BY <3>1 DEF Elements, AltState
    <3>3. s = ActivateWindow(AltState, w)
      BY <2>1
    <3>. HIDE DEF w, s
    <3>4. Clean(s) /\ s.shown = AltState.shown
      BY <3>2, <3>3, ActivateIsClean
    <3>. QED  BY <3>4 DEF AltState
  <2>2. CASE ~(Len(mru) >= 2)
    <3>1. s = AltState
      BY <2>2
    <3>. HIDE DEF s
    <3>. QED  BY <3>1 DEF AltState
  <2>. QED  BY <2>1, <2>2
<1>3. AltBecome(t)
  BY DEF TabFullscreen
<1>. HIDE DEF s
<1>4. Clean(t) /\ t.shown = s.shown
  <2>. DEFINE e == EndGrab(s)
  <2>1. Clean(e) /\ e.shown = s.shown
    BY <1>2, FlagsSame, SameIsClean DEF Clean, Same
  <2>. HIDE DEF e
  <2>2. Clean([e EXCEPT !.down = FALSE]) /\ [e EXCEPT !.down = FALSE].shown = e.shown
    BY <2>1, FlagsSame, SameIsClean, ZenonT(60) DEF Clean, Same
  <2>3. t = [e EXCEPT !.down = FALSE] \/ t = s
    BY DEF e
  <2>. HIDE DEF t
  <2>. QED  BY <1>2, <2>1, <2>2, <2>3
<1>. HIDE DEF t
<1>. QED  BY <1>2, <1>3, <1>4, HandledSo

LEMMA TabRefusedHandled ==
  ASSUME Clean(AltState), TabRefused
  PROVE  Handled
<1>1. Clean(Dropped(AltState)) /\ Dropped(AltState).mru = AltState.mru
  BY DroppedIsClean
<1>2. AltBecome(Dropped(AltState)) /\ AltState.mru = mru
  BY DEF TabRefused, AltState
<1>. QED  BY <1>1, <1>2, HandledSo

LEMMA TabNoGrabHandled ==
  ASSUME Clean(AltState), TabNoGrab
  PROVE  Handled
<1>. DEFINE t == [AltState EXCEPT !.down = FALSE, !.slow = FALSE]
<1>1. Same(AltState, t)
  BY DEF Clean, AltStates, Same
<1>2. AltBecome(t)
  BY DEF TabNoGrab
<1>. HIDE DEF t
<1>. QED  BY <1>1, <1>2, SameHandled

LEMMA TabFirstHandled ==
  ASSUME Clean(AltState), NEW present, TabFirst(present)
  PROVE  Handled
<1>. DEFINE t == [Taken EXCEPT !.waiting = TRUE, !.timers = @ + 1]
<1>1. ~AltState.waiting /\ ~AltState.shown
  BY DEF TabFirst, CanWait, AltState
<1>2. Same(AltState, Taken) /\ Clean(Taken)
  BY TakenSame
<1>3. /\ t \in AltStates /\ t.mru = Taken.mru /\ t.apps = Taken.apps
      /\ t.shown = Taken.shown /\ t.slow = Taken.slow /\ t.lit = Taken.lit
      /\ t.picked = Taken.picked /\ t.waiting /\ t.timers = Taken.timers + 1
  <2>. DEFINE n == Taken.timers + 1
  <2>1. Taken \in AltStates /\ n \in Nat
    BY <1>2 DEF Clean, AltStates
  <2>2. t = [Taken EXCEPT !.waiting = TRUE, !.timers = n]
    BY <2>1 DEF AltStates
  <2>3. n = Taken.timers + 1
    OBVIOUS
  <2>. HIDE DEF n, t
  <2>. QED  BY <2>1, <2>2, <2>3 DEF AltStates
<1>4. AltBecome(t)
  BY DEF TabFirst
<1>. HIDE DEF t
<1>5. Taken.timers = 0 /\ ~Taken.shown /\ Taken.mru = mru
  BY <1>1, <1>2 DEF Clean, OneTimeout, Same, AltState
<1>6. Clean(t) /\ t.mru = mru
  BY <1>2, <1>3, <1>5 DEF Clean, OneTimeout, Lists
<1>. QED  BY <1>4, <1>6, HandledSo

LEMMA TabAgainHandled ==
  ASSUME Clean(AltState), NEW present, NEW backward \in BOOLEAN,
         TabAgain(present, backward)
  PROVE  Handled
<1>1. Same(AltState, Taken) /\ Clean(Taken)
  BY TakenSame
<1>2. CASE slow \/ altWaiting
  <2>1. AltBecome(Taken)
    BY <1>2 DEF TabAgain
  <2>. QED  BY <1>1, <2>1, SameHandled
<1>3. CASE ~(slow \/ altWaiting)
  <2>. DEFINE s == [Taken EXCEPT !.slow = TRUE]
  <2>1. AltBecome(Advance(s, backward))
    BY <1>3 DEF TabAgain
  <2>2. AltState.shown
    BY <1>3 DEF TabAgain, CanWait, AltState, Clean, AltStates
  <2>3. Taken.shown
    BY <1>1, <2>2 DEF Same
  <2>4. /\ s \in AltStates /\ s.mru = Taken.mru /\ s.apps = Taken.apps
        /\ s.shown = Taken.shown /\ s.slow /\ s.lit = Taken.lit /\ s.picked = Taken.picked
        /\ s.waiting = Taken.waiting /\ s.timers = Taken.timers
    BY <1>1 DEF Clean, AltStates
  <2>. HIDE DEF s
  <2>5. Clean(s)
    BY <1>1, <2>3, <2>4 DEF Clean, OneTimeout, Lists
  <2>6. s.shown = shown
    BY <1>1, <2>4 DEF Same, AltState
  <2>7. Clean(Advance(s, backward)) /\ Advance(s, backward).shown = s.shown
    BY <2>5, AdvanceIsClean
  <2>. QED  BY <2>1, <2>6, <2>7, HandledSo
<1>. QED  BY <1>2, <1>3

LEMMA AltReleasedHandled ==
  ASSUME Clean(AltState), AltReleased
  PROVE  Handled
<1>. DEFINE s == AltState
            e == EndGrab(s)
            f == [e EXCEPT !.inGrab = FALSE]
            g == [f EXCEPT !.down = FALSE]
<1>1. PICK x \in SelectOutcomes(s) : AltBecome([x EXCEPT !.grabbed = FALSE])
  BY DEF AltReleased
<1>2. [e EXCEPT !.inGrab = FALSE, !.down = FALSE] = g
  BY FlagsSame DEF Clean, Same, AltStates
<1>3. x \in IF urgent \/ s.waiting THEN {g} ELSE SelectionOutcomes(g)
  BY <1>1, <1>2 DEF SelectOutcomes
<1>. HIDE DEF s
<1>4. Clean(e) /\ e.mru = s.mru /\ e.lit = s.lit /\ e.shown = s.shown
  BY FlagsSame, SameIsClean DEF Clean, Same, s
<1>. HIDE DEF e
<1>5. Clean(f) /\ f.mru = s.mru /\ f.lit = s.lit /\ f.shown = s.shown
  BY <1>4, FlagsSame, SameIsClean, ZenonT(60) DEF Clean, Same
<1>. HIDE DEF f
<1>6. Clean(g) /\ g.mru = s.mru /\ g.lit = s.lit /\ g.shown = s.shown
  BY <1>5, FlagsSame, SameIsClean, ZenonT(60) DEF Clean, Same
<1>. HIDE DEF g
<1>7. Clean(x) /\ GoesRight(s, x)
  <2>1. CASE x = g
    BY <1>6, <2>1 DEF GoesRight
  <2>2. CASE x \in SelectionOutcomes(g)
    <3>1. Clean(x) /\ GoesRight(g, x)
      BY <1>6, <2>2, SelectionIsClean
    <3>. QED  BY <1>6, <3>1 DEF GoesRight
  <2>. QED  BY <1>3, <2>1, <2>2
<1>. DEFINE t == [x EXCEPT !.grabbed = FALSE]
<1>8. Clean(t) /\ t.mru = x.mru /\ t.shown = x.shown
  BY <1>7, FlagsSame, SameIsClean, ZenonT(60) DEF Clean, Same
<1>9. AltBecome(t)
  BY <1>1
<1>. HIDE DEF t
<1>10. GoesRight(s, t)
  BY <1>7, <1>8 DEF GoesRight
<1>. QED  BY <1>8, <1>9, <1>10 DEF Handled, s

LEMMA OtherKeyHandled ==
  ASSUME Clean(AltState), OtherKey
  PROVE  Handled
<1>. DEFINE e == EndGrab(AltState)
            f == [e EXCEPT !.down = FALSE]
            h == IF f.shown THEN HideOverlay(f) ELSE f
            t == [h EXCEPT !.grabbed = FALSE]
<1>1. AltBecome(t)
  BY DEF OtherKey
<1>2. Clean(e) /\ e.mru = AltState.mru
  BY FlagsSame, SameIsClean DEF Clean, Same
<1>. HIDE DEF e
<1>3. Clean(f) /\ f.mru = e.mru
  BY <1>2, FlagsSame, SameIsClean, ZenonT(60) DEF Clean, Same
<1>. HIDE DEF f
<1>4. Clean(h) /\ h.mru = f.mru
  BY <1>3, HideIsClean
<1>. HIDE DEF h
<1>5. Clean(t) /\ t.mru = h.mru
  BY <1>4, FlagsSame, SameIsClean, ZenonT(60) DEF Clean, Same
<1>. HIDE DEF t
<1>6. t.mru = mru
  BY <1>2, <1>3, <1>4, <1>5 DEF AltState
<1>. QED  BY <1>1, <1>5, <1>6, HandledSo

LEMMA InitialTimeoutHandled ==
  ASSUME Clean(AltState), InitialTimeout
  PROVE  Handled
<1>. DEFINE s == [AltState EXCEPT !.timers = @ - 1, !.waiting = FALSE]
            a == ActivateWindow(s, s.mru[2])
            t == IF s.down /\ ~noCompositor
                 THEN IF Len(s.mru) >= 2 THEN ShowOverlay(s) ELSE EndGrab(s)
                 ELSE IF s.down THEN s
                 ELSE EndGrab(IF Len(s.mru) >= 2 THEN a ELSE s)
<1>1. AltBecome(t) /\ timers > 0
  BY DEF InitialTimeout
<1>2. AltState.timers = timers /\ AltState.shown = shown
  BY DEF AltState
<1>3. AltState.timers = 1 /\ ~AltState.shown
  BY <1>1, <1>2 DEF Clean, OneTimeout
<1>4. s = [AltState EXCEPT !.timers = 0, !.waiting = FALSE]
  BY <1>3 DEF AltState
<1>. HIDE DEF s
<1>5. /\ s \in AltStates /\ s.mru = AltState.mru /\ s.apps = AltState.apps
      /\ s.shown = AltState.shown /\ s.slow = AltState.slow /\ s.lit = AltState.lit
      /\ s.picked = AltState.picked /\ ~s.waiting /\ s.timers = 0
  BY <1>4 DEF Clean, AltStates
<1>6. Clean(s) /\ ~s.shown /\ s.mru \in Seq(AltWindows)
  BY <1>3, <1>5 DEF Clean, OneTimeout, Lists, AltStates
<1>7. Len(s.mru) >= 2 => Clean(ShowOverlay(s))
  BY <1>5, <1>6, ShowIsClean
<1>8. Len(s.mru) >= 2 => Clean(a)
  <2>1. Len(s.mru) >= 2 => 2 \in DOMAIN s.mru
    BY <1>6
  <2>2. Len(s.mru) >= 2 => s.mru[2] \in Elements(s.mru)
    BY <2>1 DEF Elements
  <2>. QED  BY <1>6, <2>2, ActivateIsClean
<1>. HIDE DEF a
<1>9. Clean(EndGrab(s)) /\ (Len(s.mru) >= 2 => Clean(EndGrab(a)))
  BY <1>6, <1>8, FlagsSame, SameIsClean DEF Clean
<1>10. t \in {s, EndGrab(s)} \/ (Len(s.mru) >= 2 /\ t \in {ShowOverlay(s), EndGrab(a)})
  OBVIOUS
<1>. HIDE DEF t
<1>11. Clean(t)
  BY <1>6, <1>7, <1>9, <1>10
<1>12. GoesRight(AltState, t)
  BY <1>3 DEF GoesRight
<1>. QED  BY <1>1, <1>11, <1>12 DEF Handled

LEMMA SlowTimeoutHandled ==
  ASSUME Clean(AltState), SlowTimeout
  PROVE  Handled
<1>1. Same(AltState, [AltState EXCEPT !.slow = FALSE])
  BY FlagsSame DEF Clean
<1>2. AltBecome([AltState EXCEPT !.slow = FALSE])
  BY DEF SlowTimeout
<1>. QED  BY <1>1, <1>2, SameHandled

LEMMA GrabLostHandled ==
  ASSUME Clean(AltState), GrabLost
  PROVE  Handled
<1>. DEFINE s == [AltState EXCEPT !.grabbed = FALSE]
            f == [s EXCEPT !.inGrab = FALSE]
            t == IF s.inGrab THEN HideOverlay(f) ELSE s
<1>1. AltBecome(t)
  BY DEF GrabLost
<1>2. Clean(s) /\ s.mru = AltState.mru
  BY FlagsSame, SameIsClean, ZenonT(60) DEF Clean, Same
<1>. HIDE DEF s
<1>3. Clean(f) /\ f.mru = s.mru
  BY <1>2, FlagsSame, SameIsClean, ZenonT(60) DEF Clean, Same
<1>. HIDE DEF f
<1>4. Clean(t) /\ t.mru = s.mru
  BY <1>2, <1>3, HideIsClean
<1>. HIDE DEF t
<1>5. t.mru = mru
  BY <1>2, <1>4 DEF AltState
<1>. QED  BY <1>1, <1>4, <1>5, HandledSo

LEMMA WindowOpensHandled ==
  ASSUME Clean(AltState), NEW w \in AltWindows, WindowOpens(w)
  PROVE  Handled
<1>. DEFINE m == <<w>> \o mru
            t == [AltState EXCEPT !.mru = m]
<1>1. AltBecome(t) /\ w \notin Elements(mru)
  BY DEF WindowOpens, AltState
<1>2. AltState.mru = mru /\ AltState.shown = shown /\ mru \in Seq(AltWindows) /\ Distinct(mru)
  BY DEF Clean, AltStates, Lists, AltState
<1>3. m \in Seq(AltWindows) /\ Distinct(m) /\ Elements(mru) \subseteq Elements(m)
  <2>1. /\ m \in Seq(AltWindows) /\ Elements(m) = {w} \cup Elements(mru)
        /\ Distinct(mru) /\ w \notin Elements(mru) => Distinct(m)
    BY <1>2, FirstPut
  <2>. QED  BY <1>1, <1>2, <2>1
<1>. HIDE DEF m
<1>4. /\ t \in AltStates /\ t.mru = m /\ t.apps = AltState.apps
      /\ t.shown = AltState.shown /\ t.slow = AltState.slow /\ t.lit = AltState.lit
      /\ t.picked = AltState.picked /\ t.waiting = AltState.waiting
      /\ t.timers = AltState.timers
  BY <1>3 DEF Clean, AltStates
<1>. HIDE DEF t
<1>5. Clean(t)
  BY <1>2, <1>3, <1>4 DEF Clean, OneTimeout, Lists
<1>. QED  BY <1>1, <1>2, <1>4, <1>5, HandledSo

LEMMA WindowClosesHandled ==
  ASSUME Clean(AltState), NEW w \in AltWindows, WindowCloses(w)
  PROVE  Handled
<1>. DEFINE s == AltState
            m == Minus(s.mru, w)
            a == Minus(s.apps, w)
            l == IF s.lit = w /\ w \in Elements(s.apps) THEN NoWindow ELSE s.lit
            t == [s EXCEPT !.mru = m, !.apps = a, !.lit = l]
<1>1. AltBecome(t)
  <2>1. Closed(w) = t
    BY DEF Closed, AltState
  <2>. QED  BY <2>1 DEF WindowCloses
<1>2. s.shown = shown
  BY DEF AltState
<1>. HIDE DEF s
<1>3. /\ s \in AltStates /\ s.mru \in Seq(AltWindows) /\ s.apps \in Seq(AltWindows)
      /\ Distinct(s.mru) /\ Distinct(s.apps) /\ Elements(s.apps) \subseteq Elements(s.mru)
      /\ s.lit \in AltWindows \cup {NoWindow}
  BY DEF Clean, AltStates, Lists, s
<1>4. /\ m \in Seq(AltWindows) /\ Distinct(m) /\ Elements(m) = Elements(s.mru) \ {w}
      /\ a \in Seq(AltWindows) /\ Distinct(a) /\ Elements(a) = Elements(s.apps) \ {w}
  BY <1>3, LeftOut
<1>5. ~s.shown => a = <<>>
  BY NoElements DEF Clean, Lists, Minus, s
<1>6. l \in AltWindows \cup {NoWindow} /\ (l # NoWindow => l = s.lit /\ l \in Elements(a))
  BY <1>3, <1>4 DEF Clean, Lists, s
<1>. HIDE DEF m, a, l
<1>7. /\ t \in AltStates /\ t.mru = m /\ t.apps = a /\ t.shown = s.shown
      /\ t.slow = s.slow /\ t.lit = l /\ t.picked = s.picked
      /\ t.waiting = s.waiting /\ t.timers = s.timers
  BY <1>3, <1>4, <1>6 DEF AltStates
<1>. HIDE DEF t
<1>8. Clean(t)
  BY <1>3, <1>4, <1>5, <1>6, <1>7 DEF Clean, OneTimeout, Lists, s
<1>. QED  BY <1>1, <1>2, <1>7, <1>8, HandledSo

-----------------------------------------------------------------------------
(***************************************************************************)
(* The theorems.                                                           *)
(***************************************************************************)
LEMMA CleanAtFirst == AltInit => AltInv
<1>. SUFFICES ASSUME AltInit PROVE AltInv
  OBVIOUS
<1>1. <<>> \in Seq(AltWindows)
  OBVIOUS
<1>2. AltState \in AltStates /\ {urgent, sysModal, noCompositor} \subseteq BOOLEAN
  BY <1>1 DEF AltInit, AltState, AltStates
<1>3. OneTimeout(AltState)
  BY DEF AltInit, AltState, OneTimeout
<1>4. Lists(AltState)
  BY NoElements DEF AltInit, AltState, Lists
<1>. QED  BY <1>2, <1>3, <1>4 DEF AltInv, Clean

\* What goes on around the switcher changes nothing of it.
LEMMA AroundKeeps ==
  ASSUME AltInv, Around \/ UNCHANGED altVars
  PROVE  AltInv' /\ AltState' = AltState
<1>1. AltState' = AltState
  BY DEF Around, altVars, AltState
<1>2. Clean(AltState)'
  BY <1>1 DEF AltInv
<1>3. ({urgent, sysModal, noCompositor} \subseteq BOOLEAN)'
  BY DEF Around, altVars, AltInv
<1>. QED  BY <1>1, <1>2, <1>3 DEF AltInv

LEMMA StepIsHandled ==
  ASSUME AltInv, AltNext
  PROVE  Handled \/ Around
<1>1. Clean(AltState)
  BY DEF AltInv
<1>2. CASE TabFullscreen
  BY <1>1, <1>2, TabFullscreenHandled
<1>3. CASE TabRefused
  BY <1>1, <1>3, TabRefusedHandled
<1>4. CASE TabNoGrab
  BY <1>1, <1>4, TabNoGrabHandled
<1>5. CASE \E present \in BOOLEAN : TabFirst(present)
  BY <1>1, <1>5, TabFirstHandled
<1>6. CASE \E present, backward \in BOOLEAN : TabAgain(present, backward)
  BY <1>1, <1>6, TabAgainHandled
<1>7. CASE AltReleased
  BY <1>1, <1>7, AltReleasedHandled
<1>8. CASE OtherKey
  BY <1>1, <1>8, OtherKeyHandled
<1>9. CASE InitialTimeout
  BY <1>1, <1>9, InitialTimeoutHandled
<1>10. CASE SlowTimeout
  BY <1>1, <1>10, SlowTimeoutHandled
<1>11. CASE GrabLost
  BY <1>1, <1>11, GrabLostHandled
<1>12. CASE \E w \in AltWindows : WindowOpens(w)
  BY <1>1, <1>12, WindowOpensHandled
<1>13. CASE \E w \in AltWindows : WindowCloses(w)
  BY <1>1, <1>13, WindowClosesHandled
<1>. QED  BY <1>2, <1>3, <1>4, <1>5, <1>6, <1>7, <1>8, <1>9, <1>10, <1>11, <1>12, <1>13
          DEF AltNext

LEMMA AltStep ==
  ASSUME AltInv, [AltNext]_altVars
  PROVE  AltInv' /\ GoesRight(AltState, AltState')
<1>1. CASE Handled
  <2>1. PICK t : Clean(t) /\ GoesRight(AltState, t) /\ AltBecome(t)
    BY <1>1 DEF Handled
  <2>2. AltInv' /\ AltState' = t
    BY <2>1, AltBecoming
  <2>. QED  BY <2>1, <2>2
<1>2. CASE Around \/ UNCHANGED altVars
  <2>1. AltInv' /\ AltState' = AltState
    BY <1>2, AroundKeeps
  <2>. QED  BY <2>1 DEF GoesRight
<1>. QED  BY <1>1, <1>2, StepIsHandled

LEMMA AltAlways == AltSpec => []AltInv
<1>. QED  BY CleanAtFirst, AltStep, PTL DEF AltSpec

(***************************************************************************)
(* The windows of the switcher, its timeouts and its flags are always of   *)
(* their types.                                                            *)
(***************************************************************************)
THEOREM AltTypeCorrect == AltSpec => []AltTypeOK
<1>1. AltInv => AltTypeOK
  BY DEF AltInv, Clean, AltStates, Lists, AltState, AltTypeOK
<1>. QED  BY <1>1, AltAlways, PTL

(***************************************************************************)
(* One initial timeout at most is installed, and only while                *)
(* waiting_for_timeout is set; the overlay lists open windows, each once,  *)
(* and none while it is hidden; no slow-down timeout outlives it.          *)
(***************************************************************************)
THEOREM AltStartsClean == AltSpec => []SwitchStartsClean
<1>1. AltInv => SwitchStartsClean
  BY DEF AltInv, Clean, OneTimeout, Lists, AltState, SwitchStartsClean,
         OneInitialTimeout, OverlayListsWindows, SlowNeedsOverlay
<1>. QED  BY <1>1, AltAlways, PTL

(***************************************************************************)
(* Whatever hides the overlay while a window is highlighted goes to that   *)
(* window, or to none: mnb_alttab_overlay_activate_selection never goes by *)
(* a stale priv->active.                                                   *)
(***************************************************************************)
THEOREM AltGoesToHighlighted == AltSpec => GoesToHighlighted
<1>1. ASSUME AltInv, [AltNext]_altVars
      PROVE  shown /\ ~shown' /\ lit # NoWindow
               => mru' = mru \/ mru' = <<lit>> \o Minus(mru, lit)
  <2>1. GoesRight(AltState, AltState')
    BY <1>1, AltStep
  <2>2. /\ AltState.shown = shown /\ AltState.lit = lit /\ AltState.mru = mru
        /\ (AltState').shown = shown' /\ (AltState').mru = mru'
    BY DEF AltState
  <2>. QED  BY <2>1, <2>2 DEF GoesRight
<1>. QED  BY <1>1, AltAlways, PTL DEF AltSpec, GoesToHighlighted

-----------------------------------------------------------------------------
(***************************************************************************)
(* Windows come, go, are minimized and become fullscreen: every one finds  *)
(* its workspace, and the compositor is on when it should be.  DeskRight   *)
(* is inductive; the lemmas follow the functions of Workspaces, from the   *)
(* lists they edit to the handlers that nest them.                         *)
(***************************************************************************)
DeskStates ==
  [wss: Seq(WsIds), active: WsIds, at: [Windows -> WsIds \cup {Absent}],
   isFull: [Windows -> BOOLEAN], min: [Windows -> {"no", "going", "yes"}],
   watched: [Windows -> 0..2], list: Seq(Windows),
   disabled: BOOLEAN, saver: BOOLEAN, dpms: BOOLEAN]

\* There are some workspaces, one of them is the active one, and windows are on them.
Screen(s) == /\ Len(s.wss) \in 1..MaxWorkspaces /\ Once(s.wss) /\ s.active \in ToSet(s.wss)
             /\ \A w \in Windows : s.at[w] \in ToSet(s.wss) \cup {Absent}

\* The compositor is off when it should be.
Seen(s) == s.disabled <=> s.saver \/ s.dpms \/ FullOn(s, s.active)

Listed(s) == Once(s.list) /\ ToSet(s.list) = {w \in Windows : s.at[w] # Absent /\ s.isFull[w]}

\* Neither a dialog nor a minimized window is fullscreen, and of a window that is not
\* there nothing is known.
Simple(s) == \A w \in Windows :
  /\ s.isFull[w] => w \in Apps /\ s.min[w] = "no"
  /\ s.min[w] # "no" => w \in Apps
  /\ s.at[w] = Absent => ~s.isFull[w] /\ s.min[w] = "no" /\ s.watched[w] = 0

\* A dialog is where its application is.
Attached(s) == \A d \in Dialogs :
  s.at[d] # Absent /\ Parent[d] \in Apps /\ s.at[Parent[d]] # Absent => s.at[d] = s.at[Parent[d]]

\* No workspace is empty, but for ws.
OccupiedBut(s, ws) ==
  Len(s.wss) > 1 => \A x \in ToSet(s.wss) \ {ws} : \E w \in Windows : s.at[w] = x
Occupied(s) == Len(s.wss) > 1 => \A x \in ToSet(s.wss) : \E w \in Windows : s.at[w] = x

DeskRight(s) == /\ s \in DeskStates /\ Screen(s) /\ Seen(s)
                /\ Listed(s) /\ Simple(s) /\ Attached(s) /\ Occupied(s)

\* What the handlers of workspaces leave alone.
Apart(s, t) == /\ t.isFull = s.isFull /\ t.min = s.min /\ t.watched = s.watched
               /\ t.list = s.list /\ t.saver = s.saver /\ t.dpms = s.dpms

\* There is an id for a workspace that is added.
LEMMA NewOne ==
  ASSUME NEW s \in DeskStates, Len(s.wss) <= MaxWorkspaces
  PROVE  NewWs(s) \in WsIds /\ NewWs(s) \notin ToSet(s.wss)
<1>1. MaxWorkspaces \in Nat
  BY DeskAssumption
<1>2. s.wss \in Seq(WsIds) /\ Len(s.wss) \in Nat /\ DOMAIN s.wss = 1..Len(s.wss)
  BY DEF DeskStates
<1>. DEFINE n == Len(s.wss)
            m == MaxWorkspaces + 1
<1>3. \E ws \in WsIds : ws \notin ToSet(s.wss)
  <2>. SUFFICES ASSUME \A ws \in WsIds : ws \in ToSet(s.wss) PROVE FALSE
    OBVIOUS
  <2>1. s.wss \in [1..n -> 1..m]
    <3>1. ASSUME NEW i \in 1..n PROVE s.wss[i] \in 1..m
      <4>1. s.wss[i] \in WsIds
        BY <1>2
      <4>. QED  BY <4>1 DEF WsIds
    <3>2. s.wss = [i \in 1..n |-> s.wss[i]]
      BY <1>2
    <3>. QED  BY <3>1, <3>2
  <2>2. \A ws \in 1..m : \E i \in 1..n : s.wss[i] = ws
    BY <1>2 DEF WsIds, ToSet
  <2>3. s.wss \in Surjection(1..n, 1..m)
    BY <2>1, <2>2 DEF Surjection
  <2>4. IsFiniteSet(1..n) /\ Cardinality(1..n) = n
    <3>1. IsFiniteSet(1..n) /\ Cardinality(1..n) = IF 1 > n THEN 0 ELSE n - 1 + 1
      <4>1. n \in Int /\ 1 \in Int
        BY <1>2
      <4>. HIDE DEF n
      <4>. QED  BY <4>1, FS_Interval
    <3>. QED  BY <1>2, <3>1
  <2>5. Cardinality(1..m) = m
    <3>1. Cardinality(1..m) = IF 1 > m THEN 0 ELSE m - 1 + 1
      <4>1. m \in Int /\ 1 \in Int
        BY <1>1
      <4>. HIDE DEF m
      <4>. QED  BY <4>1, FS_Interval
    <3>. QED  BY <1>1, <3>1
  <2>6. Cardinality(1..m) <= Cardinality(1..n)
    BY <2>3, <2>4, FS_Surjection
  <2>. QED  BY <1>1, <1>2, <2>4, <2>5, <2>6
<1>. QED  BY <1>3 DEF NewWs

-----------------------------------------------------------------------------
(***************************************************************************)
(* What mutter and the plugin do to a state.                               *)
(***************************************************************************)
LEMMA PutKeeps ==
  ASSUME NEW s \in DeskStates, NEW w \in Windows, NEW ws \in WsIds \cup {Absent}
  PROVE  /\ Put(s, w, ws) \in DeskStates /\ Apart(s, Put(s, w, ws))
         /\ Put(s, w, ws).wss = s.wss /\ Put(s, w, ws).active = s.active
         /\ Put(s, w, ws).disabled = s.disabled
         /\ Put(s, w, ws).at = [x \in Windows |-> IF x = w THEN ws ELSE s.at[x]]
<1>1. s.at \in [Windows -> WsIds \cup {Absent}]
  BY DEF DeskStates
<1>. DEFINE f == [s.at EXCEPT ![w] = ws]
<1>2. /\ f \in [Windows -> WsIds \cup {Absent}]
      /\ f = [x \in Windows |-> IF x = w THEN ws ELSE s.at[x]]
  BY <1>1
<1>. HIDE DEF f
<1>3. Put(s, w, ws) = [s EXCEPT !.at = f]
  BY DEF Put, f
<1>. QED  BY <1>2, <1>3 DEF DeskStates, Apart

LEMMA TakenOff ==
  ASSUME NEW s \in DeskStates, NEW w \in Windows
  PROVE  /\ Put(s, w, Absent) \in DeskStates /\ Apart(s, Put(s, w, Absent))
         /\ Put(s, w, Absent).wss = s.wss /\ Put(s, w, Absent).active = s.active
         /\ Put(s, w, Absent).disabled = s.disabled
         /\ Put(s, w, Absent).at = [x \in Windows |-> IF x = w THEN Absent ELSE s.at[x]]
<1>1. Absent \in WsIds \cup {Absent}
  OBVIOUS
<1>. QED  BY <1>1, PutKeeps

LEMMA ReviewKeeps ==
  ASSUME NEW s \in DeskStates, s.saver \/ s.dpms => s.disabled
  PROVE  /\ Review(s) \in DeskStates /\ Apart(s, Review(s))
         /\ Review(s).wss = s.wss /\ Review(s).active = s.active /\ Review(s).at = s.at
         /\ Seen(Review(s))
<1>1. CASE s.dpms \/ s.saver
  <2>1. Review(s) = s
    BY <1>1 DEF Review
  <2>. QED  BY <1>1, <2>1 DEF Apart, Seen
<1>2. CASE ~(s.dpms \/ s.saver)
  <2>. DEFINE on == FullOn(s, s.active)
              t == [s EXCEPT !.disabled = on]
  <2>1. on \in BOOLEAN
    BY DEF FullOn
  <2>2. Review(s) = t
    BY <1>2, <2>1 DEF Review, Toggle
  <2>. HIDE DEF on
  <2>3. /\ t \in DeskStates /\ Apart(s, t) /\ t.wss = s.wss /\ t.active = s.active
        /\ t.at = s.at /\ t.disabled = on
    BY <2>1 DEF DeskStates, Apart
  <2>4. FullOn(t, t.active) = on
    BY <2>3 DEF on, FullOn, Apart
  <2>5. Seen(t)
    BY <1>2, <2>3, <2>4 DEF Seen, Apart
  <2>. QED  BY <2>2, <2>3, <2>5
<1>. QED  BY <1>1, <1>2

LEMMA ActivateRight ==
  ASSUME NEW s \in DeskStates, NEW ws \in WsIds, s.saver \/ s.dpms => s.disabled,
         s.active = ws => Seen(s)
  PROVE  /\ Activate(s, ws) \in DeskStates /\ Apart(s, Activate(s, ws))
         /\ Activate(s, ws).wss = s.wss /\ Activate(s, ws).at = s.at
         /\ Activate(s, ws).active = ws /\ Seen(Activate(s, ws))
<1>1. CASE s.active = ws
  BY <1>1 DEF Activate, Apart
<1>2. CASE s.active # ws
  <2>. DEFINE t == [s EXCEPT !.active = ws]
  <2>1. /\ t \in DeskStates /\ Apart(s, t) /\ t.wss = s.wss /\ t.at = s.at /\ t.active = ws
        /\ t.disabled = s.disabled
    BY DEF DeskStates, Apart
  <2>2. Activate(s, ws) = Review(t)
    BY <1>2 DEF Activate
  <2>. HIDE DEF t
  <2>3. t.saver \/ t.dpms => t.disabled
    BY <2>1 DEF Apart
  <2>. QED  BY <2>1, <2>2, <2>3, ReviewKeeps DEF Apart
<1>. QED  BY <1>1, <1>2

LEMMA IndexOf ==
  ASSUME NEW s \in DeskStates, Once(s.wss), NEW ws \in ToSet(s.wss)
  PROVE  /\ Index(s, ws) \in 0..(Len(s.wss) - 1) /\ s.wss[Index(s, ws) + 1] = ws
         /\ \A i \in DOMAIN s.wss : s.wss[i] = ws => i = Index(s, ws) + 1
<1>. DEFINE k == CHOOSE i \in DOMAIN s.wss : s.wss[i] = ws
<1>1. \E i \in DOMAIN s.wss : s.wss[i] = ws
  BY DEF ToSet
<1>2. k \in DOMAIN s.wss /\ s.wss[k] = ws
  BY <1>1
<1>3. DOMAIN s.wss = 1..Len(s.wss) /\ Len(s.wss) \in Nat
  BY DEF DeskStates
<1>4. Index(s, ws) = k - 1
  BY DEF Index
<1>. HIDE DEF k
<1>5. k - 1 + 1 = k /\ k - 1 \in 0..(Len(s.wss) - 1)
  BY <1>2, <1>3
<1>. QED  BY <1>2, <1>4, <1>5 DEF Once

LEMMA NextDoor ==
  ASSUME NEW s \in DeskStates, Once(s.wss), Len(s.wss) > 1, NEW ws \in ToSet(s.wss)
  PROVE  Neighbour(s, ws) \in ToSet(s.wss) \ {ws} /\ Neighbour(s, ws) \in WsIds
<1>1. s.wss \in Seq(WsIds) /\ DOMAIN s.wss = 1..Len(s.wss) /\ Len(s.wss) \in Nat
  BY DEF DeskStates
<1>2. Index(s, ws) \in 0..(Len(s.wss) - 1)
  BY IndexOf
<1>. DEFINE n == IF Index(s, ws) > 0 THEN Index(s, ws) - 1 ELSE 1
<1>3. n + 1 \in 1..Len(s.wss) /\ n + 1 # Index(s, ws) + 1
  BY <1>1, <1>2
<1>4. Neighbour(s, ws) = s.wss[n + 1]
  BY DEF Neighbour, ByIndex
<1>. HIDE DEF n
<1>5. n + 1 \in DOMAIN s.wss
  BY <1>1, <1>3
<1>6. s.wss[n + 1] \in WsIds
  BY <1>1, <1>5
<1>7. s.wss[n + 1] # ws
  BY <1>3, <1>5, IndexOf
<1>. QED  BY <1>4, <1>5, <1>6, <1>7 DEF ToSet

\* A workspace that is not the active one is removed.
LEMMA RemoveRight ==
  ASSUME NEW s \in DeskStates, Screen(s), Seen(s), NEW ws \in ToSet(s.wss), Len(s.wss) > 1,
         ws # s.active, \A w \in ToSet(s.list) : s.at[w] # ws
  PROVE  /\ RemoveWs(s, ws) \in DeskStates /\ Apart(s, RemoveWs(s, ws))
         /\ Screen(RemoveWs(s, ws)) /\ Seen(RemoveWs(s, ws))
         /\ ToSet(RemoveWs(s, ws).wss) = ToSet(s.wss) \ {ws}
         /\ Len(RemoveWs(s, ws).wss) = Len(s.wss) - 1
         /\ RemoveWs(s, ws).at
              = [w \in Windows |-> IF s.at[w] = ws THEN Neighbour(s, ws) ELSE s.at[w]]
<1>. DEFINE next == Neighbour(s, ws)
            f == [w \in Windows |-> IF s.at[w] = ws THEN next ELSE s.at[w]]
            q == RemoveAt(s.wss, Index(s, ws) + 1)
            t == [s EXCEPT !.wss = q, !.at = f]
<1>1. /\ s.wss \in Seq(WsIds) /\ Len(s.wss) \in Nat /\ s.active \in WsIds
      /\ s.at \in [Windows -> WsIds \cup {Absent}] /\ s.list \in Seq(Windows)
  BY DEF DeskStates
<1>2. next \in ToSet(s.wss) \ {ws} /\ next \in WsIds
  BY NextDoor DEF Screen
<1>3. /\ q \in Seq(WsIds) /\ Len(q) = Len(s.wss) - 1 /\ Once(q)
      /\ ToSet(q) = ToSet(s.wss) \ {ws}
  <2>1. Index(s, ws) + 1 \in 1..Len(s.wss) /\ s.wss[Index(s, ws) + 1] = ws
    BY <1>1, IndexOf DEF Screen
  <2>. QED  BY <1>1, <2>1, OneLess DEF Screen
<1>4. f \in [Windows -> WsIds \cup {Absent}]
  BY <1>1, <1>2
<1>. HIDE DEF q, next
<1>5. \A w \in Windows : f[w] = IF s.at[w] = ws THEN next ELSE s.at[w]
  OBVIOUS
<1>. HIDE DEF f
<1>6. /\ t \in DeskStates /\ Apart(s, t) /\ t.wss = q /\ t.active = s.active /\ t.at = f
      /\ t.disabled = s.disabled
  BY <1>3, <1>4 DEF DeskStates, Apart
<1>7. RemoveWs(s, ws) = t
  <2>1. RemoveWs(s, ws) = Activate(t, s.active)
    BY DEF RemoveWs, t, q, f, next
  <2>. QED  BY <1>6, <2>1 DEF Activate
<1>. HIDE DEF t
<1>8. Screen(t)
  <2>1. Len(q) \in 1..MaxWorkspaces
    BY <1>1, <1>3, DeskAssumption DEF Screen
  <2>2. s.active \in ToSet(q)
    BY <1>3 DEF Screen
  <2>3. \A w \in Windows : f[w] \in ToSet(q) \cup {Absent}
    BY <1>2, <1>3, <1>5 DEF Screen
  <2>. QED  BY <1>3, <1>6, <2>1, <2>2, <2>3 DEF Screen
<1>9. Seen(t)
  <2>1. \A w \in ToSet(s.list) : w \in Windows /\ f[w] = s.at[w]
    BY <1>1, <1>5 DEF ToSet
  <2>2. FullOn(t, t.active) <=> FullOn(s, s.active)
    BY <1>6, <2>1 DEF FullOn, Apart
  <2>. QED  BY <1>6, <2>2 DEF Seen, Apart
<1>. QED  BY <1>3, <1>6, <1>7, <1>8, <1>9 DEF f, next

\* An empty workspace goes, and only that one; what is left on it moves.
LEMMA CheckRight ==
  ASSUME NEW s \in DeskStates, Screen(s), Seen(s), NEW ws \in ToSet(s.wss), NEW ignore \in Windows,
         OccupiedBut(s, ws),
         \A w \in ToSet(s.list) : s.at[w] = ws => w # ignore /\ Parent[w] # ignore
  PROVE  LET t == CheckEmpty(s, ws, ignore)
         IN /\ t \in DeskStates /\ Apart(s, t) /\ Screen(t) /\ Seen(t) /\ Occupied(t)
            /\ \E old, new \in WsIds :
                  t.at = [w \in Windows |-> IF s.at[w] = old THEN new ELSE s.at[w]]
<1>. DEFINE t == CheckEmpty(s, ws, ignore)
            stays == \/ Len(s.wss) <= 1
                     \/ \E w \in Windows \ {ignore} : s.at[w] = ws /\ Parent[w] # ignore
<1>1. /\ s.wss \in Seq(WsIds) /\ Len(s.wss) \in Nat /\ s.active \in WsIds
      /\ s.at \in [Windows -> WsIds \cup {Absent}] /\ s.list \in Seq(Windows)
  BY DEF DeskStates
<1>2. ws \in WsIds
  BY <1>1 DEF ToSet
<1>3. CASE stays
  <2>1. t = s
    BY <1>3 DEF CheckEmpty
  <2>2. Occupied(s)
    BY <1>1, <1>3 DEF OccupiedBut, Occupied
  <2>3. s.at = [w \in Windows |-> IF s.at[w] = ws THEN ws ELSE s.at[w]]
    BY <1>1
  <2>. QED  BY <1>2, <2>1, <2>2, <2>3 DEF Apart
<1>4. CASE ~stays
  <2>. DEFINE u == IF s.active = ws THEN Activate(s, Neighbour(s, ws)) ELSE s
  <2>1. Len(s.wss) > 1
    BY <1>1, <1>4
  <2>2. t = RemoveWs(u, ws)
    BY <1>4 DEF CheckEmpty
  <2>3. \A w \in ToSet(s.list) : s.at[w] # ws
    <3>1. \A w \in ToSet(s.list) : w \in Windows
      BY <1>1 DEF ToSet
    <3>2. ASSUME NEW w \in ToSet(s.list), s.at[w] = ws PROVE FALSE
      <4>1. w # ignore /\ Parent[w] # ignore
        BY <3>2
      <4>. QED  BY <1>4, <3>1, <3>2, <4>1
    <3>. QED  BY <3>2
  <2>4. Neighbour(s, ws) \in ToSet(s.wss) \ {ws} /\ Neighbour(s, ws) \in WsIds
    BY <2>1, NextDoor DEF Screen
  <2>5. /\ u \in DeskStates /\ Apart(s, u) /\ u.wss = s.wss /\ u.at = s.at
        /\ u.active \in ToSet(s.wss) /\ u.active # ws /\ Seen(u)
    <3>1. CASE s.active = ws
      BY <2>4, <3>1, ActivateRight DEF Seen
    <3>2. CASE s.active # ws
      BY <3>2 DEF Screen, Apart
    <3>. QED  BY <3>1, <3>2
  <2>. HIDE DEF u, t
  <2>6. Screen(u)
    BY <2>5 DEF Screen
  <2>7. \A w \in ToSet(u.list) : u.at[w] # ws
    BY <2>3, <2>5 DEF Apart
  <2>8. Neighbour(u, ws) = Neighbour(s, ws)
    BY <2>5 DEF Neighbour, ByIndex, Index
  <2>. DEFINE new == Neighbour(s, ws)
  <2>9. /\ t \in DeskStates /\ Apart(u, t) /\ Screen(t) /\ Seen(t)
        /\ ToSet(t.wss) = ToSet(s.wss) \ {ws}
        /\ t.at = [w \in Windows |-> IF s.at[w] = ws THEN new ELSE s.at[w]]
    BY <2>1, <2>2, <2>5, <2>6, <2>7, <2>8, RemoveRight
  <2>10. Apart(s, t)
    BY <2>5, <2>9 DEF Apart
  <2>. HIDE DEF new
  <2>11. Occupied(t)
    <3>. SUFFICES ASSUME NEW x \in ToSet(t.wss) PROVE \E w \in Windows : t.at[w] = x
      BY DEF Occupied
    <3>1. x \in ToSet(s.wss) \ {ws}
      BY <2>9
    <3>2. PICK w \in Windows : s.at[w] = x
      BY <2>1, <3>1 DEF OccupiedBut
    <3>3. t.at[w] = x
      BY <2>9, <3>1, <3>2
    <3>. QED  BY <3>3
  <2>12. new \in WsIds
    BY <2>4 DEF new
  <2>. QED  BY <1>2, <2>9, <2>10, <2>11, <2>12 DEF t
<1>. QED  BY <1>3, <1>4

\* The fullscreen windows do not depend on where windows are, as long as they are there.
LEMMA Shifted ==
  ASSUME NEW s, NEW t, Listed(s), Simple(s), Apart(s, t),
         \A w \in Windows : t.at[w] = Absent <=> s.at[w] = Absent
  PROVE  Listed(t) /\ Simple(t)
<1>1. Listed(t)
  <2>1. {w \in Windows : t.at[w] # Absent /\ t.isFull[w]}
          = {w \in Windows : s.at[w] # Absent /\ s.isFull[w]}
    BY DEF Apart
  <2>. QED  BY <2>1 DEF Listed, Apart
<1>2. Simple(t)
  BY DEF Simple, Apart
<1>. QED  BY <1>1, <1>2

-----------------------------------------------------------------------------
(***************************************************************************)
(* A window gets a workspace.                                              *)
(***************************************************************************)
WithDialog(s, w, ws) ==
  [x \in Windows |-> IF x = w \/ (x \in Dialogs /\ Parent[x] = w /\ s.at[x] # Absent)
                     THEN ws ELSE s.at[x]]

\* Another window, no dialog of w's, keeps the workspace that w is on.
Shared(s, w) == \E v \in Windows \ {w} : s.at[v] = s.at[w] /\ Parent[v] # w

\* A window whose workspace another one keeps is taken off without more ado.
LEMMA LeaveIs ==
  ASSUME NEW s \in DeskStates, NEW w \in Windows, Shared(s, w)
  PROVE  Leave(s, w) = Put(s, w, Absent)
<1>1. PICK v \in Windows \ {w} : s.at[v] = s.at[w] /\ Parent[v] # w
  BY DEF Shared
<1>2. Put(s, w, Absent).at[v] = s.at[w]
  <2>1. Put(s, w, Absent).at = [x \in Windows |-> IF x = w THEN Absent ELSE s.at[x]]
    BY TakenOff
  <2>. QED  BY <1>1, <2>1
<1>. QED  BY <1>1, <1>2 DEF Leave, CheckEmpty

LEMMA ChangeIs ==
  ASSUME NEW s \in DeskStates, NEW w \in Apps, NEW ws \in WsIds, Attached(s), s.at[w] # Absent,
         s.at[w] = ws \/ Shared(s, w)
  PROVE  LET r == ChangeWs(s, w, ws)
         IN /\ r \in DeskStates /\ Apart(s, r) /\ r.wss = s.wss /\ r.active = s.active
            /\ r.disabled = s.disabled /\ r.at = WithDialog(s, w, ws)
<1>. DEFINE r == ChangeWs(s, w, ws)
<1>1. w \in Windows /\ s.at \in [Windows -> WsIds \cup {Absent}]
  BY DEF DeskStates, Windows
<1>2. ASSUME NEW d \in Dialogs, Parent[d] = w
      PROVE  d \in Windows /\ d # w /\ s.at[d] \in {Absent, s.at[w]}
  BY <1>2, DeskAssumption DEF Windows, Attached
<1>3. CASE s.at[w] = ws
  <2>1. r = s
    BY <1>3 DEF ChangeWs
  <2>2. \A x \in Windows : WithDialog(s, w, ws)[x] = s.at[x]
    BY <1>2, <1>3 DEF WithDialog
  <2>3. WithDialog(s, w, ws) = s.at
    BY <1>1, <2>2 DEF WithDialog
  <2>. QED  BY <2>1, <2>3 DEF Apart
<1>4. CASE s.at[w] # ws
  <2>. DEFINE t == Put(Put(s, w, Absent), w, ws)
              ds == {d \in Dialogs : Parent[d] = w /\ t.at[d] \notin {Absent, ws}}
  <2>1. PICK v \in Windows \ {w} : s.at[v] = s.at[w] /\ Parent[v] # w
    BY <1>4 DEF Shared
  <2>2. Leave(s, w) = Put(s, w, Absent)
    BY <1>1, <1>4, LeaveIs
  <2>3. /\ t \in DeskStates /\ Apart(s, t) /\ t.wss = s.wss /\ t.active = s.active
        /\ t.disabled = s.disabled
        /\ t.at = [x \in Windows |-> IF x = w THEN ws ELSE s.at[x]]
    <3>. DEFINE p == Put(s, w, Absent)
    <3>1. /\ p \in DeskStates /\ Apart(s, p) /\ p.wss = s.wss /\ p.active = s.active
          /\ p.disabled = s.disabled
          /\ p.at = [x \in Windows |-> IF x = w THEN Absent ELSE s.at[x]]
      BY <1>1, TakenOff
    <3>. HIDE DEF p
    <3>2. /\ Put(p, w, ws) \in DeskStates /\ Apart(p, Put(p, w, ws)) /\ Put(p, w, ws).wss = p.wss
          /\ Put(p, w, ws).active = p.active /\ Put(p, w, ws).disabled = p.disabled
          /\ Put(p, w, ws).at = [x \in Windows |-> IF x = w THEN ws ELSE p.at[x]]
      BY <1>1, <3>1, PutKeeps
    <3>3. Put(p, w, ws).at = [x \in Windows |-> IF x = w THEN ws ELSE s.at[x]]
      BY <3>1, <3>2
    <3>. QED  BY <3>1, <3>2, <3>3 DEF p, Apart
  <2>4. r = IF ds = {} THEN t ELSE LET d == CHOOSE x \in ds : TRUE IN Put(Leave(t, d), d, ws)
    BY <1>4, <2>2 DEF ChangeWs
  <2>. HIDE DEF r, t
  <2>5. \A d \in ds : d \in Dialogs /\ Parent[d] = w /\ d \in Windows /\ d # w
                     /\ t.at[d] = s.at[d] /\ s.at[d] = s.at[w]
    BY <1>2, <2>3
  <2>6. ASSUME NEW x \in Dialogs, Parent[x] = w, s.at[x] # Absent PROVE x \in ds
    BY <1>2, <1>4, <2>3, <2>6
  <2>. HIDE DEF ds
  <2>7. CASE ds = {}
    <3>1. ASSUME NEW x \in Windows PROVE t.at[x] = WithDialog(s, w, ws)[x]
      <4>1. ~(x \in Dialogs /\ Parent[x] = w /\ s.at[x] # Absent)
        BY <2>6, <2>7
      <4>2. WithDialog(s, w, ws)[x] = IF x = w THEN ws ELSE s.at[x]
        <5>1. WithDialog(s, w, ws)[x] = IF x = w \/ (x \in Dialogs /\ Parent[x] = w /\ s.at[x] # Absent)
                                       THEN ws ELSE s.at[x]
          BY DEF WithDialog
        <5>2. CASE x = w
          BY <5>1, <5>2
        <5>3. CASE x # w
          BY <4>1, <5>1, <5>3
        <5>. QED  BY <5>2, <5>3
      <4>. QED  BY <2>3, <4>2
    <3>2. t.at = WithDialog(s, w, ws)
      BY <2>3, <3>1 DEF WithDialog
    <3>. QED  BY <2>3, <2>4, <2>7, <3>2 DEF r
  <2>8. CASE ds # {}
    <3>. DEFINE d == CHOOSE x \in ds : TRUE
                p == Put(t, d, Absent)
    <3>1. d \in ds
      BY <2>8
    <3>2. r = Put(Leave(t, d), d, ws)
      BY <2>4, <2>8
    <3>. HIDE DEF d
    <3>3. v \in Windows \ {d} /\ t.at[v] = t.at[d] /\ d \in Windows
      BY <2>1, <2>3, <2>5, <3>1
    <3>4. Leave(t, d) = p
      <4>1. Parent[v] # d
        BY <2>1, <2>5, <3>1, DeskAssumption DEF Windows
      <4>. QED  BY <2>3, <3>3, <4>1, LeaveIs DEF Shared
    <3>5. /\ p \in DeskStates /\ Apart(t, p) /\ p.wss = t.wss /\ p.active = t.active
          /\ p.disabled = t.disabled
          /\ p.at = [x \in Windows |-> IF x = d THEN Absent ELSE t.at[x]]
      <4>1. d \in Windows /\ t \in DeskStates
        BY <2>3, <3>3
      <4>. QED  BY <4>1, TakenOff
    <3>. HIDE DEF p
    <3>6. /\ r \in DeskStates /\ Apart(p, r) /\ r.wss = p.wss /\ r.active = p.active
          /\ r.disabled = p.disabled
          /\ r.at = [x \in Windows |-> IF x = d THEN ws ELSE p.at[x]]
      BY <3>2, <3>3, <3>4, <3>5, PutKeeps
    <3>7. ASSUME NEW x \in Windows PROVE r.at[x] = WithDialog(s, w, ws)[x]
      <4>1. x \in Dialogs /\ Parent[x] = w => x = d
        BY <2>5, <3>1, DeskAssumption
      <4>2. d \in Dialogs /\ Parent[d] = w /\ s.at[d] # Absent
        BY <2>5, <3>1
      <4>3. WithDialog(s, w, ws)[x] = IF x = w \/ x = d THEN ws ELSE s.at[x]
        <5>1. x \in Dialogs /\ Parent[x] = w /\ s.at[x] # Absent <=> x = d
          BY <4>1, <4>2
        <5>2. WithDialog(s, w, ws)[x] = IF x = w \/ (x \in Dialogs /\ Parent[x] = w /\ s.at[x] # Absent)
                                       THEN ws ELSE s.at[x]
          BY DEF WithDialog
        <5>. QED  BY <5>1, <5>2
      <4>. QED  BY <2>3, <3>5, <3>6, <4>3
    <3>8. r.at = WithDialog(s, w, ws)
      BY <3>6, <3>7 DEF WithDialog
    <3>9. Apart(s, r)
      BY <2>3, <3>5, <3>6 DEF Apart
    <3>. QED  BY <2>3, <3>5, <3>6, <3>8, <3>9 DEF r
  <2>. QED  BY <2>7, <2>8
<1>. QED  BY <1>3, <1>4

\* With w on the active workspace, and every other workspace kept, all is well.
LEMMA Moved ==
  ASSUME NEW s \in DeskStates, Screen(s), Listed(s), Simple(s), Attached(s),
         NEW ws \in ToSet(s.wss), OccupiedBut(s, ws),
         NEW w \in Apps, s.at[w] # Absent, s.at[w] = ws \/ Shared(s, w),
         NEW t \in DeskStates, Apart(s, t), t.wss = s.wss, t.at = WithDialog(s, w, ws),
         t.active = ws, Seen(t)
  PROVE  DeskRight(t) /\ t.at[w] = t.active
<1>1. /\ w \in Windows /\ ws \in WsIds /\ ws # Absent
      /\ s.at \in [Windows -> WsIds \cup {Absent}]
  BY DEF DeskStates, Windows, WsIds, ToSet, Absent
<1>2. ASSUME NEW x \in Windows
      PROVE  t.at[x] = IF x = w \/ (x \in Dialogs /\ Parent[x] = w /\ s.at[x] # Absent)
                       THEN ws ELSE s.at[x]
  BY DEF WithDialog
<1>3. ASSUME NEW x \in Apps, x # w PROVE x \in Windows /\ t.at[x] = s.at[x]
  <2>1. x \in Windows /\ x \notin Dialogs
    BY DeskAssumption DEF Windows
  <2>. QED  BY <1>2, <1>3, <2>1
<1>4. t.at[w] = ws
  BY <1>1, <1>2
<1>5. Screen(t)
  <2>1. \A x \in Windows : t.at[x] \in ToSet(t.wss) \cup {Absent}
    BY <1>2 DEF Screen
  <2>. QED  BY <2>1 DEF Screen
<1>6. Listed(t) /\ Simple(t)
  <2>1. ASSUME NEW x \in Windows PROVE t.at[x] = Absent <=> s.at[x] = Absent
    BY <1>1, <1>2
  <2>. QED  BY <2>1, Shifted
<1>7. Attached(t)
  <2>. SUFFICES ASSUME NEW d \in Dialogs, t.at[d] # Absent, Parent[d] \in Apps,
                       t.at[Parent[d]] # Absent
                PROVE  t.at[d] = t.at[Parent[d]]
    BY DEF Attached
  <2>1. d \in Windows /\ d # w
    BY DeskAssumption DEF Windows
  <2>2. CASE Parent[d] = w
    BY <1>2, <1>4, <2>1, <2>2
  <2>3. CASE Parent[d] # w
    <3>1. t.at[d] = s.at[d]
      BY <1>2, <2>1, <2>3
    <3>2. t.at[Parent[d]] = s.at[Parent[d]]
      BY <1>3, <2>3
    <3>. QED  BY <3>1, <3>2 DEF Attached
  <2>. QED  BY <2>2, <2>3
<1>8. Occupied(t)
  <2>. SUFFICES ASSUME Len(s.wss) > 1, NEW x \in ToSet(s.wss)
                PROVE  \E u \in Windows : t.at[u] = x
    BY DEF Occupied
  <2>1. CASE x = ws
    BY <1>1, <1>4, <2>1
  <2>2. CASE x # ws
    <3>1. PICK u \in Windows : s.at[u] = x
      BY <2>2 DEF OccupiedBut
    <3>2. CASE t.at[u] = s.at[u]
      BY <3>1, <3>2
    <3>3. CASE t.at[u] # s.at[u]
      <4>1. u = w \/ (u \in Dialogs /\ Parent[u] = w /\ s.at[u] # Absent)
        BY <1>2, <3>3
      <4>2. s.at[u] = s.at[w]
        BY <4>1 DEF Attached
      <4>3. PICK v \in Windows \ {w} : s.at[v] = s.at[w] /\ Parent[v] # w
        BY <2>2, <3>1, <4>2 DEF Shared
      <4>4. t.at[v] = x
        BY <1>2, <3>1, <4>2, <4>3
      <4>. QED  BY <4>4
    <3>. QED  BY <3>2, <3>3
  <2>. QED  BY <2>1, <2>2
<1>. QED  BY <1>4, <1>5, <1>6, <1>7, <1>8 DEF DeskRight

LEMMA MoveToRight ==
  ASSUME NEW s \in DeskStates, Screen(s), Seen(s), Listed(s), Simple(s), Attached(s),
         NEW n \in 0..(Len(s.wss) - 1), OccupiedBut(s, s.wss[n + 1]),
         NEW w \in Apps, s.at[w] # Absent, s.at[w] = s.wss[n + 1] \/ Shared(s, w),
         s.at[w] = s.active \/ ~s.isFull[w]
  PROVE  LET t == MoveTo(s, w, n)
         IN DeskRight(t) /\ Apart(s, t) /\ t.at[w] = t.active
<1>. DEFINE ws == s.wss[n + 1]
            r == ChangeWs(s, w, ws)
            t == MoveTo(s, w, n)
<1>1. /\ s.wss \in Seq(WsIds) /\ Len(s.wss) \in Nat /\ DOMAIN s.wss = 1..Len(s.wss)
      /\ n + 1 \in DOMAIN s.wss /\ s.list \in Seq(Windows)
  BY DEF DeskStates
<1>2. ws \in ToSet(s.wss) /\ ws \in WsIds
  BY <1>1 DEF ToSet
<1>3. t = IF n # Index(s, s.active) /\ Exists(r, n) THEN Activate(r, ByIndex(r, n)) ELSE r
  BY DEF MoveTo, ByIndex
<1>. HIDE DEF t
<1>4. /\ r \in DeskStates /\ Apart(s, r) /\ r.wss = s.wss /\ r.active = s.active
      /\ r.disabled = s.disabled /\ r.at = WithDialog(s, w, ws)
  <2>. HIDE DEF ws
  <2>1. s.at[w] = ws \/ Shared(s, w)
    BY DEF ws
  <2>. QED  BY <1>2, <2>1, ChangeIs
<1>. HIDE DEF r
<1>5. s.active \in ToSet(s.wss) /\ Once(s.wss)
  BY DEF Screen
<1>6. t \in DeskStates /\ Apart(s, t) /\ t.wss = s.wss /\ t.at = r.at /\ t.active = ws /\ Seen(t)
  <2>1. CASE n = Index(s, s.active)
    <3>1. t = r
      BY <1>3, <2>1
    <3>2. s.active = ws
      BY <1>5, <2>1, IndexOf
    <3>3. ASSUME NEW u \in ToSet(s.list) PROVE r.at[u] = ws <=> s.at[u] = ws
      <4>1. u \in Windows /\ u \in Apps /\ u \notin Dialogs /\ s.isFull[u]
        BY <1>1, DeskAssumption DEF Listed, Simple
      <4>2. u # w => r.at[u] = s.at[u]
        BY <1>4, <4>1 DEF WithDialog
      <4>3. r.at[w] = ws
        BY <1>4, <4>1 DEF WithDialog, Windows
      <4>. QED  BY <3>2, <4>1, <4>2, <4>3
    <3>. HIDE DEF ws
    <3>4. FullOn(r, r.active) <=> FullOn(s, s.active)
      BY <1>4, <3>2, <3>3 DEF FullOn, Apart
    <3>5. Seen(r)
      BY <1>4, <3>4 DEF Seen, Apart
    <3>. QED  BY <1>4, <3>1, <3>2, <3>5
  <2>2. CASE n # Index(s, s.active)
    <3>1. Exists(r, n) /\ ByIndex(r, n) = ws
      BY <1>1, <1>4 DEF Exists, ByIndex
    <3>2. t = Activate(r, ws)
      BY <1>3, <2>2, <3>1
    <3>3. r.active # ws
      <4>1. ws = s.active => n + 1 = Index(s, s.active) + 1
        BY <1>1, <1>5, IndexOf
      <4>2. Index(s, s.active) \in 0..(Len(s.wss) - 1)
        BY <1>5, IndexOf
      <4>3. n + 1 # Index(s, s.active) + 1
        BY <1>1, <2>2, <4>2
      <4>. QED  BY <1>4, <4>1, <4>3
    <3>. HIDE DEF ws
    <3>4. r.saver \/ r.dpms => r.disabled
      BY <1>4 DEF Seen, Apart
    <3>5. /\ t \in DeskStates /\ Apart(r, t) /\ t.wss = r.wss /\ t.at = r.at /\ t.active = ws
          /\ Seen(t)
      BY <1>2, <1>4, <3>2, <3>3, <3>4, ActivateRight
    <3>. QED  BY <1>4, <3>5 DEF Apart
  <2>. QED  BY <2>1, <2>2
<1>. HIDE DEF ws
<1>7. OccupiedBut(s, ws) /\ (s.at[w] = ws \/ Shared(s, w))
  BY DEF ws
<1>8. DeskRight(t) /\ t.at[w] = t.active
  BY <1>2, <1>4, <1>6, <1>7, Moved
<1>. QED  BY <1>6, <1>8 DEF t

\* A window that nothing but its dialog keeps company takes its workspace with it.
Alone(s, w) == Len(s.wss) > 1 /\ ~Shared(s, w)

LEMMA LeaveAlone ==
  ASSUME NEW s \in DeskStates, Screen(s), Seen(s), Listed(s), Simple(s),
         NEW w \in Apps, s.at[w] # Absent, Alone(s, w), ~s.isFull[w]
  PROVE  LET t == Leave(s, w)
             x == s.at[w]
         IN /\ t \in DeskStates /\ Apart(s, t) /\ Screen(t) /\ Seen(t)
            /\ ToSet(t.wss) = ToSet(s.wss) \ {x} /\ Len(t.wss) = Len(s.wss) - 1
            /\ Neighbour(s, x) \in ToSet(s.wss) \ {x} /\ Neighbour(s, x) \in WsIds
            /\ t.at = [v \in Windows |-> IF v = w THEN Absent
                                         ELSE IF s.at[v] = x THEN Neighbour(s, x) ELSE s.at[v]]
<1>. DEFINE x == s.at[w]
            p == Put(s, w, Absent)
            u == IF p.active = x THEN Activate(p, Neighbour(p, x)) ELSE p
            t == Leave(s, w)
<1>1. /\ s.wss \in Seq(WsIds) /\ Len(s.wss) \in Nat /\ s.list \in Seq(Windows) /\ w \in Windows
      /\ x \in ToSet(s.wss) /\ x # Absent /\ Len(s.wss) > 1
  BY DEF DeskStates, Screen, Windows, Alone
<1>2. /\ p \in DeskStates /\ Apart(s, p) /\ p.wss = s.wss /\ p.active = s.active
      /\ p.disabled = s.disabled
      /\ p.at = [v \in Windows |-> IF v = w THEN Absent ELSE s.at[v]]
  BY <1>1, TakenOff
<1>3. \A v \in Windows \ {w} : ~(p.at[v] = x /\ Parent[v] # w)
  BY <1>2 DEF Alone, Shared
<1>4. t = RemoveWs(u, x)
  <2>1. t = CheckEmpty(p, x, w)
    BY DEF Leave
  <2>2. ~(\/ Len(p.wss) <= 1 \/ \E v \in Windows \ {w} : p.at[v] = x /\ Parent[v] # w)
    BY <1>1, <1>2, <1>3
  <2>. HIDE DEF p, t
  <2>3. t = RemoveWs(IF p.active = x THEN Activate(p, Neighbour(p, x)) ELSE p, x)
    BY <2>1, <2>2 DEF CheckEmpty
  <2>. QED  BY <2>3
<1>. HIDE DEF p, t
<1>5. ASSUME NEW v \in ToSet(s.list) PROVE v \in Windows /\ v # w /\ p.at[v] = s.at[v] /\ s.at[v] # x
  <2>1. v \in Windows /\ s.isFull[v] /\ v # w
    BY DEF Listed
  <2>2. v \in Apps
    BY <2>1 DEF Simple
  <2>. QED  BY <1>2, <1>3, <2>1, <2>2, DeskAssumption
<1>6. Seen(p)
  <2>1. FullOn(p, p.active) <=> FullOn(s, s.active)
    BY <1>2, <1>5 DEF FullOn, Apart
  <2>. QED  BY <1>2, <2>1 DEF Seen, Apart
<1>7. Neighbour(p, x) = Neighbour(s, x)
  BY <1>2 DEF Neighbour, ByIndex, Index
<1>8. Neighbour(s, x) \in ToSet(s.wss) \ {x} /\ Neighbour(s, x) \in WsIds
  BY <1>1, NextDoor DEF Screen
<1>9. /\ u \in DeskStates /\ Apart(p, u) /\ u.wss = s.wss /\ u.at = p.at
      /\ u.active \in ToSet(s.wss) /\ u.active # x /\ Seen(u)
  <2>1. CASE p.active = x
    BY <1>2, <1>6, <1>7, <1>8, <2>1, ActivateRight DEF Seen
  <2>2. CASE p.active # x
    BY <1>2, <1>6, <2>2 DEF Screen, Apart
  <2>. QED  BY <2>1, <2>2
<1>. HIDE DEF u
<1>10. Screen(u)
  BY <1>2, <1>9 DEF Screen
<1>11. \A v \in ToSet(u.list) : u.at[v] # x
  BY <1>2, <1>5, <1>9 DEF Apart
<1>12. Neighbour(u, x) = Neighbour(s, x)
  BY <1>9 DEF Neighbour, ByIndex, Index
<1>13. /\ t \in DeskStates /\ Apart(u, t) /\ Screen(t) /\ Seen(t)
       /\ ToSet(t.wss) = ToSet(s.wss) \ {x} /\ Len(t.wss) = Len(s.wss) - 1
       /\ t.at = [v \in Windows |-> IF p.at[v] = x THEN Neighbour(s, x) ELSE p.at[v]]
  <2>1. x \in ToSet(u.wss) /\ Len(u.wss) > 1 /\ x # u.active
    BY <1>1, <1>9
  <2>. HIDE DEF x
  <2>. DEFINE v == RemoveWs(u, x)
  <2>2. /\ v \in DeskStates /\ Apart(u, v) /\ Screen(v) /\ Seen(v)
        /\ ToSet(v.wss) = ToSet(u.wss) \ {x} /\ Len(v.wss) = Len(u.wss) - 1
        /\ v.at = [y \in Windows |-> IF u.at[y] = x THEN Neighbour(u, x) ELSE u.at[y]]
    BY <1>9, <1>10, <1>11, <2>1, RemoveRight
  <2>3. t = v
    BY <1>4
  <2>. HIDE DEF v
  <2>. QED  BY <1>9, <1>12, <2>2, <2>3
<1>14. Apart(s, t)
  BY <1>2, <1>9, <1>13 DEF Apart
<1>15. t.at = [v \in Windows |-> IF v = w THEN Absent
                                 ELSE IF s.at[v] = x THEN Neighbour(s, x) ELSE s.at[v]]
  <2>1. ASSUME NEW v \in Windows
        PROVE  (IF p.at[v] = x THEN Neighbour(s, x) ELSE p.at[v])
                 = IF v = w THEN Absent ELSE IF s.at[v] = x THEN Neighbour(s, x) ELSE s.at[v]
    BY <1>1, <1>2
  <2>. QED  BY <1>13, <2>1
<1>. QED  BY <1>8, <1>13, <1>14, <1>15 DEF t

\* Wherever it goes, its dialog goes with it.
LEMMA ChangeAlone ==
  ASSUME NEW s \in DeskStates, Screen(s), Seen(s), Listed(s), Simple(s), Attached(s),
         NEW w \in Apps, s.at[w] # Absent, Alone(s, w), ~s.isFull[w],
         NEW ws \in ToSet(s.wss), ws # s.at[w], OccupiedBut(s, ws)
  PROVE  LET r == ChangeWs(s, w, ws)
         IN /\ r \in DeskStates /\ Apart(s, r) /\ Screen(r) /\ Seen(r)
            /\ ToSet(r.wss) = ToSet(s.wss) \ {s.at[w]} /\ Len(r.wss) = Len(s.wss) - 1
            /\ r.at = WithDialog(s, w, ws)
<1>. DEFINE x == s.at[w]
            next == Neighbour(s, x)
            l == Leave(s, w)
            t == Put(l, w, ws)
            ds == {d \in Dialogs : Parent[d] = w /\ t.at[d] \notin {Absent, ws}}
            r == ChangeWs(s, w, ws)
<1>1. /\ w \in Windows /\ ws \in WsIds /\ ws # Absent /\ Len(s.wss) > 1
      /\ s.at \in [Windows -> WsIds \cup {Absent}] /\ s.list \in Seq(Windows)
  <2>1. /\ s.wss \in Seq(WsIds) /\ w \in Windows /\ s.list \in Seq(Windows)
        /\ s.at \in [Windows -> WsIds \cup {Absent}]
    BY DEF DeskStates, Windows
  <2>2. ws \in WsIds
    BY <2>1 DEF ToSet
  <2>3. ws # Absent
    BY <2>2 DEF WsIds, Absent
  <2>4. Len(s.wss) > 1
    BY DEF Alone
  <2>. QED  BY <2>1, <2>2, <2>3, <2>4
<1>2. r = IF ds = {} THEN t ELSE LET d == CHOOSE y \in ds : TRUE IN Put(Leave(t, d), d, ws)
  BY DEF ChangeWs
<1>3. /\ l \in DeskStates /\ Apart(s, l) /\ Screen(l) /\ Seen(l)
      /\ ToSet(l.wss) = ToSet(s.wss) \ {x} /\ Len(l.wss) = Len(s.wss) - 1
      /\ next \in ToSet(s.wss) \ {x} /\ next \in WsIds
      /\ l.at = [v \in Windows |-> IF v = w THEN Absent ELSE IF s.at[v] = x THEN next ELSE s.at[v]]
  BY LeaveAlone
<1>. HIDE DEF l, r, next
<1>4. /\ t \in DeskStates /\ Apart(l, t) /\ t.wss = l.wss /\ t.active = l.active
      /\ t.disabled = l.disabled
      /\ t.at = [v \in Windows |-> IF v = w THEN ws ELSE l.at[v]]
  <2>1. l \in DeskStates /\ w \in Windows /\ ws \in WsIds \cup {Absent}
    BY <1>1, <1>3
  <2>. QED  BY <2>1, PutKeeps
<1>. HIDE DEF t
<1>5. ASSUME NEW v \in Windows
      PROVE  t.at[v] = IF v = w THEN ws ELSE IF s.at[v] = x THEN next ELSE s.at[v]
  BY <1>3, <1>4
<1>6. ASSUME NEW v \in Windows, v # w, s.at[v] = x PROVE v \in Dialogs /\ Parent[v] = w
  <2>1. Parent[v] = w
    BY <1>6 DEF Alone, Shared
  <2>. QED  BY <2>1, DeskAssumption DEF Windows
<1>7. ASSUME NEW d \in Dialogs, Parent[d] = w
      PROVE  d \in Windows /\ d # w /\ s.at[d] \in {Absent, x}
  BY <1>7, DeskAssumption DEF Windows, Attached
<1>8. x # Absent /\ next # Absent
  BY <1>3 DEF WsIds, Absent
<1>9. ds = {d \in Dialogs : Parent[d] = w /\ s.at[d] = x /\ next # ws}
  <2>1. ASSUME NEW d \in Dialogs, Parent[d] = w
        PROVE  t.at[d] \notin {Absent, ws} <=> s.at[d] = x /\ next # ws
    BY <1>5, <1>7, <1>8, <2>1
  <2>. QED  BY <2>1
<1>. HIDE DEF ds
<1>10. /\ r \in DeskStates /\ Apart(t, r) /\ r.wss = t.wss /\ r.active = t.active
       /\ r.disabled = t.disabled /\ r.at = WithDialog(s, w, ws)
  <2>1. CASE ds = {}
    <3>1. ASSUME NEW v \in Windows
          PROVE t.at[v] = IF v = w \/ (v \in Dialogs /\ Parent[v] = w /\ s.at[v] # Absent)
                          THEN ws ELSE s.at[v]
      <4>1. CASE v = w
        BY <1>5, <4>1
      <4>2. CASE v # w /\ s.at[v] = x
        BY <1>5, <1>6, <1>8, <1>9, <2>1, <4>2
      <4>3. CASE v # w /\ s.at[v] # x
        BY <1>5, <1>7, <4>3
      <4>. QED  BY <4>1, <4>2, <4>3
    <3>2. t.at = WithDialog(s, w, ws)
      BY <1>4, <3>1 DEF WithDialog
    <3>. QED  BY <1>2, <1>4, <2>1, <3>2 DEF Apart
  <2>2. CASE ds # {}
    <3>. DEFINE d == CHOOSE y \in ds : TRUE
                p == Put(t, d, Absent)
    <3>1. d \in ds
      BY <2>2
    <3>2. r = Put(Leave(t, d), d, ws)
      BY <1>2, <2>2
    <3>. HIDE DEF d
    <3>3. /\ d \in Dialogs /\ Parent[d] = w /\ s.at[d] = x /\ next # ws
          /\ d \in Windows /\ d # w /\ t.at[d] = next
      BY <1>5, <1>7, <1>9, <3>1
    <3>4. Shared(t, d)
      <4>1. PICK v \in Windows : s.at[v] = next
        BY <1>1, <1>3, <3>3 DEF OccupiedBut
      <4>2. v # w /\ v # d /\ t.at[v] = next
        BY <1>3, <1>5, <3>3, <4>1
      <4>3. Parent[v] # d
        BY <3>3, DeskAssumption DEF Windows
      <4>. QED  BY <3>3, <4>2, <4>3 DEF Shared
    <3>5. Leave(t, d) = p
      BY <1>4, <3>3, <3>4, LeaveIs
    <3>6. /\ p \in DeskStates /\ Apart(t, p) /\ p.wss = t.wss /\ p.active = t.active
          /\ p.disabled = t.disabled
          /\ p.at = [v \in Windows |-> IF v = d THEN Absent ELSE t.at[v]]
      BY <1>4, <3>3, TakenOff
    <3>. HIDE DEF p
    <3>7. /\ r \in DeskStates /\ Apart(p, r) /\ r.wss = p.wss /\ r.active = p.active
          /\ r.disabled = p.disabled
          /\ r.at = [v \in Windows |-> IF v = d THEN ws ELSE p.at[v]]
      <4>1. p \in DeskStates /\ d \in Windows /\ ws \in WsIds \cup {Absent} /\ r = Put(p, d, ws)
        BY <1>1, <3>2, <3>3, <3>5, <3>6
      <4>. QED  BY <4>1, PutKeeps
    <3>8. ASSUME NEW v \in Windows
          PROVE r.at[v] = IF v = w \/ (v \in Dialogs /\ Parent[v] = w /\ s.at[v] # Absent)
                          THEN ws ELSE s.at[v]
      <4>1. CASE v = w
        BY <1>5, <3>3, <3>6, <3>7, <4>1
      <4>2. CASE v = d
        BY <1>8, <3>3, <3>7, <4>2
      <4>3. CASE v # w /\ v # d
        <5>1. ~(v \in Dialogs /\ Parent[v] = w)
          BY <3>3, <4>3, DeskAssumption
        <5>2. s.at[v] # x
          BY <1>6, <4>3, <5>1
        <5>. QED  BY <1>5, <3>6, <3>7, <4>3, <5>1, <5>2
      <4>. QED  BY <4>1, <4>2, <4>3
    <3>9. r.at = WithDialog(s, w, ws)
      BY <3>7, <3>8 DEF WithDialog
    <3>. QED  BY <3>6, <3>7, <3>9 DEF Apart
  <2>. QED  BY <2>1, <2>2
<1>11. Apart(s, r) /\ Apart(l, r) /\ r.wss = l.wss /\ r.active = l.active /\ r.disabled = l.disabled
  BY <1>3, <1>4, <1>10 DEF Apart
<1>12. Screen(r)
  <2>1. ASSUME NEW v \in Windows PROVE r.at[v] \in ToSet(r.wss) \cup {Absent}
    <3>1. r.at[v] = IF v = w \/ (v \in Dialogs /\ Parent[v] = w /\ s.at[v] # Absent)
                    THEN ws ELSE s.at[v]
      BY <1>10 DEF WithDialog
    <3>2. CASE r.at[v] = ws
      BY <1>3, <1>11, <3>2
    <3>3. CASE r.at[v] # ws
      <4>1. r.at[v] = s.at[v] /\ s.at[v] # x
        BY <1>6, <1>8, <3>1, <3>3
      <4>. QED  BY <1>3, <1>11, <4>1 DEF Screen
    <3>. QED  BY <3>2, <3>3
  <2>. QED  BY <1>3, <1>11, <2>1 DEF Screen
<1>13. Seen(r)
  <2>1. ASSUME NEW v \in ToSet(s.list) PROVE r.at[v] = l.at[v]
    <3>1. v \in Apps /\ v \in Windows /\ v # w /\ v \notin Dialogs
      BY DeskAssumption DEF Listed, Simple
    <3>2. s.at[v] # x
      BY <1>6, <3>1
    <3>. QED  BY <1>3, <1>10, <3>1, <3>2 DEF WithDialog
  <2>2. FullOn(r, r.active) <=> FullOn(l, l.active)
    BY <1>3, <1>11, <2>1 DEF FullOn, Apart
  <2>. QED  BY <1>3, <1>11, <2>2 DEF Seen, Apart
<1>. QED  BY <1>3, <1>10, <1>11, <1>12, <1>13 DEF r

\* Nothing is activated then: the index of the last workspace is nobody's any more.
LEMMA MoveAlone ==
  ASSUME NEW s \in DeskStates, Screen(s), Seen(s), Listed(s), Simple(s), Attached(s),
         NEW n \in Nat, n = Len(s.wss) - 1, OccupiedBut(s, s.wss[n + 1]),
         NEW w \in Apps, s.at[w] # Absent, Alone(s, w), ~s.isFull[w], s.at[w] # s.wss[n + 1]
  PROVE  LET t == MoveTo(s, w, n)
         IN DeskRight(t) /\ Apart(s, t) /\ s.at[w] \notin ToSet(t.wss)
<1>. DEFINE ws == s.wss[n + 1]
            t == ChangeWs(s, w, ws)
<1>1. /\ s.wss \in Seq(WsIds) /\ Len(s.wss) \in Nat /\ DOMAIN s.wss = 1..Len(s.wss)
      /\ n + 1 \in DOMAIN s.wss /\ w \in Windows
  BY DEF DeskStates, Windows
<1>2. ws \in ToSet(s.wss) /\ ws # Absent
  <2>1. ws \in ToSet(s.wss) /\ ws \in WsIds
    BY <1>1 DEF ToSet
  <2>. QED  BY <2>1 DEF WsIds, Absent
<1>3. ws # s.at[w] /\ OccupiedBut(s, ws)
  OBVIOUS
<1>4. MoveTo(s, w, n) = IF n # Index(s, s.active) /\ Exists(t, n) THEN Activate(t, ByIndex(t, n)) ELSE t
  BY DEF MoveTo, ByIndex
<1>. HIDE DEF ws
<1>5. /\ t \in DeskStates /\ Apart(s, t) /\ Screen(t) /\ Seen(t)
      /\ ToSet(t.wss) = ToSet(s.wss) \ {s.at[w]} /\ Len(t.wss) = Len(s.wss) - 1
      /\ t.at = WithDialog(s, w, ws)
  BY <1>2, <1>3, ChangeAlone
<1>. HIDE DEF t
<1>6. ~Exists(t, n)
  <2>1. DOMAIN t.wss = 1..Len(t.wss)
    BY <1>5 DEF DeskStates
  <2>. QED  BY <1>1, <1>5, <2>1 DEF Exists
<1>7. MoveTo(s, w, n) = t
  BY <1>4, <1>6
<1>8. ASSUME NEW x \in Windows
      PROVE  t.at[x] = IF x = w \/ (x \in Dialogs /\ Parent[x] = w /\ s.at[x] # Absent)
                       THEN ws ELSE s.at[x]
  BY <1>5 DEF WithDialog
<1>9. Listed(t) /\ Simple(t)
  <2>1. ASSUME NEW x \in Windows PROVE t.at[x] = Absent <=> s.at[x] = Absent
    BY <1>2, <1>8
  <2>. QED  BY <1>5, <2>1, Shifted
<1>10. Attached(t)
  <2>. SUFFICES ASSUME NEW d \in Dialogs, t.at[d] # Absent, Parent[d] \in Apps,
                       t.at[Parent[d]] # Absent
                PROVE  t.at[d] = t.at[Parent[d]]
    BY DEF Attached
  <2>1. d \in Windows /\ d # w /\ Parent[d] \in Windows /\ Parent[d] \notin Dialogs
    BY DeskAssumption DEF Windows
  <2>2. CASE Parent[d] = w
    BY <1>1, <1>8, <2>1, <2>2
  <2>3. CASE Parent[d] # w
    BY <1>8, <2>1, <2>3 DEF Attached
  <2>. QED  BY <2>2, <2>3
<1>11. Occupied(t)
  <2>. SUFFICES ASSUME NEW x \in ToSet(s.wss), x # s.at[w] PROVE \E u \in Windows : t.at[u] = x
    BY <1>5 DEF Occupied
  <2>1. CASE x = ws
    BY <1>1, <1>8, <2>1
  <2>2. CASE x # ws
    <3>1. PICK u \in Windows : s.at[u] = x
      BY <1>3, <2>2 DEF OccupiedBut, Alone
    <3>2. t.at[u] = x
      BY <1>8, <3>1 DEF Attached
    <3>. QED  BY <3>2
  <2>. QED  BY <2>1, <2>2
<1>. QED  BY <1>5, <1>7, <1>9, <1>10, <1>11 DEF DeskRight

LEMMA ItsOwn ==
  ASSUME NEW s, DeskRight(s), NEW w \in Apps, s.at[w] # Absent,
         Alone(s, w) => ~s.isFull[w], s.at[w] = s.active \/ ~s.isFull[w]
  PROVE  LET t == MoveToItsOwn(s, w)
         IN /\ DeskRight(t) /\ t.watched = s.watched
            /\ t.at[w] = t.active \/ (Alone(s, w) /\ s.at[w] \notin ToSet(t.wss))
<1>. DEFINE n == Len(s.wss)
            others == \E a \in Apps \ {w} : s.at[a] # Absent /\ s.min[a] = "no"
            t == MoveToItsOwn(s, w)
<1>1. /\ s \in DeskStates /\ Screen(s) /\ Seen(s) /\ Listed(s) /\ Simple(s) /\ Attached(s)
      /\ Occupied(s)
  BY DEF DeskRight
<1>2. /\ s.wss \in Seq(WsIds) /\ n \in Nat /\ n \in 1..MaxWorkspaces /\ DOMAIN s.wss = 1..n
      /\ MaxWorkspaces \in Nat /\ MaxWorkspaces > 1 /\ Once(s.wss)
  BY <1>1, DeskAssumption DEF DeskStates, Screen
<1>. HIDE DEF n
<1>3. \A x \in Apps : x \in Windows
  BY DEF Windows
<1>4. ASSUME n = 1 PROVE \A x \in ToSet(s.wss) : x = s.wss[1]
  BY <1>2, <1>4 DEF ToSet
<1>5. CASE n = 1 /\ ~others
  <2>1. t = MoveTo(s, w, 0)
    BY <1>5 DEF MoveToItsOwn, n
  <2>2. 0 \in 0..(n - 1) /\ s.wss[0 + 1] = s.wss[1]
    BY <1>5
  <2>3. s.at[w] = s.wss[0 + 1]
    BY <1>1, <1>3, <1>4, <1>5, <2>2 DEF Screen
  <2>4. OccupiedBut(s, s.wss[0 + 1])
    BY <1>1 DEF Occupied, OccupiedBut
  <2>. QED  BY <1>1, <2>1, <2>2, <2>3, <2>4, MoveToRight DEF Apart, n
<1>6. ASSUME ~(n = 1 /\ ~others) PROVE Shared(s, w) \/ Alone(s, w)
  <2>1. CASE n = 1
    <3>1. PICK a \in Apps \ {w} : s.at[a] # Absent
      BY <1>6, <2>1
    <3>2. s.at[a] = s.wss[1] /\ s.at[w] = s.wss[1]
      BY <1>1, <1>3, <1>4, <2>1, <3>1 DEF Screen
    <3>3. a \in Windows \ {w} /\ Parent[a] # w
      BY <1>3, <3>1, DeskAssumption
    <3>. QED  BY <3>2, <3>3 DEF Shared
  <2>2. CASE n # 1
    <3>1. n > 1
      BY <1>2, <2>2
    <3>. QED  BY <3>1 DEF Alone, n
  <2>. QED  BY <2>1, <2>2
<1>7. CASE n > 1 /\ n >= MaxWorkspaces
  <2>1. n = MaxWorkspaces /\ MaxWorkspaces - 1 \in 0..(n - 1)
    BY <1>2, <1>7
  <2>2. t = MoveTo(s, w, MaxWorkspaces - 1)
    <3>1. n # 1
      BY <1>2, <1>7
    <3>. QED  BY <1>7, <3>1 DEF MoveToItsOwn, n
  <2>3. OccupiedBut(s, s.wss[(MaxWorkspaces - 1) + 1])
    BY <1>1 DEF Occupied, OccupiedBut
  <2>4. Shared(s, w) \/ Alone(s, w)
    BY <1>2, <1>6, <1>7
  <2>. DEFINE k == MaxWorkspaces - 1
  <2>5. k \in 0..(Len(s.wss) - 1) /\ k \in Nat /\ k = Len(s.wss) - 1
    BY <1>2, <2>1 DEF n
  <2>6. t = MoveTo(s, w, k) /\ OccupiedBut(s, s.wss[k + 1])
    BY <2>2, <2>3
  <2>. HIDE DEF k, t
  <2>7. CASE s.at[w] = s.wss[k + 1] \/ Shared(s, w)
    BY <1>1, <2>5, <2>6, <2>7, MoveToRight DEF Apart, t
  <2>8. CASE s.at[w] # s.wss[k + 1] /\ Alone(s, w)
    BY <1>1, <2>5, <2>6, <2>8, MoveAlone DEF Apart, t
  <2>. QED  BY <2>4, <2>7, <2>8
<1>8. CASE ~(n = 1 /\ ~others) /\ ~(n > 1 /\ n >= MaxWorkspaces)
  <2>. DEFINE new == NewWs(s)
              q == Append(s.wss, new)
              u == [s EXCEPT !.wss = q]
  <2>1. t = MoveTo(u, w, n)
    BY <1>8 DEF MoveToItsOwn, n
  <2>2. n < MaxWorkspaces
    BY <1>2, <1>8
  <2>3. new \in WsIds /\ new \notin ToSet(s.wss)
    BY <1>1, <1>2, NewOne
  <2>. HIDE DEF new
  <2>4. /\ q \in Seq(WsIds) /\ Once(q) /\ ToSet(q) = {new} \cup ToSet(s.wss)
        /\ Len(q) = n + 1 /\ q[n + 1] = new
    <3>1. s.wss \in Seq(WsIds) /\ Once(s.wss)
      BY <1>2
    <3>. DEFINE l == s.wss
    <3>2. l \in Seq(WsIds) /\ Once(l) /\ new \in WsIds /\ new \notin ToSet(l)
      BY <2>3, <3>1
    <3>. HIDE DEF l
    <3>3. /\ Append(l, new) \in Seq(WsIds) /\ Once(Append(l, new))
          /\ ToSet(Append(l, new)) = {new} \cup ToSet(l)
          /\ Len(Append(l, new)) = Len(l) + 1 /\ Append(l, new)[Len(l) + 1] = new
      BY <3>2, OneAfter
    <3>. QED  BY <3>3 DEF l, n
  <2>. HIDE DEF q
  <2>5. /\ u \in DeskStates /\ Apart(s, u) /\ u.wss = q /\ u.active = s.active /\ u.at = s.at
        /\ u.disabled = s.disabled
    BY <1>1, <2>4 DEF DeskStates, Apart
  <2>. HIDE DEF u
  <2>6. Screen(u)
    <3>1. Len(q) \in 1..MaxWorkspaces
      BY <1>2, <2>2, <2>4
    <3>. QED  BY <1>1, <2>4, <2>5, <3>1 DEF Screen
  <2>7. Seen(u)
    BY <1>1, <2>5 DEF Seen, FullOn, Apart
  <2>8. Listed(u) /\ Simple(u)
    BY <1>1, <2>5, Shifted
  <2>9. Attached(u)
    BY <1>1, <2>5 DEF Attached
  <2>10. OccupiedBut(u, new)
    <3>. SUFFICES ASSUME NEW x \in ToSet(s.wss) PROVE \E y \in Windows : s.at[y] = x
      BY <2>4, <2>5 DEF OccupiedBut, n
    <3>1. CASE n = 1
      BY <1>1, <1>3, <1>4, <3>1 DEF Screen
    <3>2. CASE n > 1
      BY <1>1, <3>2 DEF Occupied, n
    <3>3. n = 1 \/ n > 1
      BY <1>2
    <3>. QED  BY <3>1, <3>2, <3>3
  <2>11. n \in 0..(Len(u.wss) - 1) /\ u.wss[n + 1] = new
    BY <1>2, <2>4, <2>5
  <2>12. u.at[w] # Absent /\ (u.at[w] = u.active \/ ~u.isFull[w])
    BY <2>5 DEF Apart
  <2>. HIDE DEF t
  <2>13. CASE Shared(s, w)
    <3>1. Shared(u, w)
      BY <2>5, <2>13 DEF Shared
    <3>2. DeskRight(t) /\ Apart(u, t) /\ t.at[w] = t.active
      BY <2>1, <2>5, <2>6, <2>7, <2>8, <2>9, <2>10, <2>11, <2>12, <3>1, MoveToRight
    <3>. QED  BY <2>5, <3>2 DEF Apart, t
  <2>14. CASE Alone(s, w)
    <3>1. Len(u.wss) = n + 1 /\ n \in Nat /\ n = Len(u.wss) - 1 /\ n > 1
      BY <1>2, <2>4, <2>5, <2>14 DEF Alone, n
    <3>2. Alone(u, w) /\ ~u.isFull[w]
      <4>1. Len(u.wss) > 1
        BY <3>1
      <4>. QED  BY <2>5, <2>14, <4>1 DEF Alone, Shared, Apart
    <3>3. u.at[w] # u.wss[n + 1]
      BY <1>1, <1>3, <2>3, <2>5, <2>11 DEF Screen
    <3>4. DeskRight(t) /\ Apart(u, t) /\ u.at[w] \notin ToSet(t.wss)
      BY <2>1, <2>5, <2>6, <2>7, <2>8, <2>9, <2>10, <2>11, <2>12, <3>1, <3>2, <3>3, MoveAlone
    <3>. QED  BY <2>5, <2>14, <3>4 DEF Apart, t
  <2>. QED  BY <1>6, <1>8, <2>13, <2>14
<1>. QED  BY <1>5, <1>7, <1>8

\* A window is added to the list, or taken off it.
LEMMA AddedRight ==
  ASSUME NEW s \in DeskStates, s.saver \/ s.dpms => s.disabled,
         NEW w \in Windows, Once(s.list), w \notin ToSet(s.list)
  PROVE  LET t == FullAdded(s, w)
         IN /\ t \in DeskStates /\ Seen(t) /\ t.wss = s.wss /\ t.active = s.active /\ t.at = s.at
            /\ t.isFull = s.isFull /\ t.min = s.min /\ t.watched = s.watched
            /\ t.saver = s.saver /\ t.dpms = s.dpms
            /\ Once(t.list) /\ ToSet(t.list) = {w} \cup ToSet(s.list)
<1>. DEFINE q == <<w>> \o s.list
            u == [s EXCEPT !.list = q]
<1>1. q \in Seq(Windows) /\ Once(q) /\ ToSet(q) = {w} \cup ToSet(s.list)
  <2>1. s.list \in Seq(Windows)
    BY DEF DeskStates
  <2>. QED  BY <2>1, OneBefore
<1>. HIDE DEF q
<1>2. /\ u \in DeskStates /\ u.wss = s.wss /\ u.active = s.active /\ u.at = s.at
      /\ u.isFull = s.isFull /\ u.min = s.min /\ u.watched = s.watched /\ u.list = q
      /\ u.saver = s.saver /\ u.dpms = s.dpms /\ u.disabled = s.disabled
  BY <1>1 DEF DeskStates
<1>3. FullAdded(s, w) = Review(u)
  BY DEF FullAdded, q
<1>. HIDE DEF u
<1>4. u.saver \/ u.dpms => u.disabled
  BY <1>2
<1>5. /\ Review(u) \in DeskStates /\ Apart(u, Review(u)) /\ Review(u).wss = u.wss
      /\ Review(u).active = u.active /\ Review(u).at = u.at /\ Seen(Review(u))
  BY <1>2, <1>4, ReviewKeeps
<1>. QED  BY <1>1, <1>2, <1>3, <1>5 DEF Apart

LEMMA RemovedRight ==
  ASSUME NEW s \in DeskStates, s.saver \/ s.dpms => s.disabled,
         NEW w \in Windows, Once(s.list)
  PROVE  LET t == FullRemoved(s, w)
         IN /\ t \in DeskStates /\ Seen(t) /\ t.wss = s.wss /\ t.active = s.active /\ t.at = s.at
            /\ t.isFull = s.isFull /\ t.min = s.min /\ t.watched = s.watched
            /\ t.saver = s.saver /\ t.dpms = s.dpms
            /\ Once(t.list) /\ ToSet(t.list) = ToSet(s.list) \ {w}
<1>. DEFINE q == Without(s.list, w)
            u == [s EXCEPT !.list = q]
<1>1. q \in Seq(Windows) /\ Once(q) /\ ToSet(q) = ToSet(s.list) \ {w}
  <2>1. s.list \in Seq(Windows)
    BY DEF DeskStates
  <2>. QED  BY <2>1, WithoutOne
<1>. HIDE DEF q
<1>2. /\ u \in DeskStates /\ u.wss = s.wss /\ u.active = s.active /\ u.at = s.at
      /\ u.isFull = s.isFull /\ u.min = s.min /\ u.watched = s.watched /\ u.list = q
      /\ u.saver = s.saver /\ u.dpms = s.dpms /\ u.disabled = s.disabled
  BY <1>1 DEF DeskStates
<1>3. FullRemoved(s, w) = Review(u)
  BY DEF FullRemoved, q
<1>. HIDE DEF u
<1>4. u.saver \/ u.dpms => u.disabled
  BY <1>2
<1>5. /\ Review(u) \in DeskStates /\ Apart(u, Review(u)) /\ Review(u).wss = u.wss
      /\ Review(u).active = u.active /\ Review(u).at = u.at /\ Seen(Review(u))
  BY <1>2, <1>4, ReviewKeeps
<1>. QED  BY <1>1, <1>2, <1>3, <1>5 DEF Apart

\* map(): the list is yet to learn of the window, if it is fullscreen.
LEMMA MappedRight ==
  ASSUME NEW s \in DeskStates, Screen(s), Seen(s), Simple(s), Attached(s), Occupied(s),
         NEW w \in Windows, s.at[w] # Absent, s.watched[w] < 2, w \notin ToSet(s.list), Once(s.list),
         ToSet(s.list) = {x \in Windows \ {w} : s.at[x] # Absent /\ s.isFull[x]},
         w \in Apps /\ Alone(s, w) => ~s.isFull[w], s.at[w] = s.active \/ ~s.isFull[w]
  PROVE  LET t == Mapped(s, w)
         IN /\ DeskRight(t) /\ t.watched = [s.watched EXCEPT ![w] = @ + 1]
            /\ w \in Apps => t.at[w] = t.active \/ (Alone(s, w) /\ s.at[w] \notin ToSet(t.wss))
<1>. DEFINE r == IF s.isFull[w] THEN FullAdded(s, w) ELSE s
            f == [r.watched EXCEPT ![w] = @ + 1]
            u == [r EXCEPT !.watched = f]
<1>1. /\ r \in DeskStates /\ Seen(r) /\ r.wss = s.wss /\ r.active = s.active /\ r.at = s.at
      /\ r.isFull = s.isFull /\ r.min = s.min /\ r.watched = s.watched
      /\ r.saver = s.saver /\ r.dpms = s.dpms
      /\ Once(r.list) /\ ToSet(r.list) = {x \in Windows : s.at[x] # Absent /\ s.isFull[x]}
  <2>1. CASE s.isFull[w]
    <3>1. s.saver \/ s.dpms => s.disabled
      BY DEF Seen
    <3>2. r = FullAdded(s, w)
      BY <2>1
    <3>. HIDE DEF r
    <3>3. /\ r \in DeskStates /\ Seen(r) /\ r.wss = s.wss /\ r.active = s.active /\ r.at = s.at
          /\ r.isFull = s.isFull /\ r.min = s.min /\ r.watched = s.watched
          /\ r.saver = s.saver /\ r.dpms = s.dpms
          /\ Once(r.list) /\ ToSet(r.list) = {w} \cup ToSet(s.list)
      BY <3>1, <3>2, AddedRight
    <3>4. {w} \cup ToSet(s.list) = {x \in Windows : s.at[x] # Absent /\ s.isFull[x]}
      BY <2>1
    <3>. QED  BY <3>3, <3>4
  <2>2. CASE ~s.isFull[w]
    <3>1. ToSet(s.list) = {x \in Windows : s.at[x] # Absent /\ s.isFull[x]}
      BY <2>2
    <3>. QED  BY <2>2, <3>1
  <2>. QED  BY <2>1, <2>2
<1>2. Mapped(s, w) = IF w \in Apps THEN MoveToItsOwn(u, w) ELSE u
  BY DEF Mapped
<1>. HIDE DEF r
<1>3. f \in [Windows -> 0..2] /\ f = [s.watched EXCEPT ![w] = @ + 1]
  <2>1. s.watched \in [Windows -> 0..2]
    BY DEF DeskStates
  <2>. QED  BY <1>1, <2>1
<1>. HIDE DEF f
<1>4. /\ u \in DeskStates /\ u.wss = s.wss /\ u.active = s.active /\ u.at = s.at
      /\ u.isFull = s.isFull /\ u.min = s.min /\ u.watched = f /\ u.saver = s.saver
      /\ u.dpms = s.dpms /\ u.list = r.list /\ u.disabled = r.disabled
  BY <1>1, <1>3 DEF DeskStates
<1>. HIDE DEF u
<1>5. Seen(u)
  BY <1>1, <1>4 DEF Seen, FullOn
<1>6. Listed(u)
  BY <1>1, <1>4 DEF Listed
<1>7. Simple(u)
  <2>1. \A x \in Windows : x # w => f[x] = s.watched[x]
    BY <1>3 DEF DeskStates
  <2>. QED  BY <1>4, <2>1 DEF Simple
<1>8. DeskRight(u)
  BY <1>4, <1>5, <1>6, <1>7 DEF DeskRight, Screen, Attached, Occupied
<1>9. CASE w \in Apps
  <2>1. /\ u.at[w] # Absent /\ (Alone(u, w) <=> Alone(s, w))
        /\ (Alone(u, w) => ~u.isFull[w]) /\ (u.at[w] = u.active \/ ~u.isFull[w])
    BY <1>4, <1>9 DEF Shared, Alone
  <2>. QED  BY <1>2, <1>3, <1>4, <1>8, <1>9, <2>1, ItsOwn
<1>10. CASE w \notin Apps
  BY <1>2, <1>3, <1>4, <1>8, <1>10
<1>. QED  BY <1>9, <1>10

-----------------------------------------------------------------------------
(***************************************************************************)
(* The inductive invariant, action by action.                              *)
(***************************************************************************)
DeskInv == DeskRight(DeskState)

LEMMA DeskFields ==
  /\ DeskState.wss = wss /\ DeskState.active = activeWs /\ DeskState.at = wsOf
  /\ DeskState.isFull = isFull /\ DeskState.min = minimized /\ DeskState.watched = watched
  /\ DeskState.list = fullWins /\ DeskState.disabled = disabled /\ DeskState.saver = saver
  /\ DeskState.dpms = dpms
BY DEF DeskState

LEMMA Became ==
  ASSUME NEW s, DeskRight(s), DeskBecome(s)
  PROVE  DeskInv' /\ watched' = s.watched /\ wsOf' = s.at /\ activeWs' = s.active /\ wss' = s.wss
<1>1. s \in DeskStates
  BY DEF DeskRight
<1>2. DeskState' = s
  BY <1>1 DEF DeskState, DeskStates, DeskBecome
<1>. QED  BY <1>2 DEF DeskInv, DeskBecome

LEMMA InitRight ==
  ASSUME DeskInit
  PROVE  DeskInv
<1>. DEFINE s == DeskState
<1>1. MaxWorkspaces \in Nat /\ MaxWorkspaces > 1 /\ 1 \in WsIds /\ Absent \notin WsIds
  BY DeskAssumption DEF WsIds, Absent
<1>2. /\ s.wss = <<1>> /\ s.active = 1 /\ s.at = [w \in Windows |-> Absent]
      /\ s.isFull = [w \in Windows |-> FALSE] /\ s.min = [w \in Windows |-> "no"]
      /\ s.watched = [w \in Windows |-> 0] /\ s.list = <<>>
      /\ s.disabled = FALSE /\ s.saver = FALSE /\ s.dpms = FALSE
  BY DEF DeskInit, DeskState
<1>3. s \in DeskStates
  <2>1. wss \in Seq(WsIds) /\ activeWs \in WsIds /\ fullWins \in Seq(Windows)
    BY <1>1 DEF DeskInit
  <2>2. wsOf \in [Windows -> WsIds \cup {Absent}] /\ isFull \in [Windows -> BOOLEAN]
    BY DEF DeskInit
  <2>3. minimized \in [Windows -> {"no", "going", "yes"}] /\ watched \in [Windows -> 0..2]
    BY DEF DeskInit
  <2>4. disabled \in BOOLEAN /\ saver \in BOOLEAN /\ dpms \in BOOLEAN
    BY DEF DeskInit
  <2>. QED  BY <2>1, <2>2, <2>3, <2>4 DEF DeskStates, DeskState
<1>4. ToSet(s.wss) = {1} /\ Len(s.wss) = 1 /\ ToSet(s.list) = {} /\ Once(s.wss) /\ Once(s.list)
  BY <1>2 DEF ToSet, Once
<1>. HIDE DEF s
<1>5. Screen(s)
  BY <1>1, <1>2, <1>4 DEF Screen
<1>6. Seen(s)
  BY <1>2, <1>4 DEF Seen, FullOn
<1>7. Listed(s)
  BY <1>2, <1>4 DEF Listed
<1>8. Simple(s) /\ Attached(s)
  BY <1>2, DeskAssumption DEF Simple, Attached, Windows
<1>9. Occupied(s)
  BY <1>4 DEF Occupied
<1>. QED  BY <1>3, <1>5, <1>6, <1>7, <1>8, <1>9 DEF DeskInv, DeskRight, s

\* Every action keeps the invariant, and MappedIsActive.
Followed == \A w \in Apps : watched'[w] > watched[w] =>
              \/ wsOf'[w] = activeWs'
              \/ wsOf[w] # Absent /\ wsOf[w] \notin ToSet(wss')

\* Most do not map a window.
LEMMA Otherwise ==
  ASSUME DeskInv, NEW s, DeskRight(s), DeskBecome(s),
         \A x \in Windows : s.watched[x] = DeskState.watched[x] \/ s.watched[x] = 0
  PROVE  DeskInv' /\ Followed
<1>1. DeskInv' /\ watched' = s.watched
  BY Became
<1>2. \A x \in Apps : x \in Windows /\ watched[x] \in 0..2
  BY DEF DeskInv, DeskRight, DeskStates, DeskState, Windows
<1>3. \A x \in Apps : ~(watched'[x] > watched[x])
  BY <1>1, <1>2, DeskFields
<1>. QED  BY <1>1, <1>3 DEF Followed

\* A window is mapped.
LEMMA Maps ==
  ASSUME DeskInv, NEW s, NEW w \in Windows, DeskRight(s), DeskBecome(s),
         s.watched = [watched EXCEPT ![w] = @ + 1],
         w \in Apps => s.at[w] = s.active \/ (wsOf[w] # Absent /\ wsOf[w] \notin ToSet(s.wss))
  PROVE  DeskInv' /\ Followed
<1>1. DeskInv' /\ watched' = s.watched /\ wsOf' = s.at /\ activeWs' = s.active /\ wss' = s.wss
  BY Became
<1>2. ASSUME NEW x \in Apps, x # w PROVE ~(watched'[x] > watched[x])
  <2>1. watched \in [Windows -> 0..2] /\ x \in Windows
    BY DEF DeskInv, DeskRight, DeskStates, DeskState, Windows
  <2>2. watched'[x] = watched[x] /\ watched[x] \in 0..2
    BY <1>1, <1>2, <2>1
  <2>. QED  BY <2>2
<1>. QED  BY <1>1, <1>2 DEF Followed

LEMMA MapRight ==
  ASSUME DeskInv, NEW w \in Windows, NEW full \in BOOLEAN, MapWindow(w, full)
  PROVE  DeskInv' /\ Followed
<1>. DEFINE home == IF w \in Dialogs /\ Parent[w] \in Apps THEN wsOf[Parent[w]] ELSE activeWs
            f == [x \in Windows |-> IF x = w THEN home ELSE wsOf[x]]
            g == [isFull EXCEPT ![w] = full]
            p == Put(DeskState, w, home)
            s == Appeared(DeskState, w, full)
            t == Mapped(s, w)
<1>1. /\ wsOf[w] = Absent
      /\ w \in Dialogs => ~full /\ (Parent[w] \in Apps => wsOf[Parent[w]] # Absent)
      /\ \A d \in Dialogs : Parent[d] = w => wsOf[d] = Absent
      /\ DeskBecome(t)
  BY DEF MapWindow
<1>2. /\ DeskState \in DeskStates /\ Screen(DeskState) /\ Seen(DeskState) /\ Listed(DeskState)
      /\ Simple(DeskState) /\ Attached(DeskState) /\ Occupied(DeskState)
  BY DEF DeskInv, DeskRight
<1>3. /\ wss \in Seq(WsIds) /\ activeWs \in WsIds /\ wsOf \in [Windows -> WsIds \cup {Absent}]
      /\ isFull \in [Windows -> BOOLEAN] /\ watched \in [Windows -> 0..2]
  BY <1>2 DEF DeskStates, DeskState
<1>4. Absent \notin WsIds /\ activeWs \in ToSet(wss)
      /\ \A x \in Windows : wsOf[x] \in ToSet(wss) \cup {Absent}
  BY <1>2, DeskFields DEF Screen, WsIds, Absent
<1>5. home \in WsIds /\ home \in ToSet(wss) /\ home # Absent
  <2>1. CASE w \in Dialogs /\ Parent[w] \in Apps
    <3>1. Parent[w] \in Windows /\ wsOf[Parent[w]] # Absent
      BY <1>1, <2>1 DEF Windows
    <3>. QED  BY <1>3, <1>4, <2>1, <3>1
  <2>2. CASE ~(w \in Dialogs /\ Parent[w] \in Apps)
    BY <1>3, <1>4, <2>2
  <2>. QED  BY <2>1, <2>2
<1>6. /\ s \in DeskStates /\ s.wss = wss /\ s.active = activeWs /\ s.at = f /\ s.isFull = g
      /\ s.min = minimized /\ s.watched = watched /\ s.list = fullWins
      /\ s.disabled = disabled /\ s.saver = saver /\ s.dpms = dpms
  <2>1. /\ p \in DeskStates /\ Apart(DeskState, p) /\ p.wss = wss /\ p.active = activeWs
        /\ p.disabled = disabled /\ p.at = f
    <3>. HIDE DEF home
    <3>. QED  BY <1>2, <1>5, PutKeeps, DeskFields
  <2>2. p.isFull = isFull
    BY <2>1, DeskFields DEF Apart
  <2>3. s = [p EXCEPT !.isFull = g]
    <3>1. s = [p EXCEPT !.isFull = [DeskState.isFull EXCEPT ![w] = full]]
      BY DeskFields DEF Appeared
    <3>. QED  BY <3>1, DeskFields
  <2>4. g \in [Windows -> BOOLEAN]
    BY <1>3
  <2>. HIDE DEF p, f, g, s
  <2>. QED  BY <2>1, <2>3, <2>4, DeskFields DEF DeskStates, Apart
<1>7. \A x \in Windows : /\ f[x] = IF x = w THEN home ELSE wsOf[x]
                         /\ g[x] = IF x = w THEN full ELSE isFull[x]
  BY <1>3
<1>8. /\ minimized[w] = "no" /\ watched[w] = 0 /\ w \notin ToSet(fullWins) /\ Once(fullWins)
      /\ ToSet(fullWins) = {x \in Windows : wsOf[x] # Absent /\ isFull[x]}
  BY <1>1, <1>2, DeskFields DEF Simple, Listed
<1>. HIDE DEF f, g, home, s
<1>9. Screen(s)
  BY <1>2, <1>5, <1>6, <1>7, DeskFields DEF Screen
<1>10. Seen(s)
  <2>1. \A x \in ToSet(fullWins) : x \in Windows /\ f[x] = wsOf[x]
    BY <1>7, <1>8
  <2>2. FullOn(s, s.active) <=> FullOn(DeskState, DeskState.active)
    BY <1>6, <2>1, DeskFields DEF FullOn
  <2>. QED  BY <1>2, <1>6, <2>2, DeskFields DEF Seen
<1>11. Simple(s)
  <2>. SUFFICES ASSUME NEW x \in Windows
                PROVE  /\ g[x] => x \in Apps /\ minimized[x] = "no"
                       /\ minimized[x] # "no" => x \in Apps
                       /\ f[x] = Absent => ~g[x] /\ minimized[x] = "no" /\ watched[x] = 0
    BY <1>6 DEF Simple
  <2>1. CASE x = w
    BY <1>1, <1>5, <1>7, <1>8, <2>1 DEF Windows
  <2>2. CASE x # w
    BY <1>2, <1>7, <2>2, DeskFields DEF Simple
  <2>. QED  BY <2>1, <2>2
<1>12. Attached(s)
  <2>. SUFFICES ASSUME NEW d \in Dialogs, f[d] # Absent, Parent[d] \in Apps, f[Parent[d]] # Absent
                PROVE  f[d] = f[Parent[d]]
    BY <1>6 DEF Attached
  <2>1. d \in Windows /\ Parent[d] \in Windows /\ Parent[d] # d
    BY DeskAssumption DEF Windows
  <2>2. CASE d = w
    BY <1>7, <2>1, <2>2 DEF home
  <2>3. CASE d # w /\ Parent[d] = w
    BY <1>1, <1>7, <2>1, <2>3
  <2>4. CASE d # w /\ Parent[d] # w
    BY <1>2, <1>7, <2>1, <2>4, DeskFields DEF Attached
  <2>. QED  BY <2>2, <2>3, <2>4
<1>13. ASSUME Len(wss) > 1, NEW y \in ToSet(wss) PROVE \E x \in Windows : x # w /\ wsOf[x] = y
  <2>1. PICK x \in Windows : wsOf[x] = y
    BY <1>2, <1>13, DeskFields DEF Occupied
  <2>2. y # Absent
    BY <1>3, <1>4 DEF ToSet
  <2>. QED  BY <1>1, <2>1, <2>2
<1>14. Occupied(s)
  <2>. SUFFICES ASSUME Len(wss) > 1, NEW y \in ToSet(wss) PROVE \E x \in Windows : f[x] = y
    BY <1>6 DEF Occupied
  <2>1. PICK x \in Windows : x # w /\ wsOf[x] = y
    BY <1>13
  <2>. QED  BY <1>7, <2>1
<1>15. w \in Apps => ~Alone(s, w)
  <2>. SUFFICES ASSUME w \in Apps, Len(wss) > 1 PROVE Shared(s, w)
    <3>1. Len(s.wss) = Len(wss)
      BY <1>6
    <3>. QED  BY <3>1 DEF Alone
  <2>1. PICK x \in Windows : x # w /\ wsOf[x] = home
    BY <1>5, <1>13
  <2>2. Parent[x] # w
    <3>1. CASE x \in Dialogs
      BY <1>1, <1>5, <2>1, <3>1
    <3>2. CASE x \in Apps
      BY <3>2, DeskAssumption
    <3>. QED  BY <3>1, <3>2 DEF Windows
  <2>. QED  BY <1>6, <1>7, <2>1, <2>2 DEF Shared
<1>16. s.at[w] # Absent /\ s.watched[w] < 2 /\ w \notin ToSet(s.list) /\ Once(s.list)
  BY <1>5, <1>6, <1>7, <1>8
<1>17. ToSet(s.list) = {x \in Windows \ {w} : s.at[x] # Absent /\ s.isFull[x]}
  BY <1>1, <1>6, <1>7, <1>8
<1>18. s.at[w] = s.active \/ ~s.isFull[w]
  BY <1>1, <1>6, <1>7 DEF home, Windows
<1>19. /\ DeskRight(t) /\ t.watched = [s.watched EXCEPT ![w] = @ + 1]
       /\ w \in Apps => t.at[w] = t.active
  BY <1>6, <1>9, <1>10, <1>11, <1>12, <1>14, <1>15, <1>16, <1>17, <1>18, MappedRight
<1>. HIDE DEF t
<1>. QED  BY <1>1, <1>6, <1>19, Maps

\* What the invariant says, in the variables.
LEMMA DeskFacts ==
  ASSUME DeskInv
  PROVE  /\ DeskState \in DeskStates /\ Screen(DeskState) /\ Seen(DeskState) /\ Listed(DeskState)
         /\ Simple(DeskState) /\ Attached(DeskState) /\ Occupied(DeskState)
         /\ wss \in Seq(WsIds) /\ activeWs \in WsIds /\ wsOf \in [Windows -> WsIds \cup {Absent}]
         /\ isFull \in [Windows -> BOOLEAN] /\ minimized \in [Windows -> {"no", "going", "yes"}]
         /\ watched \in [Windows -> 0..2] /\ fullWins \in Seq(Windows) /\ Once(fullWins)
         /\ ToSet(fullWins) = {x \in Windows : wsOf[x] # Absent /\ isFull[x]}
         /\ \A x \in Windows : /\ isFull[x] => x \in Apps /\ minimized[x] = "no"
                               /\ minimized[x] # "no" => x \in Apps
                               /\ wsOf[x] = Absent => ~isFull[x] /\ minimized[x] = "no" /\ watched[x] = 0
         /\ \A x \in Windows : wsOf[x] \in ToSet(wss) \cup {Absent}
         /\ Absent \notin WsIds
<1>1. /\ DeskState \in DeskStates /\ Screen(DeskState) /\ Seen(DeskState) /\ Listed(DeskState)
      /\ Simple(DeskState) /\ Attached(DeskState) /\ Occupied(DeskState)
  BY DEF DeskInv, DeskRight
<1>2. /\ wss \in Seq(WsIds) /\ activeWs \in WsIds /\ wsOf \in [Windows -> WsIds \cup {Absent}]
      /\ isFull \in [Windows -> BOOLEAN] /\ minimized \in [Windows -> {"no", "going", "yes"}]
      /\ watched \in [Windows -> 0..2] /\ fullWins \in Seq(Windows)
  BY <1>1 DEF DeskStates, DeskState
<1>3. Once(fullWins) /\ ToSet(fullWins) = {x \in Windows : wsOf[x] # Absent /\ isFull[x]}
  BY <1>1, DeskFields DEF Listed
<1>4. \A x \in Windows : /\ isFull[x] => x \in Apps /\ minimized[x] = "no"
                         /\ minimized[x] # "no" => x \in Apps
                         /\ wsOf[x] = Absent => ~isFull[x] /\ minimized[x] = "no" /\ watched[x] = 0
  BY <1>1, DeskFields DEF Simple
<1>5. \A x \in Windows : wsOf[x] \in ToSet(wss) \cup {Absent}
  BY <1>1, DeskFields DEF Screen
<1>. QED  BY <1>1, <1>2, <1>3, <1>4, <1>5 DEF WsIds, Absent

\* Dialogs follow wherever the windows of a workspace are moved to.
LEMMA MovedTogether ==
  ASSUME NEW s \in DeskStates, NEW t \in DeskStates, Attached(s),
         NEW old \in WsIds, NEW new \in WsIds,
         t.at = [w \in Windows |-> IF s.at[w] = old THEN new ELSE s.at[w]]
  PROVE  /\ Attached(t)
         /\ \A w \in Windows : t.at[w] = Absent <=> s.at[w] = Absent
<1>1. Absent \notin WsIds
  BY DEF WsIds, Absent
<1>2. \A w \in Windows : t.at[w] = IF s.at[w] = old THEN new ELSE s.at[w]
  OBVIOUS
<1>3. \A w \in Windows : t.at[w] = Absent <=> s.at[w] = Absent
  BY <1>1, <1>2
<1>4. Attached(t)
  <2>. SUFFICES ASSUME NEW d \in Dialogs, t.at[d] # Absent, Parent[d] \in Apps,
                       t.at[Parent[d]] # Absent
                PROVE  t.at[d] = t.at[Parent[d]]
    BY DEF Attached
  <2>1. d \in Windows /\ Parent[d] \in Windows
    BY DEF Windows
  <2>2. s.at[d] = s.at[Parent[d]]
    BY <1>3, <2>1 DEF Attached
  <2>. QED  BY <1>2, <2>1, <2>2
<1>. QED  BY <1>3, <1>4

LEMMA CloseRight ==
  ASSUME DeskInv, NEW w \in Windows, Close(w)
  PROVE  DeskInv' /\ Followed
<1>. DEFINE r == FullRemoved(DeskState, w)
            p == Put(r, w, Absent)
            u == CheckEmpty(p, wsOf[w], w)
            t == Forgotten(u, w)
<1>1. /\ DeskState \in DeskStates /\ Screen(DeskState) /\ Seen(DeskState) /\ Listed(DeskState)
      /\ Simple(DeskState) /\ Attached(DeskState) /\ Occupied(DeskState)
      /\ wsOf \in [Windows -> WsIds \cup {Absent}] /\ Absent \notin WsIds
      /\ isFull \in [Windows -> BOOLEAN] /\ minimized \in [Windows -> {"no", "going", "yes"}]
      /\ watched \in [Windows -> 0..2]
  BY DeskFacts
<1>2. wsOf[w] \in ToSet(wss)
  BY DeskFacts DEF Close
<1>3. /\ r \in DeskStates /\ Seen(r) /\ r.wss = wss /\ r.active = activeWs /\ r.at = wsOf
      /\ r.isFull = isFull /\ r.min = minimized /\ r.watched = watched
      /\ r.saver = saver /\ r.dpms = dpms
      /\ Once(r.list) /\ ToSet(r.list) = ToSet(fullWins) \ {w}
  <2>1. DeskState.saver \/ DeskState.dpms => DeskState.disabled
    BY <1>1 DEF Seen
  <2>2. Once(DeskState.list)
    BY <1>1 DEF Listed
  <2>. DEFINE s == DeskState
  <2>3. s \in DeskStates /\ (s.saver \/ s.dpms => s.disabled) /\ Once(s.list) /\ r = FullRemoved(s, w)
    BY <1>1, <2>1, <2>2
  <2>. HIDE DEF r, s
  <2>4. /\ r \in DeskStates /\ Seen(r) /\ r.wss = s.wss /\ r.active = s.active /\ r.at = s.at
        /\ r.isFull = s.isFull /\ r.min = s.min /\ r.watched = s.watched
        /\ r.saver = s.saver /\ r.dpms = s.dpms
        /\ Once(r.list) /\ ToSet(r.list) = ToSet(s.list) \ {w}
    BY <2>3, RemovedRight
  <2>. QED  BY <2>4, DeskFields DEF s
<1>4. DeskBecome(t)
  BY <1>3 DEF Close, Leave
<1>. HIDE DEF r
<1>5. /\ p \in DeskStates /\ Apart(r, p) /\ p.wss = wss /\ p.active = activeWs
      /\ p.disabled = r.disabled /\ p.at = [x \in Windows |-> IF x = w THEN Absent ELSE wsOf[x]]
  BY <1>3, TakenOff
<1>. HIDE DEF p
<1>6. ASSUME NEW x \in ToSet(p.list)
      PROVE  x \in Windows /\ x \in Apps /\ x # w /\ p.at[x] = wsOf[x]
  <2>1. x \in ToSet(fullWins) /\ x # w
    BY <1>3, <1>5 DEF Apart
  <2>2. x \in Windows /\ x \in Apps
    BY <2>1, DeskFacts
  <2>. QED  BY <1>5, <2>1, <2>2
<1>7. Screen(p)
  <2>1. \A x \in Windows : p.at[x] \in ToSet(wss) \cup {Absent}
    BY <1>5, DeskFacts
  <2>. QED  BY <1>1, <1>5, <2>1, DeskFields DEF Screen
<1>8. Seen(p)
  <2>1. FullOn(p, p.active) <=> FullOn(r, r.active)
    <3>1. p.list = r.list /\ p.active = r.active
      BY <1>3, <1>5 DEF Apart
    <3>2. \A x \in ToSet(p.list) : p.at[x] = r.at[x]
      BY <1>3, <1>6
    <3>. QED  BY <3>1, <3>2 DEF FullOn
  <2>. QED  BY <1>3, <1>5, <2>1 DEF Seen, Apart
<1>9. OccupiedBut(p, wsOf[w])
  <2>. SUFFICES ASSUME Len(wss) > 1, NEW y \in ToSet(wss) \ {wsOf[w]}
                PROVE  \E x \in Windows : p.at[x] = y
    BY <1>5 DEF OccupiedBut
  <2>1. PICK x \in Windows : wsOf[x] = y
    BY <1>1, DeskFields DEF Occupied
  <2>. QED  BY <1>5, <2>1
<1>10. \A x \in ToSet(p.list) : p.at[x] = wsOf[w] => x # w /\ Parent[x] # w
  <2>1. \A x \in Apps : Parent[x] = "none"
    BY DeskAssumption
  <2>2. w # "none"
    BY DeskAssumption DEF Windows
  <2>. QED  BY <1>6, <2>1, <2>2
<1>11. /\ u \in DeskStates /\ Apart(p, u) /\ Screen(u) /\ Seen(u) /\ Occupied(u)
       /\ \E old, new \in WsIds :
             u.at = [x \in Windows |-> IF p.at[x] = old THEN new ELSE p.at[x]]
  <2>1. wsOf[w] \in ToSet(p.wss)
    BY <1>2, <1>5
  <2>. QED  BY <1>5, <1>7, <1>8, <1>9, <1>10, <2>1, CheckRight
<1>. HIDE DEF u
<1>12. Attached(p)
  <2>1. \A d \in Dialogs : d \in Windows /\ (Parent[d] \in Apps => Parent[d] \in Windows)
    BY DEF Windows
  <2>. QED  BY <1>1, <1>5, <2>1, DeskFields DEF Attached
<1>13. Attached(u) /\ \A x \in Windows : u.at[x] = Absent <=> p.at[x] = Absent
  <2>1. PICK old \in WsIds, new \in WsIds :
          u.at = [x \in Windows |-> IF p.at[x] = old THEN new ELSE p.at[x]]
    BY <1>11
  <2>. QED  BY <1>5, <1>11, <1>12, <2>1, MovedTogether
<1>14. /\ u.isFull = isFull /\ u.min = minimized /\ u.watched = watched /\ u.list = r.list
       /\ ToSet(u.list) = ToSet(fullWins) \ {w} /\ Once(u.list)
       /\ u.saver = saver /\ u.dpms = dpms
  BY <1>3, <1>5, <1>11 DEF Apart
<1>. DEFINE f == [isFull EXCEPT ![w] = FALSE]
            g == [minimized EXCEPT ![w] = "no"]
            h == [watched EXCEPT ![w] = 0]
<1>15. /\ f \in [Windows -> BOOLEAN] /\ g \in [Windows -> {"no", "going", "yes"}]
       /\ h \in [Windows -> 0..2]
       /\ \A x \in Windows : /\ f[x] = IF x = w THEN FALSE ELSE isFull[x]
                             /\ g[x] = IF x = w THEN "no" ELSE minimized[x]
                             /\ h[x] = IF x = w THEN 0 ELSE watched[x]
  BY <1>1
<1>16. t = [u EXCEPT !.isFull = f, !.min = g, !.watched = h]
  BY <1>14 DEF Forgotten
<1>. HIDE DEF f, g, h, t
<1>17. /\ t \in DeskStates /\ t.wss = u.wss /\ t.active = u.active /\ t.at = u.at
       /\ t.isFull = f /\ t.min = g /\ t.watched = h /\ t.list = u.list
       /\ t.disabled = u.disabled /\ t.saver = u.saver /\ t.dpms = u.dpms
  BY <1>11, <1>15, <1>16 DEF DeskStates
<1>18. \A x \in Windows : t.at[x] = Absent <=> x = w \/ wsOf[x] = Absent
  BY <1>5, <1>13, <1>17
<1>19. Listed(t)
  <2>1. {x \in Windows : t.at[x] # Absent /\ f[x]} = ToSet(fullWins) \ {w}
    <3>1. ToSet(fullWins) = {x \in Windows : wsOf[x] # Absent /\ isFull[x]}
      BY DeskFacts
    <3>. QED  BY <1>15, <1>18, <3>1
  <2>. QED  BY <1>14, <1>17, <2>1 DEF Listed
<1>20. Simple(t)
  <2>. SUFFICES ASSUME NEW x \in Windows
                PROVE  /\ f[x] => x \in Apps /\ g[x] = "no"
                       /\ g[x] # "no" => x \in Apps
                       /\ t.at[x] = Absent => ~f[x] /\ g[x] = "no" /\ h[x] = 0
    BY <1>17 DEF Simple
  <2>1. /\ isFull[x] => x \in Apps /\ minimized[x] = "no"
        /\ minimized[x] # "no" => x \in Apps
        /\ wsOf[x] = Absent => ~isFull[x] /\ minimized[x] = "no" /\ watched[x] = 0
    BY DeskFacts
  <2>. QED  BY <1>15, <1>18, <2>1
<1>21. DeskRight(t)
  <2>1. Screen(t) /\ Attached(t) /\ Occupied(t)
    BY <1>11, <1>13, <1>17 DEF Screen, Attached, Occupied
  <2>2. Seen(t)
    BY <1>11, <1>17 DEF Seen, FullOn
  <2>. QED  BY <1>17, <1>19, <1>20, <2>1, <2>2 DEF DeskRight
<1>22. \A x \in Windows : t.watched[x] = DeskState.watched[x] \/ t.watched[x] = 0
  BY <1>15, <1>17, DeskFields
<1>. QED  BY <1>4, <1>21, <1>22, Otherwise

LEMMA FullscreenRight ==
  ASSUME DeskInv, ~MinimizeFull, NEW w \in Windows, FullscreenChanges(w)
  PROVE  DeskInv' /\ Followed
<1>. DEFINE g == [isFull EXCEPT ![w] = ~isFull[w]]
            s == [DeskState EXCEPT !.isFull = g]
            t == Notified(s, w)
<1>1. /\ DeskState \in DeskStates /\ Screen(DeskState) /\ Seen(DeskState) /\ Attached(DeskState)
      /\ Occupied(DeskState) /\ isFull \in [Windows -> BOOLEAN]
      /\ Once(fullWins) /\ ToSet(fullWins) = {x \in Windows : wsOf[x] # Absent /\ isFull[x]}
  BY DeskFacts
<1>2. w \in Apps /\ wsOf[w] # Absent /\ minimized[w] = "no" /\ watched[w] = 1
  BY DEF FullscreenChanges
<1>3. DeskBecome(t)
  BY <1>2 DEF FullscreenChanges
<1>4. /\ g \in [Windows -> BOOLEAN]
      /\ \A x \in Windows : g[x] = IF x = w THEN ~isFull[w] ELSE isFull[x]
  BY <1>1
<1>. HIDE DEF g
<1>5. /\ s \in DeskStates /\ s.wss = wss /\ s.active = activeWs /\ s.at = wsOf /\ s.isFull = g
      /\ s.min = minimized /\ s.watched = watched /\ s.list = fullWins
      /\ s.disabled = disabled /\ s.saver = saver /\ s.dpms = dpms
  BY <1>1, <1>4, DeskFields DEF DeskStates
<1>. HIDE DEF s
<1>6. s.saver \/ s.dpms => s.disabled
  BY <1>1, <1>5, DeskFields DEF Seen
<1>7. /\ t \in DeskStates /\ Seen(t) /\ t.wss = wss /\ t.active = activeWs /\ t.at = wsOf
      /\ t.isFull = g /\ t.min = minimized /\ t.watched = watched
      /\ Once(t.list) /\ ToSet(t.list) = {x \in Windows : wsOf[x] # Absent /\ g[x]}
  <2>1. CASE isFull[w]
    <3>1. ~s.isFull[w]
      BY <1>4, <1>5, <2>1
    <3>2. t = FullRemoved(s, w)
      BY <3>1 DEF Notified
    <3>. HIDE DEF t
    <3>3. /\ t \in DeskStates /\ Seen(t) /\ t.wss = s.wss /\ t.active = s.active /\ t.at = s.at
          /\ t.isFull = s.isFull /\ t.min = s.min /\ t.watched = s.watched
          /\ Once(t.list) /\ ToSet(t.list) = ToSet(s.list) \ {w}
      BY <1>1, <1>5, <1>6, <3>2, RemovedRight
    <3>4. {x \in Windows : wsOf[x] # Absent /\ g[x]} = ToSet(s.list) \ {w}
      BY <1>1, <1>4, <1>5, <2>1
    <3>. QED  BY <1>5, <3>3, <3>4
  <2>2. CASE ~isFull[w]
    <3>1. s.isFull[w]
      BY <1>4, <1>5, <2>2
    <3>2. t = FullAdded(s, w)
      BY <3>1 DEF Notified
    <3>. HIDE DEF t
    <3>3. w \notin ToSet(s.list) /\ Once(s.list)
      BY <1>1, <1>5, <2>2
    <3>4. /\ t \in DeskStates /\ Seen(t) /\ t.wss = s.wss /\ t.active = s.active /\ t.at = s.at
          /\ t.isFull = s.isFull /\ t.min = s.min /\ t.watched = s.watched
          /\ Once(t.list) /\ ToSet(t.list) = {w} \cup ToSet(s.list)
      BY <1>5, <1>6, <3>2, <3>3, AddedRight
    <3>5. {x \in Windows : wsOf[x] # Absent /\ g[x]} = {w} \cup ToSet(s.list)
      BY <1>1, <1>2, <1>4, <1>5, <2>2
    <3>. QED  BY <1>5, <3>4, <3>5
  <2>. QED  BY <2>1, <2>2
<1>. HIDE DEF t
<1>8. Listed(t)
  BY <1>7 DEF Listed
<1>9. Simple(t)
  <2>. SUFFICES ASSUME NEW x \in Windows
                PROVE  /\ g[x] => x \in Apps /\ minimized[x] = "no"
                       /\ minimized[x] # "no" => x \in Apps
                       /\ wsOf[x] = Absent => ~g[x] /\ minimized[x] = "no" /\ watched[x] = 0
    BY <1>7 DEF Simple
  <2>1. /\ isFull[x] => x \in Apps /\ minimized[x] = "no"
        /\ minimized[x] # "no" => x \in Apps
        /\ wsOf[x] = Absent => ~isFull[x] /\ minimized[x] = "no" /\ watched[x] = 0
    BY DeskFacts
  <2>. QED  BY <1>2, <1>4, <2>1
<1>10. DeskRight(t)
  BY <1>1, <1>7, <1>8, <1>9, DeskFields DEF DeskRight, Screen, Attached, Occupied
<1>. QED  BY <1>3, <1>7, <1>10, Otherwise, DeskFields

\* A window is minimized, whole or in part; nothing else changes.
LEMMA Shrunk ==
  ASSUME DeskInv, NEW w \in Apps, NEW m \in {"no", "going", "yes"}, wsOf[w] # Absent, ~isFull[w]
  PROVE  LET s == [DeskState EXCEPT !.min = [minimized EXCEPT ![w] = m]]
         IN /\ DeskRight(s) /\ s.wss = wss /\ s.active = activeWs /\ s.at = wsOf
            /\ s.isFull = isFull /\ s.watched = watched /\ s.list = fullWins
<1>. DEFINE g == [minimized EXCEPT ![w] = m]
            s == [DeskState EXCEPT !.min = g]
<1>1. /\ DeskState \in DeskStates /\ minimized \in [Windows -> {"no", "going", "yes"}]
      /\ w \in Windows
  BY DeskFacts DEF Windows
<1>2. /\ g \in [Windows -> {"no", "going", "yes"}]
      /\ \A x \in Windows : g[x] = IF x = w THEN m ELSE minimized[x]
  BY <1>1
<1>. HIDE DEF g
<1>3. /\ s \in DeskStates /\ s.wss = wss /\ s.active = activeWs /\ s.at = wsOf /\ s.isFull = isFull
      /\ s.min = g /\ s.watched = watched /\ s.list = fullWins
      /\ s.disabled = disabled /\ s.saver = saver /\ s.dpms = dpms
  BY <1>1, <1>2, DeskFields DEF DeskStates
<1>. HIDE DEF s
<1>4. Simple(s)
  <2>. SUFFICES ASSUME NEW x \in Windows
                PROVE  /\ isFull[x] => x \in Apps /\ g[x] = "no"
                       /\ g[x] # "no" => x \in Apps
                       /\ wsOf[x] = Absent => ~isFull[x] /\ g[x] = "no" /\ watched[x] = 0
    BY <1>3 DEF Simple
  <2>1. /\ isFull[x] => x \in Apps /\ minimized[x] = "no"
        /\ minimized[x] # "no" => x \in Apps
        /\ wsOf[x] = Absent => ~isFull[x] /\ minimized[x] = "no" /\ watched[x] = 0
    BY DeskFacts
  <2>. QED  BY <1>2, <2>1
<1>5. DeskRight(s)
  <2>1. /\ Screen(DeskState) /\ Seen(DeskState) /\ Listed(DeskState) /\ Attached(DeskState)
        /\ Occupied(DeskState)
    BY DeskFacts
  <2>2. Screen(s) /\ Attached(s) /\ Occupied(s)
    BY <1>3, <2>1, DeskFields DEF Screen, Attached, Occupied
  <2>3. Seen(s)
    BY <1>3, <2>1, DeskFields DEF Seen, FullOn
  <2>4. Listed(s)
    BY <1>3, <2>1, DeskFields DEF Listed
  <2>. QED  BY <1>3, <1>4, <2>2, <2>3, <2>4 DEF DeskRight
<1>. QED  BY <1>3, <1>5 DEF s, g

LEMMA MinimizeRight ==
  ASSUME DeskInv, ~MinimizeFull, NEW w \in Windows, Minimize(w)
  PROVE  DeskInv' /\ Followed
<1>. DEFINE s == [DeskState EXCEPT !.min = [minimized EXCEPT ![w] = "going"]]
<1>1. w \in Apps /\ wsOf[w] # Absent /\ ~isFull[w] /\ DeskBecome(s)
  BY DEF Minimize
<1>2. DeskRight(s) /\ s.watched = watched
  BY <1>1, Shrunk
<1>. HIDE DEF s
<1>. QED  BY <1>1, <1>2, Otherwise, DeskFields

\* Its workspace goes unless something else is on it.
LEMMA CompletedRight ==
  ASSUME DeskInv, NEW w \in Windows, MinimizeCompleted(w)
  PROVE  DeskInv' /\ Followed
<1>. DEFINE s == [DeskState EXCEPT !.min = [minimized EXCEPT ![w] = "yes"]]
            t == CheckEmpty(s, wsOf[w], w)
<1>1. minimized[w] = "going" /\ DeskBecome(t)
  BY DEF MinimizeCompleted
<1>2. w \in Apps /\ wsOf[w] # Absent /\ ~isFull[w] /\ wsOf[w] \in ToSet(wss)
  BY <1>1, DeskFacts
<1>3. /\ DeskRight(s) /\ s.wss = wss /\ s.active = activeWs /\ s.at = wsOf
      /\ s.isFull = isFull /\ s.watched = watched /\ s.list = fullWins
  BY <1>2, Shrunk
<1>. HIDE DEF s
<1>4. /\ s \in DeskStates /\ Screen(s) /\ Seen(s) /\ Listed(s) /\ Simple(s) /\ Attached(s)
      /\ Occupied(s)
  BY <1>3 DEF DeskRight
<1>5. OccupiedBut(s, wsOf[w])
  BY <1>4 DEF Occupied, OccupiedBut
<1>6. \A x \in ToSet(s.list) : x # w /\ Parent[x] # w
  <2>1. \A x \in Apps : Parent[x] = "none"
    BY DeskAssumption
  <2>2. w # "none"
    BY DeskAssumption DEF Windows
  <2>3. \A x \in ToSet(s.list) : x \in Apps /\ isFull[x]
    BY <1>3, DeskFacts
  <2>. QED  BY <1>2, <2>1, <2>2, <2>3
<1>7. /\ t \in DeskStates /\ Apart(s, t) /\ Screen(t) /\ Seen(t) /\ Occupied(t)
      /\ \E old, new \in WsIds :
            t.at = [x \in Windows |-> IF s.at[x] = old THEN new ELSE s.at[x]]
  BY <1>2, <1>3, <1>4, <1>5, <1>6, CheckRight
<1>. HIDE DEF t
<1>8. Attached(t) /\ \A x \in Windows : t.at[x] = Absent <=> s.at[x] = Absent
  <2>1. PICK old \in WsIds, new \in WsIds :
          t.at = [x \in Windows |-> IF s.at[x] = old THEN new ELSE s.at[x]]
    BY <1>7
  <2>. QED  BY <1>4, <1>7, <2>1, MovedTogether
<1>9. Listed(t) /\ Simple(t)
  BY <1>4, <1>7, <1>8, Shifted
<1>10. DeskRight(t) /\ t.watched = watched
  BY <1>3, <1>7, <1>8, <1>9 DEF DeskRight, Apart
<1>. QED  BY <1>1, <1>10, Otherwise, DeskFields

LEMMA UnminimizeRight ==
  ASSUME DeskInv, NEW w \in Windows, Unminimize(w)
  PROVE  DeskInv' /\ Followed
<1>. DEFINE s == [DeskState EXCEPT !.min = [minimized EXCEPT ![w] = "no"]]
            t == Mapped(s, w)
<1>1. minimized[w] = "yes" /\ watched[w] < 2 /\ DeskBecome(t)
  BY DEF Unminimize
<1>2. w \in Apps /\ wsOf[w] # Absent /\ ~isFull[w]
  BY <1>1, DeskFacts
<1>3. /\ DeskRight(s) /\ s.wss = wss /\ s.active = activeWs /\ s.at = wsOf
      /\ s.isFull = isFull /\ s.watched = watched /\ s.list = fullWins
  BY <1>2, Shrunk
<1>. HIDE DEF s
<1>4. /\ s \in DeskStates /\ Screen(s) /\ Seen(s) /\ Simple(s) /\ Attached(s) /\ Occupied(s)
  BY <1>3 DEF DeskRight
<1>5. /\ w \notin ToSet(s.list) /\ Once(s.list)
      /\ ToSet(s.list) = {x \in Windows \ {w} : s.at[x] # Absent /\ s.isFull[x]}
  <2>1. Once(fullWins) /\ ToSet(fullWins) = {x \in Windows : wsOf[x] # Absent /\ isFull[x]}
    BY DeskFacts
  <2>. QED  BY <1>2, <1>3, <2>1
<1>6. s.at[w] # Absent /\ s.watched[w] < 2 /\ ~s.isFull[w]
  BY <1>1, <1>2, <1>3
<1>7. /\ DeskRight(t) /\ t.watched = [s.watched EXCEPT ![w] = @ + 1]
      /\ w \in Apps => t.at[w] = t.active \/ (Alone(s, w) /\ s.at[w] \notin ToSet(t.wss))
  BY <1>4, <1>5, <1>6, MappedRight
<1>. HIDE DEF t
<1>. QED  BY <1>1, <1>2, <1>3, <1>7, Maps

LEMMA SwitchRight ==
  ASSUME DeskInv, NEW ws \in WsIds, SwitchTo(ws)
  PROVE  DeskInv' /\ Followed
<1>. DEFINE t == Activate(DeskState, ws)
<1>1. ws # activeWs /\ ws \in ToSet(wss) /\ DeskBecome(t)
  BY DEF SwitchTo
<1>2. /\ DeskState \in DeskStates /\ Screen(DeskState) /\ Seen(DeskState) /\ Listed(DeskState)
      /\ Simple(DeskState) /\ Attached(DeskState) /\ Occupied(DeskState)
  BY DeskFacts
<1>3. /\ t \in DeskStates /\ Apart(DeskState, t) /\ t.wss = wss /\ t.at = wsOf /\ t.active = ws
      /\ Seen(t)
  <2>1. DeskState.saver \/ DeskState.dpms => DeskState.disabled
    BY <1>2 DEF Seen
  <2>. QED  BY <1>1, <1>2, <2>1, ActivateRight, DeskFields
<1>. HIDE DEF t
<1>4. Listed(t) /\ Simple(t)
  BY <1>2, <1>3, Shifted, DeskFields
<1>5. Screen(t) /\ Attached(t) /\ Occupied(t)
  BY <1>1, <1>2, <1>3, DeskFields DEF Screen, Attached, Occupied
<1>6. DeskRight(t) /\ t.watched = watched
  BY <1>3, <1>4, <1>5, DeskFields DEF DeskRight, Apart
<1>. QED  BY <1>1, <1>6, Otherwise, DeskFields

-----------------------------------------------------------------------------
\* The screen is saved, or is back: of the state only these three change.
LEMMA Dimmed ==
  ASSUME DeskInv, NEW t, NEW off \in BOOLEAN, NEW b \in BOOLEAN, NEW c \in BOOLEAN,
         t = [DeskState EXCEPT !.disabled = off, !.saver = b, !.dpms = c],
         off <=> b \/ c \/ FullOn(DeskState, activeWs), DeskBecome(t)
  PROVE  DeskInv' /\ Followed
<1>1. /\ DeskState \in DeskStates /\ Screen(DeskState) /\ Listed(DeskState)
      /\ Simple(DeskState) /\ Attached(DeskState) /\ Occupied(DeskState)
  BY DeskFacts
<1>2. /\ t \in DeskStates /\ t.wss = wss /\ t.active = activeWs /\ t.at = wsOf /\ t.isFull = isFull
      /\ t.min = minimized /\ t.watched = watched /\ t.list = fullWins
      /\ t.disabled = off /\ t.saver = b /\ t.dpms = c
  BY <1>1, DeskFields DEF DeskStates
<1>3. Screen(t) /\ Attached(t) /\ Occupied(t) /\ Listed(t) /\ Simple(t)
  BY <1>1, <1>2, DeskFields DEF Screen, Attached, Occupied, Listed, Simple
<1>4. FullOn(t, t.active) <=> FullOn(DeskState, activeWs)
  BY <1>2, DeskFields DEF FullOn
<1>5. Seen(t)
  BY <1>2, <1>4 DEF Seen
<1>6. DeskRight(t)
  BY <1>2, <1>3, <1>5 DEF DeskRight
<1>. QED  BY <1>2, <1>6, Otherwise, DeskFields

LEMMA SavedRight ==
  ASSUME DeskInv, SaverCreated \/ SaverDestroyed \/ DpmsOn \/ DpmsOff
  PROVE  DeskInv' /\ Followed
<1>. DEFINE full == FullOn(DeskState, activeWs)
            Now(off, b, c) == [DeskState EXCEPT !.disabled = off, !.saver = b, !.dpms = c]
<1>1. DeskState \in DeskStates /\ (disabled <=> saver \/ dpms \/ full)
  BY DeskFacts, DeskFields DEF Seen
<1>2. disabled \in BOOLEAN /\ saver \in BOOLEAN /\ dpms \in BOOLEAN /\ full \in BOOLEAN
  BY <1>1 DEF DeskStates, DeskState, FullOn
<1>3. CASE SaverCreated
  <2>1. DeskBecome(Now(TRUE, TRUE, dpms))
    BY <1>1, <1>3, DeskFields DEF SaverCreated, Toggle, DeskStates
  <2>. QED  BY <1>2, <2>1, Dimmed
<1>4. CASE DpmsOn
  <2>1. DeskBecome(Now(TRUE, saver, TRUE))
    BY <1>1, <1>4, DeskFields DEF DpmsOn, Toggle, DeskStates
  <2>. QED  BY <1>2, <2>1, Dimmed
<1>5. CASE SaverDestroyed
  <2>1. DeskBecome(Now(dpms \/ full, FALSE, dpms))
    <3>. DEFINE s == [DeskState EXCEPT !.saver = FALSE]
    <3>1. /\ s \in DeskStates /\ s.wss = wss /\ s.active = activeWs /\ s.at = wsOf
          /\ s.list = fullWins /\ s.disabled = TRUE /\ s = Now(TRUE, FALSE, dpms)
      BY <1>1, <1>2, <1>5, DeskFields DEF DeskStates, SaverDestroyed
    <3>2. FullOn(s, s.active) <=> full
      BY <3>1, DeskFields DEF FullOn
    <3>3. DeskBecome(IF dpms THEN s ELSE BackOn(s))
      BY <1>5 DEF SaverDestroyed
    <3>4. CASE dpms \/ full
      <4>1. DeskBecome(s)
        BY <3>2, <3>3, <3>4 DEF BackOn
      <4>. HIDE DEF full, s
      <4>2. (dpms \/ full) = TRUE
        BY <3>4
      <4>. QED  BY <3>1, <4>1, <4>2
    <3>5. CASE ~(dpms \/ full)
      <4>1. DeskBecome([s EXCEPT !.disabled = FALSE])
        BY <3>2, <3>3, <3>5 DEF BackOn, Toggle
      <4>. HIDE DEF full
      <4>2. (dpms \/ full) = FALSE /\ dpms = FALSE
        BY <1>2, <3>5
      <4>3. [s EXCEPT !.disabled = FALSE] = Now(FALSE, FALSE, dpms)
        BY <1>1, DeskFields DEF DeskStates
      <4>. QED  BY <4>1, <4>2, <4>3
    <3>. QED  BY <3>4, <3>5
  <2>. QED  BY <1>2, <2>1, Dimmed
<1>6. CASE DpmsOff
  <2>1. DeskBecome(Now(saver \/ full, saver, FALSE))
    <3>. DEFINE s == [DeskState EXCEPT !.dpms = FALSE]
    <3>1. /\ s \in DeskStates /\ s.wss = wss /\ s.active = activeWs /\ s.at = wsOf
          /\ s.list = fullWins /\ s.disabled = TRUE /\ s = Now(TRUE, saver, FALSE)
      BY <1>1, <1>2, <1>6, DeskFields DEF DeskStates, DpmsOff
    <3>2. FullOn(s, s.active) <=> full
      BY <3>1, DeskFields DEF FullOn
    <3>3. DeskBecome(IF ~saver THEN BackOn(s) ELSE s)
      BY <1>1, <1>6 DEF DpmsOff
    <3>4. CASE saver \/ full
      <4>1. DeskBecome(s)
        BY <3>2, <3>3, <3>4 DEF BackOn
      <4>. HIDE DEF full, s
      <4>2. (saver \/ full) = TRUE
        BY <3>4
      <4>. QED  BY <3>1, <4>1, <4>2
    <3>5. CASE ~(saver \/ full)
      <4>1. DeskBecome([s EXCEPT !.disabled = FALSE])
        BY <3>2, <3>3, <3>5 DEF BackOn, Toggle
      <4>. HIDE DEF full
      <4>2. (saver \/ full) = FALSE /\ saver = FALSE
        BY <1>2, <3>5
      <4>3. [s EXCEPT !.disabled = FALSE] = Now(FALSE, saver, FALSE)
        BY <1>1, DeskFields DEF DeskStates
      <4>. QED  BY <4>1, <4>2, <4>3
    <3>. QED  BY <3>4, <3>5
  <2>. QED  BY <1>2, <2>1, Dimmed
<1>. QED  BY <1>3, <1>4, <1>5, <1>6

LEMMA NextRight ==
  ASSUME DeskInv, ~MinimizeFull, DeskNext
  PROVE  DeskInv' /\ Followed
<1>1. ASSUME NEW w \in Windows, NEW full \in BOOLEAN, MapWindow(w, full) PROVE DeskInv' /\ Followed
  BY <1>1, MapRight
<1>2. ASSUME NEW w \in Windows, Close(w) PROVE DeskInv' /\ Followed
  BY <1>2, CloseRight
<1>3. ASSUME NEW w \in Windows, FullscreenChanges(w) PROVE DeskInv' /\ Followed
  BY <1>3, FullscreenRight
<1>4. ASSUME NEW w \in Windows, Minimize(w) PROVE DeskInv' /\ Followed
  BY <1>4, MinimizeRight
<1>5. ASSUME NEW w \in Windows, MinimizeCompleted(w) PROVE DeskInv' /\ Followed
  BY <1>5, CompletedRight
<1>6. ASSUME NEW w \in Windows, Unminimize(w) PROVE DeskInv' /\ Followed
  BY <1>6, UnminimizeRight
<1>7. ASSUME NEW ws \in WsIds, SwitchTo(ws) PROVE DeskInv' /\ Followed
  BY <1>7, SwitchRight
<1>8. CASE SaverCreated \/ SaverDestroyed \/ DpmsOn \/ DpmsOff
  BY <1>8, SavedRight
<1>. QED  BY <1>1, <1>2, <1>3, <1>4, <1>5, <1>6, <1>7, <1>8 DEF DeskNext

LEMMA RestRight ==
  ASSUME DeskInv, UNCHANGED deskVars
  PROVE  DeskInv'
<1>1. DeskState' = DeskState
  BY DEF deskVars, DeskState
<1>. QED  BY <1>1 DEF DeskInv

-----------------------------------------------------------------------------
(***************************************************************************)
(* The theorems.  Windows that were minimized do not become fullscreen,    *)
(* nor the reverse: see the README.                                        *)
(***************************************************************************)
LEMMA DeskInvariant ==
  ASSUME ~MinimizeFull
  PROVE  DeskSpec => []DeskInv
<1>1. DeskInit => DeskInv
  BY InitRight
<1>2. DeskInv /\ [DeskNext]_deskVars => DeskInv'
  BY NextRight, RestRight
<1>. QED  BY <1>1, <1>2, PTL DEF DeskSpec

LEMMA InvRight ==
  ASSUME DeskInv
  PROVE  DeskTypeOK /\ WorkspacesAreRight
<1>1. DeskTypeOK
  <2>1. Len(wss) \in 1..MaxWorkspaces /\ Once(wss) /\ activeWs \in ToSet(wss)
    BY DeskFacts, DeskFields DEF Screen
  <2>2. wsOf \in [Windows -> ToSet(wss) \cup {Absent}]
    BY DeskFacts
  <2>3. disabled \in BOOLEAN /\ saver \in BOOLEAN /\ dpms \in BOOLEAN
    BY DeskFacts DEF DeskStates, DeskState
  <2>. QED  BY <2>1, <2>2, <2>3, DeskFacts DEF DeskTypeOK
<1>2. NoEmptyWorkspace
  <2>. SUFFICES ASSUME Len(wss) > 1, NEW i \in DOMAIN wss PROVE \E w \in Windows : wsOf[w] = wss[i]
    BY DEF NoEmptyWorkspace
  <2>1. wss[i] \in ToSet(wss)
    BY DEF ToSet
  <2>. QED  BY <2>1, DeskFacts, DeskFields DEF Occupied
<1>3. FullscreenListed
  BY DeskFacts DEF FullscreenListed
<1>4. CompositorMatches
  <2>1. FullOn(DeskState, activeWs)
          <=> \E w \in Windows : wsOf[w] = activeWs /\ isFull[w] /\ minimized[w] = "no"
    <3>1. activeWs # Absent
      BY DeskFacts
    <3>2. ToSet(fullWins) = {x \in Windows : wsOf[x] # Absent /\ isFull[x]}
      BY DeskFacts
    <3>3. \A x \in Windows : isFull[x] => minimized[x] = "no"
      BY DeskFacts
    <3>. QED  BY <3>1, <3>2, <3>3, DeskFields DEF FullOn
  <2>2. disabled <=> saver \/ dpms \/ FullOn(DeskState, activeWs)
    BY DeskFacts, DeskFields DEF Seen
  <2>. QED  BY <2>1, <2>2 DEF CompositorMatches
<1>. QED  BY <1>1, <1>2, <1>3, <1>4 DEF WorkspacesAreRight

\* The variables keep their types: there are always between one and MAX_WORKSPACES
\* workspaces, the active one is among them, and so is every window's.
THEOREM DeskTypeCorrect ==
  ASSUME ~MinimizeFull
  PROVE  DeskSpec => []DeskTypeOK
<1>1. DeskInv => DeskTypeOK
  BY InvRight
<1>. QED  BY <1>1, DeskInvariant, PTL

\* No workspace is left empty, the list of fullscreen windows holds them all and
\* no other, and the compositor is off exactly while it should be, whatever the
\* number of windows and workspaces.
THEOREM DeskRights ==
  ASSUME ~MinimizeFull
  PROVE  DeskSpec => []WorkspacesAreRight
<1>1. DeskInv => WorkspacesAreRight
  BY InvRight
<1>. QED  BY <1>1, DeskInvariant, PTL

\* An application that is mapped is on the workspace that is then the active one,
\* unless its move took away the workspace it came from.
THEOREM DeskFollows ==
  ASSUME ~MinimizeFull
  PROVE  DeskSpec => MappedIsActive
<1>1. DeskInv /\ [DeskNext]_deskVars => [Followed]_deskVars
  BY NextRight
<1>2. DeskSpec => [][Followed]_deskVars
  BY <1>1, DeskInvariant, PTL DEF DeskSpec
<1>. QED  BY <1>2 DEF MappedIsActive, Followed
=============================================================================
