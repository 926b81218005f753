--------------------------- MODULE ToolbarProofs ---------------------------
(***************************************************************************)
(* The toolbar's slide and the stack of input regions.                     *)
(*                                                                         *)
(* Whatever order the toolbar's many callers come in: its type invariant,  *)
(* that it comes to rest in one piece, and that a reason to refuse hides   *)
(* lives as long as the show it belongs to.  And whoever pushes, moves and *)
(* removes regions: the input shape is what the stack says, every region   *)
(* is its holder's and where that is, and urgent messages get their        *)
(* clicks.                                                                 *)
(***************************************************************************)
EXTENDS ToolbarReveal, InputStack, SequenceTheorems, WellFoundedInduction, TLAPS

(***************************************************************************)
(* The toolbar's slide.                                                    *)
(***************************************************************************)
\* The stages of a slide: which handlers wait for its end, where it goes, and the flags.
At(d, g, show, hide) == done = d /\ goal = g /\ inShow = show /\ inHide = hide

RestsIn   == At(<<>>, "in", FALSE, FALSE) /\ visible = TRUE /\ reactive = TRUE
RestsOut  == At(<<>>, "out", FALSE, FALSE) /\ visible = FALSE /\ reactive = FALSE
SlidesIn  == At(<<"show">>, "in", TRUE, FALSE)
SlidesOut == At(<<"hide">>, "out", FALSE, TRUE) /\ reactive = FALSE
TurnsOut  == At(<<"show", "hide">>, "out", TRUE, TRUE) /\ reactive = FALSE
TurnsIn   == At(<<"hide", "show">>, "in", TRUE, TRUE) /\ reactive = FALSE

Stages == RestsIn \/ RestsOut \/ SlidesIn \/ SlidesOut \/ TurnsOut \/ TurnsIn

Flags == /\ visible \in BOOLEAN /\ reactive \in BOOLEAN
         /\ region = (goal = "in")
         /\ showReason \in Reasons \cup {Unset} /\ hideReason \in Reasons \cup {Unset}
Others == /\ waiting \in BOOLEAN /\ timed \in BOOLEAN /\ hideTimer \in BOOLEAN
          /\ trigger \in BOOLEAN /\ modal \in BOOLEAN /\ vain \in BOOLEAN

SlideInv == Stages /\ Flags

LEMMA Handlers == /\ Append(<<>>, "show") = <<"show">> /\ Append(<<>>, "hide") = <<"hide">>
                  /\ Append(<<"show">>, "hide") = <<"show", "hide">>
                  /\ Append(<<"hide">>, "show") = <<"hide", "show">>
  <1>1. ASSUME NEW x \in {"show", "hide"} PROVE Append(<<>>, x) = <<x>>
    <2>1. <<>> \in Seq({"show", "hide"}) /\ <<x>> \in Seq({"show", "hide"})
          OBVIOUS
    <2>2. /\ Append(<<>>, x) \in Seq({"show", "hide"})
          /\ Len(Append(<<>>, x)) = 1 /\ Append(<<>>, x)[1] = x
          BY <2>1, AppendProperties
    <2>3. Len(<<x>>) = 1 /\ <<x>>[1] = x
          OBVIOUS
    <2> QED BY <2>1, <2>2, <2>3, SeqEqual
  <1>2. ASSUME NEW x \in {"show", "hide"}, NEW y \in {"show", "hide"}
        PROVE  Append(<<x>>, y) = <<x, y>>
    <2>1. <<x>> \in Seq({"show", "hide"}) /\ <<x, y>> \in Seq({"show", "hide"})
          OBVIOUS
    <2>2. /\ Len(<<x>>) = 1 /\ <<x>>[1] = x /\ Len(<<x, y>>) = 2
          /\ <<x, y>>[1] = x /\ <<x, y>>[2] = y
          OBVIOUS
    <2>3. /\ Append(<<x>>, y) \in Seq({"show", "hide"}) /\ Len(Append(<<x>>, y)) = 2
          /\ Append(<<x>>, y)[1] = x /\ Append(<<x>>, y)[2] = y
          BY <2>1, <2>2, AppendProperties
    <2>4. \A i \in 1..2 : Append(<<x>>, y)[i] = <<x, y>>[i]
          BY <2>2, <2>3
    <2> QED BY <2>1, <2>2, <2>3, <2>4, SeqEqual
  <1> QED BY <1>1, <1>2

LEMMA SlideTypes == SlideInv /\ Others => TypeOK
  <1> SUFFICES ASSUME SlideInv, Others PROVE TypeOK
      OBVIOUS
  <1>1. /\ <<>> \in Seq({"show", "hide"}) /\ <<"show">> \in Seq({"show", "hide"})
        /\ <<"hide">> \in Seq({"show", "hide"}) /\ <<"show", "hide">> \in Seq({"show", "hide"})
        /\ <<"hide", "show">> \in Seq({"show", "hide"})
        OBVIOUS
  <1>2. goal \in {"in", "out"} /\ inShow \in BOOLEAN /\ inHide \in BOOLEAN
        BY DEF SlideInv, Stages, RestsIn, RestsOut, SlidesIn, SlidesOut, TurnsOut, TurnsIn, At
  <1>3. done \in Seq({"show", "hide"})
        BY <1>1 DEF SlideInv, Stages, RestsIn, RestsOut, SlidesIn, SlidesOut, TurnsOut, TurnsIn, At
  <1>4. Len(done) <= 2
    <2>1. /\ Len(<<>>) = 0 /\ Len(<<"show">>) = 1 /\ Len(<<"hide">>) = 1
          /\ Len(<<"show", "hide">>) = 2 /\ Len(<<"hide", "show">>) = 2
          OBVIOUS
    <2>2. \/ Len(done) = 0 \/ Len(done) = 1 \/ Len(done) = 2
          BY <2>1 DEF SlideInv, Stages, RestsIn, RestsOut, SlidesIn, SlidesOut, TurnsOut, TurnsIn, At
    <2>3. \A n : n = 0 \/ n = 1 \/ n = 2 => n <= 2
          OBVIOUS
    <2> QED BY <2>2, <2>3
  <1>5. visible \in BOOLEAN /\ reactive \in BOOLEAN /\ region \in BOOLEAN
        BY DEF SlideInv, Flags
  <1>6. {showReason, hideReason} \subseteq Reasons \cup {Unset}
        BY DEF SlideInv, Flags
  <1> QED BY <1>2, <1>3, <1>4, <1>5, <1>6 DEF Others, TypeOK

LEMMA RevealInit == Init => SlideInv /\ Others /\ ReasonIsPending
  BY DEF Init, SlideInv, Stages, RestsOut, At, Flags, Others, ReasonIsPending, Unset

(***************************************************************************)
(* mnb_toolbar_show, mnb_toolbar_hide and the end of the animation.        *)
(***************************************************************************)
\* A show begins a slide or turns one round.
LEMMA ShowKeeps ==
  ASSUME SlideInv, NEW r \in Reasons, Show(r), visible' = visible
  PROVE  SlideInv'
  <1>1. CASE ~CanShow
        BY <1>1 DEF Show, slide, SlideInv, Stages, RestsIn, RestsOut, SlidesIn, SlidesOut,
                    TurnsOut, TurnsIn, At, Flags
  <1>2. CASE CanShow
    <2>1. /\ showReason' = r /\ region' = TRUE /\ goal' = "in" /\ done' = Append(done, "show")
          /\ inShow' = TRUE /\ inHide' = inHide /\ reactive' = reactive /\ hideReason' = hideReason
          BY <1>2 DEF Show
    <2>2. RestsIn \/ RestsOut \/ SlidesOut
          BY <1>2 DEF CanShow, SlideInv, Stages, SlidesIn, TurnsOut, TurnsIn, At
    <2>3. Flags'
          BY <2>1 DEF SlideInv, Flags
    <2>4. CASE RestsIn \/ RestsOut
      <3>1. SlidesIn' BY <2>1, <2>4, Handlers DEF RestsIn, RestsOut, SlidesIn, At
      <3> QED BY <2>3, <3>1 DEF SlideInv, Stages
    <2>5. CASE SlidesOut
      <3>1. TurnsIn' BY <2>1, <2>5, Handlers DEF SlidesOut, TurnsIn, At
      <3> QED BY <2>3, <3>1 DEF SlideInv, Stages
    <2> QED BY <2>2, <2>4, <2>5
  <1> QED BY <1>1, <1>2

\* A hide does, too.
LEMMA HideKeeps ==
  ASSUME SlideInv, NEW r \in Reasons, Hide(r), visible' = visible
  PROVE  SlideInv'
  <1>1. CASE ~CanHide(r)
        BY <1>1 DEF Hide, slide, SlideInv, Stages, RestsIn, RestsOut, SlidesIn, SlidesOut,
                    TurnsOut, TurnsIn, At, Flags
  <1>2. CASE CanHide(r)
    <2>1. /\ hideReason' = r /\ reactive' = FALSE /\ region' = FALSE /\ goal' = "out"
          /\ done' = Append(done, "hide") /\ inHide' = TRUE
          /\ inShow' = inShow /\ showReason' = showReason
          BY <1>2 DEF Hide
    <2>2. RestsIn \/ RestsOut \/ SlidesIn
          BY <1>2 DEF CanHide, SlideInv, Stages, SlidesOut, TurnsOut, TurnsIn, At
    <2>3. Flags'
          BY <2>1 DEF SlideInv, Flags
    <2>4. CASE RestsIn \/ RestsOut
      <3>1. SlidesOut' BY <2>1, <2>4, Handlers DEF RestsIn, RestsOut, SlidesOut, At
      <3> QED BY <2>3, <3>1 DEF SlideInv, Stages
    <2>5. CASE SlidesIn
      <3>1. TurnsOut' BY <2>1, <2>5, Handlers DEF SlidesIn, TurnsOut, At
      <3> QED BY <2>3, <3>1 DEF SlideInv, Stages
    <2> QED BY <2>2, <2>4, <2>5
  <1> QED BY <1>1, <1>2

\* The end of the animation: its handlers, in their order, leave the toolbar at rest.
LEMMA CompletedKeeps == ASSUME SlideInv, Others, ReasonIsPending, Completed
                        PROVE  SlideInv' /\ Others' /\ ReasonIsPending'
  <1> DEFINE s == [inShow |-> inShow, inHide |-> inHide, visible |-> visible,
                   reactive |-> reactive, reason |-> showReason, hideReason |-> hideReason]
             t == Handle(s, done[1])
             u == IF Len(done) = 1 THEN t ELSE Handle(t, done[2])
             kept == IF waiting THEN showReason ELSE Unset
  <1>1. /\ done # <<>> /\ done' = <<>>
        /\ inShow' = u.inShow /\ inHide' = u.inHide /\ visible' = u.visible
        /\ reactive' = u.reactive /\ showReason' = u.reason /\ hideReason' = u.hideReason
        /\ vain' = (vain /\ showReason' # Unset)
        /\ UNCHANGED <<goal, region, waiting, timed, hideTimer, trigger, modal>>
        BY DEF Completed
  <1>2. Others'
        BY <1>1 DEF Others
  <1>3. CASE SlidesIn
    <2>1. u = ShowDone(s)
          BY <1>3 DEF SlidesIn, At, Handle
    <2>9. u.inShow = FALSE /\ u.visible = TRUE
      <3> HIDE DEF t, u
      <3>1. ShowDone(s).inShow = FALSE BY DEF ShowDone
      <3>2. ShowDone(s).visible = TRUE BY DEF ShowDone
      <3> QED BY <2>1, <3>1, <3>2
    <2>2. inShow' = FALSE /\ visible' = TRUE
      <3> HIDE DEF u
      <3> QED BY <1>1, <2>9
    <2>7. inHide' = FALSE
          BY <1>1, <1>3, <2>1 DEF ShowDone, SlidesIn, At
    <2>8. hideReason' = hideReason
          BY <1>1, <2>1 DEF ShowDone
    <2>6. showReason' = kept
          BY <1>1, <2>1, ZenonT(60) DEF ShowDone
    <2>5. reactive' = TRUE
          BY <1>1, <1>3, <2>1 DEF ShowDone, SlidesIn, At
    <2>3. RestsIn' /\ Flags'
          BY <1>1, <1>3, <2>2, <2>5, <2>6, <2>7, <2>8 DEF SlidesIn, RestsIn, At, SlideInv, Flags
    <2>4. ReasonIsPending'
          BY <1>1, <2>2, <2>6 DEF ReasonIsPending
    <2> QED BY <1>2, <2>3, <2>4 DEF SlideInv, Stages
  <1>4. CASE SlidesOut
    <2>1. u = HideDone(s)
          BY <1>4 DEF SlidesOut, At, Handle
    <2>2. /\ inShow' = inShow /\ inHide' = FALSE /\ visible' = FALSE
          /\ reactive' = reactive /\ showReason' = showReason /\ hideReason' = Unset
          BY <1>1, <2>1 DEF HideDone
    <2>3. RestsOut' /\ Flags'
          BY <1>1, <1>4, <2>2 DEF SlidesOut, RestsOut, At, SlideInv, Flags
    <2>5. inShow = FALSE
          BY <1>4 DEF SlidesOut, At
    <2>6. waiting' = waiting /\ (showReason # Unset => waiting \/ vain)
          BY <1>1, <2>5 DEF ReasonIsPending
    <2>7. ASSUME showReason' # Unset PROVE waiting' \/ vain'
      <3>1. waiting \/ vain
            BY <2>2, <2>6, <2>7
      <3>2. waiting' = waiting
            BY <2>6
      <3>3. vain => vain'
            BY <1>1, <2>7
      <3> QED BY <3>1, <3>2, <3>3
    <2>4. ReasonIsPending'
          BY <2>7 DEF ReasonIsPending
    <2> QED BY <1>2, <2>3, <2>4 DEF SlideInv, Stages
  <1>5. CASE TurnsOut
    <2>1. u = HideDone(ShowDone(s))
          BY <1>5 DEF TurnsOut, At, Handle
    <2>9. u.inShow = FALSE /\ u.inHide = FALSE
      <3> HIDE DEF t, u
      <3>1. HideDone(ShowDone(s)).inShow = FALSE BY DEF ShowDone, HideDone
      <3>2. HideDone(ShowDone(s)).inHide = FALSE BY DEF ShowDone, HideDone
      <3> QED BY <2>1, <3>1, <3>2
    <2>2. inShow' = FALSE /\ inHide' = FALSE
      <3> HIDE DEF u
      <3> QED BY <1>1, <2>9
    <2>8. visible' = FALSE /\ hideReason' = Unset
          BY <1>1, <2>1, ZenonT(60) DEF ShowDone, HideDone
    <2>7. showReason' = kept
          BY <1>1, <2>1, ZenonT(60) DEF ShowDone, HideDone
    <2>5. reactive = FALSE /\ inHide = TRUE
          BY <1>5 DEF TurnsOut, At
    <2>6. reactive' = FALSE
          BY <1>1, <2>1, <2>5 DEF ShowDone, HideDone
    <2>3. RestsOut' /\ Flags'
          BY <1>1, <1>5, <2>2, <2>6, <2>7, <2>8 DEF TurnsOut, RestsOut, At, SlideInv, Flags
    <2>4. ReasonIsPending'
          BY <1>1, <2>2, <2>7 DEF ReasonIsPending
    <2> QED BY <1>2, <2>3, <2>4 DEF SlideInv, Stages
  <1>6. CASE TurnsIn
    <2>1. u = ShowDone(HideDone(s))
          BY <1>6 DEF TurnsIn, At, Handle
    <2>2. /\ inShow' = FALSE /\ inHide' = FALSE /\ visible' = TRUE /\ reactive' = TRUE
          /\ showReason' = kept /\ hideReason' = Unset
          BY <1>1, <2>1 DEF ShowDone, HideDone
    <2>3. RestsIn' /\ Flags'
          BY <1>1, <1>6, <2>2 DEF TurnsIn, RestsIn, At, SlideInv, Flags
    <2>4. ReasonIsPending'
          BY <1>1, <2>2 DEF ReasonIsPending
    <2> QED BY <1>2, <2>3, <2>4 DEF SlideInv, Stages
  <1> QED BY <1>1, <1>3, <1>4, <1>5, <1>6 DEF SlideInv, Stages, RestsIn, RestsOut, At

(***************************************************************************)
(* Who asks.                                                               *)
(***************************************************************************)
\* Shows and hides keep the reason in step, and what they leave alone.
LEMMA ReasonFollows ==
  ASSUME ReasonIsPending, Others, NEW r, Show(r) \/ Hide(r), waiting' = waiting
  PROVE  ReasonIsPending' /\ vain' \in BOOLEAN
  BY DEF Show, Hide, slide, ReasonIsPending, Others

LEMMA AskKeeps ==
  ASSUME SlideInv, Others, ReasonIsPending, NEW r \in Reasons, Show(r) \/ Hide(r),
         UNCHANGED <<visible, waiting, timed, modal>>,
         hideTimer' \in BOOLEAN, trigger' \in BOOLEAN
  PROVE  SlideInv' /\ Others' /\ ReasonIsPending'
  <1>1. SlideInv' BY ShowKeeps, HideKeeps
  <1>2. ReasonIsPending' /\ vain' \in BOOLEAN BY ReasonFollows
  <1>3. Others' BY <1>2 DEF Others
  <1> QED BY <1>1, <1>2, <1>3

LEMMA AskersKeep ==
  ASSUME SlideInv, Others, ReasonIsPending,
         \/ OverlayKey \/ DBusShow \/ DBusHide \/ PanelHid \/ PolicyHide
         \/ TriggerTimeout \/ HideTimeout \/ StageClicked \/ (StatusBarLeft /\ ~trigger)
  PROVE  SlideInv' /\ Others' /\ ReasonIsPending'
  <1>1. hideTimer \in BOOLEAN /\ trigger \in BOOLEAN
        BY DEF Others
  <1>2. /\ ByDBus \in Reasons /\ ByPanel \in Reasons /\ ByMouse \in Reasons
        /\ ByKey \in Reasons /\ Policy \in Reasons
        BY DEF Reasons
  <1>3. CASE OverlayKey     BY <1>1, <1>2, <1>3, AskKeeps DEF OverlayKey
  <1>4. CASE DBusShow       BY <1>1, <1>2, <1>4, AskKeeps DEF DBusShow
  <1>5. CASE DBusHide       BY <1>1, <1>2, <1>5, AskKeeps DEF DBusHide
  <1>6. CASE PanelHid       BY <1>1, <1>2, <1>6, AskKeeps DEF PanelHid
  <1>7. CASE PolicyHide     BY <1>1, <1>2, <1>7, AskKeeps DEF PolicyHide
  <1>8. CASE TriggerTimeout BY <1>1, <1>2, <1>8, AskKeeps DEF TriggerTimeout
  <1>9. CASE HideTimeout    BY <1>1, <1>2, <1>9, AskKeeps DEF HideTimeout
  <1>10. CASE StageClicked  BY <1>1, <1>2, <1>10, AskKeeps DEF StageClicked
  <1>11. CASE StatusBarLeft /\ ~trigger
         BY <1>1, <1>2, <1>11, AskKeeps DEF StatusBarLeft
  <1> QED BY <1>3, <1>4, <1>5, <1>6, <1>7, <1>8, <1>9, <1>10, <1>11

\* Where the toolbar is does not depend on the other variables.
LEMMA SlideStays ==
  ASSUME SlideInv, UNCHANGED <<goal, done, inShow, inHide, visible, region, reactive, hideReason>>,
         showReason' \in Reasons \cup {Unset}
  PROVE  SlideInv'
  BY DEF SlideInv, Stages, RestsIn, RestsOut, SlidesIn, SlidesOut, TurnsOut, TurnsIn, At, Flags

LEMMA WatchersKeep ==
  ASSUME SlideInv, Others, ReasonIsPending,
         \/ StatusBarEntered \/ (StatusBarLeft /\ trigger) \/ ToolbarEntered \/ ToolbarLeft
         \/ FocusMoves \/ UNCHANGED vars
  PROVE  SlideInv' /\ Others' /\ ReasonIsPending'
  <1>1. UNCHANGED <<goal, done, inShow, inHide, visible, region, reactive, hideReason, showReason,
                    waiting, vain>>
        BY DEF StatusBarEntered, StatusBarLeft, ToolbarEntered, ToolbarLeft, FocusMoves, slide, vars
  <1>2. showReason' \in Reasons \cup {Unset}
        BY <1>1 DEF SlideInv, Flags
  <1>3. SlideInv' BY <1>1, <1>2, SlideStays
  <1>4. Others'
        BY <1>1 DEF StatusBarEntered, StatusBarLeft, ToolbarEntered, ToolbarLeft, FocusMoves, vars,
                    Others
  <1>5. ReasonIsPending' BY <1>1 DEF ReasonIsPending
  <1> QED BY <1>3, <1>4, <1>5

LEMMA WaitersKeep ==
  ASSUME SlideInv, Others, ReasonIsPending,
         \/ Wait(TRUE) \/ Wait(FALSE) \/ WaitingEnds
         \/ \E r \in {ByDBus, ByKey, Policy} : ActivateAbsent(r)
  PROVE  SlideInv' /\ Others' /\ ReasonIsPending'
  <1>1. UNCHANGED <<goal, done, inShow, inHide, visible, region, reactive, hideReason>>
        BY DEF Wait, WaitingEnds, ActivateAbsent, slide
  <1>2. showReason' \in Reasons \cup {Unset}
        BY DEF Wait, WaitingEnds, ActivateAbsent, slide, SlideInv, Flags, Reasons
  <1>3. SlideInv' BY <1>1, <1>2, SlideStays
  <1>4. Others' BY DEF Wait, WaitingEnds, ActivateAbsent, Others
  <1>5. ReasonIsPending'
        BY <1>1 DEF Wait, WaitingEnds, ActivateAbsent, slide, ReasonIsPending
  <1> QED BY <1>3, <1>4, <1>5

LEMMA RevealStep ==
  SlideInv /\ Others /\ ReasonIsPending /\ [Next]_vars => SlideInv' /\ Others' /\ ReasonIsPending'
  <1> SUFFICES ASSUME SlideInv, Others, ReasonIsPending, [Next]_vars
               PROVE  SlideInv' /\ Others' /\ ReasonIsPending'
      OBVIOUS
  <1>1. StatusBarLeft => (StatusBarLeft /\ trigger) \/ (StatusBarLeft /\ ~trigger)
        OBVIOUS
  <1>2. PanelShown \/ WaitTimeout => WaitingEnds
        BY DEF PanelShown, WaitTimeout
  <1> QED BY <1>1, <1>2, AskersKeep, WatchersKeep, WaitersKeep, CompletedKeeps DEF Next

LEMMA RevealInvariant == Spec => [](SlideInv /\ Others /\ ReasonIsPending)
  BY RevealInit, RevealStep, PTL DEF Spec

(***************************************************************************)
(* The theorems.                                                           *)
(***************************************************************************)
\* The type invariant: no animation ever has more than a show's and a hide's handler.
THEOREM RevealTypeCorrect == Spec => []TypeOK
  BY RevealInvariant, SlideTypes, PTL

\* A reason to refuse hides lives as long as the show it belongs to.
THEOREM RevealReasonIsPending == Spec => []ReasonIsPending
  BY RevealInvariant, PTL

\* However shows and hides overlap, the toolbar comes to rest in one piece.
THEOREM RevealRestIsConsistent == Spec => []RestIsConsistent
  <1>1. SlideInv => RestIsConsistent
        BY DEF SlideInv, Stages, RestsIn, RestsOut, SlidesIn, SlidesOut, TurnsOut, TurnsIn, At,
               Flags, RestIsConsistent
  <1> QED BY <1>1, RevealInvariant, PTL

(***************************************************************************)
(* The input regions.  First numbers: a set of them has a least one.  What *)
(* a recursive function computes is proved by looking at the first place   *)
(* where it would go wrong.                                                *)
(***************************************************************************)
Before == OpToRel(<, Nat)

LEMMA Least ==
  ASSUME NEW T, T \subseteq Nat, T # {}
  PROVE  \E m \in T : \A n \in T : m <= n
<1>1. IsWellFoundedOn(Before, Nat)
  BY NatLessThanWellFounded DEF Before
<1>2. \E x \in T : \A y \in T : ~ (<<y, x>> \in Before)
  <2> HIDE DEF Before
  <2> QED BY <1>1, WFMin
<1>3. \A x, y \in Nat : <<y, x>> \in Before <=> y < x
  BY DEF OpToRel, Before
<1>4. PICK x \in T : \A y \in T : ~ (<<y, x>> \in Before)
  BY <1>2
<1>5. ASSUME NEW y \in T PROVE x <= y
  <2>1. x \in Nat /\ y \in Nat OBVIOUS
  <2>2. ~(y < x) BY <1>3, <1>4, <2>1
  <2> QED BY <2>1, <2>2
<1> QED BY <1>5

\* What the regions of a list add up to.
Sum(all) == CHOOSE sum : sum = [n \in 0..Len(all) |->
        IF n = 0 THEN {}
        ELSE IF all[n].inverse THEN sum[n - 1] \ all[n].area
        ELSE sum[n - 1] \cup all[n].area]
LastAdds(all, n) ==
  {c \in Cells : \E i \in 1..n : /\ c \in all[i].area /\ ~all[i].inverse
                                 /\ \A j \in i + 1 .. n : c \in all[j].area => ~all[j].inverse}

LEMMA LastStep ==
  ASSUME NEW all \in Seq(Regions), NEW n \in 1..Len(all)
  PROVE  LastAdds(all, n) = IF all[n].inverse THEN LastAdds(all, n - 1) \ all[n].area
                            ELSE LastAdds(all, n - 1) \cup all[n].area
<1>1. all[n] \in Regions
  BY ElementOfSeq
<1>2. all[n].area \subseteq Cells /\ all[n].inverse \in BOOLEAN
  BY <1>1 DEF Regions
<1>3. n \in Nat /\ n - 1 \in Nat /\ n >= 1
  OBVIOUS
<1> HIDE DEF Regions
<1>4. CASE all[n].inverse
  <2>1. ASSUME NEW c \in LastAdds(all, n) PROVE c \in LastAdds(all, n - 1) \ all[n].area
    <3>1. PICK i \in 1..n : /\ c \in all[i].area /\ ~all[i].inverse
                            /\ \A j \in i + 1 .. n : c \in all[j].area => ~all[j].inverse
      BY <2>1 DEF LastAdds
    <3>2. i # n BY <3>1, <1>4
    <3>3. i \in 1..(n-1) BY <3>2, <1>3
    <3>4. n \in i+1..n BY <3>3, <1>3
    <3>5. c \notin all[n].area BY <3>4, <3>1, <1>4
    <3>6. \A j \in i+1..(n-1) : j \in i+1..n BY <1>3
    <3> QED BY <3>1, <3>3, <3>5, <3>6, <2>1 DEF LastAdds
  <2>2. ASSUME NEW c \in LastAdds(all, n - 1), c \notin all[n].area PROVE c \in LastAdds(all, n)
    <3>1. PICK i \in 1..(n-1) : /\ c \in all[i].area /\ ~all[i].inverse
                            /\ \A j \in i + 1 .. (n-1) : c \in all[j].area => ~all[j].inverse
      BY <2>2 DEF LastAdds
    <3>2. i \in 1..n BY <1>3
    <3>3. \A j \in i+1..n : j = n \/ j \in i+1..(n-1) BY <1>3
    <3> QED BY <3>1, <3>2, <3>3, <2>2 DEF LastAdds
  <2> QED BY <2>1, <2>2, <1>4
<1>5. CASE ~all[n].inverse
  <2>1. ASSUME NEW c \in LastAdds(all, n) PROVE c \in LastAdds(all, n - 1) \cup all[n].area
    <3>1. PICK i \in 1..n : /\ c \in all[i].area /\ ~all[i].inverse
                            /\ \A j \in i + 1 .. n : c \in all[j].area => ~all[j].inverse
      BY <2>1 DEF LastAdds
    <3>2. CASE i = n BY <3>1, <3>2
    <3>3. CASE i # n
      <4>1. i \in 1..(n-1) BY <3>3, <1>3
      <4>2. \A j \in i+1..(n-1) : j \in i+1..n BY <1>3
      <4> QED BY <3>1, <4>1, <4>2, <2>1 DEF LastAdds
    <3> QED BY <3>2, <3>3
  <2>2. ASSUME NEW c \in LastAdds(all, n - 1) PROVE c \in LastAdds(all, n)
    <3>1. PICK i \in 1..(n-1) : /\ c \in all[i].area /\ ~all[i].inverse
                            /\ \A j \in i + 1 .. (n-1) : c \in all[j].area => ~all[j].inverse
      BY <2>2 DEF LastAdds
    <3>2. i \in 1..n BY <1>3
    <3>3. \A j \in i+1..n : j = n \/ j \in i+1..(n-1) BY <1>3
    <3> QED BY <3>1, <3>2, <3>3, <2>2, <1>5 DEF LastAdds
  <2>3. ASSUME NEW c \in all[n].area PROVE c \in LastAdds(all, n)
    <3>1. n \in 1..n /\ \A j \in n+1..n : FALSE BY <1>3
    <3>2. c \in Cells BY <1>2
    <3> QED BY <3>1, <3>2, <1>5 DEF LastAdds
  <2> QED BY <2>1, <2>2, <2>3, <1>5
<1> QED BY <1>4, <1>5

\* Whoever folds over the list ends where the last region that covers a cell decides.
LEMMA SumIsLast ==
  ASSUME NEW all \in Seq(Regions)
  PROVE  Sum(all)[Len(all)] = LastAdds(all, Len(all))
<1> DEFINE N == Len(all)
           Step(f) == [n \in 0..N |-> IF n = 0 THEN {}
                                      ELSE IF all[n].inverse THEN f[n - 1] \ all[n].area
                                      ELSE f[n - 1] \cup all[n].area]
           w == [n \in 0..N |-> LastAdds(all, n)]
           f == Sum(all)
<1>1. N \in Nat BY LenProperties
<1>2. w = Step(w)
  <2>1. LastAdds(all, 0) = {} BY DEF LastAdds
  <2>2. ASSUME NEW n \in 1..N PROVE n - 1 \in 0..N BY <1>1
  <2>3. ASSUME NEW n \in 0..N PROVE w[n] = Step(w)[n]
    <3>1. CASE n = 0 BY <3>1, <2>1
    <3>2. CASE n # 0
      <4>1. n \in 1..N BY <3>2, <1>1
      <4>2. w[n - 1] = LastAdds(all, n - 1) BY <4>1, <2>2
      <4> QED BY <4>1, <4>2, <3>2, LastStep
    <3> QED BY <3>1, <3>2
  <2> QED BY <2>3
<1>3. f = Step(f)
  <2> HIDE DEF w
  <2>1. \E g : g = Step(g) BY <1>2
  <2> QED BY <2>1 DEF Sum
<1> HIDE DEF f, N
<1>4. \A n \in 0..N : f[n] = LastAdds(all, n)
  <2> DEFINE T == {n \in 0..N : f[n] # LastAdds(all, n)}
  <2>1. SUFFICES ASSUME T # {} PROVE FALSE OBVIOUS
  <2>2. T \subseteq Nat BY <1>1
  <2>3. PICK m \in T : \A n \in T : m <= n BY <2>1, <2>2, Least
  <2>4. CASE m = 0
    <3>1. LastAdds(all, 0) = {} BY DEF LastAdds
    <3>2. f[0] = {} BY <1>3, <1>1
    <3> QED BY <3>1, <3>2, <2>4
  <2>5. CASE m # 0
    <3>1. m \in 1..N /\ m - 1 \in 0..N /\ ~(m <= m - 1) BY <2>5, <1>1
    <3>2. f[m - 1] = LastAdds(all, m - 1) BY <3>1, <2>3
    <3>3. f[m] = IF all[m].inverse THEN f[m - 1] \ all[m].area ELSE f[m - 1] \cup all[m].area
      BY <1>3, <2>5
    <3>4. m \in 1..Len(all) BY <3>1 DEF N
    <3>5. f[m] = LastAdds(all, m) BY <3>2, <3>3, <3>4, LastStep
    <3> QED BY <3>5
  <2> QED BY <2>4, <2>5
<1>5. N \in 0..N BY <1>1
<1> QED BY <1>4, <1>5 DEF f, N

(***************************************************************************)
(* One layer: the regions of the holders H, each where ar says.            *)
(***************************************************************************)
Reg(h, area) == [id |-> <<h, 1>>, inverse |-> h \in {"scim", "popup"}, area |-> area]

Areas == [Holders -> SUBSET Cells]

Holds(q, H, ar) ==
  /\ q \in Seq(Regions)
  /\ \A i \in 1..Len(q) : \E h \in H : q[i] = Reg(h, ar[h])
  /\ \A h \in H : \E i \in 1..Len(q) : q[i] = Reg(h, ar[h])
  /\ \A i, j \in 1..Len(q) : q[i].id = q[j].id => i = j

LEMMA RegIs ==
  ASSUME NEW h \in Holders, NEW area \in SUBSET Cells
  PROVE  /\ Reg(h, area) \in Regions
         /\ Reg(h, area).id = <<h, 1>> /\ Reg(h, area).area = area
         /\ Reg(h, area).inverse = (h \in {"scim", "popup"})
<1>1. <<h, 1>> \in Ids
  BY DEF Ids
<1> QED BY <1>1 DEF Reg, Regions

LEMMA IdsDiffer ==
  ASSUME NEW h, NEW g
  PROVE  /\ <<h, 1>> = <<g, 1>> <=> h = g
         /\ <<h, 1>> # <<h, 2>> /\ <<h, 1>> # NoRegion
BY DEF NoRegion

LEMMA HoldsElement ==
  ASSUME NEW q, NEW H \in SUBSET Holders, NEW ar \in Areas, Holds(q, H, ar), NEW i \in 1..Len(q)
  PROVE  \E h \in H : q[i] = Reg(h, ar[h]) /\ q[i].id = <<h, 1>>
<1>1. PICK h \in H : q[i] = Reg(h, ar[h])
  BY DEF Holds
<1>2. ar[h] \in SUBSET Cells /\ h \in Holders
  BY DEF Areas
<1> QED BY <1>1, <1>2, RegIs

LEMMA HoldsAppend ==
  ASSUME NEW q, NEW H \in SUBSET Holders, NEW ar \in Areas, Holds(q, H, ar),
         NEW h \in Holders \ H, NEW area \in SUBSET Cells
  PROVE  Holds(Append(q, Reg(h, area)), H \cup {h}, [ar EXCEPT ![h] = area])
<1> DEFINE p == Append(q, Reg(h, area))
           br == [ar EXCEPT ![h] = area]
<1>1. q \in Seq(Regions) /\ Reg(h, area) \in Regions
  BY RegIs DEF Holds
<1>2. /\ p \in Seq(Regions) /\ Len(p) = Len(q) + 1 /\ Len(q) \in Nat
      /\ \A i \in 1..Len(q) : p[i] = q[i]
      /\ p[Len(q) + 1] = Reg(h, area)
  BY <1>1, AppendProperties, LenProperties
<1>3. /\ br[h] = area /\ \A g \in H : br[g] = ar[g]
  BY DEF Areas
<1>4. ASSUME NEW i \in 1..Len(q) PROVE p[i].id # <<h, 1>>
  BY <1>2, HoldsElement, IdsDiffer
<1>5. p[Len(q) + 1].id = <<h, 1>>
  BY <1>2, RegIs
<1> DEFINE n == Len(q)
<1>6. n \in Nat /\ 1..Len(p) = 1..(n+1) /\ n + 1 \in 1..(n+1)
      /\ (\A i \in 1..(n+1) : i \in 1..n \/ i = n + 1)
      /\ \A i \in 1..n : i \in 1..(n+1)
  BY <1>2
<1> HIDE DEF p, br, n
<1>7. \A i \in 1..(n+1) : \E g \in H \cup {h} : p[i] = Reg(g, br[g])
  BY <1>2, <1>3, <1>6 DEF Holds, n
<1>8. \A g \in H \cup {h} : \E i \in 1..(n+1) : p[i] = Reg(g, br[g])
  BY <1>2, <1>3, <1>6 DEF Holds, n
<1>9. \A i, j \in 1..(n+1) : p[i].id = p[j].id => i = j
  BY <1>2, <1>4, <1>5, <1>6 DEF Holds, n
<1> QED BY <1>2, <1>6, <1>7, <1>8, <1>9 DEF Holds, p, br

\* g_list_remove takes out the one region with that id.
LEMMA HoldsUnlinked ==
  ASSUME NEW q, NEW H \in SUBSET Holders, NEW ar \in Areas, Holds(q, H, ar), NEW h \in H
  PROVE  Holds(Unlinked(q, <<h, 1>>), H \ {h}, ar)
<1> DEFINE n == Len(q)
           p == Unlinked(q, <<h, 1>>)
<1>0. q \in Seq(Regions) /\ n \in Nat
  BY LenProperties DEF Holds
<1>1. PICK k \in 1..n : q[k] = Reg(h, ar[h])
  BY DEF Holds
<1>2. q[k].id = <<h, 1>> /\ k \in Nat /\ k >= 1
  BY <1>1, <1>0, RegIs DEF Areas
<1>3. \A i \in 1..n : q[i].id = <<h, 1>> <=> i = k
  BY <1>2 DEF Holds
<1>4. p = SubSeq(q, 1, k - 1) \o SubSeq(q, k + 1, n)
  <2>1. {i \in 1..n : q[i].id = <<h, 1>>} = {k}
    BY <1>3
  <2>2. Min({k}) = k
    <3>1. \A x \in {k} : \A y \in {k} : x =< y
      BY <1>2
    <3> QED BY <3>1 DEF Min
  <2>3. SelectInSeq(q, LAMBDA r : r.id = <<h, 1>>) = k
    BY <2>1, <2>2 DEF SelectInSeq
  <2> QED BY <2>3, <1>3 DEF Unlinked, RemoveFirstMatch, RemoveAt
<1> DEFINE a == SubSeq(q, 1, k - 1)
           b == SubSeq(q, k + 1, n)
<1>5. /\ a \in Seq(Regions) /\ Len(a) = k - 1
      /\ \A i \in 1..(k-1) : a[i] = q[i]
  <2>1. \A i \in 1..(k-1) : i \in 1..n
    BY <1>2, <1>0
  <2>2. \A i \in 1..(k-1) : q[i] \in Regions
    BY <2>1, <1>0, ElementOfSeq
  <2> QED BY <2>2, <1>2, SubSeqProperties
<1>6. /\ b \in Seq(Regions) /\ Len(b) = n - k
      /\ \A i \in 1..(n-k) : b[i] = q[k + i]
  <2>1. \A i \in (k+1)..n : i \in 1..n
    BY <1>2, <1>0
  <2>2. \A i \in (k+1)..n : q[i] \in Regions
    BY <2>1, <1>0, ElementOfSeq
  <2>3. k <= n
    BY <1>0
  <2> QED BY <2>2, <2>3, <1>0, <1>2, SubSeqProperties
<1> HIDE DEF a, b, n, p
<1>7. /\ p \in Seq(Regions) /\ Len(p) = n - 1
      /\ \A i \in 1..(n-1) : p[i] = IF i < k THEN q[i] ELSE q[i + 1]
  <2>1. p = a \o b
    BY <1>4 DEF a, b
  <2>2. /\ p \in Seq(Regions) /\ Len(p) = Len(a) + Len(b)
        /\ \A i \in 1..(Len(a) + Len(b)) : p[i] = IF i <= Len(a) THEN a[i] ELSE b[i - Len(a)]
    BY <2>1, <1>5, <1>6, ConcatProperties
  <2>0. /\ Len(p) = n - 1
        /\ \A i \in 1..(n - 1) : p[i] = IF i <= k - 1 THEN a[i] ELSE b[i - (k - 1)]
    <3>1. Len(a) + Len(b) = n - 1 BY <1>5, <1>6, <1>0, <1>2
    <3> QED BY <2>2, <3>1, <1>5
  <2>3. ASSUME NEW i \in 1..(n-1) PROVE p[i] = IF i < k THEN q[i] ELSE q[i + 1]
    <3>1. CASE i < k
      <4>1. i \in 1..(k-1) /\ i <= k - 1
        BY <3>1, <1>2, <1>0
      <4>2. p[i] = a[i]
        BY <4>1, <2>0
      <4> QED BY <4>1, <4>2, <1>5, <3>1
    <3>2. CASE ~(i < k)
      <4>1. ~(i <= k - 1) /\ i - (k - 1) \in 1..(n-k) /\ k + (i - (k - 1)) = i + 1
        BY <3>2, <1>2, <1>0
      <4>2. p[i] = b[i - (k - 1)]
        BY <4>1, <2>0
      <4> QED BY <4>1, <4>2, <1>6, <3>2
    <3> QED BY <3>1, <3>2
  <2> QED BY <2>0, <2>2, <2>3
<1> DEFINE at(i) == IF i < k THEN i ELSE i + 1
<1>8. ASSUME NEW i \in 1..(n-1) PROVE at(i) \in 1..n /\ at(i) # k /\ p[i] = q[at(i)]
  <2>1. at(i) \in 1..n /\ at(i) # k
    BY <1>0, <1>2
  <2>2. p[i] = q[at(i)]
    BY <1>7
  <2> QED BY <2>1, <2>2
<1>9. \A i, j \in 1..(n-1) : at(i) = at(j) => i = j
  BY <1>0, <1>2
<1>10. \A j \in 1..n : j # k => \E i \in 1..(n-1) : at(i) = j
  <2> SUFFICES ASSUME NEW j \in 1..n, j # k PROVE \E i \in 1..(n-1) : at(i) = j
    OBVIOUS
  <2>1. CASE j < k
    <3>1. j \in 1..(n-1) /\ at(j) = j BY <2>1, <1>0, <1>2
    <3> QED BY <3>1
  <2>2. CASE j > k
    <3>1. j - 1 \in 1..(n-1) /\ at(j - 1) = j BY <2>2, <1>0, <1>2
    <3> QED BY <3>1
  <2> QED BY <2>1, <2>2, <1>2, <1>0
<1> HIDE DEF at
<1>11. \A i \in 1..(n-1) : \E g \in H \ {h} : p[i] = Reg(g, ar[g])
  <2> SUFFICES ASSUME NEW i \in 1..(n-1) PROVE \E g \in H \ {h} : p[i] = Reg(g, ar[g])
    OBVIOUS
  <2>1. PICK g \in H : q[at(i)] = Reg(g, ar[g]) /\ q[at(i)].id = <<g, 1>>
    BY <1>8, HoldsElement DEF n
  <2>2. g # h
    BY <2>1, <1>3, <1>8
  <2> QED BY <2>1, <2>2, <1>8
<1>12. \A g \in H \ {h} : \E i \in 1..(n-1) : p[i] = Reg(g, ar[g])
  <2> SUFFICES ASSUME NEW g \in H \ {h} PROVE \E i \in 1..(n-1) : p[i] = Reg(g, ar[g])
    OBVIOUS
  <2>1. PICK j \in 1..n : q[j] = Reg(g, ar[g])
    BY DEF Holds, n
  <2>2. q[j].id = <<g, 1>>
    BY <2>1, RegIs DEF Areas
  <2>3. j # k
    BY <2>2, <1>2, IdsDiffer
  <2>4. PICK i \in 1..(n-1) : at(i) = j
    BY <2>3, <1>10
  <2> QED BY <2>1, <2>4, <1>8
<1>13. \A i, j \in 1..(n-1) : p[i].id = p[j].id => i = j
  <2> SUFFICES ASSUME NEW i \in 1..(n-1), NEW j \in 1..(n-1), p[i].id = p[j].id PROVE i = j
    OBVIOUS
  <2>0. at(i) \in 1..n /\ at(j) \in 1..n /\ q[at(i)].id = q[at(j)].id
    BY <1>8
  <2>1. at(i) = at(j)
    BY <2>0 DEF Holds, n
  <2> QED BY <2>1, <1>9
<1> QED BY <1>7, <1>11, <1>12, <1>13 DEF Holds, p

LEMMA HoldsReshaped ==
  ASSUME NEW q, NEW H \in SUBSET Holders, NEW ar \in Areas, Holds(q, H, ar), NEW h \in H,
         NEW area \in SUBSET Cells
  PROVE  Holds(Reshaped(q, <<h, 1>>, area), H, [ar EXCEPT ![h] = area])
<1> DEFINE n == Len(q)
           p == Reshaped(q, <<h, 1>>, area)
           br == [ar EXCEPT ![h] = area]
<1>0. q \in Seq(Regions) /\ n \in Nat /\ DOMAIN q = 1..n
  BY LenProperties DEF Holds
<1>1. /\ br \in Areas /\ br[h] = area /\ \A g \in Holders : g # h => br[g] = ar[g]
  BY DEF Areas
<1>2. p = [i \in 1..n |-> IF q[i].id = <<h, 1>> THEN [q[i] EXCEPT !.area = area] ELSE q[i]]
  BY <1>0 DEF Reshaped
<1> HIDE DEF p, n, br
<1>3. ASSUME NEW i \in 1..n, NEW g \in H, q[i] = Reg(g, ar[g])
      PROVE  p[i] = Reg(g, br[g]) /\ p[i].id = q[i].id /\ p[i] \in Regions
  <2>0. g \in Holders /\ ar[g] \in SUBSET Cells /\ br[g] \in SUBSET Cells
    BY <1>1 DEF Areas
  <2>1. q[i].id = <<g, 1>>
    BY <1>3, <2>0, RegIs
  <2>2. Reg(g, br[g]) \in Regions /\ Reg(g, br[g]).id = <<g, 1>>
    BY <2>0, RegIs
  <2>3. CASE g = h
    <3>1. p[i] = [Reg(h, ar[h]) EXCEPT !.area = area]
      BY <2>1, <2>3, <1>2, <1>3
    <3>2. p[i] = Reg(h, area)
      BY <3>1 DEF Reg
    <3> QED BY <3>2, <2>1, <2>2, <2>3, <1>1
  <2>4. CASE g # h
    <3>1. p[i] = q[i]
      BY <2>1, <2>4, <1>2, IdsDiffer
    <3> QED BY <3>1, <1>3, <2>0, <2>2, <2>4, <1>1
  <2> QED BY <2>3, <2>4
<1>4. ASSUME NEW i \in 1..n
      PROVE  /\ \E g \in H : p[i] = Reg(g, br[g])
             /\ p[i].id = q[i].id /\ p[i] \in Regions
  <2>1. PICK g \in H : q[i] = Reg(g, ar[g])
    BY DEF Holds, n
  <2> QED BY <2>1, <1>3
<1>5. p \in Seq(Regions) /\ Len(p) = n
  <2>1. p \in [1..n -> Regions]
    BY <1>2, <1>4
  <2> QED BY <2>1, <1>0, IsASeq, LenProperties
<1>6. \A g \in H : \E i \in 1..n : p[i] = Reg(g, br[g])
  BY <1>3 DEF Holds, n
<1>7. \A i, j \in 1..n : p[i].id = p[j].id => i = j
  BY <1>4 DEF Holds, n
<1> QED BY <1>4, <1>5, <1>6, <1>7 DEF Holds, p, br

LEMMA HoldsElsewhere ==
  ASSUME NEW q, NEW H, NEW ar, NEW br, Holds(q, H, ar), \A h \in H : br[h] = ar[h]
  PROVE  Holds(q, H, br)
<1>1. ASSUME NEW i \in 1..Len(q) PROVE \E h \in H : q[i] = Reg(h, br[h])
  <2>1. PICK h \in H : q[i] = Reg(h, ar[h])
    BY DEF Holds
  <2> QED BY <2>1
<1>2. ASSUME NEW h \in H PROVE \E i \in 1..Len(q) : q[i] = Reg(h, br[h])
  <2>1. PICK i \in 1..Len(q) : q[i] = Reg(h, ar[h])
    BY DEF Holds
  <2> QED BY <2>1
<1> QED BY <1>1, <1>2 DEF Holds

(***************************************************************************)
(* The stack: who of the holders is on it, and where.                      *)
(***************************************************************************)
Stacks == [layers : [0..2 -> Seq(Regions)], shape : SUBSET Cells,
           mir : [Holders -> Ids \cup {NoRegion}]]

In(l, on) == {h \in on : Layer(h) = l}

Stack(s, on, ar) ==
  /\ s \in Stacks
  /\ \A l \in 0..2 : Holds(s.layers[l], In(l, on), ar)
  /\ \A h \in Holders : s.mir[h] = IF h \in on THEN <<h, 1>> ELSE NoRegion

Top(ls) ==
  LET all == Flat(ls)
  IN {c \in Cells : \E i \in DOMAIN all :
         /\ c \in all[i].area /\ ~all[i].inverse
         /\ \A j \in i + 1 .. Len(all) : c \in all[j].area => ~all[j].inverse}

Applied(s, on, ar) == Stack(s, on, ar) /\ s.shape = Top(s.layers)

LEMMA LayerIs == \A h \in Holders : Layer(h) \in 0..2 /\ Layer(h) # 1
BY DEF Layer

LEMMA FlatIs ==
  ASSUME NEW ls \in [0..2 -> Seq(Regions)]
  PROVE  LET n == Len(ls[0])
             m == Len(ls[0]) + Len(ls[1])
             all == Flat(ls)
         IN /\ all \in Seq(Regions) /\ n \in Nat /\ m \in Nat /\ n <= m
            /\ Len(all) = m + Len(ls[2]) /\ Len(ls[2]) \in Nat /\ Len(all) \in Nat
            /\ Len(ls[1]) \in Nat /\ m - n = Len(ls[1])
            /\ DOMAIN all = 1..Len(all)
            /\ \A i \in 1..Len(all) : all[i] = IF i <= n THEN ls[0][i]
                                               ELSE IF i <= m THEN ls[1][i - n]
                                               ELSE ls[2][i - m]
<1> DEFINE n == Len(ls[0])
           k == Len(ls[1])
           r == Len(ls[2])
           b == ls[0] \o ls[1]
           all == Flat(ls)
<1>1. ls[0] \in Seq(Regions) /\ ls[1] \in Seq(Regions) /\ ls[2] \in Seq(Regions)
  OBVIOUS
<1>2. n \in Nat /\ k \in Nat /\ r \in Nat
  BY <1>1, LenProperties
<1>3. /\ b \in Seq(Regions) /\ Len(b) = n + k
      /\ \A i \in 1..(n + k) : b[i] = IF i <= n THEN ls[0][i] ELSE ls[1][i - n]
  BY <1>1, ConcatProperties
<1>4. all = b \o ls[2]
  BY DEF Flat
<1> DEFINE t == ls[2]
<1> HIDE DEF b, t
<1>5. /\ all \in Seq(Regions) /\ Len(all) = Len(b) + r
      /\ \A i \in 1..(Len(b) + r) : all[i] = IF i <= Len(b) THEN b[i] ELSE ls[2][i - Len(b)]
  <2>1. all = b \o t /\ t \in Seq(Regions) /\ Len(t) = r
    BY <1>1, <1>4 DEF t
  <2> HIDE DEF all, r
  <2>2. /\ all \in Seq(Regions) /\ Len(all) = Len(b) + Len(t)
        /\ \A i \in 1..(Len(b) + Len(t)) : all[i] = IF i <= Len(b) THEN b[i] ELSE t[i - Len(b)]
    BY <2>1, <1>3, ConcatProperties
  <2> QED BY <2>1, <2>2 DEF t
<1> HIDE DEF n, k, r, all
<1>6. /\ Len(all) = (n + k) + r
      /\ \A i \in 1..((n + k) + r) : all[i] = IF i <= n + k THEN b[i] ELSE ls[2][i - (n + k)]
  BY <1>5, <1>3
<1>7. DOMAIN all = 1..Len(all)
  BY <1>5, LenProperties
<1>8. \A i \in 1..((n + k) + r) : i <= n + k => i \in 1..(n + k)
  BY <1>2
<1>9. \A i \in 1..((n + k) + r) : all[i] = IF i <= n THEN ls[0][i]
                                           ELSE IF i <= n + k THEN ls[1][i - n]
                                           ELSE ls[2][i - (n + k)]
  BY <1>6, <1>8, <1>3, <1>2
<1>10. /\ n <= n + k /\ n + k \in Nat /\ (n + k) - n = k /\ (n + k) + r \in Nat
  BY <1>2
<1> QED BY <1>2, <1>5, <1>6, <1>7, <1>9, <1>10 DEF n, k, r, all

\* Each region of the stack is one of a layer, and the other way round.
LEMMA FlatElements ==
  ASSUME NEW ls \in [0..2 -> Seq(Regions)]
  PROVE  /\ \A i \in DOMAIN Flat(ls) :
              \E l \in 0..2 : \E j \in 1..Len(ls[l]) : Flat(ls)[i] = ls[l][j]
         /\ \A l \in 0..2 : \A j \in 1..Len(ls[l]) :
              \E i \in DOMAIN Flat(ls) : Flat(ls)[i] = ls[l][j]
<1> DEFINE n == Len(ls[0])
           k == Len(ls[1])
           m == Len(ls[0]) + Len(ls[1])
           r == Len(ls[2])
           all == Flat(ls)
           N == Len(all)
<1>1. /\ n \in Nat /\ m \in Nat /\ n <= m /\ k \in Nat /\ r \in Nat /\ N \in Nat
      /\ N = m + r /\ m - n = k
      /\ DOMAIN all = 1..N
      /\ \A i \in 1..N : all[i] = IF i <= n THEN ls[0][i]
                                  ELSE IF i <= m THEN ls[1][i - n] ELSE ls[2][i - m]
  BY FlatIs
<1> HIDE DEF n, k, m, r, all, N
<1>2. ASSUME NEW i \in 1..N PROVE \E l \in 0..2 : \E j \in 1..Len(ls[l]) : all[i] = ls[l][j]
  <2>1. CASE i <= n
    <3>1. i \in 1..n BY <2>1
    <3> QED BY <3>1, <2>1, <1>1 DEF n
  <2>2. CASE ~(i <= n) /\ i <= m
    <3>1. i - n \in 1..k BY <2>2, <1>1
    <3> QED BY <3>1, <2>2, <1>1 DEF k
  <2>3. CASE ~(i <= m)
    <3>1. i - m \in 1..r BY <2>3, <1>1
    <3>2. ~(i <= n) BY <2>3, <1>1
    <3> QED BY <3>1, <3>2, <2>3, <1>1 DEF r
  <2> QED BY <2>1, <2>2, <2>3
<1>3. ASSUME NEW j \in 1..n PROVE \E i \in 1..N : all[i] = ls[0][j]
  <2>1. j \in 1..N /\ j <= n BY <1>1
  <2> QED BY <2>1, <1>1
<1>4. ASSUME NEW j \in 1..k PROVE \E i \in 1..N : all[i] = ls[1][j]
  <2>1. n + j \in 1..N /\ ~(n + j <= n) /\ n + j <= m /\ (n + j) - n = j BY <1>1
  <2> QED BY <2>1, <1>1
<1>5. ASSUME NEW j \in 1..r PROVE \E i \in 1..N : all[i] = ls[2][j]
  <2>1. m + j \in 1..N /\ ~(m + j <= n) /\ ~(m + j <= m) /\ (m + j) - m = j BY <1>1
  <2> QED BY <2>1, <1>1
<1>6. \A l \in 0..2 : l = 0 \/ l = 1 \/ l = 2
  OBVIOUS
<1>7. ASSUME NEW l \in 0..2, NEW j \in 1..Len(ls[l]) PROVE \E i \in 1..N : all[i] = ls[l][j]
  <2>1. CASE l = 0 BY <2>1, <1>3 DEF n
  <2>2. CASE l = 1 BY <2>2, <1>4 DEF k
  <2>3. CASE l = 2 BY <2>3, <1>5 DEF r
  <2> QED BY <2>1, <2>2, <2>3, <1>6
<1>8. \A i \in DOMAIN all : \E l \in 0..2 : \E j \in 1..Len(ls[l]) : all[i] = ls[l][j]
  BY <1>1, <1>2
<1>9. \A l \in 0..2 : \A j \in 1..Len(ls[l]) : \E i \in DOMAIN all : all[i] = ls[l][j]
  BY <1>1, <1>7
<1> QED BY <1>8, <1>9 DEF all

\* mnb_input_manager_apply_stack tells the X server what the last regions say.
LEMMA ApplyIs ==
  ASSUME NEW s \in Stacks
  PROVE  /\ ApplyStack(s) \in Stacks
         /\ ApplyStack(s).layers = s.layers /\ ApplyStack(s).mir = s.mir
         /\ ApplyStack(s).shape = Top(s.layers)
<1> DEFINE all == Flat(s.layers)
<1>1. all \in Seq(Regions) /\ DOMAIN all = 1..Len(all)
  <2>1. s.layers \in [0..2 -> Seq(Regions)] BY DEF Stacks
  <2> QED BY <2>1, FlatIs
<1>2. Sum(all)[Len(all)] = LastAdds(all, Len(all))
  BY <1>1, SumIsLast
<1>3. LastAdds(all, Len(all)) = Top(s.layers)
  BY <1>1 DEF LastAdds, Top
<1>4. ApplyStack(s) = [s EXCEPT !.shape = Sum(all)[Len(all)]]
  BY DEF ApplyStack, Sum
<1>5. Top(s.layers) \subseteq Cells
  BY DEF Top
<1> HIDE DEF all
<1> QED BY <1>2, <1>3, <1>4, <1>5 DEF Stacks

LEMMA InIs ==
  ASSUME NEW on, NEW h \in Holders, NEW l \in 0..2
  PROVE  /\ In(l, on \cup {h}) = IF l = Layer(h) THEN In(l, on) \cup {h} ELSE In(l, on)
         /\ In(l, on \ {h}) = IF l = Layer(h) THEN In(l, on) \ {h} ELSE In(l, on)
BY DEF In

LEMMA StackParts ==
  ASSUME NEW s, NEW on \in SUBSET Holders, NEW ar, Stack(s, on, ar)
  PROVE  /\ s \in Stacks /\ s.layers \in [0..2 -> Seq(Regions)]
         /\ s.shape \in SUBSET Cells /\ s.mir \in [Holders -> Ids \cup {NoRegion}]
         /\ \A h \in on : s.mir[h] = <<h, 1>> /\ <<h, 1>> # NoRegion
         /\ \A h \in Holders \ on : s.mir[h] = NoRegion
         /\ \A l \in 0..2 : In(l, on) \in SUBSET Holders
<1>1. \A h : <<h, 1>> # NoRegion
  BY IdsDiffer
<1> QED BY <1>1 DEF Stack, Stacks, In

LEMMA RegionOnStack ==
  ASSUME NEW s, NEW on \in SUBSET Holders, NEW ar \in Areas, Stack(s, on, ar),
         NEW i \in DOMAIN Flat(s.layers)
  PROVE  \E h \in on : Flat(s.layers)[i].id = <<h, 1>>
<1>1. s.layers \in [0..2 -> Seq(Regions)]
  BY StackParts
<1>2. PICK l \in 0..2 : \E j \in 1..Len(s.layers[l]) : Flat(s.layers)[i] = s.layers[l][j]
  BY <1>1, FlatElements
<1>5. PICK j \in 1..Len(s.layers[l]) : Flat(s.layers)[i] = s.layers[l][j]
  BY <1>2
<1>3. Holds(s.layers[l], In(l, on), ar) /\ In(l, on) \in SUBSET Holders
  BY StackParts DEF Stack
<1>4. PICK h \in In(l, on) : s.layers[l][j].id = <<h, 1>>
  BY <1>3, HoldsElement
<1> QED BY <1>5, <1>4 DEF In

LEMMA NewLayers ==
  ASSUME NEW s \in Stacks, NEW ls \in [0..2 -> Seq(Regions)],
         NEW t, t = [s EXCEPT !.layers = ls]
  PROVE  t \in Stacks /\ t.layers = ls /\ t.mir = s.mir
<1> DEFINE A == [0..2 -> Seq(Regions)]
           B == [Holders -> Ids \cup {NoRegion}]
<1>1. Stacks = [layers : A, shape : SUBSET Cells, mir : B] /\ ls \in A
  BY DEF Stacks
<1> HIDE DEF A, B
<1> QED BY <1>1

LEMMA NewHolders ==
  ASSUME NEW s \in Stacks, NEW m \in [Holders -> Ids \cup {NoRegion}],
         NEW t, t = [s EXCEPT !.mir = m]
  PROVE  t \in Stacks /\ t.layers = s.layers /\ t.mir = m /\ t.shape = s.shape
<1> DEFINE A == [0..2 -> Seq(Regions)]
           B == [Holders -> Ids \cup {NoRegion}]
<1>1. Stacks = [layers : A, shape : SUBSET Cells, mir : B] /\ m \in B
  BY DEF Stacks
<1> HIDE DEF A, B
<1> QED BY <1>1

\* A push: the new region is its holder's only one, and the shape follows.
LEMMA Pushed ==
  ASSUME NEW s, NEW on \in SUBSET Holders, NEW ar \in Areas, Stack(s, on, ar),
         NEW h \in Holders \ on, NEW area \in SUBSET Cells
  PROVE  Applied(PushRegion(s, h, h \in {"scim", "popup"}, area), on \cup {h},
                 [ar EXCEPT ![h] = area])
<1> DEFINE r == Reg(h, area)
           L == Layer(h)
           ls == [s.layers EXCEPT ![L] = Append(@, r)]
           t == [s EXCEPT !.layers = ls]
           u == ApplyStack(t)
           m == [s.mir EXCEPT ![h] = <<h, 1>>]
           br == [ar EXCEPT ![h] = area]
           p == PushRegion(s, h, h \in {"scim", "popup"}, area)
<1>0. L \in 0..2
  BY LayerIs
<1>1. NewId(s.layers, h) = <<h, 1>>
  <2>1. ASSUME NEW j \in DOMAIN Flat(s.layers) PROVE Flat(s.layers)[j].id # <<h, 1>>
    <3>1. PICK g \in on : Flat(s.layers)[j].id = <<g, 1>>
      BY RegionOnStack
    <3>2. g # h
      OBVIOUS
    <3> QED BY <3>1, <3>2, IdsDiffer
  <2> QED BY <2>1 DEF NewId
<1>2. p = [u EXCEPT !.mir[h] = <<h, 1>>]
  <2>1. t = [s EXCEPT !.layers[L] = Append(@, r)]
    BY StackParts DEF Stacks
  <2>2. [id |-> <<h, 1>>, inverse |-> h \in {"scim", "popup"}, area |-> area] = r
    BY DEF Reg
  <2> HIDE DEF t, r
  <2> QED BY <1>1, <2>1, <2>2 DEF PushRegion
<1>3. ls \in [0..2 -> Seq(Regions)]
  <2>1. s.layers \in [0..2 -> Seq(Regions)] /\ r \in Regions
    BY StackParts, RegIs
  <2>2. s.layers[L] \in Seq(Regions)
    BY <2>1, <1>0
  <2>3. Append(s.layers[L], r) \in Seq(Regions)
    BY <2>1, <2>2, AppendProperties
  <2> QED BY <2>1, <2>3
<1>4. t \in Stacks /\ t.layers = ls /\ t.mir = s.mir
  <2>1. s \in Stacks
    BY StackParts
  <2>2. t = [s EXCEPT !.layers = ls]
    OBVIOUS
  <2> HIDE DEF ls, t
  <2> QED BY <1>3, <2>1, <2>2, NewLayers
<1>5. u \in Stacks /\ u.layers = ls /\ u.mir = s.mir /\ u.shape = Top(ls)
  BY <1>4, ApplyIs
<1>6. /\ br[h] = area /\ \A g \in on : br[g] = ar[g]
  BY DEF Areas
<1>7. ASSUME NEW l \in 0..2 PROVE Holds(ls[l], In(l, on \cup {h}), br)
  <2>0. Holds(s.layers[l], In(l, on), ar) /\ In(l, on) \in SUBSET Holders /\ h \notin In(l, on)
    BY StackParts DEF Stack, In
  <2>1. CASE l = L
    <3>1. ls[l] = Append(s.layers[l], r)
      BY <2>1, StackParts
    <3>2. In(l, on \cup {h}) = In(l, on) \cup {h}
      BY <2>1, InIs
    <3>3. Holds(Append(s.layers[l], r), In(l, on) \cup {h}, br)
      BY <2>0, HoldsAppend
    <3> QED BY <3>1, <3>2, <3>3
  <2>2. CASE l # L
    <3>1. ls[l] = s.layers[l]
      BY <2>2, StackParts
    <3>2. \A g \in In(l, on) : br[g] = ar[g]
      BY <1>6 DEF In
    <3>3. Holds(s.layers[l], In(l, on), br)
      BY <2>0, <3>2, HoldsElsewhere
    <3> QED BY <3>1, <3>3, <2>2, InIs
  <2> QED BY <2>1, <2>2
<1> HIDE DEF u, ls, br, t
<1>8. /\ m \in [Holders -> Ids \cup {NoRegion}]
      /\ \A g \in Holders : m[g] = IF g \in on \cup {h} THEN <<g, 1>> ELSE NoRegion
  <2>1. <<h, 1>> \in Ids
    BY DEF Ids
  <2> QED BY <2>1, StackParts
<1>9. p \in Stacks /\ p.layers = ls /\ p.mir = m /\ p.shape = Top(ls)
  <2>1. [u EXCEPT !.mir[h] = <<h, 1>>] = [u EXCEPT !.mir = m]
    BY <1>5
  <2> HIDE DEF m, p
  <2>2. m \in [Holders -> Ids \cup {NoRegion}] /\ p = [u EXCEPT !.mir = m]
    BY <1>2, <1>8, <2>1
  <2> QED BY <1>5, <2>2, NewHolders
<1> HIDE DEF m, p
<1>10. Applied(p, on \cup {h}, br)
  BY <1>7, <1>8, <1>9 DEF Applied, Stack
<1> QED BY <1>10 DEF p, br

\* A region taken out, the shape not yet told.
LEMMA TakenOut ==
  ASSUME NEW s, NEW on \in SUBSET Holders, NEW ar \in Areas, Stack(s, on, ar), NEW h \in on
  PROVE  Stack(RemoveQuietly(s, h), on \ {h}, ar)
<1> DEFINE L == Layer(h)
           q == Unlinked(s.layers[L], <<h, 1>>)
           ls == [s.layers EXCEPT ![L] = q]
           m == [s.mir EXCEPT ![h] = NoRegion]
           p == RemoveQuietly(s, h)
<1>0. L \in 0..2 /\ h \in Holders
  BY LayerIs
<1>1. p = [s EXCEPT !.layers = ls, !.mir = m]
  <2>1. s.mir[h] = <<h, 1>>
    BY StackParts
  <2>2. s \in Stacks
    BY StackParts
  <2>3. p = [s EXCEPT !.layers[L] = Unlinked(@, s.mir[h]), !.mir[h] = NoRegion]
    BY DEF RemoveQuietly
  <2>4. [s EXCEPT !.layers[L] = Unlinked(@, s.mir[h]), !.mir[h] = NoRegion]
        = [s EXCEPT !.layers = ls, !.mir = m]
    BY <2>1, <2>2 DEF Stacks
  <2> QED BY <2>3, <2>4
<1>2. Holds(q, In(L, on) \ {h}, ar)
  <2>1. Holds(s.layers[L], In(L, on), ar) /\ In(L, on) \in SUBSET Holders /\ h \in In(L, on)
    BY <1>0, StackParts DEF Stack, In
  <2> QED BY <2>1, HoldsUnlinked
<1> HIDE DEF q
<1>3. q \in Seq(Regions)
  BY <1>2 DEF Holds
<1>4. ls \in [0..2 -> Seq(Regions)]
  BY <1>3, StackParts
<1>5. ASSUME NEW l \in 0..2 PROVE Holds(ls[l], In(l, on \ {h}), ar)
  <2>0. Holds(s.layers[l], In(l, on), ar)
    BY DEF Stack
  <2>1. CASE l = L
    <3>1. ls[l] = q
      BY <2>1, StackParts
    <3> QED BY <3>1, <1>0, <1>2, <2>1, InIs
  <2>2. CASE l # L
    <3>1. ls[l] = s.layers[l]
      BY <2>2, StackParts
    <3> QED BY <3>1, <1>0, <2>0, <2>2, InIs
  <2> QED BY <2>1, <2>2
<1> HIDE DEF ls
<1>6. /\ m \in [Holders -> Ids \cup {NoRegion}]
      /\ \A g \in Holders : m[g] = IF g \in on \ {h} THEN <<g, 1>> ELSE NoRegion
  BY <1>0, StackParts
<1> HIDE DEF m
<1>7. p \in Stacks /\ p.layers = ls /\ p.mir = m
  <2>1. s \in Stacks
    BY StackParts
  <2>2. m \in [Holders -> Ids \cup {NoRegion}]
    BY <1>6
  <2> DEFINE t == [s EXCEPT !.layers = ls]
  <2>3. p = [t EXCEPT !.mir = m]
    BY <1>1
  <2>4. t = [s EXCEPT !.layers = ls]
    OBVIOUS
  <2> HIDE DEF p, t
  <2>5. t \in Stacks /\ t.layers = ls
    BY <1>4, <2>1, <2>4, NewLayers
  <2> QED BY <2>2, <2>3, <2>5, NewHolders
<1> HIDE DEF p
<1>8. Stack(p, on \ {h}, ar)
  BY <1>5, <1>6, <1>7 DEF Stack
<1> QED BY <1>8 DEF p

LEMMA AppliedIs ==
  ASSUME NEW s, NEW on, NEW ar, Stack(s, on, ar)
  PROVE  Applied(ApplyStack(s), on, ar)
<1>1. s \in Stacks
  BY DEF Stack
<1>2. /\ ApplyStack(s) \in Stacks
      /\ ApplyStack(s).layers = s.layers /\ ApplyStack(s).mir = s.mir
      /\ ApplyStack(s).shape = Top(s.layers)
  BY <1>1, ApplyIs
<1> QED BY <1>2 DEF Applied, Stack

LEMMA Removed ==
  ASSUME NEW s, NEW on \in SUBSET Holders, NEW ar \in Areas, Stack(s, on, ar), NEW h \in on
  PROVE  Applied(RemoveRegion(s, h), on \ {h}, ar)
BY TakenOut, AppliedIs DEF RemoveRegion

\* A region moved.
LEMMA Moved ==
  ASSUME NEW s, NEW on \in SUBSET Holders, NEW ar \in Areas, Stack(s, on, ar), NEW h \in on,
         NEW area \in SUBSET Cells
  PROVE  Applied(SetArea(s, h, area), on, [ar EXCEPT ![h] = area])
<1> DEFINE L == Layer(h)
           q == Reshaped(s.layers[L], <<h, 1>>, area)
           ls == [s.layers EXCEPT ![L] = q]
           t == [s EXCEPT !.layers = ls]
           br == [ar EXCEPT ![h] = area]
<1>0. L \in 0..2 /\ h \in Holders
  BY LayerIs
<1>1. SetArea(s, h, area) = ApplyStack(t)
  <2>1. t = [s EXCEPT !.layers[L] = Reshaped(@, s.mir[h], area)]
    BY StackParts DEF Stacks
  <2> QED BY <2>1 DEF SetArea
<1>2. Holds(q, In(L, on), br)
  <2>1. Holds(s.layers[L], In(L, on), ar) /\ In(L, on) \in SUBSET Holders /\ h \in In(L, on)
    BY <1>0, StackParts DEF Stack, In
  <2> QED BY <2>1, HoldsReshaped
<1>6. \A g \in on : g # h => br[g] = ar[g]
  BY DEF Areas
<1> HIDE DEF q, br
<1>3. q \in Seq(Regions)
  BY <1>2 DEF Holds
<1>4. ls \in [0..2 -> Seq(Regions)]
  BY <1>3, StackParts
<1>5. ASSUME NEW l \in 0..2 PROVE Holds(ls[l], In(l, on), br)
  <2>0. Holds(s.layers[l], In(l, on), ar)
    BY DEF Stack
  <2>1. CASE l = L
    <3>1. ls[l] = q
      BY <2>1, StackParts
    <3> QED BY <3>1, <1>2, <2>1
  <2>2. CASE l # L
    <3>1. ls[l] = s.layers[l]
      BY <2>2, StackParts
    <3>2. \A g \in In(l, on) : br[g] = ar[g]
      BY <1>6, <2>2 DEF In
    <3> QED BY <3>1, <3>2, <2>0, HoldsElsewhere
  <2> QED BY <2>1, <2>2
<1> HIDE DEF ls
<1>7. t \in Stacks /\ t.layers = ls /\ t.mir = s.mir
  <2>1. s \in Stacks
    BY StackParts
  <2>2. t = [s EXCEPT !.layers = ls]
    OBVIOUS
  <2> HIDE DEF t
  <2> QED BY <1>4, <2>1, <2>2, NewLayers
<1> HIDE DEF t
<1>8. Stack(t, on, br)
  BY <1>5, <1>7 DEF Stack
<1> QED BY <1>1, <1>8, AppliedIs DEF br

LEMMA OtherAreas ==
  ASSUME NEW s, NEW on, NEW ar, NEW br, Applied(s, on, ar), \A h \in on : br[h] = ar[h]
  PROVE  Applied(s, on, br)
<1>1. ASSUME NEW l \in 0..2 PROVE Holds(s.layers[l], In(l, on), br)
  <2>1. Holds(s.layers[l], In(l, on), ar) /\ \A h \in In(l, on) : br[h] = ar[h]
    BY DEF Applied, Stack, In
  <2> QED BY <2>1, HoldsElsewhere
<1> QED BY <1>1 DEF Applied, Stack

\* Whoever pushes anew takes the old region out first.
LEMMA Renewed ==
  ASSUME NEW s, NEW on \in SUBSET Holders, NEW ar \in Areas, Applied(s, on, ar),
         NEW h \in Holders, NEW area \in SUBSET Cells
  PROVE  LET inv == h \in {"scim", "popup"}
         IN /\ Applied(PushRegion(IF s.mir[h] = NoRegion THEN s ELSE RemoveQuietly(s, h), h, inv, area),
                       on \cup {h}, [ar EXCEPT ![h] = area])
            /\ Applied(PushRegion(IF s.mir[h] = NoRegion THEN s ELSE RemoveRegion(s, h), h, inv, area),
                       on \cup {h}, [ar EXCEPT ![h] = area])
<1>1. Stack(s, on, ar)
  BY DEF Applied
<1>2. CASE h \in on
  <2>1. s.mir[h] # NoRegion
    <3>1. s.mir[h] = <<h, 1>>
      BY <1>1, <1>2 DEF Stack
    <3> QED BY <3>1, IdsDiffer
  <2>2. Stack(RemoveQuietly(s, h), on \ {h}, ar) /\ Stack(RemoveRegion(s, h), on \ {h}, ar)
    BY <1>1, <1>2, TakenOut, Removed DEF Applied
  <2>3. (on \ {h}) \cup {h} = on \cup {h} /\ on \ {h} \in SUBSET Holders /\ h \in Holders \ (on \ {h})
    OBVIOUS
  <2>4. Applied(PushRegion(RemoveQuietly(s, h), h, h \in {"scim", "popup"}, area),
                (on \ {h}) \cup {h}, [ar EXCEPT ![h] = area])
    BY <2>2, <2>3, Pushed
  <2>5. Applied(PushRegion(RemoveRegion(s, h), h, h \in {"scim", "popup"}, area),
                (on \ {h}) \cup {h}, [ar EXCEPT ![h] = area])
    BY <2>2, <2>3, Pushed
  <2> QED BY <2>1, <2>3, <2>4, <2>5
<1>3. CASE h \notin on
  <2>1. s.mir[h] = NoRegion
    BY <1>1, <1>3, StackParts
  <2>2. Applied(PushRegion(s, h, h \in {"scim", "popup"}, area), on \cup {h}, [ar EXCEPT ![h] = area])
    BY <1>1, <1>3, Pushed
  <2> QED BY <2>1, <2>2
<1> QED BY <1>2, <1>3

(***************************************************************************)
(* The invariant: who is shown is on the stack, where it is, and handles   *)
(* its signals in one way.                                                 *)
(***************************************************************************)
Kind(a) == IF a = "panel" THEN "panel" ELSE "actor"
RegionArea(a, area) == IF a = "panel" THEN Beneath[area] ELSE area

OnStack == {a \in Actors : actor[a].shown} \cup (IF mir["bar"] # NoRegion THEN {"bar"} ELSE {})
AreaOf  == [h \in Holders |-> IF h = "bar" THEN BarArea ELSE RegionArea(h, actor[h].area)]

ActorsOK ==
  /\ actor \in [Actors ->
       [alive : BOOLEAN, shown : BOOLEAN, area : SUBSET Cells,
        handlers : {<<>>, <<"actor">>, <<"panel">>, <<"actor", "panel">>}]]
  /\ \A a \in Actors :
       /\ actor[a].area \in Places[a]
       /\ actor[a].shown => actor[a].alive
       /\ actor[a].handlers = IF actor[a].alive THEN <<Kind(a)>> ELSE <<>>
  /\ actor["status"].shown

StackOK == Applied(InputNow, OnStack, AreaOf)

InputInv == ActorsOK /\ StackOK

LEMMA OneHandler ==
  ASSUME NEW s, NEW a, NEW signal, NEW area
  PROVE  /\ actor[a].handlers = <<>> => Emit(s, a, signal, area) = s
         /\ \A k : actor[a].handlers = <<k>> =>
              Emit(s, a, signal, area) = HandleSignal(s, a, signal, k, area)
<1> DEFINE hs == actor[a].handlers
           Step(f) == [n \in 0..Len(hs) |-> IF n = 0 THEN s
                                            ELSE HandleSignal(f[n - 1], a, signal, hs[n], area)]
           after == CHOOSE f : f = Step(f)
<1>1. Emit(s, a, signal, area) = after[Len(hs)]
  BY DEF Emit
<1>2. ASSUME hs = <<>> PROVE after[Len(hs)] = s
  <2>1. Len(hs) = 0
    BY <1>2
  <2> DEFINE w == [n \in 0..0 |-> s]
  <2>2. w = Step(w)
    BY <2>1
  <2>3. after = Step(after)
    BY <2>2
  <2> HIDE DEF after
  <2> QED BY <2>1, <2>3
<1>3. ASSUME NEW k, hs = <<k>> PROVE after[Len(hs)] = HandleSignal(s, a, signal, k, area)
  <2>1. Len(hs) = 1 /\ hs[1] = k
    BY <1>3
  <2> DEFINE one == HandleSignal(s, a, signal, k, area)
             w == [n \in 0..1 |-> IF n = 0 THEN s ELSE one]
  <2>2. w = Step(w)
    <3>1. 0 \in 0..1 /\ w[0] = s
      OBVIOUS
    <3>2. \A n \in 0..1 : n # 0 => n = 1 /\ n - 1 = 0
      OBVIOUS
    <3> HIDE DEF one
    <3>3. Step(w) = [n \in 0..1 |-> IF n = 0 THEN s ELSE HandleSignal(w[n - 1], a, signal, hs[n], area)]
      BY <2>1
    <3>4. ASSUME NEW n \in 0..1, n # 0 PROVE HandleSignal(w[n - 1], a, signal, hs[n], area) = one
      BY <3>1, <3>2, <3>4, <2>1 DEF one
    <3> QED BY <3>3, <3>4
  <2>3. after = Step(after)
    <3> HIDE DEF w
    <3> QED BY <2>2
  <2> HIDE DEF after
  <2>4. 0 \in 0..Len(hs) /\ 1 \in 0..Len(hs) /\ 1 - 1 = 0
    BY <2>1
  <2>5. after[0] = s
    BY <2>3, <2>4
  <2>6. after[1] = HandleSignal(after[1 - 1], a, signal, hs[1], area)
    BY <2>3, <2>4
  <2> QED BY <2>1, <2>4, <2>5, <2>6
<1> QED BY <1>1, <1>2, <1>3

LEMMA AreasOK ==
  ASSUME ScreenAssumption
  PROVE  /\ ActorsOK => AreaOf \in Areas
         /\ \A a \in Actors : \A area \in Places[a] : area \in SUBSET Cells
         /\ \A a : \A area \in SUBSET Cells : RegionArea(a, area) \in SUBSET Cells
         /\ \A a \in Actors : NoActor(a).area \in Places[a]
<1>1. \A a : \A area \in SUBSET Cells : RegionArea(a, area) \in SUBSET Cells
  BY DEF ScreenAssumption, RegionArea
<1>2. \A a \in Actors : \A area \in Places[a] : area \in SUBSET Cells
  BY DEF ScreenAssumption
<1>3. ASSUME NEW a \in Actors PROVE NoActor(a).area \in Places[a]
  <2>1. Places[a] # {}
    BY DEF ScreenAssumption
  <2>2. (CHOOSE p \in Places[a] : TRUE) \in Places[a]
    BY <2>1
  <2> QED BY <2>2 DEF NoActor
<1>4. ASSUME ActorsOK PROVE AreaOf \in Areas
  <2>1. ASSUME NEW h \in Holders, h # "bar" PROVE RegionArea(h, actor[h].area) \in SUBSET Cells
    <3>1. h \in Actors
      BY <2>1 DEF Holders
    <3> QED BY <3>1, <1>4, <1>1 DEF ActorsOK
  <2>2. BarArea \in SUBSET Cells
    BY DEF ScreenAssumption
  <2> QED BY <2>1, <2>2 DEF AreaOf, Areas
<1> QED BY <1>1, <1>2, <1>3, <1>4

LEMMA OnStackIs ==
  /\ OnStack \in SUBSET Holders
  /\ \A a \in Actors : a \in OnStack <=> actor[a].shown
  /\ "bar" \in OnStack <=> mir["bar"] # NoRegion
<1>1. "bar" \notin Actors
  BY DEF Actors
<1> QED BY <1>1 DEF OnStack, Holders

\* What the stack becomes.
LEMMA BecomesIs ==
  ASSUME NEW t, NEW on, NEW ar, Applied(t, on, ar), InputBecome(t), on = OnStack', ar = AreaOf'
  PROVE  StackOK'
<1>1. t = [layers |-> t.layers, shape |-> t.shape, mir |-> t.mir]
  BY DEF Applied, Stack, Stacks
<1>2. InputNow' = t
  BY <1>1 DEF InputNow, InputBecome
<1> QED BY <1>2 DEF StackOK

LEMMA BarStep ==
  ASSUME ScreenAssumption, InputInv, ToolbarShown \/ ToolbarHidden \/ ToolbarResized
  PROVE  InputInv'
<1> DEFINE s == InputNow
<1>0. actor' = actor
  BY DEF ToolbarShown, ToolbarHidden, ToolbarResized
<1>1. ActorsOK'
  BY <1>0 DEF InputInv, ActorsOK
<1>2. /\ Applied(s, OnStack, AreaOf) /\ AreaOf \in Areas /\ OnStack \in SUBSET Holders
      /\ "bar" \in Holders /\ BarArea \in SUBSET Cells /\ s.mir = mir
  BY AreasOK, OnStackIs DEF InputInv, StackOK, Holders, ScreenAssumption, InputNow
<1>3. AreaOf' = AreaOf /\ [AreaOf EXCEPT !["bar"] = BarArea] = AreaOf
  BY <1>0, <1>2 DEF AreaOf
<1>4. ~("bar" \in {"scim", "popup"}) /\ "bar" \notin Actors
  BY DEF Actors
<1>5. ASSUME NEW t, Applied(t, OnStack \cup {"bar"}, AreaOf), InputBecome(t) PROVE StackOK'
  <2>1. mir'["bar"] # NoRegion
    <3>1. t.mir["bar"] = <<"bar", 1>>
      BY <1>5, <1>2 DEF Applied, Stack
    <3> QED BY <3>1, <1>5, IdsDiffer DEF InputBecome
  <2>2. OnStack' = OnStack \cup {"bar"}
    BY <2>1, <1>0 DEF OnStack
  <2> QED BY <1>3, <1>5, <2>2, BecomesIs
<1>6. CASE ToolbarShown
  <2> DEFINE t == PushRegion(IF s.mir["bar"] = NoRegion THEN s ELSE RemoveRegion(s, "bar"), "bar", FALSE, BarArea)
  <2>1. Applied(t, OnStack \cup {"bar"}, AreaOf)
    <3>1. Applied(PushRegion(IF s.mir["bar"] = NoRegion THEN s ELSE RemoveRegion(s, "bar"), "bar",
                             "bar" \in {"scim", "popup"}, BarArea),
                  OnStack \cup {"bar"}, [AreaOf EXCEPT !["bar"] = BarArea])
      BY <1>2, Renewed
    <3>2. ("bar" \in {"scim", "popup"}) = FALSE
      BY <1>4
    <3> HIDE DEF s
    <3> QED BY <3>1, <3>2, <1>3
  <2>2. InputBecome(t)
    BY <1>6, <1>2 DEF ToolbarShown
  <2> HIDE DEF t
  <2> QED BY <1>1, <1>5, <2>1, <2>2 DEF InputInv
<1>7. CASE ToolbarResized
  <2> DEFINE t == PushRegion(RemoveQuietly(s, "bar"), "bar", FALSE, BarArea)
  <2>1. Applied(t, OnStack \cup {"bar"}, AreaOf)
    <3>1. Applied(PushRegion(IF s.mir["bar"] = NoRegion THEN s ELSE RemoveQuietly(s, "bar"), "bar",
                             "bar" \in {"scim", "popup"}, BarArea),
                  OnStack \cup {"bar"}, [AreaOf EXCEPT !["bar"] = BarArea])
      BY <1>2, Renewed
    <3>2. ("bar" \in {"scim", "popup"}) = FALSE
      BY <1>4
    <3>3. s.mir["bar"] # NoRegion
      BY <1>7, <1>2 DEF ToolbarResized
    <3> HIDE DEF s
    <3> QED BY <3>1, <3>2, <3>3, <1>3
  <2>2. InputBecome(t)
    BY <1>7 DEF ToolbarResized
  <2> HIDE DEF t
  <2> QED BY <1>1, <1>5, <2>1, <2>2 DEF InputInv
<1>8. CASE ToolbarHidden
  <2> DEFINE t == RemoveRegion(s, "bar")
  <2>0. mir["bar"] # NoRegion
    BY <1>8 DEF ToolbarHidden
  <2>1. Applied(t, OnStack \ {"bar"}, AreaOf)
    <3>1. "bar" \in OnStack
      BY <2>0, OnStackIs
    <3>2. Stack(s, OnStack, AreaOf)
      BY <1>2 DEF Applied
    <3> HIDE DEF s
    <3> QED BY <1>2, <3>1, <3>2, Removed
  <2>2. InputBecome(t)
    BY <1>8 DEF ToolbarHidden
  <2> HIDE DEF t
  <2>3. mir'["bar"] = NoRegion
    <3>1. t.mir["bar"] = NoRegion
      BY <2>1, <1>2 DEF Applied, Stack
    <3> QED BY <3>1, <2>2 DEF InputBecome
  <2>4. OnStack' = OnStack \ {"bar"}
    BY <2>3, <1>0, <1>4 DEF OnStack
  <2>5. StackOK'
    BY <1>3, <2>1, <2>2, <2>4, BecomesIs
  <2> QED BY <1>1, <2>5 DEF InputInv
<1> QED BY <1>6, <1>7, <1>8

\* An actor's step: its region becomes what its new state asks for, the rest stays.
LEMMA ActorStack ==
  ASSUME ScreenAssumption, InputInv, ActorsOK', NEW a \in Actors, NEW t, InputBecome(t),
         \A b \in Actors : b # a => actor'[b] = actor[b],
         IF actor'[a].shown
         THEN Applied(t, OnStack \cup {a}, [AreaOf EXCEPT ![a] = RegionArea(a, actor'[a].area)])
         ELSE Applied(t, OnStack \ {a}, AreaOf)
  PROVE  StackOK'
<1> DEFINE on == IF actor'[a].shown THEN OnStack \cup {a} ELSE OnStack \ {a}
           ar == [AreaOf EXCEPT ![a] = RegionArea(a, actor'[a].area)]
<1>1. a \in Holders /\ a # "bar" /\ Holders = Actors \cup {"bar"} /\ "bar" \notin Actors
  BY DEF Holders, Actors
<1>2. Applied(t, on, ar)
  <2>1. CASE actor'[a].shown
    BY <2>1
  <2>2. CASE ~actor'[a].shown
    <3>1. Applied(t, OnStack \ {a}, AreaOf) /\ on = OnStack \ {a}
      BY <2>2
    <3>2. \A h \in OnStack \ {a} : ar[h] = AreaOf[h]
      BY OnStackIs DEF AreaOf
    <3> HIDE DEF ar, on
    <3> QED BY <3>1, <3>2, OtherAreas
  <2> QED BY <2>1, <2>2
<1>3. ar = AreaOf'
  <2>1. ar \in [Holders -> {ar[h] : h \in Holders}] /\ DOMAIN ar = Holders
    BY DEF AreaOf
  <2>2. \A h \in Holders : ar[h] = IF h = a THEN RegionArea(a, actor'[a].area) ELSE AreaOf[h]
    BY DEF AreaOf
  <2>3. \A h \in Holders : AreaOf'[h] = IF h = "bar" THEN BarArea ELSE RegionArea(h, actor'[h].area)
    BY DEF AreaOf
  <2>4. \A h \in Holders : ar[h] = AreaOf'[h]
    <3> SUFFICES ASSUME NEW h \in Holders PROVE ar[h] = AreaOf'[h]
      OBVIOUS
    <3>1. CASE h = a BY <3>1, <2>2, <2>3, <1>1
    <3>2. CASE h = "bar" BY <3>2, <2>2, <2>3, <1>1 DEF AreaOf
    <3>3. CASE h # a /\ h # "bar"
      <4>1. actor'[h] = actor[h] BY <3>3, <1>1
      <4> QED BY <3>3, <4>1, <2>2, <2>3 DEF AreaOf
    <3> QED BY <3>1, <3>2, <3>3
  <2>5. AreaOf' = [h \in Holders |-> AreaOf'[h]] /\ ar = [h \in Holders |-> ar[h]]
    BY DEF AreaOf
  <2> HIDE DEF ar
  <2> QED BY <2>4, <2>5
<1>4. on = OnStack'
  <2>1. "bar" \in on <=> mir["bar"] # NoRegion
    BY <1>1, OnStackIs
  <2>2. t.mir["bar"] = IF "bar" \in on THEN <<"bar", 1>> ELSE NoRegion
    BY <1>1, <1>2 DEF Applied, Stack
  <2>3. mir'["bar"] # NoRegion <=> "bar" \in on
    BY <2>2, IdsDiffer DEF InputBecome
  <2>4. \A b \in Actors : b \in on <=> actor'[b].shown
    <3> SUFFICES ASSUME NEW b \in Actors PROVE b \in on <=> actor'[b].shown
      OBVIOUS
    <3>1. CASE b = a BY <3>1
    <3>2. CASE b # a
      <4>1. actor'[b] = actor[b] BY <3>2
      <4> QED BY <3>2, <4>1, OnStackIs
    <3> QED BY <3>1, <3>2
  <2>5. on \subseteq Holders
    BY <1>1, OnStackIs
  <2> HIDE DEF on
  <2>6. OnStack' = {b \in Actors : actor'[b].shown} \cup (IF mir'["bar"] # NoRegion THEN {"bar"} ELSE {})
    BY DEF OnStack
  <2> QED BY <2>3, <2>4, <2>5, <2>6, <1>1
<1> HIDE DEF on, ar
<1> QED BY <1>2, <1>3, <1>4, BecomesIs

LEMMA KindIs ==
  ASSUME NEW a \in Actors
  PROVE  /\ (Kind(a) = "actor" /\ a \in WindowActors) = (a \in {"scim", "popup"})
         /\ Kind(a) = "panel" <=> a = "panel"
         /\ Kind(a) # "panel" => Kind(a) = "actor"
         /\ Kind(a) = "panel" => ~(a \in {"scim", "popup"})
         /\ a \in Holders
BY DEF Kind, WindowActors, Actors, Holders

\* mnb_input_manager_setup_actor and mnb_input_manager_push_oop_panel.
LEMMA SetUpIs ==
  ASSUME ScreenAssumption, InputInv, NEW a \in Actors
  PROVE  Applied(SetUp(InputNow, a, Kind(a)), OnStack \cup {a},
                 [AreaOf EXCEPT ![a] = RegionArea(a, actor[a].area)])
<1> DEFINE s == InputNow
           area == RegionArea(a, actor[a].area)
<1>1. Applied(s, OnStack, AreaOf) /\ AreaOf \in Areas /\ OnStack \in SUBSET Holders
  BY AreasOK, OnStackIs DEF InputInv, StackOK
<1>2. area \in SUBSET Cells
  <2>1. actor[a].area \in Places[a]
    BY DEF InputInv, ActorsOK
  <2> QED BY <2>1, AreasOK
<1>3. SetUp(s, a, Kind(a))
      = PushRegion(IF s.mir[a] = NoRegion THEN s ELSE RemoveQuietly(s, a), a, a \in {"scim", "popup"}, area)
  BY KindIs DEF SetUp, RegionArea
<1>4. Applied(PushRegion(IF s.mir[a] = NoRegion THEN s ELSE RemoveQuietly(s, a), a, a \in {"scim", "popup"}, area),
              OnStack \cup {a}, [AreaOf EXCEPT ![a] = area])
  <2> HIDE DEF s, area
  <2> QED BY <1>1, <1>2, KindIs, Renewed
<1> QED BY <1>3, <1>4

\* The handlers of an actor that lives, one by one.
LEMMA EmitIs ==
  ASSUME ScreenAssumption, InputInv, NEW a \in Actors, actor[a].alive, NEW area \in Places[a]
  PROVE  /\ actor[a].shown =>
              /\ Applied(Emit(InputNow, a, "allocation", area), OnStack,
                         [AreaOf EXCEPT ![a] = RegionArea(a, area)])
              /\ Applied(Emit(InputNow, a, "hide", area), OnStack \ {a}, AreaOf)
         /\ ~actor[a].shown =>
              /\ Emit(InputNow, a, "allocation", area) = InputNow
              /\ Emit(InputNow, a, "hide", area) = InputNow
              /\ Applied(Emit(InputNow, a, "show", area), OnStack \cup {a},
                         [AreaOf EXCEPT ![a] = RegionArea(a, area)])
<1> DEFINE s == InputNow
           where == RegionArea(a, area)
<1>1. /\ Applied(s, OnStack, AreaOf) /\ Stack(s, OnStack, AreaOf)
      /\ AreaOf \in Areas /\ OnStack \in SUBSET Holders
  BY AreasOK, OnStackIs DEF InputInv, StackOK, Applied
<1>2. where \in SUBSET Cells
  BY AreasOK
<1>3. actor[a].handlers = <<Kind(a)>>
  BY DEF InputInv, ActorsOK
<1>4. \A signal : Emit(s, a, signal, area) = HandleSignal(s, a, signal, Kind(a), area)
  BY <1>3, OneHandler
<1>5. /\ Emit(s, a, "allocation", area) = Allocated(s, a, Kind(a), area)
      /\ Emit(s, a, "show", area) = Shown(s, a, Kind(a), area)
      /\ Emit(s, a, "hide", area) = Hidden(s, a)
  BY <1>4 DEF HandleSignal
<1>6. (IF Kind(a) = "panel" THEN Beneath[area] ELSE area) = where
  BY KindIs DEF RegionArea
<1>7. CASE actor[a].shown
  <2>1. a \in OnStack
    BY <1>7, OnStackIs
  <2>2. s.mir[a] # NoRegion
    <3>1. s.mir[a] = <<a, 1>>
      BY <1>1, <2>1, KindIs DEF Stack
    <3> QED BY <3>1, IdsDiffer
  <2>3. Allocated(s, a, Kind(a), area) = SetArea(s, a, where)
    BY <2>2, <1>6 DEF Allocated
  <2>4. Hidden(s, a) = RemoveRegion(s, a)
    BY <2>2 DEF Hidden
  <2> HIDE DEF s, where
  <2>5. Applied(SetArea(s, a, where), OnStack, [AreaOf EXCEPT ![a] = where])
    BY <1>1, <1>2, <2>1, Moved
  <2>6. Applied(RemoveRegion(s, a), OnStack \ {a}, AreaOf)
    BY <1>1, <2>1, Removed
  <2> QED BY <1>5, <1>7, <2>3, <2>4, <2>5, <2>6 DEF s, where
<1>8. CASE ~actor[a].shown
  <2>1. a \in Holders \ OnStack
    BY <1>8, OnStackIs, KindIs
  <2>2. s.mir[a] = NoRegion
    BY <1>1, <2>1 DEF Stack
  <2>3. Allocated(s, a, Kind(a), area) = s /\ Hidden(s, a) = s
    BY <2>2 DEF Allocated, Hidden
  <2>4. Shown(s, a, Kind(a), area) = PushRegion(s, a, a \in {"scim", "popup"}, where)
    <3>1. CASE Kind(a) = "actor"
      <4>1. (a \in WindowActors) = (a \in {"scim", "popup"}) /\ area = where
        BY <3>1, KindIs, <1>6
      <4> HIDE DEF s, where
      <4> QED BY <2>2, <3>1, <4>1 DEF Shown
    <3>2. CASE Kind(a) = "panel"
      <4>1. (a \in {"scim", "popup"}) = FALSE /\ Beneath[area] = where
        BY <3>2, KindIs, <1>6
      <4> HIDE DEF s, where
      <4> QED BY <2>2, <3>2, <4>1 DEF Shown
    <3> QED BY <3>1, <3>2, KindIs
  <2> HIDE DEF s, where
  <2>5. Applied(PushRegion(s, a, a \in {"scim", "popup"}, where), OnStack \cup {a},
                [AreaOf EXCEPT ![a] = where])
    BY <1>1, <1>2, <2>1, Pushed
  <2> QED BY <1>5, <1>8, <2>3, <2>4, <2>5 DEF s, where
<1> QED BY <1>7, <1>8

LEMMA AreaStays ==
  ASSUME NEW a \in Actors
  PROVE  [AreaOf EXCEPT ![a] = RegionArea(a, actor[a].area)] = AreaOf
<1>1. a # "bar" /\ a \in Holders
  BY DEF Actors, Holders
<1> QED BY <1>1 DEF AreaOf

LEMMA PushStep ==
  ASSUME ScreenAssumption, ~Remap, InputInv, NEW a \in Actors,
         \/ a = "status" /\ StatusbarPlaced
         \/ a = "panel" /\ PanelPushed
         \/ a \in WindowActors /\ WindowPushed(a)
  PROVE  InputInv'
<1> DEFINE t == SetUp(InputNow, a, Kind(a))
<1>1. ActorsOK /\ actor[a].area \in Places[a]
  BY DEF InputInv, ActorsOK
<1>2. InputBecome(t)
  <2>1. CASE a = "status" /\ StatusbarPlaced
    BY <2>1 DEF StatusbarPlaced, Kind
  <2>2. CASE a = "panel" /\ PanelPushed
    BY <2>2 DEF PanelPushed, Kind
  <2>3. CASE a \in WindowActors /\ WindowPushed(a)
    BY <2>3 DEF WindowPushed, Kind
  <2> QED BY <2>1, <2>2, <2>3
<1>3. /\ actor' \in [Actors ->
           [alive : BOOLEAN, shown : BOOLEAN, area : SUBSET Cells,
            handlers : {<<>>, <<"actor">>, <<"panel">>, <<"actor", "panel">>}]]
      /\ \A b \in Actors : b # a => actor'[b] = actor[b]
      /\ actor'[a].alive /\ actor'[a].shown /\ actor'[a].area = actor[a].area
      /\ actor'[a].handlers = <<Kind(a)>>
  <2>1. CASE a = "status" /\ StatusbarPlaced
    BY <2>1, <1>1 DEF StatusbarPlaced, ActorsOK
  <2>2. CASE a = "panel" /\ PanelPushed
    <3>1. Connected(actor["panel"].handlers, "panel") = <<"panel">>
      <4>1. CASE actor["panel"].handlers = <<>>
        BY <4>1 DEF Connected
      <4>2. CASE actor["panel"].handlers = <<"panel">>
        <5> DEFINE hs == <<"panel">>
        <5>1. 1 \in DOMAIN hs /\ hs[1] = "panel"
          OBVIOUS
        <5>2. "panel" \in {hs[i] : i \in DOMAIN hs}
          BY <5>1
        <5> QED BY <4>2, <5>2 DEF Connected
      <4> QED BY <4>1, <4>2, <1>1, <2>2 DEF ActorsOK, Kind
    <3>2. actor' = [actor EXCEPT !["panel"].alive = TRUE, !["panel"].shown = TRUE,
                                 !["panel"].handlers = <<"panel">>]
      BY <2>2, <3>1 DEF PanelPushed
    <3> QED BY <2>2, <3>2, <1>1 DEF ActorsOK, Kind
  <2>3. CASE a \in WindowActors /\ WindowPushed(a)
    <3>1. actor' = [actor EXCEPT ![a].alive = TRUE, ![a].shown = TRUE, ![a].handlers = <<"actor">>]
      BY <2>3 DEF WindowPushed
    <3>2. Kind(a) = "actor"
      BY <2>3 DEF WindowPushed, Kind
    <3> QED BY <3>1, <3>2, <1>1 DEF ActorsOK
  <2> QED BY <2>1, <2>2, <2>3
<1>4. ActorsOK'
  <2>1. actor'["status"].shown
    BY <1>1, <1>3 DEF ActorsOK, Actors
  <2>2. ASSUME NEW b \in Actors
        PROVE  /\ actor'[b].area \in Places[b]
               /\ actor'[b].shown => actor'[b].alive
               /\ actor'[b].handlers = IF actor'[b].alive THEN <<Kind(b)>> ELSE <<>>
    <3>1. CASE b = a BY <3>1, <1>1, <1>3
    <3>2. CASE b # a BY <3>2, <1>1, <1>3 DEF ActorsOK
    <3> QED BY <3>1, <3>2
  <2> QED BY <1>3, <2>1, <2>2 DEF ActorsOK
<1>5. Applied(t, OnStack \cup {a}, [AreaOf EXCEPT ![a] = RegionArea(a, actor'[a].area)])
  BY <1>3, SetUpIs
<1> HIDE DEF t
<1>6. StackOK'
  BY <1>2, <1>3, <1>4, <1>5, ActorStack
<1> QED BY <1>4, <1>6 DEF InputInv

LEMMA SignalStep ==
  ASSUME ScreenAssumption, InputInv, NEW a \in Actors,
         \/ ShowActor(a) \/ HideActor(a) \/ DestroyActor(a)
         \/ \E area \in Places[a] : AllocateActor(a, area)
  PROVE  InputInv'
<1> DEFINE All == [alive : BOOLEAN, shown : BOOLEAN, area : SUBSET Cells,
                   handlers : {<<>>, <<"actor">>, <<"panel">>, <<"actor", "panel">>}]
<1>1. /\ ActorsOK /\ actor \in [Actors -> All] /\ actor[a].area \in Places[a]
      /\ a \in Holders /\ actor[a] \in All
      /\ actor[a].shown => actor[a].alive
      /\ actor[a].handlers = IF actor[a].alive THEN <<Kind(a)>> ELSE <<>>
  BY DEF InputInv, ActorsOK, Holders
<1>2. Applied(InputNow, OnStack, AreaOf)
  BY DEF InputInv, StackOK
<1>3. ASSUME NEW x \in All, actor' = [actor EXCEPT ![a] = x],
             x.area \in Places[a], x.shown => x.alive,
             x.handlers = IF x.alive THEN <<Kind(a)>> ELSE <<>>,
             a = "status" => x.shown
      PROVE  ActorsOK' /\ actor'[a] = x /\ \A b \in Actors : b # a => actor'[b] = actor[b]
  <2>1. actor'[a] = x /\ \A b \in Actors : b # a => actor'[b] = actor[b]
    BY <1>1, <1>3
  <2>2. ASSUME NEW b \in Actors
        PROVE  /\ actor'[b].area \in Places[b]
               /\ actor'[b].shown => actor'[b].alive
               /\ actor'[b].handlers = IF actor'[b].alive THEN <<Kind(b)>> ELSE <<>>
    <3>1. CASE b = a BY <3>1, <1>3, <2>1
    <3>2. CASE b # a BY <3>2, <1>1, <2>1 DEF ActorsOK
    <3> QED BY <3>1, <3>2
  <2>3. actor'["status"].shown
    <3>1. CASE a = "status" BY <3>1, <1>3, <2>1
    <3>2. CASE a # "status" BY <3>2, <1>1, <2>1 DEF ActorsOK, Actors
    <3> QED BY <3>1, <3>2
  <2>4. actor' \in [Actors -> All]
    BY <1>1, <1>3
  <2> QED BY <2>1, <2>2, <2>3, <2>4 DEF ActorsOK
<1>4. OnStack \in SUBSET Holders /\ (a \in OnStack <=> actor[a].shown)
  BY OnStackIs
<1>5. CASE ShowActor(a)
  <2> DEFINE x == [actor[a] EXCEPT !.shown = TRUE]
             t == Emit(InputNow, a, "show", actor[a].area)
  <2>1. actor[a].alive /\ ~actor[a].shown /\ InputBecome(t) /\ actor' = [actor EXCEPT ![a] = x]
    BY <1>1, <1>5 DEF ShowActor
  <2>2. x \in All /\ x.area = actor[a].area /\ x.shown /\ x.alive /\ x.handlers = <<Kind(a)>>
    BY <1>1, <2>1
  <2> HIDE DEF x, All
  <2>3. ActorsOK' /\ actor'[a] = x /\ \A b \in Actors : b # a => actor'[b] = actor[b]
    BY <1>1, <1>3, <2>1, <2>2
  <2>4. Applied(t, OnStack \cup {a}, [AreaOf EXCEPT ![a] = RegionArea(a, actor'[a].area)])
    BY <1>1, <2>1, <2>2, <2>3, EmitIs
  <2> HIDE DEF t
  <2>5. StackOK'
    BY <2>1, <2>2, <2>3, <2>4, ActorStack
  <2> QED BY <2>3, <2>5 DEF InputInv
<1>6. CASE HideActor(a)
  <2> DEFINE x == [actor[a] EXCEPT !.shown = FALSE]
             t == Emit(InputNow, a, "hide", actor[a].area)
  <2>1. a # "status" /\ actor[a].shown /\ actor[a].alive /\ InputBecome(t) /\ actor' = [actor EXCEPT ![a] = x]
    BY <1>1, <1>6 DEF HideActor
  <2>2. x \in All /\ x.area = actor[a].area /\ ~x.shown /\ x.alive /\ x.handlers = <<Kind(a)>>
    BY <1>1, <2>1
  <2> HIDE DEF x, All
  <2>3. ActorsOK' /\ actor'[a] = x /\ \A b \in Actors : b # a => actor'[b] = actor[b]
    BY <1>1, <1>3, <2>1, <2>2
  <2>4. Applied(t, OnStack \ {a}, AreaOf)
    BY <1>1, <2>1, EmitIs
  <2> HIDE DEF t
  <2>5. StackOK'
    BY <2>1, <2>2, <2>3, <2>4, ActorStack
  <2> QED BY <2>3, <2>5 DEF InputInv
<1>7. CASE DestroyActor(a)
  <2> DEFINE x == NoActor(a)
             t == Emit(InputNow, a, "hide", actor[a].area)
  <2>1. a # "status" /\ actor[a].alive /\ InputBecome(t) /\ actor' = [actor EXCEPT ![a] = x]
    BY <1>7 DEF DestroyActor, WindowActors
  <2>2. x \in All /\ x.area \in Places[a] /\ ~x.shown /\ ~x.alive /\ x.handlers = <<>>
    <3>1. x.area \in Places[a] /\ x.area \in SUBSET Cells
      BY AreasOK
    <3> QED BY <3>1 DEF NoActor
  <2> HIDE DEF x, All
  <2>3. ActorsOK' /\ actor'[a] = x /\ \A b \in Actors : b # a => actor'[b] = actor[b]
    BY <1>1, <1>3, <2>1, <2>2
  <2>4. Applied(t, OnStack \ {a}, AreaOf)
    <3>1. CASE actor[a].shown
      BY <1>1, <2>1, <3>1, EmitIs
    <3>2. CASE ~actor[a].shown
      <4>1. t = InputNow /\ OnStack \ {a} = OnStack
        BY <1>1, <1>4, <2>1, <3>2, EmitIs
      <4> HIDE DEF t
      <4> QED BY <4>1, <1>2
    <3> QED BY <3>1, <3>2
  <2> HIDE DEF t
  <2>5. StackOK'
    BY <2>1, <2>2, <2>3, <2>4, ActorStack
  <2> QED BY <2>3, <2>5 DEF InputInv
<1>8. ASSUME NEW area \in Places[a], AllocateActor(a, area) PROVE InputInv'
  <2> DEFINE x == [actor[a] EXCEPT !.area = area]
             t == Emit(InputNow, a, "allocation", area)
  <2>1. actor[a].alive /\ InputBecome(t) /\ actor' = [actor EXCEPT ![a] = x]
    BY <1>1, <1>8 DEF AllocateActor
  <2>2. x \in All /\ x.area = area /\ x.shown = actor[a].shown /\ x.alive /\ x.handlers = <<Kind(a)>>
    <3>1. area \in SUBSET Cells
      BY AreasOK
    <3> QED BY <1>1, <2>1, <3>1
  <2>6. a = "status" => actor[a].shown
    BY <1>1 DEF ActorsOK
  <2> HIDE DEF x, All
  <2>3. ActorsOK' /\ actor'[a] = x /\ \A b \in Actors : b # a => actor'[b] = actor[b]
    BY <1>1, <1>3, <2>1, <2>2, <2>6
  <2>4. IF actor'[a].shown
        THEN Applied(t, OnStack \cup {a}, [AreaOf EXCEPT ![a] = RegionArea(a, actor'[a].area)])
        ELSE Applied(t, OnStack \ {a}, AreaOf)
    <3>1. CASE actor[a].shown
      <4>1. Applied(t, OnStack, [AreaOf EXCEPT ![a] = RegionArea(a, area)])
        BY <1>1, <2>1, <3>1, EmitIs
      <4>2. OnStack \cup {a} = OnStack
        BY <1>4, <3>1
      <4> HIDE DEF t
      <4> QED BY <2>2, <2>3, <3>1, <4>1, <4>2
    <3>2. CASE ~actor[a].shown
      <4>1. t = InputNow /\ OnStack \ {a} = OnStack
        BY <1>1, <1>4, <2>1, <3>2, EmitIs
      <4> HIDE DEF t
      <4> QED BY <4>1, <1>2, <2>2, <2>3, <3>2
    <3> QED BY <3>1, <3>2
  <2> HIDE DEF t
  <2>5. StackOK'
    BY <2>1, <2>3, <2>4, ActorStack
  <2> QED BY <2>3, <2>5 DEF InputInv
<1> QED BY <1>5, <1>6, <1>7, <1>8

LEMMA InputStart ==
  ASSUME ScreenAssumption, InputInit
  PROVE  InputInv
<1> DEFINE All == [alive : BOOLEAN, shown : BOOLEAN, area : SUBSET Cells,
                   handlers : {<<>>, <<"actor">>, <<"panel">>, <<"actor", "panel">>}]
           tr == Reg("tray", NoActor("tray").area)
           st == Reg("status", NoActor("status").area)
           q == <<tr, st>>
           ls == [l \in 0..2 |-> IF l < 2 THEN <<>> ELSE q]
<1>1. \A a \in Actors : NoActor(a).area \in Places[a] /\ NoActor(a).area \in SUBSET Cells
  BY AreasOK
<1>2. ActorsOK
  <2>1. ASSUME NEW a \in Actors
        PROVE  /\ actor[a] \in All /\ actor[a].area = NoActor(a).area
               /\ actor[a].shown = (a \in {"status", "tray"})
               /\ actor[a].alive = (a \notin WindowActors)
               /\ actor[a].handlers = IF actor[a].alive THEN <<"actor">> ELSE <<>>
    <3>1. CASE a \in WindowActors
      <4>1. actor[a] = NoActor(a) /\ a \notin {"status", "tray"}
        BY <3>1 DEF InputInit, WindowActors
      <4>2. actor[a] = [alive |-> FALSE, shown |-> FALSE, area |-> NoActor(a).area, handlers |-> <<>>]
        BY <4>1 DEF NoActor
      <4>3. (a \in {"status", "tray"}) = FALSE /\ (a \notin WindowActors) = FALSE
        BY <3>1, <4>1
      <4>4. /\ actor[a].alive = FALSE /\ actor[a].shown = FALSE
            /\ actor[a].area = NoActor(a).area /\ actor[a].handlers = <<>>
        BY <4>2
      <4>5. actor[a] \in All
        BY <4>2, <1>1
      <4> QED BY <4>3, <4>4, <4>5
    <3>2. CASE a \notin WindowActors
      <4>1. actor[a] = [NoActor(a) EXCEPT !.alive = TRUE, !.shown = a # "lowlight", !.handlers = <<"actor">>]
        BY <3>2 DEF InputInit
      <4>2. (a # "lowlight") = (a \in {"status", "tray"})
        BY <3>2 DEF Actors, WindowActors
      <4>3. actor[a] = [alive |-> TRUE, shown |-> a # "lowlight", area |-> NoActor(a).area, handlers |-> <<"actor">>]
        BY <4>1 DEF NoActor
      <4>4. (a \notin WindowActors) = TRUE
        BY <3>2
      <4>5. /\ actor[a].alive = TRUE /\ actor[a].shown = (a # "lowlight")
            /\ actor[a].area = NoActor(a).area /\ actor[a].handlers = <<"actor">>
        BY <4>3
      <4>6. actor[a] \in All
        <5>1. (a # "lowlight") \in BOOLEAN
          OBVIOUS
        <5> QED BY <5>1, <4>3, <1>1
      <4> QED BY <4>2, <4>4, <4>5, <4>6
    <3> QED BY <3>1, <3>2
  <2>2. actor \in [Actors -> All]
    <3> HIDE DEF All
    <3>1. DOMAIN actor = Actors /\ actor = [a \in Actors |-> actor[a]]
      BY DEF InputInit
    <3> QED BY <2>1, <3>1
  <2>3. actor["status"].shown
    BY <2>1 DEF Actors
  <2>4. ASSUME NEW a \in Actors
        PROVE  /\ actor[a].area \in Places[a]
               /\ actor[a].shown => actor[a].alive
               /\ actor[a].handlers = IF actor[a].alive THEN <<Kind(a)>> ELSE <<>>
    <3>1. actor[a].alive => Kind(a) = "actor"
      BY <2>1 DEF Kind, WindowActors
    <3>2. actor[a].shown => actor[a].alive
      BY <2>1 DEF WindowActors
    <3> QED BY <2>1, <3>1, <3>2, <1>1
  <2> QED BY <2>2, <2>3, <2>4 DEF ActorsOK
<1>3. OnStack = {"tray", "status"}
  <2>1. mir["bar"] = NoRegion
    BY DEF InputInit, Holders
  <2>2. \A a \in Actors : actor[a].shown <=> a \in {"tray", "status"}
    <3> SUFFICES ASSUME NEW a \in Actors PROVE actor[a].shown <=> a \in {"tray", "status"}
      OBVIOUS
    <3>1. CASE a \in WindowActors
      BY <3>1 DEF InputInit, WindowActors, NoActor
    <3>2. CASE a \notin WindowActors
      <4>1. actor[a].shown = (a # "lowlight")
        BY <3>2 DEF InputInit, NoActor
      <4> QED BY <4>1, <3>2 DEF Actors, WindowActors
    <3> QED BY <3>1, <3>2
  <2> QED BY <2>1, <2>2 DEF OnStack, Actors
<1>4. AreaOf["tray"] = NoActor("tray").area /\ AreaOf["status"] = NoActor("status").area
  BY DEF AreaOf, RegionArea, Holders, Actors, WindowActors, InputInit, NoActor
<1>5. tr \in Regions /\ st \in Regions /\ tr.id = <<"tray", 1>> /\ st.id = <<"status", 1>>
      /\ ~tr.inverse /\ ~st.inverse
      /\ tr.area = NoActor("tray").area /\ st.area = NoActor("status").area
  <2>1. "tray" \in Holders /\ "status" \in Holders
    BY DEF Holders, Actors
  <2>2. NoActor("tray").area \in SUBSET Cells /\ NoActor("status").area \in SUBSET Cells
    BY <1>1 DEF Actors
  <2>3. ~("tray" \in {"scim", "popup"}) /\ ~("status" \in {"scim", "popup"})
    OBVIOUS
  <2> QED BY <2>1, <2>2, <2>3, RegIs
<1>6. layers = ls
  <2>1. ("tray" \in {"scim", "popup"}) = FALSE /\ ("status" \in {"scim", "popup"}) = FALSE
    OBVIOUS
  <2>2. /\ tr = [id |-> <<"tray", 1>>, inverse |-> FALSE, area |-> NoActor("tray").area]
        /\ st = [id |-> <<"status", 1>>, inverse |-> FALSE, area |-> NoActor("status").area]
    BY <2>1 DEF Reg
  <2> HIDE DEF tr, st
  <2> QED BY <2>2 DEF InputInit
<1> HIDE DEF tr, st
<1>7. /\ q \in Seq(Regions) /\ Len(q) = 2 /\ q[1] = tr /\ q[2] = st
  BY <1>5
<1>8. Holds(q, {"tray", "status"}, AreaOf)
  <2>1. tr = Reg("tray", AreaOf["tray"]) /\ st = Reg("status", AreaOf["status"])
    BY <1>4 DEF tr, st
  <2>2. 1..Len(q) = {1, 2}
    BY <1>7
  <2>3. tr.id # st.id
    BY <1>5, IdsDiffer
  <2> HIDE DEF q
  <2> QED BY <1>7, <2>1, <2>2, <2>3 DEF Holds
<1>9. Holds(<<>>, {}, AreaOf)
  <2>1. <<>> \in Seq(Regions) /\ 1..Len(<<>>) = {}
    OBVIOUS
  <2> QED BY <2>1 DEF Holds
<1> HIDE DEF q
<1>10. ls \in [0..2 -> Seq(Regions)] /\ ls[0] = <<>> /\ ls[1] = <<>> /\ ls[2] = q
  BY <1>7
<1>11. shape = Top(ls) /\ shape \in SUBSET Cells
  <2>0. shape = tr.area \cup st.area /\ tr.area \in SUBSET Cells /\ st.area \in SUBSET Cells
    BY <1>1, <1>5 DEF InputInit, Actors
  <2>1. Flat(ls) = q
    <3>1. Flat(ls) = (<<>> \o <<>>) \o q
      BY <1>10 DEF Flat
    <3>2. <<>> \o <<>> = <<>> /\ <<>> \o q = q
      BY <1>7, EmptySeq, ConcatEmptySeq
    <3> QED BY <3>1, <3>2
  <2>2. DOMAIN q = {1, 2}
    BY <1>7, LenProperties
  <2>3. 1 + 1 .. 2 = {2} /\ 2 + 1 .. 2 = {}
    OBVIOUS
  <2>4. Top(ls) = {c \in Cells : \E i \in {1, 2} : /\ c \in q[i].area /\ ~q[i].inverse
                                   /\ \A j \in i + 1 .. 2 : c \in q[j].area => ~q[j].inverse}
    BY <2>1, <2>2, <1>7 DEF Top
  <2> QED BY <2>0, <2>3, <2>4, <1>5, <1>7
<1>12. /\ mir \in [Holders -> Ids \cup {NoRegion}]
       /\ \A h \in Holders : mir[h] = IF h \in {"tray", "status"} THEN <<h, 1>> ELSE NoRegion
  <2>1. \A h \in Holders : <<h, 1>> \in Ids
    BY DEF Ids
  <2> QED BY <2>1 DEF InputInit
<1> HIDE DEF ls
<1>13. /\ InputNow \in Stacks /\ InputNow.layers = ls /\ InputNow.shape = shape /\ InputNow.mir = mir
  BY <1>6, <1>10, <1>11, <1>12 DEF InputNow, Stacks
<1>14. ASSUME NEW l \in 0..2 PROVE Holds(ls[l], In(l, OnStack), AreaOf)
  <2>1. Layer("tray") = 2 /\ Layer("status") = 2
    BY DEF Layer
  <2>2. CASE l = 2
    <3>1. In(l, OnStack) = {"tray", "status"}
      BY <1>3, <2>1, <2>2 DEF In
    <3> QED BY <3>1, <1>8, <1>10, <2>2
  <2>3. CASE l # 2
    <3>1. In(l, OnStack) = {} /\ ls[l] = <<>>
      BY <1>3, <1>10, <2>1, <2>3 DEF In
    <3> QED BY <3>1, <1>9
  <2> QED BY <2>2, <2>3
<1>15. StackOK
  BY <1>3, <1>11, <1>12, <1>13, <1>14 DEF StackOK, Applied, Stack
<1> QED BY <1>2, <1>15 DEF InputInv

LEMMA InputStep ==
  ASSUME ScreenAssumption, ~Remap, InputInv, [InputNext]_inputVars
  PROVE  InputInv'
<1>1. CASE UNCHANGED inputVars
  <2>1. OnStack' = OnStack /\ AreaOf' = AreaOf /\ InputNow' = InputNow /\ actor' = actor
    BY <1>1 DEF inputVars, OnStack, AreaOf, InputNow
  <2> QED BY <2>1 DEF InputInv, ActorsOK, StackOK
<1>2. CASE ToolbarShown \/ ToolbarHidden \/ ToolbarResized
  BY <1>2, BarStep
<1>3. CASE StatusbarPlaced
  BY <1>3, PushStep DEF Actors
<1>4. CASE PanelPushed
  BY <1>4, PushStep DEF Actors
<1>5. ASSUME NEW a \in WindowActors, WindowPushed(a) \/ DestroyActor(a) PROVE InputInv'
  <2>1. a \in Actors
    BY DEF Actors, WindowActors
  <2> QED BY <1>5, <2>1, PushStep, SignalStep
<1>6. ASSUME NEW a \in Actors,
             ShowActor(a) \/ HideActor(a) \/ \E area \in Places[a] : AllocateActor(a, area)
      PROVE  InputInv'
  BY <1>6, SignalStep
<1> QED BY <1>1, <1>2, <1>3, <1>4, <1>5, <1>6 DEF InputNext

LEMMA InputInvIsType ==
  ASSUME InputInv
  PROVE  InputTypeOK
<1>1. InputNow \in Stacks
  BY DEF InputInv, StackOK, Applied, Stack
<1>2. layers \in [0..2 -> Seq(Regions)] /\ shape \in SUBSET Cells /\ mir \in [Holders -> Ids \cup {NoRegion}]
  BY <1>1 DEF InputNow, Stacks
<1> QED BY <1>2 DEF InputInv, ActorsOK, InputTypeOK

LEMMA StackIs ==
  ASSUME InputInv
  PROVE  /\ layers \in [0..2 -> Seq(Regions)]
         /\ \A l \in 0..2 : Holds(layers[l], In(l, OnStack), AreaOf)
         /\ \A h \in Holders : mir[h] = IF h \in OnStack THEN <<h, 1>> ELSE NoRegion
         /\ shape = Top(layers)
         /\ \A l \in 0..2 : \A i \in 1..Len(layers[l]) :
              \E h \in OnStack : /\ Layer(h) = l /\ layers[l][i] = Reg(h, AreaOf[h])
                                 /\ layers[l][i].id = <<h, 1>>
         /\ \A h \in OnStack : \E i \in 1..Len(layers[Layer(h)]) : layers[Layer(h)][i] = Reg(h, AreaOf[h])
<1>1. /\ layers \in [0..2 -> Seq(Regions)]
      /\ \A l \in 0..2 : Holds(layers[l], In(l, OnStack), AreaOf)
      /\ \A h \in Holders : mir[h] = IF h \in OnStack THEN <<h, 1>> ELSE NoRegion
      /\ shape = Top(layers)
  <2>1. InputNow.layers = layers /\ InputNow.mir = mir /\ InputNow.shape = shape
    BY DEF InputNow
  <2>2. layers \in [0..2 -> Seq(Regions)]
    BY InputInvIsType DEF InputTypeOK
  <2> QED BY <2>1, <2>2 DEF InputInv, StackOK, Applied, Stack
<1>2. ASSUME NEW l \in 0..2, NEW i \in 1..Len(layers[l])
      PROVE  \E h \in OnStack : /\ Layer(h) = l /\ layers[l][i] = Reg(h, AreaOf[h])
                                /\ layers[l][i].id = <<h, 1>>
  <2>1. PICK h \in In(l, OnStack) : layers[l][i] = Reg(h, AreaOf[h])
    BY <1>1 DEF Holds
  <2>2. Reg(h, AreaOf[h]).id = <<h, 1>>
    BY DEF Reg
  <2> QED BY <2>1, <2>2 DEF In
<1>3. ASSUME NEW h \in OnStack
      PROVE  \E i \in 1..Len(layers[Layer(h)]) : layers[Layer(h)][i] = Reg(h, AreaOf[h])
  <2>1. Layer(h) \in 0..2 /\ h \in In(Layer(h), OnStack)
    BY OnStackIs, LayerIs DEF In
  <2> QED BY <1>1, <2>1 DEF Holds
<1> QED BY <1>1, <1>2, <1>3

\* No two regions of the whole stack are the same holder's.
LEMMA FlatDistinct ==
  ASSUME InputInv, NEW i \in DOMAIN Flat(layers), NEW j \in DOMAIN Flat(layers),
         Flat(layers)[i].id = Flat(layers)[j].id
  PROVE  i = j
<1> DEFINE n == Len(layers[0])
           k == Len(layers[1])
           m == Len(layers[0]) + Len(layers[1])
           r == Len(layers[2])
           all == Flat(layers)
           N == Len(all)
<1>1. /\ n \in Nat /\ m \in Nat /\ n <= m /\ k \in Nat /\ r \in Nat /\ N \in Nat
      /\ N = m + r /\ m - n = k
      /\ DOMAIN all = 1..N
      /\ \A x \in 1..N : all[x] = IF x <= n THEN layers[0][x]
                                  ELSE IF x <= m THEN layers[1][x - n] ELSE layers[2][x - m]
  BY FlatIs, StackIs
<1> HIDE DEF n, k, m, r, all, N
<1>2. k = 0
  <2>1. ASSUME k # 0 PROVE FALSE
    <3>1. 1 \in 1..Len(layers[1]) /\ 1 \in 0..2
      BY <1>1, <2>1 DEF k
    <3>2. PICK h \in OnStack : Layer(h) = 1
      BY <3>1, StackIs
    <3> QED BY <3>2, OnStackIs, LayerIs
  <2> QED BY <2>1
<1>3. \A x \in 1..N : \/ x \in 1..n /\ all[x] = layers[0][x]
                      \/ ~(x <= n) /\ x - m \in 1..r /\ all[x] = layers[2][x - m]
  <2> SUFFICES ASSUME NEW x \in 1..N
               PROVE  \/ x \in 1..n /\ all[x] = layers[0][x]
                      \/ ~(x <= n) /\ x - m \in 1..r /\ all[x] = layers[2][x - m]
    OBVIOUS
  <2>1. CASE x <= n
    <3>1. x \in 1..n
      BY <2>1
    <3> QED BY <3>1, <2>1, <1>1
  <2>2. CASE ~(x <= n)
    <3>1. ~(x <= m) /\ x - m \in 1..r
      BY <2>2, <1>1, <1>2
    <3> QED BY <3>1, <2>2, <1>1
  <2> QED BY <2>1, <2>2
<1>4. /\ \A x, y \in 1..n : layers[0][x].id = layers[0][y].id => x = y
      /\ \A x, y \in 1..r : layers[2][x].id = layers[2][y].id => x = y
  <2>1. 0 \in 0..2 /\ 2 \in 0..2
    OBVIOUS
  <2> QED BY <2>1, StackIs DEF Holds, n, r
<1>5. \A x \in 1..n : \A y \in 1..r : layers[0][x].id # layers[2][y].id
  <2> SUFFICES ASSUME NEW x \in 1..n, NEW y \in 1..r, layers[0][x].id = layers[2][y].id PROVE FALSE
    OBVIOUS
  <2>1. 0 \in 0..2 /\ 2 \in 0..2 /\ x \in 1..Len(layers[0]) /\ y \in 1..Len(layers[2])
    BY DEF n, r
  <2>2. PICK h \in OnStack : Layer(h) = 0 /\ layers[0][x].id = <<h, 1>>
    BY <2>1, StackIs
  <2>3. PICK g \in OnStack : Layer(g) = 2 /\ layers[2][y].id = <<g, 1>>
    BY <2>1, StackIs
  <2>5. <<h, 1>> = <<g, 1>>
    BY <2>2, <2>3
  <2>4. h = g
    BY <2>5, IdsDiffer
  <2> QED BY <2>2, <2>3, <2>4
<1>6. i \in 1..N /\ j \in 1..N /\ all[i].id = all[j].id
  BY <1>1 DEF all
<1>7. CASE i \in 1..n /\ all[i] = layers[0][i] /\ j \in 1..n /\ all[j] = layers[0][j]
  BY <1>4, <1>6, <1>7
<1>8. CASE /\ i - m \in 1..r /\ all[i] = layers[2][i - m]
           /\ j - m \in 1..r /\ all[j] = layers[2][j - m]
  <2>1. i - m = j - m
    BY <1>4, <1>6, <1>8
  <2> QED BY <2>1, <1>1, <1>6
<1>9. ASSUME NEW x \in 1..N, NEW y \in 1..N, all[x].id = all[y].id,
             x \in 1..n /\ all[x] = layers[0][x],
             y - m \in 1..r /\ all[y] = layers[2][y - m]
      PROVE  FALSE
  BY <1>5, <1>9
<1> QED BY <1>3, <1>6, <1>7, <1>8, <1>9

LEMMA InvOneHolder ==
  ASSUME InputInv
  PROVE  OneHolder
<1>1. \A i, j \in DOMAIN Flat(layers) : Flat(layers)[i].id = Flat(layers)[j].id => i = j
  BY FlatDistinct
<1>2. ASSUME NEW h \in Holders, NEW g \in Holders, mir[h] = mir[g], mir[h] # NoRegion PROVE h = g
  <2>1. mir[h] = <<h, 1>> /\ mir[g] = <<g, 1>>
    BY <1>2, StackIs
  <2> QED BY <2>1, <1>2, IdsDiffer
<1>3. ASSUME NEW h \in Holders, mir[h] # NoRegion
      PROVE  \E i \in DOMAIN Flat(layers) : Flat(layers)[i].id = mir[h]
  <2>1. h \in OnStack /\ mir[h] = <<h, 1>> /\ Layer(h) \in 0..2
    BY <1>3, StackIs, LayerIs
  <2>2. PICK j \in 1..Len(layers[Layer(h)]) : layers[Layer(h)][j] = Reg(h, AreaOf[h])
    BY <2>1, StackIs
  <2>3. Reg(h, AreaOf[h]).id = <<h, 1>>
    BY DEF Reg
  <2>5. layers \in [0..2 -> Seq(Regions)]
    BY StackIs
  <2>6. \A l \in 0..2 : \A x \in 1..Len(layers[l]) :
          \E i \in DOMAIN Flat(layers) : Flat(layers)[i] = layers[l][x]
    BY <2>5, FlatElements
  <2>4. PICK i \in DOMAIN Flat(layers) : Flat(layers)[i] = layers[Layer(h)][j]
    BY <2>1, <2>6
  <2> QED BY <2>1, <2>2, <2>3, <2>4
<1>4. ASSUME NEW i \in DOMAIN Flat(layers)
      PROVE  \E h \in Holders : Flat(layers)[i].id = mir[h] /\ mir[h] # NoRegion
  <2>1. PICK l \in 0..2 : \E j \in 1..Len(layers[l]) : Flat(layers)[i] = layers[l][j]
    BY FlatElements, StackIs
  <2>2. PICK j \in 1..Len(layers[l]) : Flat(layers)[i] = layers[l][j]
    BY <2>1
  <2>3. PICK h \in OnStack : layers[l][j].id = <<h, 1>>
    BY StackIs
  <2>4. h \in Holders /\ mir[h] = <<h, 1>>
    BY OnStackIs, StackIs
  <2> QED BY <2>2, <2>3, <2>4, IdsDiffer
<1>5. {mir[h] : h \in Holders} \ {NoRegion} = {Flat(layers)[i].id : i \in DOMAIN Flat(layers)}
  <2> DEFINE F == Flat(layers)
  <2>1. \A h \in Holders : mir[h] # NoRegion => \E i \in DOMAIN F : F[i].id = mir[h]
    BY <1>3
  <2>2. \A i \in DOMAIN F : \E h \in Holders : F[i].id = mir[h] /\ mir[h] # NoRegion
    BY <1>4
  <2> HIDE DEF F
  <2>3. {mir[h] : h \in Holders} \ {NoRegion} = {F[i].id : i \in DOMAIN F}
    BY <2>1, <2>2
  <2> QED BY <2>3 DEF F
<1> QED BY <1>1, <1>2, <1>5 DEF OneHolder

LEMMA InvFollows ==
  ASSUME InputInv
  PROVE  RegionFollowsActor
<1> SUFFICES ASSUME NEW a \in Actors
             PROVE  /\ mir[a] # NoRegion <=> actor[a].shown
                    /\ \A l \in 0..2 : \A i \in 1..Len(layers[l]) :
                         layers[l][i].id = mir[a] =>
                           /\ l = Layer(a)
                           /\ layers[l][i].inverse = (a \in {"scim", "popup"})
                           /\ layers[l][i].area = IF a = "panel" THEN Beneath[actor[a].area] ELSE actor[a].area
  <2>1. \A l \in 0..2 : DOMAIN layers[l] = 1..Len(layers[l])
    <3>1. \A l \in 0..2 : layers[l] \in Seq(Regions)
      BY StackIs
    <3> QED BY <3>1, LenProperties
  <2> QED BY <2>1 DEF RegionFollowsActor
<1>0. a \in Holders /\ a # "bar"
  BY DEF Actors, Holders
<1>1. mir[a] # NoRegion <=> actor[a].shown
  <2>1. mir[a] = IF a \in OnStack THEN <<a, 1>> ELSE NoRegion
    BY <1>0, StackIs
  <2>2. a \in OnStack <=> actor[a].shown
    BY OnStackIs
  <2> QED BY <2>1, <2>2, IdsDiffer
<1>2. ASSUME NEW l \in 0..2, NEW i \in 1..Len(layers[l]), layers[l][i].id = mir[a]
      PROVE  /\ l = Layer(a)
             /\ layers[l][i].inverse = (a \in {"scim", "popup"})
             /\ layers[l][i].area = IF a = "panel" THEN Beneath[actor[a].area] ELSE actor[a].area
  <2>1. PICK h \in OnStack : /\ Layer(h) = l /\ layers[l][i] = Reg(h, AreaOf[h])
                             /\ layers[l][i].id = <<h, 1>>
    BY StackIs
  <2>2. mir[a] = <<a, 1>>
    BY <1>0, <1>2, <2>1, StackIs, IdsDiffer
  <2>3. h = a
    BY <1>2, <2>1, <2>2, IdsDiffer
  <2>4. /\ layers[l][i].inverse = (a \in {"scim", "popup"})
        /\ layers[l][i].area = AreaOf[a]
    BY <2>1, <2>3 DEF Reg
  <2>5. AreaOf[a] = IF a = "panel" THEN Beneath[actor[a].area] ELSE actor[a].area
    BY <1>0 DEF AreaOf, RegionArea
  <2> QED BY <2>1, <2>3, <2>4, <2>5
<1> QED BY <1>1, <1>2

\* Of what the tray covers, nothing above it in the stack takes away but the input method's
\* hole: panels' holes are in a layer below.
LEMMA InvUrgent ==
  ASSUME ScreenAssumption, InputInv
  PROVE  UrgentGetsInput
<1> DEFINE hole == IF actor["scim"].shown THEN actor["scim"].area ELSE {}
<1> SUFFICES ASSUME actor["tray"].shown, NEW c \in actor["tray"].area \ hole
             PROVE  c \in shape
  BY DEF UrgentGetsInput
<1> DEFINE n == Len(layers[0])
           k == Len(layers[1])
           m == Len(layers[0]) + Len(layers[1])
           r == Len(layers[2])
           all == Flat(layers)
           N == Len(all)
<1>1. /\ n \in Nat /\ m \in Nat /\ n <= m /\ k \in Nat /\ r \in Nat /\ N \in Nat
      /\ N = m + r /\ m - n = k
      /\ DOMAIN all = 1..N
      /\ \A x \in 1..N : all[x] = IF x <= n THEN layers[0][x]
                                  ELSE IF x <= m THEN layers[1][x - n] ELSE layers[2][x - m]
  BY FlatIs, StackIs
<1> HIDE DEF n, k, m, r, all, N
<1>2. "tray" \in OnStack /\ Layer("tray") = 2 /\ AreaOf["tray"] = actor["tray"].area
  BY OnStackIs DEF Layer, AreaOf, RegionArea, Holders, Actors
<1>3. PICK j \in 1..r : layers[2][j] = Reg("tray", AreaOf["tray"])
  BY <1>2, StackIs DEF r
<1>4. layers[2][j].area = actor["tray"].area /\ ~layers[2][j].inverse
  <2>1. ~("tray" \in {"scim", "popup"})
    OBVIOUS
  <2>2. \A x : Reg("tray", x).area = x /\ Reg("tray", x).inverse = ("tray" \in {"scim", "popup"})
    BY DEF Reg
  <2>3. /\ layers[2][j].area = AreaOf["tray"]
        /\ layers[2][j].inverse = ("tray" \in {"scim", "popup"})
    BY <1>3, <2>2
  <2> QED BY <1>2, <2>1, <2>3
<1>5. ASSUME NEW x \in 1..r, c \in layers[2][x].area PROVE ~layers[2][x].inverse
  <2>0. 2 \in 0..2 /\ x \in 1..Len(layers[2])
    BY DEF r
  <2>1. PICK h \in OnStack : Layer(h) = 2 /\ layers[2][x] = Reg(h, AreaOf[h])
    BY <2>0, StackIs
  <2>2. layers[2][x].area = AreaOf[h] /\ layers[2][x].inverse = (h \in {"scim", "popup"})
    BY <2>1 DEF Reg
  <2>3. h # "popup"
    BY <2>1 DEF Layer
  <2>4. h # "scim"
    <3>1. ASSUME h = "scim" PROVE FALSE
      <4>1. actor["scim"].shown /\ AreaOf["scim"] = actor["scim"].area
        BY <3>1, OnStackIs DEF AreaOf, RegionArea, Holders, Actors
      <4> QED BY <4>1, <3>1, <1>5, <2>2
    <3> QED BY <3>1
  <2> QED BY <2>2, <2>3, <2>4
<1>6. c \in Cells
  <2>1. actor["tray"].area \in SUBSET Cells
    BY AreasOK DEF InputInv, ActorsOK, Actors
  <2> QED BY <2>1
<1>7. \A x \in (m + 1)..N : x - m \in 1..r /\ all[x] = layers[2][x - m]
  <2> SUFFICES ASSUME NEW x \in (m + 1)..N PROVE x - m \in 1..r /\ all[x] = layers[2][x - m]
    OBVIOUS
  <2>1. x \in 1..N /\ ~(x <= n) /\ ~(x <= m) /\ x - m \in 1..r
    BY <1>1
  <2> QED BY <2>1, <1>1
<1>8. m + j \in (m + 1)..N /\ m + j \in 1..N /\ (m + j) - m = j
  BY <1>1
<1>9. \A x \in (m + j) + 1 .. N : x \in (m + 1)..N
  BY <1>1
<1>10. c \in all[m + j].area /\ ~all[m + j].inverse
  BY <1>4, <1>7, <1>8
<1>11. \A x \in (m + j) + 1 .. N : c \in all[x].area => ~all[x].inverse
  BY <1>5, <1>7, <1>9
<1>12. c \in Top(layers)
  BY <1>1, <1>6, <1>8, <1>10, <1>11 DEF Top, all, N
<1> QED BY <1>12, StackIs

(***************************************************************************)
(* The theorems.  Remap is the one use of the regions that goes wrong: a   *)
(* panel's window that is pushed as if it were a window of the panel's.    *)
(***************************************************************************)
LEMMA InputKept ==
  ASSUME ~Remap
  PROVE  InputSpec => []InputInv
<1>1. InputInit => InputInv
  BY InputStart, ScreenAssumption
<1>2. InputInv /\ [InputNext]_inputVars => InputInv'
  BY InputStep, ScreenAssumption
<1> QED BY <1>1, <1>2, PTL DEF InputSpec

\* The type invariant: what is on the stack are regions, and what holders have are their ids.
THEOREM InputTypeCorrect ==
  ASSUME ~Remap
  PROVE  InputSpec => []InputTypeOK
<1>1. InputInv => InputTypeOK
  BY InputInvIsType
<1> QED BY <1>1, InputKept, PTL

\* The input shape is what the stack says, each region has one holder and goes where it
\* goes, and nothing but an input method's window takes a click from an urgent message.
THEOREM InputGoesRight ==
  ASSUME ~Remap
  PROVE  InputSpec => []InputIsRight
<1>1. InputInv => InputIsRight
  <2>1. InputInv => ShapeIsStack
    BY StackIs DEF ShapeIsStack, Top
  <2> QED BY <2>1, InvOneHolder, InvFollows, InvUrgent, ScreenAssumption DEF InputIsRight
<1> QED BY <1>1, InputKept, PTL
=============================================================================
