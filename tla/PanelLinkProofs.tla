-------------------------- MODULE PanelLinkProofs --------------------------
(***************************************************************************)
(* Theorems about PanelLink, for any number of starts, restarts, clicks    *)
(* and faults: type correctness, the slot's exclusion of requests and      *)
(* panels, the safety part of the refinement of PanelSlot, that the        *)
(* toolbar keeps track of its objects and keeps a panel that lives, and    *)
(* that a link at rest has the panel that runs in its slot.                *)
(***************************************************************************)
EXTENDS PanelLink, SequenceTheorems, FiniteSetTheorems, TLAPS

-----------------------------------------------------------------------------
LEMMA MessagesGrow ==
  ASSUME NEW n \in Nat, NEW m \in Nat, n <= m
  PROVE  /\ Seq(MessagesTo(n)) \subseteq Seq(MessagesTo(m))
         /\ Seq(CallsFor(n)) \subseteq Seq(CallsFor(m))
<1>1. MessagesTo(n) \subseteq MessagesTo(m)
  BY DEF MessagesTo
<1>2. CallsFor(n) \subseteq CallsFor(m)
  BY DEF CallsFor
<1>. QED  BY <1>1, <1>2, SeqMonotonic, Zenon

LEMMA DeliverType ==
  ASSUME NEW n \in Nat, wire \in Seq(MessagesTo(n)),
         NEW ms \in Seq(MessagesTo(n)), Deliver(ms)
  PROVE  wire' \in Seq(MessagesTo(n))
BY ConcatProperties DEF Deliver

LEMMA UnansweredType ==
  ASSUME NEW n \in Nat, NEW cs \in Seq(CallsFor(n))
  PROVE  Unanswered(cs) \in Seq(MessagesTo(n))
<1>. DEFINE ks == {cs[i].obj : i \in {j \in 1..Len(cs) : cs[j].op = "InitPanel"}} \ {0}
<1>1. ks \subseteq 1..n
  <2>1. \A i \in 1..Len(cs) : cs[i].obj \in 0..n
    <3>1. \A i \in 1..Len(cs) : cs[i] \in CallsFor(n)
      BY ElementOfSeq
    <3>. QED  BY <3>1 DEF CallsFor
  <2>. QED  BY <2>1
<1>2. Message("error", ks, 0) \in MessagesTo(n)
  BY <1>1 DEF Message, MessagesTo
<1>. QED  BY <1>2 DEF Unanswered

LEMMA SendType ==
  ASSUME NEW n \in Nat, calls \in Seq(CallsFor(n)), NEW cs \in Seq(CallsFor(n)),
         proc \in {"down", "starting", "up"}, Send(cs)
  PROVE  /\ calls' \in Seq(CallsFor(n))
         /\ proc' \in {"down", "starting", "up"}
<1>1. calls' \in Seq(CallsFor(n))
  BY ConcatProperties DEF Send
<1>2. proc' \in {"down", "starting", "up"}
  BY DEF Send, Activate
<1>. QED  BY <1>1, <1>2

\* A new object gets the next index; its InitPanel names it.
LEMMA HandleNameType ==
  ASSUME NEW os \in Seq(Objects), NEW ps \in Nat,
         proc \in {"down", "starting", "up"},
         calls \in Seq(CallsFor(Len(os))), HandleName(os, ps)
  PROVE  /\ objs' \in Seq(Objects)
         /\ Len(objs') = Len(os) + 1
         /\ pending' \in Nat
         /\ calls' \in Seq(CallsFor(Len(os) + 1))
         /\ proc' \in {"down", "starting", "up"}
<1>1. NewObject \in Objects
  BY DEF NewObject, Objects
<1>2. objs' \in Seq(Objects) /\ Len(objs') = Len(os) + 1
  BY <1>1, AppendProperties DEF HandleName
<1>3. Len(os) \in Nat
  BY LenProperties
<1>4. calls \in Seq(CallsFor(Len(os) + 1))
  BY <1>3, MessagesGrow
<1>5. <<Call("InitPanel", Len(os) + 1)>> \in Seq(CallsFor(Len(os) + 1))
  BY <1>3 DEF Call, CallsFor
<1>6. Send(<<Call("InitPanel", Len(os) + 1)>>)
  BY DEF HandleName
<1>7. calls' \in Seq(CallsFor(Len(os) + 1))
  BY <1>4, <1>5, <1>6, ConcatProperties DEF Send
<1>9. proc' \in {"down", "starting", "up"}
  BY <1>6 DEF Send, Activate
<1>8. pending' \in Nat
  BY DEF HandleName
<1>. QED  BY <1>2, <1>7, <1>8, <1>9

LEMMA UnlistType == ASSUME TypeOK, NEW n \in Nat PROVE Unlist(n) \in Nat
BY DEF TypeOK, Unlist

LEMMA CardinalityType ==
  ASSUME NEW n \in Nat, NEW ks \in SUBSET (1..n)
  PROVE  Cardinality(ks) \in Nat /\ (ks # {} => Cardinality(ks) >= 1)
<1>1. IsFiniteSet(1..n)
  BY FS_Interval
<1>2. IsFiniteSet(ks)
  BY <1>1, FS_Subset
<1>3. Cardinality(ks) \in Nat
  BY <1>2, FS_CardinalityType
<1>4. Cardinality(ks) = 0 <=> ks = {}
  BY <1>2, FS_EmptySet
<1>5. ks # {} => Cardinality(ks) >= 1
  <2>1. \A c \in Nat : c # 0 => c >= 1
    OBVIOUS
  <2>. QED  BY <2>1, <1>3, <1>4, Zenon
<1>. QED  BY <1>3, <1>5

LEMMA AppendPanelsType ==
  ASSUME TypeOK,
         NEW os \in Seq(Objects), Len(os) = Len(objs),
         NEW ks \in SUBSET (1..Len(os)), AppendPanels(os, ks)
  PROVE  /\ objs' \in Seq(Objects)
         /\ Len(objs') = Len(objs)
         /\ panel' \in 0..Len(objs)
         /\ pending' \in Nat
         /\ calls' \in Seq(CallsFor(Len(objs)))
         /\ proc' \in {"down", "starting", "up"}
         /\ tpReady' \in BOOLEAN /\ toggled' \in BOOLEAN /\ pinged' \in BOOLEAN
         /\ failed' \in BOOLEAN /\ stub' \in BOOLEAN
<1>. Len(os) \in Nat /\ \A k \in 1..Len(os) : os[k] \in Objects
  BY LenProperties, ElementOfSeq
<1>1. CASE ks = {}
  BY <1>1 DEF AppendPanels, PanelReady, TypeOK, tpVars
<1>2. CASE ks # {} /\ ~listed
  <2>1. Unlist(Cardinality(ks)) \in Nat
    BY UnlistType, CardinalityType
  <2>. QED  BY <1>2, <2>1 DEF AppendPanels, PanelReady, TypeOK, tpVars
<1>3. CASE ks # {} /\ listed
  <2>. DEFINE ns == [k \in 1..Len(os) |->
                      IF k \in ks THEN [os[k] EXCEPT !.fresh = FALSE] ELSE os[k]]
  <2>1. objs' = ns
    BY <1>3 DEF AppendPanels, PanelReady
  <2>2. \A k \in 1..Len(os) : ns[k] \in Objects
    BY DEF Objects
  <2>3. ns \in Seq(Objects) /\ Len(ns) = Len(os)
    BY <2>2
  <2>4. panel' \in 0..Len(objs)
    BY <1>3 DEF AppendPanels, PanelReady
  <2>5. pending' \in Nat
    <3>. DEFINE c == Cardinality(ks)
    <3>0. c \in Nat /\ c >= 1
      BY <1>3, CardinalityType
    <3>1. 2 * c - 1 \in Nat /\ 2 * c \in Nat
      <4>. HIDE DEF c
      <4>. QED  BY <3>0
    <3>2. /\ Unlist(2 * Cardinality(ks) - 1) \in Nat
          /\ Unlist(2 * Cardinality(ks)) \in Nat
      BY <3>1, UnlistType
    <3>. QED  BY <1>3, <3>2 DEF AppendPanels, PanelReady
  <2>6. PICK cs \in {<<Call("Show", 0)>>, <<>>} : Send(cs)
    BY <1>3 DEF AppendPanels, PanelReady
  <2>7. /\ calls' \in Seq(CallsFor(Len(objs)))
        /\ proc' \in {"down", "starting", "up"}
    <3>1. <<Call("Show", 0)>> \in Seq(CallsFor(Len(objs)))
      BY DEF Call, CallsFor
    <3>2. <<>> \in Seq(CallsFor(Len(objs)))
      OBVIOUS
    <3>3. cs \in Seq(CallsFor(Len(objs)))
      BY <3>1, <3>2, Zenon
    <3>. QED  BY <2>6, <3>3, SendType DEF TypeOK
  <2>8. /\ tpReady' \in BOOLEAN /\ toggled' \in BOOLEAN /\ pinged' \in BOOLEAN
        /\ failed' \in BOOLEAN /\ stub' \in BOOLEAN
    BY <1>3 DEF AppendPanels, PanelReady, TypeOK
  <2>. QED  BY <2>1, <2>3, <2>4, <2>5, <2>7, <2>8
<1>. QED  BY <1>1, <1>2, <1>3

LEMMA DestroyType ==
  ASSUME TypeOK, NEW ks \in SUBSET (1..Len(objs)), Destroy(ks)
  PROVE  /\ objs' \in Seq(Objects)
         /\ Len(objs') = Len(objs)
         /\ pending' \in Nat
         /\ panel' \in 0..Len(objs)
<1>. DEFINE os == [k \in 1..Len(objs) |->
                    IF k \in ks THEN [objs[k] EXCEPT !.alive = FALSE] ELSE objs[k]]
<1>1. \A k \in 1..Len(objs) : os[k] \in Objects
  <2>1. \A k \in 1..Len(objs) : objs[k] \in Objects
    BY ElementOfSeq DEF TypeOK
  <2>. QED  BY <2>1 DEF Objects
<1>2. Len(objs) \in Nat
  BY LenProperties DEF TypeOK
<1>3. objs' \in Seq(Objects) /\ Len(objs') = Len(objs)
  <2>1. objs' = [k \in 1..Len(objs) |-> os[k]]
    BY DEF Destroy
  <2>. HIDE DEF os
  <2>2. /\ [k \in 1..Len(objs) |-> os[k]] \in Seq(Objects)
        /\ Len([k \in 1..Len(objs) |-> os[k]]) = Len(objs)
    BY <1>1, <1>2
  <2>. QED  BY <2>1, <2>2
<1>4. Unlist(Cardinality(ks)) \in Nat
  BY <1>2, CardinalityType, UnlistType
<1>5. pending' \in Nat
  BY <1>4 DEF Destroy, TypeOK
<1>6. panel' \in 0..Len(objs)
  BY <1>2 DEF Destroy, TypeOK
<1>. QED  BY <1>3, <1>5, <1>6

-----------------------------------------------------------------------------
LEMMA TypeInit == Init => TypeOK
<1> SUFFICES ASSUME Init PROVE TypeOK
  OBVIOUS
<1>1. Len(<<>>) = 0 /\ \A S : <<>> \in Seq(S)
  BY EmptySeq
<1>2. Len(objs) = 0 /\ objs \in Seq(Objects)
      /\ calls \in Seq(CallsFor(Len(objs))) /\ wire \in Seq(MessagesTo(Len(objs)))
  BY <1>1, Zenon DEF Init
<1>3. panel \in 0..Len(objs)
  BY <1>2 DEF Init
<1>. QED  BY <1>2, <1>3 DEF Init, TypeOK

LEMMA TypeStep == TypeOK /\ [Next]_vars => TypeOK'
<1> SUFFICES ASSUME TypeOK, [Next]_vars PROVE TypeOK'
  OBVIOUS
<1>. USE DEF TypeOK
<1>n. Len(objs) \in Nat
  BY LenProperties
<1>m. \A kind \in {"names", "owner", "gone", "ready"}, i \in Nat :
        <<Message(kind, {}, i)>> \in Seq(MessagesTo(Len(objs)))
  BY DEF Message, MessagesTo
<1>h. wire # <<>> => /\ Head(wire) \in MessagesTo(Len(objs))
                     /\ Tail(wire) \in Seq(MessagesTo(Len(objs)))
  BY HeadTailProperties
<1>c. calls # <<>> => /\ Head(calls) \in CallsFor(Len(objs))
                      /\ Tail(calls) \in Seq(CallsFor(Len(objs)))
  BY HeadTailProperties
<1>o. \A k \in 1..Len(objs) : objs[k] \in Objects
  BY ElementOfSeq
<1>p. <<Call("Ping", 0)>> \in Seq(CallsFor(Len(objs)))
      /\ <<Call("Show", 0)>> \in Seq(CallsFor(Len(objs)))
      /\ <<Call("Unload", 0)>> \in Seq(CallsFor(Len(objs)))
      /\ <<>> \in Seq(CallsFor(Len(objs)))
  BY DEF Call, CallsFor
<1>1. CASE StartProcess
  BY <1>1 DEF StartProcess, tpVars
<1>2. CASE AcquireName
  <2>1. <<Message("owner", {}, inc + 1)>> \in Seq(MessagesTo(Len(objs)))
    BY <1>m
  <2>2. wire' \in Seq(MessagesTo(Len(objs)))
    BY <1>2, <1>n, <2>1, DeliverType DEF AcquireName
  <2>3. inc' \in Nat /\ proc' \in {"down", "starting", "up"}
    BY <1>2 DEF AcquireName
  <2>4. emitted' \in BOOLEAN /\ known' \in BOOLEAN
    BY <1>2 DEF AcquireName
  <2>5. UNCHANGED <<calls, phase, runs, objs, pending, listed, kept, tpVars, faults>>
    BY <1>2 DEF AcquireName
  <2>. QED  BY <2>2, <2>3, <2>4, <2>5 DEF tpVars
<1>3. CASE ActivationFails
  <2>1. Unanswered(calls) \in Seq(MessagesTo(Len(objs)))
    BY <1>n, UnansweredType
  <2>2. wire' \in Seq(MessagesTo(Len(objs)))
    BY <1>3, <1>n, <2>1, DeliverType DEF ActivationFails
  <2>. QED  BY <1>3, <2>2, <1>p DEF ActivationFails, tpVars
<1>4. CASE EmitReady
  <2>1. <<Message("ready", {}, inc)>> \in Seq(MessagesTo(Len(objs)))
    BY <1>m
  <2>2. wire' \in Seq(MessagesTo(Len(objs)))
    BY <1>4, <1>n, <2>1, DeliverType DEF EmitReady
  <2>. QED  BY <1>4, <2>2 DEF EmitReady, tpVars
<1>5. CASE InitPanel
  <2>. DEFINE k == Head(calls).obj
  <2>1. k \in 0..Len(objs)
    BY <1>5, <1>c DEF InitPanel, CallsFor
  <2>2. <<Message("error", {k} \ {0}, 0)>> \in Seq(MessagesTo(Len(objs)))
    BY <2>1, <1>n DEF Message, MessagesTo
  <2>3. k # 0 => <<Message("reply", {k}, inc)>> \in Seq(MessagesTo(Len(objs)))
    BY <2>1, <1>n DEF Message, MessagesTo
  <2>4. <<Message("ready", {}, inc)>> \in Seq(MessagesTo(Len(objs)))
    BY <1>m
  <2>. DEFINE reply == IF k = 0 THEN <<>> ELSE <<Message("reply", {k}, inc)>>
  <2>5. Announcement \o reply \in Seq(MessagesTo(Len(objs)))
    <3>1. /\ reply \in Seq(MessagesTo(Len(objs)))
          /\ Announcement \in Seq(MessagesTo(Len(objs)))
      BY <2>3, <2>4 DEF Announcement
    <3>. QED  BY <3>1, ConcatProperties
  <2>6. Deliver(Announcement \o reply) \/ Deliver(<<Message("error", {k} \ {0}, 0)>>)
    BY <1>5 DEF InitPanel
  <2>7. wire' \in Seq(MessagesTo(Len(objs)))
    BY <2>2, <2>5, <2>6, <1>n, DeliverType
  <2>8. calls' \in Seq(CallsFor(Len(objs)))
    BY <1>5, <1>c DEF InitPanel
  <2>9. faults' \in Nat
    <3>1. faults' = faults \/ faults' = faults + 1
      BY <1>5 DEF InitPanel
    <3>. QED  BY <3>1
  <2>10. known' \in BOOLEAN
    <3>1. known' = (known \/ k # 0)
      BY <1>5 DEF InitPanel
    <3>. QED  BY <3>1, Zenon
  <2>. QED  BY <1>5, <2>7, <2>8, <2>9, <2>10 DEF InitPanel, tpVars
<1>6. CASE OtherCall
  BY <1>6, <1>c DEF OtherCall, procVars, tpVars
<1>7. CASE Die
  <2>1. Unanswered(calls) \in Seq(MessagesTo(Len(objs)))
    BY <1>n, UnansweredType
  <2>2. calls # <<>> => Unanswered(Tail(calls)) \in Seq(MessagesTo(Len(objs)))
    BY <1>n, <1>c, UnansweredType
  <2>3. <<Message("gone", {}, inc)>> \in Seq(MessagesTo(Len(objs)))
    BY <1>m
  <2>4. PICK ms \in Seq(MessagesTo(Len(objs))) : Deliver(ms)
    BY <1>7, <2>1, <2>2, <2>3, ConcatProperties DEF Die
  <2>5. wire' \in Seq(MessagesTo(Len(objs)))
    BY <1>n, <2>4, DeliverType
  <2>. QED  BY <1>7, <2>5, <1>p DEF Die, Exit, tpVars
<1>8. CASE StartToolbar
  <2>1. wire' \in Seq(MessagesTo(Len(objs)))
    BY <1>8, <1>m DEF StartToolbar
  <2>. QED  BY <1>8, <2>1 DEF StartToolbar, procVars, tpVars
<1>9. CASE ToolbarDies
  <2>1. Len(<<>>) = 0 /\ \A S : <<>> \in Seq(S)
    BY EmptySeq
  <2>2. calls' \in Seq(CallsFor(0))
    <3>. DEFINE cs == [i \in 1..Len(calls) |-> [calls[i] EXCEPT !.obj = 0]]
    <3>1. \A i \in 1..Len(calls) : calls[i] \in CallsFor(Len(objs))
      BY ElementOfSeq
    <3>2. \A i \in 1..Len(calls) : cs[i] \in CallsFor(0)
      <4> SUFFICES ASSUME NEW i \in 1..Len(calls) PROVE cs[i] \in CallsFor(0)
        OBVIOUS
      <4>1. calls[i] \in CallsFor(Len(objs)) /\ cs[i] = [calls[i] EXCEPT !.obj = 0]
        BY <3>1
      <4>2. cs[i] = [op |-> calls[i].op, obj |-> 0]
        BY <4>1 DEF CallsFor
      <4>. QED  BY <4>1, <4>2 DEF CallsFor
    <3>3. Len(calls) \in Nat
      BY LenProperties
    <3>4. cs \in Seq(CallsFor(0))
      BY <3>2, <3>3
    <3>. QED  BY <1>9, <3>4 DEF ToolbarDies
  <2>3. /\ Len(objs') = 0 /\ objs' \in Seq(Objects)
        /\ wire' \in Seq(MessagesTo(Len(objs')))
        /\ calls' \in Seq(CallsFor(Len(objs')))
    BY <1>9, <2>1, <2>2, Zenon DEF ToolbarDies
  <2>4. panel' \in 0..Len(objs')
    BY <1>9, <2>3 DEF ToolbarDies
  <2>5. UNCHANGED <<proc, inc, emitted, runs, faults>>
    BY <1>9 DEF ToolbarDies
  <2>6. /\ known' \in BOOLEAN /\ phase' \in {"down", "listing", "connected"}
        /\ pending' \in Nat /\ listed' \in BOOLEAN /\ kept' \in BOOLEAN
        /\ tpReady' \in BOOLEAN /\ toggled' \in BOOLEAN /\ pinged' \in BOOLEAN
        /\ failed' \in BOOLEAN /\ stub' \in BOOLEAN
    BY <1>9 DEF ToolbarDies
  <2>. QED  BY <2>3, <2>4, <2>5, <2>6
<1>10. CASE ListNamesReply
  <2>1. wire' \in Seq(MessagesTo(Len(objs)))
    BY <1>10, <1>h DEF ListNamesReply, Receive
  <2>2. CASE HandleName(objs, pending)
    <3>1. /\ objs' \in Seq(Objects) /\ Len(objs') = Len(objs) + 1
          /\ pending' \in Nat
          /\ calls' \in Seq(CallsFor(Len(objs) + 1))
          /\ proc' \in {"down", "starting", "up"}
      BY <2>2, HandleNameType
    <3>2. wire' \in Seq(MessagesTo(Len(objs) + 1))
      BY <2>1, <1>n, MessagesGrow
    <3>3. phase' = "connected" /\ UNCHANGED <<inc, emitted, known, runs, listed, kept, tpVars, faults>>
      BY <1>10 DEF ListNamesReply
    <3>. QED  BY <3>1, <3>2, <3>3, <1>n DEF tpVars
  <2>3. CASE UNCHANGED <<objs, pending, calls, proc>>
    BY <1>10, <2>1, <2>3 DEF ListNamesReply, tpVars
  <2>. QED  BY <1>10, <2>2, <2>3 DEF ListNamesReply
<1>11. CASE NameAcquired
  <2>1. wire' \in Seq(MessagesTo(Len(objs)))
    BY <1>11, <1>h DEF NameAcquired, Receive
  <2>2. CASE HandleName(objs, pending)
    <3>1. /\ objs' \in Seq(Objects) /\ Len(objs') = Len(objs) + 1
          /\ pending' \in Nat
          /\ calls' \in Seq(CallsFor(Len(objs) + 1))
          /\ proc' \in {"down", "starting", "up"}
      BY <2>2, HandleNameType
    <3>2. wire' \in Seq(MessagesTo(Len(objs) + 1))
      BY <2>1, <1>n, MessagesGrow
    <3>3. UNCHANGED <<inc, emitted, known, phase, runs, listed, kept, tpVars, faults>>
      BY <1>11 DEF NameAcquired
    <3>. QED  BY <3>1, <3>2, <3>3, <1>n DEF tpVars
  <2>3. CASE UNCHANGED <<objs, pending, calls, proc>>
    BY <1>11, <2>1, <2>3 DEF NameAcquired, tpVars
  <2>. QED  BY <1>11, <2>2, <2>3 DEF NameAcquired
<1>12. CASE OwnerGone
  <2>. DEFINE os == Orphan(Head(wire).inc)
  <2>1. wire' \in Seq(MessagesTo(Len(objs)))
    BY <1>12, <1>h DEF OwnerGone, Receive
  <2>2. os \in Seq(Objects) /\ Len(os) = Len(objs)
    <3>1. \A k \in 1..Len(objs) : os[k] \in Objects
      BY <1>o DEF Objects, Orphan
    <3>2. os = [k \in 1..Len(objs) |-> os[k]]
      BY DEF Orphan
    <3>. HIDE DEF os
    <3>3. [k \in 1..Len(objs) |-> os[k]] \in Seq(Objects)
          /\ Len([k \in 1..Len(objs) |-> os[k]]) = Len(objs)
      BY <3>1, <1>n
    <3>. QED  BY <3>2, <3>3
  <2>3. Unlist(1) \in Nat
    BY UnlistType
  <2>. HIDE DEF os
  <2>4. UNCHANGED <<inc, emitted, known, phase, runs, listed, kept, tpReady, toggled, pinged,
                    failed, stub, faults>>
    BY <1>12 DEF OwnerGone
  <2>5. CASE panel' = 0 /\ HandleName(os, Unlist(1))
    <3>1. /\ objs' \in Seq(Objects) /\ Len(objs') = Len(os) + 1
          /\ pending' \in Nat
          /\ calls' \in Seq(CallsFor(Len(os) + 1))
          /\ proc' \in {"down", "starting", "up"}
      BY <2>2, <2>3, <2>5, HandleNameType
    <3>2. wire' \in Seq(MessagesTo(Len(objs) + 1))
      BY <2>1, <1>n, MessagesGrow
    <3>. QED  BY <3>1, <3>2, <2>2, <2>4, <2>5, <1>n
  <2>6. CASE /\ panel' \in {0, panel} /\ objs' = os
             /\ pending' \in {pending, Unlist(1)}
             /\ UNCHANGED <<calls, proc>>
    <3>1. pending' \in Nat /\ panel' \in 0..Len(objs)
      BY <2>3, <2>6
    <3>. QED  BY <3>1, <2>1, <2>2, <2>4, <2>6
  <2>. QED  BY <1>12, <2>5, <2>6 DEF OwnerGone, os
<1>13. CASE ReadySignal
  <2>. DEFINE os == [k \in 1..Len(objs) |->
                      IF objs[k].alive THEN [objs[k] EXCEPT !.ready = TRUE] ELSE objs[k]]
              ks == {k \in 1..Len(os) : os[k].alive /\ os[k].initialized /\ os[k].fresh}
  <2>1. wire' \in Seq(MessagesTo(Len(objs)))
    BY <1>13, <1>h DEF ReadySignal, Receive
  <2>2. \A k \in 1..Len(objs) : os[k] \in Objects
    BY <1>o DEF Objects
  <2>3. os \in Seq(Objects) /\ Len(os) = Len(objs)
    <3>1. os = [k \in 1..Len(objs) |-> os[k]]
      OBVIOUS
    <3>. HIDE DEF os
    <3>2. [k \in 1..Len(objs) |-> os[k]] \in Seq(Objects)
          /\ Len([k \in 1..Len(objs) |-> os[k]]) = Len(objs)
      BY <2>2, <1>n
    <3>. QED  BY <3>1, <3>2
  <2>4. AppendPanels(os, ks)
    BY <1>13 DEF ReadySignal
  <2>5. ks \in SUBSET (1..Len(os))
    OBVIOUS
  <2>6. UNCHANGED <<inc, emitted, known, phase, runs, listed, kept, faults>>
    BY <1>13 DEF ReadySignal
  <2>. HIDE DEF os, ks
  <2>7. /\ objs' \in Seq(Objects) /\ Len(objs') = Len(objs)
        /\ panel' \in 0..Len(objs) /\ pending' \in Nat
        /\ calls' \in Seq(CallsFor(Len(objs)))
        /\ proc' \in {"down", "starting", "up"}
        /\ tpReady' \in BOOLEAN /\ toggled' \in BOOLEAN /\ pinged' \in BOOLEAN
        /\ failed' \in BOOLEAN /\ stub' \in BOOLEAN
    BY <2>3, <2>4, <2>5, AppendPanelsType
  <2>. QED  BY <2>1, <2>6, <2>7
<1>14. CASE InitReply
  <2>1. wire' \in Seq(MessagesTo(Len(objs))) /\ Head(wire) \in MessagesTo(Len(objs))
    BY <1>14, <1>h DEF InitReply, Receive
  <2>2. UNCHANGED <<inc, emitted, known, phase, runs, listed, kept, faults>>
    BY <1>14 DEF InitReply
  <2>3. PICK k \in Head(wire).objs :
          IF objs[k].alive
          THEN AppendPanels(Initialize(k, Head(wire).inc), IF objs[k].ready THEN {k} ELSE {})
          ELSE UNCHANGED <<objs, pending, calls, proc, tpVars>>
    BY <1>14 DEF InitReply
  <2>4. k \in 1..Len(objs) /\ Head(wire).inc \in Nat
    BY <2>1, <2>3 DEF MessagesTo
  <2>5. CASE objs[k].alive
    <3>. DEFINE os == Initialize(k, Head(wire).inc)
                ks == IF objs[k].ready THEN {k} ELSE {}
    <3>1. os \in Seq(Objects) /\ Len(os) = Len(objs)
      <4>. DEFINE o == [objs[k] EXCEPT !.owner = IF proc = "up" THEN inc ELSE 0,
                                       !.xid = Head(wire).inc, !.initialized = TRUE]
      <4>1. os = [objs EXCEPT ![k] = o]
        BY <2>4, <1>o DEF Initialize, Objects
      <4>2. o \in Objects
        BY <2>4, <1>o DEF Objects
      <4>. HIDE DEF os, o
      <4>3. /\ [objs EXCEPT ![k] = o] \in Seq(Objects)
            /\ Len([objs EXCEPT ![k] = o]) = Len(objs)
        BY <4>2, <2>4, ExceptSeq
      <4>. QED  BY <4>1, <4>3
    <3>2. ks \in SUBSET (1..Len(os))
      BY <2>4, <3>1
    <3>3. AppendPanels(os, ks)
      BY <2>3, <2>5
    <3>. HIDE DEF os, ks
    <3>4. /\ objs' \in Seq(Objects) /\ Len(objs') = Len(objs)
          /\ panel' \in 0..Len(objs) /\ pending' \in Nat
          /\ calls' \in Seq(CallsFor(Len(objs)))
          /\ proc' \in {"down", "starting", "up"}
          /\ tpReady' \in BOOLEAN /\ toggled' \in BOOLEAN /\ pinged' \in BOOLEAN
          /\ failed' \in BOOLEAN /\ stub' \in BOOLEAN
      BY <3>1, <3>2, <3>3, AppendPanelsType
    <3>. QED  BY <2>1, <2>2, <3>4
  <2>6. CASE ~objs[k].alive
    BY <2>1, <2>2, <2>3, <2>6 DEF tpVars
  <2>. QED  BY <2>5, <2>6
<1>15. CASE InitError
  <2>1. wire' \in Seq(MessagesTo(Len(objs)))
    BY <1>15, <1>h DEF InitError, Receive
  <2>2. UNCHANGED <<proc, inc, emitted, known, calls, phase, runs, listed, kept, tpReady,
                    toggled, pinged, failed, stub, faults>>
    BY <1>15 DEF InitError, procVars
  <2>3. PICK ks \in SUBSET (1..Len(objs)) : Destroy(ks)
    <3>1. Head(wire) \in MessagesTo(Len(objs))
      BY <1>15, <1>h DEF InitError, Receive
    <3>2. {k \in Head(wire).objs : objs[k].alive} \in SUBSET (1..Len(objs))
      BY <3>1 DEF MessagesTo
    <3>. QED  BY <1>15, <3>2 DEF InitError
  <2>4. /\ objs' \in Seq(Objects) /\ Len(objs') = Len(objs)
        /\ pending' \in Nat /\ panel' \in 0..Len(objs)
    BY <2>3, DestroyType
  <2>. QED  BY <2>1, <2>2, <2>4
<1>16. CASE InitTimeout
  <2>1. faults' \in Nat
    BY <1>16 DEF InitTimeout
  <2>2. UNCHANGED <<proc, inc, emitted, known, calls, wire, phase, runs, listed, kept,
                    tpReady, toggled, pinged, failed, stub>>
    BY <1>16 DEF InitTimeout, procVars
  <2>3. PICK ks \in SUBSET (1..Len(objs)) : Destroy(ks)
    BY <1>16 DEF InitTimeout
  <2>4. /\ objs' \in Seq(Objects) /\ Len(objs') = Len(objs)
        /\ pending' \in Nat /\ panel' \in 0..Len(objs)
    BY <2>3, DestroyType
  <2>. QED  BY <2>1, <2>2, <2>4
<1>17. CASE Click
  <2>1. Send(<<Call("Ping", 0)>>)
    BY <1>17 DEF Click
  <2>2. calls' \in Seq(CallsFor(Len(objs))) /\ proc' \in {"down", "starting", "up"}
    BY <2>1, <1>n, <1>p, SendType
  <2>3. toggled' \in BOOLEAN /\ pinged' \in BOOLEAN /\ stub' \in BOOLEAN
    BY <1>17 DEF Click
  <2>4. UNCHANGED <<inc, emitted, known, wire, phase, runs, objs, pending, listed, kept,
                    panel, tpReady, failed, faults>>
    BY <1>17 DEF Click
  <2>. QED  BY <2>2, <2>3, <2>4
<1>18. CASE ShowPanel
  <2>1. Send(<<Call("Show", 0)>>)
    BY <1>18 DEF ShowPanel
  <2>2. calls' \in Seq(CallsFor(Len(objs))) /\ proc' \in {"down", "starting", "up"}
    BY <2>1, <1>n, <1>p, SendType
  <2>3. toggled' \in BOOLEAN /\ stub' \in BOOLEAN
    BY <1>18 DEF ShowPanel, TypeOK
  <2>4. UNCHANGED <<inc, emitted, known, wire, phase, runs, objs, pending, listed, kept,
                    panel, tpReady, pinged, failed, faults>>
    BY <1>18 DEF ShowPanel
  <2>. QED  BY <2>2, <2>3, <2>4
<1>19. CASE PanelShown \/ PanelHidden \/ HastyClick \/ ClickOther
  <2>1. toggled' \in BOOLEAN /\ pinged' \in BOOLEAN /\ stub' \in BOOLEAN
    BY <1>19 DEF PanelShown, PanelHidden, HastyClick, ClickOther, TypeOK
  <2>2. failed' = failed /\ OnlyButton
    BY <1>19 DEF PanelShown, PanelHidden, HastyClick, ClickOther
  <2>. QED  BY <2>1, <2>2 DEF OnlyButton, procVars
<1>20. CASE StubTimeout
  <2>1. pinged' \in BOOLEAN /\ failed' \in BOOLEAN
    BY <1>20 DEF StubTimeout
  <2>. QED  BY <1>20, <2>1 DEF StubTimeout, OnlyButton, procVars
<1>21. CASE RemoveFromSettings
  <2>1. PICK cs \in {<<>>, <<Call("Unload", 0)>>} : Send(cs)
    BY <1>21 DEF RemoveFromSettings
  <2>2. cs \in Seq(CallsFor(Len(objs)))
    BY <2>1, <1>p, Zenon
  <2>3. calls' \in Seq(CallsFor(Len(objs))) /\ proc' \in {"down", "starting", "up"}
    BY <2>1, <2>2, <1>n, SendType
  <2>4. pending' \in Nat
    BY <1>21, UnlistType DEF RemoveFromSettings
  <2>5. /\ panel' = 0 /\ listed' \in BOOLEAN /\ kept' \in BOOLEAN
        /\ tpReady' \in BOOLEAN /\ toggled' \in BOOLEAN /\ pinged' \in BOOLEAN
        /\ failed' \in BOOLEAN /\ stub' \in BOOLEAN
    BY <1>21 DEF RemoveFromSettings
  <2>6. UNCHANGED <<inc, emitted, known, wire, phase, runs, objs, faults>>
    BY <1>21 DEF RemoveFromSettings
  <2>. QED  BY <2>3, <2>4, <2>5, <2>6, <1>n
<1>22. CASE AddToSettings
  BY <1>22 DEF AddToSettings, procVars, tpVars
<1>23. CASE UNCHANGED vars
  BY <1>23 DEF vars, tpVars
<1>. QED
  BY <1>1, <1>2, <1>3, <1>4, <1>5, <1>6, <1>7, <1>8, <1>9, <1>10, <1>11, <1>12, <1>13,
     <1>14, <1>15, <1>16, <1>17, <1>18, <1>19, <1>20, <1>21, <1>22, <1>23 DEF Next

\* Nothing the toolbar, the bus or the process does leaves the state space: in
\* particular a slot points to an object that was created, and a reply, an error
\* or an InitPanel call is always for one.
THEOREM LinkTypeCorrect == Spec => []TypeOK
<1>. QED  BY TypeInit, TypeStep, PTL DEF Spec

-----------------------------------------------------------------------------
\* What the handlers do to the slot's flags: an appended panel answers the
\* request for it and clears its failure.
LEMMA AppendPanelsFlags ==
  ASSUME TypeOK, NEW os, NEW ks \in SUBSET (1..Len(os)), Len(os) \in Nat,
         AppendPanels(os, ks)
  PROVE  \/ UNCHANGED tpVars
         \/ panel' # 0 /\ ~pinged' /\ ~failed' /\ stub' = (stub /\ ~pinged)
            /\ toggled' = toggled
<1>1. CASE ks = {} \/ ~listed
  BY <1>1 DEF AppendPanels, PanelReady
<1>2. CASE ks # {} /\ listed
  <2>1. panel' \in ks /\ ~pinged' /\ ~failed' /\ stub' = (stub /\ ~pinged)
        /\ toggled' = toggled
    BY <1>2 DEF AppendPanels, PanelReady
  <2>. QED  BY <2>1
<1>. QED  BY <1>1, <1>2

LEMMA FlagsStep ==
  ASSUME TypeOK, Next
  PROVE  \/ UNCHANGED tpVars
         \/ panel' # 0 /\ ~pinged' /\ ~failed' /\ stub' = (stub /\ ~pinged)
            /\ toggled' = toggled
         \/ panel' \in {0, panel} /\ UNCHANGED <<toggled, pinged, failed, stub>>
         \/ panel' = 0 /\ ~pinged' /\ ~failed' /\ ~stub'
         \/ ShowPanel \/ PanelShown \/ PanelHidden \/ HastyClick
         \/ ClickOther \/ Click \/ StubTimeout
<1>n. Len(objs) \in Nat
  BY LenProperties DEF TypeOK
<1>1. CASE StartProcess \/ AcquireName \/ ActivationFails \/ EmitReady \/ InitPanel
           \/ OtherCall \/ StartToolbar \/ ListNamesReply \/ NameAcquired
           \/ AddToSettings
  BY <1>1 DEF StartProcess, AcquireName, ActivationFails, EmitReady, InitPanel,
       OtherCall, StartToolbar, ListNamesReply, NameAcquired, AddToSettings
<1>2. CASE Die
  BY <1>2 DEF Die, Exit
<1>3. CASE ToolbarDies \/ RemoveFromSettings
  BY <1>3 DEF ToolbarDies, RemoveFromSettings
<1>4. CASE OwnerGone
  BY <1>4 DEF OwnerGone
<1>5. CASE ReadySignal
  <2>. DEFINE os == [k \in 1..Len(objs) |->
                      IF objs[k].alive THEN [objs[k] EXCEPT !.ready = TRUE] ELSE objs[k]]
              ks == {k \in 1..Len(os) : os[k].alive /\ os[k].initialized /\ os[k].fresh}
  <2>1. AppendPanels(os, ks)
    BY <1>5 DEF ReadySignal
  <2>2. ks \in SUBSET (1..Len(os))
    OBVIOUS
  <2>3. Len(os) \in Nat
    <3>1. os = [k \in 1..Len(objs) |-> os[k]]
      OBVIOUS
    <3>. HIDE DEF os
    <3>2. Len([k \in 1..Len(objs) |-> os[k]]) = Len(objs)
      BY <1>n
    <3>. QED  BY <3>1, <3>2, <1>n
  <2>. HIDE DEF os, ks
  <2>. QED  BY <2>1, <2>2, <2>3, AppendPanelsFlags
<1>6. CASE InitReply
  <2>1. PICK k \in Head(wire).objs :
          IF objs[k].alive
          THEN AppendPanels(Initialize(k, Head(wire).inc), IF objs[k].ready THEN {k} ELSE {})
          ELSE UNCHANGED <<objs, pending, calls, proc, tpVars>>
    BY <1>6 DEF InitReply
  <2>2. k \in 1..Len(objs)
    <3>1. Head(wire) \in MessagesTo(Len(objs))
      BY <1>6, HeadTailProperties DEF InitReply, Receive, TypeOK
    <3>. QED  BY <3>1, <2>1 DEF MessagesTo
  <2>3. CASE objs[k].alive
    <3>. DEFINE os == Initialize(k, Head(wire).inc)
                ks == IF objs[k].ready THEN {k} ELSE {}
    <3>1. DOMAIN os = DOMAIN objs
      BY DEF Initialize
    <3>2. Len(os) = Len(objs)
      <4>1. os = [j \in 1..Len(objs) |-> os[j]]
        BY LenProperties DEF Initialize, TypeOK
      <4>. HIDE DEF os
      <4>2. Len([j \in 1..Len(objs) |-> os[j]]) = Len(objs)
        BY <1>n
      <4>. QED  BY <4>1, <4>2
    <3>3. ks \in SUBSET (1..Len(os))
      BY <2>2, <3>2
    <3>4. AppendPanels(os, ks)
      BY <2>1, <2>3
    <3>. HIDE DEF os, ks
    <3>. QED  BY <1>n, <3>2, <3>3, <3>4, AppendPanelsFlags
  <2>4. CASE ~objs[k].alive
    BY <2>1, <2>4
  <2>. QED  BY <2>3, <2>4
<1>7. CASE InitError \/ InitTimeout
  BY <1>7 DEF InitError, InitTimeout, Destroy
<1>. QED
  BY <1>1, <1>2, <1>3, <1>4, <1>5, <1>6, <1>7 DEF Next

LEMMA AskedStep == TypeOK /\ AskedIsEmpty /\ [Next]_vars => AskedIsEmpty'
<1> SUFFICES ASSUME TypeOK, AskedIsEmpty, [Next]_vars PROVE AskedIsEmpty'
  OBVIOUS
<1>. USE DEF AskedIsEmpty, RequestIsWhole, RemainsAreHarmless
<1>1. CASE Next
  <2>1. CASE Click
    BY <2>1 DEF Click, CanAsk, TypeOK
  <2>2. CASE StubTimeout
    BY <2>2 DEF StubTimeout, OnlyButton, TypeOK
  <2>3. CASE ClickOther
    BY <2>3 DEF ClickOther, OnlyButton, TypeOK
  <2>4. CASE ShowPanel \/ PanelShown
    <3>1. panel # 0 /\ UNCHANGED <<panel, pinged, failed>>
      BY <2>4 DEF ShowPanel, PanelShown, OnlyButton
    <3>2. UNCHANGED <<toggled, stub>> \/ ~stub'
      BY <2>4 DEF ShowPanel, PanelShown
    <3>3. ~pinged /\ ~pinged'
      BY <3>1
    <3>4. CASE UNCHANGED <<toggled, stub>>
      BY <3>1, <3>3, <3>4 DEF TypeOK
    <3>5. CASE ~stub'
      BY <3>1, <3>3, <3>5 DEF TypeOK
    <3>. QED  BY <3>2, <3>4, <3>5
  <2>5. CASE PanelHidden
    BY <2>5 DEF PanelHidden, OnlyButton, TypeOK
  <2>6. CASE HastyClick
    BY <2>6 DEF HastyClick, OnlyButton, TypeOK
  <2>7. CASE UNCHANGED tpVars
    BY <2>7 DEF tpVars
  <2>8. CASE /\ panel' # 0 /\ ~pinged' /\ ~failed' /\ stub' = (stub /\ ~pinged)
             /\ toggled' = toggled
    BY <2>8 DEF TypeOK
  <2>9. CASE panel' \in {0, panel} /\ UNCHANGED <<toggled, pinged, failed, stub>>
    BY <2>9 DEF TypeOK
  <2>10. CASE panel' = 0 /\ ~pinged' /\ ~failed' /\ ~stub'
    BY <2>10
  <2>. QED
    BY <1>1, <2>1, <2>2, <2>3, <2>4, <2>5, <2>6, <2>7, <2>8, <2>9, <2>10, FlagsStep
<1>2. CASE UNCHANGED vars
  BY <1>2 DEF vars, tpVars
<1>. QED  BY <1>1, <1>2

\* A click on a panel that is not there, Ready, the death of the panel, clicks on
\* other panels, which may leave the stub of an abandoned request behind, and the
\* stub timeout in every order: who waits sees the stub and a timeout will end
\* the wait, nobody waits for a panel that is there or was given up, and, unless
\* the user clicks a panel while it shows itself, what is left of an abandoned
\* request never makes the toolbar call a panel broken that is there.
THEOREM LinkAskedIsEmpty == Spec => []AskedIsEmpty
<1>1. Init => AskedIsEmpty
  BY DEF Init, AskedIsEmpty, RequestIsWhole, RemainsAreHarmless
<1>. QED  BY <1>1, AskedStep, LinkTypeCorrect, PTL DEF Spec

-----------------------------------------------------------------------------
LEMMA SlotInit == Init => Slot!Init
BY DEF Init, slotState, Slot!Init

LEMMA SlotStep ==
  ASSUME "hasty click" \notin Faults
  PROVE  TypeOK /\ AskedIsEmpty /\ [Next]_vars => [Slot!Next]_slotState
<1> SUFFICES ASSUME TypeOK, AskedIsEmpty, [Next]_vars PROVE [Slot!Next]_slotState
  OBVIOUS
<1>. USE DEF slotState, Slot!Next, Slot!Ask, Slot!Appear, Slot!GiveUp, Slot!Reset
<1>0. RequestIsWhole /\ RemainsAreHarmless
  BY DEF AskedIsEmpty
<1>. USE DEF RequestIsWhole, RemainsAreHarmless
<1>1. CASE Next
  <2>1. CASE Click
    BY <1>0, <2>1 DEF Click, CanAsk, TypeOK
  <2>2. CASE StubTimeout
    BY <1>0, <2>2 DEF StubTimeout, OnlyButton, TypeOK
  <2>3. CASE ClickOther
    BY <1>0, <2>3 DEF ClickOther, OnlyButton, TypeOK
  <2>4. CASE ShowPanel \/ PanelShown \/ PanelHidden \/ HastyClick
    BY <2>4 DEF ShowPanel, PanelShown, PanelHidden, HastyClick, OnlyButton
  <2>5. CASE UNCHANGED tpVars
    BY <2>5 DEF tpVars
  <2>6. CASE panel' # 0 /\ ~pinged' /\ ~failed' /\ stub' = (stub /\ ~pinged)
    BY <1>0, <2>6 DEF TypeOK
  <2>7. CASE panel' \in {0, panel} /\ UNCHANGED <<toggled, pinged, failed, stub>>
    BY <1>0, <2>7 DEF TypeOK
  <2>8. CASE panel' = 0 /\ ~pinged' /\ ~failed' /\ ~stub'
    BY <1>0, <2>8
  <2>. QED  BY <1>1, <2>1, <2>2, <2>3, <2>4, <2>5, <2>6, <2>7, <2>8, FlagsStep
<1>2. CASE UNCHANGED vars
  BY <1>2 DEF vars, tpVars
<1>. QED  BY <1>1, <1>2

\* The link implements the safety part of the slot's promise: whatever the
\* processes and the bus do, every step asks, answers, gives up or resets the
\* slot as PanelSlot says, or leaves it alone, as long as no button is clicked
\* while its panel shows itself.
THEOREM LinkImplementsSlot ==
  ASSUME "hasty click" \notin Faults
  PROVE  Spec => Slot!Init /\ [][Slot!Next]_slotState
<1>. QED
  BY SlotInit, SlotStep, LinkTypeCorrect, LinkAskedIsEmpty, PTL DEF Spec

(***************************************************************************)
(* The toolbar has track of its objects.                                   *)
(***************************************************************************)

\* Object k is in the handshake; call i asks its panel, message i answers it;
\* message i is about the coming or the going of the name's owner.
Waiting(k) == objs[k].alive /\ objs[k].fresh
Asks(i, k) == calls[i].op = "InitPanel" /\ calls[i].obj = k
Answers(i, k) == wire[i].kind \in {"reply", "error"} /\ k \in wire[i].objs
OfOwner(i) == wire[i].kind \in {"owner", "gone"}

\* What the toolbar can hold before it is told which panels run.
Phases ==
  /\ kept => listed
  /\ phase # "connected" => objs = <<>> /\ pending = 0 /\ panel = 0
  /\ phase = "down" => wire = <<>> /\ ~listed
  /\ phase = "listing" => Len(wire) >= 1 /\ wire[1].kind = "names"
  /\ \A i \in 1..Len(wire) : wire[i].kind = "names" => phase = "listing" /\ i = 1
  /\ proc = "up" => inc # 0

\* At most one object is in the handshake, none beside a panel, and the pending
\* list tells, unless a slot went and came back.
OneWaits ==
  /\ \A k, l \in 1..Len(objs) : Waiting(k) /\ Waiting(l) => k = l
  /\ \A k \in 1..Len(objs) : Waiting(k) => panel = 0
  /\ \A k \in 1..Len(objs) : objs[k].alive /\ ~objs[k].initialized => objs[k].fresh
  /\ pending \in {0, 1}
  /\ pending # 0 => \E k \in 1..Len(objs) : Waiting(k)
  /\ \A k \in 1..Len(objs) : Waiting(k) /\ pending = 0 => ~kept /\ objs[k].initialized

\* An object asks once, and before its answer.
AskedOnce ==
  \A k \in 1..Len(objs), i \in 1..Len(calls) : objs[k].alive /\ Asks(i, k) =>
    /\ objs[k].fresh /\ ~objs[k].initialized
    /\ \A j \in 1..Len(calls) : Asks(j, k) => j = i
    /\ \A j \in 1..Len(wire) : ~Answers(j, k)

\* It is answered once.
AnsweredOnce ==
  \A k \in 1..Len(objs), i \in 1..Len(wire) : objs[k].alive /\ Answers(i, k) =>
    /\ objs[k].fresh /\ ~objs[k].initialized
    /\ \A j \in 1..Len(wire) : Answers(j, k) => j = i

\* A reply under way is of the process that runs, which goes on running at least
\* until the reply is taken: there is no later word of the owner.
Replies ==
  \A k \in 1..Len(objs), i \in 1..Len(wire) :
    objs[k].alive /\ wire[i].kind = "reply" /\ k \in wire[i].objs =>
      /\ proc = "up" /\ wire[i].inc = inc
      /\ \A j \in 1..Len(wire) : j > i => ~OfOwner(j)

\* The same of an object that has its reply and waits for Ready.
Bound ==
  \A k \in 1..Len(objs) : Waiting(k) /\ objs[k].initialized =>
      /\ proc = "up" /\ objs[k].owner = inc /\ objs[k].xid = inc
      /\ \A j \in 1..Len(wire) : ~OfOwner(j)

\* The panel in the slot is of the process that runs, or the word of its death is
\* the first the toolbar gets about the owner.
LivePanel == /\ proc = "up" /\ objs[panel].owner = inc
             /\ \A j \in 1..Len(wire) : ~OfOwner(j)
DeadPanel == /\ proc = "up" => objs[panel].owner # inc
             /\ \E j \in 1..Len(wire) :
               /\ wire[j].kind = "gone" /\ wire[j].inc = objs[panel].owner
               /\ \A i \in 1..Len(wire) : i < j => ~OfOwner(i)
Slotted ==
  panel # 0 =>
    /\ objs[panel].initialized
    /\ objs[panel].owner # 0 /\ objs[panel].xid = objs[panel].owner
    /\ objs[panel].owner <= inc
    /\ LivePanel \/ DeadPanel

\* The inductive invariant behind ObjectsAreTracked and KeepsLivePanel.
Tracked == Phases /\ OneWaits /\ AskedOnce /\ AnsweredOnce /\ Replies /\ Bound /\ Slotted


\* How a step moves the two queues.
WireGrew(n) ==
  /\ Len(wire') \in Nat /\ Len(wire') = Len(wire) + n
  /\ \A i \in 1..Len(wire) : i \in 1..Len(wire') /\ wire'[i] = wire[i]
  /\ \A i \in 1..Len(wire') : \/ i \in 1..Len(wire)
                              \/ i > Len(wire) /\ i - Len(wire) \in 1..n
WireShrank ==
  /\ Len(wire) >= 1 /\ 1 \in 1..Len(wire)
  /\ Len(wire') \in Nat /\ Len(wire') = Len(wire) - 1
  /\ \A i \in 1..Len(wire') : i + 1 \in 1..Len(wire) /\ wire'[i] = wire[i + 1]
  /\ \A i \in 1..Len(wire) :
       i # 1 => i - 1 \in 1..Len(wire') /\ wire'[i - 1] = wire[i]
CallsGrew(c) ==
  /\ Len(calls') \in Nat /\ Len(calls') = Len(calls) + 1
  /\ \A i \in 1..Len(calls) : i \in 1..Len(calls') /\ calls'[i] = calls[i]
  /\ calls'[Len(calls) + 1] = c
  /\ \A i \in 1..Len(calls') : i \in 1..Len(calls) \/ i = Len(calls) + 1
CallsShrank ==
  /\ Len(calls) >= 1 /\ 1 \in 1..Len(calls)
  /\ Len(calls') \in Nat /\ Len(calls') = Len(calls) - 1
  /\ \A i \in 1..Len(calls') : i + 1 \in 1..Len(calls) /\ calls'[i] = calls[i + 1]
ProcStays == proc' = "up" <=> proc = "up"

LEMMA Lengths ==
  ASSUME TypeOK
  PROVE  /\ Len(wire) \in Nat /\ Len(objs) \in Nat /\ Len(calls) \in Nat
         /\ inc \in Nat /\ pending \in Nat /\ panel \in 0..Len(objs)
         /\ \A k \in 1..Len(objs) : objs[k] \in Objects
         /\ \A i \in 1..Len(wire) : wire[i] \in MessagesTo(Len(objs))
         /\ \A i \in 1..Len(calls) : calls[i] \in CallsFor(Len(objs))
BY LenProperties, ElementOfSeq DEF TypeOK

LEMMA Delivered ==
  ASSUME TypeOK, Phases, NEW ms \in Seq(MessagesTo(Len(objs))), Deliver(ms)
  PROVE  /\ phase = "down" => wire' = wire
         /\ phase # "down" => /\ WireGrew(Len(ms))
                              /\ \A i \in 1..Len(ms) : wire'[Len(wire) + i] = ms[i]
<1>1. wire \in Seq(MessagesTo(Len(objs)))
  BY DEF TypeOK
<1>2. CASE phase = "down"
  BY <1>2 DEF Deliver
<1>3. CASE phase # "down"
  <2>1. wire' = wire \o ms
    BY <1>3 DEF Deliver
  <2>2. /\ Len(wire') = Len(wire) + Len(ms)
        /\ \A i \in 1..Len(wire)+Len(ms) :
             wire'[i] = IF i <= Len(wire) THEN wire[i] ELSE ms[i - Len(wire)]
    BY <2>1, <1>1, ConcatProperties
  <2>3. Len(wire) \in Nat /\ Len(ms) \in Nat
    BY <1>1, LenProperties
  <2>4. WireGrew(Len(ms))
    BY <2>2, <2>3 DEF WireGrew
  <2>5. \A i \in 1..Len(ms) : wire'[Len(wire) + i] = ms[i]
    BY <2>2, <2>3
  <2>. QED  BY <1>3, <2>4, <2>5
<1>. QED  BY <1>2, <1>3

LEMMA DeliveredOne ==
  ASSUME TypeOK, Phases, NEW m \in MessagesTo(Len(objs)), Deliver(<<m>>)
  PROVE  /\ phase = "down" => wire' = wire
         /\ phase # "down" => WireGrew(1) /\ wire'[Len(wire) + 1] = m
<1>1. <<m>> \in Seq(MessagesTo(Len(objs))) /\ Len(<<m>>) = 1 /\ <<m>>[1] = m
  OBVIOUS
<1>2. PICK ms \in Seq(MessagesTo(Len(objs))) :
        Deliver(ms) /\ Len(ms) = 1 /\ ms[1] = m
  BY <1>1, Zenon
<1>3. phase = "down" => wire' = wire
  BY <1>2, Delivered
<1>4. CASE phase # "down"
  <2>1. WireGrew(Len(ms)) /\ \A i \in 1..Len(ms) : wire'[Len(wire) + i] = ms[i]
    BY <1>2, <1>4, Delivered, Zenon
  <2>. QED  BY <1>2, <1>4, <2>1
<1>. QED  BY <1>3, <1>4

LEMMA Received ==
  ASSUME TypeOK, NEW kind, Receive(kind)
  PROVE  /\ WireShrank /\ Head(wire) = wire[1] /\ wire[1].kind = kind
         /\ phase # "down" /\ wire[1] \in MessagesTo(Len(objs))
<1>1. wire \in Seq(MessagesTo(Len(objs))) /\ wire # <<>>
  BY DEF TypeOK, Receive
<1>2. /\ Len(wire) \in Nat /\ Len(wire) >= 1 /\ Head(wire) = wire[1]
      /\ Len(Tail(wire)) = Len(wire) - 1
      /\ \A i \in 1..Len(Tail(wire)) : Tail(wire)[i] = wire[i + 1]
  BY <1>1, LenProperties, EmptySeq, HeadTailProperties
<1>3. wire' = Tail(wire)
  BY DEF Receive
<1>4. Len(wire') \in Nat /\ Len(wire') = Len(wire) - 1
      /\ \A i \in 1..Len(wire') : wire'[i] = wire[i + 1]
  BY <1>2, <1>3
<1>5. WireShrank
  BY <1>2, <1>4 DEF WireShrank
<1>. QED  BY <1>1, <1>2, <1>5, ElementOfSeq DEF Receive

LEMMA FirstCall ==
  ASSUME TypeOK, calls # <<>>
  PROVE  /\ Len(calls) \in Nat /\ 1 \in 1..Len(calls) /\ Head(calls) = calls[1]
         /\ Tail(calls) \in Seq(CallsFor(Len(objs)))
         /\ Len(Tail(calls)) = Len(calls) - 1
         /\ \A i \in 1..Len(Tail(calls)) : Tail(calls)[i] = calls[i + 1]
<1>0. calls \in Seq(CallsFor(Len(objs)))
  BY DEF TypeOK
<1>. QED  BY <1>0, LenProperties, EmptySeq, HeadTailProperties

LEMMA Handled ==
  ASSUME TypeOK, calls # <<>>, calls' = Tail(calls)
  PROVE  CallsShrank /\ Head(calls) = calls[1] /\ calls[1] \in CallsFor(Len(objs))
<1>1. calls \in Seq(CallsFor(Len(objs)))
  BY DEF TypeOK
<1>2. /\ Len(calls) \in Nat /\ Len(calls) >= 1 /\ Head(calls) = calls[1]
      /\ Len(calls') = Len(calls) - 1
      /\ \A i \in 1..Len(calls') : calls'[i] = calls[i + 1]
  BY <1>1, LenProperties, EmptySeq, HeadTailProperties
<1>. QED  BY <1>1, <1>2, ElementOfSeq DEF CallsShrank

LEMMA Sent ==
  ASSUME NEW n \in Nat, calls \in Seq(CallsFor(n)), NEW c, Send(<<c>>)
  PROVE  CallsGrew(c) /\ ProcStays
<1>1. <<c>> \in Seq({c}) /\ Len(<<c>>) = 1 /\ <<c>>[1] = c
  OBVIOUS
<1>2. calls \in Seq(CallsFor(n) \cup {c}) /\ <<c>> \in Seq(CallsFor(n) \cup {c})
  BY <1>1, SeqMonotonic
<1>3. calls' = calls \o <<c>>
  BY DEF Send
<1>4. /\ Len(calls') = Len(calls) + 1
      /\ \A i \in 1..Len(calls) + 1 :
            calls'[i] = IF i <= Len(calls) THEN calls[i] ELSE <<c>>[i - Len(calls)]
  BY <1>1, <1>2, <1>3, ConcatProperties
<1>5. Len(calls) \in Nat
  BY LenProperties
<1>6. CallsGrew(c)
  <2>1. calls'[Len(calls) + 1] = <<c>>[1]
    BY <1>4, <1>5
  <2>. QED  BY <1>1, <1>4, <1>5, <2>1 DEF CallsGrew
<1>7. ProcStays
  BY DEF Send, Activate, ProcStays
<1>. QED  BY <1>6, <1>7

LEMMA SentNothing == ASSUME TypeOK, Send(<<>>) PROVE calls' = calls /\ proc' = proc
BY ConcatEmptySeq DEF Send, TypeOK

\* The slot's clause, for what the queue does around a panel nothing happens to.
LEMMA SlottedStays ==
  ASSUME TypeOK, Slotted, panel' = panel, inc' = inc, ProcStays,
         panel # 0 => /\ objs'[panel].owner = objs[panel].owner
                      /\ objs'[panel].xid = objs[panel].xid
                      /\ objs'[panel].initialized,
         \/ wire' = wire
         \/ WireShrank /\ wire[1].kind \notin {"owner", "gone"}
         \/ \E n \in Nat : /\ WireGrew(n)
                           /\ \A i \in 1..n : wire'[Len(wire) + i].kind \notin {"owner", "gone"}
  PROVE  Slotted'
<1> SUFFICES ASSUME panel # 0 PROVE Slotted'
  BY DEF Slotted
<1>1. /\ objs[panel].initialized /\ objs[panel].owner # 0
      /\ objs[panel].xid = objs[panel].owner /\ objs[panel].owner <= inc
      /\ LivePanel \/ DeadPanel
  BY DEF Slotted
<1>2. Len(wire) \in Nat
  BY Lengths
<1>3. CASE LivePanel
  <2>1. \A j \in 1..Len(wire') : ~OfOwner(j)'
    <3>1. CASE wire' = wire
      BY <1>3, <3>1 DEF LivePanel, OfOwner
    <3>2. CASE WireShrank
      BY <1>3, <3>2 DEF LivePanel, OfOwner, WireShrank
    <3>3. ASSUME NEW n \in Nat, WireGrew(n),
                 \A i \in 1..n : wire'[Len(wire) + i].kind \notin {"owner", "gone"}
          PROVE  \A j \in 1..Len(wire') : ~OfOwner(j)'
      <4> SUFFICES ASSUME NEW j \in 1..Len(wire') PROVE ~OfOwner(j)'
        OBVIOUS
      <4>1. CASE j \in 1..Len(wire)
        BY <1>3, <3>3, <4>1 DEF LivePanel, OfOwner, WireGrew
      <4>2. CASE j > Len(wire) /\ j - Len(wire) \in 1..n
        <5>1. j = Len(wire) + (j - Len(wire))
          BY <1>2
        <5>. QED  BY <3>3, <4>2, <5>1 DEF OfOwner
      <4>. QED  BY <3>3, <4>1, <4>2 DEF WireGrew
    <3>. QED  BY <3>1, <3>2, <3>3
  <2>. QED  BY <1>1, <1>3, <2>1 DEF Slotted, LivePanel, ProcStays
<1>4. CASE DeadPanel
  <2>1. PICK j \in 1..Len(wire) :
          /\ wire[j].kind = "gone" /\ wire[j].inc = objs[panel].owner
          /\ \A i \in 1..Len(wire) : i < j => ~OfOwner(i)
    BY <1>4 DEF DeadPanel
  <2>2. \E l \in 1..Len(wire') :
          /\ wire'[l].kind = "gone" /\ wire'[l].inc = objs[panel].owner
          /\ \A i \in 1..Len(wire') : i < l => ~OfOwner(i)'
    <3>1. CASE wire' = wire
      BY <2>1, <3>1 DEF OfOwner
    <3>2. CASE WireShrank /\ wire[1].kind \notin {"owner", "gone"}
      <4>1. j # 1
        BY <2>1, <3>2
      <4>2. j - 1 \in 1..Len(wire') /\ wire'[j - 1] = wire[j]
        BY <4>1, <3>2 DEF WireShrank
      <4>3. \A i \in 1..Len(wire') : i < j - 1 => ~OfOwner(i)'
        BY <2>1, <3>2 DEF OfOwner, WireShrank
      <4>. QED  BY <2>1, <4>2, <4>3
    <3>3. CASE \E n \in Nat : WireGrew(n)
      <4>1. j \in 1..Len(wire') /\ wire'[j] = wire[j]
        BY <3>3 DEF WireGrew
      <4>2. \A i \in 1..Len(wire') : i < j => ~OfOwner(i)'
        BY <1>2, <2>1, <3>3 DEF OfOwner, WireGrew
      <4>. QED  BY <2>1, <4>1, <4>2
    <3>. QED  BY <3>1, <3>2, <3>3
  <2>3. DeadPanel'
    BY <1>4, <2>2 DEF DeadPanel, ProcStays
  <2>. QED  BY <1>1, <2>3 DEF Slotted
<1>. QED  BY <1>1, <1>3, <1>4

LEMMA TrackAcquire == TypeOK /\ Tracked /\ AcquireName => Tracked'
<1> SUFFICES ASSUME TypeOK, Tracked, AcquireName PROVE Tracked'
  OBVIOUS
<1>1. /\ UNCHANGED <<calls, phase, runs, objs, pending, listed, kept, panel>>
      /\ proc = "starting" /\ proc' = "up" /\ inc' = inc + 1 /\ inc \in Nat
  BY DEF AcquireName, tpVars, TypeOK
<1>. DEFINE m == Message("owner", {}, inc + 1)
<1>m. m.kind = "owner" /\ m.objs = {} /\ m.inc = inc + 1
  BY DEF Message
<1>2. /\ phase = "down" => wire' = wire
      /\ phase # "down" => WireGrew(1) /\ wire'[Len(wire) + 1] = m
  <2>1. m \in MessagesTo(Len(objs))
    BY <1>1 DEF Message, MessagesTo
  <2>2. Deliver(<<m>>)
    BY DEF AcquireName
  <2>. HIDE DEF m
  <2>. QED  BY <2>1, <2>2, DeliveredOne DEF Tracked
<1>l. Len(wire) \in Nat /\ Len(objs) \in Nat /\ Len(calls) \in Nat
  BY Lengths
<1>. HIDE DEF m
<1>. USE <1>1, <1>2, <1>m, <1>l DEF Tracked, Waiting, OfOwner, Answers, Asks, WireGrew
<1>3. Phases'
  <2>1. \A i \in 1..Len(wire') : wire'[i].kind = "names" => phase' = "listing" /\ i = 1
    <3> SUFFICES ASSUME NEW i \in 1..Len(wire'), wire'[i].kind = "names"
                 PROVE  phase' = "listing" /\ i = 1
      OBVIOUS
    <3>1. i \in 1..Len(wire) /\ wire'[i] = wire[i]
      OBVIOUS
    <3>. QED  BY <3>1 DEF Phases
  <2>2. phase = "listing" => Len(wire') >= 1 /\ wire'[1].kind = "names"
    BY DEF Phases
  <2>3. /\ kept => listed
        /\ phase # "connected" => objs = <<>> /\ pending = 0 /\ panel = 0
        /\ phase = "down" => wire' = <<>> /\ ~listed
    BY DEF Phases
  <2>4. inc' # 0
    BY DEF TypeOK
  <2>. QED  BY <2>1, <2>2, <2>3, <2>4 DEF Phases
<1>4. OneWaits'
  BY DEF OneWaits
<1>5. AskedOnce'
  BY DEF AskedOnce, Phases
<1>6. AnsweredOnce'
  <2>1. \A i \in 1..Len(wire') : wire'[i].kind = "owner" \/ (i \in 1..Len(wire) /\ wire'[i] = wire[i])
    <3>1. CASE phase = "down"
      BY <3>1
    <3>2. CASE phase # "down"
      BY <3>2
    <3>. QED  BY <3>1, <3>2
  <2>2. \A i \in 1..Len(wire'), k \in 1..Len(objs) :
          Answers(i, k)' => i \in 1..Len(wire) /\ wire'[i] = wire[i] /\ Answers(i, k)
    BY <2>1
  <2>. QED  BY <2>2, SMTT(30) DEF AnsweredOnce
<1>7. Replies'
  BY DEF Replies
<1>8. Bound'
  BY DEF Bound
<1>9. Slotted'
  <2> SUFFICES ASSUME panel # 0 PROVE Slotted'
    BY DEF Slotted
  <2>1. /\ objs[panel].initialized /\ objs[panel].owner # 0
        /\ objs[panel].xid = objs[panel].owner /\ objs[panel].owner <= inc
        /\ DeadPanel /\ phase # "down"
    BY DEF Slotted, LivePanel, Phases
  <2>2. objs[panel].owner \in Nat
    <3>1. objs[panel] \in Objects
      BY ElementOfSeq DEF TypeOK
    <3>. QED  BY <3>1 DEF Objects
  <2>3. PICK j \in 1..Len(wire) :
          /\ wire[j].kind = "gone" /\ wire[j].inc = objs[panel].owner
          /\ \A i \in 1..Len(wire) : i < j => wire[i].kind \notin {"owner", "gone"}
    BY <2>1 DEF DeadPanel
  <2>4. /\ j \in 1..Len(wire') /\ wire'[j] = wire[j]
        /\ \A i \in 1..Len(wire') : i < j => i \in 1..Len(wire) /\ wire'[i] = wire[i]
    BY <2>1, <2>3
  <2>5. DeadPanel'
    <3>1. objs'[panel'].owner # inc'
      BY <2>1, <2>2
    <3>2. \A i \in 1..Len(wire') : i < j => ~OfOwner(i)'
      BY <2>3, <2>4
    <3>3. wire'[j].kind = "gone" /\ wire'[j].inc = objs'[panel'].owner
      BY <2>3, <2>4
    <3>. QED  BY <2>4, <3>1, <3>2, <3>3 DEF DeadPanel
  <2>6. objs'[panel'].owner <= inc'
    BY <2>1, <2>2
  <2>. QED  BY <2>1, <2>5, <2>6 DEF Slotted
<1>. QED  BY <1>3, <1>4, <1>5, <1>6, <1>7, <1>8, <1>9

LEMMA TrackCalls ==
  ASSUME TypeOK, Tracked, UNCHANGED <<inc, wire, phase, objs, pending, kept, panel>>, ProcStays,
         listed' = listed \/ (phase # "down" /\ listed'),
         \/ calls' = calls
         \/ CallsShrank
         \/ CallsGrew(Call("Ping", 0)) \/ CallsGrew(Call("Show", 0))
  PROVE  Tracked'
<1>l. Len(wire) \in Nat /\ Len(objs) \in Nat /\ Len(calls) \in Nat
  BY Lengths
<1>. USE <1>l DEF Tracked, Waiting, OfOwner, Answers, Asks, ProcStays
<1>c. \A i \in 1..Len(calls') :
        \/ calls'[i].op \in {"Ping", "Show"} /\ calls'[i].obj = 0
        \/ \E j \in 1..Len(calls) : calls'[i] = calls[j]
  BY DEF CallsShrank, CallsGrew, Call
<1>3. Phases'
  BY DEF Phases
<1>4. OneWaits'
  BY DEF OneWaits
<1>5. AskedOnce'
  <2>1. CASE calls' = calls
    BY <2>1 DEF AskedOnce
  <2>2. CASE CallsShrank
    <3> SUFFICES ASSUME NEW k \in 1..Len(objs), NEW i \in 1..Len(calls'),
                        objs[k].alive, Asks(i, k)'
                 PROVE  /\ objs[k].fresh /\ ~objs[k].initialized
                        /\ \A j \in 1..Len(calls') : Asks(j, k)' => j = i
                        /\ \A j \in 1..Len(wire) : ~Answers(j, k)
      BY DEF AskedOnce
    <3>1. i + 1 \in 1..Len(calls) /\ Asks(i + 1, k)
      BY <2>2 DEF CallsShrank
    <3>2. \A j \in 1..Len(calls') : j + 1 \in 1..Len(calls) /\ calls'[j] = calls[j + 1]
      BY <2>2 DEF CallsShrank
    <3>3. /\ objs[k].fresh /\ ~objs[k].initialized
          /\ \A j \in 1..Len(calls) : Asks(j, k) => j = i + 1
          /\ \A j \in 1..Len(wire) : ~Answers(j, k)
      BY <3>1 DEF AskedOnce
    <3>4. \A j \in 1..Len(calls') : Asks(j, k)' => j = i
      <4> SUFFICES ASSUME NEW j \in 1..Len(calls'), Asks(j, k)' PROVE j = i
        OBVIOUS
      <4>1. j + 1 \in 1..Len(calls) /\ Asks(j + 1, k)
        BY <3>2
      <4>2. j + 1 = i + 1
        BY <3>3, <4>1
      <4>. QED  BY <4>2
    <3>. QED  BY <3>3, <3>4
  <2>3. CASE CallsGrew(Call("Ping", 0)) \/ CallsGrew(Call("Show", 0))
    <3>1. PICK c \in {Call("Ping", 0), Call("Show", 0)} : CallsGrew(c)
      BY <2>3
    <3>2. c.op \in {"Ping", "Show"} /\ c.obj = 0
      BY DEF Call
    <3>3. \A i \in 1..Len(calls') :
            c = calls'[i] \/ (i \in 1..Len(calls) /\ calls'[i] = calls[i])
      BY <3>1 DEF CallsGrew
    <3>. QED  BY <3>1, <3>2, <3>3, SMTT(30) DEF AskedOnce, CallsGrew
  <2>. QED  BY <2>1, <2>2, <2>3
<1>6. AnsweredOnce'
  BY DEF AnsweredOnce
<1>7. Replies'
  BY <1>c, ZenonT(60) DEF Replies
<1>8. Bound'
  BY <1>c DEF Bound
<1>9. Slotted'
  BY SlottedStays DEF Slotted
<1>. QED  BY <1>3, <1>4, <1>5, <1>6, <1>7, <1>8, <1>9

\* The button and the stub move.
ButtonStep == PanelShown \/ PanelHidden \/ HastyClick \/ ClickOther \/ StubTimeout

LEMMA TrackFrame ==
  TypeOK /\ Tracked /\ (StartProcess \/ ButtonStep \/ AddToSettings \/ OtherCall
                        \/ Click \/ ShowPanel \/ UNCHANGED vars) => Tracked'
<1> SUFFICES ASSUME TypeOK, Tracked,
                    StartProcess \/ ButtonStep \/ AddToSettings \/ OtherCall
                    \/ Click \/ ShowPanel \/ UNCHANGED vars
             PROVE  Tracked'
  OBVIOUS
<1>1. CASE StartProcess \/ ButtonStep \/ AddToSettings \/ UNCHANGED vars
  <2>1. /\ UNCHANGED <<inc, calls, wire, phase, objs, pending, kept, panel>> /\ ProcStays
        /\ listed' = listed \/ (phase # "down" /\ listed')
    <3>1. CASE StartProcess
      BY <3>1 DEF StartProcess, tpVars, ProcStays
    <3>2. CASE ButtonStep
      BY <3>2 DEF ButtonStep, PanelShown, PanelHidden,
         HastyClick, ClickOther, StubTimeout, OnlyButton, procVars, ProcStays
    <3>3. CASE AddToSettings
      BY <3>3 DEF AddToSettings, procVars, tpVars, ProcStays
    <3>4. CASE UNCHANGED vars
      BY <3>4 DEF vars, tpVars, ProcStays
    <3>. QED  BY <1>1, <3>1, <3>2, <3>3, <3>4
  <2>. QED  BY <2>1, TrackCalls
<1>2. CASE OtherCall
  <2>1. /\ UNCHANGED <<inc, wire, phase, objs, pending, kept, panel, listed>> /\ ProcStays
        /\ calls # <<>> /\ calls' = Tail(calls)
    BY <1>2 DEF OtherCall, procVars, tpVars, ProcStays
  <2>. QED  BY <2>1, TrackCalls, Handled
<1>3. CASE Click \/ ShowPanel
  <2>1. /\ UNCHANGED <<inc, wire, phase, objs, pending, kept, panel, listed>>
        /\ Send(<<Call("Ping", 0)>>) \/ Send(<<Call("Show", 0)>>)
    BY <1>3 DEF Click, ShowPanel, tpVars
  <2>2. ProcStays /\ (CallsGrew(Call("Ping", 0)) \/ CallsGrew(Call("Show", 0)))
    <3>1. Len(objs) \in Nat /\ calls \in Seq(CallsFor(Len(objs)))
      BY Lengths DEF TypeOK
    <3>. QED  BY <2>1, <3>1, Sent
  <2>. QED  BY <2>1, <2>2, TrackCalls
<1>. QED  BY <1>1, <1>2, <1>3

LEMMA TrackEmit == TypeOK /\ Tracked /\ EmitReady => Tracked'
<1> SUFFICES ASSUME TypeOK, Tracked, EmitReady PROVE Tracked'
  OBVIOUS
<1>. DEFINE m == Message("ready", {}, inc)
<1>1. UNCHANGED <<proc, inc, calls, phase, objs, pending, listed, kept, panel>>
  BY DEF EmitReady, tpVars
<1>2. m \in MessagesTo(Len(objs)) /\ m.kind = "ready"
  BY DEF Message, MessagesTo, TypeOK
<1>3. wire' = wire \/ (phase # "down" /\ WireGrew(1) /\ wire'[Len(wire) + 1] = m)
  <2>1. wire' = wire \/ Deliver(<<m>>)
    BY DEF EmitReady
  <2>2. m \in MessagesTo(Len(objs))
    BY <1>2
  <2>. HIDE DEF m
  <2>3. CASE Deliver(<<m>>)
    BY <2>2, <2>3, DeliveredOne DEF Tracked
  <2>. QED  BY <2>1, <2>3
<1>. HIDE DEF m
<1>l. Len(wire) \in Nat /\ Len(objs) \in Nat /\ Len(calls) \in Nat
  BY Lengths
<1>4. \A i \in 1..Len(wire') : wire'[i].kind = "ready" \/ (i \in 1..Len(wire) /\ wire'[i] = wire[i])
  <2>1. CASE wire' = wire
    BY <2>1
  <2>2. CASE WireGrew(1) /\ wire'[Len(wire) + 1] = m
    BY <1>2, <2>2, <1>l DEF WireGrew
  <2>. QED  BY <1>3, <2>1, <2>2
<1>. USE <1>1, <1>4, <1>l DEF Tracked, Waiting, OfOwner, Answers, Asks
<1>5. Phases'
  <2>1. CASE wire' = wire
    BY <2>1 DEF Phases
  <2>2. CASE WireGrew(1) /\ phase # "down"
    BY <2>2 DEF Phases, WireGrew
  <2>. QED  BY <1>3, <2>1, <2>2
<1>6. OneWaits'
  BY DEF OneWaits
<1>7. AskedOnce'
  BY DEF AskedOnce
<1>8. AnsweredOnce'
  BY DEF AnsweredOnce
<1>9. Replies'
  BY SMTT(30) DEF Replies
<1>10. Bound'
  BY DEF Bound
<1>11. Slotted'
  <2>1. \/ wire' = wire
        \/ \E n \in Nat : /\ WireGrew(n)
                          /\ \A i \in 1..n : wire'[Len(wire) + i].kind \notin {"owner", "gone"}
    <3>1. CASE WireGrew(1) /\ wire'[Len(wire) + 1] = m
      <4>1. \A i \in 1..1 : wire'[Len(wire) + i].kind \notin {"owner", "gone"}
        BY <3>1, <1>2
      <4>. QED  BY <3>1, <4>1
    <3>. QED  BY <3>1, <1>3
  <2>2. ProcStays /\ (panel # 0 => objs'[panel].initialized)
    BY DEF ProcStays, Slotted
  <2>. QED  BY <2>1, <2>2, SlottedStays
<1>. QED  BY <1>5, <1>6, <1>7, <1>8, <1>9, <1>10, <1>11

\* What nobody will answer: an error for each object that asked.
LEMMA UnansweredMeaning ==
  ASSUME NEW n \in Nat, NEW cs \in Seq(CallsFor(n))
  PROVE  LET ms == Unanswered(cs)
         IN /\ ms \in Seq(MessagesTo(n)) /\ Len(ms) \in Nat
            /\ ms = <<>> \/ Len(ms) = 1
            /\ \A i \in 1..Len(ms) :
                 /\ i = 1 /\ ms[i].kind = "error"
                 /\ \A k \in ms[i].objs : \E j \in 1..Len(cs) :
                      cs[j].op = "InitPanel" /\ cs[j].obj = k /\ k # 0
            /\ \A j \in 1..Len(cs) : cs[j].op = "InitPanel" /\ cs[j].obj # 0 =>
                 Len(ms) = 1 /\ cs[j].obj \in ms[1].objs
<1>. DEFINE ks == {cs[i].obj : i \in {j \in 1..Len(cs) : cs[j].op = "InitPanel"}} \ {0}
            m == Message("error", ks, 0)
<1>1. Unanswered(cs) = IF ks = {} THEN <<>> ELSE <<m>>
  BY DEF Unanswered
<1>2. m.kind = "error" /\ m.objs = ks
  BY DEF Message
<1>3. \A k \in ks : \E j \in 1..Len(cs) : cs[j].op = "InitPanel" /\ cs[j].obj = k /\ k # 0
  OBVIOUS
<1>4. \A j \in 1..Len(cs) : cs[j].op = "InitPanel" /\ cs[j].obj # 0 => cs[j].obj \in ks
  OBVIOUS
<1>5. Unanswered(cs) \in Seq(MessagesTo(n))
  BY UnansweredType
<1>. HIDE DEF ks, m
<1>6. CASE ks = {}
  BY <1>1, <1>4, <1>5, <1>6, EmptySeq
<1>7. CASE ks # {}
  <2>1. /\ Unanswered(cs) = <<m>> /\ Len(<<m>>) = 1 /\ <<m>>[1] = m
    BY <1>1, <1>7
  <2>2. Unanswered(cs)[1] = m /\ Len(Unanswered(cs)) = 1
    BY <2>1, Zenon
  <2>. QED  BY <1>2, <1>3, <1>4, <1>5, <2>2
<1>. QED  BY <1>6, <1>7

\* Nobody whose process answered still waits.
NoHandshake ==
  \A k \in 1..Len(objs) : objs[k].alive =>
    /\ ~(objs[k].fresh /\ objs[k].initialized)
    /\ \A i \in 1..Len(wire) : ~(wire[i].kind = "reply" /\ k \in wire[i].objs)

\* What a step adds to wire when it ends the process or its activation.
Farewell(n) ==
  /\ WireGrew(n)
  /\ \A i \in 1..n :
       \/ /\ i = 1 /\ proc = "up"
          /\ wire'[Len(wire) + i].kind = "gone" /\ wire'[Len(wire) + i].inc = inc
       \/ /\ i = n /\ wire'[Len(wire) + i].kind = "error"
          /\ \A k \in wire'[Len(wire) + i].objs :
               k # 0 /\ \E j \in 1..Len(calls) : Asks(j, k)
  /\ proc = "up" => /\ 1 \in 1..n /\ wire'[Len(wire) + 1].kind = "gone"
                    /\ wire'[Len(wire) + 1].inc = inc
  /\ \A j \in 1..Len(calls) : calls[j].op = "InitPanel" /\ calls[j].obj # 0 =>
       /\ n \in 1..n /\ wire'[Len(wire) + n].kind = "error"
       /\ calls[j].obj \in wire'[Len(wire) + n].objs

LEMMA TrackFarewell ==
  ASSUME TypeOK, Tracked, NoHandshake,
         UNCHANGED <<inc, phase, objs, pending, listed, kept, panel>>,
         proc' # "up", calls' = <<>>,
         phase = "down" => wire' = wire,
         phase # "down" => \E n \in Nat : Farewell(n)
  PROVE  Tracked'
<1>l. Len(wire) \in Nat /\ Len(objs) \in Nat /\ Len(calls) \in Nat /\ Len(calls') = 0
  BY Lengths, EmptySeq
<1>1. CASE phase = "down"
  <2>1. wire' = wire /\ panel = 0 /\ Len(objs) = 0
    BY <1>1, EmptySeq DEF Tracked, Phases
  <2>. QED
    BY <1>1, <1>l, <2>1 DEF Tracked, Phases, OneWaits, AskedOnce, AnsweredOnce, Replies,
       Bound, Slotted, Waiting
<1>2. CASE phase # "down"
  <2>1. PICK n \in Nat : Farewell(n)
    BY <1>2
  <2>g. WireGrew(n)
    BY <2>1 DEF Farewell
  <2>n. \A i \in 1..Len(wire') :
          \/ i \in 1..Len(wire) /\ wire'[i] = wire[i]
          \/ i = Len(wire) + 1 /\ proc = "up" /\ wire'[i].kind = "gone" /\ wire'[i].inc = inc
          \/ /\ i = Len(wire) + n /\ i > Len(wire) /\ wire'[i].kind = "error"
             /\ \A k \in wire'[i].objs : k # 0 /\ \E j \in 1..Len(calls) : Asks(j, k)
    <3> SUFFICES ASSUME NEW i \in 1..Len(wire'), i \notin 1..Len(wire)
                 PROVE  \/ i = Len(wire) + 1 /\ proc = "up" /\ wire'[i].kind = "gone"
                           /\ wire'[i].inc = inc
                        \/ /\ i = Len(wire) + n /\ i > Len(wire) /\ wire'[i].kind = "error"
                           /\ \A k \in wire'[i].objs :
                                k # 0 /\ \E j \in 1..Len(calls) : Asks(j, k)
      BY <2>g DEF WireGrew
    <3>1. i - Len(wire) \in 1..n /\ i = Len(wire) + (i - Len(wire)) /\ i > Len(wire)
      BY <2>g, <1>l DEF WireGrew
    <3>. QED  BY <2>1, <3>1 DEF Farewell
  <2>3. Phases'
    BY <1>2, <2>g, <2>n, <1>l DEF Tracked, Phases, WireGrew
  <2>4. OneWaits'
    BY DEF Tracked, OneWaits, Waiting
  <2>5. AskedOnce'
    BY <1>l DEF AskedOnce
  <2>6. AnsweredOnce'
    <3> SUFFICES ASSUME NEW k \in 1..Len(objs), objs[k].alive,
                        NEW i \in 1..Len(wire'), Answers(i, k)'
                 PROVE  /\ objs[k].fresh /\ ~objs[k].initialized
                        /\ \A j \in 1..Len(wire') : Answers(j, k)' => j = i
      BY DEF AnsweredOnce
    <3>1. \A j \in 1..Len(wire') : Answers(j, k)' =>
            \/ j \in 1..Len(wire) /\ Answers(j, k)
            \/ j = Len(wire) + n /\ \E a \in 1..Len(calls) : Asks(a, k)
      BY <2>n DEF Answers
    <3>2. CASE \E a \in 1..Len(calls) : Asks(a, k)
      <4>1. /\ objs[k].fresh /\ ~objs[k].initialized
            /\ \A j \in 1..Len(wire) : ~Answers(j, k)
        BY <3>2 DEF Tracked, AskedOnce
      <4>. QED  BY <3>1, <4>1
    <3>3. CASE ~\E a \in 1..Len(calls) : Asks(a, k)
      <4>1. i \in 1..Len(wire) /\ Answers(i, k)
        BY <3>1, <3>3
      <4>. QED  BY <3>1, <3>3, <4>1 DEF Tracked, AnsweredOnce
    <3>. QED  BY <3>2, <3>3
  <2>7. Replies'
    BY <2>n DEF Replies, NoHandshake
  <2>8. Bound'
    BY DEF Bound, NoHandshake, Waiting
  <2>9. Slotted'
    <3> SUFFICES ASSUME panel # 0 PROVE Slotted'
      BY DEF Slotted
    <3>1. /\ objs[panel].initialized /\ objs[panel].owner # 0
          /\ objs[panel].xid = objs[panel].owner /\ objs[panel].owner <= inc
          /\ LivePanel \/ DeadPanel
      BY DEF Tracked, Slotted
    <3>2. DeadPanel'
      <4>1. CASE LivePanel
        <5>1. /\ Len(wire) + 1 \in 1..Len(wire') /\ wire'[Len(wire) + 1].kind = "gone"
              /\ wire'[Len(wire) + 1].inc = objs[panel].owner
          BY <2>1, <4>1, <1>l DEF LivePanel, Farewell, WireGrew
        <5>2. \A i \in 1..Len(wire') : i < Len(wire) + 1 => ~OfOwner(i)'
          BY <4>1, <2>g, <1>l DEF LivePanel, OfOwner, WireGrew
        <5>. QED  BY <5>1, <5>2 DEF DeadPanel
      <4>2. CASE DeadPanel
        <5>1. PICK j \in 1..Len(wire) :
                /\ wire[j].kind = "gone" /\ wire[j].inc = objs[panel].owner
                /\ \A i \in 1..Len(wire) : i < j => ~OfOwner(i)
          BY <4>2 DEF DeadPanel
        <5>2. j \in 1..Len(wire') /\ wire'[j] = wire[j]
          BY <2>g DEF WireGrew
        <5>3. \A i \in 1..Len(wire') : i < j => ~OfOwner(i)'
          BY <5>1, <2>g, <1>l DEF OfOwner, WireGrew
        <5>. QED  BY <5>1, <5>2, <5>3 DEF DeadPanel
      <4>. QED  BY <3>1, <4>1, <4>2
    <3>. QED  BY <3>1, <3>2 DEF Slotted
  <2>. QED  BY <2>3, <2>4, <2>5, <2>6, <2>7, <2>8, <2>9 DEF Tracked
<1>. QED  BY <1>1, <1>2

LEMMA DeadMessages ==
  ASSUME TypeOK, Phases, proc = "up", phase # "down",
         NEW cs \in Seq(CallsFor(Len(objs))),
         \A j \in 1..Len(cs) : \E i \in 1..Len(calls) : calls[i] = cs[j],
         \A i \in 1..Len(calls) : calls[i].op = "InitPanel" =>
           \E j \in 1..Len(cs) : calls[i] = cs[j],
         Deliver(<<Message("gone", {}, inc)>> \o Unanswered(cs))
  PROVE  \E n \in Nat : Farewell(n)
<1>. DEFINE g == Message("gone", {}, inc)
            us == Unanswered(cs)
            ms == <<g>> \o us
<1>l. Len(wire) \in Nat /\ Len(objs) \in Nat /\ Len(calls) \in Nat
  BY Lengths
<1>1. g \in MessagesTo(Len(objs)) /\ g.kind = "gone" /\ g.inc = inc
  BY DEF Message, MessagesTo, TypeOK
<1>2. /\ us \in Seq(MessagesTo(Len(objs))) /\ Len(us) \in Nat
      /\ us = <<>> \/ Len(us) = 1
      /\ \A i \in 1..Len(us) :
           /\ i = 1 /\ us[i].kind = "error"
           /\ \A k \in us[i].objs : \E j \in 1..Len(cs) :
                cs[j].op = "InitPanel" /\ cs[j].obj = k /\ k # 0
      /\ \A j \in 1..Len(cs) : cs[j].op = "InitPanel" /\ cs[j].obj # 0 =>
           Len(us) = 1 /\ cs[j].obj \in us[1].objs
  BY <1>l, UnansweredMeaning
<1>. HIDE DEF us, g
<1>3. /\ ms \in Seq(MessagesTo(Len(objs))) /\ Len(ms) = 1 + Len(us) /\ ms[1] = g
      /\ \A i \in 1..Len(us) : ms[1 + i] = us[i]
  <2>1. <<g>> \in Seq(MessagesTo(Len(objs))) /\ Len(<<g>>) = 1 /\ <<g>>[1] = g
    BY <1>1
  <2>. QED  BY <1>2, <2>1, ConcatProperties
<1>4. Deliver(ms)
  BY DEF us, g
<1>. HIDE DEF ms
<1>5. WireGrew(Len(ms)) /\ \A i \in 1..Len(ms) : wire'[Len(wire) + i] = ms[i]
  BY <1>3, <1>4, Delivered, Zenon
<1>6. \A i \in 1..Len(ms) :
        \/ i = 1 /\ ms[i].kind = "gone" /\ ms[i].inc = inc
        \/ /\ i = Len(ms) /\ ms[i].kind = "error"
           /\ \A k \in ms[i].objs : k # 0 /\ \E j \in 1..Len(calls) : Asks(j, k)
  <2> SUFFICES ASSUME NEW i \in 1..Len(ms), i # 1
               PROVE  /\ i = Len(ms) /\ ms[i].kind = "error"
                      /\ \A k \in ms[i].objs : k # 0 /\ \E j \in 1..Len(calls) : Asks(j, k)
    BY <1>1, <1>3
  <2>1. Len(us) = 1 /\ i = 2 /\ Len(ms) = 2 /\ ms[i] = us[1]
    <3>1. us # <<>>
      BY <1>2, <1>3, EmptySeq
    <3>. QED  BY <1>2, <1>3, <3>1
  <2>2. /\ us[1].kind = "error"
        /\ \A k \in us[1].objs : \E j \in 1..Len(cs) :
             cs[j].op = "InitPanel" /\ cs[j].obj = k /\ k # 0
    BY <1>2, <2>1
  <2>. QED  BY <2>1, <2>2, SMTT(30) DEF Asks
<1>7. Farewell(Len(ms))
  <2>1. 1 \in 1..Len(ms)
    BY <1>2, <1>3
  <2>2. ASSUME NEW j \in 1..Len(calls), calls[j].op = "InitPanel", calls[j].obj # 0
        PROVE  /\ Len(ms) \in 1..Len(ms) /\ wire'[Len(wire) + Len(ms)].kind = "error"
               /\ calls[j].obj \in wire'[Len(wire) + Len(ms)].objs
    <3>1. Len(us) = 1 /\ calls[j].obj \in us[1].objs /\ us[1].kind = "error"
      BY <1>2, <2>2, SMTT(30)
    <3>2. Len(ms) = 2 /\ 2 \in 1..Len(ms) /\ ms[2] = us[1]
      BY <1>2, <1>3, <3>1
    <3>3. wire'[Len(wire) + 2] = ms[2]
      BY <1>5, <3>2
    <3>. QED  BY <3>1, <3>2, <3>3
  <2>3. \A i \in 1..Len(ms) :
         \/ /\ i = 1 /\ proc = "up"
            /\ wire'[Len(wire) + i].kind = "gone" /\ wire'[Len(wire) + i].inc = inc
         \/ /\ i = Len(ms) /\ wire'[Len(wire) + i].kind = "error"
            /\ \A k \in wire'[Len(wire) + i].objs :
                 k # 0 /\ \E j \in 1..Len(calls) : Asks(j, k)
    BY <1>5, <1>6
  <2>. QED  BY <1>1, <1>3, <1>5, <2>1, <2>2, <2>3 DEF Farewell
<1>. QED  BY <1>2, <1>3, <1>7

\* How the process, or its activation, ends.
LEMMA DieSays ==
  ASSUME TypeOK, Tracked, Die
  PROVE  /\ phase = "down" => wire' = wire
         /\ phase # "down" => \E n \in Nat : Farewell(n)
<1>1. Deliver(<<Message("gone", {}, inc)>> \o Unanswered(calls)) /\ proc = "up"
  BY DEF Die
<1>2. phase = "down" => wire' = wire
  BY <1>1 DEF Deliver
<1>. QED  BY <1>1, <1>2, DeadMessages DEF TypeOK, Tracked

LEMMA FailureSays ==
  ASSUME TypeOK, Tracked, ActivationFails
  PROVE  /\ phase = "down" => wire' = wire
         /\ phase # "down" => \E n \in Nat : Farewell(n)
<1>1. proc # "up" /\ Deliver(Unanswered(calls))
  BY DEF ActivationFails
<1>2. phase = "down" => wire' = wire
  BY <1>1 DEF Deliver
<1>3. ASSUME phase # "down" PROVE \E n \in Nat : Farewell(n)
  <2>. DEFINE us == Unanswered(calls)
  <2>l. Len(wire) \in Nat /\ Len(objs) \in Nat /\ Len(calls) \in Nat
    BY Lengths
  <2>1. /\ us \in Seq(MessagesTo(Len(objs))) /\ Len(us) \in Nat
        /\ us = <<>> \/ Len(us) = 1
        /\ \A i \in 1..Len(us) :
             /\ i = 1 /\ us[i].kind = "error"
             /\ \A k \in us[i].objs : \E j \in 1..Len(calls) :
                  calls[j].op = "InitPanel" /\ calls[j].obj = k /\ k # 0
        /\ \A j \in 1..Len(calls) : calls[j].op = "InitPanel" /\ calls[j].obj # 0 =>
             Len(us) = 1 /\ calls[j].obj \in us[1].objs
    BY <2>l, UnansweredMeaning DEF TypeOK
  <2>. HIDE DEF us
  <2>2. WireGrew(Len(us)) /\ \A i \in 1..Len(us) : wire'[Len(wire) + i] = us[i]
    BY <1>1, <1>3, <2>1, Delivered, Zenon DEF Tracked, us
  <2>3. \A i \in 1..Len(us) : i = Len(us)
    BY <2>1, EmptySeq
  <2>4. \A j \in 1..Len(calls) : calls[j].op = "InitPanel" /\ calls[j].obj # 0 =>
          /\ Len(us) \in 1..Len(us) /\ wire'[Len(wire) + Len(us)].kind = "error"
          /\ calls[j].obj \in wire'[Len(wire) + Len(us)].objs
    BY <2>1, <2>2
  <2>5. Farewell(Len(us))
    BY <1>1, <2>1, <2>2, <2>3, <2>4 DEF Farewell, Asks
  <2>. QED  BY <2>1, <2>5
<1>. QED  BY <1>2, <1>3

LEMMA EndsWithFarewell ==
  ASSUME TypeOK, Tracked, Die \/ ActivationFails
  PROVE  /\ UNCHANGED <<inc, phase, objs, pending, listed, kept, panel>>
         /\ proc' # "up" /\ calls' = <<>>
         /\ phase = "down" => wire' = wire
         /\ phase # "down" => \E n \in Nat : Farewell(n)
<1>1. /\ UNCHANGED <<inc, phase, objs, pending, listed, kept, panel>>
      /\ proc' # "up" /\ calls' = <<>>
  BY DEF Die, ActivationFails, Exit, tpVars
<1>. QED  BY <1>1, DieSays, FailureSays

LEMMA TrackEnd ==
  ASSUME TypeOK, Tracked,
         (Die /\ "handshake death" \notin Faults) \/ ActivationFails
  PROVE  Tracked'
<1>1. NoHandshake
  <2>1. CASE Die /\ "handshake death" \notin Faults
    BY <2>1 DEF Die, NoHandshake, InHandshake, Tracked, Replies, Bound, Waiting
  <2>2. CASE ActivationFails
    BY <2>2 DEF ActivationFails, NoHandshake, Tracked, Replies, Bound, Waiting
  <2>. QED  BY <2>1, <2>2
<1>. QED  BY <1>1, EndsWithFarewell, TrackFarewell

\* Nothing goes wrong between the toolbar and the panel.
AllAnswered == Faults \subseteq {"hasty click"}

\* What InitPanel of object k sends: Ready again, if so, then its answer.
Answer(n, k) ==
  /\ WireGrew(n)
  /\ \A i \in 1..n :
       \/ wire'[Len(wire) + i].kind = "ready"
       \/ /\ i = n /\ wire'[Len(wire) + i].kind \in {"reply", "error"}
          /\ wire'[Len(wire) + i].objs \subseteq {k} \ {0}
          /\ wire'[Len(wire) + i].kind = "reply" => wire'[Len(wire) + i].inc = inc
  /\ AllAnswered =>
       /\ \A i \in 1..n : wire'[Len(wire) + i].kind # "error"
       /\ k # 0 => /\ n \in 1..n /\ wire'[Len(wire) + n].kind = "reply"
                   /\ k \in wire'[Len(wire) + n].objs
       /\ emitted => \E i \in 1..n : wire'[Len(wire) + i].kind = "ready"

LEMMA ShortConcat ==
  ASSUME NEW a, NEW r, NEW xs \in {<<>>, <<a>>}, NEW ys \in {<<>>, <<r>>}
  PROVE  /\ Len(xs \o ys) \in Nat
         /\ \A i \in 1..Len(xs \o ys) :
              \/ (xs \o ys)[i] = a
              \/ i = Len(xs \o ys) /\ (xs \o ys)[i] = r /\ ys # <<>>
         /\ xs # <<>> => 1 \in 1..Len(xs \o ys) /\ (xs \o ys)[1] = a
         /\ ys # <<>> => /\ Len(xs \o ys) \in 1..Len(xs \o ys)
                         /\ (xs \o ys)[Len(xs \o ys)] = r
<1>1. CASE xs = <<>> /\ ys = <<>>
  BY <1>1
<1>2. CASE xs = <<a>> /\ ys = <<>>
  BY <1>2
<1>3. CASE xs = <<>> /\ ys = <<r>>
  BY <1>3
<1>4. CASE xs = <<a>> /\ ys = <<r>>
  BY <1>4
<1>. QED  BY <1>1, <1>2, <1>3, <1>4

LEMMA InitPanelAnswers ==
  ASSUME TypeOK, Phases, InitPanel, phase # "down"
  PROVE  \E n \in Nat : Answer(n, calls[1].obj)
<1>. DEFINE k == Head(calls).obj
            r == Message("reply", {k}, inc)
            e == Message("error", {k} \ {0}, 0)
            a == Message("ready", {}, inc)
<1>l. Len(wire) \in Nat /\ Len(objs) \in Nat /\ Len(calls) \in Nat /\ inc \in Nat
  BY Lengths
<1>1. k \in 0..Len(objs) /\ k = calls[1].obj
  <2>1. calls # <<>> /\ calls' = Tail(calls)
    BY DEF InitPanel
  <2>. QED  BY <2>1, Handled DEF CallsFor
<1>2. /\ e \in MessagesTo(Len(objs)) /\ a \in MessagesTo(Len(objs))
      /\ k # 0 => r \in MessagesTo(Len(objs))
      /\ a.kind = "ready" /\ r.kind = "reply" /\ r.objs = {k} /\ r.inc = inc
      /\ e.kind = "error" /\ e.objs = {k} \ {0}
  BY <1>l, <1>1 DEF Message, MessagesTo
<1>3. \/ Deliver(Announcement \o (IF k = 0 THEN <<>> ELSE <<r>>))
      \/ Deliver(<<e>>) /\ ~AllAnswered
  BY DEF InitPanel, AllAnswered
<1>. DEFINE ann == Announcement
            rs == IF k = 0 THEN <<>> ELSE <<r>>
<1>4. (ann = <<>> /\ ~emitted) \/ (ann = <<a>> /\ ann # <<>>)
  BY DEF Announcement
<1>. HIDE DEF k, r, e, a, ann
<1>5. CASE Deliver(<<e>>) /\ ~AllAnswered
  <2>1. WireGrew(1) /\ wire'[Len(wire) + 1] = e
    BY <1>2, <1>5, DeliveredOne
  <2>2. Answer(1, k)
    BY <1>2, <1>5, <2>1 DEF Answer
  <2>. QED  BY <1>1, <2>2
<1>6. CASE Deliver(ann \o rs)
  <2>1. ann \in {<<>>, <<a>>} /\ rs \in {<<>>, <<r>>}
    BY <1>4
  <2>. DEFINE ms == ann \o rs
  <2>2. (rs = <<>>) <=> (k = 0)
    OBVIOUS
  <2>. HIDE DEF rs
  <2>3. /\ Len(ms) \in Nat
        /\ \A i \in 1..Len(ms) : \/ ms[i] = a
                                 \/ i = Len(ms) /\ ms[i] = r /\ rs # <<>>
        /\ ann # <<>> => 1 \in 1..Len(ms) /\ ms[1] = a
        /\ rs # <<>> => Len(ms) \in 1..Len(ms) /\ ms[Len(ms)] = r
    <3>1. \A xs \in {<<>>, <<a>>}, ys \in {<<>>, <<r>>} :
            /\ Len(xs \o ys) \in Nat
            /\ \A i \in 1..Len(xs \o ys) :
                 \/ (xs \o ys)[i] = a
                 \/ i = Len(xs \o ys) /\ (xs \o ys)[i] = r /\ ys # <<>>
            /\ xs # <<>> => 1 \in 1..Len(xs \o ys) /\ (xs \o ys)[1] = a
            /\ ys # <<>> => /\ Len(xs \o ys) \in 1..Len(xs \o ys)
                            /\ (xs \o ys)[Len(xs \o ys)] = r
      BY ShortConcat, Zenon
    <3>. QED  BY <2>1, <3>1, Zenon
  <2>4. ms \in Seq(MessagesTo(Len(objs)))
    <3>1. ann \in Seq(MessagesTo(Len(objs)))
      <4>1. <<a>> \in Seq(MessagesTo(Len(objs))) /\ <<>> \in Seq(MessagesTo(Len(objs)))
        BY <1>2
      <4>. QED  BY <2>1, <4>1, Zenon
    <3>2. rs \in Seq(MessagesTo(Len(objs)))
      <4>1. k # 0 => <<r>> \in Seq(MessagesTo(Len(objs)))
        BY <1>2
      <4>2. <<>> \in Seq(MessagesTo(Len(objs)))
        OBVIOUS
      <4>. QED  BY <2>1, <2>2, <4>1, <4>2, Zenon
    <3>. QED  BY <3>1, <3>2, ConcatProperties
  <2>. HIDE DEF ms
  <2>5. WireGrew(Len(ms)) /\ \A i \in 1..Len(ms) : wire'[Len(wire) + i] = ms[i]
    BY <1>6, <2>4, Delivered, Zenon DEF ms
  <2>6. Answer(Len(ms), k)
    <3>1. \A i \in 1..Len(ms) :
           \/ wire'[Len(wire) + i].kind = "ready"
           \/ /\ i = Len(ms) /\ wire'[Len(wire) + i].kind = "reply"
              /\ wire'[Len(wire) + i].objs \subseteq {k} \ {0}
              /\ wire'[Len(wire) + i].inc = inc
      BY <1>2, <2>2, <2>3, <2>5
    <3>2. k # 0 => /\ Len(ms) \in 1..Len(ms) /\ wire'[Len(wire) + Len(ms)].kind = "reply"
                   /\ k \in wire'[Len(wire) + Len(ms)].objs
      BY <1>2, <2>2, <2>3, <2>5
    <3>3. emitted => \E i \in 1..Len(ms) : wire'[Len(wire) + i].kind = "ready"
      BY <1>2, <1>4, <2>3, <2>5
    <3>. QED  BY <2>5, <3>1, <3>2, <3>3 DEF Answer
  <2>. QED  BY <1>1, <2>3, <2>6
<1>. QED  BY <1>3, <1>5, <1>6 DEF ann

LEMMA TrackInitPanel ==
  ASSUME TypeOK, Tracked, InitPanel
  PROVE  Tracked'
<1>l. Len(wire) \in Nat /\ Len(objs) \in Nat /\ Len(calls) \in Nat /\ inc \in Nat
  BY Lengths
<1>1. /\ UNCHANGED <<proc, inc, phase, objs, pending, listed, kept, panel>>
      /\ proc = "up" /\ calls # <<>> /\ calls' = Tail(calls)
      /\ Head(calls).op = "InitPanel"
  BY DEF InitPanel, tpVars
<1>. DEFINE k == calls[1].obj
<1>2. CallsShrank /\ calls[1].op = "InitPanel"
  BY <1>1, Handled
<1>3. phase = "down" => wire' = wire
  BY DEF InitPanel, Deliver
<1>4. CASE phase = "down"
  <2>1. wire' = wire /\ panel = 0 /\ Len(objs) = 0
    BY <1>3, <1>4, EmptySeq DEF Tracked, Phases
  <2>. QED
    BY <1>4, <1>1, <2>1 DEF Tracked, Phases, OneWaits, AskedOnce, AnsweredOnce, Replies,
       Bound, Slotted, Waiting
<1>5. CASE phase # "down"
  <2>1. PICK n \in Nat : Answer(n, k)
    BY <1>5, InitPanelAnswers DEF Tracked
  <2>g. WireGrew(n)
    BY <2>1 DEF Answer
  <2>. HIDE DEF k
  <2>n. \A i \in 1..Len(wire') :
          \/ i \in 1..Len(wire) /\ wire'[i] = wire[i]
          \/ i > Len(wire) /\ wire'[i].kind = "ready"
          \/ /\ i = Len(wire) + n /\ i > Len(wire) /\ wire'[i].kind \in {"reply", "error"}
             /\ wire'[i].objs \subseteq {k} \ {0}
             /\ wire'[i].kind = "reply" => wire'[i].inc = inc
    <3> SUFFICES ASSUME NEW i \in 1..Len(wire'), i \notin 1..Len(wire)
                 PROVE  \/ i > Len(wire) /\ wire'[i].kind = "ready"
                        \/ /\ i = Len(wire) + n /\ i > Len(wire)
                           /\ wire'[i].kind \in {"reply", "error"}
                           /\ wire'[i].objs \subseteq {k} \ {0}
                           /\ wire'[i].kind = "reply" => wire'[i].inc = inc
      BY <2>g DEF WireGrew
    <3>1. i - Len(wire) \in 1..n /\ i = Len(wire) + (i - Len(wire)) /\ i > Len(wire)
      BY <2>g, <1>l DEF WireGrew
    <3>. QED  BY <2>1, <3>1 DEF Answer
  <2>a. 1 \in 1..Len(calls) /\ Asks(1, k)
    BY <1>2 DEF CallsShrank, Asks, k
  <2>c. \A i \in 1..Len(calls') : i + 1 \in 1..Len(calls) /\ calls'[i] = calls[i + 1]
    BY <1>2 DEF CallsShrank
  <2>3. Phases'
    BY <1>1, <1>5, <2>g, <2>n, <1>l DEF Tracked, Phases, WireGrew
  <2>4. OneWaits'
    BY <1>1 DEF Tracked, OneWaits, Waiting
  <2>5. AskedOnce'
    <3> SUFFICES ASSUME NEW x \in 1..Len(objs), NEW i \in 1..Len(calls'),
                        objs[x].alive, Asks(i, x)'
                 PROVE  /\ objs[x].fresh /\ ~objs[x].initialized
                        /\ \A j \in 1..Len(calls') : Asks(j, x)' => j = i
                        /\ \A j \in 1..Len(wire') : ~Answers(j, x)'
      BY <1>1 DEF AskedOnce
    <3>1. i + 1 \in 1..Len(calls) /\ Asks(i + 1, x)
      BY <2>c DEF Asks
    <3>2. /\ objs[x].fresh /\ ~objs[x].initialized
          /\ \A j \in 1..Len(calls) : Asks(j, x) => j = i + 1
          /\ \A j \in 1..Len(wire) : ~Answers(j, x)
      BY <3>1 DEF Tracked, AskedOnce
    <3>3. x # k
      BY <2>a, <3>2
    <3>4. \A j \in 1..Len(calls') : Asks(j, x)' => j = i
      <4> SUFFICES ASSUME NEW j \in 1..Len(calls'), Asks(j, x)' PROVE j = i
        OBVIOUS
      <4>1. j + 1 \in 1..Len(calls) /\ Asks(j + 1, x)
        BY <2>c DEF Asks
      <4>2. j + 1 = i + 1
        BY <3>2, <4>1
      <4>. QED  BY <4>2
    <3>5. \A j \in 1..Len(wire') : ~Answers(j, x)'
      BY <2>n, <3>2, <3>3 DEF Answers
    <3>. QED  BY <3>2, <3>4, <3>5
  <2>6. AnsweredOnce'
    <3> SUFFICES ASSUME NEW x \in 1..Len(objs), objs[x].alive,
                        NEW i \in 1..Len(wire'), Answers(i, x)'
                 PROVE  /\ objs[x].fresh /\ ~objs[x].initialized
                        /\ \A j \in 1..Len(wire') : Answers(j, x)' => j = i
      BY <1>1 DEF AnsweredOnce
    <3>1. \A j \in 1..Len(wire') : Answers(j, x)' =>
            \/ j \in 1..Len(wire) /\ Answers(j, x)
            \/ j = Len(wire) + n /\ x = k
      BY <2>n DEF Answers
    <3>2. CASE x = k
      <4>1. /\ objs[x].fresh /\ ~objs[x].initialized
            /\ \A j \in 1..Len(wire) : ~Answers(j, x)
        BY <2>a, <3>2 DEF Tracked, AskedOnce
      <4>. QED  BY <3>1, <4>1
    <3>3. CASE x # k
      <4>1. i \in 1..Len(wire) /\ Answers(i, x)
        BY <3>1, <3>3
      <4>. QED  BY <3>1, <3>3, <4>1 DEF Tracked, AnsweredOnce
    <3>. QED  BY <3>2, <3>3
  <2>7. Replies'
    <3> SUFFICES ASSUME NEW x \in 1..Len(objs), NEW i \in 1..Len(wire'),
                        objs[x].alive, wire'[i].kind = "reply", x \in wire'[i].objs
                 PROVE  /\ wire'[i].inc = inc
                        /\ \A j \in 1..Len(wire') : j > i => ~OfOwner(j)'
      BY <1>1 DEF Replies
    <3>1. CASE i \in 1..Len(wire) /\ wire'[i] = wire[i]
      <4>1. /\ wire[i].inc = inc
            /\ \A j \in 1..Len(wire) : j > i => ~OfOwner(j)
        BY <3>1 DEF Tracked, Replies
      <4>2. \A j \in 1..Len(wire') : j > i => ~OfOwner(j)'
        BY <4>1, <2>n DEF OfOwner
      <4>. QED  BY <3>1, <4>1, <4>2
    <3>2. CASE i = Len(wire) + n /\ x = k /\ wire'[i].inc = inc
      <4>1. \A j \in 1..Len(wire') : ~(j > i)
        BY <2>g, <3>2, <1>l DEF WireGrew
      <4>. QED  BY <3>2, <4>1
    <3>. QED  BY <2>n, <3>1, <3>2
  <2>8. Bound'
    BY <1>1, <2>c, <2>n DEF Tracked, Bound, Waiting, OfOwner
  <2>9. Slotted'
    <3>1. \A i \in 1..n : wire'[Len(wire) + i].kind \notin {"owner", "gone"}
      BY <2>1 DEF Answer
    <3>2. ProcStays /\ Slotted /\ (panel # 0 => objs'[panel].initialized)
      BY <1>1 DEF ProcStays, Tracked, Slotted
    <3>3. /\ panel' = panel /\ inc' = inc
          /\ panel # 0 => /\ objs'[panel].owner = objs[panel].owner
                          /\ objs'[panel].xid = objs[panel].xid
                          /\ objs'[panel].initialized
      BY <1>1, <3>2
    <3>. QED  BY <2>g, <3>1, <3>2, <3>3, SlottedStays
  <2>. QED  BY <2>3, <2>4, <2>5, <2>6, <2>7, <2>8, <2>9 DEF Tracked
<1>. QED  BY <1>4, <1>5

LEMMA TrackToolbar ==
  ASSUME TypeOK, Tracked, StartToolbar \/ ToolbarDies
  PROVE  Tracked'
<1>1. Len(<<>>) = 0
  BY EmptySeq
<1>2. objs' = <<>> /\ pending' = 0 /\ panel' = 0
  BY DEF StartToolbar, ToolbarDies, Tracked, Phases, tpVars
<1>3. Phases'
  <2>1. CASE StartToolbar
    <3>. DEFINE m == Message("names", {}, IF proc = "up" THEN inc ELSE 0)
    <3>1. m.kind = "names"
      BY DEF Message
    <3>2. /\ wire' = <<m>> /\ phase' = "listing" /\ listed' = TRUE /\ kept' = TRUE
          /\ UNCHANGED <<proc, inc, objs, pending, panel>>
      BY <2>1 DEF StartToolbar, procVars, tpVars
    <3>. HIDE DEF m
    <3>3. Len(wire') = 1 /\ wire'[1] = m
      BY <3>2
    <3>. QED  BY <1>2, <3>1, <3>2, <3>3 DEF Tracked, Phases
  <2>2. CASE ToolbarDies
    BY <1>1, <1>2, <2>2 DEF ToolbarDies, Tracked, Phases
  <2>. QED  BY <2>1, <2>2
<1>. QED
  BY <1>1, <1>2, <1>3 DEF Tracked, OneWaits, AskedOnce, AnsweredOnce, Replies, Bound, Slotted

LEMMA TrackRemove ==
  ASSUME TypeOK, Tracked, RemoveFromSettings
  PROVE  Tracked'
<1>l. Len(wire) \in Nat /\ Len(objs) \in Nat /\ Len(calls) \in Nat /\ pending \in Nat
  BY Lengths
<1>1. /\ UNCHANGED <<inc, wire, phase, objs>> /\ listed
      /\ listed' = FALSE /\ kept' = FALSE /\ panel' = 0
      /\ pending' = IF panel = 0 THEN pending ELSE Unlist(1)
  BY DEF RemoveFromSettings
<1>2. \/ panel = 0 /\ calls' = calls /\ proc' = proc
      \/ panel # 0 /\ CallsGrew(Call("Unload", 0)) /\ ProcStays
  <2>1. panel = 0 => Send(<<>>)
    BY DEF RemoveFromSettings
  <2>2. panel # 0 => Send(<<Call("Unload", 0)>>)
    BY DEF RemoveFromSettings
  <2>3. calls \in Seq(CallsFor(Len(objs)))
    BY DEF TypeOK
  <2>. QED  BY <1>l, <2>1, <2>2, <2>3, Sent, SentNothing
<1>3. CASE panel = 0
  BY <1>1, <1>2, <1>3 DEF Tracked, Phases, OneWaits, AskedOnce, AnsweredOnce, Replies, Bound,
     Slotted, Waiting, Asks, Answers, OfOwner
<1>4. CASE panel # 0
  <2>1. \A k \in 1..Len(objs) : ~Waiting(k)
    BY <1>4 DEF Tracked, OneWaits
  <2>2. pending = 0 /\ pending' = 0
    BY <1>1, <1>4, <2>1 DEF Tracked, OneWaits, Unlist
  <2>3. Phases'
    BY <1>1, <1>2, <1>4, <2>2 DEF Tracked, Phases, ProcStays
  <2>4. OneWaits'
    BY <1>1, <2>1, <2>2 DEF Tracked, OneWaits, Waiting
  <2>5. AskedOnce'
    <3>1. \A k \in 1..Len(objs), i \in 1..Len(calls) : objs[k].alive => ~Asks(i, k)
      BY <2>1 DEF Tracked, AskedOnce, Waiting
    <3>2. \A k \in 1..Len(objs), i \in 1..Len(calls') : objs[k].alive => ~Asks(i, k)'
      BY <1>2, <1>4, <3>1 DEF CallsGrew, Call, Asks
    <3>. QED  BY <1>1, <3>2 DEF AskedOnce
  <2>6. AnsweredOnce' /\ Replies'
    <3>1. \A k \in 1..Len(objs), i \in 1..Len(wire) : objs[k].alive => ~Answers(i, k)
      BY <2>1 DEF Tracked, AnsweredOnce, Waiting
    <3>. QED  BY <1>1, <3>1 DEF AnsweredOnce, Replies, Answers
  <2>7. Bound' /\ Slotted'
    BY <1>1, <2>1 DEF Bound, Slotted, Waiting
  <2>. QED  BY <2>3, <2>4, <2>5, <2>6, <2>7 DEF Tracked
<1>. QED  BY <1>3, <1>4

\* The phase after the toolbar takes the first message of wire.
LEMMA PhasesDrop ==
  ASSUME TypeOK, Phases, WireShrank, phase # "down", phase' = "connected",
         UNCHANGED <<inc, listed, kept>>, ProcStays
  PROVE  Phases'
BY Lengths DEF Phases, WireShrank, ProcStays

LEMMA TrackDrop ==
  ASSUME TypeOK, Tracked, WireShrank, phase # "down", phase' = "connected",
         UNCHANGED <<proc, inc, calls, pending, listed, kept>>,
         Len(objs') = Len(objs),
         \A k \in 1..Len(objs) : /\ objs'[k].alive = objs[k].alive
                                 /\ objs'[k].fresh = objs[k].fresh
                                 /\ objs'[k].initialized = objs[k].initialized,
         \A k \in 1..Len(objs) : Waiting(k) /\ objs[k].initialized =>
                                   /\ objs'[k].owner = objs[k].owner
                                   /\ objs'[k].xid = objs[k].xid,
         \/ panel' = 0
         \/ /\ panel' = panel /\ wire[1].kind \notin {"owner", "gone"}
            /\ objs'[panel].owner = objs[panel].owner
            /\ objs'[panel].xid = objs[panel].xid
  PROVE  Tracked'
<1>l. Len(wire) \in Nat /\ Len(objs) \in Nat /\ Len(calls) \in Nat /\ panel \in 0..Len(objs)
  BY Lengths
<1>w. \A i \in 1..Len(wire') : i + 1 \in 1..Len(wire) /\ wire'[i] = wire[i + 1]
  BY DEF WireShrank
<1>1. Phases'
  BY PhasesDrop DEF Tracked, ProcStays
<1>2. OneWaits'
  BY DEF Tracked, OneWaits, Waiting
<1>3. AskedOnce'
  <2> SUFFICES ASSUME NEW k \in 1..Len(objs), NEW i \in 1..Len(calls),
                      objs[k].alive, Asks(i, k)
               PROVE  /\ objs[k].fresh /\ ~objs[k].initialized
                      /\ \A j \in 1..Len(calls) : Asks(j, k) => j = i
                      /\ \A j \in 1..Len(wire') : ~Answers(j, k)'
    BY DEF AskedOnce, Asks
  <2>1. \A j \in 1..Len(wire) : ~Answers(j, k)
    BY DEF Tracked, AskedOnce
  <2>2. \A j \in 1..Len(wire') : ~Answers(j, k)'
    BY <1>w, <2>1 DEF Answers
  <2>. QED  BY <2>2 DEF Tracked, AskedOnce
<1>4. AnsweredOnce'
  <2> SUFFICES ASSUME NEW k \in 1..Len(objs), objs[k].alive,
                      NEW i \in 1..Len(wire'), Answers(i, k)'
               PROVE  /\ objs[k].fresh /\ ~objs[k].initialized
                      /\ \A j \in 1..Len(wire') : Answers(j, k)' => j = i
    BY DEF AnsweredOnce
  <2>1. i + 1 \in 1..Len(wire) /\ Answers(i + 1, k)
    BY <1>w DEF Answers
  <2>2. /\ objs[k].fresh /\ ~objs[k].initialized
        /\ \A j \in 1..Len(wire) : Answers(j, k) => j = i + 1
    BY <2>1 DEF Tracked, AnsweredOnce
  <2>3. ASSUME NEW j \in 1..Len(wire'), Answers(j, k)' PROVE j = i
    <3>1. j + 1 \in 1..Len(wire) /\ Answers(j + 1, k)
      BY <2>3, <1>w DEF Answers
    <3>2. j + 1 = i + 1
      BY <3>1, <2>2
    <3>. QED  BY <3>2
  <2>. QED  BY <2>2, <2>3
<1>5. Replies'
  <2> SUFFICES ASSUME NEW k \in 1..Len(objs), NEW i \in 1..Len(wire'),
                      objs[k].alive, wire'[i].kind = "reply", k \in wire'[i].objs
               PROVE  /\ proc = "up" /\ wire'[i].inc = inc
                      /\ \A j \in 1..Len(wire') : j > i => ~OfOwner(j)'
    BY DEF Replies
  <2>1. i + 1 \in 1..Len(wire) /\ wire'[i] = wire[i + 1]
    BY <1>w
  <2>2. /\ proc = "up" /\ wire[i + 1].inc = inc
        /\ \A j \in 1..Len(wire) : j > i + 1 => ~OfOwner(j)
    BY <2>1 DEF Tracked, Replies
  <2>3. ASSUME NEW j \in 1..Len(wire'), j > i PROVE ~OfOwner(j)'
    <3>1. j + 1 \in 1..Len(wire) /\ wire'[j] = wire[j + 1] /\ j + 1 > i + 1
      BY <2>3, <1>w
    <3>. QED  BY <2>2, <3>1 DEF OfOwner
  <2>. QED  BY <2>1, <2>2, <2>3
<1>6. Bound'
  BY <1>l, <1>w DEF Tracked, Bound, Waiting, OfOwner
<1>7. Slotted'
  <2>1. CASE panel' = 0
    BY <2>1 DEF Slotted
  <2>2. CASE panel' # 0
    <3>1. panel' = panel /\ ProcStays /\ wire[1].kind \notin {"owner", "gone"}
      BY <2>2 DEF ProcStays
    <3>2. panel # 0 => /\ objs'[panel].owner = objs[panel].owner
                       /\ objs'[panel].xid = objs[panel].xid
                       /\ objs'[panel].initialized
      BY <2>2, <1>l DEF Tracked, Slotted
    <3>. QED  BY <3>1, <3>2, SlottedStays DEF Tracked
  <2>. QED  BY <2>1, <2>2
<1>. QED  BY <1>1, <1>2, <1>3, <1>4, <1>5, <1>6, <1>7 DEF Tracked

LEMMA TrackHandleName ==
  ASSUME TypeOK, Tracked, WireShrank, phase # "down", phase' = "connected",
         UNCHANGED <<inc, listed, kept>>, panel' = 0,
         \A k \in 1..Len(objs) : ~Waiting(k),
         NEW os \in Seq(Objects), Len(os) = Len(objs),
         \A k \in 1..Len(objs) : /\ os[k].alive = objs[k].alive
                                 /\ os[k].fresh = objs[k].fresh
                                 /\ os[k].initialized = objs[k].initialized,
         HandleName(os, 0)
  PROVE  Tracked'
<1>l. /\ Len(wire) \in Nat /\ Len(objs) \in Nat /\ Len(calls) \in Nat
      /\ \A i \in 1..Len(wire) : wire[i] \in MessagesTo(Len(objs))
      /\ \A i \in 1..Len(calls) : calls[i] \in CallsFor(Len(objs))
  BY Lengths
<1>w. \A i \in 1..Len(wire') : i + 1 \in 1..Len(wire) /\ wire'[i] = wire[i + 1]
  BY DEF WireShrank
<1>. DEFINE n == Len(objs) + 1
            c == Call("InitPanel", n)
<1>1. /\ Len(objs') = n /\ objs'[n] = NewObject /\ pending' = 1
      /\ \A k \in 1..Len(objs) : objs'[k] = os[k]
  BY <1>l, AppendProperties DEF HandleName, NewObject, Objects
<1>2. CallsGrew(c) /\ ProcStays
  <2>1. Send(<<c>>) /\ calls \in Seq(CallsFor(Len(objs)))
    BY DEF HandleName, TypeOK
  <2>. HIDE DEF c
  <2>. QED  BY <2>1, <1>l, Sent
<1>3. c.op = "InitPanel" /\ c.obj = n
  BY DEF Call
<1>4. /\ NewObject.alive /\ NewObject.fresh /\ ~NewObject.initialized
  BY DEF NewObject
<1>. HIDE DEF c
<1>5. \A k \in 1..n : k = n \/ k \in 1..Len(objs)
  BY <1>l
<1>6. \A k \in 1..Len(objs) : objs[k].alive =>
        /\ \A i \in 1..Len(calls) : ~Asks(i, k)
        /\ \A i \in 1..Len(wire) : ~Answers(i, k)
  BY DEF Tracked, AskedOnce, AnsweredOnce, Waiting
<1>7. \A k \in 1..n : objs'[k].alive =>
        /\ \A i \in 1..Len(wire') : ~Answers(i, k)'
        /\ \A i \in 1..Len(calls') : Asks(i, k)' => i = Len(calls) + 1 /\ k = n
  <2> SUFFICES ASSUME NEW k \in 1..n, objs'[k].alive
               PROVE  /\ \A i \in 1..Len(wire') : ~Answers(i, k)'
                      /\ \A i \in 1..Len(calls') : Asks(i, k)' => i = Len(calls) + 1 /\ k = n
    OBVIOUS
  <2>1. CASE k = n
    <3>1. \A i \in 1..Len(wire) : n \notin wire[i].objs
      BY <1>l DEF MessagesTo
    <3>2. \A i \in 1..Len(calls) : calls[i].obj # n
      BY <1>l DEF CallsFor
    <3>. QED  BY <1>2, <1>w, <2>1, <3>1, <3>2 DEF Answers, Asks, CallsGrew
  <2>2. CASE k \in 1..Len(objs)
    <3>1. objs[k].alive /\ k # n
      BY <1>1, <1>l, <2>2
    <3>2. \A i \in 1..Len(wire') : ~Answers(i, k)'
      BY <1>6, <1>w, <2>2, <3>1 DEF Answers
    <3>3. \A i \in 1..Len(calls) : ~Asks(i, k)
      BY <1>6, <2>2, <3>1
    <3>4. \A i \in 1..Len(calls') : ~Asks(i, k)'
      <4> SUFFICES ASSUME NEW i \in 1..Len(calls'), Asks(i, k)' PROVE FALSE
        OBVIOUS
      <4>1. calls'[i].obj = k /\ calls'[i].op = "InitPanel"
        BY DEF Asks
      <4>2. i # Len(calls) + 1
        BY <1>2, <1>3, <3>1, <4>1 DEF CallsGrew
      <4>3. i \in 1..Len(calls) /\ calls'[i] = calls[i]
        BY <1>2, <4>2 DEF CallsGrew
      <4>. QED  BY <3>3, <4>1, <4>3 DEF Asks
    <3>. QED  BY <3>2, <3>4
  <2>. QED  BY <1>5, <2>1, <2>2
<1>8. \A k \in 1..n : Waiting(k)' => k = n
  BY <1>1, <1>5 DEF Waiting
<1>9. Phases'
  BY <1>2, PhasesDrop DEF Tracked
<1>10. OneWaits'
  <2>1. \A k \in 1..n : objs'[k].alive /\ ~objs'[k].initialized => objs'[k].fresh
    BY <1>1, <1>4, <1>5 DEF Tracked, OneWaits
  <2>2. n \in 1..n /\ objs'[n].alive /\ objs'[n].fresh
    BY <1>1, <1>4, <1>l
  <2>3. \A k, l \in 1..n : Waiting(k)' /\ Waiting(l)' => k = l
    BY <1>8
  <2>4. \E k \in 1..n : Waiting(k)'
    BY <2>2 DEF Waiting
  <2>. QED  BY <1>1, <2>1, <2>3, <2>4 DEF OneWaits
<1>11. AskedOnce'
  <2> SUFFICES ASSUME NEW k \in 1..n, NEW i \in 1..Len(calls'), objs'[k].alive, Asks(i, k)'
               PROVE  /\ objs'[k].fresh /\ ~objs'[k].initialized
                      /\ \A j \in 1..Len(calls') : Asks(j, k)' => j = i
                      /\ \A j \in 1..Len(wire') : ~Answers(j, k)'
    BY <1>1 DEF AskedOnce
  <2>1. i = Len(calls) + 1 /\ k = n
    BY <1>7
  <2>2. \A j \in 1..Len(calls') : ~(j > i)
    BY <1>2, <1>l, <2>1 DEF CallsGrew
  <2>. QED  BY <1>1, <1>4, <1>7, <2>1, <2>2
<1>12. AnsweredOnce' /\ Replies'
  BY <1>1, <1>7 DEF AnsweredOnce, Replies, Answers
<1>13. Bound' /\ Slotted'
  BY <1>1, <1>4, <1>8 DEF Bound, Slotted
<1>. QED  BY <1>9, <1>10, <1>11, <1>12, <1>13 DEF Tracked

LEMMA TrackListNames ==
  ASSUME TypeOK, Tracked, ListNamesReply
  PROVE  Tracked'
<1>1. /\ WireShrank /\ wire[1].kind = "names" /\ phase # "down" /\ phase' = "connected"
      /\ UNCHANGED <<inc, listed, kept, panel>>
  BY Received DEF ListNamesReply, tpVars
<1>2. phase = "listing" /\ objs = <<>> /\ pending = 0 /\ panel = 0 /\ Len(objs) = 0
  BY <1>1, EmptySeq DEF Tracked, Phases, WireShrank
<1>3. CASE HandleName(objs, pending)
  <2>1. HandleName(objs, 0) /\ objs \in Seq(Objects) /\ panel' = 0
    BY <1>1, <1>2, <1>3 DEF TypeOK
  <2>2. \A k \in 1..Len(objs) : ~Waiting(k)
    BY <1>2
  <2>. QED  BY <1>1, <2>1, <2>2, TrackHandleName
<1>4. CASE UNCHANGED <<objs, pending, calls, proc>>
  BY <1>1, <1>2, <1>4, TrackDrop
<1>. QED  BY <1>3, <1>4 DEF ListNamesReply

LEMMA TrackNameAcquired ==
  ASSUME TypeOK, Tracked, NameAcquired
  PROVE  Tracked'
<1>l. Len(wire) \in Nat /\ Len(objs) \in Nat
  BY Lengths
<1>1. /\ WireShrank /\ wire[1].kind = "owner" /\ phase # "down" /\ phase' = phase
      /\ UNCHANGED <<inc, listed, kept, panel>>
  BY Received DEF NameAcquired, tpVars
<1>2. phase = "connected" /\ 1 \in 1..Len(wire) /\ OfOwner(1)
  BY <1>1 DEF Tracked, Phases, WireShrank, OfOwner, TypeOK
<1>3. panel = 0
  <2>1. ~LivePanel
    BY <1>2 DEF LivePanel
  <2>2. ~DeadPanel
    <3>1. SUFFICES ASSUME DeadPanel PROVE FALSE
      OBVIOUS
    <3>2. PICK j \in 1..Len(wire) :
            /\ wire[j].kind = "gone"
            /\ \A i \in 1..Len(wire) : i < j => ~OfOwner(i)
      BY <3>1 DEF DeadPanel
    <3>3. j # 1
      BY <1>1, <3>2
    <3>. QED  BY <1>2, <3>2, <3>3
  <2>. QED  BY <2>1, <2>2 DEF Tracked, Slotted
<1>4. CASE pending = 0
  <2>1. \A k \in 1..Len(objs) : ~Waiting(k)
    BY <1>2, <1>4 DEF Tracked, OneWaits, Bound
  <2>2. HandleName(objs, 0) /\ objs \in Seq(Objects) /\ panel' = 0
    BY <1>1, <1>3, <1>4 DEF NameAcquired, AlreadyHandling, TypeOK
  <2>. QED  BY <1>1, <1>2, <2>1, <2>2, TrackHandleName
<1>5. CASE pending # 0
  <2>1. UNCHANGED <<objs, pending, calls, proc>>
    BY <1>5 DEF NameAcquired, AlreadyHandling
  <2>. QED  BY <1>1, <1>2, <1>3, <2>1, TrackDrop
<1>. QED  BY <1>4, <1>5

LEMMA Orphans ==
  ASSUME TypeOK, NEW i
  PROVE  /\ Orphan(i) \in Seq(Objects) /\ Len(Orphan(i)) = Len(objs)
         /\ \A k \in 1..Len(objs) :
              /\ Orphan(i)[k].alive = objs[k].alive
              /\ Orphan(i)[k].fresh = objs[k].fresh
              /\ Orphan(i)[k].initialized = objs[k].initialized
              /\ Orphan(i)[k].xid = objs[k].xid
              /\ objs[k].owner # i => Orphan(i)[k] = objs[k]
<1>l. Len(objs) \in Nat /\ \A k \in 1..Len(objs) : objs[k] \in Objects
  BY Lengths
<1>1. \A k \in 1..Len(objs) :
        Orphan(i)[k] = IF objs[k].owner = i
                       THEN [objs[k] EXCEPT !.owner = 0, !.ready = FALSE] ELSE objs[k]
  BY DEF Orphan
<1>2. \A k \in 1..Len(objs) : Orphan(i)[k] \in Objects
  BY <1>l DEF Objects, Orphan
<1>3. Orphan(i) = [k \in 1..Len(objs) |-> Orphan(i)[k]]
  BY DEF Orphan
<1>4. Orphan(i) \in Seq(Objects) /\ Len(Orphan(i)) = Len(objs)
  <2>. DEFINE os == Orphan(i)
  <2>. HIDE DEF os
  <2>1. /\ [k \in 1..Len(objs) |-> os[k]] \in Seq(Objects)
        /\ Len([k \in 1..Len(objs) |-> os[k]]) = Len(objs)
    BY <1>2, <1>l DEF os
  <2>. QED  BY <1>3, <2>1 DEF os
<1>5. ASSUME NEW k \in 1..Len(objs)
      PROVE  /\ Orphan(i)[k].alive = objs[k].alive
             /\ Orphan(i)[k].fresh = objs[k].fresh
             /\ Orphan(i)[k].initialized = objs[k].initialized
             /\ Orphan(i)[k].xid = objs[k].xid
             /\ objs[k].owner # i => Orphan(i)[k] = objs[k]
  <2>. DEFINE o == objs[k]
              p == [o EXCEPT !.owner = 0, !.ready = FALSE]
  <2>1. o \in Objects
    BY <1>l
  <2>. HIDE DEF o
  <2>2. p.alive = o.alive /\ p.fresh = o.fresh /\ p.initialized = o.initialized /\ p.xid = o.xid
    BY <2>1 DEF Objects
  <2>3. Orphan(i)[k] = IF o.owner = i THEN p ELSE o
    BY <1>1 DEF o
  <2>. HIDE DEF p
  <2>4. /\ Orphan(i)[k].alive = o.alive
        /\ Orphan(i)[k].fresh = o.fresh
        /\ Orphan(i)[k].initialized = o.initialized
        /\ Orphan(i)[k].xid = o.xid
        /\ o.owner # i => Orphan(i)[k] = o
    BY <2>2, <2>3
  <2>. QED  BY <2>4 DEF o
<1>. QED  BY <1>4, <1>5

LEMMA TrackOwnerGone ==
  ASSUME TypeOK, Tracked, OwnerGone
  PROVE  Tracked'
<1>l. Len(wire) \in Nat /\ Len(objs) \in Nat
  BY Lengths
<1>. DEFINE i == wire[1].inc
            os == Orphan(i)
<1>1. /\ WireShrank /\ wire[1].kind = "gone" /\ phase # "down" /\ phase' = phase
      /\ Head(wire) = wire[1]
      /\ UNCHANGED <<inc, listed, kept>>
  BY Received DEF OwnerGone
<1>2. phase = "connected" /\ 1 \in 1..Len(wire) /\ OfOwner(1)
  BY <1>1 DEF Tracked, Phases, WireShrank, OfOwner, TypeOK
<1>3. panel # 0 => objs[panel].owner = i
  <2> SUFFICES ASSUME panel # 0 PROVE objs[panel].owner = i
    OBVIOUS
  <2>1. DeadPanel
    BY <1>2 DEF Tracked, Slotted, LivePanel
  <2>2. PICK j \in 1..Len(wire) :
          /\ wire[j].inc = objs[panel].owner
          /\ \A l \in 1..Len(wire) : l < j => ~OfOwner(l)
    BY <2>1 DEF DeadPanel
  <2>3. j = 1
    BY <1>2, <2>2
  <2>. QED  BY <2>2, <2>3
<1>4. /\ os \in Seq(Objects) /\ Len(os) = Len(objs)
      /\ \A k \in 1..Len(objs) : /\ os[k].alive = objs[k].alive
                                 /\ os[k].fresh = objs[k].fresh
                                 /\ os[k].initialized = objs[k].initialized
  BY Orphans
<1>5. \A k \in 1..Len(objs) : ~(Waiting(k) /\ objs[k].initialized)
  BY <1>2 DEF Tracked, Bound
<1>6. panel # 0 => pending = 0 /\ Unlist(1) = 0 /\ \A k \in 1..Len(objs) : ~Waiting(k)
  BY DEF Tracked, OneWaits, Unlist
<1>. HIDE DEF os, i
<1>7. CASE panel # 0 /\ Autoload
  <2>1. panel' = 0 /\ HandleName(os, 0)
    BY <1>1, <1>3, <1>6, <1>7 DEF OwnerGone, os, i
  <2>. QED  BY <1>1, <1>2, <1>4, <1>6, <1>7, <2>1, TrackHandleName
<1>8. CASE panel = 0 \/ ~Autoload
  <2>1. panel' = 0 /\ objs' = os /\ UNCHANGED <<pending, calls, proc>>
    BY <1>1, <1>3, <1>6, <1>8 DEF OwnerGone, os, i
  <2>. QED  BY <1>1, <1>2, <1>4, <1>5, <2>1, TrackDrop
<1>. QED  BY <1>7, <1>8

\* Object k, in the handshake, now holds the window of the process that runs.
JustBound(os, k) ==
  /\ Waiting(k) /\ proc = "up"
  /\ Len(os) = Len(objs)
  /\ \A l \in 1..Len(objs) : /\ os[l].alive = objs[l].alive
                             /\ os[l].fresh = objs[l].fresh
                             /\ l # k => /\ os[l].initialized = objs[l].initialized
                                         /\ os[l].owner = objs[l].owner
                                         /\ os[l].xid = objs[l].xid
  /\ os[k].initialized /\ os[k].owner = inc /\ os[k].xid = inc
  /\ \A j \in 1..Len(wire') : ~OfOwner(j)' /\ ~Answers(j, k)'
  /\ \A j \in 1..Len(calls) : ~Asks(j, k)

\* ... and waits on, or goes unheard as the toolbar has no slot for it.
LEMMA TrackBound ==
  ASSUME TypeOK, Tracked, WireShrank, phase = "connected", phase' = "connected",
         UNCHANGED <<inc, proc, calls, listed, kept, panel>>,
         NEW k \in 1..Len(objs), JustBound(objs', k),
         pending' = pending \/ (pending' = 0 /\ ~listed)
  PROVE  Tracked'
<1>l. Len(wire) \in Nat /\ Len(objs) \in Nat /\ Len(calls) \in Nat
  BY Lengths
<1>w. \A i \in 1..Len(wire') : i + 1 \in 1..Len(wire) /\ wire'[i] = wire[i + 1]
  BY DEF WireShrank
<1>0. panel = 0 /\ \A l \in 1..Len(objs) : Waiting(l) => l = k
  BY DEF JustBound, Tracked, OneWaits
<1>1. Phases'
  BY PhasesDrop DEF Tracked, ProcStays
<1>2. OneWaits'
  <2>1. \A l \in 1..Len(objs) : Waiting(l)' <=> Waiting(l)
    BY DEF JustBound, Waiting
  <2>2. ~listed => ~kept
    BY DEF Tracked, Phases
  <2>3. \A l \in 1..Len(objs) : objs'[l].alive /\ ~objs'[l].initialized => objs'[l].fresh
    BY DEF JustBound, Tracked, OneWaits
  <2>4. pending' \in {0, 1} /\ (pending' # 0 => \E l \in 1..Len(objs) : Waiting(l)')
    BY <2>1 DEF Tracked, OneWaits
  <2>5. pending' = 0 => ~kept /\ objs'[k].initialized
    BY <2>2 DEF JustBound, Tracked, OneWaits
  <2>6. Len(objs') = Len(objs)
    BY DEF JustBound
  <2>. QED  BY <1>0, <2>1, <2>3, <2>4, <2>5, <2>6 DEF OneWaits
<1>3. AskedOnce'
  <2> SUFFICES ASSUME NEW x \in 1..Len(objs), NEW i \in 1..Len(calls),
                      objs'[x].alive, Asks(i, x)
               PROVE  /\ objs'[x].fresh /\ ~objs'[x].initialized
                      /\ \A j \in 1..Len(calls) : Asks(j, x) => j = i
                      /\ \A j \in 1..Len(wire') : ~Answers(j, x)'
    BY DEF AskedOnce, Asks, JustBound
  <2>1. objs[x].alive /\ objs[x].fresh
    BY DEF JustBound, Tracked, AskedOnce
  <2>2. x = k
    BY <1>0, <2>1 DEF Waiting
  <2>. QED  BY <2>2 DEF JustBound
<1>4. AnsweredOnce' /\ Replies'
  <2>1. \A x \in 1..Len(objs), i \in 1..Len(wire') : objs'[x].alive => ~Answers(i, x)'
    <3> SUFFICES ASSUME NEW x \in 1..Len(objs), NEW i \in 1..Len(wire'),
                        objs'[x].alive, Answers(i, x)'
                 PROVE  FALSE
      OBVIOUS
    <3>1. i + 1 \in 1..Len(wire) /\ Answers(i + 1, x) /\ objs[x].alive
      BY <1>w DEF Answers, JustBound
    <3>2. Waiting(x)
      BY <3>1 DEF Tracked, AnsweredOnce, Waiting
    <3>. QED  BY <1>0, <3>2 DEF JustBound
  <2>. QED  BY <2>1 DEF AnsweredOnce, Replies, Answers, JustBound
<1>5. Bound'
  <2> SUFFICES ASSUME NEW x \in 1..Len(objs), Waiting(x)', objs'[x].initialized
               PROVE  /\ proc = "up" /\ objs'[x].owner = inc /\ objs'[x].xid = inc
                      /\ \A j \in 1..Len(wire') : ~OfOwner(j)'
    BY DEF Bound, JustBound
  <2>1. x = k
    BY <1>0 DEF Waiting, JustBound
  <2>. QED  BY <2>1 DEF JustBound
<1>6. Slotted'
  BY <1>0 DEF Slotted
<1>. QED  BY <1>1, <1>2, <1>3, <1>4, <1>5, <1>6 DEF Tracked

LEMMA OneObject == ASSUME NEW k PROVE Cardinality({k}) = 1
BY FS_Singleton

\* mnb_toolbar_append_panel ends the handshake of object k.
LEMMA TrackAppended ==
  ASSUME TypeOK, Tracked, WireShrank, phase = "connected", phase' = "connected",
         UNCHANGED <<inc, listed, kept>>,
         NEW os, NEW k \in 1..Len(objs), JustBound(os, k), AppendPanels(os, {k})
  PROVE  Tracked'
<1>l. /\ Len(wire) \in Nat /\ Len(objs) \in Nat /\ Len(calls) \in Nat /\ inc \in Nat
      /\ pending \in Nat
  BY Lengths
<1>0. panel = 0 /\ k # 0 /\ \A l \in 1..Len(objs) : Waiting(l) => l = k
  BY <1>l DEF JustBound, Tracked, OneWaits
<1>p. pending \in {0, 1}
  BY DEF Tracked, OneWaits
<1>u. Unlist(1) = 0 /\ Cardinality({k}) = 1 /\ {k} # {} /\ 2 * 1 - 1 = 1
  <2>1. Unlist(1) = 0
    BY <1>p DEF Unlist
  <2>2. Cardinality({k}) = 1 /\ {k} # {}
    BY OneObject, Zenon
  <2>. QED  BY <2>1, <2>2
<1>1. CASE ~listed
  <2>1. /\ objs' = os /\ pending' = 0
        /\ UNCHANGED <<calls, proc, panel>>
    <3>1. /\ objs' = os /\ pending' = Unlist(Cardinality({k}))
          /\ UNCHANGED <<calls, proc, panel>>
      BY <1>1, <1>u DEF AppendPanels, tpVars
    <3>. QED  BY <1>u, <3>1, Zenon
  <2>2. JustBound(objs', k)
    BY <2>1
  <2>. QED  BY <1>1, <2>1, <2>2, TrackBound
<1>2. CASE listed
  <2>1. /\ panel' = k
        /\ objs' = [l \in 1..Len(os) |->
                      IF l \in {k} THEN [os[l] EXCEPT !.fresh = FALSE] ELSE os[l]]
        /\ pending' = Unlist(IF panel = 0 THEN 2 * Cardinality({k}) - 1
                             ELSE 2 * Cardinality({k}))
        /\ PanelReady
    BY <1>2 DEF AppendPanels
  <2>2. pending' = 0
    <3>1. pending' = Unlist(2 * Cardinality({k}) - 1)
      BY <1>0, <2>1
    <3>. QED  BY <1>u, <3>1, Zenon
  <2>3. /\ Len(objs') = Len(objs)
        /\ \A l \in 1..Len(objs) : l # k => objs'[l] = os[l]
        /\ ~objs'[k].fresh /\ objs'[k].initialized
        /\ objs'[k].owner = inc /\ objs'[k].xid = inc
    <3>1. /\ Len(objs') = Len(objs)
          /\ \A l \in 1..Len(objs) : l # k => objs'[l] = os[l]
          /\ objs'[k] = [os[k] EXCEPT !.fresh = FALSE]
      BY <1>l, <2>1 DEF JustBound
    <3>2. os[k].initialized /\ os[k].owner = inc /\ os[k].xid = inc
      BY DEF JustBound
    <3>. QED  BY <3>1, <3>2
  <2>4. ProcStays /\ (calls' = calls \/ CallsGrew(Call("Show", 0)))
    <3>1. Send(<<>>) \/ Send(<<Call("Show", 0)>>)
      BY <2>1 DEF PanelReady
    <3>2. calls \in Seq(CallsFor(Len(objs)))
      BY DEF TypeOK
    <3>. QED  BY <1>l, <3>1, <3>2, Sent, SentNothing DEF ProcStays
  <2>5. \A l \in 1..Len(objs) : ~Waiting(l)'
    BY <1>0, <2>3 DEF Waiting, JustBound
  <2>6. Phases'
    BY <2>4, PhasesDrop DEF Tracked
  <2>7. OneWaits'
    <3>1. \A l \in 1..Len(objs) : objs'[l].alive /\ ~objs'[l].initialized => objs'[l].fresh
      BY <2>3 DEF JustBound, Tracked, OneWaits
    <3>. QED  BY <2>2, <2>3, <2>5, <3>1 DEF OneWaits
  <2>8. \A x \in 1..Len(objs) : objs'[x].alive =>
          /\ \A i \in 1..Len(calls') : ~Asks(i, x)'
          /\ \A i \in 1..Len(wire') : ~Answers(i, x)'
    <3> SUFFICES ASSUME NEW x \in 1..Len(objs), objs'[x].alive
                 PROVE  /\ \A i \in 1..Len(calls') : ~Asks(i, x)'
                        /\ \A i \in 1..Len(wire') : ~Answers(i, x)'
      OBVIOUS
    <3>1. CASE x = k
      <4>1. \A i \in 1..Len(calls) : ~Asks(i, k)
        BY DEF JustBound
      <4>2. \A i \in 1..Len(calls') : ~Asks(i, k)'
        BY <2>4, <4>1 DEF CallsGrew, Call, Asks
      <4>. QED  BY <3>1, <4>2 DEF JustBound
    <3>2. CASE x # k
      <4>1. objs[x].alive /\ ~Waiting(x)
        BY <1>0, <2>3, <3>2 DEF JustBound
      <4>2. /\ \A i \in 1..Len(calls) : ~Asks(i, x)
            /\ \A i \in 1..Len(wire) : ~Answers(i, x)
        BY <4>1 DEF Tracked, AskedOnce, AnsweredOnce, Waiting
      <4>3. \A i \in 1..Len(calls') : ~Asks(i, x)'
        BY <2>4, <4>2 DEF CallsGrew, Call, Asks
      <4>4. \A i \in 1..Len(wire') : ~Answers(i, x)'
        BY <4>2 DEF WireShrank, Answers
      <4>. QED  BY <4>3, <4>4
    <3>. QED  BY <3>1, <3>2
  <2>9. AskedOnce' /\ AnsweredOnce' /\ Replies' /\ Bound'
    BY <2>3, <2>5, <2>8 DEF AskedOnce, AnsweredOnce, Replies, Bound, Answers
  <2>10. Slotted'
    <3>1. inc # 0 /\ proc' = "up"
      BY <2>4 DEF JustBound, Tracked, Phases, ProcStays
    <3>2. LivePanel'
      BY <2>1, <2>3, <3>1 DEF LivePanel, JustBound
    <3>. QED  BY <1>l, <2>1, <2>3, <3>1, <3>2 DEF Slotted
  <2>. QED  BY <2>6, <2>7, <2>9, <2>10 DEF Tracked
<1>. QED  BY <1>1, <1>2

LEMMA TrackReadySignal ==
  ASSUME TypeOK, Tracked, ReadySignal
  PROVE  Tracked'
<1>l. /\ Len(wire) \in Nat /\ Len(objs) \in Nat
      /\ \A k \in 1..Len(objs) : objs[k] \in Objects
  BY Lengths
<1>. DEFINE os == [k \in 1..Len(objs) |->
                    IF objs[k].alive THEN [objs[k] EXCEPT !.ready = TRUE] ELSE objs[k]]
            ks == {k \in 1..Len(os) : os[k].alive /\ os[k].initialized /\ os[k].fresh}
<1>1. /\ WireShrank /\ wire[1].kind = "ready" /\ phase # "down" /\ phase' = phase
      /\ UNCHANGED <<inc, listed, kept>>
  BY Received DEF ReadySignal
<1>2. phase = "connected"
  BY <1>1 DEF Tracked, Phases, WireShrank, TypeOK
<1>3. AppendPanels(os, ks)
  BY DEF ReadySignal
<1>4. Len(os) = Len(objs)
  BY <1>l
<1>5. \A k \in 1..Len(objs) : /\ os[k].alive = objs[k].alive
                              /\ os[k].fresh = objs[k].fresh
                              /\ os[k].initialized = objs[k].initialized
                              /\ os[k].owner = objs[k].owner
                              /\ os[k].xid = objs[k].xid
  <2> SUFFICES ASSUME NEW k \in 1..Len(objs)
               PROVE  /\ os[k].alive = objs[k].alive
                      /\ os[k].fresh = objs[k].fresh
                      /\ os[k].initialized = objs[k].initialized
                      /\ os[k].owner = objs[k].owner
                      /\ os[k].xid = objs[k].xid
    OBVIOUS
  <2>1. objs[k] \in Objects
    BY <1>l
  <2>. QED  BY <2>1 DEF Objects
<1>. HIDE DEF os
<1>6. ks = {k \in 1..Len(objs) : Waiting(k) /\ objs[k].initialized}
  BY <1>4, <1>5 DEF Waiting
<1>. HIDE DEF ks
<1>7. CASE ks = {}
  <2>1. objs' = os /\ UNCHANGED <<pending, calls, proc, panel>>
    BY <1>3, <1>7 DEF AppendPanels, tpVars
  <2>2. panel' = 0 \/ (panel' = panel /\ panel \in 1..Len(objs))
    BY <1>l, <2>1 DEF TypeOK
  <2>3. /\ Len(objs') = Len(objs)
        /\ \A k \in 1..Len(objs) : /\ objs'[k].alive = objs[k].alive
                                   /\ objs'[k].fresh = objs[k].fresh
                                   /\ objs'[k].initialized = objs[k].initialized
                                   /\ objs'[k].owner = objs[k].owner
                                   /\ objs'[k].xid = objs[k].xid
    BY <1>4, <1>5, <2>1
  <2>. QED  BY <1>1, <1>2, <2>1, <2>2, <2>3, TrackDrop
<1>8. CASE ks # {}
  <2>1. PICK k \in 1..Len(objs) : Waiting(k) /\ objs[k].initialized
    BY <1>6, <1>8
  <2>2. ks = {k}
    BY <1>6, <2>1 DEF Tracked, OneWaits
  <2>3. JustBound(os, k)
    <3>1. /\ proc = "up" /\ objs[k].owner = inc /\ objs[k].xid = inc
          /\ \A j \in 1..Len(wire) : ~OfOwner(j)
      BY <2>1 DEF Tracked, Bound
    <3>2. /\ \A j \in 1..Len(calls) : ~Asks(j, k)
          /\ \A j \in 1..Len(wire) : ~Answers(j, k)
      BY <2>1 DEF Tracked, AskedOnce, AnsweredOnce, Waiting
    <3>3. \A j \in 1..Len(wire') : ~OfOwner(j)' /\ ~Answers(j, k)'
      BY <1>1, <3>1, <3>2 DEF WireShrank, OfOwner, Answers
    <3>. QED  BY <1>4, <1>5, <2>1, <3>1, <3>2, <3>3 DEF JustBound
  <2>4. AppendPanels(os, {k})
    BY <1>3, <2>2
  <2>. QED  BY <1>1, <1>2, <2>3, <2>4, TrackAppended
<1>. QED  BY <1>7, <1>8

LEMMA TrackInitReply ==
  ASSUME TypeOK, Tracked, InitReply
  PROVE  Tracked'
<1>l. /\ Len(wire) \in Nat /\ Len(objs) \in Nat
      /\ \A k \in 1..Len(objs) : objs[k] \in Objects
  BY Lengths
<1>1. /\ WireShrank /\ wire[1].kind = "reply" /\ phase # "down" /\ phase' = phase
      /\ wire[1] \in MessagesTo(Len(objs)) /\ Head(wire) = wire[1]
      /\ UNCHANGED <<inc, listed, kept>>
  BY Received DEF InitReply
<1>2. phase = "connected" /\ 1 \in 1..Len(wire)
  BY <1>1 DEF Tracked, Phases, WireShrank, TypeOK
<1>3. PICK k \in wire[1].objs :
        IF objs[k].alive
        THEN AppendPanels(Initialize(k, wire[1].inc), IF objs[k].ready THEN {k} ELSE {})
        ELSE UNCHANGED <<objs, pending, calls, proc, tpVars>>
  BY <1>1 DEF InitReply
<1>4. k \in 1..Len(objs)
  BY <1>1, <1>3 DEF MessagesTo
<1>5. CASE ~objs[k].alive
  <2>1. UNCHANGED <<objs, pending, calls, proc, panel>>
    BY <1>3, <1>5 DEF tpVars
  <2>. QED  BY <1>1, <1>2, <2>1, TrackDrop
<1>6. CASE objs[k].alive
  <2>. DEFINE os == Initialize(k, wire[1].inc)
  <2>0. AppendPanels(os, IF objs[k].ready THEN {k} ELSE {})
    BY <1>3, <1>6
  <2>1. /\ Answers(1, k) /\ proc = "up" /\ wire[1].inc = inc
        /\ objs[k].fresh /\ ~objs[k].initialized
        /\ \A j \in 1..Len(wire) : j > 1 => ~OfOwner(j)
        /\ \A j \in 1..Len(wire) : Answers(j, k) => j = 1
    BY <1>1, <1>2, <1>3, <1>4, <1>6 DEF Tracked, AnsweredOnce, Replies, Answers
  <2>2. \A j \in 1..Len(calls) : ~Asks(j, k)
    BY <1>2, <1>4, <1>6, <2>1 DEF Tracked, AskedOnce
  <2>3. /\ Len(os) = Len(objs)
        /\ \A l \in 1..Len(objs) : l # k => os[l] = objs[l]
        /\ os[k].alive = objs[k].alive /\ os[k].fresh = objs[k].fresh
        /\ os[k].initialized /\ os[k].owner = inc /\ os[k].xid = inc
    <3>. DEFINE o == [objs[k] EXCEPT !.owner = IF proc = "up" THEN inc ELSE 0,
                                     !.xid = wire[1].inc, !.initialized = TRUE]
    <3>1. os = [objs EXCEPT ![k] = o]
      BY <1>4, <1>l DEF Initialize, Objects
    <3>2. /\ o \in Objects /\ o.alive = objs[k].alive /\ o.fresh = objs[k].fresh
          /\ o.initialized /\ o.owner = inc /\ o.xid = inc
      BY <1>4, <1>l, <2>1 DEF Objects, TypeOK
    <3>. HIDE DEF os, o
    <3>3. objs \in Seq(Objects)
      BY DEF TypeOK
    <3>4. Len(os) = Len(objs) /\ os[k] = o /\ \A l \in 1..Len(objs) : l # k => os[l] = objs[l]
      BY <1>4, <3>1, <3>2, <3>3, ExceptSeq
    <3>. QED  BY <3>2, <3>4
  <2>. HIDE DEF os
  <2>4. JustBound(os, k)
    <3>1. \A j \in 1..Len(wire') : ~OfOwner(j)' /\ ~Answers(j, k)'
      <4> SUFFICES ASSUME NEW j \in 1..Len(wire') PROVE ~OfOwner(j)' /\ ~Answers(j, k)'
        OBVIOUS
      <4>1. j + 1 \in 1..Len(wire) /\ wire'[j] = wire[j + 1] /\ j + 1 > 1
        BY <1>1 DEF WireShrank
      <4>2. ~OfOwner(j + 1) /\ ~Answers(j + 1, k)
        BY <2>1, <4>1
      <4>. QED  BY <4>1, <4>2 DEF OfOwner, Answers
    <3>. QED  BY <1>4, <1>6, <2>1, <2>2, <2>3, <3>1 DEF JustBound, Waiting
  <2>5. CASE objs[k].ready
    <3>1. AppendPanels(os, {k})
      BY <2>0, <2>5
    <3>. QED  BY <1>1, <1>2, <1>4, <2>4, <3>1, TrackAppended
  <2>6. CASE ~objs[k].ready
    <3>1. AppendPanels(os, {})
      BY <2>0, <2>6
    <3>2. objs' = os /\ UNCHANGED <<pending, calls, proc, panel>>
      BY <3>1 DEF AppendPanels, tpVars
    <3>. QED  BY <1>1, <1>2, <1>4, <2>4, <3>2, TrackBound
  <2>. QED  BY <2>5, <2>6
<1>. QED  BY <1>5, <1>6

\* The object in the handshake is given up.
LEMMA TrackDestroy ==
  ASSUME TypeOK, Tracked, NEW k \in 1..Len(objs), Waiting(k), ~objs[k].initialized,
         Destroy({k}),
         WireShrank \/ wire' = wire, phase = "connected", phase' = "connected",
         UNCHANGED <<proc, inc, calls, listed, kept>>
  PROVE  Tracked'
<1>l. Len(wire) \in Nat /\ Len(objs) \in Nat /\ Len(calls) \in Nat
  BY Lengths
<1>0. panel = 0 /\ pending \in {0, 1} /\ \A l \in 1..Len(objs) : Waiting(l) => l = k
  BY DEF Tracked, OneWaits
<1>1. /\ Len(objs') = Len(objs)
      /\ \A l \in 1..Len(objs) : l # k => objs'[l] = objs[l]
      /\ ~objs'[k].alive
  <2>1. objs' = [l \in 1..Len(objs) |->
                   IF l \in {k} THEN [objs[l] EXCEPT !.alive = FALSE] ELSE objs[l]]
    BY DEF Destroy
  <2>2. objs[k] \in Objects
    BY Lengths
  <2>. QED  BY <1>l, <2>1, <2>2 DEF Objects
<1>2. pending' = 0 /\ panel' = 0
  <2>1. Unlist(1) = 0 /\ Cardinality({k}) = 1
    <3>1. Unlist(1) = 0
      BY <1>0 DEF Unlist
    <3>2. Cardinality({k}) = 1
      BY OneObject, Zenon
    <3>. QED  BY <3>1, <3>2
  <2>2. pending' = Unlist(Cardinality({k})) /\ panel' \in {0, panel}
    BY DEF Destroy
  <2>3. pending' = 0
    BY <2>1, <2>2, Zenon
  <2>. QED  BY <1>0, <2>2, <2>3
<1>3. \A l \in 1..Len(objs) : ~Waiting(l)'
  BY <1>0, <1>1 DEF Waiting
<1>4. Phases'
  <2>1. CASE WireShrank
    BY <2>1, PhasesDrop DEF Tracked, ProcStays
  <2>2. CASE wire' = wire
    BY <1>2, <2>2 DEF Tracked, Phases
  <2>. QED  BY <2>1, <2>2
<1>5. OneWaits'
  <2>1. \A l \in 1..Len(objs) : objs'[l].alive /\ ~objs'[l].initialized => objs'[l].fresh
    BY <1>1 DEF Tracked, OneWaits
  <2>. QED  BY <1>1, <1>2, <1>3, <2>1 DEF OneWaits
<1>6. \A x \in 1..Len(objs) : objs'[x].alive =>
        /\ \A i \in 1..Len(calls) : ~Asks(i, x)
        /\ \A i \in 1..Len(wire') : ~Answers(i, x)'
  <2> SUFFICES ASSUME NEW x \in 1..Len(objs), objs'[x].alive
               PROVE  /\ \A i \in 1..Len(calls) : ~Asks(i, x)
                      /\ \A i \in 1..Len(wire') : ~Answers(i, x)'
    OBVIOUS
  <2>1. x # k /\ objs[x].alive /\ ~Waiting(x)
    BY <1>0, <1>1
  <2>2. /\ \A i \in 1..Len(calls) : ~Asks(i, x)
        /\ \A i \in 1..Len(wire) : ~Answers(i, x)
    BY <2>1 DEF Tracked, AskedOnce, AnsweredOnce, Waiting
  <2>3. \A i \in 1..Len(wire') : ~Answers(i, x)'
    BY <2>2 DEF WireShrank, Answers
  <2>. QED  BY <2>2, <2>3
<1>7. AskedOnce' /\ AnsweredOnce' /\ Replies'
  <2>1. AskedOnce'
    BY <1>1, <1>6 DEF AskedOnce, Asks
  <2>2. AnsweredOnce' /\ Replies'
    BY <1>1, <1>6 DEF AnsweredOnce, Replies, Answers
  <2>. QED  BY <2>1, <2>2
<1>8. Bound' /\ Slotted'
  BY <1>1, <1>2, <1>3 DEF Bound, Slotted
<1>. QED  BY <1>4, <1>5, <1>7, <1>8 DEF Tracked

LEMMA TrackInitError ==
  ASSUME TypeOK, Tracked, InitError
  PROVE  Tracked'
<1>l. Len(wire) \in Nat /\ Len(objs) \in Nat
  BY Lengths
<1>1. /\ WireShrank /\ wire[1].kind = "error" /\ phase # "down" /\ phase' = phase
      /\ wire[1] \in MessagesTo(Len(objs)) /\ Head(wire) = wire[1]
      /\ UNCHANGED <<proc, inc, calls, listed, kept>>
  BY Received DEF InitError, procVars
<1>2. phase = "connected" /\ 1 \in 1..Len(wire)
  BY <1>1 DEF Tracked, Phases, WireShrank, TypeOK
<1>. DEFINE ks == {k \in wire[1].objs : objs[k].alive}
<1>3. Destroy(ks)
  BY <1>1 DEF InitError
<1>4. \A k \in ks : /\ k \in 1..Len(objs) /\ Waiting(k) /\ ~objs[k].initialized
  <2> SUFFICES ASSUME NEW k \in ks
               PROVE  k \in 1..Len(objs) /\ Waiting(k) /\ ~objs[k].initialized
    OBVIOUS
  <2>1. k \in 1..Len(objs) /\ objs[k].alive
    BY <1>1 DEF MessagesTo
  <2>2. Answers(1, k)
    BY <1>1 DEF Answers
  <2>. QED  BY <1>2, <2>1, <2>2 DEF Tracked, AnsweredOnce, Waiting
<1>. HIDE DEF ks
<1>5. CASE ks = {}
  <2>1. /\ Len(objs') = Len(objs) /\ \A k \in 1..Len(objs) : objs'[k] = objs[k]
        /\ panel' = panel
    BY <1>3, <1>5, <1>l DEF Destroy
  <2>2. pending' = pending
    <3>1. Cardinality(ks) = 0
      BY <1>5, FS_EmptySet
    <3>2. Unlist(0) = pending
      BY Lengths DEF Unlist
    <3>3. pending' = Unlist(Cardinality(ks))
      BY <1>3 DEF Destroy
    <3>. QED  BY <3>1, <3>2, <3>3, Zenon
  <2>3. panel' = 0 \/ panel \in 1..Len(objs)
    BY <2>1 DEF TypeOK
  <2>. QED  BY <1>1, <1>2, <2>1, <2>2, <2>3, TrackDrop
<1>6. CASE ks # {}
  <2>1. PICK k \in ks : TRUE
    BY <1>6
  <2>2. ks = {k}
    BY <1>4, <2>1 DEF Tracked, OneWaits
  <2>3. Destroy({k})
    BY <1>3, <2>2
  <2>. QED  BY <1>1, <1>2, <1>4, <2>1, <2>3, TrackDestroy
<1>. QED  BY <1>5, <1>6

LEMMA TrackInitTimeout ==
  ASSUME TypeOK, Tracked, InitTimeout
  PROVE  Tracked'
<1>1. PICK k \in 1..Len(objs) : objs[k].alive /\ ~objs[k].initialized /\ Destroy({k})
  BY DEF InitTimeout
<1>2. Waiting(k)
  BY <1>1 DEF Tracked, OneWaits, Waiting
<1>3. UNCHANGED <<proc, inc, calls, listed, kept, wire, phase>>
  BY DEF InitTimeout, procVars
<1>4. phase = "connected"
  BY <1>1, EmptySeq DEF Tracked, Phases
<1>. QED  BY <1>1, <1>2, <1>3, <1>4, TrackDestroy

LEMMA TrackInit == Init => Tracked
<1> SUFFICES ASSUME Init PROVE Tracked
  OBVIOUS
<1>1. Len(<<>>) = 0
  BY EmptySeq
<1>. QED
  BY <1>1 DEF Init, Tracked, Phases, OneWaits, AskedOnce, AnsweredOnce, Replies, Bound, Slotted

LEMMA TrackStep ==
  ASSUME "handshake death" \notin Faults
  PROVE  TypeOK /\ Tracked /\ [Next]_vars => Tracked'
BY TrackFrame, TrackAcquire, TrackEmit, TrackEnd,
   TrackInitPanel, TrackToolbar, TrackRemove, TrackListNames, TrackNameAcquired,
   TrackOwnerGone, TrackReadySignal, TrackInitReply, TrackInitError, TrackInitTimeout
   DEF Next, ButtonStep

LEMMA TrackedMeaning == TypeOK /\ Tracked => ObjectsAreTracked
<1> SUFFICES ASSUME TypeOK, Tracked PROVE ObjectsAreTracked
  OBVIOUS
<1>1. AttachedIsWatched
  BY DEF Tracked, Slotted, AttachedIsWatched
<1>. DEFINE waiting == {k \in 1..Len(objs) : objs[k].alive /\ objs[k].fresh}
<1>2. kept => (pending = 0 <=> waiting = {})
  BY DEF Tracked, OneWaits, Waiting
<1>3. Cardinality(waiting) <= 1
  <2>1. CASE waiting = {}
    BY <2>1, FS_EmptySet
  <2>2. CASE waiting # {}
    <3>1. PICK k \in waiting : TRUE
      BY <2>2
    <3>2. waiting = {k}
      BY <3>1 DEF Tracked, OneWaits, Waiting
    <3>3. Cardinality(waiting) = 1
      BY <3>2, OneObject, Zenon
    <3>. QED  BY <3>3
  <2>. QED  BY <2>1, <2>2
<1>. QED  BY <1>1, <1>2, <1>3 DEF ObjectsAreTracked, OneHandshake

\* The toolbar never loses track of its objects (mnb_toolbar_noc_cb, the pending
\* list, mnb_panel_oop_dbus_proxy_weak_notify_cb), whatever times out or fails, as
\* long as no process dies between its answer to InitPanel and its Ready (that one
\* death loses a panel, as a run shows).
THEOREM LinkTracksObjects ==
  ASSUME "handshake death" \notin Faults
  PROVE  Spec => []ObjectsAreTracked
<1>1. TypeOK /\ Tracked /\ [Next]_vars => Tracked'
  BY TrackStep
<1>. QED  BY <1>1, TrackInit, TrackedMeaning, LinkTypeCorrect, PTL DEF Spec

(***************************************************************************)
(* A panel that lives stays.                                               *)
(***************************************************************************)

\* Nobody waits beside a panel, and no word of its owner is under way: no handler
\* that could touch the slot finds anything to do.
LEMMA LivePanelStays ==
  ASSUME TypeOK, Tracked, Next, proc = "up", Attached, kept'
  PROVE  panel' = panel
<1>1. /\ panel # 0 /\ LivePanel
      /\ \A k \in 1..Len(objs) : ~Waiting(k)
      /\ \A k \in 1..Len(objs) : objs[k].alive => ~objs[k].fresh /\ objs[k].initialized
      /\ \A k \in 1..Len(objs), i \in 1..Len(wire) : objs[k].alive => ~Answers(i, k)
  BY DEF Attached, Tracked, Slotted, DeadPanel, OneWaits, AnsweredOnce, Waiting
<1>2. CASE \/ StartProcess \/ AcquireName \/ ActivationFails \/ EmitReady \/ InitPanel
           \/ OtherCall \/ StartToolbar \/ ListNamesReply \/ NameAcquired
  BY <1>2 DEF StartProcess, AcquireName, ActivationFails, EmitReady, InitPanel, OtherCall,
     StartToolbar, ListNamesReply, NameAcquired, tpVars
<1>3. CASE Die \/ ShowPanel \/ AddToSettings
  BY <1>3 DEF Die, Exit, ShowPanel, AddToSettings, tpVars
<1>4. CASE Click \/ ButtonStep
  BY <1>4 DEF Click, ButtonStep, PanelShown, PanelHidden, HastyClick, ClickOther,
     StubTimeout, OnlyButton
<1>5. CASE ToolbarDies \/ RemoveFromSettings
  BY <1>5 DEF ToolbarDies, RemoveFromSettings
<1>6. CASE OwnerGone
  <2>1. WireShrank /\ wire[1].kind = "gone"
    BY <1>6, Received DEF OwnerGone
  <2>. QED  BY <1>1, <2>1 DEF WireShrank, LivePanel, OfOwner
<1>7. CASE ReadySignal
  <2>. DEFINE os == [k \in 1..Len(objs) |->
                      IF objs[k].alive THEN [objs[k] EXCEPT !.ready = TRUE] ELSE objs[k]]
              ks == {k \in 1..Len(os) : os[k].alive /\ os[k].initialized /\ os[k].fresh}
  <2>1. AppendPanels(os, ks)
    BY <1>7 DEF ReadySignal
  <2>2. Len(objs) \in Nat /\ \A k \in 1..Len(objs) : objs[k] \in Objects
    BY Lengths
  <2>3. Len(os) = Len(objs)
    BY <2>2
  <2>4. \A k \in 1..Len(objs) : ~(os[k].alive /\ os[k].fresh)
    BY <1>1, <2>2 DEF Objects
  <2>5. ks = {}
    BY <2>3, <2>4
  <2>. HIDE DEF ks, os
  <2>. QED  BY <2>1, <2>5 DEF AppendPanels, tpVars
<1>8. CASE InitReply \/ InitError
  <2>1. /\ 1 \in 1..Len(wire) /\ Head(wire) = wire[1]
        /\ wire[1].objs \subseteq 1..Len(objs) /\ wire[1].kind \in {"reply", "error"}
    BY <1>8, Received DEF InitReply, InitError, WireShrank, MessagesTo
  <2>2. \A k \in wire[1].objs : ~objs[k].alive
    BY <1>1, <2>1 DEF Answers
  <2>3. CASE InitReply
    BY <2>1, <2>2, <2>3 DEF InitReply, tpVars
  <2>4. CASE InitError
    <3>1. {k \in Head(wire).objs : objs[k].alive} = {}
      BY <2>1, <2>2
    <3>2. Destroy({})
      BY <2>4, <3>1 DEF InitError
    <3>. QED  BY <3>2 DEF Destroy
  <2>. QED  BY <1>8, <2>3, <2>4
<1>9. CASE InitTimeout
  BY <1>1, <1>9 DEF InitTimeout
<1>. QED  BY <1>2, <1>3, <1>4, <1>5, <1>6, <1>7, <1>8, <1>9 DEF Next, ButtonStep

\* A panel that runs and is attached is never replaced or dropped, by a late Ready,
\* reply, error or time-out, or a second announcement of the name
\* (mnb_toolbar_append_panel and mnb_toolbar_panel_destroy_cb).
THEOREM LinkKeepsLivePanel ==
  ASSUME "handshake death" \notin Faults
  PROVE  Spec => KeepsLivePanel
<1>1. TypeOK /\ Tracked /\ [Next]_vars => Tracked'
  BY TrackStep
<1>2. TypeOK /\ Tracked /\ [Next]_vars =>
        [proc = "up" /\ Attached /\ kept' => panel' = panel]_vars
  BY LivePanelStays
<1>. QED  BY <1>1, <1>2, TrackInit, LinkTypeCorrect, PTL DEF Spec, KeepsLivePanel

(***************************************************************************)
(* At rest, the panel that runs is attached.                               *)
(***************************************************************************)

\* The panel answered object k.
Replied(k) == objs[k].initialized
              \/ \E i \in 1..Len(wire) : wire[i].kind = "reply" /\ k \in wire[i].objs
\* Ready is under way; message j announces the process that runs.
ReadyComes == \E j \in 1..Len(wire) : wire[j].kind = "ready"
OwnerAt(j) == wire[j].kind = "owner" /\ wire[j].inc = inc

\* An object has no owner proxy before its reply.
Unbound == \A k \in 1..Len(objs) : objs[k].alive /\ ~objs[k].initialized => objs[k].owner = 0
\* Deaths name their process and replies one object.
WellMade ==
  \A i \in 1..Len(wire) : /\ wire[i].kind = "gone" => wire[i].inc # 0
                          /\ wire[i].kind = "reply" => \A k, l \in wire[i].objs : k = l
\* An object without its reply has its call or its answer under way.
InFlight ==
  \A k \in 1..Len(objs) : Waiting(k) /\ ~objs[k].initialized =>
    (\E i \in 1..Len(calls) : Asks(i, k)) \/ (\E i \in 1..Len(wire) : Answers(i, k))
\* Once the panel answered an object, it will hear Ready.
Heard ==
  \A k \in 1..Len(objs) : Waiting(k) /\ Replied(k) =>
    known /\ (emitted => objs[k].ready \/ ReadyComes)
\* An object that has its reply and is ready has left the handshake.
Unheard ==
  kept => \A k \in 1..Len(objs) : Waiting(k) /\ objs[k].initialized => ~objs[k].ready
\* If the process runs again although a call failed, the toolbar will hear of it
\* after the error.
Restarted ==
  proc = "up" =>
    \A k \in 1..Len(objs), i \in 1..Len(wire) :
      objs[k].alive /\ wire[i].kind = "error" /\ k \in wire[i].objs =>
        \E j \in 1..Len(wire) : j > i /\ OwnerAt(j)
\* A process that runs is known to the toolbar, or will be.
Present ==
  kept /\ proc = "up" =>
    \/ phase = "listing" /\ wire[1].inc # 0
    \/ \E j \in 1..Len(wire) : OwnerAt(j)
    \/ \E k \in 1..Len(objs) : Waiting(k)
    \/ panel # 0 /\ objs[panel].owner = inc

\* What is added to Tracked to prove QuietMeansAttached: whatever is still missing
\* is under way.
Underway == Unbound /\ WellMade /\ InFlight /\ Heard /\ Unheard /\ Restarted /\ Present

\* Once nobody waits, nothing but the panel's presence is left to show.
LEMMA NobodyWaits ==
  ASSUME Tracked', \A k \in 1..Len(objs') : ~Waiting(k)', WellMade', Present'
  PROVE  Underway'
<1>1. Unbound'
  BY DEF Unbound, Tracked, OneWaits, Waiting
<1>2. InFlight' /\ Heard' /\ Unheard'
  BY DEF InFlight, Heard, Unheard
<1>3. Restarted'
  BY DEF Restarted, Tracked, AnsweredOnce, Answers, Waiting
<1>. QED  BY <1>1, <1>2, <1>3 DEF Underway

\* What nothing happened to on the toolbar's side.
LEMMA UnderwayFrame ==
  ASSUME TypeOK, Tracked, Underway,
         UNCHANGED <<inc, emitted, known, wire, phase, objs>>, ProcStays,
         kept' => kept /\ panel' = panel,
         \A i \in 1..Len(calls) : calls[i].op = "InitPanel" =>
           \E j \in 1..Len(calls') : calls'[j] = calls[i]
  PROVE  Underway'
<1>1. Unbound' /\ WellMade'
  BY DEF Underway, Unbound, WellMade
<1>2. InFlight'
  <2> SUFFICES ASSUME NEW k \in 1..Len(objs), Waiting(k), ~objs[k].initialized
               PROVE  \/ \E i \in 1..Len(calls') : Asks(i, k)'
                      \/ \E i \in 1..Len(wire) : Answers(i, k)
    BY DEF InFlight, Waiting, Answers
  <2>. QED  BY DEF Underway, InFlight, Asks
<1>3. Heard' /\ Unheard' /\ Restarted'
  BY DEF Underway, Heard, Unheard, Restarted, Waiting, Replied, ReadyComes, OwnerAt, ProcStays
<1>4. Present'
  BY DEF Underway, Present, Waiting, OwnerAt, ProcStays
<1>. QED  BY <1>1, <1>2, <1>3, <1>4 DEF Underway

LEMMA Shrunk ==
  ASSUME TypeOK, calls # <<>>, calls' = Tail(calls)
  PROVE  /\ 1 \in 1..Len(calls) /\ calls[1] = Head(calls)
         /\ \A i \in 1..Len(calls) :
              i # 1 => i - 1 \in 1..Len(calls') /\ calls'[i - 1] = calls[i]
BY FirstCall

LEMMA UnderwayQuietSteps ==
  ASSUME TypeOK, Tracked, Underway,
         \/ StartProcess \/ ButtonStep \/ AddToSettings \/ OtherCall
         \/ Click \/ ShowPanel \/ RemoveFromSettings \/ UNCHANGED vars
  PROVE  Underway'
<1>c. calls \in Seq(CallsFor(Len(objs))) /\ Len(objs) \in Nat
  BY Lengths DEF TypeOK
<1>1. CASE StartProcess \/ ButtonStep \/ AddToSettings \/ UNCHANGED vars
  <2>1. /\ UNCHANGED <<inc, emitted, known, calls, wire, phase, objs, kept, panel>>
        /\ ProcStays
    <3>1. CASE StartProcess
      BY <3>1 DEF StartProcess, tpVars, ProcStays
    <3>2. CASE ButtonStep
      BY <3>2 DEF ButtonStep, PanelShown, PanelHidden,
         HastyClick, ClickOther, StubTimeout, OnlyButton, procVars, ProcStays
    <3>3. CASE AddToSettings
      BY <3>3 DEF AddToSettings, procVars, tpVars, ProcStays
    <3>4. CASE UNCHANGED vars
      BY <3>4 DEF vars, tpVars, procVars, ProcStays
    <3>. QED  BY <1>1, <3>1, <3>2, <3>3, <3>4
  <2>. QED  BY <2>1, UnderwayFrame
<1>2. CASE OtherCall
  <2>1. /\ UNCHANGED <<proc, inc, emitted, known, wire, phase, objs, kept, panel>>
        /\ calls # <<>> /\ Head(calls).op # "InitPanel" /\ calls' = Tail(calls)
    BY <1>2 DEF OtherCall, procVars, tpVars
  <2>2. \A i \in 1..Len(calls) : calls[i].op = "InitPanel" =>
          \E j \in 1..Len(calls') : calls'[j] = calls[i]
    BY <2>1, Shrunk
  <2>. QED  BY <2>1, <2>2, UnderwayFrame DEF ProcStays
<1>3. CASE Click \/ ShowPanel \/ RemoveFromSettings
  <2>1. UNCHANGED <<inc, emitted, known, wire, phase, objs>>
    BY <1>3 DEF Click, ShowPanel, RemoveFromSettings
  <2>2. kept' => kept /\ panel' = panel
    BY <1>3 DEF Click, ShowPanel, RemoveFromSettings, tpVars
  <2>3. Send(<<>>) \/ \E c \in {Call("Ping", 0), Call("Show", 0), Call("Unload", 0)} : Send(<<c>>)
    BY <1>3 DEF Click, ShowPanel, RemoveFromSettings
  <2>4. calls' = calls \/ \E c : CallsGrew(c)
    BY <1>c, <2>3, Sent, SentNothing
  <2>5. ProcStays
    BY <1>c, <2>3, Sent, SentNothing DEF ProcStays
  <2>6. \A i \in 1..Len(calls) : \E j \in 1..Len(calls') : calls'[j] = calls[i]
    BY <2>4 DEF CallsGrew
  <2>. QED  BY <2>1, <2>2, <2>5, <2>6, UnderwayFrame
<1>. QED  BY <1>1, <1>2, <1>3

LEMMA UnderwayAcquire ==
  ASSUME TypeOK, Tracked, Underway, AcquireName
  PROVE  Underway'
<1>1. /\ UNCHANGED <<calls, phase, objs, kept, panel>>
      /\ proc = "starting" /\ proc' = "up" /\ inc' = inc + 1 /\ inc \in Nat
  BY DEF AcquireName, tpVars, TypeOK
<1>. DEFINE m == Message("owner", {}, inc + 1)
<1>m. m.kind = "owner" /\ m.objs = {} /\ m.inc = inc + 1
  BY DEF Message
<1>2. /\ phase = "down" => wire' = wire
      /\ phase # "down" => WireGrew(1) /\ wire'[Len(wire) + 1] = m
  <2>1. m \in MessagesTo(Len(objs))
    BY <1>1 DEF Message, MessagesTo
  <2>2. Deliver(<<m>>)
    BY DEF AcquireName
  <2>. HIDE DEF m
  <2>. QED  BY <2>1, <2>2, DeliveredOne DEF Tracked
<1>l. Len(wire) \in Nat /\ Len(objs) \in Nat
  BY Lengths
<1>. HIDE DEF m
<1>3. CASE phase = "down"
  <2>1. Len(objs') = 0 /\ ~kept' /\ wire' = wire
    BY <1>1, <1>2, <1>3, EmptySeq DEF Tracked, Phases
  <2>. QED  BY <2>1 DEF Underway, Unbound, WellMade, InFlight, Heard, Unheard, Restarted, Present
<1>4. CASE phase # "down"
  <2>w. \A i \in 1..Len(wire') :
          \/ i \in 1..Len(wire) /\ wire'[i] = wire[i]
          \/ i = Len(wire) + 1 /\ wire'[i] = m
    BY <1>2, <1>4, <1>l DEF WireGrew
  <2>o. /\ Len(wire) + 1 \in 1..Len(wire')
        /\ wire'[Len(wire) + 1].kind = "owner" /\ wire'[Len(wire) + 1].inc = inc'
    BY <1>1, <1>2, <1>4, <1>l, <1>m DEF WireGrew
  <2>1. Unbound' /\ Unheard'
    BY <1>1 DEF Underway, Unbound, Unheard, Waiting
  <2>2. WellMade'
    BY <1>m, <2>w DEF Underway, WellMade
  <2>3. InFlight'
    <3>1. \A k \in 1..Len(objs), i \in 1..Len(wire) :
            Answers(i, k) => i \in 1..Len(wire') /\ Answers(i, k)'
      BY <1>2, <1>4 DEF WireGrew, Answers
    <3>. QED  BY <1>1, <3>1 DEF Underway, InFlight, Waiting, Asks
  <2>4. Heard'
    <3> SUFFICES ASSUME NEW k \in 1..Len(objs), Waiting(k)', Replied(k)' PROVE FALSE
      BY <1>1 DEF Heard
    <3>1. Waiting(k)
      BY <1>1 DEF Waiting
    <3>2. Replied(k)
      BY <1>1, <1>m, <2>w DEF Replied
    <3>. QED  BY <1>1, <3>1, <3>2 DEF Tracked, Bound, Replies, Replied, Waiting
  <2>5. Restarted'
    <3> SUFFICES ASSUME NEW k \in 1..Len(objs), NEW i \in 1..Len(wire'),
                        wire'[i].kind = "error"
                 PROVE  \E j \in 1..Len(wire') : j > i /\ OwnerAt(j)'
      BY <1>1 DEF Restarted
    <3>1. i # Len(wire) + 1
      BY <1>m, <2>w
    <3>2. Len(wire) + 1 > i
      BY <1>l, <2>w, <3>1
    <3>. QED  BY <2>o, <3>2 DEF OwnerAt
  <2>6. Present'
    BY <2>o DEF Present, OwnerAt
  <2>. QED  BY <2>1, <2>2, <2>3, <2>4, <2>5, <2>6 DEF Underway
<1>. QED  BY <1>3, <1>4

LEMMA UnderwayEmit ==
  ASSUME TypeOK, Tracked, Underway, EmitReady
  PROVE  Underway'
<1>. DEFINE m == Message("ready", {}, inc)
<1>1. UNCHANGED <<proc, inc, known, calls, phase, objs, kept, panel>>
  BY DEF EmitReady, tpVars
<1>2. m \in MessagesTo(Len(objs)) /\ m.kind = "ready"
  BY DEF Message, MessagesTo, TypeOK
<1>3. \/ wire' = wire /\ (~known \/ phase = "down")
      \/ phase # "down" /\ WireGrew(1) /\ wire'[Len(wire) + 1] = m
  <2>1. (wire' = wire /\ ~known) \/ Deliver(<<m>>)
    BY DEF EmitReady
  <2>. HIDE DEF m
  <2>. QED  BY <1>2, <2>1, DeliveredOne DEF Tracked
<1>. HIDE DEF m
<1>l. Len(wire) \in Nat /\ Len(objs) \in Nat
  BY Lengths
<1>4. \A i \in 1..Len(wire') : wire'[i].kind = "ready" \/ (i \in 1..Len(wire) /\ wire'[i] = wire[i])
  BY <1>2, <1>3, <1>l DEF WireGrew
<1>5. \A i \in 1..Len(wire) : i \in 1..Len(wire') /\ wire'[i] = wire[i]
  BY <1>3 DEF WireGrew
<1>6. Unbound' /\ Unheard' /\ WellMade'
  BY <1>1, <1>4 DEF Underway, Unbound, Unheard, WellMade, Waiting
<1>7. InFlight'
  <2>1. \A k \in 1..Len(objs), i \in 1..Len(wire) :
          Answers(i, k) => i \in 1..Len(wire') /\ Answers(i, k)'
    BY <1>5 DEF Answers
  <2>. QED  BY <1>1, <2>1 DEF Underway, InFlight, Waiting, Asks
<1>8. Heard'
  <2> SUFFICES ASSUME NEW k \in 1..Len(objs), Waiting(k)', Replied(k)'
               PROVE  known /\ ReadyComes'
    BY <1>1 DEF Heard
  <2>1. Waiting(k) /\ Replied(k)
    BY <1>1, <1>4 DEF Waiting, Replied
  <2>2. known
    BY <2>1 DEF Underway, Heard
  <2>3. phase # "down"
    BY <1>l, EmptySeq DEF Tracked, Phases
  <2>4. Len(wire) + 1 \in 1..Len(wire') /\ wire'[Len(wire) + 1].kind = "ready"
    BY <1>2, <1>3, <1>l, <2>2, <2>3 DEF WireGrew
  <2>. QED  BY <2>2, <2>4 DEF ReadyComes
<1>9. Restarted'
  <2>1. \A j \in 1..Len(wire) : OwnerAt(j) => j \in 1..Len(wire') /\ OwnerAt(j)'
    BY <1>1, <1>5 DEF OwnerAt
  <2>. QED  BY <1>1, <1>4, <2>1 DEF Underway, Restarted
<1>10. Present'
  <2>1. \A j \in 1..Len(wire) : OwnerAt(j) => j \in 1..Len(wire') /\ OwnerAt(j)'
    BY <1>1, <1>5 DEF OwnerAt
  <2>2. phase = "listing" => wire'[1] = wire[1]
    BY <1>5, <1>l DEF Tracked, Phases
  <2>. QED  BY <1>1, <2>1, <2>2 DEF Underway, Present, Waiting
<1>. QED  BY <1>6, <1>7, <1>8, <1>9, <1>10 DEF Underway

\* The process or its activation ends: who asked is told so.
LEMMA UnderwayFarewell ==
  ASSUME TypeOK, Tracked, Tracked', Underway,
         UNCHANGED <<phase, objs, kept>>, proc' # "up",
         phase = "down" => wire' = wire,
         phase # "down" => \E n \in Nat : Farewell(n)
  PROVE  Underway'
<1>l. Len(wire) \in Nat /\ Len(objs) \in Nat
  BY Lengths
<1>1. Unbound' /\ Unheard' /\ Restarted' /\ Present'
  BY DEF Underway, Unbound, Unheard, Restarted, Present, Waiting
<1>2. Heard'
  <2> SUFFICES ASSUME NEW k \in 1..Len(objs), Waiting(k)', Replied(k)' PROVE FALSE
    BY DEF Heard
  <2>. QED  BY DEF Tracked, Bound, Replies, Replied, Waiting
<1>3. CASE phase = "down"
  <2>1. Len(objs') = 0 /\ wire' = wire
    BY <1>3, EmptySeq DEF Tracked, Phases
  <2>. QED  BY <1>1, <1>2, <2>1 DEF Underway, WellMade, InFlight
<1>4. CASE phase # "down"
  <2>1. PICK n \in Nat : Farewell(n)
    BY <1>4
  <2>2. WellMade'
    <3>1. proc = "up" => inc # 0
      BY DEF Tracked, Phases
    <3>2. \A i \in 1..Len(wire') :
            \/ i \in 1..Len(wire) /\ wire'[i] = wire[i]
            \/ i = Len(wire) + (i - Len(wire)) /\ i - Len(wire) \in 1..n
      BY <2>1, <1>l DEF Farewell, WireGrew
    <3>. QED  BY <2>1, <3>1, <3>2, ZenonT(60) DEF Underway, WellMade, Farewell
  <2>3. InFlight'
    <3> SUFFICES ASSUME NEW k \in 1..Len(objs), Waiting(k), ~objs[k].initialized
                 PROVE  \E i \in 1..Len(wire') : Answers(i, k)'
      BY DEF InFlight, Waiting
    <3>1. CASE \E i \in 1..Len(wire) : Answers(i, k)
      BY <2>1, <3>1 DEF Farewell, WireGrew, Answers
    <3>2. CASE \E i \in 1..Len(calls) : Asks(i, k)
      <4>1. /\ n \in 1..n /\ wire'[Len(wire) + n].kind = "error"
            /\ k \in wire'[Len(wire) + n].objs
        BY <2>1, <3>2 DEF Farewell, Asks
      <4>2. Len(wire) + n \in 1..Len(wire')
        BY <2>1, <4>1, <1>l DEF Farewell, WireGrew
      <4>. QED  BY <4>1, <4>2 DEF Answers
    <3>. QED  BY <3>1, <3>2 DEF Underway, InFlight
  <2>. QED  BY <1>1, <1>2, <2>2, <2>3 DEF Underway
<1>. QED  BY <1>3, <1>4

LEMMA UnderwayEnd ==
  ASSUME TypeOK, Tracked, Tracked', Underway, Die \/ ActivationFails
  PROVE  Underway'
BY EndsWithFarewell, UnderwayFarewell

LEMMA UnderwayInitPanel ==
  ASSUME AllAnswered, TypeOK, Tracked, Underway, InitPanel
  PROVE  Underway'
<1>l. Len(wire) \in Nat /\ Len(objs) \in Nat /\ Len(calls) \in Nat
  BY Lengths
<1>1. /\ UNCHANGED <<proc, inc, emitted, phase, objs, kept, panel>>
      /\ calls # <<>> /\ calls' = Tail(calls) /\ Head(calls).op = "InitPanel"
      /\ known' = (known \/ Head(calls).obj # 0)
  BY DEF InitPanel, tpVars
<1>. DEFINE k == calls[1].obj
<1>2. /\ 1 \in 1..Len(calls) /\ calls[1] = Head(calls)
      /\ \A i \in 1..Len(calls) :
           i # 1 => i - 1 \in 1..Len(calls') /\ calls'[i - 1] = calls[i]
  BY <1>1, Shrunk
<1>3. CASE phase = "down"
  <2>1. Len(objs') = 0 /\ ~kept' /\ wire' = wire
    <3>1. objs = <<>> /\ ~kept
      BY <1>3 DEF Tracked, Phases
    <3>2. wire' = wire
      BY <1>3 DEF InitPanel, Deliver
    <3>. QED  BY <1>1, <3>1, <3>2, EmptySeq
  <2>. QED  BY <2>1 DEF Underway, Unbound, WellMade, InFlight, Heard, Unheard, Restarted, Present
<1>4. CASE phase # "down"
  <2>1. PICK n \in Nat : Answer(n, k)
    BY <1>4, InitPanelAnswers DEF Tracked
  <2>. HIDE DEF k
  <2>o. \A i \in 1..Len(wire) : i \in 1..Len(wire') /\ wire'[i] = wire[i]
    BY <2>1 DEF Answer, WireGrew
  <2>n. \A i \in 1..Len(wire') :
          \/ i \in 1..Len(wire) /\ wire'[i] = wire[i]
          \/ wire'[i].kind = "ready"
          \/ wire'[i].kind = "reply" /\ wire'[i].objs \subseteq {k} \ {0}
    <3> SUFFICES ASSUME NEW i \in 1..Len(wire'), i \notin 1..Len(wire)
                 PROVE  \/ wire'[i].kind = "ready"
                        \/ wire'[i].kind = "reply" /\ wire'[i].objs \subseteq {k} \ {0}
      BY <2>o
    <3>1. i - Len(wire) \in 1..n /\ i = Len(wire) + (i - Len(wire))
      BY <2>1, <1>l DEF Answer, WireGrew
    <3>2. \A j \in 1..n : wire'[Len(wire) + j].kind # "error"
      BY <2>1 DEF Answer
    <3>3. \A j \in 1..n :
           \/ wire'[Len(wire) + j].kind = "ready"
           \/ /\ wire'[Len(wire) + j].kind \in {"reply", "error"}
              /\ wire'[Len(wire) + j].objs \subseteq {k} \ {0}
      BY <2>1 DEF Answer
    <3>. QED  BY <3>1, <3>2, <3>3
  <2>k. k # 0 => \E i \in 1..Len(wire') : wire'[i].kind = "reply" /\ k \in wire'[i].objs
    <3> SUFFICES ASSUME k # 0
                 PROVE  \E i \in 1..Len(wire') : wire'[i].kind = "reply" /\ k \in wire'[i].objs
      OBVIOUS
    <3>1. /\ n \in 1..n /\ wire'[Len(wire) + n].kind = "reply"
          /\ k \in wire'[Len(wire) + n].objs
      BY <2>1 DEF Answer
    <3>2. Len(wire) + n \in 1..Len(wire')
      BY <2>1, <3>1, <1>l DEF Answer, WireGrew
    <3>. QED  BY <3>1, <3>2
  <2>r. emitted => ReadyComes'
    <3> SUFFICES ASSUME emitted PROVE ReadyComes'
      OBVIOUS
    <3>1. PICK i \in 1..n : wire'[Len(wire) + i].kind = "ready"
      BY <2>1 DEF Answer
    <3>2. Len(wire) + i \in 1..Len(wire')
      BY <2>1, <1>l DEF Answer, WireGrew
    <3>. QED  BY <3>1, <3>2 DEF ReadyComes
  <2>2. Unbound' /\ Unheard'
    BY <1>1 DEF Underway, Unbound, Unheard, Waiting
  <2>3. WellMade'
    BY <2>n DEF Underway, WellMade
  <2>4. InFlight'
    <3> SUFFICES ASSUME NEW x \in 1..Len(objs), Waiting(x), ~objs[x].initialized
                 PROVE  \/ \E i \in 1..Len(calls') : Asks(i, x)'
                        \/ \E i \in 1..Len(wire') : Answers(i, x)'
      BY <1>1 DEF InFlight, Waiting
    <3>1. CASE \E i \in 1..Len(wire) : Answers(i, x)
      BY <2>o, <3>1 DEF Answers
    <3>2. ASSUME NEW i \in 1..Len(calls), Asks(i, x), i # 1
          PROVE  \E j \in 1..Len(calls') : Asks(j, x)'
      BY <1>2, <3>2 DEF Asks
    <3>3. CASE Asks(1, x)
      <4>1. x = k /\ k # 0
        BY <1>l, <3>3 DEF Asks, k
      <4>. QED  BY <2>k, <4>1 DEF Answers
    <3>. QED  BY <3>1, <3>2, <3>3 DEF Underway, InFlight
  <2>5. Heard'
    <3> SUFFICES ASSUME NEW x \in 1..Len(objs), Waiting(x)', Replied(x)'
                 PROVE  known' /\ (emitted => ReadyComes')
      BY <1>1 DEF Heard
    <3>1. known'
      <4>1. CASE Replied(x)
        BY <1>1, <4>1 DEF Underway, Heard, Waiting
      <4>2. CASE ~Replied(x)
        <5>1. PICK i \in 1..Len(wire') : wire'[i].kind = "reply" /\ x \in wire'[i].objs
          BY <1>1, <4>2 DEF Replied
        <5>2. wire'[i].objs \subseteq {k} \ {0}
          BY <2>n, <4>2, <5>1 DEF Replied
        <5>3. k # 0
          BY <5>1, <5>2
        <5>. QED  BY <1>1, <1>2, <5>3 DEF k
      <4>. QED  BY <4>1, <4>2
    <3>. QED  BY <2>r, <3>1
  <2>6. Restarted'
    <3>1. \A j \in 1..Len(wire) : OwnerAt(j) => j \in 1..Len(wire') /\ OwnerAt(j)'
      BY <1>1, <2>o DEF OwnerAt
    <3>. QED  BY <1>1, <2>n, <3>1 DEF Underway, Restarted
  <2>7. Present'
    <3>1. \A j \in 1..Len(wire) : OwnerAt(j) => j \in 1..Len(wire') /\ OwnerAt(j)'
      BY <1>1, <2>o DEF OwnerAt
    <3>2. phase = "listing" => wire'[1] = wire[1]
      BY <2>o, <1>l DEF Tracked, Phases
    <3>. QED  BY <1>1, <3>1, <3>2 DEF Underway, Present, Waiting
  <2>. QED  BY <2>2, <2>3, <2>4, <2>5, <2>6, <2>7 DEF Underway
<1>. QED  BY <1>3, <1>4

LEMMA UnderwayToolbar ==
  ASSUME TypeOK, Tracked, Tracked', Underway, StartToolbar \/ ToolbarDies
  PROVE  Underway'
<1>1. objs' = <<>> /\ Len(<<>>) = 0
  BY EmptySeq DEF StartToolbar, ToolbarDies, Tracked, Phases, tpVars
<1>2. WellMade' /\ Present'
  <2>1. CASE StartToolbar
    <3>. DEFINE m == Message("names", {}, IF proc = "up" THEN inc ELSE 0)
    <3>1. m.kind = "names" /\ (proc = "up" => m.inc = inc)
      BY DEF Message
    <3>2. /\ wire' = <<m>> /\ phase' = "listing"
          /\ UNCHANGED <<proc, inc>>
      BY <2>1 DEF StartToolbar, procVars, tpVars
    <3>. HIDE DEF m
    <3>3. Len(wire') = 1 /\ wire'[1] = m
      BY <3>2
    <3>. QED  BY <3>1, <3>2, <3>3 DEF Tracked, Phases, WellMade, Present
  <2>2. CASE ToolbarDies
    BY <1>1, <2>2 DEF ToolbarDies, WellMade, Present
  <2>. QED  BY <2>1, <2>2
<1>. QED  BY <1>1, <1>2 DEF Underway, Unbound, InFlight, Heard, Unheard, Restarted

\* The toolbar takes a message that changes none of the handshakes.
LEMMA UnderwayDrop ==
  ASSUME TypeOK, Tracked, Underway, WireShrank,
         UNCHANGED <<proc, inc, calls, emitted, known, kept>>,
         Len(objs') = Len(objs),
         \A k \in 1..Len(objs) : /\ objs'[k].alive = objs[k].alive
                                 /\ objs'[k].fresh = objs[k].fresh
                                 /\ objs'[k].initialized = objs[k].initialized
                                 /\ objs'[k].owner \in {objs[k].owner, 0},
         \A k \in 1..Len(objs) : objs[k].alive => ~Answers(1, k),
         \A k \in 1..Len(objs) : Waiting(k) /\ Replied(k) =>
           \/ objs'[k].ready
           \/ objs'[k].ready = objs[k].ready /\ wire[1].kind # "ready",
         \A k \in 1..Len(objs) : Waiting(k) /\ objs[k].initialized /\ kept =>
           objs'[k].ready = objs[k].ready,
         Present'
  PROVE  Underway'
<1>l. Len(wire) \in Nat /\ Len(objs) \in Nat
  BY Lengths
<1>w. \A i \in 1..Len(wire') : i + 1 \in 1..Len(wire) /\ wire'[i] = wire[i + 1]
  BY DEF WireShrank
<1>s. \A i \in 1..Len(wire) : i # 1 => i - 1 \in 1..Len(wire') /\ wire'[i - 1] = wire[i]
  BY DEF WireShrank
<1>1. Unbound' /\ WellMade'
  BY <1>w DEF Underway, Unbound, WellMade
<1>2. InFlight'
  <2> SUFFICES ASSUME NEW k \in 1..Len(objs), Waiting(k), ~objs[k].initialized
               PROVE  \/ \E i \in 1..Len(calls) : Asks(i, k)
                      \/ \E i \in 1..Len(wire') : Answers(i, k)'
    BY DEF InFlight, Waiting, Asks
  <2>1. ASSUME NEW i \in 1..Len(wire), Answers(i, k)
        PROVE  \E j \in 1..Len(wire') : Answers(j, k)'
    <3>1. i # 1
      BY <2>1 DEF Waiting
    <3>2. i - 1 \in 1..Len(wire') /\ wire'[i - 1] = wire[i]
      BY <1>s, <3>1
    <3>. QED  BY <2>1, <3>2 DEF Answers
  <2>. QED  BY <2>1 DEF Underway, InFlight
<1>3. Heard'
  <2> SUFFICES ASSUME NEW k \in 1..Len(objs), Waiting(k)', Replied(k)'
               PROVE  known /\ (emitted => objs'[k].ready \/ ReadyComes')
    BY DEF Heard
  <2>1. Waiting(k) /\ Replied(k)
    BY <1>w, SMTT(30) DEF Waiting, Replied
  <2>2. known /\ (emitted => objs[k].ready \/ ReadyComes)
    BY <2>1 DEF Underway, Heard
  <2>3. CASE objs'[k].ready
    BY <2>2, <2>3
  <2>4. CASE objs'[k].ready = objs[k].ready /\ wire[1].kind # "ready"
    <3>1. ReadyComes => ReadyComes'
      <4> SUFFICES ASSUME NEW i \in 1..Len(wire), wire[i].kind = "ready" PROVE ReadyComes'
        BY DEF ReadyComes
      <4>1. i - 1 \in 1..Len(wire') /\ wire'[i - 1] = wire[i]
        BY <1>s, <2>4
      <4>. QED  BY <4>1 DEF ReadyComes
    <3>. QED  BY <2>2, <2>4, <3>1
  <2>. QED  BY <2>1, <2>3, <2>4
<1>4. Unheard'
  BY DEF Underway, Unheard, Waiting
<1>5. Restarted'
  <2> SUFFICES ASSUME proc = "up", NEW k \in 1..Len(objs), NEW i \in 1..Len(wire'),
                      objs[k].alive, wire'[i].kind = "error", k \in wire'[i].objs
               PROVE  \E j \in 1..Len(wire') :
                        j > i /\ wire'[j].kind = "owner" /\ wire'[j].inc = inc
    BY DEF Restarted, OwnerAt
  <2>1. i + 1 \in 1..Len(wire) /\ wire'[i] = wire[i + 1]
    BY <1>w
  <2>2. PICK j \in 1..Len(wire) : j > i + 1 /\ OwnerAt(j)
    BY <2>1 DEF Underway, Restarted
  <2>3. j - 1 \in 1..Len(wire') /\ wire'[j - 1] = wire[j] /\ j - 1 > i
    BY <1>s, <2>2
  <2>. QED  BY <2>2, <2>3 DEF OwnerAt
<1>. QED  BY <1>1, <1>2, <1>3, <1>4, <1>5 DEF Underway

\* The owner whose coming is announced later is still to come.
LEMMA StillComes ==
  ASSUME TypeOK, WireShrank, inc' = inc, NEW i \in 1..Len(wire), OwnerAt(i), i # 1
  PROVE  \E j \in 1..Len(wire') : OwnerAt(j)'
<1>1. i - 1 \in 1..Len(wire') /\ wire'[i - 1] = wire[i]
  BY DEF WireShrank
<1>. QED  BY <1>1 DEF OwnerAt

\* A new object asks for its panel.
LEMMA UnderwayHandleName ==
  ASSUME TypeOK, Tracked, Tracked', Underway, WireShrank,
         \A k \in 1..Len(objs) : ~Waiting(k),
         NEW os \in Seq(Objects), Len(os) = Len(objs),
         \A k \in 1..Len(objs) : /\ os[k].alive = objs[k].alive
                                 /\ os[k].fresh = objs[k].fresh,
         HandleName(os, 0)
  PROVE  Underway'
<1>l. /\ Len(wire) \in Nat /\ Len(objs) \in Nat /\ Len(calls) \in Nat
  BY Lengths
<1>. DEFINE n == Len(objs) + 1
            c == Call("InitPanel", n)
<1>1. /\ Len(objs') = n /\ objs'[n] = NewObject
      /\ \A k \in 1..Len(objs) : objs'[k] = os[k]
  BY <1>l, AppendProperties DEF HandleName, NewObject, Objects
<1>2. CallsGrew(c)
  <2>1. Send(<<c>>) /\ calls \in Seq(CallsFor(Len(objs)))
    BY DEF HandleName, TypeOK
  <2>. HIDE DEF c
  <2>. QED  BY <2>1, <1>l, Sent
<1>3. PICK a \in 1..Len(calls') : calls'[a].op = "InitPanel" /\ calls'[a].obj = n
  BY <1>2, <1>l DEF CallsGrew, Call
<1>4. /\ NewObject.alive /\ NewObject.fresh /\ ~NewObject.initialized /\ NewObject.owner = 0
  BY DEF NewObject
<1>. HIDE DEF c
<1>5. n \in 1..n /\ \A k \in 1..n : k = n \/ k \in 1..Len(objs)
  BY <1>l
<1>n. PICK x : x = n
  OBVIOUS
<1>. HIDE DEF n
<1>6. \A k \in 1..Len(objs') : Waiting(k)' => k = x
  BY <1>1, <1>5, <1>n DEF Waiting
<1>7. /\ x \in 1..Len(objs') /\ Waiting(x)' /\ ~objs'[x].initialized /\ Asks(a, x)'
      /\ objs'[x].owner = 0
  BY <1>1, <1>3, <1>4, <1>5, <1>n DEF Waiting, Asks
<1>8. \A k \in 1..Len(objs'), i \in 1..Len(wire') : objs'[k].alive => ~Answers(i, k)'
  <2>1. \A i \in 1..Len(wire') : ~Answers(i, x)'
    BY <1>3, <1>7 DEF Tracked, AskedOnce, Waiting
  <2>2. \A k \in 1..Len(objs'), i \in 1..Len(wire') :
          objs'[k].alive /\ Answers(i, k)' => Waiting(k)'
    BY DEF Tracked, AnsweredOnce, Waiting
  <2>. QED  BY <1>6, <2>1, <2>2
<1>9. Unbound'
  BY <1>6, <1>7 DEF Unbound, Tracked, OneWaits, Waiting
<1>10. WellMade'
  BY DEF Underway, WellMade, WireShrank
<1>11. InFlight'
  BY <1>3, <1>6, <1>7 DEF InFlight
<1>12. Heard' /\ Unheard'
  BY <1>6, <1>7, <1>8 DEF Heard, Unheard, Replied, Answers, Waiting
<1>13. Restarted'
  BY <1>8 DEF Restarted, Answers
<1>14. Present'
  BY <1>7 DEF Present
<1>. QED  BY <1>9, <1>10, <1>11, <1>12, <1>13, <1>14 DEF Underway

LEMMA UnderwayListNames ==
  ASSUME TypeOK, Tracked, Tracked', Underway, ListNamesReply
  PROVE  Underway'
<1>1. /\ WireShrank /\ wire[1].kind = "names" /\ phase # "down" /\ phase' = "connected"
      /\ Head(wire) = wire[1]
      /\ UNCHANGED <<inc, emitted, known, kept, panel>>
  BY Received DEF ListNamesReply, tpVars
<1>2. phase = "listing" /\ objs = <<>> /\ pending = 0 /\ panel = 0 /\ Len(objs) = 0
  BY <1>1, EmptySeq DEF Tracked, Phases, WireShrank
<1>3. CASE HandleName(objs, pending)
  <2>1. HandleName(objs, 0) /\ objs \in Seq(Objects)
    BY <1>2, <1>3 DEF TypeOK
  <2>2. \A k \in 1..Len(objs) : ~Waiting(k)
    BY <1>2
  <2>. QED  BY <1>1, <2>1, <2>2, UnderwayHandleName
<1>4. CASE UNCHANGED <<objs, pending, calls, proc>> /\ (wire[1].inc = 0 \/ proc # "up" \/ ~listed)
  <2>1. Present'
    <3> SUFFICES ASSUME kept, proc = "up" PROVE \E j \in 1..Len(wire') : OwnerAt(j)'
      BY <1>1, <1>4 DEF Present
    <3>1. wire[1].inc = 0
      BY <1>4 DEF Tracked, Phases
    <3>2. PICK i \in 1..Len(wire) : OwnerAt(i)
      BY <1>2, <3>1 DEF Underway, Present
    <3>3. i # 1
      BY <1>1, <3>2 DEF OwnerAt
    <3>. QED  BY <1>1, <3>2, <3>3, StillComes
  <2>. QED  BY <1>1, <1>2, <1>4, <2>1, UnderwayDrop
<1>. QED  BY <1>1, <1>3, <1>4 DEF ListNamesReply

LEMMA UnderwayNameAcquired ==
  ASSUME TypeOK, Tracked, Tracked', Underway, NameAcquired
  PROVE  Underway'
<1>1. /\ WireShrank /\ wire[1].kind = "owner" /\ phase # "down" /\ phase' = phase
      /\ UNCHANGED <<inc, emitted, known, kept, panel>>
  BY Received DEF NameAcquired, tpVars
<1>2. phase = "connected" /\ 1 \in 1..Len(wire) /\ OfOwner(1)
  BY <1>1 DEF Tracked, Phases, WireShrank, OfOwner, TypeOK
<1>4. CASE pending = 0
  <2>1. \A k \in 1..Len(objs) : ~Waiting(k)
    BY <1>2, <1>4 DEF Tracked, OneWaits, Bound
  <2>2. HandleName(objs, 0) /\ objs \in Seq(Objects)
    BY <1>1, <1>4 DEF NameAcquired, AlreadyHandling, TypeOK
  <2>. QED  BY <1>1, <2>1, <2>2, UnderwayHandleName
<1>5. CASE pending # 0
  <2>1. UNCHANGED <<objs, pending, calls, proc>>
    BY <1>5 DEF NameAcquired, AlreadyHandling
  <2>2. Present'
    BY <1>5, <2>1 DEF Present, Tracked, OneWaits, Waiting
  <2>. QED  BY <1>1, <1>2, <2>1, <2>2, UnderwayDrop DEF Answers
<1>. QED  BY <1>4, <1>5

LEMMA UnderwayOwnerGone ==
  ASSUME TypeOK, Tracked, Tracked', Underway, OwnerGone
  PROVE  Underway'
<1>l. Len(wire) \in Nat /\ Len(objs) \in Nat
  BY Lengths
<1>. DEFINE i == wire[1].inc
            os == Orphan(i)
<1>1. /\ WireShrank /\ wire[1].kind = "gone" /\ phase # "down" /\ phase' = phase
      /\ Head(wire) = wire[1]
      /\ UNCHANGED <<inc, emitted, known, kept>>
  BY Received DEF OwnerGone
<1>2. phase = "connected" /\ 1 \in 1..Len(wire) /\ OfOwner(1)
  BY <1>1 DEF Tracked, Phases, WireShrank, OfOwner, TypeOK
<1>4. /\ os \in Seq(Objects) /\ Len(os) = Len(objs)
      /\ \A k \in 1..Len(objs) : /\ os[k].alive = objs[k].alive
                                 /\ os[k].fresh = objs[k].fresh
                                 /\ os[k].initialized = objs[k].initialized
                                 /\ objs[k].owner # i => os[k] = objs[k]
  BY Orphans
<1>o. \A k \in 1..Len(objs) : os[k].owner \in {objs[k].owner, 0}
  BY DEF Orphan
<1>5. \A k \in 1..Len(objs) : ~(Waiting(k) /\ objs[k].initialized)
  BY <1>2 DEF Tracked, Bound
<1>6. panel # 0 => pending = 0 /\ Unlist(1) = 0 /\ \A k \in 1..Len(objs) : ~Waiting(k)
  BY DEF Tracked, OneWaits, Unlist
<1>8. i # 0
  BY <1>1, <1>2 DEF Underway, WellMade
<1>9. \A k \in 1..Len(objs) : Waiting(k) => os[k] = objs[k]
  BY <1>4, <1>5, <1>8 DEF Underway, Unbound, Waiting
<1>10. \/ /\ panel # 0 /\ HandleName(os, Unlist(1))
       \/ /\ objs' = os /\ UNCHANGED <<calls, proc>> /\ panel' \in {0, panel}
  BY <1>1 DEF OwnerGone
<1>. HIDE DEF os, i
<1>11. CASE panel # 0 /\ HandleName(os, Unlist(1))
  <2>1. HandleName(os, 0)
    BY <1>6, <1>11
  <2>. QED  BY <1>1, <1>4, <1>6, <1>11, <2>1, UnderwayHandleName
<1>12. CASE objs' = os /\ UNCHANGED <<calls, proc>> /\ panel' \in {0, panel}
  <2>1. Present'
    <3> SUFFICES ASSUME kept, proc = "up"
                 PROVE  \/ \E j \in 1..Len(wire') : OwnerAt(j)'
                        \/ \E k \in 1..Len(objs) : Waiting(k)
      BY <1>1, <1>4, <1>12 DEF Present, Waiting
    <3>1. ~(panel # 0 /\ objs[panel].owner = inc)
      BY <1>2 DEF Tracked, Slotted, LivePanel, DeadPanel
    <3>2. ASSUME NEW j \in 1..Len(wire), OwnerAt(j)
          PROVE  \E l \in 1..Len(wire') : OwnerAt(l)'
      <4>1. j # 1
        BY <1>1, <3>2 DEF OwnerAt
      <4>. QED  BY <1>1, <3>2, <4>1, StillComes
    <3>. QED  BY <1>2, <3>1, <3>2 DEF Underway, Present
  <2>2. \A k \in 1..Len(objs) : ~Answers(1, k)
    BY <1>1 DEF Answers
  <2>. QED  BY <1>1, <1>4, <1>o, <1>9, <1>12, <2>1, <2>2, UnderwayDrop DEF Waiting
<1>. QED  BY <1>10, <1>11, <1>12

LEMMA UnderwayReadySignal ==
  ASSUME TypeOK, Tracked, Tracked', Underway, ReadySignal
  PROVE  Underway'
<1>l. /\ Len(wire) \in Nat /\ Len(objs) \in Nat
      /\ \A k \in 1..Len(objs) : objs[k] \in Objects
  BY Lengths
<1>. DEFINE os == [k \in 1..Len(objs) |->
                    IF objs[k].alive THEN [objs[k] EXCEPT !.ready = TRUE] ELSE objs[k]]
            ks == {k \in 1..Len(os) : os[k].alive /\ os[k].initialized /\ os[k].fresh}
<1>1. /\ WireShrank /\ wire[1].kind = "ready" /\ phase # "down" /\ phase' = phase
      /\ UNCHANGED <<inc, emitted, known, kept, listed>>
  BY Received DEF ReadySignal
<1>2. phase = "connected"
  BY <1>1 DEF Tracked, Phases, WireShrank, TypeOK
<1>3. AppendPanels(os, ks)
  BY DEF ReadySignal
<1>4. Len(os) = Len(objs)
  BY <1>l
<1>5. \A k \in 1..Len(objs) : /\ os[k].alive = objs[k].alive
                              /\ os[k].fresh = objs[k].fresh
                              /\ os[k].initialized = objs[k].initialized
                              /\ os[k].owner = objs[k].owner
                              /\ objs[k].alive => os[k].ready
  <2> SUFFICES ASSUME NEW k \in 1..Len(objs)
               PROVE  /\ os[k].alive = objs[k].alive
                      /\ os[k].fresh = objs[k].fresh
                      /\ os[k].initialized = objs[k].initialized
                      /\ os[k].owner = objs[k].owner
                      /\ objs[k].alive => os[k].ready
    OBVIOUS
  <2>1. objs[k] \in Objects
    BY <1>l
  <2>. QED  BY <2>1 DEF Objects
<1>. HIDE DEF os
<1>6. ks = {k \in 1..Len(objs) : Waiting(k) /\ objs[k].initialized}
  BY <1>4, <1>5 DEF Waiting
<1>. HIDE DEF ks
<1>7. CASE ks = {} \/ ~listed
  <2>1. objs' = os /\ UNCHANGED <<calls, proc, panel>>
    BY <1>3, <1>7 DEF AppendPanels, tpVars
  <2>2. Present'
    <3> SUFFICES ASSUME kept, proc = "up"
                 PROVE  \/ \E j \in 1..Len(wire') : OwnerAt(j)'
                        \/ \E k \in 1..Len(objs) : Waiting(k)
                        \/ panel # 0 /\ objs'[panel].owner = inc
      BY <1>1, <1>4, <1>5, <2>1 DEF Present, Waiting
    <3>1. ASSUME NEW j \in 1..Len(wire), OwnerAt(j)
          PROVE  \E l \in 1..Len(wire') : OwnerAt(l)'
      <4>1. j # 1
        BY <1>1, <3>1 DEF OwnerAt
      <4>. QED  BY <1>1, <3>1, <4>1, StillComes
    <3>2. panel # 0 => objs'[panel].owner = objs[panel].owner
      BY <1>5, <2>1 DEF TypeOK
    <3>. QED  BY <1>2, <3>1, <3>2 DEF Underway, Present
  <2>3. kept => \A k \in 1..Len(objs) : ~(Waiting(k) /\ objs[k].initialized)
    BY <1>6, <1>7 DEF Tracked, Phases
  <2>4. \A k \in 1..Len(objs) : ~Answers(1, k)
    BY <1>1 DEF Answers
  <2>5. /\ Len(objs') = Len(objs)
        /\ \A k \in 1..Len(objs) : /\ objs'[k].alive = objs[k].alive
                                   /\ objs'[k].fresh = objs[k].fresh
                                   /\ objs'[k].initialized = objs[k].initialized
                                   /\ objs'[k].owner \in {objs[k].owner, 0}
        /\ \A k \in 1..Len(objs) : Waiting(k) => objs'[k].ready
    BY <1>4, <1>5, <2>1 DEF Waiting
  <2>. QED  BY <1>1, <2>1, <2>2, <2>3, <2>4, <2>5, UnderwayDrop
<1>8. CASE ks # {} /\ listed
  <2>1. PICK k \in ks : panel' = k
    BY <1>3, <1>8 DEF AppendPanels
  <2>2. objs' = [l \in 1..Len(os) |->
                   IF l \in ks THEN [os[l] EXCEPT !.fresh = FALSE] ELSE os[l]]
    BY <1>3, <1>8 DEF AppendPanels
  <2>3. k \in 1..Len(objs) /\ Waiting(k) /\ objs[k].owner = inc
    BY <1>6, <2>1 DEF Tracked, Bound
  <2>4. panel' # 0 /\ objs'[panel'].owner = inc'
    <3>1. objs'[k] = [os[k] EXCEPT !.fresh = FALSE]
      BY <1>4, <2>1, <2>2, <2>3
    <3>2. objs'[k].owner = os[k].owner
      BY <3>1
    <3>. QED  BY <1>1, <1>5, <1>l, <2>1, <2>3, <3>2
  <2>5. \A l \in 1..Len(objs') : ~Waiting(l)'
    BY <2>4 DEF Tracked, OneWaits
  <2>6. WellMade' /\ Present'
    BY <1>1, <2>4 DEF Underway, WellMade, Present, WireShrank
  <2>. QED  BY <2>5, <2>6, NobodyWaits
<1>. QED  BY <1>7, <1>8

\* An object that was answered waits on for Ready, and Ready comes.
LEMMA UnderwayBound ==
  ASSUME TypeOK, Tracked, Tracked', Underway, WireShrank, wire[1].kind = "reply",
         UNCHANGED <<emitted, known, kept>>,
         NEW k \in 1..Len(objs), Waiting(k), Replied(k),
         Len(objs') = Len(objs),
         \A l \in 1..Len(objs) : /\ objs'[l].alive = objs[l].alive
                                 /\ objs'[l].fresh = objs[l].fresh,
         objs'[k].initialized, objs'[k].ready = objs[k].ready,
         kept => ~objs[k].ready
  PROVE  Underway'
<1>1. \A l \in 1..Len(objs) : Waiting(l)' => l = k
  BY DEF Tracked, OneWaits, Waiting
<1>2. Waiting(k)'
  BY DEF Waiting
<1>3. Unbound' /\ InFlight'
  <2>1. \A l \in 1..Len(objs') : objs'[l].alive /\ ~objs'[l].initialized => Waiting(l)'
    BY DEF Tracked, OneWaits, Waiting
  <2>. QED  BY <1>1, <2>1 DEF Unbound, InFlight
<1>4. WellMade'
  <2>1. \A i \in 1..Len(wire') : i + 1 \in 1..Len(wire) /\ wire'[i] = wire[i + 1]
    BY DEF WireShrank
  <2>. QED  BY <2>1 DEF Underway, WellMade
<1>5. Heard'
  <2>1. known /\ (emitted => objs[k].ready \/ ReadyComes)
    BY DEF Underway, Heard
  <2>2. ReadyComes => ReadyComes'
    <3> SUFFICES ASSUME NEW i \in 1..Len(wire), wire[i].kind = "ready" PROVE ReadyComes'
      BY DEF ReadyComes
    <3>1. i - 1 \in 1..Len(wire') /\ wire'[i - 1] = wire[i]
      BY DEF WireShrank
    <3>. QED  BY <3>1 DEF ReadyComes
  <2>. QED  BY <1>1, <2>1, <2>2 DEF Heard
<1>6. Unheard'
  BY <1>1 DEF Unheard
<1>7. Restarted'
  BY <1>1 DEF Restarted, Tracked, AnsweredOnce, Answers, Waiting
<1>8. Present'
  BY <1>2 DEF Present
<1>. QED  BY <1>3, <1>4, <1>5, <1>6, <1>7, <1>8 DEF Underway

LEMMA UnderwayInitReply ==
  ASSUME TypeOK, Tracked, Tracked', Underway, InitReply
  PROVE  Underway'
<1>l. /\ Len(wire) \in Nat /\ Len(objs) \in Nat
      /\ \A k \in 1..Len(objs) : objs[k] \in Objects
  BY Lengths
<1>1. /\ WireShrank /\ wire[1].kind = "reply" /\ phase # "down" /\ phase' = phase
      /\ wire[1] \in MessagesTo(Len(objs)) /\ Head(wire) = wire[1]
      /\ UNCHANGED <<inc, emitted, known, listed, kept>>
  BY Received DEF InitReply
<1>2. phase = "connected" /\ 1 \in 1..Len(wire)
  BY <1>1 DEF Tracked, Phases, WireShrank, TypeOK
<1>3. PICK k \in wire[1].objs :
        IF objs[k].alive
        THEN AppendPanels(Initialize(k, wire[1].inc), IF objs[k].ready THEN {k} ELSE {})
        ELSE UNCHANGED <<objs, pending, calls, proc, tpVars>>
  BY <1>1 DEF InitReply
<1>4. k \in 1..Len(objs)
  BY <1>1, <1>3 DEF MessagesTo
<1>5. CASE ~objs[k].alive
  <2>1. UNCHANGED <<objs, pending, calls, proc, panel>>
    BY <1>3, <1>5 DEF tpVars
  <2>2. \A l \in 1..Len(objs) : objs[l].alive => ~Answers(1, l)
    <3> SUFFICES ASSUME NEW l \in 1..Len(objs), objs[l].alive, Answers(1, l) PROVE FALSE
      OBVIOUS
    <3>1. l = k
      BY <1>1, <1>2, <1>3 DEF Underway, WellMade, Answers
    <3>. QED  BY <1>5, <3>1
  <2>3. Present'
    <3> SUFFICES ASSUME kept, proc = "up"
                 PROVE  \/ \E j \in 1..Len(wire') : OwnerAt(j)'
                        \/ \E x \in 1..Len(objs) : Waiting(x)
                        \/ panel # 0 /\ objs[panel].owner = inc
      BY <1>1, <2>1 DEF Present, Waiting
    <3>1. ASSUME NEW j \in 1..Len(wire), OwnerAt(j)
          PROVE  \E l \in 1..Len(wire') : OwnerAt(l)'
      <4>1. j # 1
        BY <1>1, <3>1 DEF OwnerAt
      <4>. QED  BY <1>1, <3>1, <4>1, StillComes
    <3>. QED  BY <1>2, <3>1 DEF Underway, Present
  <2>. QED  BY <1>1, <2>1, <2>2, <2>3, UnderwayDrop
<1>6. CASE objs[k].alive
  <2>. DEFINE os == Initialize(k, wire[1].inc)
  <2>0. AppendPanels(os, IF objs[k].ready THEN {k} ELSE {})
    BY <1>3, <1>6
  <2>1. Waiting(k) /\ Replied(k) /\ proc = "up"
    BY <1>1, <1>2, <1>3, <1>4, <1>6 DEF Tracked, AnsweredOnce, Replies, Answers, Waiting, Replied
  <2>3. /\ Len(os) = Len(objs)
        /\ \A l \in 1..Len(objs) : l # k => os[l] = objs[l]
        /\ os[k].alive = objs[k].alive /\ os[k].fresh = objs[k].fresh
        /\ os[k].ready = objs[k].ready
        /\ os[k].initialized /\ os[k].owner = inc
    <3>. DEFINE o == [objs[k] EXCEPT !.owner = IF proc = "up" THEN inc ELSE 0,
                                     !.xid = wire[1].inc, !.initialized = TRUE]
    <3>1. os = [objs EXCEPT ![k] = o]
      BY <1>4, <1>l DEF Initialize, Objects
    <3>2. /\ o \in Objects /\ o.alive = objs[k].alive /\ o.fresh = objs[k].fresh
          /\ o.ready = objs[k].ready /\ o.initialized /\ o.owner = inc
      BY <1>1, <1>4, <1>l, <2>1 DEF Objects, TypeOK, MessagesTo
    <3>. HIDE DEF os, o
    <3>3. objs \in Seq(Objects)
      BY DEF TypeOK
    <3>4. Len(os) = Len(objs) /\ os[k] = o /\ \A l \in 1..Len(objs) : l # k => os[l] = objs[l]
      BY <1>4, <3>1, <3>2, <3>3, ExceptSeq
    <3>. QED  BY <3>2, <3>4
  <2>. HIDE DEF os
  <2>5. CASE objs[k].ready /\ listed
    <3>0. {k} # {}
      OBVIOUS
    <3>1. AppendPanels(os, {k})
      BY <2>0, <2>5
    <3>2. /\ panel' = k
          /\ objs' = [l \in 1..Len(os) |->
                        IF l \in {k} THEN [os[l] EXCEPT !.fresh = FALSE] ELSE os[l]]
      BY <2>5, <3>0, <3>1 DEF AppendPanels
    <3>3. panel' # 0 /\ objs'[panel'].owner = inc'
      <4>1. objs'[k] = [os[k] EXCEPT !.fresh = FALSE]
        BY <1>4, <2>3, <3>2
      <4>2. objs'[k].owner = os[k].owner
        BY <4>1
      <4>. QED  BY <1>1, <1>4, <1>l, <2>3, <3>2, <4>2
    <3>4. \A l \in 1..Len(objs') : ~Waiting(l)'
      BY <3>3 DEF Tracked, OneWaits
    <3>5. WellMade' /\ Present'
      BY <1>1, <3>3 DEF Underway, WellMade, Present, WireShrank
    <3>. QED  BY <3>4, <3>5, NobodyWaits
  <2>6. CASE ~objs[k].ready \/ ~listed
    <3>0. objs[k].ready => {k} # {}
      OBVIOUS
    <3>1. objs' = os
      BY <2>0, <2>6, <3>0 DEF AppendPanels
    <3>2. kept => ~objs[k].ready
      BY <2>6 DEF Tracked, Phases
    <3>3. \A l \in 1..Len(objs) : /\ objs'[l].alive = objs[l].alive
                                  /\ objs'[l].fresh = objs[l].fresh
      BY <2>3, <3>1
    <3>. QED  BY <1>1, <1>4, <2>1, <2>3, <3>1, <3>2, <3>3, UnderwayBound
  <2>. QED  BY <2>5, <2>6
<1>. QED  BY <1>5, <1>6

LEMMA UnderwayInitError ==
  ASSUME TypeOK, Tracked, Tracked', Underway, InitError
  PROVE  Underway'
<1>l. Len(wire) \in Nat /\ Len(objs) \in Nat /\ \A k \in 1..Len(objs) : objs[k] \in Objects
  BY Lengths
<1>1. /\ WireShrank /\ wire[1].kind = "error" /\ phase # "down" /\ phase' = phase
      /\ wire[1] \in MessagesTo(Len(objs)) /\ Head(wire) = wire[1]
      /\ UNCHANGED <<proc, inc, emitted, known, calls, listed, kept>>
  BY Received DEF InitError, procVars
<1>2. phase = "connected" /\ 1 \in 1..Len(wire)
  BY <1>1 DEF Tracked, Phases, WireShrank, TypeOK
<1>. DEFINE ks == {k \in wire[1].objs : objs[k].alive}
<1>3. Destroy(ks)
  BY <1>1 DEF InitError
<1>4. \A k \in ks : k \in 1..Len(objs) /\ Waiting(k)
  <2>1. \A k \in ks : k \in 1..Len(objs) /\ objs[k].alive /\ Answers(1, k)
    BY <1>1 DEF MessagesTo, Answers
  <2>. QED  BY <1>2, <2>1 DEF Tracked, AnsweredOnce, Waiting
<1>6. proc = "up" /\ ks # {} => \E j \in 1..Len(wire) : j # 1 /\ OwnerAt(j)
  <2> SUFFICES ASSUME proc = "up", NEW k \in ks PROVE \E j \in 1..Len(wire) : j # 1 /\ OwnerAt(j)
    OBVIOUS
  <2>1. \E j \in 1..Len(wire) : j > 1 /\ OwnerAt(j)
    BY <1>1, <1>2, <1>4 DEF Underway, Restarted
  <2>. QED  BY <2>1
<1>7. objs' = [k \in 1..Len(objs) |->
                IF k \in ks THEN [objs[k] EXCEPT !.alive = FALSE] ELSE objs[k]]
  BY <1>3 DEF Destroy
<1>8. ks = {} => panel' = panel
  BY <1>3 DEF Destroy
<1>a. ks = {} => \A k \in wire[1].objs : ~objs[k].alive
  OBVIOUS
<1>. HIDE DEF ks
<1>9. CASE ks = {}
  <2>1. /\ Len(objs') = Len(objs) /\ \A k \in 1..Len(objs) : objs'[k] = objs[k]
        /\ panel' = panel
    BY <1>7, <1>8, <1>9, <1>l
  <2>2. \A k \in 1..Len(objs) : objs[k].alive => ~Answers(1, k)
    BY <1>9, <1>a DEF Answers
  <2>3. Present'
    <3> SUFFICES ASSUME kept, proc = "up"
                 PROVE  \/ \E j \in 1..Len(wire') : OwnerAt(j)'
                        \/ \E x \in 1..Len(objs) : Waiting(x)
                        \/ panel # 0 /\ objs[panel].owner = inc
      BY <1>1, <2>1 DEF Present, Waiting, TypeOK
    <3>1. ASSUME NEW j \in 1..Len(wire), OwnerAt(j)
          PROVE  \E l \in 1..Len(wire') : OwnerAt(l)'
      <4>1. j # 1
        BY <1>1, <3>1 DEF OwnerAt
      <4>. QED  BY <1>1, <3>1, <4>1, StillComes
    <3>. QED  BY <1>2, <3>1 DEF Underway, Present
  <2>. QED  BY <1>1, <2>1, <2>2, <2>3, UnderwayDrop
<1>10. CASE ks # {}
  <2>1. \A k \in 1..Len(objs') : ~Waiting(k)'
    <3> SUFFICES ASSUME NEW k \in 1..Len(objs), Waiting(k)' PROVE FALSE
      BY <1>7, <1>l
    <3>1. PICK x \in ks : TRUE
      BY <1>10
    <3>2. k \notin ks
      BY <1>7, <1>l DEF Waiting, Objects
    <3>3. Waiting(k)
      BY <1>7, <3>2 DEF Waiting
    <3>. QED  BY <1>4, <3>1, <3>2, <3>3 DEF Tracked, OneWaits
  <2>2. Present'
    BY <1>1, <1>6, <1>10, StillComes DEF Present
  <2>3. WellMade'
    <3>1. \A i \in 1..Len(wire') : i + 1 \in 1..Len(wire) /\ wire'[i] = wire[i + 1]
      BY <1>1 DEF WireShrank
    <3>. QED  BY <3>1 DEF Underway, WellMade
  <2>. QED  BY <2>1, <2>2, <2>3, NobodyWaits
<1>. QED  BY <1>9, <1>10

LEMMA UnderwayInit == Init => Underway
<1> SUFFICES ASSUME Init PROVE Underway
  OBVIOUS
<1>1. Len(<<>>) = 0
  BY EmptySeq
<1>. QED
  BY <1>1 DEF Init, Underway, Unbound, WellMade, InFlight, Heard, Unheard, Restarted, Present

LEMMA UnderwayStep ==
  ASSUME AllAnswered
  PROVE  TypeOK /\ Tracked /\ Underway /\ [Next]_vars => Underway'
<1>1. "timeout" \notin Faults /\ "handshake death" \notin Faults
  BY DEF AllAnswered
<1> SUFFICES ASSUME TypeOK, Tracked, Underway, [Next]_vars PROVE Underway'
  OBVIOUS
<1>2. Tracked'
  BY <1>1, TrackStep
<1>3. ~InitTimeout
  BY <1>1 DEF InitTimeout
<1>. QED
  BY <1>2, <1>3, UnderwayQuietSteps, UnderwayAcquire, UnderwayEmit, UnderwayEnd,
     UnderwayInitPanel, UnderwayToolbar, UnderwayListNames, UnderwayNameAcquired,
     UnderwayOwnerGone, UnderwayReadySignal, UnderwayInitReply, UnderwayInitError
     DEF Next, ButtonStep

LEMMA UnderwayMeaning == TypeOK /\ Tracked /\ Underway => QuietMeansAttached
<1> SUFFICES ASSUME TypeOK, Tracked, Underway, phase = "connected", wire = <<>>, calls = <<>>,
                    proc = "up", emitted, kept
             PROVE  Attached
  BY DEF QuietMeansAttached
<1>1. Len(wire) = 0 /\ Len(calls) = 0
  BY EmptySeq
<1>2. \A k \in 1..Len(objs) : ~Waiting(k)
  <2> SUFFICES ASSUME NEW k \in 1..Len(objs), Waiting(k) PROVE FALSE
    OBVIOUS
  <2>1. objs[k].initialized
    BY <1>1 DEF Underway, InFlight
  <2>2. objs[k].ready
    BY <1>1, <2>1 DEF Underway, Heard, Replied, ReadyComes
  <2>. QED  BY <2>1, <2>2 DEF Underway, Unheard
<1>3. panel # 0 /\ objs[panel].owner = inc
  BY <1>1, <1>2 DEF Underway, Present
<1>. QED  BY <1>3 DEF Tracked, Slotted, Attached

\* Whatever the order of calls, announcements, deaths and restarts, when nothing is
\* under way a panel that runs and is ready is in its slot, with its window and
\* its owner proxy: no event is missed by both ends.  A failed or timed-out
\* InitPanel is the exception the code makes (mnb_panel_oop_init_panel_oop_reply_cb
\* drops the object, and nothing asks again), a death in the handshake another.
THEOREM LinkQuietMeansAttached ==
  ASSUME Faults \subseteq {"hasty click"}
  PROVE  Spec => []QuietMeansAttached
<1>0. "handshake death" \notin Faults /\ AllAnswered
  BY DEF AllAnswered
<1>1. TypeOK /\ Tracked /\ [Next]_vars => Tracked'
  BY <1>0, TrackStep
<1>2. TypeOK /\ Tracked /\ Underway /\ [Next]_vars => Underway'
  BY <1>0, UnderwayStep
<1>. QED  BY <1>1, <1>2, TrackInit, UnderwayInit, UnderwayMeaning, LinkTypeCorrect, PTL DEF Spec
=============================================================================
