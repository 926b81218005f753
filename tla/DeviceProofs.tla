----------------------------- MODULE DeviceProofs ---------------------------
(***************************************************************************)
(* What is proved about the panels that show devices: the one of those     *)
(* that are plugged in, for any number of mounts, signals, ejects and      *)
(* shows (Devices), the Bluetooth panel, for any number of devices,        *)
(* changes and requests (Bluetooth), and the three programs that switch    *)
(* radios, for any number of toggles, changes, exits and crashes (Radio).  *)
(***************************************************************************)
EXTENDS Devices, Bluetooth, Radio, SequenceTheorems, FiniteSetTheorems, TLAPS

(***************************************************************************)
(* The tiles of the devices panel: there is one for every mount that       *)
(* should have one, and what they say is true.                             *)
(***************************************************************************)
Concerns(i, m) == signals[i].mount = m
Pending(m) == \E i \in 1..Len(signals) : Concerns(i, m)

\* What is known of a mount: nothing happened to one that was never there; one whose
\* removal was handled is gone for good; the signal of a removal comes; and without a
\* signal on the way the tile is there exactly if it should be.
Known(m) ==
  /\ mount[m].is = "absent" => /\ ~Pending(m) /\ m \notin gone
                               /\ \A n \in Numbers : devTiles[n].mount # m
  /\ m \in gone => mount[m].is = "gone" /\ tileOf[m] = 0
  /\ mount[m].is = "gone" /\ m \notin gone =>
       \E i \in 1..Len(signals) : Concerns(i, m) /\ signals[i].type = "removed"
  /\ ~Pending(m) => (tileOf[m] # 0 <=> mount[m].is = "here" /\ ~mount[m].shadowed)

\* What is said is so, and a mount is added first of all.
Told == \A i \in 1..Len(signals) :
  /\ signals[i].type = "added" => /\ tileOf[signals[i].mount] = 0
                                  /\ \A j \in 1..(i - 1) : ~Concerns(j, signals[i].mount)
  /\ signals[i].type = "removed" => mount[signals[i].mount].is = "gone"

\* The tile of a mount does not expire.
Stays == \A m \in Mounts : tileOf[m] # 0 => ~devTiles[tileOf[m]].expires

DefaultIsRight == defaultTile = NoTiles(tileOf) /\ filigree = NoTiles(tileOf)

DevInv == /\ TilesTypeOK /\ TilesAreHonest /\ DefaultIsRight
          /\ (\A m \in Mounts : Known(m)) /\ Told /\ Stays

-----------------------------------------------------------------------------
(***************************************************************************)
(* Signals come and are handled.                                           *)
(***************************************************************************)
Signals == [type: {"added", "changed", "removed"}, mount: Mounts]

LEMMA SignalComes ==
  ASSUME signals \in Seq(Signals), NEW e \in Signals, signals' = Append(signals, e)
  PROVE  /\ signals' \in Seq(Signals) /\ Len(signals) \in Nat
         /\ Len(signals') = Len(signals) + 1 /\ signals'[Len(signals) + 1] = e
         /\ \A i \in 1..Len(signals) : i \in 1..Len(signals') /\ signals'[i] = signals[i]
         /\ \A i \in 1..Len(signals') : i \in 1..Len(signals) \/ i = Len(signals) + 1
         /\ \A i \in 1..Len(signals) : signals[i] \in Signals
BY AppendProperties, ElementOfSeq

LEMMA SignalGoes ==
  ASSUME signals \in Seq(Signals), signals # <<>>, signals' = Tail(signals)
  PROVE  /\ signals' \in Seq(Signals) /\ Len(signals) \in Nat
         /\ Len(signals') = Len(signals) - 1
         /\ 1 \in 1..Len(signals) /\ Head(signals) = signals[1]
         /\ \A i \in 1..Len(signals') : i + 1 \in 1..Len(signals) /\ signals'[i] = signals[i + 1]
         /\ \A i \in 1..Len(signals) :
              i # 1 => i - 1 \in 1..Len(signals') /\ signals'[i - 1] = signals[i]
         /\ \A i \in 1..Len(signals) : signals[i] \in Signals
<1>1. Len(signals) \in Nat /\ Len(signals) # 0
  BY EmptySeq
<1>2. /\ Tail(signals) \in Seq(Signals) /\ Len(Tail(signals)) = Len(signals) - 1
      /\ \A i \in 1..Len(Tail(signals)) : Tail(signals)[i] = signals[i + 1]
  BY HeadTailProperties
<1>3. \A i \in 1..Len(signals) : signals[i] \in Signals
  BY ElementOfSeq
<1>4. Head(signals) = signals[1]
  OBVIOUS
<1>5. \A i \in 1..Len(signals') : i + 1 \in 1..Len(signals) /\ signals'[i] = signals[i + 1]
  BY <1>1, <1>2
<1>6. ASSUME NEW i \in 1..Len(signals), i # 1
      PROVE  i - 1 \in 1..Len(signals') /\ signals'[i - 1] = signals[i]
  <2>1. i - 1 \in 1..Len(signals') /\ (i - 1) + 1 = i
    BY <1>1, <1>2, <1>6
  <2>. QED  BY <1>5, <2>1
<1>. QED  BY <1>1, <1>2, <1>3, <1>4, <1>5, <1>6

\* Nothing but a signal, or what it is about, comes.
LEMMA DevFields ==
  ASSUME TilesTypeOK
  PROVE  /\ signals \in Seq(Signals) /\ devTiles \in Seq(Tiles) /\ gone \subseteq Mounts
         /\ ejects \subseteq Numbers /\ tileOf \in [Mounts -> {0} \cup Numbers]
         /\ mount \in [Mounts -> [is: {"absent", "here", "gone"}, shadowed: BOOLEAN]]
         /\ Numbers = 1..Len(devTiles) /\ Len(devTiles) \in Nat
         /\ \A n \in Numbers : devTiles[n] \in Tiles
         /\ \A m \in Mounts : tileOf[m] # 0 => tileOf[m] \in Numbers
BY ElementOfSeq DEF TilesTypeOK, Signals, Numbers

-----------------------------------------------------------------------------
(***************************************************************************)
(* Mounts come, change and go.                                             *)
(***************************************************************************)
\* A mount's state changes with a signal that says so.
LEMMA MountSteps ==
  ASSUME DevInv, NEW m \in Mounts, Mount(m) \/ Unmount(m) \/ ChangeMount(m)
  PROVE  DevInv'
<1>. DEFINE Untold == <<devTiles, tileOf, gone, ejects, nEjects, nShows, defaultTile, filigree>>
<1>f. /\ signals \in Seq(Signals)
      /\ mount \in [Mounts -> [is: {"absent", "here", "gone"}, shadowed: BOOLEAN]]
  BY DevFields DEF DevInv
<1>1. PICK type \in {"added", "changed", "removed"} :
        /\ SignalSent(type, m)
        /\ type = "added" => mount[m].is = "absent" /\ mount'[m].is = "here"
        /\ type = "removed" => mount[m].is = "here" /\ mount'[m].is = "gone"
        /\ type = "changed" => mount[m].is # "absent" /\ mount'[m].is = mount[m].is
  <2>1. CASE Mount(m)
    <3>1. SignalSent("added", m) /\ mount[m].is = "absent" /\ mount'[m].is = "here"
      BY <1>f, <2>1 DEF Mount
    <3>. QED  BY <3>1
  <2>2. CASE Unmount(m)
    <3>1. SignalSent("removed", m) /\ mount[m].is = "here" /\ mount'[m].is = "gone"
      BY <1>f, <2>2 DEF Unmount
    <3>. QED  BY <3>1
  <2>3. CASE ChangeMount(m)
    <3>1. SignalSent("changed", m) /\ mount[m].is # "absent" /\ mount'[m].is = mount[m].is
      BY <1>f, <2>3 DEF ChangeMount
    <3>. QED  BY <3>1
  <2>. QED  BY <2>1, <2>2, <2>3
<1>2. /\ mount' \in [Mounts -> [is: {"absent", "here", "gone"}, shadowed: BOOLEAN]]
      /\ \A k \in Mounts \ {m} : mount'[k] = mount[k]
  BY <1>f DEF Mount, Unmount, ChangeMount
<1>. DEFINE e == [type |-> type, mount |-> m]
<1>3. signals' = Append(signals, e) /\ UNCHANGED Untold
  BY <1>1 DEF SignalSent
<1>4. e \in Signals /\ e.type = type /\ e.mount = m
  BY DEF Signals
<1>. HIDE DEF e
<1>5. /\ signals' \in Seq(Signals) /\ Len(signals) \in Nat
      /\ Len(signals') = Len(signals) + 1 /\ signals'[Len(signals) + 1] = e
      /\ \A i \in 1..Len(signals) : i \in 1..Len(signals') /\ signals'[i] = signals[i]
      /\ \A i \in 1..Len(signals') : i \in 1..Len(signals) \/ i = Len(signals) + 1
      /\ \A i \in 1..Len(signals) : signals[i] \in Signals
  BY <1>f, <1>3, <1>4, SignalComes
<1>6. TilesTypeOK' /\ DefaultIsRight' /\ Stays'
  BY <1>2, <1>3, <1>5 DEF DevInv, TilesTypeOK, DefaultIsRight, Stays, NoTiles,
                          Numbers, Signals
<1>8. TilesAreHonest'
  <2>. SUFFICES ASSUME NEW n \in Numbers, devTiles[n].alive
                PROVE  LET t == devTiles[n] IN
                       /\ n = tileOf[t.mount] \/ t.expires
                       /\ t.disabled => n \in ejects \/ t.mount \notin Here'
                       /\ t.text = "safe" => t.mount \notin Here'
    BY <1>3 DEF TilesAreHonest, Numbers
  <2>1. devTiles[n].mount \in Mounts
    BY DevFields DEF DevInv, Tiles
  <2>2. devTiles[n].mount \notin Here => devTiles[n].mount \notin Here'
    BY <1>1, <1>2, <2>1 DEF Here, DevInv, Known
  <2>. QED  BY <2>2 DEF DevInv, TilesAreHonest
<1>9. \A k \in Mounts : Pending(k)' <=> Pending(k) \/ k = m
  <2>1. ASSUME NEW k \in Mounts, Pending(k)' PROVE Pending(k) \/ k = m
    BY <1>4, <1>5, <2>1 DEF Pending, Concerns
  <2>2. ASSUME NEW k \in Mounts, Pending(k) PROVE Pending(k)'
    BY <1>5, <2>2 DEF Pending, Concerns
  <2>3. Pending(m)'
    <3>1. Len(signals) + 1 \in 1..Len(signals')
      BY <1>5
    <3>. QED  BY <1>4, <1>5, <3>1 DEF Pending, Concerns
  <2>. QED  BY <2>1, <2>2, <2>3
<1>10. ASSUME NEW k \in Mounts PROVE Known(k)'
  <2>1. Known(k)
    BY DEF DevInv
  <2>2. UNCHANGED <<gone, tileOf, devTiles>>
    BY <1>3
  <2>3. CASE k # m
    <3>1. mount'[k] = mount[k] /\ (Pending(k)' <=> Pending(k))
      BY <1>2, <1>9, <2>3
    <3>2. (\E i \in 1..Len(signals) : Concerns(i, k) /\ signals[i].type = "removed")
            => (\E i \in 1..Len(signals) : Concerns(i, k) /\ signals[i].type = "removed")'
      BY <1>5 DEF Concerns
    <3>. QED  BY <2>1, <2>2, <3>1, <3>2 DEF Known, Numbers
  <2>4. CASE k = m
    <3>1. Pending(m)' /\ mount'[m].is # "absent"
      BY <1>1, <1>9
    <3>2. mount'[m].is = "gone" /\ m \notin gone =>
            (\E i \in 1..Len(signals) : Concerns(i, m) /\ signals[i].type = "removed")'
      <4>1. CASE type = "removed"
        <5>1. Len(signals) + 1 \in 1..Len(signals')
          BY <1>5
        <5>. QED  BY <1>4, <1>5, <4>1, <5>1 DEF Concerns
      <4>2. CASE type # "removed"
        BY <1>1, <1>5, <2>1, <2>4, <4>2 DEF Known, Concerns
      <4>. QED  BY <4>1, <4>2
    <3>3. m \in gone => mount'[m].is = "gone" /\ tileOf[m] = 0
      BY <1>1, <2>1, <2>4 DEF Known
    <3>. QED  BY <2>2, <2>4, <3>1, <3>2, <3>3 DEF Known
  <2>. QED  BY <2>3, <2>4
<1>11. Told'
  <2>. SUFFICES ASSUME NEW i \in 1..Len(signals')
                PROVE
                  LET k == signals'[i].mount IN
                  /\ signals'[i].type = "added" => /\ tileOf'[k] = 0
                                                   /\ \A j \in 1..(i - 1) : signals'[j].mount # k
                  /\ signals'[i].type = "removed" => mount'[k].is = "gone"
    BY DEF Told, Concerns
  <2>1. CASE i \in 1..Len(signals)
    <3>1. signals'[i] = signals[i] /\ signals[i].mount \in Mounts
      BY <1>5, <2>1 DEF Signals
    <3>2. \A j \in 1..(i - 1) : signals'[j] = signals[j]
      BY <1>5, <2>1
    <3>3. signals[i].type = "removed" => mount'[signals[i].mount].is = "gone"
      BY <1>1, <1>2, <2>1, <3>1 DEF DevInv, Told
    <3>. QED  BY <1>3, <2>1, <3>1, <3>2, <3>3 DEF DevInv, Told, Concerns
  <2>2. CASE i = Len(signals) + 1
    <3>1. signals'[i] = e
      BY <1>5, <2>2
    <3>2. type = "added" => ~Pending(m) /\ tileOf[m] = 0
      <4>. SUFFICES ASSUME type = "added" PROVE ~Pending(m) /\ tileOf[m] = 0
        OBVIOUS
      <4>1. mount[m].is = "absent" /\ Known(m)
        BY <1>1 DEF DevInv
      <4>2. ~Pending(m) /\ \A n \in Numbers : devTiles[n].mount # m
        BY <4>1 DEF Known
      <4>. QED  BY <4>2, DevFields DEF DevInv, TilesTypeOK
    <3>3. \A j \in 1..(i - 1) : j \in 1..Len(signals) /\ signals'[j] = signals[j]
      BY <1>5, <2>2
    <3>. QED  BY <1>1, <1>3, <1>4, <3>1, <3>2, <3>3 DEF Pending, Concerns
  <2>. QED  BY <1>5, <2>1, <2>2
<1>. QED  BY <1>6, <1>8, <1>10, <1>11 DEF DevInv

-----------------------------------------------------------------------------
(***************************************************************************)
(* Tiles.                                                                  *)
(***************************************************************************)
\* A tile that changes on the screen only: it keeps its mount, says "safe" only
\* if it did, and goes only if it expires.
LEMMA TileSays ==
  ASSUME DevInv, NEW n \in Numbers, NEW t \in Tiles, devTiles' = [devTiles EXCEPT ![n] = t],
         UNCHANGED <<mount, signals, tileOf, gone, defaultTile, filigree>>,
         ejects' \subseteq Numbers,
         \A k \in ejects \ ejects' : k = n \/ devTiles[k].mount \notin Here,
         t.mount = devTiles[n].mount, t.expires => devTiles[n].expires,
         t.alive \/ devTiles[n].expires \/ ~devTiles[n].alive,
         t.alive => /\ devTiles[n].alive /\ (devTiles[n].expires => t.expires)
                    /\ t.disabled => n \in ejects' \/ t.mount \notin Here
                    /\ t.text = "safe" => devTiles[n].text = "safe"
  PROVE  DevInv'
<1>1. /\ devTiles \in Seq(Tiles) /\ Numbers = 1..Len(devTiles) /\ Len(devTiles) \in Nat
      /\ tileOf \in [Mounts -> {0} \cup Numbers]
      /\ \A k \in Numbers : devTiles[k] \in Tiles
  BY DevFields DEF DevInv
<1>2. devTiles' \in Seq(Tiles) /\ Len(devTiles') = Len(devTiles) /\ Numbers' = Numbers
  BY <1>1 DEF Numbers
<1>3. devTiles'[n] = t /\ \A k \in Numbers \ {n} : devTiles'[k] = devTiles[k]
  BY <1>1 DEF Numbers
<1>4. \A m \in Mounts : tileOf[m] = n => t.alive
  BY <1>1 DEF DevInv, Stays, TilesTypeOK
<1>5. TilesTypeOK'
  <2>1. \A m \in Mounts : tileOf[m] # 0 =>
          devTiles'[tileOf[m]].alive /\ devTiles'[tileOf[m]].mount = m
    BY <1>1, <1>3, <1>4 DEF DevInv, TilesTypeOK
  <2>. QED  BY <1>1, <1>2, <2>1 DEF DevInv, TilesTypeOK
<1>6. TilesAreHonest'
  <2>. SUFFICES ASSUME NEW k \in Numbers, devTiles'[k].alive
                PROVE  LET u == devTiles'[k] IN
                       /\ k = tileOf[u.mount] \/ u.expires
                       /\ u.disabled => k \in ejects' \/ u.mount \notin Here
                       /\ u.text = "safe" => u.mount \notin Here
    BY <1>2 DEF TilesAreHonest, Here
  <2>1. CASE k = n
    BY <1>3, <2>1 DEF DevInv, TilesAreHonest
  <2>2. CASE k # n
    BY <1>3, <2>2 DEF DevInv, TilesAreHonest
  <2>. QED  BY <2>1, <2>2
<1>7. Stays' /\ DefaultIsRight'
  <2>1. \A m \in Mounts : tileOf[m] # 0 => ~devTiles'[tileOf[m]].expires
    BY <1>1, <1>3 DEF DevInv, Stays
  <2>. QED  BY <2>1 DEF DevInv, Stays, DefaultIsRight, NoTiles
<1>8. Told' /\ \A m \in Mounts : Known(m)'
  <2>1. \A k \in Numbers : devTiles'[k].mount = devTiles[k].mount
    BY <1>3
  <2>. QED  BY <1>2, <2>1 DEF DevInv, Told, Known, Pending, Concerns
<1>. QED  BY <1>5, <1>6, <1>7, <1>8 DEF DevInv

\* A mount's tile is made.
LEMMA TileMade ==
  ASSUME DevInv, NEW m \in Mounts, Becomes(AddTile(TilesState, m, TRUE))
  PROVE  /\ devTiles' \in Seq(Tiles) /\ Numbers' = Numbers \cup {Len(devTiles) + 1}
         /\ Len(devTiles) + 1 \notin Numbers /\ Len(devTiles) + 1 # 0
         /\ \A n \in Numbers : devTiles'[n] = devTiles[n]
         /\ devTiles'[Len(devTiles) + 1] = NewTile(m, TRUE)
         /\ tileOf' = [tileOf EXCEPT ![m] = Len(devTiles) + 1]
         /\ defaultTile' = FALSE /\ filigree' = FALSE
<1>. DEFINE tile == NewTile(m, TRUE)
<1>1. devTiles \in Seq(Tiles) /\ tile \in Tiles /\ Numbers = 1..Len(devTiles)
      /\ Len(devTiles) \in Nat
  BY DevFields DEF DevInv, NewTile, Tiles, TileTexts
<1>0. tile = NewTile(m, TRUE)
  OBVIOUS
<1>. HIDE DEF tile
<1>2. /\ devTiles' = Append(devTiles, tile)
      /\ tileOf' = [tileOf EXCEPT ![m] = Len(devTiles) + 1]
      /\ defaultTile' = IF NoTiles(tileOf) THEN FALSE ELSE defaultTile
      /\ filigree' = IF NoTiles(tileOf) THEN FALSE ELSE filigree
  BY <1>0 DEF Becomes, AddTile, Inserted, TilesState
<1>3. defaultTile' = FALSE /\ filigree' = FALSE
  <2>1. ~NoTiles(tileOf) => defaultTile = FALSE /\ filigree = FALSE
    BY DEF DevInv, DefaultIsRight
  <2>. QED  BY <1>2, <2>1
<1>4. /\ devTiles' \in Seq(Tiles) /\ Len(devTiles') = Len(devTiles) + 1
      /\ devTiles'[Len(devTiles) + 1] = tile
      /\ \A n \in 1..Len(devTiles) : devTiles'[n] = devTiles[n]
  BY <1>1, <1>2, AppendProperties
<1>5. Numbers' = 1..(Len(devTiles) + 1)
  BY <1>4 DEF Numbers
<1>6. Numbers' = Numbers \cup {Len(devTiles) + 1} /\ Len(devTiles) + 1 \notin Numbers
      /\ Len(devTiles) + 1 # 0
  BY <1>1, <1>5
<1>. QED  BY <1>0, <1>1, <1>2, <1>3, <1>4, <1>6

\* A mount's tile is taken from the table, and changes.
LEMMA TileTaken ==
  ASSUME DevInv, NEW m \in Mounts, tileOf[m] # 0, NEW t \in Tiles,
         Becomes(TableRemove(TilesState, m, t))
  PROVE  /\ devTiles' \in Seq(Tiles) /\ Numbers' = Numbers /\ tileOf[m] \in Numbers
         /\ devTiles'[tileOf[m]] = t
         /\ \A n \in Numbers \ {tileOf[m]} : devTiles'[n] = devTiles[n]
         /\ tileOf' = [tileOf EXCEPT ![m] = 0]
         /\ defaultTile' \in BOOLEAN /\ filigree' \in BOOLEAN /\ DefaultIsRight'
<1>1. devTiles \in Seq(Tiles) /\ Numbers = 1..Len(devTiles) /\ tileOf[m] \in Numbers
  BY DevFields DEF DevInv
<1>2. /\ devTiles' = [devTiles EXCEPT ![tileOf[m]] = t]
      /\ tileOf' = [tileOf EXCEPT ![m] = 0]
      /\ defaultTile' = IF NoTiles(tileOf') THEN TRUE ELSE defaultTile
      /\ filigree' = IF NoTiles(tileOf') THEN TRUE ELSE filigree
  BY DEF Becomes, TableRemove, TilesState
<1>3. ~NoTiles(tileOf)
  BY DEF NoTiles
<1>4. defaultTile = FALSE /\ filigree = FALSE
  BY <1>3 DEF DevInv, DefaultIsRight
<1>5. DefaultIsRight' /\ defaultTile' \in BOOLEAN /\ filigree' \in BOOLEAN
  <2>1. CASE NoTiles(tileOf')
    <3>1. NoTiles(tileOf') = TRUE
      BY <2>1 DEF NoTiles
    <3>. QED  BY <1>2, <2>1, <3>1 DEF DefaultIsRight
  <2>2. CASE ~NoTiles(tileOf')
    <3>1. NoTiles(tileOf') = FALSE
      BY <2>2 DEF NoTiles
    <3>. QED  BY <1>2, <1>4, <2>2, <3>1 DEF DefaultIsRight
  <2>. QED  BY <2>1, <2>2
<1>6. devTiles' \in Seq(Tiles) /\ DOMAIN devTiles' = DOMAIN devTiles
  BY <1>1, <1>2
<1>. QED  BY <1>1, <1>2, <1>5, <1>6 DEF Numbers

-----------------------------------------------------------------------------
(***************************************************************************)
(* The handlers.                                                           *)
(***************************************************************************)
\* Whatever a handler makes of the tiles, it settles the mount its signal is about.
LEMMA HandlerSettles ==
  ASSUME DevInv, signals # <<>>, signals' = Tail(signals), UNCHANGED mount,
         NEW m \in Mounts, m = Head(signals).mount,
         \A k \in Mounts \ {m} : tileOf'[k] = tileOf[k],
         gone \subseteq gone', gone' \subseteq gone \cup {m},
         Head(signals).type = "removed" => m \in gone',
         m \in gone' => mount[m].is = "gone" /\ tileOf'[m] = 0,
         mount[m].is = "here" => (tileOf'[m] # 0 <=> ~mount[m].shadowed),
         \A n \in Numbers' : devTiles'[n].mount = m
                             \/ (n \in Numbers /\ devTiles'[n].mount = devTiles[n].mount)
  PROVE  Told' /\ \A k \in Mounts : Known(k)'
<1>1. /\ signals \in Seq(Signals)
      /\ mount \in [Mounts -> [is: {"absent", "here", "gone"}, shadowed: BOOLEAN]]
  BY DevFields DEF DevInv
<1>2. /\ Len(signals) \in Nat
      /\ Len(signals') = Len(signals) - 1
      /\ 1 \in 1..Len(signals) /\ Head(signals) = signals[1]
      /\ \A i \in 1..Len(signals') : i + 1 \in 1..Len(signals) /\ signals'[i] = signals[i + 1]
      /\ \A i \in 1..Len(signals) :
           i # 1 => i - 1 \in 1..Len(signals') /\ signals'[i - 1] = signals[i]
      /\ \A i \in 1..Len(signals) : signals[i] \in Signals
  BY <1>1, SignalGoes
<1>3. Concerns(1, m) /\ Pending(m)
  BY <1>2 DEF Concerns, Pending
<1>4. Told'
  <2>. SUFFICES ASSUME NEW i \in 1..Len(signals')
                PROVE
                  LET k == signals'[i].mount IN
                  /\ signals'[i].type = "added" => /\ tileOf'[k] = 0
                                                   /\ \A j \in 1..(i - 1) : signals'[j].mount # k
                  /\ signals'[i].type = "removed" => mount[k].is = "gone"
    BY DEF Told, Concerns
  <2>1. i + 1 \in 1..Len(signals) /\ signals'[i] = signals[i + 1] /\ signals[i + 1] \in Signals
    BY <1>2
  <2>2. \A j \in 1..(i - 1) : j + 1 \in 1..((i + 1) - 1) /\ signals'[j] = signals[j + 1]
    BY <1>2
  <2>3. /\ signals[i + 1].type = "added" =>
             /\ tileOf[signals[i + 1].mount] = 0
             /\ \A j \in 1..((i + 1) - 1) : signals[j].mount # signals[i + 1].mount
        /\ signals[i + 1].type = "removed" => mount[signals[i + 1].mount].is = "gone"
    BY <2>1 DEF DevInv, Told, Concerns
  <2>4. 1 \in 1..((i + 1) - 1) /\ signals[i + 1].mount \in Mounts /\ signals[1].mount = m
    BY <1>2, <2>1 DEF Signals
  <2>. QED  BY <2>1, <2>2, <2>3, <2>4
<1>5. \A k \in Mounts : Known(k)
  BY DEF DevInv
<1>6. ASSUME NEW k \in Mounts, k # m PROVE Known(k)'
  <2>1. Pending(k)' <=> Pending(k)
    <3>1. ASSUME NEW i \in 1..Len(signals'), signals'[i].mount = k
          PROVE  Pending(k)
      BY <1>2, <3>1 DEF Pending, Concerns
    <3>2. ASSUME NEW i \in 1..Len(signals), signals[i].mount = k
          PROVE  Pending(k)'
      <4>1. i # 1
        BY <1>2, <1>6, <3>2
      <4>. QED  BY <1>2, <3>2, <4>1 DEF Pending, Concerns
    <3>. QED  BY <3>1, <3>2 DEF Pending, Concerns
  <2>2. ASSUME NEW i \in 1..Len(signals), Concerns(i, k), signals[i].type = "removed"
        PROVE  \E j \in 1..Len(signals') : signals'[j].mount = k /\ signals'[j].type = "removed"
    <3>1. i # 1
      BY <1>2, <1>6, <2>2 DEF Concerns
    <3>. QED  BY <1>2, <2>2, <3>1 DEF Concerns
  <2>3. tileOf'[k] = tileOf[k] /\ (k \in gone' <=> k \in gone)
    BY <1>6
  <2>. QED  BY <1>5, <1>6, <2>1, <2>2, <2>3 DEF Known, Concerns
<1>7. Known(m)'
  <2>1. mount[m].is # "absent" /\ mount[m].is \in {"absent", "here", "gone"}
    BY <1>1, <1>3, <1>5 DEF Known
  <2>2. mount[m].is = "gone" /\ m \notin gone' =>
          \E j \in 1..Len(signals') : signals'[j].mount = m /\ signals'[j].type = "removed"
    <3>. SUFFICES ASSUME mount[m].is = "gone", m \notin gone'
                  PROVE  \E j \in 1..Len(signals') :
                           signals'[j].mount = m /\ signals'[j].type = "removed"
      OBVIOUS
    <3>1. PICK i \in 1..Len(signals) : signals[i].mount = m /\ signals[i].type = "removed"
      BY <1>5 DEF Known, Concerns
    <3>2. i # 1
      BY <1>2, <3>1
    <3>. QED  BY <1>2, <3>1, <3>2
  <2>3. ~Pending(m)' => (tileOf'[m] # 0 <=> mount[m].is = "here" /\ ~mount[m].shadowed)
    BY <2>1, <2>2 DEF Pending, Concerns
  <2>. QED  BY <2>1, <2>2, <2>3 DEF Known, Concerns
<1>. QED  BY <1>4, <1>6, <1>7

\* A handler that makes a tile.
LEMMA HandlerMakes ==
  ASSUME DevInv, NEW m \in Mounts, tileOf[m] = 0, Becomes(AddTile(TilesState, m, TRUE)),
         UNCHANGED <<mount, gone, ejects>>, signals' \in Seq(Signals)
  PROVE  /\ TilesTypeOK' /\ TilesAreHonest' /\ DefaultIsRight' /\ Stays'
         /\ tileOf'[m] # 0 /\ \A k \in Mounts \ {m} : tileOf'[k] = tileOf[k]
         /\ \A n \in Numbers' : devTiles'[n].mount = m
                                \/ (n \in Numbers /\ devTiles'[n].mount = devTiles[n].mount)
<1>. DEFINE l == Len(devTiles) + 1
<1>1. /\ devTiles' \in Seq(Tiles) /\ Numbers' = Numbers \cup {l}
      /\ l \notin Numbers /\ l # 0
      /\ \A n \in Numbers : devTiles'[n] = devTiles[n]
      /\ devTiles'[l] = NewTile(m, TRUE)
      /\ tileOf' = [tileOf EXCEPT ![m] = l]
      /\ defaultTile' = FALSE /\ filigree' = FALSE
  BY TileMade
<1>. HIDE DEF l
<1>2. /\ ejects \subseteq Numbers /\ tileOf \in [Mounts -> {0} \cup Numbers]
      /\ mount \in [Mounts -> [is: {"absent", "here", "gone"}, shadowed: BOOLEAN]]
      /\ gone \subseteq Mounts
      /\ \A k \in Mounts : tileOf[k] # 0 => tileOf[k] \in Numbers
      /\ \A n \in Numbers : devTiles[n] \in Tiles
  BY DevFields DEF DevInv
<1>3. tileOf'[m] = l /\ \A k \in Mounts \ {m} : tileOf'[k] = tileOf[k]
  BY <1>1, <1>2
<1>4. devTiles'[l].mount = m /\ devTiles'[l].alive /\ ~devTiles'[l].expires
      /\ ~devTiles'[l].disabled /\ devTiles'[l].text = "none"
  BY <1>1 DEF NewTile
<1>5. TilesTypeOK'
  <2>1. \A k \in Mounts : tileOf'[k] # 0 =>
          devTiles'[tileOf'[k]].alive /\ devTiles'[tileOf'[k]].mount = k
    BY <1>1, <1>2, <1>3, <1>4 DEF DevInv, TilesTypeOK
  <2>2. tileOf' \in [Mounts -> {0} \cup Numbers'] /\ ejects' \subseteq Numbers'
    BY <1>1, <1>2
  <2>3. defaultTile' \in BOOLEAN /\ filigree' \in BOOLEAN
    BY <1>1
  <2>. QED  BY <1>1, <1>2, <2>1, <2>2, <2>3 DEF TilesTypeOK, Signals
<1>6. TilesAreHonest'
  <2>. SUFFICES ASSUME NEW n \in Numbers', devTiles'[n].alive
                PROVE  LET t == devTiles'[n] IN
                       /\ n = tileOf'[t.mount] \/ t.expires
                       /\ t.disabled => n \in ejects \/ t.mount \notin Here
                       /\ t.text = "safe" => t.mount \notin Here
    BY DEF TilesAreHonest, Here
  <2>1. CASE n = l
    BY <1>3, <1>4, <2>1
  <2>2. CASE n \in Numbers
    <3>1. devTiles'[n] = devTiles[n] /\ devTiles[n].mount \in Mounts
      BY <1>1, <1>2, <2>2 DEF Tiles
    <3>2. n = tileOf[devTiles[n].mount] => n = tileOf'[devTiles[n].mount]
      <4>1. 0 \notin Numbers
        BY DevFields DEF DevInv
      <4>. QED  BY <1>3, <2>2, <3>1, <4>1
    <3>. QED  BY <2>2, <3>1, <3>2 DEF DevInv, TilesAreHonest
  <2>. QED  BY <1>1, <2>1, <2>2
<1>7. DefaultIsRight'
  <2>1. NoTiles(tileOf') = FALSE
    BY <1>1, <1>3 DEF NoTiles
  <2>. QED  BY <1>1, <2>1 DEF DefaultIsRight
<1>8. Stays'
  BY <1>1, <1>2, <1>3, <1>4 DEF DevInv, Stays
<1>9. \A n \in Numbers' : devTiles'[n].mount = m
                          \/ (n \in Numbers /\ devTiles'[n].mount = devTiles[n].mount)
  <2>. TAKE n \in Numbers'
  <2>1. CASE n = l
    BY <1>4, <2>1
  <2>2. CASE n \in Numbers
    <3>1. devTiles'[n] = devTiles[n]
      BY <1>1, <2>2
    <3>. QED  BY <2>2, <3>1
  <2>. QED  BY <1>1, <2>1, <2>2
<1>. QED  BY <1>1, <1>3, <1>5, <1>6, <1>7, <1>8, <1>9

\* A handler that takes a tile.
LEMMA HandlerTakes ==
  ASSUME DevInv, NEW m \in Mounts, tileOf[m] # 0, NEW t \in Tiles,
         Becomes(TableRemove(TilesState, m, t)), t.mount = m,
         t.alive => t.expires /\ m \notin Here,
         UNCHANGED <<mount, ejects>>, gone' \subseteq Mounts, signals' \in Seq(Signals)
  PROVE  /\ TilesTypeOK' /\ TilesAreHonest' /\ DefaultIsRight' /\ Stays'
         /\ tileOf'[m] = 0 /\ \A k \in Mounts \ {m} : tileOf'[k] = tileOf[k]
         /\ \A n \in Numbers' : devTiles'[n].mount = m
                                \/ (n \in Numbers /\ devTiles'[n].mount = devTiles[n].mount)
<1>. DEFINE l == tileOf[m]
<1>1. /\ devTiles' \in Seq(Tiles) /\ Numbers' = Numbers /\ l \in Numbers
      /\ devTiles'[l] = t
      /\ \A n \in Numbers \ {l} : devTiles'[n] = devTiles[n]
      /\ tileOf' = [tileOf EXCEPT ![m] = 0]
      /\ defaultTile' \in BOOLEAN /\ filigree' \in BOOLEAN /\ DefaultIsRight'
  BY TileTaken
<1>2. /\ ejects \subseteq Numbers /\ tileOf \in [Mounts -> {0} \cup Numbers]
      /\ mount \in [Mounts -> [is: {"absent", "here", "gone"}, shadowed: BOOLEAN]]
      /\ \A k \in Mounts : tileOf[k] # 0 => tileOf[k] \in Numbers
      /\ \A n \in Numbers : devTiles[n] \in Tiles
  BY DevFields DEF DevInv
<1>3. tileOf'[m] = 0 /\ \A k \in Mounts \ {m} : tileOf'[k] = tileOf[k]
  BY <1>1, <1>2
<1>4. \A k \in Mounts : tileOf[k] # 0 => devTiles[tileOf[k]].alive /\ devTiles[tileOf[k]].mount = k
  BY DEF DevInv, TilesTypeOK
<1>5. \A k \in Mounts : tileOf'[k] # 0 => k # m /\ tileOf[k] # l /\ tileOf'[k] = tileOf[k]
  BY <1>3, <1>4
<1>6. TilesTypeOK'
  <2>1. \A k \in Mounts : tileOf'[k] # 0 =>
          devTiles'[tileOf'[k]].alive /\ devTiles'[tileOf'[k]].mount = k
    BY <1>1, <1>2, <1>4, <1>5
  <2>2. tileOf' \in [Mounts -> {0} \cup Numbers'] /\ ejects' \subseteq Numbers'
    BY <1>1, <1>2
  <2>. QED  BY <1>1, <1>2, <2>1, <2>2 DEF TilesTypeOK, Signals
<1>7. TilesAreHonest'
  <2>. SUFFICES ASSUME NEW n \in Numbers, devTiles'[n].alive
                PROVE  LET u == devTiles'[n] IN
                       /\ n = tileOf'[u.mount] \/ u.expires
                       /\ u.disabled => n \in ejects \/ u.mount \notin Here
                       /\ u.text = "safe" => u.mount \notin Here
    BY <1>1 DEF TilesAreHonest, Here
  <2>1. CASE n = l
    BY <1>1, <2>1
  <2>2. CASE n # l
    <3>1. devTiles'[n] = devTiles[n] /\ devTiles[n].mount \in Mounts
      BY <1>1, <1>2, <2>2 DEF Tiles
    <3>2. n = tileOf[devTiles[n].mount] => n = tileOf'[devTiles[n].mount]
      BY <1>3, <2>2, <3>1
    <3>. QED  BY <3>1, <3>2 DEF DevInv, TilesAreHonest
  <2>. QED  BY <2>1, <2>2
<1>8. Stays'
  BY <1>1, <1>2, <1>5 DEF DevInv, Stays
<1>9. \A n \in Numbers' : devTiles'[n].mount = m
                          \/ (n \in Numbers /\ devTiles'[n].mount = devTiles[n].mount)
  <2>. TAKE n \in Numbers'
  <2>1. CASE n = l
    BY <1>1, <2>1
  <2>2. CASE n \in Numbers /\ n # l
    <3>1. devTiles'[n] = devTiles[n]
      BY <1>1, <2>2
    <3>. QED  BY <2>2, <3>1
  <2>. QED  BY <1>1, <2>1, <2>2
<1>. QED  BY <1>1, <1>3, <1>6, <1>7, <1>8, <1>9

\* What two facts come to for a handler that changes nothing.
LEMMA HandlerKeeps ==
  ASSUME DevInv, UNCHANGED <<mount, ejects, devTiles, tileOf, defaultTile, filigree>>,
         gone' \subseteq Mounts, signals' \in Seq(Signals)
  PROVE  TilesTypeOK' /\ TilesAreHonest' /\ DefaultIsRight' /\ Stays'
BY DEF DevInv, TilesTypeOK, TilesAreHonest, DefaultIsRight, Stays, Numbers, Here, NoTiles, Signals

LEMMA HandlerSteps ==
  ASSUME DevInv, SignalHandled
  PROVE  DevInv'
<1>. DEFINE m == Head(signals).mount
<1>1. signals # <<>> /\ signals' = Tail(signals) /\ UNCHANGED <<mount, ejects>>
  BY DEF SignalHandled
<1>2. /\ signals \in Seq(Signals) /\ gone \subseteq Mounts
      /\ mount \in [Mounts -> [is: {"absent", "here", "gone"}, shadowed: BOOLEAN]]
      /\ \A n \in Numbers : devTiles[n] \in Tiles
      /\ \A k \in Mounts : tileOf[k] # 0 => tileOf[k] \in Numbers
  BY DevFields DEF DevInv
<1>3. /\ signals' \in Seq(Signals) /\ Head(signals) \in Signals
      /\ 1 \in 1..Len(signals) /\ Head(signals) = signals[1]
  BY <1>1, <1>2, SignalGoes
<1>4. m \in Mounts /\ Head(signals).type \in {"added", "changed", "removed"}
  BY <1>3 DEF Signals
<1>5. /\ Head(signals).type = "added" => MountAdded(m)
      /\ Head(signals).type = "changed" => MountChanged(m)
      /\ Head(signals).type = "removed" => MountRemoved(m)
  BY <1>4 DEF SignalHandled
<1>6. /\ Head(signals).type = "added" => tileOf[m] = 0
      /\ Head(signals).type = "removed" => mount[m].is = "gone"
  BY <1>3 DEF DevInv, Told
<1>. HIDE DEF m
<1>7. m \in gone => mount[m].is = "gone" /\ tileOf[m] = 0
  BY <1>4 DEF DevInv, Known
<1>8. tileOf[m] # 0 => devTiles[tileOf[m]].mount = m /\ devTiles[tileOf[m]] \in Tiles
  BY <1>2, <1>4 DEF DevInv, TilesTypeOK
<1>9. m = Head(signals).mount
  BY DEF m
<1>. DEFINE Settled ==
       /\ TilesTypeOK' /\ TilesAreHonest' /\ DefaultIsRight' /\ Stays'
       /\ \A k \in Mounts \ {m} : tileOf'[k] = tileOf[k]
       /\ gone \subseteq gone' /\ gone' \subseteq gone \cup {m}
       /\ Head(signals).type = "removed" => m \in gone'
       /\ m \in gone' => mount[m].is = "gone" /\ tileOf'[m] = 0
       /\ mount[m].is = "here" => (tileOf'[m] # 0 <=> ~mount[m].shadowed)
       /\ \A n \in Numbers' : devTiles'[n].mount = m
                              \/ (n \in Numbers /\ devTiles'[n].mount = devTiles[n].mount)
<1>10. CASE UNCHANGED gone /\ tileOf[m] = 0 /\ WantedMount(m)
            /\ Becomes(AddTile(TilesState, m, TRUE)) /\ Head(signals).type # "removed"
  <2>1. /\ TilesTypeOK' /\ TilesAreHonest' /\ DefaultIsRight' /\ Stays'
        /\ tileOf'[m] # 0 /\ \A k \in Mounts \ {m} : tileOf'[k] = tileOf[k]
        /\ \A n \in Numbers' : devTiles'[n].mount = m
                               \/ (n \in Numbers /\ devTiles'[n].mount = devTiles[n].mount)
    BY <1>1, <1>3, <1>4, <1>10, HandlerMakes
  <2>2. Settled
    BY <1>7, <1>10, <2>1 DEF WantedMount
  <2>. QED  BY <2>2, <1>1, <1>4, <1>9, HandlerSettles DEF DevInv
<1>11. CASE UNCHANGED gone /\ Becomes(TilesState) /\ (tileOf[m] # 0 <=> WantedMount(m))
            /\ Head(signals).type # "removed"
  <2>1. UNCHANGED <<devTiles, tileOf, defaultTile, filigree>>
    BY <1>11 DEF Becomes, TilesState
  <2>2. TilesTypeOK' /\ TilesAreHonest' /\ DefaultIsRight' /\ Stays'
    BY <1>1, <1>2, <1>3, <1>11, <2>1, HandlerKeeps
  <2>3. Settled
    BY <1>7, <1>11, <2>1, <2>2 DEF WantedMount, Numbers
  <2>. QED  BY <2>3, <1>1, <1>4, <1>9, HandlerSettles DEF DevInv
<1>12. CASE UNCHANGED gone /\ tileOf[m] # 0 /\ ~WantedMount(m) /\ Head(signals).type # "removed"
            /\ Becomes(TableRemove(TilesState, m, [devTiles[tileOf[m]] EXCEPT !.alive = FALSE]))
  <2>. DEFINE t == [devTiles[tileOf[m]] EXCEPT !.alive = FALSE]
  <2>1. t \in Tiles /\ t.mount = m /\ ~t.alive
    BY <1>8, <1>12 DEF Tiles
  <2>. HIDE DEF t
  <2>2. Becomes(TableRemove(TilesState, m, t))
    BY <1>12 DEF t
  <2>3. /\ TilesTypeOK' /\ TilesAreHonest' /\ DefaultIsRight' /\ Stays'
        /\ tileOf'[m] = 0 /\ \A k \in Mounts \ {m} : tileOf'[k] = tileOf[k]
        /\ \A n \in Numbers' : devTiles'[n].mount = m
                               \/ (n \in Numbers /\ devTiles'[n].mount = devTiles[n].mount)
    BY <1>1, <1>2, <1>3, <1>4, <1>12, <2>1, <2>2, HandlerTakes
  <2>4. Settled
    BY <1>7, <1>12, <2>3 DEF WantedMount
  <2>. QED  BY <2>4, <1>1, <1>4, <1>9, HandlerSettles DEF DevInv
<1>13. CASE gone' = gone \cup {m} /\ Head(signals).type = "removed" /\ tileOf[m] = 0
            /\ Becomes(TilesState)
  <2>1. UNCHANGED <<devTiles, tileOf, defaultTile, filigree>>
    BY <1>13 DEF Becomes, TilesState
  <2>2. TilesTypeOK' /\ TilesAreHonest' /\ DefaultIsRight' /\ Stays'
    BY <1>1, <1>2, <1>3, <1>4, <1>13, <2>1, HandlerKeeps
  <2>3. Settled
    BY <1>6, <1>13, <2>1, <2>2 DEF Numbers
  <2>. QED  BY <2>3, <1>1, <1>4, <1>9, HandlerSettles DEF DevInv
<1>14. CASE gone' = gone \cup {m} /\ Head(signals).type = "removed" /\ tileOf[m] # 0
            /\ Becomes(TableRemove(TilesState, m, Unpluggable(devTiles[tileOf[m]])))
  <2>. DEFINE t == Unpluggable(devTiles[tileOf[m]])
  <2>1. t \in Tiles /\ t.mount = m /\ t.expires
    BY <1>8, <1>14 DEF Unpluggable, ShowMessage, Tiles, TileTexts
  <2>. HIDE DEF t
  <2>2. Becomes(TableRemove(TilesState, m, t)) /\ m \notin Here
    BY <1>6, <1>14 DEF t, Here
  <2>3. /\ TilesTypeOK' /\ TilesAreHonest' /\ DefaultIsRight' /\ Stays'
        /\ tileOf'[m] = 0 /\ \A k \in Mounts \ {m} : tileOf'[k] = tileOf[k]
        /\ \A n \in Numbers' : devTiles'[n].mount = m
                               \/ (n \in Numbers /\ devTiles'[n].mount = devTiles[n].mount)
    BY <1>1, <1>2, <1>3, <1>4, <1>14, <2>1, <2>2, HandlerTakes
  <2>4. Settled
    BY <1>6, <1>14, <2>3
  <2>. QED  BY <2>4, <1>1, <1>4, <1>9, HandlerSettles DEF DevInv
<1>15. CASE Head(signals).type = "added"
  BY <1>5, <1>6, <1>10, <1>11, <1>15 DEF MountAdded
<1>16. CASE Head(signals).type = "changed"
  BY <1>5, <1>10, <1>11, <1>12, <1>16 DEF MountChanged
<1>17. CASE Head(signals).type = "removed"
  BY <1>5, <1>13, <1>14, <1>17 DEF MountRemoved
<1>. QED  BY <1>4, <1>15, <1>16, <1>17

-----------------------------------------------------------------------------
(***************************************************************************)
(* Ejecting, and shows of the panel.                                       *)
(***************************************************************************)
\* A step of one tile n: it becomes t.
LEMMA TileSteps ==
  ASSUME DevInv, NEW n \in Numbers,
         \/ Expire(n) \/ ShowProcesses(n) \/ EjectDone(n)
         \/ \E possible \in BOOLEAN : ClickEject(n, possible) \/ EjectFails(n, possible)
  PROVE  DevInv'
<1>1. /\ devTiles \in Seq(Tiles) /\ Numbers = 1..Len(devTiles) /\ devTiles[n] \in Tiles
      /\ ejects \subseteq Numbers
  BY DevFields DEF DevInv
<1>. DEFINE d == devTiles[n]
<1>2. d.alive => (d.disabled => n \in ejects \/ d.mount \notin Here)
  BY DEF DevInv, TilesAreHonest
<1>3. d = [mount |-> d.mount, alive |-> d.alive, hooked |-> d.hooked, disabled |-> d.disabled,
           busy |-> d.busy, text |-> d.text, buttons |-> d.buttons, expires |-> d.expires]
      /\ devTiles = [devTiles EXCEPT ![n] = d]
  BY <1>1 DEF Tiles
<1>4. CASE Expire(n)
  <2>. DEFINE t == [d EXCEPT !.alive = FALSE, !.expires = FALSE]
  <2>1. devTiles' = [devTiles EXCEPT ![n] = t] /\ d.expires
        /\ UNCHANGED <<mount, signals, tileOf, gone, defaultTile, filigree, ejects>>
    BY <1>1, <1>4 DEF Expire, Numbers
  <2>2. t \in Tiles /\ t.mount = d.mount /\ ~t.expires /\ ~t.alive
    BY <1>1 DEF Tiles
  <2>. HIDE DEF t
  <2>. QED  BY <1>1, <2>1, <2>2, TileSays
<1>5. CASE ShowProcesses(n)
  <2>1. PICK some \in BOOLEAN : devTiles' = [devTiles EXCEPT ![n].busy = some]
    BY <1>5 DEF ShowProcesses
  <2>. DEFINE t == [d EXCEPT !.busy = some]
  <2>2. devTiles' = [devTiles EXCEPT ![n] = t] /\ d.alive
        /\ UNCHANGED <<mount, signals, tileOf, gone, defaultTile, filigree, ejects>>
    BY <1>5, <2>1 DEF ShowProcesses
  <2>3. t \in Tiles /\ t.mount = d.mount /\ t.expires = d.expires /\ t.alive = d.alive
        /\ t.disabled = d.disabled /\ t.text = d.text
    BY <1>1 DEF Tiles
  <2>. HIDE DEF t
  <2>. QED  BY <1>1, <1>2, <2>2, <2>3, TileSays
<1>6. CASE EjectDone(n)
  <2>1. devTiles' = [devTiles EXCEPT ![n] = d] /\ d.mount \notin Here /\ ejects' = ejects \ {n}
        /\ UNCHANGED <<mount, signals, tileOf, gone, defaultTile, filigree>>
    BY <1>3, <1>6 DEF EjectDone
  <2>. HIDE DEF d
  <2>2. d = devTiles[n]
    BY DEF d
  <2>. QED  BY <1>1, <2>1, <2>2, TileSays
<1>7. ASSUME NEW possible \in BOOLEAN, ClickEject(n, possible) PROVE DevInv'
  <2>0. UNCHANGED <<mount, signals, tileOf, gone, defaultTile, filigree>> /\ d.alive
    BY <1>7 DEF ClickEject
  <2>1. CASE d.mount \in Here
    <3>. DEFINE t == [d EXCEPT !.busy = FALSE, !.disabled = possible]
    <3>1. devTiles' = [devTiles EXCEPT ![n] = t]
          /\ ejects' = (IF possible THEN ejects \cup {n} ELSE ejects)
      BY <1>1, <1>7, <2>1 DEF ClickEject, Numbers
    <3>2. t \in Tiles /\ t.mount = d.mount /\ t.expires = d.expires /\ t.alive = d.alive
          /\ t.disabled = possible /\ t.text = d.text
      BY <1>1 DEF Tiles
    <3>3. ejects' \subseteq Numbers /\ ejects \subseteq ejects' /\ (possible => n \in ejects')
      BY <1>1, <3>1
    <3>. HIDE DEF t
    <3>. QED  BY <2>0, <3>1, <3>2, <3>3, TileSays
  <2>2. CASE d.mount \notin Here
    <3>1. devTiles' = [devTiles EXCEPT ![n] = d] /\ ejects' = ejects
      BY <1>3, <1>7, <2>2 DEF ClickEject
    <3>. HIDE DEF d
    <3>2. d = devTiles[n]
      BY DEF d
    <3>. QED  BY <1>1, <1>2, <2>0, <3>1, <3>2, TileSays
  <2>. QED  BY <2>1, <2>2
<1>8. ASSUME NEW isBusy \in BOOLEAN, EjectFails(n, isBusy) PROVE DevInv'
  <2>0. UNCHANGED <<mount, signals, tileOf, gone, defaultTile, filigree>>
        /\ ejects' = ejects \ {n}
    BY <1>8 DEF EjectFails
  <2>1. CASE d.alive
    <3>. DEFINE t == FailedTile(d, isBusy)
    <3>1. devTiles' = [devTiles EXCEPT ![n] = t]
      BY <1>8, <2>1 DEF EjectFails
    <3>2. t \in Tiles /\ t.mount = d.mount /\ t.expires = d.expires /\ t.alive = d.alive
          /\ ~t.disabled /\ t.text # "safe"
      BY <1>1 DEF Tiles, FailedTile, ShowMessage, TileTexts
    <3>. HIDE DEF t
    <3>. QED  BY <1>1, <2>0, <2>1, <3>1, <3>2, TileSays
  <2>2. CASE ~d.alive
    <3>1. devTiles' = [devTiles EXCEPT ![n] = d]
      BY <1>3, <1>8, <2>2 DEF EjectFails
    <3>. HIDE DEF d
    <3>2. d = devTiles[n]
      BY DEF d
    <3>. QED  BY <1>1, <2>0, <2>2, <3>1, <3>2, TileSays
  <2>. QED  BY <2>1, <2>2
<1>. QED  BY <1>4, <1>5, <1>6, <1>7, <1>8

\* A show of the panel takes what the tiles say away.
LEMMA ShowSteps ==
  ASSUME DevInv, PanelShows
  PROVE  DevInv'
<1>1. /\ devTiles \in Seq(Tiles) /\ Numbers = 1..Len(devTiles) /\ Len(devTiles) \in Nat
      /\ \A n \in Numbers : devTiles[n] \in Tiles
      /\ tileOf \in [Mounts -> {0} \cup Numbers]
  BY DevFields DEF DevInv
<1>2. UNCHANGED <<mount, signals, tileOf, gone, defaultTile, filigree, ejects>>
      /\ devTiles' = [n \in Numbers |-> IF devTiles[n].alive /\ devTiles[n].hooked
                                        THEN ShowMessage(devTiles[n], "empty") ELSE devTiles[n]]
  BY DEF PanelShows
<1>3. Numbers' = Numbers
  BY <1>2 DEF Numbers
<1>4. ASSUME NEW n \in Numbers
      PROVE  /\ devTiles'[n] \in Tiles /\ devTiles'[n].mount = devTiles[n].mount
             /\ devTiles'[n].alive = devTiles[n].alive
             /\ devTiles'[n].expires = devTiles[n].expires
             /\ devTiles'[n].disabled = devTiles[n].disabled
             /\ devTiles'[n].text = "safe" => devTiles[n].text = "safe"
  <2>1. CASE devTiles[n].alive /\ devTiles[n].hooked
    <3>1. devTiles'[n] = [devTiles[n] EXCEPT !.text = "empty"]
      BY <1>2, <2>1 DEF ShowMessage
    <3>. QED  BY <1>1, <3>1 DEF Tiles, TileTexts
  <2>2. CASE ~(devTiles[n].alive /\ devTiles[n].hooked)
    <3>1. devTiles'[n] = devTiles[n]
      BY <1>2, <2>2
    <3>. QED  BY <1>1, <3>1
  <2>. QED  BY <2>1, <2>2
<1>5. devTiles' \in Seq(Tiles)
  BY <1>1, <1>2, <1>4
<1>6. TilesTypeOK'
  <2>1. \A m \in Mounts : tileOf[m] # 0 =>
          devTiles'[tileOf[m]].alive /\ devTiles'[tileOf[m]].mount = m
    BY <1>1, <1>4 DEF DevInv, TilesTypeOK
  <2>. QED  BY <1>2, <1>3, <1>5, <2>1 DEF DevInv, TilesTypeOK
<1>7. TilesAreHonest'
  <2>. SUFFICES ASSUME NEW n \in Numbers, devTiles'[n].alive
                PROVE  LET u == devTiles'[n] IN
                       /\ n = tileOf[u.mount] \/ u.expires
                       /\ u.disabled => n \in ejects \/ u.mount \notin Here
                       /\ u.text = "safe" => u.mount \notin Here
    BY <1>2, <1>3 DEF TilesAreHonest, Here
  <2>. QED  BY <1>4 DEF DevInv, TilesAreHonest
<1>8. Stays'
  BY <1>1, <1>2, <1>4 DEF DevInv, Stays
<1>9. DefaultIsRight' /\ Told'
  BY <1>2 DEF DevInv, DefaultIsRight, NoTiles, Told, Concerns
<1>10. \A m \in Mounts : Known(m)'
  BY <1>2, <1>3, <1>4 DEF DevInv, Known, Pending, Concerns
<1>. QED  BY <1>6, <1>7, <1>8, <1>9, <1>10 DEF DevInv

-----------------------------------------------------------------------------
(***************************************************************************)
(* The panel starts, and the theorems.                                     *)
(***************************************************************************)
LEMMA DevStarts ==
  ASSUME TilesInit
  PROVE  DevInv
<1>. DEFINE first == {m \in Here : WantedMount(m)}
<1>1. PICK q \in Bijection(1..Cardinality(first), first) :
        /\ devTiles = [i \in DOMAIN q |-> NewTile(q[i], FALSE)]
        /\ tileOf = [m \in Mounts |-> IF m \in first THEN CHOOSE i \in DOMAIN q : q[i] = m
                                     ELSE 0]
        /\ defaultTile = (first = {}) /\ filigree = (first = {})
  BY DEF TilesInit
<1>. DEFINE N == Cardinality(first)
<1>2. /\ mount \in [Mounts -> [is: {"absent", "here", "gone"}, shadowed: BOOLEAN]]
      /\ \A m \in Mounts : mount[m].is # "gone"
      /\ gone = {} /\ signals = <<>> /\ ejects = {}
  BY DEF TilesInit
<1>3. \A m \in Mounts : m \in first <=> mount[m].is = "here" /\ ~mount[m].shadowed
  BY <1>2 DEF Here, WantedMount
<1>4. first \subseteq Mounts /\ N \in Nat
  <2>1. first \subseteq Mounts
    BY DEF Here
  <2>. QED  BY <2>1, DevicesAssumption, FS_Subset, FS_CardinalityType
<1>. HIDE DEF first, N
<1>5. /\ DOMAIN q = 1..N /\ \A i \in 1..N : q[i] \in first
      /\ \A m \in first : \E i \in 1..N : q[i] = m
      /\ \A i, j \in 1..N : q[i] = q[j] => i = j
  BY <1>1 DEF N, Bijection, Injection, Surjection, IsInjective
<1>6. ASSUME NEW i \in 1..N
      PROVE  /\ devTiles[i] \in Tiles /\ devTiles[i].mount = q[i] /\ devTiles[i].alive
             /\ ~devTiles[i].expires /\ ~devTiles[i].disabled /\ devTiles[i].text = "none"
  <2>1. devTiles[i] = NewTile(q[i], FALSE) /\ q[i] \in Mounts
    BY <1>1, <1>4, <1>5
  <2>. QED  BY <2>1 DEF NewTile, Tiles, TileTexts
<1>7. devTiles \in Seq(Tiles) /\ Numbers = 1..N
  <2>1. devTiles \in [1..N -> Tiles]
    BY <1>1, <1>5, <1>6
  <2>. QED  BY <1>4, <2>1, SeqDef DEF Numbers
<1>8. ASSUME NEW m \in Mounts
      PROVE  IF m \in first THEN tileOf[m] \in 1..N /\ q[tileOf[m]] = m ELSE tileOf[m] = 0
  BY <1>1, <1>5, <1>8
<1>9. \A m \in Mounts : tileOf[m] # 0 <=> m \in first
  BY <1>4, <1>8
<1>10. TilesTypeOK
  <2>1. tileOf \in [Mounts -> {0} \cup Numbers]
    BY <1>1, <1>7, <1>8
  <2>2. \A m \in Mounts : tileOf[m] # 0 =>
          devTiles[tileOf[m]].alive /\ devTiles[tileOf[m]].mount = m
    BY <1>6, <1>8
  <2>3. defaultTile \in BOOLEAN /\ filigree \in BOOLEAN
    BY <1>1
  <2>4. signals \in Seq([type: {"added", "changed", "removed"}, mount: Mounts])
    BY <1>2
  <2>5. gone \subseteq Mounts /\ ejects \subseteq Numbers
    BY <1>2
  <2>. QED  BY <1>2, <1>7, <2>1, <2>2, <2>3, <2>4, <2>5 DEF TilesTypeOK
<1>11. TilesAreHonest
  <2>1. ASSUME NEW i \in 1..N PROVE i = tileOf[q[i]]
    BY <1>4, <1>5, <1>8
  <2>. QED  BY <1>6, <1>7, <2>1 DEF TilesAreHonest
<1>12. DefaultIsRight
  <2>1. NoTiles(tileOf) = (first = {})
    BY <1>4, <1>9 DEF NoTiles
  <2>. QED  BY <1>1, <2>1 DEF DefaultIsRight
<1>13. \A m \in Mounts : Known(m)
  <2>1. Len(signals) = 0
    BY <1>2
  <2>2. \A m \in Mounts : ~Pending(m)
    BY <2>1 DEF Pending
  <2>3. \A n \in Numbers : devTiles[n].mount \in first
    BY <1>5, <1>6, <1>7
  <2>. QED  BY <1>2, <1>3, <1>4, <1>9, <2>2, <2>3 DEF Known
<1>14. Told /\ Stays
  BY <1>2, <1>6, <1>8 DEF Told, Stays
<1>. QED  BY <1>10, <1>11, <1>12, <1>13, <1>14 DEF DevInv

LEMMA DevicesInvariant == TilesSpec => []DevInv
<1>1. TilesInit => DevInv
  BY DevStarts
<1>2. DevInv /\ [TilesNext]_devicesVars => DevInv'
  <2>. SUFFICES ASSUME DevInv, [TilesNext]_devicesVars PROVE DevInv'
    OBVIOUS
  <2>1. ASSUME NEW m \in Mounts, Mount(m) \/ Unmount(m) \/ ChangeMount(m) PROVE DevInv'
    BY <2>1, MountSteps
  <2>2. CASE SignalHandled
    BY <2>2, HandlerSteps
  <2>3. CASE PanelShows
    BY <2>3, ShowSteps
  <2>4. ASSUME NEW n \in Numbers,
               \/ Expire(n) \/ ShowProcesses(n) \/ EjectDone(n)
               \/ \E possible \in BOOLEAN : ClickEject(n, possible) \/ EjectFails(n, possible)
        PROVE  DevInv'
    BY <2>4, TileSteps
  <2>5. CASE UNCHANGED devicesVars
    <3>1. UNCHANGED <<mount, signals, devTiles, tileOf, gone, ejects, defaultTile, filigree>>
      BY <2>5 DEF devicesVars
    <3>2. TilesTypeOK' /\ TilesAreHonest'
      BY <3>1 DEF DevInv, TilesTypeOK, TilesAreHonest, Numbers, Here
    <3>3. DefaultIsRight' /\ Told' /\ Stays'
      BY <3>1 DEF DevInv, DefaultIsRight, NoTiles, Concerns, Told, Stays
    <3>4. \A m \in Mounts : Known(m)'
      BY <3>1 DEF DevInv, Known, Pending, Concerns, Numbers
    <3>. QED  BY <3>2, <3>3, <3>4 DEF DevInv
  <2>. QED  BY <2>1, <2>2, <2>3, <2>4, <2>5 DEF TilesNext
<1>. QED  BY <1>1, <1>2, PTL DEF TilesSpec

\* Type correctness of the devices panel; and a mount's tile is living and its own.
THEOREM TilesTypeCorrect == TilesSpec => []TilesTypeOK
<1>1. DevInv => TilesTypeOK
  BY DEF DevInv
<1>. QED  BY <1>1, DevicesInvariant, PTL

\* What the devices panel shows is what is plugged in, and what it says becomes of it
\* is true, in whatever order mounts come, change and go, operations fail, and late
\* signals are handled.
THEOREM DevicesTruth == TilesSpec => []DevicesAreRight
<1>1. DevInv => DevicesAreRight
  <2>. SUFFICES ASSUME DevInv PROVE DevicesAreRight
    OBVIOUS
  <2>1. ASSUME signals = <<>>, NEW m \in Mounts
        PROVE  tileOf[m] # 0 <=> m \in Here /\ ~mount[m].shadowed
    <3>1. ~Pending(m)
      BY <2>1 DEF Pending
    <3>. QED  BY <3>1 DEF DevInv, Known, Here
  <2>. QED  BY <2>1 DEF DevInv, DefaultIsRight, DevicesAreRight, TilesMatchMounts
<1>. QED  BY <1>1, DevicesInvariant, PTL

-----------------------------------------------------------------------------
(***************************************************************************)
(* The widgets of the Bluetooth panel.  BluetoothIsRight is inductive once *)
(* it is known which widgets say "connected" still.                        *)
(***************************************************************************)
Widgets == [path: BtDevices, connected: BOOLEAN]
Prompts == [path: BtDevices, kind: Kinds]

\* A widget that still says "connected" has been passed over by the last round, and so
\* the next one, which marks it, may leave it there for a device that is off.
MarksLast == \A i \in DOMAIN box : box[i].connected => box[i].path \in missed["now"]

BtInv == BtTypeOK /\ MarksLast /\ BluetoothIsRight

-----------------------------------------------------------------------------
(***************************************************************************)
(* The widgets, one of which goes.                                         *)
(***************************************************************************)
LEMMA OneGoes ==
  ASSUME NEW S, NEW q \in Seq(S), NEW n \in 1..Len(q)
  PROVE  /\ RemoveAt(q, n) \in Seq(S) /\ Len(RemoveAt(q, n)) = Len(q) - 1
         /\ \A i \in 1..(n - 1) : RemoveAt(q, n)[i] = q[i]
         /\ \A i \in n..(Len(q) - 1) : RemoveAt(q, n)[i] = q[i + 1]
<1>. DEFINE a == SubSeq(q, 1, n - 1)
            b == SubSeq(q, n + 1, Len(q))
            p == a \o b
<1>1. Len(q) \in Nat /\ n \in Nat /\ 1 <= n /\ n <= Len(q)
  OBVIOUS
<1>2. a \in Seq(S) /\ Len(a) = n - 1 /\ \A i \in 1..(n - 1) : a[i] = q[i]
  BY <1>1, SubSeqProperties
<1>3. b \in Seq(S) /\ Len(b) = Len(q) - n /\ \A i \in 1..(Len(q) - n) : b[i] = q[n + i]
  BY <1>1, SubSeqProperties
<1>. HIDE DEF a, b
<1>4. /\ p \in Seq(S) /\ Len(p) = Len(a) + Len(b)
      /\ \A i \in 1..Len(a) + Len(b) : p[i] = IF i <= Len(a) THEN a[i] ELSE b[i - Len(a)]
  BY <1>2, <1>3, ConcatProperties
<1>. HIDE DEF p
<1>8. Len(p) = Len(q) - 1
  BY <1>1, <1>2, <1>3, <1>4
<1>5. \A i \in 1..(n - 1) : p[i] = q[i]
  <2>. SUFFICES ASSUME NEW i \in 1..(n - 1) PROVE p[i] = q[i]
    OBVIOUS
  <2>1. i \in 1..Len(a) + Len(b) /\ i <= Len(a)
    BY <1>1, <1>2, <1>3
  <2>. QED  BY <1>2, <1>4, <2>1
<1>6. ASSUME NEW i \in n..(Len(q) - 1) PROVE p[i] = q[i + 1]
  <2>1. i - Len(a) \in 1..(Len(q) - n) /\ n + (i - Len(a)) = i + 1
    BY <1>1, <1>2
  <2>2. b[i - Len(a)] = q[i + 1]
    BY <1>3, <2>1
  <2>3. i \in 1..Len(a) + Len(b) /\ ~(i <= Len(a))
    BY <1>1, <1>2, <1>3
  <2>. QED  BY <1>4, <2>2, <2>3
<1>7. RemoveAt(q, n) = p
  BY DEF RemoveAt, p, a, b
<1>. QED  BY <1>4, <1>5, <1>6, <1>7, <1>8

\* What is left is what there was, without it.
LEMMA OthersStay ==
  ASSUME NEW S, NEW q \in Seq(S), NEW n \in 1..Len(q), Once(q)
  PROVE  /\ Once(RemoveAt(q, n)) /\ PathsOf(RemoveAt(q, n)) = PathsOf(q) \ {q[n].path}
         /\ \A i \in 1..Len(q) :
              i # n => \E j \in 1..(Len(q) - 1) : RemoveAt(q, n)[j] = q[i]
<1>. DEFINE r == RemoveAt(q, n)
<1>1. /\ Len(q) \in Nat /\ Len(r) = Len(q) - 1 /\ DOMAIN q = 1..Len(q) /\ DOMAIN r = 1..(Len(q) - 1)
      /\ \A i \in 1..(n - 1) : r[i] = q[i]
      /\ \A i \in n..(Len(q) - 1) : r[i] = q[i + 1]
  BY OneGoes
<1>. HIDE DEF r
<1>2. ASSUME NEW i \in 1..Len(q), i # n PROVE \E j \in 1..(Len(q) - 1) : r[j] = q[i]
  <2>1. CASE i < n
    <3>1. i \in 1..(n - 1) /\ i \in 1..(Len(q) - 1)
      BY <1>1, <2>1
    <3>. QED  BY <1>1, <3>1
  <2>2. CASE i > n
    <3>1. i - 1 \in n..(Len(q) - 1) /\ i - 1 \in 1..(Len(q) - 1) /\ (i - 1) + 1 = i
      BY <1>1, <2>2
    <3>2. r[i - 1] = q[i]
      BY <1>1, <3>1
    <3>. QED  BY <3>1, <3>2
  <2>. QED  BY <1>1, <1>2, <2>1, <2>2
<1>3. ASSUME NEW j \in DOMAIN r
      PROVE  \E i \in DOMAIN q \ {n} : r[j] = q[i] /\ i = (IF j < n THEN j ELSE j + 1)
  <2>1. CASE j < n
    BY <1>1, <2>1
  <2>2. CASE ~(j < n)
    <3>1. j \in n..(Len(q) - 1) /\ j + 1 \in DOMAIN q \ {n}
      BY <1>1, <2>2
    <3>. QED  BY <1>1, <2>2, <3>1
  <2>. QED  BY <2>1, <2>2
<1>4. Once(r)
  <2>. SUFFICES ASSUME NEW j \in DOMAIN r, NEW k \in DOMAIN r, r[j].path = r[k].path PROVE j = k
    BY DEF Once
  <2>1. (IF j < n THEN j ELSE j + 1) = (IF k < n THEN k ELSE k + 1)
    BY <1>3 DEF Once
  <2>. QED  BY <1>1, <2>1
<1>5. PathsOf(r) = PathsOf(q) \ {q[n].path}
  <2>1. ASSUME NEW j \in DOMAIN r PROVE r[j].path \in PathsOf(q) \ {q[n].path}
    BY <1>1, <1>3 DEF Once, PathsOf
  <2>2. ASSUME NEW i \in DOMAIN q, q[i].path # q[n].path PROVE q[i].path \in PathsOf(r)
    BY <1>1, <1>2, <2>2 DEF PathsOf
  <2>. QED  BY <2>1, <2>2 DEF PathsOf
<1>. QED  BY <1>2, <1>4, <1>5 DEF r

-----------------------------------------------------------------------------
(***************************************************************************)
(* A round.                                                                *)
(***************************************************************************)
\* The widgets that come are those of the devices that are connected and have none.
LEMMA MoreCome ==
  ASSUME NEW widgets \in Seq(Widgets), NEW status \in [BtDevices -> Statuses],
         NEW more \in MoreWidgets(widgets, status)
  PROVE  /\ more \in Seq(Widgets) /\ Once(more)
         /\ PathsOf(more) = {p \in BtDevices : status[p] = "on" /\ p \notin PathsOf(widgets)}
         /\ \A i \in DOMAIN more : more[i].connected
<1>. DEFINE new == {p \in BtDevices : status[p] = "on" /\ p \notin PathsOf(widgets)}
<1>1. IsFiniteSet(new) /\ Cardinality(new) \in Nat
  BY BtAssumption, FS_Subset, FS_CardinalityType
<1>2. PICK q \in Bijection(1..Cardinality(new), new) :
        more = [i \in DOMAIN q |-> [path |-> q[i], connected |-> TRUE]]
  BY DEF MoreWidgets
<1>3. /\ q \in [1..Cardinality(new) -> new]
      /\ \A i, j \in 1..Cardinality(new) : q[i] = q[j] => i = j
      /\ \A p \in new : \E i \in 1..Cardinality(new) : q[i] = p
  BY DEF Bijection, Injection, Surjection, IsInjective
<1>4. /\ DOMAIN more = 1..Cardinality(new)
      /\ \A i \in DOMAIN more : more[i] = [path |-> q[i], connected |-> TRUE]
  BY <1>2, <1>3
<1>5. \A i \in DOMAIN more : more[i] \in Widgets /\ more[i].path = q[i] /\ more[i].connected
  <2>. SUFFICES ASSUME NEW i \in DOMAIN more
                PROVE  more[i] \in Widgets /\ more[i].path = q[i] /\ more[i].connected
    OBVIOUS
  <2>1. q[i] \in BtDevices
    BY <1>3, <1>4
  <2>2. more[i] = [path |-> q[i], connected |-> TRUE]
    BY <1>4
  <2>3. more[i].path = q[i] /\ more[i].connected = TRUE
    BY <2>2
  <2>4. more[i] \in Widgets
    BY <2>1, <2>2 DEF Widgets
  <2>. QED  BY <2>3, <2>4
<1>6. more \in [1..Cardinality(new) -> Widgets]
  BY <1>2, <1>3, <1>5, <1>4
<1>7. more \in Seq(Widgets)
  BY <1>1, <1>6, SeqDef
<1>8. Once(more)
  BY <1>3, <1>4, <1>5 DEF Once
<1>9. PathsOf(more) = new
  <2>1. ASSUME NEW p \in new PROVE p \in PathsOf(more)
    <3>1. PICK i \in DOMAIN more : q[i] = p
      BY <1>3, <1>4
    <3>. QED  BY <1>5, <3>1 DEF PathsOf
  <2>2. ASSUME NEW i \in DOMAIN more PROVE more[i].path \in new
    BY <1>3, <1>4, <1>5
  <2>. HIDE DEF new
  <2>. QED  BY <2>1, <2>2 DEF PathsOf
<1>. QED  BY <1>5, <1>7, <1>8, <1>9

\* After them every device has one widget at most, a connected one has one that says
\* so, and the others' says so only if it was not marked.
Current(widgets, status, unmarked) ==
  /\ widgets \in Seq(Widgets) /\ Once(widgets)
  /\ \A p \in BtDevices : status[p] = "on" => p \in PathsOf(widgets)
  /\ \A i \in DOMAIN widgets :
       /\ status[widgets[i].path] = "on" => widgets[i].connected
       /\ widgets[i].connected => status[widgets[i].path] = "on" \/ widgets[i].path \in unmarked

LEMMA MoreAreCurrent ==
  ASSUME NEW widgets \in Seq(Widgets), NEW status \in [BtDevices -> Statuses], Once(widgets),
         NEW unmarked, \A i \in DOMAIN widgets : widgets[i].connected => widgets[i].path \in unmarked,
         NEW more \in MoreWidgets(widgets, status)
  PROVE  Current(Refreshed(widgets, status) \o more, status, unmarked)
<1>. DEFINE old == Refreshed(widgets, status)
            all == old \o more
<1>1. Len(widgets) \in Nat /\ DOMAIN widgets = 1..Len(widgets)
  OBVIOUS
<1>2. \A i \in DOMAIN widgets : /\ widgets[i] \in Widgets
                                /\ widgets[i].path \in BtDevices /\ widgets[i].connected \in BOOLEAN
  <2>. SUFFICES ASSUME NEW i \in DOMAIN widgets PROVE widgets[i] \in Widgets
    BY DEF Widgets
  <2>. QED  BY <1>1, ElementOfSeq
<1>3. /\ DOMAIN old = 1..Len(widgets)
      /\ \A i \in DOMAIN old :
           /\ old[i] \in Widgets /\ old[i].path = widgets[i].path
           /\ old[i].connected = IF status[widgets[i].path] = "unknown" THEN widgets[i].connected
                                 ELSE status[widgets[i].path] = "on"
  BY <1>1, <1>2 DEF Refreshed, Widgets
<1>4. old \in [1..Len(widgets) -> Widgets]
  <2>1. old = [i \in 1..Len(widgets) |-> old[i]]
    BY <1>1 DEF Refreshed
  <2>. QED  BY <1>3, <2>1
<1>5. old \in Seq(Widgets) /\ Len(old) = Len(widgets)
  BY <1>1, <1>3, <1>4, SeqDef, LenProperties
<1>6. /\ more \in Seq(Widgets) /\ Once(more)
      /\ PathsOf(more) = {p \in BtDevices : status[p] = "on" /\ p \notin PathsOf(widgets)}
      /\ \A i \in DOMAIN more : more[i].connected
      /\ Len(more) \in Nat /\ DOMAIN more = 1..Len(more)
  BY MoreCome
<1>. HIDE DEF old
<1>7. /\ all \in Seq(Widgets) /\ Len(all) = Len(widgets) + Len(more)
      /\ DOMAIN all = 1..(Len(widgets) + Len(more))
      /\ \A i \in 1..Len(widgets) : all[i] = old[i]
      /\ \A i \in DOMAIN all : i > Len(widgets) => all[i] = more[i - Len(widgets)]
  <2>1. /\ all \in Seq(Widgets) /\ Len(all) = Len(old) + Len(more)
        /\ \A i \in 1..Len(old) + Len(more) :
             all[i] = IF i <= Len(old) THEN old[i] ELSE more[i - Len(old)]
    BY <1>5, <1>6, ConcatProperties
  <2>. HIDE DEF all
  <2>. QED  BY <1>1, <1>5, <1>6, <2>1
<1>. HIDE DEF all
<1>8. ASSUME NEW i \in DOMAIN all, i > Len(widgets)
      PROVE  /\ i - Len(widgets) \in DOMAIN more /\ all[i] = more[i - Len(widgets)]
             /\ all[i].connected /\ status[all[i].path] = "on" /\ all[i].path \notin PathsOf(widgets)
  <2>1. i - Len(widgets) \in DOMAIN more /\ all[i] = more[i - Len(widgets)]
    BY <1>1, <1>6, <1>7, <1>8
  <2>2. all[i].path \in PathsOf(more)
    BY <2>1 DEF PathsOf
  <2>. QED  BY <1>6, <2>1, <2>2
<1>9. ASSUME NEW i \in DOMAIN all, ~(i > Len(widgets))
      PROVE  i \in DOMAIN widgets /\ all[i] = old[i] /\ all[i].path \in PathsOf(widgets)
  BY <1>1, <1>3, <1>7, <1>9 DEF PathsOf
<1>10. Once(all)
  <2>. SUFFICES ASSUME NEW i \in DOMAIN all, NEW j \in DOMAIN all, all[i].path = all[j].path
                PROVE  i = j
    BY DEF Once
  <2>1. CASE i > Len(widgets) /\ j > Len(widgets)
    <3>1. i - Len(widgets) = j - Len(widgets)
      BY <1>6, <1>8, <2>1 DEF Once
    <3>. QED  BY <1>1, <1>7, <3>1
  <2>2. CASE ~(i > Len(widgets)) /\ ~(j > Len(widgets))
    BY <1>1, <1>3, <1>9, <2>2 DEF Once
  <2>. QED  BY <1>8, <1>9, <2>1, <2>2
<1>11. ASSUME NEW p \in BtDevices, status[p] = "on" PROVE p \in PathsOf(all)
  <2>1. CASE p \in PathsOf(widgets)
    <3>1. PICK i \in DOMAIN widgets : widgets[i].path = p
      BY <2>1 DEF PathsOf
    <3>2. i \in DOMAIN all /\ all[i].path = p
      BY <1>1, <1>3, <1>6, <1>7, <3>1
    <3>. QED  BY <3>2 DEF PathsOf
  <2>2. CASE p \notin PathsOf(widgets)
    <3>1. PICK i \in DOMAIN more : more[i].path = p
      BY <1>6, <1>11, <2>2 DEF PathsOf
    <3>2. /\ i + Len(widgets) \in DOMAIN all /\ i + Len(widgets) > Len(widgets)
          /\ (i + Len(widgets)) - Len(widgets) = i
      BY <1>1, <1>6, <1>7, <3>1
    <3>3. all[i + Len(widgets)].path = p
      BY <1>7, <3>1, <3>2
    <3>. QED  BY <3>2, <3>3 DEF PathsOf
  <2>. QED  BY <2>1, <2>2
<1>12. ASSUME NEW i \in DOMAIN all
       PROVE  /\ status[all[i].path] = "on" => all[i].connected
              /\ all[i].connected => status[all[i].path] = "on" \/ all[i].path \in unmarked
  <2>1. CASE i > Len(widgets)
    BY <1>8, <2>1
  <2>2. CASE ~(i > Len(widgets))
    <3>1. /\ all[i].path = widgets[i].path /\ i \in DOMAIN widgets
          /\ all[i].connected = IF status[widgets[i].path] = "unknown" THEN widgets[i].connected
                                ELSE status[widgets[i].path] = "on"
      BY <1>1, <1>3, <1>9, <2>2
    <3>2. status[widgets[i].path] = "unknown" => status[widgets[i].path] # "on"
      OBVIOUS
    <3>. QED  BY <3>1, <3>2
  <2>. QED  BY <2>1, <2>2
<1>13. Current(all, status, unmarked)
  BY <1>7, <1>10, <1>11, <1>12 DEF Current
<1>. QED  BY <1>13 DEF all, old

\* Once the round has ended, a connected device has its widget still, and a widget of
\* another one has not been reached or had not been marked.
LEMMA RoundEnds ==
  ASSUME NEW status \in [BtDevices -> Statuses], NEW unmarked, NEW widgets,
         Current(widgets, status, unmarked), NEW n \in 1..(Len(widgets) + 1), EndsAt(widgets, n)
  PROVE  /\ Swept(widgets, n) \in Seq(Widgets) /\ Once(Swept(widgets, n))
         /\ \A p \in BtDevices : status[p] = "on" => p \in PathsOf(Swept(widgets, n))
         /\ \A p \in PathsOf(Swept(widgets, n)) :
              status[p] = "on" \/ p \in unmarked \cup NotReached(widgets, n)
         /\ \A i \in DOMAIN Swept(widgets, n) :
              Swept(widgets, n)[i].connected => Swept(widgets, n)[i].path \in NotReached(widgets, n)
         /\ NotReached(widgets, n) \subseteq BtDevices
<1>. DEFINE m == Marked(widgets, n)
            w == Swept(widgets, n)
<1>1. /\ widgets \in Seq(Widgets) /\ Once(widgets)
      /\ \A p \in BtDevices : status[p] = "on" => p \in PathsOf(widgets)
      /\ \A i \in DOMAIN widgets :
           /\ status[widgets[i].path] = "on" => widgets[i].connected
           /\ widgets[i].connected => status[widgets[i].path] = "on" \/ widgets[i].path \in unmarked
  BY DEF Current
<1>2. /\ Len(widgets) \in Nat /\ DOMAIN widgets = 1..Len(widgets)
      /\ \A i \in DOMAIN widgets : widgets[i] \in Widgets
  BY <1>1, ElementOfSeq
<1>3. \A i \in DOMAIN widgets : widgets[i].path \in BtDevices /\ widgets[i].connected \in BOOLEAN
  BY <1>2 DEF Widgets
<1>4. DOMAIN m = 1..Len(widgets) /\ m = [i \in 1..Len(widgets) |-> m[i]]
  BY <1>2 DEF Marked
<1>5. ASSUME NEW i \in DOMAIN widgets
      PROVE  /\ m[i] \in Widgets /\ m[i].path = widgets[i].path
             /\ i < n => ~m[i].connected
  BY <1>2, <1>3 DEF Marked, Widgets
<1>6. m \in [1..Len(widgets) -> Widgets]
  BY <1>2, <1>4, <1>5
<1>7. m \in Seq(Widgets) /\ Len(m) = Len(widgets)
  BY <1>2, <1>4, <1>6, SeqDef, LenProperties
<1>. HIDE DEF m
<1>8. Once(m) /\ PathsOf(m) = PathsOf(widgets)
  BY <1>1, <1>2, <1>4, <1>5 DEF Once, PathsOf
<1>9. /\ \A i \in DOMAIN widgets : i < n => widgets[i].connected
      /\ n \in DOMAIN widgets => ~widgets[n].connected
  BY <1>2 DEF EndsAt
<1>10. \A i \in DOMAIN widgets : i > n => widgets[i].path \in NotReached(widgets, n)
  BY <1>2 DEF NotReached
<1>11. NotReached(widgets, n) \subseteq BtDevices
  BY <1>2, <1>3 DEF NotReached
<1>12. CASE n \in DOMAIN widgets
  <2>1. w = RemoveAt(m, n) /\ n \in 1..Len(m)
    BY <1>2, <1>7, <1>12 DEF Swept, m
  <2>2. /\ w \in Seq(Widgets) /\ Len(w) = Len(m) - 1
        /\ \A i \in 1..(n - 1) : w[i] = m[i]
        /\ \A i \in n..(Len(m) - 1) : w[i] = m[i + 1]
    BY <1>7, <2>1, OneGoes
  <2>3. Once(w) /\ PathsOf(w) = PathsOf(m) \ {m[n].path}
    BY <1>7, <1>8, <2>1, OthersStay
  <2>. HIDE DEF w
  <2>4. \A p \in BtDevices : status[p] = "on" => p \in PathsOf(w)
    BY <1>1, <1>5, <1>8, <1>9, <1>12, <2>3
  <2>5. ASSUME NEW p \in PathsOf(w) PROVE status[p] = "on" \/ p \in unmarked \cup NotReached(widgets, n)
    <3>1. PICK i \in DOMAIN widgets : widgets[i].path = p /\ i # n
      BY <1>4, <1>5, <1>8, <1>12, <2>3 DEF PathsOf
    <3>2. CASE i < n
      BY <1>1, <1>9, <3>1, <3>2
    <3>3. CASE i > n
      BY <1>10, <3>1, <3>3
    <3>. QED  BY <1>2, <3>1, <3>2, <3>3
  <2>6. ASSUME NEW i \in DOMAIN w, w[i].connected PROVE w[i].path \in NotReached(widgets, n)
    <3>1. i \in 1..(Len(m) - 1)
      BY <2>2
    <3>2. ~(i < n)
      <4>. SUFFICES ASSUME i < n PROVE FALSE
        OBVIOUS
      <4>1. i \in 1..(n - 1) /\ i \in DOMAIN widgets
        BY <1>2, <1>7, <3>1
      <4>. QED  BY <1>5, <2>2, <2>6, <4>1
    <3>3. i \in n..(Len(m) - 1) /\ i + 1 \in DOMAIN widgets /\ i + 1 > n
      BY <1>2, <1>7, <3>1, <3>2
    <3>4. w[i] = m[i + 1] /\ m[i + 1].path = widgets[i + 1].path
      BY <1>5, <2>2, <3>3
    <3>. QED  BY <1>10, <3>3, <3>4
  <2>. QED  BY <1>11, <2>2, <2>3, <2>4, <2>5, <2>6 DEF w
<1>13. CASE n \notin DOMAIN widgets
  <2>1. w = m
    BY <1>13 DEF Swept, m
  <2>2. \A i \in DOMAIN widgets : i < n
    BY <1>2, <1>13
  <2>. HIDE DEF w
  <2>3. \A p \in PathsOf(w) : status[p] = "on" \/ p \in unmarked
    BY <1>1, <1>8, <1>9, <2>1, <2>2 DEF PathsOf
  <2>4. \A i \in DOMAIN w : ~w[i].connected
    BY <1>2, <1>4, <1>5, <2>1, <2>2
  <2>. QED  BY <1>1, <1>7, <1>8, <1>11, <2>1, <2>3, <2>4 DEF w
<1>. QED  BY <1>12, <1>13

\* So a round leaves the panel right, whatever has changed.
LEMMA RoundSteps ==
  ASSUME BtInv, alive, device' \in [BtDevices -> Statuses], Round(device'),
         UNCHANGED <<waiting, prompts, alive>>
  PROVE  BtInv'
<1>1. /\ box \in Seq(Widgets) /\ Once(box)
      /\ \A i \in DOMAIN box : box[i].connected => box[i].path \in missed["now"]
      /\ missed["now"] \subseteq BtDevices
  BY DEF BtInv, BtTypeOK, MarksLast, BluetoothIsRight, DevicesAreShown, Widgets
<1>2. PICK more \in MoreWidgets(box, device') :
        LET updated == Refreshed(box, device') \o more
        IN \E n \in 1 .. Len(updated) + 1 :
             /\ EndsAt(updated, n)
             /\ box' = Swept(updated, n) /\ info' = (box' = <<>>)
             /\ missed' = [now |-> NotReached(updated, n), before |-> missed["now"]]
  BY DEF Round
<1>. DEFINE updated == Refreshed(box, device') \o more
<1>3. Current(updated, device', missed["now"])
  BY <1>1, MoreAreCurrent
<1>4. PICK n \in 1 .. Len(updated) + 1 :
        /\ EndsAt(updated, n)
        /\ box' = Swept(updated, n) /\ info' = (box' = <<>>)
        /\ missed' = [now |-> NotReached(updated, n), before |-> missed["now"]]
  BY <1>2
<1>. HIDE DEF updated
<1>5. missed'["now"] = NotReached(updated, n) /\ missed'["before"] = missed["now"]
  BY <1>4
<1>6. /\ box' \in Seq(Widgets) /\ Once(box')
      /\ \A p \in BtDevices : device'[p] = "on" => p \in PathsOf(box')
      /\ \A p \in PathsOf(box') : device'[p] = "on" \/ p \in missed'["before"] \cup missed'["now"]
      /\ \A i \in DOMAIN box' : box'[i].connected => box'[i].path \in missed'["now"]
      /\ missed'["now"] \subseteq BtDevices
  BY <1>3, <1>4, <1>5, RoundEnds
<1>7. missed' \in [{"now", "before"} -> SUBSET BtDevices]
  BY <1>1, <1>4, <1>5, <1>6
<1>8. BtTypeOK'
  BY <1>4, <1>6, <1>7 DEF BtInv, BtTypeOK, Widgets
<1>9. MarksLast'
  BY <1>6 DEF MarksLast
<1>10. DevicesAreShown'
  BY <1>4, <1>6 DEF DevicesAreShown
<1>11. RequestsAreShown'
  BY DEF BtInv, BluetoothIsRight, RequestsAreShown
<1>. QED  BY <1>8, <1>9, <1>10, <1>11 DEF BtInv, BluetoothIsRight

-----------------------------------------------------------------------------
(***************************************************************************)
(* Requests.                                                               *)
(***************************************************************************)
\* The widget of p goes, and those of the others stay.
LEMMA RequestGoes ==
  ASSUME prompts \in Seq(Prompts), Once(prompts), NEW p
  PROVE  /\ Without(prompts, p) \in Seq(Prompts) /\ Once(Without(prompts, p))
         /\ p \notin PathsOf(Without(prompts, p))
         /\ \A x \in ToSet(prompts) : x.path # p => x \in ToSet(Without(prompts, p))
<1>1. CASE p \notin PathsOf(prompts)
  BY <1>1 DEF Without
<1>2. CASE p \in PathsOf(prompts)
  <2>. DEFINE n == CHOOSE i \in DOMAIN prompts : prompts[i].path = p
              w == Without(prompts, p)
  <2>1. n \in DOMAIN prompts /\ prompts[n].path = p
    BY <1>2 DEF PathsOf
  <2>2. w = RemoveAt(prompts, n)
    BY <1>2 DEF Without
  <2>. HIDE DEF n, w
  <2>3. n \in 1..Len(prompts) /\ DOMAIN prompts = 1..Len(prompts)
    BY <2>1
  <2>4. w \in Seq(Prompts) /\ Len(w) = Len(prompts) - 1
    BY <2>2, <2>3, OneGoes
  <2>5. /\ Once(w) /\ PathsOf(w) = PathsOf(prompts) \ {p}
        /\ \A i \in 1..Len(prompts) : i # n => \E j \in 1..(Len(prompts) - 1) : w[j] = prompts[i]
    <3>1. /\ Once(RemoveAt(prompts, n))
          /\ PathsOf(RemoveAt(prompts, n)) = PathsOf(prompts) \ {prompts[n].path}
          /\ \A i \in 1..Len(prompts) :
               i # n => \E j \in 1..(Len(prompts) - 1) : RemoveAt(prompts, n)[j] = prompts[i]
      BY <2>3, OthersStay
    <3>. QED  BY <2>1, <2>2, <3>1
  <2>6. DOMAIN w = 1..(Len(prompts) - 1)
    BY <2>4
  <2>7. ASSUME NEW x \in ToSet(prompts), x.path # p PROVE x \in ToSet(w)
    <3>1. PICK i \in DOMAIN prompts : prompts[i] = x
      BY DEF ToSet
    <3>2. i # n
      BY <2>1, <2>7, <3>1
    <3>. QED  BY <2>3, <2>5, <2>6, <3>1, <3>2 DEF ToSet
  <2>. QED  BY <2>4, <2>5, <2>7 DEF w
<1>. QED  BY <1>1, <1>2

\* The widget of a request comes after the others.
LEMMA RequestComes ==
  ASSUME prompts \in Seq(Prompts), Once(prompts), NEW p \in BtDevices, NEW kind \in Kinds
  PROVE  /\ Asked(prompts, p, kind) \in Seq(Prompts) /\ Once(Asked(prompts, p, kind))
         /\ [path |-> p, kind |-> kind] \in ToSet(Asked(prompts, p, kind))
         /\ \A x \in ToSet(prompts) : x.path # p => x \in ToSet(Asked(prompts, p, kind))
<1>. DEFINE q == Without(prompts, p)
            x == [path |-> p, kind |-> kind]
            r == Append(q, x)
<1>1. /\ q \in Seq(Prompts) /\ Once(q) /\ p \notin PathsOf(q)
      /\ \A y \in ToSet(prompts) : y.path # p => y \in ToSet(q)
  BY RequestGoes
<1>2. x \in Prompts /\ x.path = p
  BY DEF Prompts
<1>. HIDE DEF q, x
<1>3. /\ r \in Seq(Prompts) /\ Len(r) = Len(q) + 1 /\ r[Len(q) + 1] = x
      /\ \A i \in 1..Len(q) : r[i] = q[i]
  BY <1>1, <1>2, AppendProperties
<1>4. /\ Len(q) \in Nat /\ DOMAIN q = 1..Len(q) /\ DOMAIN r = 1..(Len(q) + 1)
  BY <1>1, <1>3
<1>. HIDE DEF r
<1>5. Once(r)
  <2>1. \A i \in DOMAIN q : q[i].path # p
    BY <1>1 DEF PathsOf
  <2>. SUFFICES ASSUME NEW i \in DOMAIN r, NEW j \in DOMAIN r, r[i].path = r[j].path PROVE i = j
    BY DEF Once
  <2>. QED  BY <1>1, <1>2, <1>3, <1>4, <2>1 DEF Once
<1>6. \A y \in ToSet(q) : y \in ToSet(r)
  BY <1>3, <1>4 DEF ToSet
<1>7. x \in ToSet(r)
  BY <1>3, <1>4 DEF ToSet
<1>. QED  BY <1>1, <1>3, <1>5, <1>6, <1>7 DEF Asked, r, q, x

\* Nothing is asked twice or unasked.
LEMMA RequestSteps ==
  ASSUME BtInv, NEW p \in BtDevices,
         (\E kind \in Kinds : Request(p, kind)) \/ Respond(p) \/ Cancel(p)
  PROVE  BtInv'
<1>1. /\ prompts \in Seq(Prompts) /\ Once(prompts) /\ waiting \in [BtDevices -> {"nothing"} \cup Kinds]
      /\ \A d \in BtDevices : waiting[d] # "nothing" =>
           [path |-> d, kind |-> waiting[d]] \in ToSet(prompts)
  BY DEF BtInv, BtTypeOK, BluetoothIsRight, RequestsAreShown, Prompts
<1>2. UNCHANGED <<device, box, missed, info>> /\ alive' \in BOOLEAN /\ (alive' => alive)
  BY DEF BtInv, BtTypeOK, Request, Respond, Cancel
<1>. DEFINE Asking == /\ prompts' \in Seq(Prompts) /\ Once(prompts')
                      /\ waiting' \in [BtDevices -> {"nothing"} \cup Kinds]
                      /\ \A d \in BtDevices : waiting'[d] # "nothing" =>
                           [path |-> d, kind |-> waiting'[d]] \in ToSet(prompts')
<1>3. Asking
  <2>1. ASSUME NEW kind \in Kinds, Request(p, kind) PROVE Asking
    <3>1. waiting' = [waiting EXCEPT ![p] = kind] /\ prompts' = Asked(prompts, p, kind)
      BY <2>1 DEF Request
    <3>2. ASSUME NEW d \in BtDevices, waiting'[d] # "nothing"
          PROVE  [path |-> d, kind |-> waiting'[d]] \in ToSet(prompts')
      <4>1. CASE d = p
        BY <1>1, <3>1, <4>1, RequestComes
      <4>2. CASE d # p
        BY <1>1, <3>1, <3>2, <4>2, RequestComes
      <4>. QED  BY <4>1, <4>2
    <3>. QED  BY <1>1, <3>1, <3>2, RequestComes
  <2>2. CASE Respond(p)
    <3>1. prompts' = Without(prompts, p) /\ waiting' = [waiting EXCEPT ![p] = "nothing"]
      BY <2>2 DEF Respond
    <3>. QED  BY <1>1, <3>1, RequestGoes
  <2>3. CASE Cancel(p)
    <3>1. CASE waiting' = [waiting EXCEPT ![p] = "nothing"] /\ UNCHANGED <<prompts, alive>>
      BY <1>1, <3>1
    <3>2. CASE prompts' = <<>> /\ waiting' = [q \in BtDevices |-> "nothing"]
      BY <3>2 DEF Once
    <3>. QED  BY <2>3, <3>1, <3>2 DEF Cancel
  <2>. QED  BY <2>1, <2>2, <2>3
<1>4. BtTypeOK' /\ MarksLast' /\ DevicesAreShown'
  BY <1>2, <1>3 DEF BtInv, BtTypeOK, MarksLast, BluetoothIsRight, DevicesAreShown, Prompts
<1>5. RequestsAreShown'
  BY <1>3 DEF RequestsAreShown
<1>. QED  BY <1>4, <1>5 DEF BtInv, BluetoothIsRight

-----------------------------------------------------------------------------
(***************************************************************************)
(* The panel starts.                                                       *)
(***************************************************************************)
\* Its first round leaves the widgets of all that is connected, marked.
LEMMA FirstRound ==
  ASSUME NEW status \in [BtDevices -> Statuses], NEW widgets \in FirstBoxes(status)
  PROVE  /\ widgets \in Seq(Widgets) /\ Once(widgets)
         /\ \A p \in BtDevices : status[p] = "on" <=> p \in PathsOf(widgets)
         /\ \A i \in DOMAIN widgets : ~widgets[i].connected
<1>1. PICK first \in MoreWidgets(<<>>, status) : widgets = Swept(first, Len(first) + 1)
  BY DEF FirstBoxes
<1>2. /\ first \in Seq(Widgets) /\ Once(first) /\ PathsOf(<<>>) = {}
      /\ PathsOf(first) = {p \in BtDevices : status[p] = "on" /\ p \notin PathsOf(<<>>)}
      /\ \A i \in DOMAIN first : first[i].connected
  <2>1. <<>> \in Seq(Widgets) /\ PathsOf(<<>>) = {}
    BY DEF PathsOf
  <2>. QED  BY <1>1, <2>1, MoreCome
<1>3. /\ Len(first) \in Nat /\ DOMAIN first = 1..Len(first)
      /\ \A i \in DOMAIN first : first[i].path \in BtDevices
  <2>1. \A i \in DOMAIN first : first[i] \in Widgets
    BY <1>2, ElementOfSeq
  <2>. QED  BY <1>2, <2>1 DEF Widgets
<1>4. Current(first, status, {}) /\ EndsAt(first, Len(first) + 1) /\ Len(first) + 1 \in 1..(Len(first) + 1)
  BY <1>2, <1>3 DEF Current, EndsAt, PathsOf
<1>5. NotReached(first, Len(first) + 1) = {}
  BY <1>3 DEF NotReached
<1>6. /\ widgets \in Seq(Widgets) /\ Once(widgets)
      /\ \A p \in BtDevices : status[p] = "on" => p \in PathsOf(widgets)
      /\ \A p \in PathsOf(widgets) : status[p] = "on"
      /\ \A i \in DOMAIN widgets : ~widgets[i].connected
  BY <1>1, <1>4, <1>5, RoundEnds
<1>. QED  BY <1>6

LEMMA BtStarts == BtInit => BtInv
<1>. SUFFICES ASSUME BtInit PROVE BtInv
  OBVIOUS
<1>1. device \in [BtDevices -> Statuses] /\ box \in FirstBoxes(device)
  BY DEF BtInit, Statuses
<1>2. /\ box \in Seq(Widgets) /\ Once(box)
      /\ \A p \in BtDevices : device[p] = "on" <=> p \in PathsOf(box)
      /\ \A i \in DOMAIN box : ~box[i].connected
  BY <1>1, FirstRound
<1>3. missed = [now |-> {}, before |-> {}] /\ missed \in [{"now", "before"} -> SUBSET BtDevices]
  BY DEF BtInit
<1>4. BtTypeOK
  BY <1>1, <1>2, <1>3 DEF BtInit, BtTypeOK, Widgets
<1>5. MarksLast /\ DevicesAreShown
  BY <1>2 DEF BtInit, MarksLast, DevicesAreShown
<1>6. RequestsAreShown
  BY DEF BtInit, RequestsAreShown, Once
<1>. QED  BY <1>4, <1>5, <1>6 DEF BtInv, BluetoothIsRight

LEMMA RestartSteps ==
  ASSUME BtInv, BtRestart PROVE BtInv'
<1>1. device \in [BtDevices -> Statuses] /\ box' \in FirstBoxes(device) /\ device' = device
  BY DEF BtInv, BtTypeOK, BtRestart
<1>2. /\ box' \in Seq(Widgets) /\ Once(box')
      /\ \A p \in BtDevices : device[p] = "on" <=> p \in PathsOf(box')
      /\ \A i \in DOMAIN box' : ~box'[i].connected
  BY <1>1, FirstRound
<1>3. /\ missed' = [now |-> {}, before |-> {}] /\ info' = (box' = <<>>) /\ alive'
      /\ UNCHANGED <<waiting, prompts>> /\ missed' \in [{"now", "before"} -> SUBSET BtDevices]
  BY DEF BtRestart
<1>4. BtTypeOK'
  BY <1>1, <1>2, <1>3 DEF BtInv, BtTypeOK, Widgets
<1>5. MarksLast' /\ DevicesAreShown'
  BY <1>1, <1>2, <1>3 DEF MarksLast, DevicesAreShown
<1>6. RequestsAreShown'
  BY <1>3 DEF BtInv, BluetoothIsRight, RequestsAreShown
<1>. QED  BY <1>4, <1>5, <1>6 DEF BtInv, BluetoothIsRight

LEMMA BluetoothInvariant == BtSpec => []BtInv
<1>1. BtInit => BtInv
  BY BtStarts
<1>2. BtInv /\ [BtNext]_btVars => BtInv'
  <2>. SUFFICES ASSUME BtInv, [BtNext]_btVars PROVE BtInv'
    OBVIOUS
  <2>1. CASE DevicesChange
    <3>1. alive /\ device' \in [BtDevices -> Statuses] /\ Round(device')
      BY <2>1 DEF DevicesChange
    <3>. QED  BY <2>1, <3>1, RoundSteps DEF DevicesChange
  <2>2. ASSUME NEW p \in BtDevices, Disconnect(p) PROVE BtInv'
    <3>1. alive /\ device' \in [BtDevices -> Statuses] /\ Round(device')
      BY <2>2 DEF Disconnect, BtInv, BtTypeOK, Statuses
    <3>. QED  BY <2>2, <3>1, RoundSteps DEF Disconnect
  <2>3. ASSUME NEW p \in BtDevices,
               (\E kind \in Kinds : Request(p, kind)) \/ Respond(p) \/ Cancel(p)
        PROVE  BtInv'
    BY <2>3, RequestSteps
  <2>4. CASE BtRestart
    BY <2>4, RestartSteps
  <2>5. CASE UNCHANGED btVars
    BY <2>5 DEF btVars, BtInv, BtTypeOK, MarksLast, BluetoothIsRight, DevicesAreShown,
                RequestsAreShown
  <2>. QED  BY <2>1, <2>2, <2>3, <2>4, <2>5 DEF BtNext
<1>. QED  BY <1>1, <1>2, PTL DEF BtSpec

\* Type correctness of the Bluetooth panel.
THEOREM BtTypeCorrect == BtSpec => []BtTypeOK
<1>1. BtInv => BtTypeOK
  BY DEF BtInv
<1>. QED  BY <1>1, BluetoothInvariant, PTL

\* What the Bluetooth panel shows is what there is: a widget for every connected device
\* and one question for every device that waits, though rounds are cut short, requests
\* are repeated and the panel dies.
THEOREM BluetoothTruth == BtSpec => []BluetoothIsRight
<1>1. BtInv => BluetoothIsRight
  BY DEF BtInv
<1>. QED  BY <1>1, BluetoothInvariant, PTL

(***************************************************************************)
(* The toggles of the radios.  What a program knows, and what its toggles  *)
(* say, may be wrong only as long as something is under way that puts it   *)
(* right: a call, an answer, a signal, or the word that connman is gone.   *)
(* So the invariant is about what the two queues hold, and in what order.  *)
(***************************************************************************)
Among(q, S) == \E i \in 1..Len(q) : q[i] \in S
Single(q, S) == \A i, j \in 1..Len(q) : q[i] \in S /\ q[j] \in S => i = j
Followed(q, S, T) == \A i \in 1..Len(q) : q[i] \in S => \E j \in (i + 1)..Len(q) : q[j] \in T
NotBefore(q, S, T) == \A i \in 1..Len(q) : q[i] \in T => \A j \in 1..(i - 1) : q[j] \notin S
Comes(q, n, S, T, on) ==
  /\ \A i \in (n + 1)..Len(q) : q[i] \in S => \E j \in (n + 1)..(i - 1) : q[j] \in T
  /\ on => \E i \in (n + 1)..Len(q) : q[i] \in T
ComesAfter(q, H, S, T, on) == \A i \in 1..Len(q) : q[i] \in H => Comes(q, i, S, T, on)

\* Messages and calls.
Of(types) == {m \in RadioNews : m.type \in types}
Tells(k, b) ==
  {m \in RadioNews : \/ m.type = "signal" /\ m.key = k /\ m.value = b
                     \/ m.type = "props" /\ ~m.error /\ m.radio[k] = b}
AllProps == {m \in RadioNews : m.type = "props" /\ ~m.error}
Turned(k, b) == {m \in RadioNews : m.type = "signal" /\ m.key = k /\ m.value = b}
Replies(k) == {m \in RadioNews : m.type = "reply" /\ m.key = k}
Errors == {m \in RadioNews : m.type = "reply" /\ m.error}
PropsCalls == {c \in RadioCalls : c.type = "props"}
SetCalls(k) == {c \in RadioCalls : c.type = "set" /\ c.key = k}
Setting(k, b) == {c \in RadioCalls : c.type = "set" /\ c.key = k /\ c.value = b}

LastIsRight(k) == Followed(news, Tells(k, ~radio[k]), Tells(k, radio[k]) \cup Of({"vanished"}))
Vanishes == Among(news, Of({"vanished"}))

\* The pane: a switch is blocked while its one call is under way.
Blocked(k) ==
  /\ panel.blocks[k] = IF Among(pending, SetCalls(k)) \/ Among(news, Replies(k)) THEN 1 ELSE 0
  /\ Single(pending, SetCalls(k)) /\ Single(news, Replies(k))
  /\ ~Among(pending, SetCalls(k)) \/ ~Among(news, Replies(k))

PaneKnows(k) ==
  panel.own[k] = radio[k] \/ Among(pending, PropsCalls) \/ Among(news, Tells(k, radio[k]))
PaneFollows(k) ==
  \/ panel.toggle[k] = panel.own[k] \/ k \in did.lost
  \/ Among(pending, PropsCalls) \/ Among(news, AllProps)
  \/ Among(pending, Setting(k, panel.toggle[k])) \/ Among(news, Replies(k) \cap Errors)
  \/ Among(news, Tells(k, panel.toggle[k]))
PaneRight ==
  /\ panel.alive /\ making = 0
  /\ \A k \in Switched : Blocked(k)
  /\ did.exits = 0 => /\ running /\ ~Vanishes
                      /\ \A k \in Switched : PaneKnows(k) /\ PaneFollows(k)

\* The manager of the two others knows how the radios are, or will.
WillKnow == \/ making > 0 \/ Among(pending, PropsCalls) \/ Among(news, AllProps)
            \/ Among(news, Of({"appeared", "proxy"}))
ManagerKnows ==
  /\ running => Followed(news, Of({"vanished"}), Of({"appeared"}))
  /\ ~running => Followed(news, AllProps \cup Of({"signal"}), Of({"vanished"}))
  /\ Among(pending, PropsCalls) => panel.cm /\ ~Vanishes
  /\ NotBefore(news, Of({"vanished"}), AllProps) /\ (Among(news, AllProps) => panel.cm)
  /\ running /\ ~Vanishes /\ ~WillKnow =>
       /\ panel.cm
       /\ \A k \in Keys : /\ panel.known[k] # Null
                          /\ panel.known[k] = {radio[k]} \/ Among(news, Tells(k, radio[k]))
  /\ panel.known["have"] # Null => panel.cm /\ (running \/ Vanishes)

\* The program is still asking for connman's properties.
Asks == \/ making > 0 \/ Among(pending, PropsCalls)
        \/ Among(news, Of({"appeared", "proxy", "props"}))

\* The tile of the devices panel.
TileFits(s) ==
  /\ s.own["have"] = Says(s, "have")
  /\ s.known["have"] = Null => \A k \in Switched : s.toggle[k] = Says(s, k)
TileWaits(k) ==
  /\ running /\ ~Asks
  /\ \/ Among(pending, Setting(k, panel.toggle[k]))
     \/ Among(news, Tells(k, panel.toggle[k]))
     \/ k = "tech" /\ Among(news, Errors)
TileFollows(k) == ~Vanishes /\ k \notin did.lost => panel.toggle[k] = Says(panel, k) \/ TileWaits(k)

\* The Bluetooth panel.
ShellFits(s) ==
  /\ s.own["have"] = Says(s, "have") /\ s.own["tech"] = Says(s, "tech")
  /\ ~s.own["have"] => s.toggle["tech"] = s.own["tech"]
ShellWaits ==
  /\ running /\ ~Asks
  /\ \/ Among(pending, Setting("tech", panel.toggle["tech"]))
     \/ Among(news, Tells("tech", panel.toggle["tech"])) \/ Among(news, Tells("have", FALSE))
ShellFollows ==
  ~Vanishes /\ "tech" \notin did.lost => panel.toggle["tech"] = panel.own["tech"] \/ ShellWaits
\* What comes first of a technology that came is that it is on.
TechComes ==
  /\ ComesAfter(news, Turned("have", TRUE), Turned("tech", FALSE), Turned("tech", TRUE),
                radio["tech"])
  /\ panel.own["have"] /\ panel.known["tech"] = Null =>
       Comes(news, 0, Turned("tech", FALSE), Turned("tech", TRUE), radio["tech"])

ManagerRight ==
  /\ ManagerKnows
  /\ ui = "tile" => /\ TileFits(panel)
                    /\ "tile" \notin RefusesOffline => \A k \in Switched : TileFollows(k)
  /\ ui = "bluetooth" => /\ ShellFits(panel) /\ TechComes
                         /\ "bluetooth" \notin RefusesTech => ShellFollows
RadioInv ==
  /\ RadioTypeOK
  /\ (radio["tech"] => radio["have"]) /\ (pending # <<>> => running)
  /\ panel.alive => \A k \in Keys : LastIsRight(k)
  /\ ui = "pane" => PaneRight
  /\ ui # "pane" => \A k \in Switched : panel.blocks[k] = 0
  /\ ui # "pane" /\ panel.alive => ManagerRight

LEMMA Rest ==
  ASSUME NEW Q, NEW q \in Seq(Q), q # <<>>, NEW r, r = Tail(q)
  PROVE  /\ r \in Seq(Q) /\ Head(q) \in Q /\ Head(q) = q[1] /\ Len(q) \in Nat /\ Len(r) \in Nat
         /\ Len(q) = Len(r) + 1 /\ \A i \in 1..Len(r) : r[i] = q[i + 1]
<1>1. r \in Seq(Q) /\ Head(q) = q[1] /\ Len(q) \in Nat /\ Len(q) > 0 /\ q[1] \in Q
  BY HeadTailProperties, EmptySeq, LenProperties, ElementOfSeq
<1>2. Len(r) = Len(q) - 1 /\ \A i \in 1..Len(r) : r[i] = q[i + 1]
  BY HeadTailProperties
<1> QED BY <1>1, <1>2

LEMMA Joined ==
  ASSUME NEW Q, NEW q \in Seq(Q), NEW r \in Seq(Q), NEW s, s = q \o r
  PROVE  /\ s \in Seq(Q) /\ Len(s) = Len(q) + Len(r) /\ Len(q) \in Nat /\ Len(r) \in Nat
         /\ \A i \in 1..Len(q) : s[i] = q[i]
         /\ \A i \in 1..Len(r) : s[Len(q) + i] = r[i]
<1>1. s \in Seq(Q) /\ Len(s) = Len(q) + Len(r) /\ Len(q) \in Nat /\ Len(r) \in Nat
  BY ConcatProperties, LenProperties
<1>2. \A i \in 1..Len(s) : s[i] = IF i <= Len(q) THEN q[i] ELSE r[i - Len(q)]
  BY ConcatProperties
<1> DEFINE m == Len(q)
           n == Len(r)
<1>3. \A i \in 1..n : m + i \in 1..Len(s) /\ ~(m + i <= m) /\ (m + i) - m = i
  BY <1>1
<1> QED BY <1>1, <1>2, <1>3

LEMMA AmongRest ==
  ASSUME NEW Q, NEW q \in Seq(Q), q # <<>>, NEW S
  PROVE  Among(q, S) <=> Head(q) \in S \/ Among(Tail(q), S)
<1> DEFINE r == Tail(q)
           n == Len(r)
<1>1. Len(q) = n + 1 /\ n \in Nat /\ Head(q) = q[1] /\ \A i \in 1..n : r[i] = q[i + 1]
  BY Rest
<1>2. \A i \in 1..(n + 1) : i = 1 \/ (i - 1 \in 1..n /\ r[i - 1] = q[i])
  BY <1>1
<1>3. \A i \in 1..n : i + 1 \in 1..(n + 1)
  BY <1>1
<1> HIDE DEF r, n
<1>4. Among(q, S) => Head(q) \in S \/ Among(r, S)
  BY <1>1, <1>2 DEF Among, n
<1>5. Head(q) \in S \/ Among(r, S) => Among(q, S)
  <2>1. 1 \in 1..(n + 1)
    BY <1>1
  <2> QED BY <2>1, <1>1, <1>3 DEF Among, n
<1> QED BY <1>4, <1>5 DEF r

LEMMA AmongJoined ==
  ASSUME NEW Q, NEW q \in Seq(Q), NEW r \in Seq(Q), NEW S
  PROVE  Among(q \o r, S) <=> Among(q, S) \/ Among(r, S)
<1> DEFINE s == q \o r
           m == Len(q)
           n == Len(r)
<1>1. /\ Len(s) = m + n /\ m \in Nat /\ n \in Nat /\ \A i \in 1..m : s[i] = q[i]
      /\ \A i \in 1..n : s[m + i] = r[i]
  BY Joined
<1> HIDE DEF s, m, n
<1>2. \A i \in 1..(m + n) : i \in 1..m \/ (i - m \in 1..n /\ s[i] = r[i - m])
  <2> SUFFICES ASSUME NEW i \in 1..(m + n), i \notin 1..m PROVE i - m \in 1..n /\ s[i] = r[i - m]
    OBVIOUS
  <2>1. i - m \in 1..n /\ m + (i - m) = i
    BY <1>1
  <2> QED BY <2>1, <1>1
<1>3. (\A i \in 1..m : i \in 1..(m + n)) /\ (\A i \in 1..n : m + i \in 1..(m + n))
  BY <1>1
<1>4. Among(s, S) => Among(q, S) \/ Among(r, S)
  BY <1>1, <1>2 DEF Among, m, n
<1>5. Among(q, S) \/ Among(r, S) => Among(s, S)
  BY <1>1, <1>3 DEF Among, m, n
<1> QED BY <1>4, <1>5 DEF s

LEMMA FollowedRest ==
  ASSUME NEW Q, NEW q \in Seq(Q), q # <<>>, NEW S, NEW T, Followed(q, S, T)
  PROVE  Followed(Tail(q), S, T) /\ (Head(q) \in S => Among(Tail(q), T))
<1> DEFINE r == Tail(q)
           n == Len(r)
<1>1. Len(q) = n + 1 /\ n \in Nat /\ Head(q) = q[1] /\ \A i \in 1..n : r[i] = q[i + 1]
  BY Rest
<1> HIDE DEF r, n
<1>2. Followed(r, S, T)
  <2> SUFFICES ASSUME NEW i \in 1..n, r[i] \in S PROVE \E j \in (i + 1)..n : r[j] \in T
    BY DEF Followed, n
  <2>1. i + 1 \in 1..(n + 1) /\ q[i + 1] \in S
    BY <1>1
  <2>2. PICK j \in ((i + 1) + 1)..(n + 1) : q[j] \in T
    BY <1>1, <2>1 DEF Followed
  <2>3. j - 1 \in (i + 1)..n /\ j - 1 \in 1..n /\ (j - 1) + 1 = j
    BY <1>1
  <2> QED BY <1>1, <2>2, <2>3
<1>3. ASSUME Head(q) \in S PROVE Among(r, T)
  <2>1. 1 \in 1..(n + 1)
    BY <1>1
  <2>2. PICK j \in (1 + 1)..(n + 1) : q[j] \in T
    BY <1>1, <1>3, <2>1 DEF Followed
  <2>3. j - 1 \in 1..n /\ (j - 1) + 1 = j
    BY <1>1
  <2> QED BY <1>1, <2>2, <2>3 DEF Among, n
<1> QED BY <1>2, <1>3 DEF r

LEMMA FollowedJoined ==
  ASSUME NEW Q, NEW q \in Seq(Q), NEW r \in Seq(Q), NEW S, NEW T,
         Followed(r, S, T), Followed(q, S, T) \/ Among(r, T)
  PROVE  Followed(q \o r, S, T)
<1> DEFINE s == q \o r
           m == Len(q)
           n == Len(r)
<1>1. /\ Len(s) = m + n /\ m \in Nat /\ n \in Nat /\ \A i \in 1..m : s[i] = q[i]
      /\ \A i \in 1..n : s[m + i] = r[i]
  BY Joined
<1> HIDE DEF s, m, n
<1> SUFFICES ASSUME NEW i \in 1..(m + n), s[i] \in S PROVE \E j \in (i + 1)..(m + n) : s[j] \in T
  BY <1>1 DEF Followed, s
<1>2. CASE i \in 1..m
  <2>1. q[i] \in S
    BY <1>1, <1>2
  <2>2. CASE Followed(q, S, T)
    <3>1. PICK j \in (i + 1)..m : q[j] \in T
      BY <1>2, <2>1, <2>2 DEF Followed, m
    <3>2. j \in (i + 1)..(m + n) /\ j \in 1..m
      BY <1>1, <1>2
    <3> QED BY <1>1, <3>1, <3>2
  <2>3. CASE Among(r, T)
    <3>1. PICK j \in 1..n : r[j] \in T
      BY <2>3 DEF Among, n
    <3>2. m + j \in (i + 1)..(m + n)
      BY <1>1, <1>2
    <3> QED BY <1>1, <3>1, <3>2
  <2> QED BY <2>2, <2>3
<1>3. CASE i \notin 1..m
  <2>1. i - m \in 1..n /\ m + (i - m) = i
    BY <1>1, <1>3
  <2>2. r[i - m] \in S
    BY <1>1, <2>1
  <2>3. PICK j \in ((i - m) + 1)..n : r[j] \in T
    BY <2>1, <2>2 DEF Followed, n
  <2>4. m + j \in (i + 1)..(m + n) /\ j \in 1..n
    BY <1>1, <2>1
  <2> QED BY <1>1, <2>3, <2>4
<1> QED BY <1>2, <1>3

LEMMA NotBeforeRest ==
  ASSUME NEW Q, NEW q \in Seq(Q), q # <<>>, NEW S, NEW T, NotBefore(q, S, T)
  PROVE  NotBefore(Tail(q), S, T) /\ (Head(q) \in S => ~Among(Tail(q), T))
<1> DEFINE r == Tail(q)
           n == Len(r)
<1>1. Len(q) = n + 1 /\ n \in Nat /\ Head(q) = q[1] /\ \A i \in 1..n : r[i] = q[i + 1]
  BY Rest
<1> HIDE DEF r, n
<1>2. ASSUME NEW i \in 1..n, r[i] \in T
      PROVE  Head(q) \notin S /\ \A j \in 1..(i - 1) : r[j] \notin S
  <2>1. i + 1 \in 1..(n + 1) /\ q[i + 1] \in T /\ (i + 1) - 1 = i
    BY <1>1, <1>2
  <2>2. \A j \in 1..i : q[j] \notin S
    BY <1>1, <2>1 DEF NotBefore
  <2>3. 1 \in 1..i /\ \A j \in 1..(i - 1) : j + 1 \in 1..i /\ j \in 1..n
    BY <1>1
  <2> QED BY <1>1, <2>2, <2>3
<1> QED BY <1>2 DEF r, n, NotBefore, Among

LEMMA NotBeforeJoined ==
  ASSUME NEW Q, NEW q \in Seq(Q), NEW r \in Seq(Q), NEW S, NEW T,
         NotBefore(q, S, T), NotBefore(r, S, T), ~Among(q, S) \/ ~Among(r, T)
  PROVE  NotBefore(q \o r, S, T)
<1> DEFINE s == q \o r
           m == Len(q)
           n == Len(r)
<1>1. /\ Len(s) = m + n /\ m \in Nat /\ n \in Nat /\ \A i \in 1..m : s[i] = q[i]
      /\ \A i \in 1..n : s[m + i] = r[i]
  BY Joined
<1> HIDE DEF s, m, n
<1> SUFFICES ASSUME NEW i \in 1..(m + n), s[i] \in T, NEW j \in 1..(i - 1) PROVE s[j] \notin S
  BY <1>1 DEF NotBefore, s
<1>2. CASE i \in 1..m
  <2>1. j \in 1..m /\ q[i] \in T
    BY <1>1, <1>2
  <2> QED BY <1>1, <1>2, <2>1 DEF NotBefore, m
<1>3. CASE i \notin 1..m
  <2>1. i - m \in 1..n /\ m + (i - m) = i
    BY <1>1, <1>3
  <2>2. r[i - m] \in T
    BY <1>1, <2>1
  <2>3. CASE j \in 1..m
    <3>1. Among(r, T)
      BY <2>1, <2>2 DEF Among, n
    <3> QED BY <1>1, <2>3, <3>1 DEF Among, m
  <2>4. CASE j \notin 1..m
    <3>1. j - m \in 1..((i - m) - 1) /\ m + (j - m) = j /\ j - m \in 1..n
      BY <1>1, <2>1, <2>4
    <3>2. r[j - m] \notin S
      BY <2>1, <2>2, <3>1 DEF NotBefore, n
    <3> QED BY <1>1, <3>1, <3>2
  <2> QED BY <2>3, <2>4
<1> QED BY <1>2, <1>3

LEMMA SingleRest ==
  ASSUME NEW Q, NEW q \in Seq(Q), q # <<>>, NEW S, Single(q, S)
  PROVE  Single(Tail(q), S) /\ (Head(q) \in S => ~Among(Tail(q), S))
<1> DEFINE r == Tail(q)
           n == Len(r)
<1>1. Len(q) = n + 1 /\ n \in Nat /\ Head(q) = q[1] /\ \A i \in 1..n : r[i] = q[i + 1]
  BY Rest
<1>2. 1 \in 1..(n + 1) /\ \A i \in 1..n : i + 1 \in 1..(n + 1) /\ i + 1 # 1
  BY <1>1
<1> HIDE DEF r, n
<1>3. ASSUME NEW i \in 1..n, NEW j \in 1..n, r[i] \in S, r[j] \in S PROVE i = j
  <2>1. i + 1 = j + 1
    BY <1>1, <1>2, <1>3 DEF Single
  <2> QED BY <1>1, <2>1
<1>4. ASSUME Head(q) \in S, NEW i \in 1..n, r[i] \in S PROVE FALSE
  BY <1>1, <1>2, <1>4 DEF Single
<1> QED BY <1>3, <1>4 DEF r, n, Single, Among

LEMMA SingleJoined ==
  ASSUME NEW Q, NEW q \in Seq(Q), NEW r \in Seq(Q), NEW S,
         Single(q, S), Single(r, S), ~Among(q, S) \/ ~Among(r, S)
  PROVE  Single(q \o r, S)
<1> DEFINE s == q \o r
           m == Len(q)
           n == Len(r)
<1>1. /\ Len(s) = m + n /\ m \in Nat /\ n \in Nat /\ \A i \in 1..m : s[i] = q[i]
      /\ \A i \in 1..n : s[m + i] = r[i]
  BY Joined
<1> HIDE DEF s, m, n
<1>2. \A i \in 1..(m + n) : i \in 1..m \/ (i - m \in 1..n /\ s[i] = r[i - m])
  <2> SUFFICES ASSUME NEW i \in 1..(m + n), i \notin 1..m PROVE i - m \in 1..n /\ s[i] = r[i - m]
    OBVIOUS
  <2>1. i - m \in 1..n /\ m + (i - m) = i
    BY <1>1
  <2> QED BY <2>1, <1>1
<1> SUFFICES ASSUME NEW i \in 1..(m + n), NEW j \in 1..(m + n), s[i] \in S, s[j] \in S PROVE i = j
  BY <1>1 DEF Single, s
<1>3. CASE i \in 1..m /\ j \in 1..m
  BY <1>1, <1>3 DEF Single, m
<1>4. CASE i \notin 1..m /\ j \notin 1..m
  <2>1. i - m = j - m
    BY <1>2, <1>4 DEF Single, n
  <2> QED BY <1>1, <2>1
<1>5. CASE ~(i \in 1..m <=> j \in 1..m)
  BY <1>1, <1>2, <1>5 DEF Among, m, n
<1> QED BY <1>3, <1>4, <1>5

LEMMA ComesRest ==
  ASSUME NEW Q, NEW q \in Seq(Q), q # <<>>, NEW S, NEW T, NEW on
  PROVE  /\ \A n \in 0..Len(Tail(q)) : Comes(q, n + 1, S, T, on) => Comes(Tail(q), n, S, T, on)
         /\ Comes(q, 0, S, T, on) => Head(q) \notin S /\ (Head(q) \notin T => Comes(Tail(q), 0, S, T, on))
<1> DEFINE r == Tail(q)
           n == Len(r)
<1>1. Len(q) = n + 1 /\ n \in Nat /\ Head(q) = q[1] /\ \A i \in 1..n : r[i] = q[i + 1]
  BY Rest
<1> HIDE DEF r, n
<1>2. ASSUME NEW k \in 0..n, Comes(q, k + 1, S, T, on) PROVE Comes(r, k, S, T, on)
  <2>1. ASSUME NEW i \in (k + 1)..n, r[i] \in S PROVE \E j \in (k + 1)..(i - 1) : r[j] \in T
    <3>1. i + 1 \in ((k + 1) + 1)..(n + 1) /\ q[i + 1] \in S
      BY <1>1, <2>1
    <3>2. PICK j \in ((k + 1) + 1)..((i + 1) - 1) : q[j] \in T
      BY <1>1, <1>2, <3>1 DEF Comes
    <3>3. j - 1 \in (k + 1)..(i - 1) /\ j - 1 \in 1..n /\ (j - 1) + 1 = j
      BY <1>1
    <3> QED BY <1>1, <3>2, <3>3
  <2>2. ASSUME on PROVE \E i \in (k + 1)..n : r[i] \in T
    <3>1. PICK j \in ((k + 1) + 1)..(n + 1) : q[j] \in T
      BY <1>1, <1>2, <2>2 DEF Comes
    <3>2. j - 1 \in (k + 1)..n /\ j - 1 \in 1..n /\ (j - 1) + 1 = j
      BY <1>1
    <3> QED BY <1>1, <3>1, <3>2
  <2> QED BY <2>1, <2>2 DEF Comes, n
<1>3. ASSUME Comes(q, 0, S, T, on) PROVE Head(q) \notin S
  <2>1. 1 \in (0 + 1)..(n + 1) /\ \A j \in (0 + 1)..(1 - 1) : FALSE
    BY <1>1
  <2> QED BY <1>1, <1>3, <2>1 DEF Comes
<1>4. ASSUME Comes(q, 0, S, T, on), Head(q) \notin T PROVE Comes(q, 0 + 1, S, T, on)
  <2>1. ASSUME NEW i \in ((0 + 1) + 1)..(n + 1), q[i] \in S
        PROVE  \E j \in ((0 + 1) + 1)..(i - 1) : q[j] \in T
    <3>1. PICK j \in (0 + 1)..(i - 1) : q[j] \in T
      <4>1. i \in (0 + 1)..(n + 1)
        BY <1>1
      <4> QED BY <4>1, <1>1, <1>4, <2>1 DEF Comes
    <3>2. j # 1
      BY <1>1, <1>4, <3>1
    <3>3. j \in ((0 + 1) + 1)..(i - 1)
      BY <1>1, <3>2
    <3> QED BY <3>1, <3>3
  <2>2. ASSUME on PROVE \E i \in ((0 + 1) + 1)..(n + 1) : q[i] \in T
    <3>1. PICK j \in (0 + 1)..(n + 1) : q[j] \in T
      BY <1>1, <1>4, <2>2 DEF Comes
    <3>2. j # 1
      BY <1>1, <1>4, <3>1
    <3>3. j \in ((0 + 1) + 1)..(n + 1)
      BY <1>1, <3>2
    <3> QED BY <3>1, <3>3
  <2> QED BY <1>1, <2>1, <2>2 DEF Comes
<1>5. 0 \in 0..n
  BY <1>1
<1> QED BY <1>2, <1>3, <1>4, <1>5 DEF r, n

LEMMA ComesAfterRest ==
  ASSUME NEW Q, NEW q \in Seq(Q), q # <<>>, NEW H, NEW S, NEW T, NEW on, ComesAfter(q, H, S, T, on)
  PROVE  ComesAfter(Tail(q), H, S, T, on) /\ (Head(q) \in H => Comes(Tail(q), 0, S, T, on))
<1> DEFINE r == Tail(q)
           n == Len(r)
<1>1. Len(q) = n + 1 /\ n \in Nat /\ Head(q) = q[1] /\ \A i \in 1..n : r[i] = q[i + 1]
  BY Rest
<1>2. \A k \in 0..n : Comes(q, k + 1, S, T, on) => Comes(r, k, S, T, on)
  BY ComesRest
<1> HIDE DEF r, n
<1>3. \A i \in 1..n : i + 1 \in 1..(n + 1) /\ i \in 0..n
  BY <1>1
<1>4. 1 \in 1..(n + 1) /\ 0 \in 0..n /\ 0 + 1 = 1
  BY <1>1
<1>5. ComesAfter(r, H, S, T, on)
  BY <1>1, <1>2, <1>3 DEF ComesAfter, n
<1>6. Head(q) \in H => Comes(q, 0 + 1, S, T, on)
  BY <1>1, <1>4 DEF ComesAfter
<1> QED BY <1>2, <1>4, <1>5, <1>6 DEF r

LEMMA ComesJoined ==
  ASSUME NEW Q, NEW q \in Seq(Q), NEW r \in Seq(Q), NEW S, NEW T, NEW a, NEW b,
         Among(r, S) => a, b => a \/ Among(r, T),
         NEW k \in 0..Len(q), Comes(q, k, S, T, a)
  PROVE  Comes(q \o r, k, S, T, b)
<1> DEFINE s == q \o r
           m == Len(q)
           n == Len(r)
<1>1. /\ Len(s) = m + n /\ m \in Nat /\ n \in Nat /\ \A i \in 1..m : s[i] = q[i]
      /\ \A i \in 1..n : s[m + i] = r[i]
  BY Joined
<1>0. k \in 0..m
  OBVIOUS
<1> HIDE DEF s, m, n
<1>2. ASSUME a PROVE \E i \in (k + 1)..m : s[i] \in T
  <2>1. PICK i \in (k + 1)..m : q[i] \in T
    BY <1>2 DEF Comes, m
  <2>2. i \in 1..m
    BY <1>0, <1>1
  <2> QED BY <1>1, <2>1, <2>2
<1>3. ASSUME NEW i \in (k + 1)..(m + n), s[i] \in S
      PROVE  \E j \in (k + 1)..(i - 1) : s[j] \in T
  <2>1. CASE i \in 1..m
    <3>1. i \in (k + 1)..m /\ q[i] \in S
      BY <1>0, <1>1, <1>3, <2>1
    <3>2. PICK j \in (k + 1)..(i - 1) : q[j] \in T
      BY <3>1 DEF Comes, m
    <3>3. j \in 1..m
      BY <1>0, <1>1, <2>1
    <3> QED BY <1>1, <3>2, <3>3
  <2>2. CASE i \notin 1..m
    <3>1. i - m \in 1..n /\ m + (i - m) = i
      BY <1>0, <1>1, <2>2
    <3>2. Among(r, S)
      BY <1>1, <1>3, <3>1 DEF Among, n
    <3>3. PICK j \in (k + 1)..m : s[j] \in T
      BY <1>2, <3>2
    <3>4. j \in (k + 1)..(i - 1)
      BY <1>0, <1>1, <2>2
    <3> QED BY <3>3, <3>4
  <2> QED BY <2>1, <2>2
<1>4. ASSUME b PROVE \E i \in (k + 1)..(m + n) : s[i] \in T
  <2>1. CASE a
    <3>1. PICK i \in (k + 1)..m : s[i] \in T
      BY <1>2, <2>1
    <3>2. i \in (k + 1)..(m + n)
      BY <1>0, <1>1
    <3> QED BY <3>1, <3>2
  <2>2. CASE Among(r, T)
    <3>1. PICK i \in 1..n : r[i] \in T
      BY <2>2 DEF Among, n
    <3>2. m + i \in (k + 1)..(m + n)
      BY <1>0, <1>1
    <3> QED BY <1>1, <3>1, <3>2
  <2> QED BY <1>4, <2>1, <2>2
<1> QED BY <1>1, <1>3, <1>4 DEF Comes, s

LEMMA ComesAfterJoined ==
  ASSUME NEW Q, NEW q \in Seq(Q), NEW r \in Seq(Q), NEW H, NEW S, NEW T, NEW a, NEW b,
         Among(r, S) => a, b => a \/ Among(r, T), Among(r, H) => ~b /\ ~Among(r, S),
         ComesAfter(q, H, S, T, a)
  PROVE  ComesAfter(q \o r, H, S, T, b)
<1> DEFINE s == q \o r
           m == Len(q)
           n == Len(r)
<1>1. /\ Len(s) = m + n /\ m \in Nat /\ n \in Nat /\ \A i \in 1..m : s[i] = q[i]
      /\ \A i \in 1..n : s[m + i] = r[i]
  BY Joined
<1>2. \A k \in 0..m : Comes(q, k, S, T, a) => Comes(s, k, S, T, b)
  BY ComesJoined
<1> HIDE DEF s, m, n
<1> SUFFICES ASSUME NEW i \in 1..(m + n), s[i] \in H PROVE Comes(s, i, S, T, b)
  BY <1>1 DEF ComesAfter, s
<1>3. CASE i \in 1..m
  <2>1. q[i] \in H /\ i \in 0..m
    BY <1>1, <1>3
  <2>2. Comes(q, i, S, T, a)
    BY <1>3, <2>1 DEF ComesAfter, m
  <2> QED BY <1>2, <2>1, <2>2
<1>4. CASE i \notin 1..m
  <2>1. i - m \in 1..n /\ m + (i - m) = i
    BY <1>1, <1>4
  <2>2. Among(r, H)
    BY <1>1, <2>1 DEF Among, n
  <2>3. ASSUME NEW j \in (i + 1)..(m + n) PROVE s[j] \notin S
    <3>1. j - m \in 1..n /\ m + (j - m) = j
      BY <1>1, <1>4
    <3> QED BY <1>1, <2>2, <3>1 DEF Among, n
  <2> QED BY <1>1, <2>2, <2>3 DEF Comes
<1> QED BY <1>3, <1>4

\* The program with another value of a field.
AndKnown(s, k, l) == [s EXCEPT !.known[k] = l]
AndOwn(s, k, b) == [s EXCEPT !.own[k] = b]
AndToggle(s, k, b) == [s EXCEPT !.toggle[k] = b]
AndBlocks(s, k, n) == [s EXCEPT !.blocks[k] = n]
AndAlive(s, b) == [s EXCEPT !.alive = b]
AndCm(s, b) == [s EXCEPT !.cm = b]

LEMMA ProgramFields ==
  ASSUME NEW s \in Programs
  PROVE  /\ s.alive \in BOOLEAN /\ s.cm \in BOOLEAN /\ s.known \in [Keys -> Lists]
         /\ s.own \in [Keys -> BOOLEAN] /\ s.toggle \in [Switched -> BOOLEAN]
         /\ s.blocks \in [Switched -> Nat]
BY DEF Programs

\* A list says one thing.
LEMMA SaysIs ==
  ASSUME NEW s, NEW k
  PROVE  /\ Says(s, k) \in BOOLEAN
         /\ \A b \in BOOLEAN : s.known[k] = {b} => Says(s, k) = b
         /\ s.known[k] = Null => Says(s, k) = FALSE
         /\ \A t : t.known[k] = s.known[k] => Says(t, k) = Says(s, k)
<1>1. Says(s, k) \in BOOLEAN
  BY DEF Says
<1>2. ASSUME s.known[k] = Null
      PROVE  Says(s, k) = FALSE
  <2>1. ~Says(s, k)
    BY <1>2 DEF Says, Null
  <2> QED BY <1>1, <2>1
<1>3. ASSUME NEW b \in BOOLEAN, s.known[k] = {b}
      PROVE  Says(s, k) = b
  <2>1. Says(s, k) <=> b
    <3>1. CASE b = TRUE
      BY <1>3, <3>1 DEF Says
    <3>2. CASE b = FALSE
      <4>1. b # TRUE
        BY <3>2
      <4>2. TRUE \notin {b}
        BY <4>1
      <4>3. ~Says(s, k)
        BY <1>3, <4>2 DEF Says
      <4> QED BY <3>2, <4>3
    <3> QED BY <3>1, <3>2
  <2> QED BY <1>1, <2>1
<1>4. ASSUME NEW t, t.known[k] = s.known[k]
      PROVE  Says(t, k) = Says(s, k)
  <2>1. Says(t, k) <=> Says(s, k)
    BY <1>4 DEF Says
  <2>2. Says(t, k) \in BOOLEAN
    BY DEF Says
  <2> QED BY <1>1, <2>1, <2>2
<1> QED BY <1>1, <1>2, <1>3, <1>4

LEMMA SaysOf ==
  ASSUME NEW s, NEW k, NEW b \in BOOLEAN, s.known[k] = {b}
  PROVE  Says(s, k) = b
BY SaysIs

LEMMA SaysSame ==
  ASSUME NEW s, NEW t, NEW k, t.known[k] = s.known[k]
  PROVE  Says(t, k) = Says(s, k)
BY SaysIs

LEMMA ListOf ==
  ASSUME NEW b \in BOOLEAN
  PROVE  {b} # Null /\ {b} \in Lists /\ \A c \in BOOLEAN : {c} = {b} => c = b
<1>1. b \in {b}
  OBVIOUS
<1>2. {b} # Null
  BY <1>1 DEF Null
<1>3. {b} \in {{TRUE}, {FALSE}}
  <2>1. CASE b = TRUE
    BY <2>1
  <2>2. CASE b = FALSE
    BY <2>2
  <2> QED BY <2>1, <2>2
<1>4. \A c \in BOOLEAN : {c} = {b} => c = b
  <2> SUFFICES ASSUME NEW c \in BOOLEAN, {c} = {b} PROVE c = b
    OBVIOUS
  <2>1. c \in {c}
    OBVIOUS
  <2> QED BY <2>1
<1> QED BY <1>2, <1>3, <1>4 DEF Lists

LEMMA SetKnown ==
  ASSUME NEW s \in Programs, NEW k \in Keys, NEW l \in Lists
  PROVE  /\ AndKnown(s, k, l) \in Programs /\ AndKnown(s, k, l).known = [s.known EXCEPT ![k] = l]
         /\ AndKnown(s, k, l).alive = s.alive /\ AndKnown(s, k, l).cm = s.cm
         /\ AndKnown(s, k, l).own = s.own /\ AndKnown(s, k, l).toggle = s.toggle
         /\ AndKnown(s, k, l).blocks = s.blocks
<1> DEFINE f == [s.known EXCEPT ![k] = l]
           t == AndKnown(s, k, l)
<1>1. f \in [Keys -> Lists] /\ f[k] = l
  BY ProgramFields
<1>2. t = [s EXCEPT !.known = f]
  BY DEF AndKnown
<1> HIDE DEF f, t
<1>3. t \in Programs
  BY <1>1, <1>2 DEF Programs
<1>4. /\ t.known = f /\ t.alive = s.alive /\ t.cm = s.cm
      /\ t.own = s.own /\ t.toggle = s.toggle /\ t.blocks = s.blocks
  BY <1>2 DEF Programs
<1> QED BY <1>1, <1>3, <1>4 DEF f, t

LEMMA SetOwn ==
  ASSUME NEW s \in Programs, NEW k \in Keys, NEW b \in BOOLEAN
  PROVE  /\ AndOwn(s, k, b) \in Programs /\ AndOwn(s, k, b).own = [s.own EXCEPT ![k] = b]
         /\ AndOwn(s, k, b).alive = s.alive /\ AndOwn(s, k, b).cm = s.cm
         /\ AndOwn(s, k, b).known = s.known /\ AndOwn(s, k, b).toggle = s.toggle
         /\ AndOwn(s, k, b).blocks = s.blocks
<1> DEFINE f == [s.own EXCEPT ![k] = b]
           t == AndOwn(s, k, b)
<1>1. f \in [Keys -> BOOLEAN] /\ f[k] = b
  BY ProgramFields
<1>2. t = [s EXCEPT !.own = f]
  BY DEF AndOwn
<1> HIDE DEF f, t
<1>3. t \in Programs
  BY <1>1, <1>2 DEF Programs
<1>4. /\ t.own = f /\ t.alive = s.alive /\ t.cm = s.cm
      /\ t.known = s.known /\ t.toggle = s.toggle /\ t.blocks = s.blocks
  BY <1>2 DEF Programs
<1> QED BY <1>1, <1>3, <1>4 DEF f, t

LEMMA SetToggle ==
  ASSUME NEW s \in Programs, NEW k \in Switched, NEW b \in BOOLEAN
  PROVE  /\ AndToggle(s, k, b) \in Programs /\ AndToggle(s, k, b).toggle = [s.toggle EXCEPT ![k] = b]
         /\ AndToggle(s, k, b).alive = s.alive /\ AndToggle(s, k, b).cm = s.cm
         /\ AndToggle(s, k, b).known = s.known /\ AndToggle(s, k, b).own = s.own
         /\ AndToggle(s, k, b).blocks = s.blocks
<1> DEFINE f == [s.toggle EXCEPT ![k] = b]
           t == AndToggle(s, k, b)
<1>1. f \in [Switched -> BOOLEAN] /\ f[k] = b
  BY ProgramFields
<1>2. t = [s EXCEPT !.toggle = f]
  BY DEF AndToggle
<1> HIDE DEF f, t
<1>3. t \in Programs
  BY <1>1, <1>2 DEF Programs
<1>4. /\ t.toggle = f /\ t.alive = s.alive /\ t.cm = s.cm
      /\ t.known = s.known /\ t.own = s.own /\ t.blocks = s.blocks
  BY <1>2 DEF Programs
<1> QED BY <1>1, <1>3, <1>4 DEF f, t

LEMMA SetBlocks ==
  ASSUME NEW s \in Programs, NEW k \in Switched, NEW n \in Nat
  PROVE  /\ AndBlocks(s, k, n) \in Programs /\ AndBlocks(s, k, n).blocks = [s.blocks EXCEPT ![k] = n]
         /\ AndBlocks(s, k, n).alive = s.alive /\ AndBlocks(s, k, n).cm = s.cm
         /\ AndBlocks(s, k, n).known = s.known /\ AndBlocks(s, k, n).own = s.own
         /\ AndBlocks(s, k, n).toggle = s.toggle
<1> DEFINE f == [s.blocks EXCEPT ![k] = n]
           t == AndBlocks(s, k, n)
<1>1. f \in [Switched -> Nat] /\ f[k] = n
  BY ProgramFields
<1>2. t = [s EXCEPT !.blocks = f]
  BY DEF AndBlocks
<1> HIDE DEF f, t
<1>3. t \in Programs
  BY <1>1, <1>2 DEF Programs
<1>4. /\ t.blocks = f /\ t.alive = s.alive /\ t.cm = s.cm
      /\ t.known = s.known /\ t.own = s.own /\ t.toggle = s.toggle
  BY <1>2 DEF Programs
<1> QED BY <1>1, <1>3, <1>4 DEF f, t

LEMMA SetFlags ==
  ASSUME NEW s \in Programs, NEW b \in BOOLEAN
  PROVE  /\ AndAlive(s, b) \in Programs /\ AndAlive(s, b).alive = b
         /\ AndAlive(s, b).blocks = s.blocks
         /\ AndCm(s, b) \in Programs /\ AndCm(s, b).cm = b
         /\ AndCm(s, b).alive = s.alive /\ AndCm(s, b).known = s.known
         /\ AndCm(s, b).own = s.own /\ AndCm(s, b).toggle = s.toggle
         /\ AndCm(s, b).blocks = s.blocks
BY DEF Programs, AndAlive, AndCm

\* What a property of connman's makes of a program.
TileTakes(s, k, b, t) ==
  /\ t \in Programs /\ t.alive /\ t.cm = s.cm /\ t.blocks = s.blocks
  /\ t.known = [s.known EXCEPT ![k] = {b}]
  /\ t.own = IF k = "have" /\ s.known[k] # {b} THEN [s.own EXCEPT ![k] = b] ELSE s.own
  /\ t.toggle = IF k \in Switched /\ s.known[k] # {b} THEN [s.toggle EXCEPT ![k] = b]
                ELSE s.toggle
ShellTakes(s, k, b, t) ==
  /\ t \in Programs /\ t.alive /\ t.cm = s.cm /\ t.blocks = s.blocks
  /\ t.known = [s.known EXCEPT ![k] = {b}]
  /\ t.own = IF k = "offline" THEN s.own ELSE [s.own EXCEPT ![k] = b]
  /\ t.toggle = IF k # "offline" /\ s.own[k] # b THEN [s.toggle EXCEPT !["tech"] = t.own["tech"]]
                ELSE s.toggle
PaneTakes(s, k, b, t) ==
  /\ t \in Programs /\ t.alive /\ t.cm = s.cm /\ t.blocks = s.blocks
  /\ t.own = [s.own EXCEPT ![k] = b]
  /\ t.toggle = IF k \in Switched THEN [s.toggle EXCEPT ![k] = b] ELSE s.toggle
AfterVanished(s, t) ==
  /\ t \in Programs /\ t.blocks = s.blocks
  /\ t.alive => /\ s.known["have"] = Null /\ s.known["tech"] = Null
                /\ t = AndCm(s, FALSE)
AfterEnabled(s, t) ==
  /\ t \in Programs /\ t.blocks = s.blocks
  /\ s.known["tech"] = Null => ~t.alive
  /\ ui = "tile" /\ t.alive => t = AndToggle(s, "tech", Says(s, "tech"))
  /\ ui = "bluetooth" /\ t.alive /\ ShellFits(s) => t = s

\* A property of connman's as the tile's program takes it.
LEMMA TileProperty ==
  ASSUME NEW s \in Programs, s.alive, ui = "tile", NEW k \in Keys, NEW b \in BOOLEAN
  PROVE  TileTakes(s, k, b, Property(s, k, b))
<1> DEFINE t == Property(s, k, b)
           u == AndKnown(s, k, {b})
<1>1. {b} # Null /\ {b} \in Lists
  BY ListOf
<1>0. /\ u \in Programs /\ u.known = [s.known EXCEPT ![k] = {b}]
      /\ u.alive = s.alive /\ u.cm = s.cm /\ u.own = s.own /\ u.toggle = s.toggle
      /\ u.blocks = s.blocks
  BY <1>1, SetKnown
<1> HIDE DEF u
<1>2. /\ u \in Programs /\ u.known = [s.known EXCEPT ![k] = {b}] /\ u.known[k] = {b}
      /\ u.alive /\ u.cm = s.cm /\ u.own = s.own /\ u.toggle = s.toggle /\ u.blocks = s.blocks
  BY <1>0, ProgramFields
<1>9. u \in Programs /\ u.known[k] = {b}
  BY <1>2
<1>3. Says(u, k) = b
  BY <1>9, SaysIs
<1>4. t = ManagerSets(s, k, {b})
  BY DEF Property
<1> SUFFICES TileTakes(s, k, b, t)
  OBVIOUS
<1> HIDE DEF t
<1>5. CASE s.known[k] = {b}
  <2>1. t = s
    BY <1>4, <1>5 DEF ManagerSets
  <2> QED BY <1>5, <2>1, ProgramFields DEF TileTakes
<1>6. CASE s.known[k] # {b}
  <2>1. CASE k = "have"
    <3>1. t = Available(u)
      BY <1>4, <1>6, <2>1 DEF ManagerSets, AndKnown, u
    <3>2. t = AndOwn(u, "have", b)
      BY <1>1, <1>2, <1>3, <2>1, <3>1 DEF Available, NullListEndsIt, AndOwn
    <3>3. /\ t \in Programs /\ t.own = [u.own EXCEPT !["have"] = b]
          /\ t.alive = u.alive /\ t.cm = u.cm /\ t.known = u.known /\ t.toggle = u.toggle
          /\ t.blocks = u.blocks
      BY <1>9, <2>1, <3>2, SetOwn
    <3> QED BY <1>2, <1>6, <2>1, <3>3 DEF Switched, TileTakes
  <2>2. CASE k = "tech"
    <3>1. t = Enabled(u)
      BY <1>4, <1>6, <2>2 DEF ManagerSets, AndKnown, u
    <3>2. t = AndToggle(u, "tech", b)
      BY <1>1, <1>2, <1>3, <2>2, <3>1 DEF Enabled, NullListEndsIt, AndToggle
    <3>3. /\ t \in Programs /\ t.toggle = [u.toggle EXCEPT !["tech"] = b]
          /\ t.alive = u.alive /\ t.cm = u.cm /\ t.known = u.known /\ t.own = u.own
          /\ t.blocks = u.blocks
      BY <1>9, <2>2, <3>2, SetToggle DEF Switched
    <3> QED BY <1>2, <1>6, <2>2, <3>3 DEF Switched, TileTakes
  <2>3. CASE k = "offline"
    <3>1. t = Offline(u)
      BY <1>4, <1>6, <2>3 DEF ManagerSets, AndKnown, u
    <3>2. t = AndToggle(u, "offline", b)
      BY <1>3, <2>3, <3>1 DEF Offline, AndToggle
    <3>3. /\ t \in Programs /\ t.toggle = [u.toggle EXCEPT !["offline"] = b]
          /\ t.alive = u.alive /\ t.cm = u.cm /\ t.known = u.known /\ t.own = u.own
          /\ t.blocks = u.blocks
      BY <1>9, <2>3, <3>2, SetToggle DEF Switched
    <3> QED BY <1>2, <1>6, <2>3, <3>3 DEF Switched, TileTakes
  <2> QED BY <2>1, <2>2, <2>3 DEF Keys
<1> QED BY <1>5, <1>6

LEMMA UpdateFields ==
  ASSUME NEW s \in Programs
  PROVE  LET t == UpdateShell(s)
         IN /\ t \in Programs /\ t.toggle = [s.toggle EXCEPT !["tech"] = s.own["tech"]]
            /\ t.alive = s.alive /\ t.cm = s.cm /\ t.known = s.known /\ t.own = s.own
            /\ t.blocks = s.blocks
<1>1. s.own["tech"] \in BOOLEAN /\ "tech" \in Switched
  BY ProgramFields DEF Keys, Switched
<1>2. UpdateShell(s) = AndToggle(s, "tech", s.own["tech"])
  BY DEF UpdateShell, AndToggle
<1> QED BY <1>1, <1>2, SetToggle

\* The same for the Bluetooth panel's.
LEMMA ShellProperty ==
  ASSUME NEW s \in Programs, s.alive, ui = "bluetooth", NEW k \in Keys, NEW b \in BOOLEAN, ShellFits(s)
  PROVE  ShellTakes(s, k, b, Property(s, k, b))
<1> DEFINE t == Property(s, k, b)
           u == AndKnown(s, k, {b})
<1>1. {b} # Null /\ {b} \in Lists
  BY ListOf
<1>0. /\ u \in Programs /\ u.known = [s.known EXCEPT ![k] = {b}]
      /\ u.alive = s.alive /\ u.cm = s.cm /\ u.own = s.own /\ u.toggle = s.toggle
      /\ u.blocks = s.blocks
  BY <1>1, SetKnown
<1> HIDE DEF u
<1>2. /\ u \in Programs /\ u.known = [s.known EXCEPT ![k] = {b}] /\ u.known[k] = {b}
      /\ u.alive /\ u.cm = s.cm /\ u.own = s.own /\ u.toggle = s.toggle /\ u.blocks = s.blocks
  BY <1>0, ProgramFields
<1>9. u \in Programs /\ u.known[k] = {b}
  BY <1>2
<1>3. Says(u, k) = b
  BY <1>9, SaysIs
<1>4. t = ManagerSets(s, k, {b})
  BY DEF Property
<1> SUFFICES ShellTakes(s, k, b, t)
  OBVIOUS
<1> HIDE DEF t
<1>5. k = "have" \/ k = "tech" \/ k = "offline"
  BY DEF Keys
<1>6. s.own \in [Keys -> BOOLEAN] /\ s.toggle \in [Switched -> BOOLEAN]
      /\ s.known \in [Keys -> Lists]
  BY ProgramFields
<1>7. CASE s.known[k] = {b}
  <2>1. t = s
    BY <1>4, <1>7 DEF ManagerSets
  <2>2. Says(s, k) = b
    BY <1>7, SaysIs
  <2>3. k # "offline" => s.own[k] = b
    BY <1>5, <2>2 DEF ShellFits
  <2>4. (k # "offline" => [s.own EXCEPT ![k] = b] = s.own) /\ [s.known EXCEPT ![k] = {b}] = s.known
    BY <1>6, <1>7, <2>3
  <2> QED BY <1>5, <2>1, <2>3, <2>4 DEF ShellTakes
<1>8. CASE s.known[k] # {b}
  <2>1. CASE k = "offline"
    <3>1. t = u
      BY <1>4, <1>8, <2>1 DEF ManagerSets, Offline, AndKnown, u
    <3> QED BY <1>2, <2>1, <3>1 DEF ShellTakes
  <2>2. CASE k # "offline"
    <3> DEFINE v == AndOwn(u, k, b)
    <3>1. t = IF k = "have" THEN Available(u) ELSE Enabled(u)
      BY <1>4, <1>5, <1>8, <2>2 DEF ManagerSets, AndKnown, u
    <3>0. /\ v \in Programs /\ v.own = [u.own EXCEPT ![k] = b]
          /\ v.alive = u.alive /\ v.cm = u.cm /\ v.known = u.known /\ v.toggle = u.toggle
          /\ v.blocks = u.blocks
      BY <1>9, SetOwn
    <3>2. v.own[k] = b
      BY <1>2, <1>6, <3>0
    <3>3. t = IF b # u.own[k] THEN UpdateShell(v) ELSE IF k = "have" THEN v ELSE u
      BY <1>1, <1>2, <1>3, <1>5, <2>2, <3>0, <3>1, <3>2 DEF Available, Enabled, NullListEndsIt, AndOwn
    <3> HIDE DEF v
    <3>4. CASE b # u.own[k]
      <4>1. t = UpdateShell(v)
        BY <3>3, <3>4
      <4>2. /\ t \in Programs /\ t.toggle = [v.toggle EXCEPT !["tech"] = v.own["tech"]]
            /\ t.alive = v.alive /\ t.cm = v.cm /\ t.known = v.known /\ t.own = v.own
            /\ t.blocks = v.blocks
        BY <3>0, <4>1, UpdateFields
      <4> QED BY <1>2, <2>2, <3>0, <3>2, <3>4, <4>2 DEF ShellTakes
    <3>5. CASE b = u.own[k]
      <4>1. t = v \/ t = u
        BY <3>3, <3>5
      <4>2. [s.own EXCEPT ![k] = b] = s.own
        BY <1>2, <1>6, <3>5
      <4> QED BY <1>2, <2>2, <3>0, <3>2, <3>5, <4>1, <4>2 DEF ShellTakes
    <3> QED BY <3>4, <3>5
  <2> QED BY <2>1, <2>2
<1> QED BY <1>7, <1>8

\* And as the pane takes it.
LEMMA PaneProperty ==
  ASSUME NEW s \in Programs, s.alive, ui = "pane", NEW k \in Keys, NEW b \in BOOLEAN
  PROVE  PaneTakes(s, k, b, Property(s, k, b))
<1> DEFINE t == Property(s, k, b)
           u == AndOwn(s, k, b)
<1>1. t = PaneUpdates(s, k, b)
  BY DEF Property
<1>2. t = IF k \in Switched THEN AndToggle(u, k, b) ELSE u
  BY <1>1 DEF PaneUpdates, AndOwn, AndToggle
<1> SUFFICES PaneTakes(s, k, b, t)
  OBVIOUS
<1> HIDE DEF t
<1>3. /\ u \in Programs /\ u.own = [s.own EXCEPT ![k] = b] /\ u.alive = s.alive /\ u.cm = s.cm
      /\ u.toggle = s.toggle /\ u.blocks = s.blocks
  BY SetOwn
<1> HIDE DEF u
<1>4. CASE k \in Switched
  <2>1. t = AndToggle(u, k, b)
    BY <1>2, <1>4
  <2>0. u \in Programs
    BY <1>3
  <2>2. /\ t \in Programs /\ t.toggle = [u.toggle EXCEPT ![k] = b]
        /\ t.alive = u.alive /\ t.cm = u.cm /\ t.own = u.own /\ t.blocks = u.blocks
    BY <1>4, <2>0, <2>1, SetToggle
  <2> QED BY <1>3, <1>4, <2>2 DEF PaneTakes
<1>5. CASE k \notin Switched
  BY <1>2, <1>3, <1>5 DEF PaneTakes
<1> QED BY <1>4, <1>5

\* connman has gone: a program that knows something of it ends.
LEMMA ManagerVanished ==
  ASSUME NEW s \in Programs, s.alive, ui \in {"tile", "bluetooth"}
  PROVE  AfterVanished(s, Vanished(s))
<1> DEFINE t == Vanished(s)
           u == AndCm(s, FALSE)
           v == ManagerSets(u, "have", Null)
           w == AndKnown(v, "tech", Null)
           x == AndKnown(u, "have", Null)
<1>1. u \in Programs /\ u.known = s.known /\ u.blocks = s.blocks /\ u.alive
  BY SetFlags
<1>2. "have" \in Keys /\ "tech" \in Keys
  BY DEF Keys
<1>3. t = IF v.alive THEN ManagerSets(v, "tech", Null) ELSE v
  BY DEF Vanished, AndCm
<1> SUFFICES AfterVanished(s, t)
  OBVIOUS
<1> HIDE DEF t
<1> HIDE DEF u
<1>0. Null \in Lists
  BY DEF Lists
<1>4. x \in Programs /\ x.blocks = u.blocks /\ x.known = [u.known EXCEPT !["have"] = Null]
  BY <1>0, <1>1, <1>2, SetKnown
<1> HIDE DEF x
<1>11. x.known["have"] = Null
  BY <1>1, <1>2, <1>4, ProgramFields
<1>5. IF s.known["have"] = Null THEN v = u ELSE v = AndAlive(x, FALSE)
  BY <1>1, <1>11 DEF ManagerSets, Available, NullListEndsIt, AndKnown, AndAlive, x
<1> HIDE DEF v
<1>6. v \in Programs /\ v.blocks = s.blocks /\ (v.alive => v = u /\ s.known["have"] = Null)
  <2>1. CASE s.known["have"] = Null
    BY <1>1, <1>5, <2>1
  <2>2. CASE s.known["have"] # Null
    <3>1. v = AndAlive(x, FALSE)
      BY <1>5, <2>2
    <3>2. v \in Programs /\ v.blocks = x.blocks /\ ~v.alive
      BY <1>4, <3>1, SetFlags
    <3> QED BY <1>1, <1>4, <3>2
  <2> QED BY <2>1, <2>2
<1>7. w \in Programs /\ w.blocks = v.blocks /\ w.known = [v.known EXCEPT !["tech"] = Null]
  BY <1>0, <1>2, <1>6, SetKnown
<1> HIDE DEF w
<1>12. w.known["tech"] = Null
  BY <1>2, <1>6, <1>7, ProgramFields
<1>8. CASE ~v.alive
  BY <1>3, <1>6, <1>8 DEF AfterVanished
<1>9. CASE v.alive /\ v.known["tech"] = Null
  <2>1. t = v
    BY <1>3, <1>9 DEF ManagerSets
  <2> QED BY <1>1, <1>6, <1>9, <2>1 DEF u, AfterVanished
<1>10. CASE v.alive /\ v.known["tech"] # Null
  <2>1. t = AndAlive(w, FALSE)
    BY <1>3, <1>10, <1>12 DEF ManagerSets, Enabled, NullListEndsIt, AndKnown, AndAlive, w
  <2>2. t \in Programs /\ t.blocks = w.blocks /\ ~t.alive
    BY <1>7, <2>1, SetFlags
  <2> QED BY <1>6, <1>7, <2>2 DEF AfterVanished
<1> QED BY <1>8, <1>9, <1>10

\* The faked change.
LEMMA ManagerEnabled ==
  ASSUME NEW s \in Programs, ui \in {"tile", "bluetooth"}, s.alive
  PROVE  AfterEnabled(s, Enabled(s))
<1> DEFINE t == Enabled(s)
<1>0. Says(s, "tech") \in BOOLEAN /\ "tech" \in Keys /\ "tech" \in Switched
  BY SaysIs DEF Keys, Switched
<1>4. t = Enabled(s)
  OBVIOUS
<1> SUFFICES AfterEnabled(s, t)
  OBVIOUS
<1> HIDE DEF t
<1>1. CASE s.known["tech"] = Null
  <2>1. t = AndAlive(s, FALSE)
    BY <1>1, <1>4 DEF Enabled, NullListEndsIt, AndAlive
  <2>2. t \in Programs /\ t.blocks = s.blocks /\ ~t.alive
    BY <2>1, SetFlags
  <2> QED BY <2>2 DEF AfterEnabled
<1>2. CASE s.known["tech"] # Null /\ ui = "tile"
  <2>1. t = AndToggle(s, "tech", Says(s, "tech"))
    BY <1>2, <1>4 DEF Enabled, NullListEndsIt, AndToggle
  <2>2. t \in Programs /\ t.blocks = s.blocks
    BY <1>0, <2>1, SetToggle
  <2> QED BY <1>2, <2>1, <2>2 DEF AfterEnabled
<1>3. CASE s.known["tech"] # Null /\ ui = "bluetooth"
  <2> DEFINE v == AndOwn(s, "tech", Says(s, "tech"))
  <2>0. v \in Programs /\ v.blocks = s.blocks /\ v.own = [s.own EXCEPT !["tech"] = Says(s, "tech")]
    BY <1>0, SetOwn
  <2>2. t = IF v.own["tech"] # s.own["tech"] THEN UpdateShell(v) ELSE s
    BY <1>3, <1>4 DEF Enabled, NullListEndsIt, AndOwn
  <2> HIDE DEF v
  <2>1. v.own["tech"] = Says(s, "tech")
    BY <1>0, <2>0, ProgramFields
  <2>3. UpdateShell(v) \in Programs /\ UpdateShell(v).blocks = v.blocks
    BY <2>0, UpdateFields
  <2>4. ShellFits(s) => t = s
    BY <2>1, <2>2 DEF ShellFits
  <2> QED BY <1>3, <2>0, <2>1, <2>2, <2>3, <2>4 DEF AfterEnabled
<1> QED BY <1>1, <1>2, <1>3

\* Field by field.
TileHas(s, k, b, t) ==
  /\ t \in Programs /\ t.alive /\ t.cm = s.cm /\ t.blocks = s.blocks /\ TileFits(t)
  /\ t.known[k] = {b} /\ \A j \in Keys \ {k} : t.known[j] = s.known[j]
  /\ \A j \in Switched : t.toggle[j] = IF j = k /\ s.known[k] # {b} THEN b ELSE s.toggle[j]
ShellHas(s, k, b, t) ==
  /\ t \in Programs /\ t.alive /\ t.cm = s.cm /\ t.blocks = s.blocks /\ ShellFits(t)
  /\ t.known[k] = {b} /\ \A j \in Keys \ {k} : t.known[j] = s.known[j]
  /\ \A j \in Keys : t.own[j] = IF j = k /\ k # "offline" THEN b ELSE s.own[j]
  /\ t.toggle["tech"] = IF k # "offline" /\ s.own[k] # b THEN t.own["tech"] ELSE s.toggle["tech"]
PaneHas(s, k, b, t) ==
  /\ t \in Programs /\ t.alive /\ t.cm = s.cm /\ t.blocks = s.blocks
  /\ \A j \in Keys : t.own[j] = IF j = k THEN b ELSE s.own[j]
  /\ \A j \in Switched : t.toggle[j] = IF j = k THEN b ELSE s.toggle[j]

LEMMA TileTakesIt ==
  ASSUME NEW s \in Programs, s.alive, ui = "tile", TileFits(s), NEW k \in Keys, NEW b \in BOOLEAN
  PROVE  TileHas(s, k, b, Property(s, k, b))
<1> DEFINE t == Property(s, k, b)
<1>1. TileTakes(s, k, b, t)
  BY TileProperty
<1> SUFFICES TileHas(s, k, b, t)
  OBVIOUS
<1> HIDE DEF t
<1>2. /\ s.known \in [Keys -> Lists] /\ s.own \in [Keys -> BOOLEAN]
      /\ s.toggle \in [Switched -> BOOLEAN] /\ {b} # Null
  BY ProgramFields, ListOf
<1>3. t.known[k] = {b} /\ \A j \in Keys \ {k} : t.known[j] = s.known[j]
  BY <1>1, <1>2 DEF TileTakes
<1>4. \A j \in Switched : t.toggle[j] = IF j = k /\ s.known[k] # {b} THEN b ELSE s.toggle[j]
  BY <1>1, <1>2 DEF TileTakes
<1>5. Says(t, k) = b /\ \A j \in Keys \ {k} : Says(t, j) = Says(s, j)
  BY <1>3, SaysIs
<1>6. s.known[k] = {b} => Says(s, k) = b
  BY SaysIs
<1>7. t.own["have"] = Says(t, "have")
  <2>1. CASE k = "have" /\ s.known[k] # {b}
    BY <1>1, <1>2, <1>5, <2>1 DEF TileTakes
  <2>2. CASE k = "have" /\ s.known[k] = {b}
    BY <1>1, <1>5, <1>6, <2>2 DEF TileTakes, TileFits
  <2>3. CASE k # "have"
    BY <1>1, <1>5, <2>3 DEF TileTakes, TileFits, Keys
  <2> QED BY <2>1, <2>2, <2>3
<1>8. ASSUME t.known["have"] = Null, NEW j \in Switched
      PROVE  t.toggle[j] = Says(t, j)
  <2>1. k # "have" /\ s.known["have"] = Null
    BY <1>2, <1>3, <1>8 DEF Keys
  <2>2. s.toggle[j] = Says(s, j) /\ j \in Keys
    BY <1>8, <2>1 DEF TileFits, Switched, Keys
  <2>3. CASE j = k
    BY <1>4, <1>5, <1>6, <1>8, <2>2, <2>3
  <2>4. CASE j # k
    BY <1>4, <1>5, <1>8, <2>2, <2>4
  <2> QED BY <2>3, <2>4
<1>9. TileFits(t)
  BY <1>7, <1>8 DEF TileFits
<1> QED BY <1>1, <1>3, <1>4, <1>9 DEF TileTakes, TileHas

LEMMA ShellTakesIt ==
  ASSUME NEW s \in Programs, s.alive, ui = "bluetooth", ShellFits(s), NEW k \in Keys,
         NEW b \in BOOLEAN
  PROVE  ShellHas(s, k, b, Property(s, k, b))
<1> DEFINE t == Property(s, k, b)
<1>1. ShellTakes(s, k, b, t)
  BY ShellProperty
<1> SUFFICES ShellHas(s, k, b, t)
  OBVIOUS
<1> HIDE DEF t
<1>2. /\ s.known \in [Keys -> Lists] /\ s.own \in [Keys -> BOOLEAN]
      /\ s.toggle \in [Switched -> BOOLEAN] /\ "tech" \in Switched
  BY ProgramFields DEF Switched
<1>3. t.known[k] = {b} /\ \A j \in Keys \ {k} : t.known[j] = s.known[j]
  BY <1>1, <1>2 DEF ShellTakes
<1>4. \A j \in Keys : t.own[j] = IF j = k /\ k # "offline" THEN b ELSE s.own[j]
  BY <1>1, <1>2 DEF ShellTakes
<1>5. t.toggle["tech"] = IF k # "offline" /\ s.own[k] # b THEN t.own["tech"] ELSE s.toggle["tech"]
  BY <1>1, <1>2 DEF ShellTakes
<1>6. Says(t, k) = b /\ \A j \in Keys \ {k} : Says(t, j) = Says(s, j)
  BY <1>3, SaysIs
<1>7. t.own["have"] = Says(t, "have") /\ t.own["tech"] = Says(t, "tech")
  BY <1>4, <1>6 DEF ShellFits, Keys
<1>8. ~t.own["have"] => t.toggle["tech"] = t.own["tech"]
  BY <1>4, <1>5 DEF ShellFits, Keys
<1> QED BY <1>1, <1>3, <1>4, <1>5, <1>7, <1>8 DEF ShellFits, ShellTakes, ShellHas

LEMMA PaneTakesIt ==
  ASSUME NEW s \in Programs, s.alive, ui = "pane", NEW k \in Keys, NEW b \in BOOLEAN
  PROVE  PaneHas(s, k, b, Property(s, k, b))
<1> DEFINE t == Property(s, k, b)
<1>1. PaneTakes(s, k, b, t)
  BY PaneProperty
<1> SUFFICES PaneHas(s, k, b, t)
  OBVIOUS
<1> HIDE DEF t
<1>2. s.own \in [Keys -> BOOLEAN] /\ s.toggle \in [Switched -> BOOLEAN]
  BY ProgramFields
<1>3. \A j \in Keys : t.own[j] = IF j = k THEN b ELSE s.own[j]
  BY <1>1, <1>2 DEF PaneTakes
<1>4. \A j \in Switched : t.toggle[j] = IF j = k THEN b ELSE s.toggle[j]
  BY <1>1, <1>2 DEF PaneTakes
<1> QED BY <1>1, <1>3, <1>4 DEF PaneTakes, PaneHas

\* The answer to the first question.
TakesAll(s, r) == Property(Property(Property(s, "have", r["have"]), "tech", r["tech"]),
                           "offline", r["offline"])
TileHasAll(s, r, t) ==
  /\ t \in Programs /\ t.alive /\ t.cm = s.cm /\ t.blocks = s.blocks /\ TileFits(t)
  /\ \A k \in Keys : t.known[k] = {r[k]}
  /\ \A k \in Switched : t.toggle[k] = IF s.known[k] # {r[k]} THEN r[k] ELSE s.toggle[k]
ShellHasAll(s, r, t) ==
  /\ t \in Programs /\ t.alive /\ t.cm = s.cm /\ t.blocks = s.blocks /\ ShellFits(t)
  /\ \A k \in Keys : t.known[k] = {r[k]}
  /\ s.toggle["tech"] = s.own["tech"] => t.toggle["tech"] = t.own["tech"]
PaneHasAll(s, r, t) ==
  /\ t \in Programs /\ t.alive /\ t.cm = s.cm /\ t.blocks = s.blocks
  /\ \A k \in Keys : t.own[k] = r[k]
  /\ \A k \in Switched : t.toggle[k] = r[k]

LEMMA AllTaken ==
  ASSUME NEW s \in Programs, s.alive, NEW r \in [Keys -> BOOLEAN]
  PROVE  /\ ui = "tile" /\ TileFits(s) => TileHasAll(s, r, TakesAll(s, r))
         /\ ui = "bluetooth" /\ ShellFits(s) => ShellHasAll(s, r, TakesAll(s, r))
         /\ ui = "pane" => PaneHasAll(s, r, TakesAll(s, r))
<1> DEFINE u == Property(s, "have", r["have"])
           v == Property(u, "tech", r["tech"])
           t == Property(v, "offline", r["offline"])
<1>1. "have" \in Keys /\ "tech" \in Keys /\ "offline" \in Keys /\ \A k \in Keys : r[k] \in BOOLEAN
  BY DEF Keys
<1>2. ASSUME ui = "tile", TileFits(s)
      PROVE  TileHasAll(s, r, t)
  <2>1. TileHas(s, "have", r["have"], u)
    BY <1>1, <1>2, TileTakesIt
  <2> HIDE DEF u
  <2>2. u \in Programs /\ u.alive /\ TileFits(u)
    BY <2>1 DEF TileHas
  <2>3. TileHas(u, "tech", r["tech"], v)
    BY <1>1, <1>2, <2>2, TileTakesIt
  <2> HIDE DEF v
  <2>4. v \in Programs /\ v.alive /\ TileFits(v)
    BY <2>3 DEF TileHas
  <2>5. TileHas(v, "offline", r["offline"], t)
    BY <1>1, <1>2, <2>4, TileTakesIt
  <2> HIDE DEF t
  <2>6. \A k \in Keys : t.known[k] = {r[k]}
    BY <2>1, <2>3, <2>5 DEF TileHas, Keys
  <2>7. \A k \in Switched : t.toggle[k] = IF s.known[k] # {r[k]} THEN r[k] ELSE s.toggle[k]
    BY <2>1, <2>3, <2>5 DEF TileHas, Keys, Switched
  <2> QED BY <2>1, <2>3, <2>5, <2>6, <2>7 DEF TileHas, TileHasAll
<1>3. ASSUME ui = "bluetooth", ShellFits(s)
      PROVE  ShellHasAll(s, r, t)
  <2>1. ShellHas(s, "have", r["have"], u)
    BY <1>1, <1>3, ShellTakesIt
  <2> HIDE DEF u
  <2>2. u \in Programs /\ u.alive /\ ShellFits(u)
    BY <2>1 DEF ShellHas
  <2>3. ShellHas(u, "tech", r["tech"], v)
    BY <1>1, <1>3, <2>2, ShellTakesIt
  <2> HIDE DEF v
  <2>4. v \in Programs /\ v.alive /\ ShellFits(v)
    BY <2>3 DEF ShellHas
  <2>5. ShellHas(v, "offline", r["offline"], t)
    BY <1>1, <1>3, <2>4, ShellTakesIt
  <2> HIDE DEF t
  <2>6. \A k \in Keys : t.known[k] = {r[k]}
    BY <2>1, <2>3, <2>5 DEF ShellHas, Keys
  <2>7. s.toggle["tech"] = s.own["tech"] => u.toggle["tech"] = u.own["tech"]
    BY <1>1, <2>1 DEF ShellHas
  <2>8. u.toggle["tech"] = u.own["tech"] => v.toggle["tech"] = v.own["tech"]
    BY <1>1, <2>3 DEF ShellHas
  <2>9. v.toggle["tech"] = v.own["tech"] => t.toggle["tech"] = t.own["tech"]
    BY <1>1, <2>5 DEF ShellHas
  <2> QED BY <2>1, <2>3, <2>5, <2>6, <2>7, <2>8, <2>9 DEF ShellHas, ShellHasAll
<1>4. ASSUME ui = "pane"
      PROVE  PaneHasAll(s, r, t)
  <2>1. PaneHas(s, "have", r["have"], u)
    BY <1>1, <1>4, PaneTakesIt
  <2> HIDE DEF u
  <2>2. u \in Programs /\ u.alive
    BY <2>1 DEF PaneHas
  <2>3. PaneHas(u, "tech", r["tech"], v)
    BY <1>1, <1>4, <2>2, PaneTakesIt
  <2> HIDE DEF v
  <2>4. v \in Programs /\ v.alive
    BY <2>3 DEF PaneHas
  <2>5. PaneHas(v, "offline", r["offline"], t)
    BY <1>1, <1>4, <2>4, PaneTakesIt
  <2> HIDE DEF t
  <2>6. \A k \in Keys : t.own[k] = r[k]
    BY <2>1, <2>3, <2>5 DEF PaneHas, Keys
  <2>7. \A k \in Switched : t.toggle[k] = r[k]
    BY <2>1, <2>3, <2>5 DEF PaneHas, Keys, Switched
  <2> QED BY <2>1, <2>3, <2>5, <2>6, <2>7 DEF PaneHas, PaneHasAll
<1> QED BY <1>2, <1>3, <1>4 DEF TakesAll

(***************************************************************************)
(* What is said.                                                           *)
(***************************************************************************)
LEMMA NewsFields ==
  ASSUME NEW m \in RadioNews
  PROVE  /\ m.type \in {"appeared", "vanished", "proxy", "props", "signal", "reply"}
         /\ m.type = "props" => m.error \in BOOLEAN /\ (~m.error => m.radio \in [Keys -> BOOLEAN])
         /\ m.type = "signal" => m.key \in Keys /\ m.value \in BOOLEAN
         /\ m.type = "reply" => m.key \in Switched /\ m.error \in BOOLEAN
BY DEF RadioNews

LEMMA CallFields ==
  ASSUME NEW c \in RadioCalls
  PROVE  /\ c.type \in {"props", "set"}
         /\ c.type = "set" => c.key \in Switched /\ c.value \in BOOLEAN
BY DEF RadioCalls

LEMMA NoneAmong ==
  ASSUME NEW q, NEW S, ~Among(q, S)
  PROVE  \A T : Followed(q, S, T) /\ NotBefore(q, T, S) /\ Single(q, S)
BY DEF Among, Followed, NotBefore, Single

LEMMA OnlyOne ==
  ASSUME NEW Q, NEW m \in Q
  PROVE  /\ <<m>> \in Seq(Q) /\ <<m>> # <<>>
         /\ \A S : (Among(<<m>>, S) <=> m \in S) /\ Single(<<m>>, S)
         /\ \A S, T : (m \notin S => Followed(<<m>>, S, T)) /\ NotBefore(<<m>>, S, T)
<1>1. /\ <<m>> \in Seq(Q) /\ Len(<<m>>) = 1 /\ <<m>>[1] = m /\ 1..1 = {1} /\ <<m>> # <<>>
      /\ \A j \in 1..(1 - 1) : FALSE
  OBVIOUS
<1> QED BY <1>1 DEF Among, Single, Followed, NotBefore

LEMMA NothingAmong ==
  /\ \A S : ~Among(<<>>, S) /\ Single(<<>>, S)
  /\ \A S, T : Followed(<<>>, S, T) /\ NotBefore(<<>>, S, T)
<1>1. Len(<<>>) = 0 /\ \A i \in 1..0 : FALSE
  OBVIOUS
<1> QED BY <1>1 DEF Among, Single, Followed, NotBefore

LEMMA Added ==
  ASSUME NEW Q, NEW q \in Seq(Q), NEW m \in Q
  PROVE  /\ Append(q, m) \in Seq(Q) /\ Append(q, m) = q \o <<m>> /\ Append(q, m) # <<>>
         /\ \A S : Among(Append(q, m), S) <=> Among(q, S) \/ m \in S
         /\ \A S : Single(q, S) /\ ~(Among(q, S) /\ m \in S) => Single(Append(q, m), S)
         /\ \A S, T : m \notin S /\ (Followed(q, S, T) \/ m \in T) => Followed(Append(q, m), S, T)
         /\ \A S, T : NotBefore(q, S, T) /\ ~(Among(q, S) /\ m \in T)
                        => NotBefore(Append(q, m), S, T)
<1> DEFINE r == Append(q, m)
           x == <<m>>
<1>1. /\ x \in Seq(Q)
      /\ \A S : (Among(x, S) <=> m \in S) /\ Single(x, S)
      /\ \A S, T : (m \notin S => Followed(x, S, T)) /\ NotBefore(x, S, T)
  BY OnlyOne
<1>2. r \in Seq(Q) /\ r = q \o x /\ r # <<>>
  BY AppendIsConcat, AppendProperties, <1>1
<1>7. r = q \o x
  BY <1>2
<1> HIDE DEF r, x
<1>3. ASSUME NEW S
      PROVE  Among(r, S) <=> Among(q, S) \/ m \in S
  <2>1. Among(q \o x, S) <=> Among(q, S) \/ Among(x, S)
    BY <1>1, AmongJoined
  <2> QED BY <1>1, <1>7, <2>1
<1>4. ASSUME NEW S, Single(q, S), ~(Among(q, S) /\ m \in S)
      PROVE  Single(r, S)
  <2>1. Single(q \o x, S)
    BY <1>1, <1>4, SingleJoined
  <2> QED BY <1>7, <2>1
<1>5. ASSUME NEW S, NEW T, m \notin S, Followed(q, S, T) \/ m \in T
      PROVE  Followed(r, S, T)
  <2>1. Followed(q \o x, S, T)
    BY <1>1, <1>5, FollowedJoined
  <2> QED BY <1>7, <2>1
<1>6. ASSUME NEW S, NEW T, NotBefore(q, S, T), ~(Among(q, S) /\ m \in T)
      PROVE  NotBefore(r, S, T)
  <2>1. NotBefore(q \o x, S, T)
    BY <1>1, <1>6, NotBeforeJoined
  <2> QED BY <1>7, <2>1
<1> QED BY <1>2, <1>3, <1>4, <1>5, <1>6 DEF r, x

\* What connman says of a change.
Announces(x, r, t) ==
  /\ \A types : Among(x, Of(types)) => "signal" \in types \/ "reply" \in types
  /\ ~Among(x, AllProps)
  /\ \A k \in Keys, b \in BOOLEAN : /\ Among(x, Tells(k, b)) <=> r[k] # t[k] /\ t[k] = b
                                    /\ Among(x, Turned(k, b)) <=> r[k] # t[k] /\ t[k] = b

LEMMA SignalsAre ==
  ASSUME NEW r \in [Keys -> BOOLEAN], NEW t \in [Keys -> BOOLEAN], NEW x, x = RadioSignals(r, t)
  PROVE  /\ x \in Seq(RadioNews) /\ Announces(x, r, t)
         /\ \A k : ~Among(x, Replies(k))
         /\ ~Among(x, Errors)
<1> DEFINE signal(k) == [type |-> "signal", key |-> k, value |-> t[k]]
           one(k) == IF r[k] = t[k] THEN <<>> ELSE <<signal(k)>>
<1>1. ASSUME NEW k \in Keys
      PROVE  /\ one(k) \in Seq(RadioNews)
             /\ \A S : Among(one(k), S) <=> r[k] # t[k] /\ signal(k) \in S
  <2>1. signal(k) \in RadioNews
    BY <1>1 DEF RadioNews
  <2>2. <<>> \in Seq(RadioNews) /\ \A S : ~Among(<<>>, S)
    BY NothingAmong
  <2>3. <<signal(k)>> \in Seq(RadioNews) /\ \A S : Among(<<signal(k)>>, S) <=> signal(k) \in S
    BY <2>1, OnlyOne
  <2> QED BY <2>2, <2>3
<1> DEFINE h == one("have")
           e == one("tech")
           f == one("offline")
<1>2. x = (h \o e) \o f
  BY DEF RadioSignals
<1>3. {"have", "tech", "offline"} \subseteq Keys
  BY DEF Keys
<1>4. h \in Seq(RadioNews) /\ e \in Seq(RadioNews) /\ f \in Seq(RadioNews)
  BY <1>1, <1>3
<1>5. ASSUME NEW S
      PROVE  Among(x, S) <=> \E k \in Keys : r[k] # t[k] /\ signal(k) \in S
  <2> HIDE DEF h, e, f
  <2>1. h \o e \in Seq(RadioNews)
    BY <1>4, ConcatProperties
  <2>4. Among((h \o e) \o f, S) <=> Among(h \o e, S) \/ Among(f, S)
    BY <1>4, <2>1, AmongJoined
  <2>5. x = (h \o e) \o f
    BY <1>2 DEF h, e, f
  <2>2. Among(x, S) <=> Among(h \o e, S) \/ Among(f, S)
    BY <2>4, <2>5
  <2>3. Among(h \o e, S) <=> Among(h, S) \/ Among(e, S)
    BY <1>4, AmongJoined
  <2> QED BY <1>1, <1>3, <2>2, <2>3 DEF h, e, f, Keys
<1>6. x \in Seq(RadioNews)
  BY <1>2, <1>4, ConcatProperties
<1>7. ASSUME NEW k \in Keys
      PROVE  /\ signal(k) \in RadioNews /\ signal(k).type = "signal" /\ signal(k).key = k
             /\ signal(k).value = t[k]
  BY <1>7 DEF RadioNews
<1> HIDE DEF signal
<1>8. \A types : Among(x, Of(types)) => "signal" \in types
  BY <1>5, <1>7 DEF Of
<1>9. /\ ~Among(x, AllProps) /\ ~Among(x, Errors)
      /\ \A k : ~Among(x, Replies(k))
  BY <1>5, <1>7 DEF AllProps, Errors, Replies
<1>10. ASSUME NEW k \in Keys, NEW b \in BOOLEAN
       PROVE  /\ Among(x, Tells(k, b)) <=> r[k] # t[k] /\ t[k] = b
              /\ Among(x, Turned(k, b)) <=> r[k] # t[k] /\ t[k] = b
  <2>1. \A j \in Keys : signal(j) \in Tells(k, b) <=> j = k /\ t[j] = b
    BY <1>7 DEF Tells
  <2>2. \A j \in Keys : signal(j) \in Turned(k, b) <=> j = k /\ t[j] = b
    BY <1>7 DEF Turned
  <2> QED BY <1>5, <2>1, <2>2
<1> QED BY <1>6, <1>8, <1>9, <1>10 DEF Announces


LEMMA NewsAdded ==
  ASSUME news \in Seq(RadioNews), NEW m \in RadioNews, news' = Append(news, m)
  PROVE  /\ news' \in Seq(RadioNews)
         /\ \A S : Among(news', S) <=> Among(news, S) \/ m \in S
         /\ \A S : Single(news, S) /\ ~(Among(news, S) /\ m \in S) => Single(news', S)
         /\ \A S, T : m \notin S /\ (Followed(news, S, T) \/ m \in T) => Followed(news', S, T)
         /\ \A S, T : NotBefore(news, S, T) /\ ~(Among(news, S) /\ m \in T) => NotBefore(news', S, T)
<1> DEFINE r == Append(news, m)
<1>1. /\ r \in Seq(RadioNews)
      /\ \A S : Among(r, S) <=> Among(news, S) \/ m \in S
  BY Added
<1>2. \A S : Single(news, S) /\ ~(Among(news, S) /\ m \in S) => Single(r, S)
  BY Added
<1>3. \A S, T : m \notin S /\ (Followed(news, S, T) \/ m \in T) => Followed(r, S, T)
  BY Added
<1>4. \A S, T : NotBefore(news, S, T) /\ ~(Among(news, S) /\ m \in T) => NotBefore(r, S, T)
  BY Added
<1>5. news' = r
  OBVIOUS
<1> HIDE DEF r
<1> QED BY <1>1, <1>2, <1>3, <1>4, <1>5

\* What connman does.
LEMMA WithFields ==
  ASSUME NEW r \in [Keys -> BOOLEAN], r["tech"] => r["have"], NEW k \in Keys, NEW v \in BOOLEAN,
         NEW t, t = With(r, k, v)
  PROVE  /\ t \in [Keys -> BOOLEAN] /\ (t["tech"] => t["have"])
         /\ ~(k = "tech" /\ v /\ ~r["have"]) => t[k] = v
         /\ t["have"] /\ ~r["have"] => ~t["tech"] /\ ~r["tech"]
<1> DEFINE s == [r EXCEPT ![k] = v]
           u == [s EXCEPT !["tech"] = FALSE]
<1>1. /\ s \in [Keys -> BOOLEAN] /\ s[k] = v /\ \A j \in Keys : j # k => s[j] = r[j]
      /\ u \in [Keys -> BOOLEAN] /\ ~u["tech"] /\ \A j \in Keys : j # "tech" => u[j] = s[j]
  BY DEF Keys
<1>2. t = IF ~s["have"] \/ (k = "offline" /\ v) THEN u ELSE s
  BY DEF With
<1>3. "have" \in Keys /\ "tech" \in Keys
  BY DEF Keys
<1> HIDE DEF s, u
<1>4. CASE ~s["have"] \/ (k = "offline" /\ v)
  <2>1. t = u
    BY <1>2, <1>4
  <2> QED BY <1>1, <1>3, <1>4, <2>1
<1>5. CASE s["have"] /\ ~(k = "offline" /\ v)
  <2>1. t = s
    BY <1>2, <1>5
  <2> QED BY <1>1, <1>3, <1>5, <2>1
<1> QED BY <1>4, <1>5

LEMMA FailureFields ==
  ASSUME NEW c \in RadioCalls
  PROVE  /\ Failure(c) \in RadioNews
         /\ c.type = "props" => /\ Failure(c).type = "props" /\ Failure(c).error
         /\ c.type = "set" => /\ Failure(c).type = "reply" /\ Failure(c).error
                              /\ Failure(c).key = c.key
BY CallFields DEF Failure, RadioNews

\* A program is not told anything of the radios by a call that fails.
LEMMA FailureTells ==
  ASSUME NEW c \in RadioCalls
  PROVE  /\ Failure(c) \in RadioNews
         /\ \A types : "props" \notin types /\ "reply" \notin types => Failure(c) \notin Of(types)
         /\ Failure(c) \notin AllProps
         /\ \A k, b : Failure(c) \notin Tells(k, b) /\ Failure(c) \notin Turned(k, b)
         /\ \A k : Failure(c) \in Replies(k) <=> c \in SetCalls(k)
<1> DEFINE m == Failure(c)
<1>1. /\ m \in RadioNews /\ c.type \in {"props", "set"}
      /\ c.type = "props" => m.type = "props" /\ m.error
      /\ c.type = "set" => m.type = "reply" /\ m.error /\ m.key = c.key
  BY FailureFields, CallFields
<1> HIDE DEF m
<1> QED BY <1>1 DEF Of, AllProps, Tells, Turned, Replies, SetCalls, m

LEMMA AllFail ==
  ASSUME NEW q \in Seq(RadioCalls), NEW f, f = [i \in DOMAIN q |-> Failure(q[i])]
  PROVE  /\ f \in Seq(RadioNews)
         /\ \A types : "props" \notin types /\ "reply" \notin types => ~Among(f, Of(types))
         /\ ~Among(f, AllProps)
         /\ \A k, b : ~Among(f, Tells(k, b)) /\ ~Among(f, Turned(k, b))
         /\ \A k : Among(f, Replies(k)) <=> Among(q, SetCalls(k))
         /\ \A k : Single(q, SetCalls(k)) => Single(f, Replies(k))
<1> DEFINE n == Len(q)
<1>1. n \in Nat /\ DOMAIN q = 1..n /\ q \in [1..n -> RadioCalls]
  BY LenProperties
<1> HIDE DEF n
<1>2. \A i \in 1..n : q[i] \in RadioCalls /\ f[i] = Failure(q[i])
  BY <1>1
<1>3. f \in [1..n -> RadioNews]
  BY <1>1, <1>2, FailureTells
<1>4. f \in Seq(RadioNews)
  BY <1>1, <1>3
<1>5. Len(f) = n
  BY <1>1, <1>3, <1>4, LenProperties
<1>6. Len(q) = n
  BY DEF n
<1> QED BY <1>2, <1>4, <1>5, <1>6, FailureTells DEF Among, Single

LEMMA Sending ==
  ASSUME NEW c \in RadioCalls, NEW q \in Seq(RadioNews), Send(c, q)
  PROVE  \/ /\ running /\ (ui = "pane" \/ ~Among(q, Of({"vanished"})))
            /\ pending' = Append(pending, c) /\ news' = q
         \/ /\ ~(running /\ (ui = "pane" \/ ~Among(q, Of({"vanished"}))))
            /\ pending' = pending /\ news' = Append(q, Failure(c))
<1>1. DOMAIN q = 1..Len(q) /\ \A i \in 1..Len(q) : q[i] \in RadioNews
  BY LenProperties, ElementOfSeq
<1>2. KnowsIt(q) <=> ui = "pane" \/ ~Among(q, Of({"vanished"}))
  BY <1>1 DEF KnowsIt, Among, Of
<1> QED BY <1>2 DEF Send

LEMMA AsksIs ==
  ASSUME pending \in Seq(RadioCalls), news \in Seq(RadioNews)
  PROVE  StillAsks <=> Asks
<1>1. /\ DOMAIN news = 1..Len(news) /\ \A i \in 1..Len(news) : news[i] \in RadioNews
      /\ DOMAIN pending = 1..Len(pending) /\ \A i \in 1..Len(pending) : pending[i] \in RadioCalls
  BY LenProperties, ElementOfSeq
<1> QED BY <1>1 DEF StillAsks, Asks, Among, Of, PropsCalls

\* What is among two is among one of them.
LEMMA AmongEither ==
  ASSUME NEW q, NEW S, NEW T
  PROVE  Among(q, S \cup T) <=> Among(q, S) \/ Among(q, T)
BY DEF Among

\* The last word of connman's is kept, when it says what changes.
LEMMA LastKept ==
  ASSUME NEW q \in Seq(RadioNews), NEW x \in Seq(RadioNews), NEW k \in Keys,
         NEW b \in BOOLEAN, NEW c \in BOOLEAN, NEW V,
         Followed(q, Tells(k, ~b), Tells(k, b) \cup V),
         ~Among(x, Tells(k, ~c)), b = c \/ Among(x, Tells(k, c)) \/ Among(x, V)
  PROVE  Followed(q \o x, Tells(k, ~c), Tells(k, c) \cup V)
<1>1. Followed(x, Tells(k, ~c), Tells(k, c) \cup V)
  BY NoneAmong
<1>2. Among(x, Tells(k, c)) \/ Among(x, V) => Among(x, Tells(k, c) \cup V)
  BY AmongEither
<1>3. CASE b = c
  BY <1>1, <1>3, FollowedJoined
<1>4. CASE Among(x, Tells(k, c) \cup V)
  BY <1>1, <1>4, FollowedJoined
<1> QED BY <1>2, <1>3, <1>4

LEMMA TechKept ==
  ASSUME TechComes, news \in Seq(RadioNews), NEW x \in Seq(RadioNews), news' = news \o x,
         panel'.own = panel.own, panel'.known = panel.known,
         radio'["tech"] => radio["tech"] \/ Among(x, Turned("tech", TRUE)),
         Among(x, Turned("tech", FALSE)) => radio["tech"],
         Among(x, Turned("have", TRUE)) => ~radio'["tech"] /\ ~Among(x, Turned("tech", FALSE))
  PROVE  TechComes'
<1> DEFINE H == Turned("have", TRUE)
           S == Turned("tech", FALSE)
           T == Turned("tech", TRUE)
           a == radio["tech"]
           b == radio'["tech"]
<1>1. ComesAfter(news, H, S, T, a)
  BY DEF TechComes
<1>2. panel.own["have"] /\ panel.known["tech"] = Null => Comes(news, 0, S, T, a)
  BY DEF TechComes
<1>3. (Among(x, S) => a) /\ (b => a \/ Among(x, T)) /\ (Among(x, H) => ~b /\ ~Among(x, S))
  OBVIOUS
<1> HIDE DEF H, S, T, a, b
<1>4. ComesAfter(news', H, S, T, b)
  BY <1>1, <1>3, ComesAfterJoined
<1>5. 0 \in 0..Len(news)
  BY LenProperties
<1>6. Comes(news, 0, S, T, a) => Comes(news', 0, S, T, b)
  BY <1>3, <1>5, ComesJoined
<1> QED BY <1>2, <1>4, <1>6 DEF TechComes, H, S, T, a, b

\* A message that tells nothing of the radios comes.
LEMMA TechKeptBy ==
  ASSUME TechComes, news \in Seq(RadioNews), NEW m \in RadioNews, m.type # "signal",
         news' = Append(news, m), panel'.own = panel.own, panel'.known = panel.known, radio' = radio
  PROVE  TechComes'
<1> DEFINE x == <<m>>
<1>1. /\ x \in Seq(RadioNews) /\ \A S : Among(x, S) <=> m \in S
      /\ news' = news \o x
  BY OnlyOne, Added
<1>2. \A k, b : m \notin Turned(k, b)
  BY DEF Turned
<1> HIDE DEF x
<1> QED BY <1>1, <1>2, TechKept

LEMMA LastKeptBy ==
  ASSUME \A k \in Keys : LastIsRight(k), news \in Seq(RadioNews), NEW m \in RadioNews,
         \A k \in Keys : m \notin Tells(k, ~radio[k]),
         news' = Append(news, m), radio' = radio
  PROVE  \A k \in Keys : LastIsRight(k)'
<1>1. ASSUME NEW k \in Keys
      PROVE  Followed(news', Tells(k, ~radio[k]), Tells(k, radio[k]) \cup Of({"vanished"}))
  <2> DEFINE S == Tells(k, ~radio[k])
             T == Tells(k, radio[k]) \cup Of({"vanished"})
  <2>1. Followed(news, S, T) /\ m \notin S
    BY <1>1 DEF LastIsRight
  <2> HIDE DEF S, T
  <2>2. Followed(Append(news, m), S, T)
    BY <2>1, Added
  <2> QED BY <2>2 DEF S, T
<1> QED BY <1>1 DEF LastIsRight

LEMMA ProxyMadeKeeps ==
  ASSUME RadioInv, ProxyMade
  PROVE  RadioInv'
<1> DEFINE m == [type |-> "proxy"]
<1>1. m \in RadioNews /\ m.type = "proxy"
  BY DEF RadioNews
<1>2. /\ news \in Seq(RadioNews) /\ making \in Nat /\ making > 0 /\ panel.alive
      /\ making' = making - 1 /\ news' = Append(news, m)
      /\ radio' = radio /\ running' = running /\ pending' = pending /\ ui' = ui /\ panel' = panel
      /\ did' = did
  BY DEF RadioInv, RadioTypeOK, ProxyMade
<1> HIDE DEF m
<1>3. /\ news' \in Seq(RadioNews)
      /\ \A S : Among(news', S) <=> Among(news, S) \/ m \in S
      /\ \A S, T : m \notin S /\ (Followed(news, S, T) \/ m \in T) => Followed(news', S, T)
      /\ \A S, T : NotBefore(news, S, T) /\ ~(Among(news, S) /\ m \in T) => NotBefore(news', S, T)
  BY <1>1, <1>2, NewsAdded
<1>4. /\ m \notin AllProps /\ m \notin Errors /\ \A types : m \in Of(types) <=> "proxy" \in types
      /\ \A k, b : m \notin Tells(k, b)
  BY <1>1 DEF AllProps, Errors, Of, Tells
<1>5. ui # "pane"
  BY <1>2 DEF RadioInv, PaneRight
<1>6. RadioTypeOK'
  BY <1>2, <1>3 DEF RadioInv, RadioTypeOK
<1>7. \A k \in Keys : LastIsRight(k)'
  BY <1>1, <1>2, <1>4, LastKeptBy DEF RadioInv
<1>8. ManagerKnows /\ (ui = "tile" => TileFits(panel)) /\ (ui = "bluetooth" => ShellFits(panel) /\ TechComes)
  BY <1>2, <1>5 DEF RadioInv, ManagerRight
<1>9. ManagerKnows'
  <2>1. Vanishes' <=> Vanishes
    BY <1>3, <1>4 DEF Vanishes
  <2>2. (running => Followed(news, Of({"vanished"}), Of({"appeared"})))'
    BY <1>2, <1>3, <1>4, <1>8 DEF ManagerKnows
  <2>3. (~running => Followed(news, AllProps \cup Of({"signal"}), Of({"vanished"})))'
    BY <1>2, <1>3, <1>4, <1>8 DEF ManagerKnows
  <2>4. (Among(pending, PropsCalls) => panel.cm /\ ~Vanishes)'
    BY <1>2, <2>1, <1>8 DEF ManagerKnows
  <2>5. (NotBefore(news, Of({"vanished"}), AllProps) /\ (Among(news, AllProps) => panel.cm))'
    BY <1>2, <1>3, <1>4, <1>8 DEF ManagerKnows
  <2>6. WillKnow'
    BY <1>3, <1>4 DEF WillKnow
  <2>7. (panel.known["have"] # Null => panel.cm /\ (running \/ Vanishes))'
    BY <1>2, <2>1, <1>8 DEF ManagerKnows
  <2> QED BY <2>2, <2>3, <2>4, <2>5, <2>6, <2>7 DEF ManagerKnows
<1>10. Asks /\ (Vanishes' <=> Vanishes)
  BY <1>2, <1>3, <1>4 DEF Asks, Vanishes
<1>11. ASSUME NEW k \in Switched, TileFollows(k)
       PROVE  TileFollows(k)'
  BY <1>2, <1>10, <1>11 DEF TileFollows, TileWaits, Says
<1>12. ShellFollows => ShellFollows'
  BY <1>2, <1>10 DEF ShellFollows, ShellWaits
<1>13. ui = "bluetooth" => TechComes'
  BY <1>1, <1>2, <1>8, TechKeptBy
<1>14. ManagerRight'
  BY <1>2, <1>5, <1>8, <1>9, <1>11, <1>12, <1>13 DEF RadioInv, ManagerRight
<1> QED BY <1>2, <1>5, <1>6, <1>7, <1>14 DEF RadioInv

LEMMA ConnmanStartsKeeps ==
  ASSUME RadioInv, ConnmanStarts
  PROVE  RadioInv'
<1> DEFINE m == [type |-> "appeared"]
<1>1. m \in RadioNews /\ m.type = "appeared"
  BY DEF RadioNews
<1>2. /\ news \in Seq(RadioNews) /\ ~running /\ running' = TRUE
      /\ news' = IF panel.alive THEN Append(news, m) ELSE news
      /\ radio' = radio /\ making' = making /\ pending' = pending /\ ui' = ui /\ panel' = panel
      /\ did' = did /\ pending = <<>>
  BY DEF RadioInv, RadioTypeOK, ConnmanStarts
<1> HIDE DEF m
<1>3. panel.alive =>
        /\ news' \in Seq(RadioNews)
        /\ \A S : Among(news', S) <=> Among(news, S) \/ m \in S
        /\ \A S, T : m \notin S /\ (Followed(news, S, T) \/ m \in T) => Followed(news', S, T)
        /\ \A S, T : NotBefore(news, S, T) /\ ~(Among(news, S) /\ m \in T) => NotBefore(news', S, T)
        /\ \A S : Single(news, S) /\ ~(Among(news, S) /\ m \in S) => Single(news', S)
  BY <1>1, <1>2, NewsAdded
<1>4. /\ m \notin AllProps /\ \A types : m \in Of(types) <=> "appeared" \in types
      /\ \A k, b : m \notin Tells(k, b)
      /\ \A k : m \notin Replies(k)
  BY <1>1 DEF AllProps, Of, Tells, Replies
<1>5. RadioTypeOK'
  BY <1>2, <1>3 DEF RadioInv, RadioTypeOK
<1>6. panel.alive => \A k \in Keys : LastIsRight(k)'
  BY <1>1, <1>2, <1>4, LastKeptBy DEF RadioInv
<1>7. ui = "pane" => PaneRight'
  <2> SUFFICES ASSUME ui = "pane" PROVE PaneRight'
    OBVIOUS
  <2>1. panel.alive /\ making = 0 /\ did.exits # 0 /\ \A k \in Switched : Blocked(k)
    BY <1>2 DEF RadioInv, PaneRight
  <2>2. ASSUME NEW k \in Switched
        PROVE  Blocked(k)'
    <3>1. Among(news', Replies(k)) <=> Among(news, Replies(k))
      BY <1>3, <1>4, <2>1
    <3>2. Single(news', Replies(k))
      BY <1>3, <1>4, <2>1, <2>2 DEF Blocked
    <3> QED BY <1>2, <2>1, <2>2, <3>1, <3>2 DEF Blocked
  <2> QED BY <1>2, <2>1, <2>2 DEF PaneRight
<1>8. ui # "pane" /\ panel.alive => ManagerRight'
  <2> SUFFICES ASSUME ui # "pane", panel.alive PROVE ManagerRight'
    OBVIOUS
  <2>1. ManagerKnows /\ ManagerRight
    BY <1>2 DEF RadioInv, ManagerRight
  <2>2. Vanishes' <=> Vanishes
    BY <1>3, <1>4 DEF Vanishes
  <2>3. ManagerKnows'
    <3>1. (running => Followed(news, Of({"vanished"}), Of({"appeared"})))'
      BY <1>3, <1>4
    <3>2. ~Among(pending', PropsCalls)
      BY <1>2, NothingAmong
    <3>3. (NotBefore(news, Of({"vanished"}), AllProps) /\ (Among(news, AllProps) => panel.cm))'
      BY <1>2, <1>3, <1>4, <2>1 DEF ManagerKnows
    <3>4. WillKnow'
      BY <1>3, <1>4 DEF WillKnow
    <3>5. (panel.known["have"] # Null => panel.cm /\ (running \/ Vanishes))'
      BY <1>2, <2>1 DEF ManagerKnows
    <3> QED BY <1>2, <3>1, <3>2, <3>3, <3>4, <3>5 DEF ManagerKnows
  <2>4. ASSUME NEW k \in Switched, TileFollows(k)
        PROVE  TileFollows(k)'
    BY <1>2, <2>2, <2>4 DEF TileFollows, TileWaits, Says
  <2>5. ShellFollows => ShellFollows'
    BY <1>2, <2>2 DEF ShellFollows, ShellWaits
  <2>6. ui = "bluetooth" => TechComes'
    BY <1>1, <1>2, <2>1, TechKeptBy DEF ManagerRight
  <2> QED BY <1>2, <2>1, <2>3, <2>4, <2>5, <2>6 DEF ManagerRight
<1> QED BY <1>2, <1>5, <1>6, <1>7, <1>8 DEF RadioInv

LEMMA ConnmanExitsKeeps ==
  ASSUME RadioInv, ConnmanExits
  PROVE  RadioInv'
<1> DEFINE m == [type |-> "vanished"]
           f == [i \in DOMAIN pending |-> Failure(pending[i])]
           q == Append(news, m)
           x == <<m>> \o f
<1>1. m \in RadioNews /\ m.type = "vanished"
  BY DEF RadioNews
<1>2. /\ news \in Seq(RadioNews) /\ pending \in Seq(RadioCalls) /\ running /\ running' = FALSE
      /\ radio' = With(radio, "have", FALSE) /\ pending' = <<>>
      /\ news' = IF panel.alive THEN q \o f ELSE news
      /\ making' = making /\ ui' = ui /\ panel' = panel
      /\ did' = [did EXCEPT !.exits = did.exits + 1] /\ radio \in [Keys -> BOOLEAN]
      /\ did \in [toggles: Nat, changes: Nat, exits: Nat, lost: SUBSET Switched]
      /\ (radio["tech"] => radio["have"])
  BY DEF RadioInv, RadioTypeOK, ConnmanExits
<1>3. /\ f \in Seq(RadioNews)
      /\ \A types : "props" \notin types /\ "reply" \notin types => ~Among(f, Of(types))
      /\ ~Among(f, AllProps)
      /\ \A k, b : ~Among(f, Tells(k, b)) /\ ~Among(f, Turned(k, b))
      /\ \A k : Among(f, Replies(k)) <=> Among(pending, SetCalls(k))
      /\ \A k : Single(pending, SetCalls(k)) => Single(f, Replies(k))
  BY <1>2, AllFail
<1> HIDE DEF m, f
<1>4. /\ q \in Seq(RadioNews) /\ q = news \o <<m>> /\ <<m>> \in Seq(RadioNews)
      /\ \A S : Among(q, S) <=> Among(news, S) \/ m \in S
      /\ \A S : Among(<<m>>, S) <=> m \in S
      /\ \A S, T : m \notin S /\ (Followed(news, S, T) \/ m \in T) => Followed(q, S, T)
      /\ \A S, T : NotBefore(news, S, T) /\ ~(Among(news, S) /\ m \in T) => NotBefore(q, S, T)
      /\ \A S : Single(news, S) /\ ~(Among(news, S) /\ m \in S) => Single(q, S)
  <2>1. news \in Seq(RadioNews)
    BY <1>2
  <2>2. <<m>> \in Seq(RadioNews) /\ \A S : Among(<<m>>, S) <=> m \in S
    BY <1>1, OnlyOne
  <2> QED BY <1>1, <2>1, <2>2, Added
<1>5. /\ m \notin AllProps /\ \A types : m \in Of(types) <=> "vanished" \in types
      /\ \A k, b : m \notin Tells(k, b) /\ m \notin Turned(k, b)
      /\ \A k : m \notin Replies(k)
  BY <1>1 DEF AllProps, Of, Tells, Turned, Replies
<1> HIDE DEF q
<1>6. q \o f \in Seq(RadioNews) /\ \A S : Among(q \o f, S) <=> Among(news, S) \/ m \in S \/ Among(f, S)
  BY <1>3, <1>4, ConcatProperties, AmongJoined
<1>7. /\ x \in Seq(RadioNews) /\ q \o f = news \o x
      /\ \A S : Among(x, S) <=> m \in S \/ Among(f, S)
  <2>1. x \in Seq(RadioNews)
    BY <1>3, <1>4, ConcatProperties
  <2>2. q \o f = news \o x
    BY <1>2, <1>3, <1>4, ConcatAssociative
  <2>3. \A S : Among(x, S) <=> m \in S \/ Among(f, S)
    BY <1>3, <1>4, AmongJoined
  <2> QED BY <2>1, <2>2, <2>3
<1> HIDE DEF x
<1>8. /\ radio' \in [Keys -> BOOLEAN] /\ (radio'["tech"] => radio'["have"])
      /\ ~radio'["have"] /\ ~radio'["tech"] /\ "have" \in Keys
  <2>1. "have" \in Keys
    BY DEF Keys
  <2> QED BY <1>2, <2>1, WithFields
<1>13. did \in [toggles: Nat, changes: Nat, exits: Nat, lost: SUBSET Switched]
  BY <1>2
<1>9. RadioTypeOK'
  <2>1. pending' \in Seq(RadioCalls) /\ news' \in Seq(RadioNews)
    BY <1>2, <1>6
  <2>2. did' \in [toggles: Nat, changes: Nat, exits: Nat, lost: SUBSET Switched]
    <3>1. did.exits + 1 \in Nat
      BY <1>2
    <3>2. did' = [did EXCEPT !.exits = did.exits + 1]
      BY <1>2
    <3> QED BY <1>13, <3>1, <3>2
  <2> QED BY <1>2, <1>8, <2>1, <2>2 DEF RadioInv, RadioTypeOK
<1>10. ASSUME panel.alive, NEW k \in Keys
       PROVE  LastIsRight(k)'
  <2>1. Among(x, Of({"vanished"})) /\ ~Among(x, Tells(k, ~radio'[k]))
    BY <1>3, <1>5, <1>7
  <2>2. Followed(news, Tells(k, ~radio[k]), Tells(k, radio[k]) \cup Of({"vanished"}))
    BY <1>10 DEF RadioInv, LastIsRight
  <2>3. radio[k] \in BOOLEAN /\ radio'[k] \in BOOLEAN
    BY <1>2, <1>8, <1>10
  <2>4. Followed(news \o x, Tells(k, ~radio'[k]), Tells(k, radio'[k]) \cup Of({"vanished"}))
    BY <1>2, <1>7, <1>10, <2>1, <2>2, <2>3, LastKept
  <2> QED BY <1>2, <1>7, <1>10, <2>4 DEF LastIsRight
<1>11. ui = "pane" => PaneRight'
  <2> SUFFICES ASSUME ui = "pane" PROVE PaneRight'
    OBVIOUS
  <2>1. panel.alive /\ making = 0 /\ \A k \in Switched : Blocked(k)
    BY DEF RadioInv, PaneRight
  <2>2. did'.exits # 0
    BY <1>2
  <2>3. ASSUME NEW k \in Switched
        PROVE  Blocked(k)'
    <3>1. Among(news', Replies(k)) <=> Among(news, Replies(k)) \/ Among(pending, SetCalls(k))
      BY <1>2, <1>3, <1>5, <1>6, <2>1
    <3>2. /\ Single(news, Replies(k)) /\ Single(pending, SetCalls(k))
          /\ ~Among(pending, SetCalls(k)) \/ ~Among(news, Replies(k))
      BY <2>1, <2>3 DEF Blocked
    <3>3. Single(q, Replies(k)) /\ (Among(q, Replies(k)) <=> Among(news, Replies(k)))
      BY <1>4, <1>5, <3>2
    <3>4. Single(news', Replies(k))
      BY <1>2, <1>3, <1>4, <2>1, <3>2, <3>3, SingleJoined
    <3>5. ~Among(pending', SetCalls(k)) /\ Single(pending', SetCalls(k))
      BY <1>2, NothingAmong
    <3> QED BY <1>2, <2>1, <2>3, <3>1, <3>4, <3>5 DEF Blocked
  <2> QED BY <1>2, <2>1, <2>2, <2>3 DEF PaneRight
<1>12. ui # "pane" /\ panel.alive => ManagerRight'
  <2> SUFFICES ASSUME ui # "pane", panel.alive PROVE ManagerRight'
    OBVIOUS
  <2>1. ManagerKnows /\ ManagerRight /\ news' = q \o f
    BY <1>2 DEF RadioInv, ManagerRight
  <2>2. Vanishes'
    BY <1>2, <1>5, <1>6 DEF Vanishes
  <2>3. ManagerKnows'
    <3>1. (~running => Followed(news, AllProps \cup Of({"signal"}), Of({"vanished"})))'
      <4>1. Followed(q, AllProps \cup Of({"signal"}), Of({"vanished"}))
        BY <1>4, <1>5
      <4>2. ~Among(f, AllProps \cup Of({"signal"}))
        BY <1>3, AmongEither
      <4> QED BY <1>3, <1>4, <2>1, <4>1, <4>2, NoneAmong, FollowedJoined
    <3>2. ~Among(pending', PropsCalls)
      BY <1>2, NothingAmong
    <3>3. (NotBefore(news, Of({"vanished"}), AllProps) /\ (Among(news, AllProps) => panel.cm))'
      <4>1. NotBefore(q, Of({"vanished"}), AllProps)
        BY <1>4, <1>5, <2>1 DEF ManagerKnows
      <4>2. NotBefore(q \o f, Of({"vanished"}), AllProps)
        BY <1>3, <1>4, <4>1, NoneAmong, NotBeforeJoined
      <4> QED BY <1>2, <1>3, <1>5, <1>6, <2>1, <4>2 DEF ManagerKnows
    <3>4. (panel.known["have"] # Null => panel.cm /\ (running \/ Vanishes))'
      BY <1>2, <2>1, <2>2 DEF ManagerKnows
    <3> QED BY <1>2, <2>2, <3>1, <3>2, <3>3, <3>4 DEF ManagerKnows
  <2>4. ui = "bluetooth" => TechComes'
    BY <1>2, <1>3, <1>5, <1>7, <1>8, <2>1, TechKept DEF ManagerRight
  <2>5. (ui = "tile" => TileFits(panel')) /\ (ui = "bluetooth" => ShellFits(panel'))
    BY <1>2, <2>1 DEF ManagerRight
  <2>6. (\A k \in Switched : TileFollows(k)') /\ ShellFollows'
    BY <2>2 DEF TileFollows, TileWaits, ShellFollows, ShellWaits
  <2> QED BY <1>2, <2>3, <2>4, <2>5, <2>6 DEF ManagerRight
<1> QED BY <1>2, <1>8, <1>9, <1>10, <1>11, <1>12 DEF RadioInv

\* A program that starts.
LEMMA FreshFields ==
  ASSUME NEW u
  PROVE  LET s == Fresh(u)
         IN /\ s \in Programs /\ s.alive /\ s.cm = (u = "pane")
            /\ s.known["have"] = Null /\ s.known["tech"] = Null
            /\ s.known["offline"] = {FALSE} /\ (\A k \in Keys : s.own[k] = FALSE)
            /\ \A k \in Switched : s.toggle[k] = FALSE /\ s.blocks[k] = 0
<1> DEFINE s == Fresh(u)
           known == [k \in Keys |-> IF k = "offline" THEN {FALSE} ELSE Null]
           own == [k \in Keys |-> FALSE]
           toggle == [k \in Switched |-> FALSE]
           blocks == [k \in Switched |-> 0]
           cm == u = "pane"
<1>1. Null \in Lists /\ {FALSE} \in Lists
  BY DEF Lists
<1>2. known \in [Keys -> Lists]
  BY <1>1
<1>3. /\ known["have"] = Null /\ known["tech"] = Null /\ known["offline"] = {FALSE}
  BY DEF Keys
<1>4. own \in [Keys -> BOOLEAN] /\ toggle \in [Switched -> BOOLEAN] /\ blocks \in [Switched -> Nat]
  OBVIOUS
<1>5. (\A k \in Keys : own[k] = FALSE) /\ \A k \in Switched : toggle[k] = FALSE /\ blocks[k] = 0
  OBVIOUS
<1>6. s = [alive |-> TRUE, cm |-> cm, known |-> known, own |-> own, toggle |-> toggle, blocks |-> blocks]
  BY DEF Fresh
<1>7. cm \in BOOLEAN
  OBVIOUS
<1> HIDE DEF known, own, toggle, blocks, cm, s
<1>8. s \in Programs
  BY <1>2, <1>4, <1>6, <1>7 DEF Programs
<1>9. /\ s.alive /\ s.cm = cm /\ s.known = known /\ s.own = own /\ s.toggle = toggle
      /\ s.blocks = blocks
  BY <1>6
<1> QED BY <1>3, <1>5, <1>8, <1>9 DEF s, cm

\* A program with a manager begins.
Begins ==
  /\ ui \in {"tile", "bluetooth"} /\ running \in BOOLEAN
  /\ panel = Fresh(ui) /\ pending = <<>> /\ making = 0
  /\ news = <<[type |-> IF running THEN "appeared" ELSE "vanished"]>>
Begun ==
  /\ panel \in Programs /\ pending \in Seq(RadioCalls) /\ news \in Seq(RadioNews)
  /\ panel.alive /\ \A k \in Switched : panel.blocks[k] = 0
  /\ \A k \in Keys : LastIsRight(k)
  /\ ManagerRight

LEMMA FreshManager ==
  Begins => Begun
<1> SUFFICES ASSUME Begins PROVE Begun
  OBVIOUS
<1>0. /\ ui # "pane" /\ ui \in {"tile", "bluetooth"} /\ running \in BOOLEAN
      /\ panel = Fresh(ui) /\ pending = <<>> /\ making = 0
      /\ news = <<[type |-> IF running THEN "appeared" ELSE "vanished"]>>
  BY DEF Begins
<1> DEFINE m == [type |-> IF running THEN "appeared" ELSE "vanished"]
           s == Fresh(ui)
<1>1. m \in RadioNews /\ m.type = IF running THEN "appeared" ELSE "vanished"
  BY DEF RadioNews
<1>2. /\ s \in Programs /\ s.alive /\ ~s.cm /\ s.known["have"] = Null /\ s.known["tech"] = Null
      /\ s.known["offline"] = {FALSE} /\ (\A k \in Keys : s.own[k] = FALSE)
      /\ \A k \in Switched : s.toggle[k] = FALSE /\ s.blocks[k] = 0
  BY <1>0, FreshFields
<1> HIDE DEF m, s
<1>3. \A k \in Keys : Says(s, k) = FALSE
  <2>1. Says(s, "have") = FALSE /\ Says(s, "tech") = FALSE
    BY <1>2, SaysIs
  <2>2. Says(s, "offline") = FALSE
    BY <1>2, SaysIs
  <2> QED BY <2>1, <2>2 DEF Keys
<1>4. /\ news = <<m>> /\ <<m>> \in Seq(RadioNews)
      /\ \A S : (Among(news, S) <=> m \in S) /\ Single(news, S)
      /\ \A S, T : (m \notin S => Followed(news, S, T)) /\ NotBefore(news, S, T)
  BY <1>0, <1>1, OnlyOne DEF m
<1>5. /\ m \notin AllProps /\ \A types : m \in Of(types) <=> m.type \in types
      /\ \A k, b : m \notin Tells(k, b) /\ m \notin Turned(k, b)
  BY <1>1 DEF AllProps, Of, Tells, Turned
<1>6. \A k \in Keys : LastIsRight(k)
  BY <1>4, <1>5 DEF LastIsRight
<1>7. ~Among(pending, PropsCalls)
  BY <1>0, NothingAmong
<1>8. panel = s
  BY <1>0 DEF s
<1>9. ManagerKnows
  <2>1. (running => Followed(news, Of({"vanished"}), Of({"appeared"})))
    BY <1>1, <1>4, <1>5
  <2>2. (~running => Followed(news, AllProps \cup Of({"signal"}), Of({"vanished"})))
    BY <1>1, <1>4, <1>5
  <2>3. (NotBefore(news, Of({"vanished"}), AllProps) /\ (Among(news, AllProps) => panel.cm))
    BY <1>4, <1>5
  <2>4. running => WillKnow
    BY <1>1, <1>4, <1>5 DEF WillKnow
  <2>5. panel.known["have"] = Null
    BY <1>2, <1>8
  <2> QED BY <1>7, <2>1, <2>2, <2>3, <2>4, <2>5 DEF ManagerKnows
<1>10. \A H, S, T, on : m \notin H => ComesAfter(news, H, S, T, on)
  <2>1. <<m>>[1] = m /\ Len(<<m>>) = 1 /\ 1..1 = {1}
    OBVIOUS
  <2> QED BY <1>4, <2>1 DEF ComesAfter
<1>11. TechComes
  <2>1. "have" \in Keys
    BY DEF Keys
  <2> QED BY <1>2, <1>5, <1>8, <1>10, <2>1 DEF TechComes
<1>14. "have" \in Keys /\ "tech" \in Keys /\ "tech" \in Switched /\ Switched \subseteq Keys
  BY DEF Keys, Switched
<1>12. TileFits(s) /\ ShellFits(s)
  <2>1. \A k \in Switched : s.toggle[k] = Says(s, k)
    BY <1>2, <1>3, <1>14
  <2>2. s.own["have"] = Says(s, "have") /\ s.own["tech"] = Says(s, "tech")
    BY <1>2, <1>3, <1>14
  <2>3. s.toggle["tech"] = s.own["tech"]
    BY <1>2, <1>14
  <2> QED BY <2>1, <2>2, <2>3 DEF TileFits, ShellFits
<1>13. (\A k \in Switched : TileFollows(k)) /\ ShellFollows
  <2>1. \A k \in Switched : s.toggle[k] = Says(s, k)
    BY <1>2, <1>3, <1>14
  <2>2. s.toggle["tech"] = s.own["tech"]
    BY <1>2, <1>14
  <2>3. \A k \in Switched : TileFollows(k)
    BY <1>8, <2>1 DEF TileFollows, TileWaits
  <2> QED BY <1>8, <2>2, <2>3 DEF ShellFollows, ShellWaits
<1> QED BY <1>0, <1>1, <1>2, <1>4, <1>6, <1>8, <1>9, <1>11, <1>12, <1>13 DEF ManagerRight, Begun

LEMMA RestartKeeps ==
  ASSUME RadioInv, Restart
  PROVE  RadioInv'
<1>1. ui # "pane" /\ ui \in {"tile", "bluetooth"}
  BY RadioAssumption DEF RadioInv, RadioTypeOK, PaneRight, Restart
<1>2. /\ panel' = Fresh(ui') /\ pending' = <<>> /\ making' = 0 /\ ui' = ui
      /\ news' = <<[type |-> IF running' THEN "appeared" ELSE "vanished"]>>
      /\ radio' = radio /\ running' = running /\ did' = did
  BY <1>1 DEF Restart, FirstAsks, FirstNews
<1>3. /\ panel' \in Programs /\ pending' \in Seq(RadioCalls) /\ news' \in Seq(RadioNews)
      /\ panel'.alive /\ (\A k \in Switched : panel'.blocks[k] = 0)
      /\ \A k \in Keys : LastIsRight(k)'
      /\ ManagerRight'
  <2>1. Begins'
    BY <1>1, <1>2 DEF RadioInv, RadioTypeOK, Begins
  <2>2. Begins' => Begun'
    BY FreshManager, PTL
  <2> QED BY <2>1, <2>2 DEF Begun
<1>4. RadioTypeOK'
  BY <1>2, <1>3 DEF RadioInv, RadioTypeOK
<1> QED BY <1>1, <1>2, <1>3, <1>4 DEF RadioInv

\* The next call is taken.
LEMMA CallTaken ==
  ASSUME pending \in Seq(RadioCalls), pending # <<>>, pending' = Tail(pending),
         NEW c, c = Head(pending)
  PROVE  /\ c \in RadioCalls /\ pending' \in Seq(RadioCalls)
         /\ \A S : Among(pending, S) <=> c \in S \/ Among(pending', S)
         /\ \A S : Single(pending, S) => Single(pending', S) /\ (c \in S => ~Among(pending', S))
BY Rest, AmongRest, SingleRest

\* It is answered with one message, that says nothing new of the radios.
LEMMA AnsweredManager ==
  ASSUME ManagerKnows, running, running' = running, radio' = radio, panel' = panel,
         making' = making, news \in Seq(RadioNews), NEW m \in RadioNews, news' = Append(news, m),
         m.type \in {"props", "reply"}, NEW c, \A S : Among(pending, S) <=> c \in S \/ Among(pending', S),
         c \in PropsCalls => m \in AllProps, m \in AllProps => c \in PropsCalls
  PROVE  ManagerKnows' /\ (Vanishes' <=> Vanishes)
<1>0. news' = Append(news, m)
  OBVIOUS
<1>1. /\ \A S : Among(news', S) <=> Among(news, S) \/ m \in S
      /\ \A S, T : m \notin S /\ (Followed(news, S, T) \/ m \in T) => Followed(news', S, T)
      /\ \A S, T : NotBefore(news, S, T) /\ ~(Among(news, S) /\ m \in T) => NotBefore(news', S, T)
  BY <1>0, NewsAdded
<1>2. \A types : m \in Of(types) <=> m.type \in types
  BY DEF Of
<1>3. Vanishes' <=> Vanishes
  BY <1>1, <1>2 DEF Vanishes
<1>4. (running => Followed(news, Of({"vanished"}), Of({"appeared"})))'
  BY <1>1, <1>2 DEF ManagerKnows
<1>5. (Among(pending, PropsCalls) => panel.cm /\ ~Vanishes)'
  BY <1>3 DEF ManagerKnows
<1>6. m \in AllProps => ~Among(news, Of({"vanished"})) /\ panel.cm
  BY DEF ManagerKnows, Vanishes
<1>7. (NotBefore(news, Of({"vanished"}), AllProps) /\ (Among(news, AllProps) => panel.cm))'
  BY <1>1, <1>6 DEF ManagerKnows
<1>8. ~WillKnow' => ~WillKnow
  BY <1>1 DEF WillKnow
<1>9. \A k \in Keys : Among(news, Tells(k, radio[k])) => Among(news', Tells(k, radio[k]))
  BY <1>1
<1>10. (running /\ ~Vanishes /\ ~WillKnow =>
          /\ panel.cm
          /\ \A k \in Keys : /\ panel.known[k] # Null
                             /\ panel.known[k] = {radio[k]} \/ Among(news, Tells(k, radio[k])))'
  BY <1>3, <1>8, <1>9 DEF ManagerKnows
<1> QED BY <1>3, <1>4, <1>5, <1>7, <1>10 DEF ManagerKnows

LEMMA ServePropsKeeps ==
  ASSUME RadioInv, panel.alive, pending # <<>>, Served(<<[type |-> "props", error |-> FALSE, radio |-> radio]>>),
         Head(pending).type = "props", UNCHANGED <<radio, running, making, ui, panel, did>>
  PROVE  RadioInv'
<1> DEFINE m == [type |-> "props", error |-> FALSE, radio |-> radio]
           c == Head(pending)
<1>1. /\ radio \in [Keys -> BOOLEAN] /\ news \in Seq(RadioNews) /\ pending \in Seq(RadioCalls)
      /\ running /\ pending' = Tail(pending) /\ news' = news \o <<m>>
      /\ radio' = radio /\ running' = running /\ making' = making /\ ui' = ui /\ panel' = panel
      /\ did' = did
  BY DEF RadioInv, RadioTypeOK, Served
<1>2. m \in RadioNews /\ m.type = "props" /\ ~m.error /\ m.radio = radio
  BY <1>1 DEF RadioNews
<1> HIDE DEF m
<1>3. news' = Append(news, m)
  BY <1>1, <1>2, AppendIsConcat
<1>4. /\ c \in RadioCalls /\ pending' \in Seq(RadioCalls)
      /\ \A S : Among(pending, S) <=> c \in S \/ Among(pending', S)
      /\ \A S : Single(pending, S) => Single(pending', S) /\ (c \in S => ~Among(pending', S))
  BY <1>1, CallTaken
<1>5. c.type = "props"
  OBVIOUS
<1> HIDE DEF c
<1>6. /\ news' \in Seq(RadioNews)
      /\ \A S : Among(news', S) <=> Among(news, S) \/ m \in S
      /\ \A S : Single(news, S) /\ ~(Among(news, S) /\ m \in S) => Single(news', S)
  BY <1>1, <1>2, <1>3, NewsAdded
<1>7. /\ m \in AllProps /\ \A types : m \in Of(types) <=> "props" \in types
      /\ \A k : m \notin Replies(k)
      /\ \A k \in Keys : m \in Tells(k, radio[k]) /\ m \notin Tells(k, ~radio[k])
  BY <1>1, <1>2 DEF AllProps, Of, Replies, Tells
<1>8. c \in PropsCalls /\ \A k, b : c \notin SetCalls(k) /\ c \notin Setting(k, b)
  BY <1>4, <1>5 DEF PropsCalls, SetCalls, Setting
<1>9. RadioTypeOK'
  BY <1>1, <1>4, <1>6 DEF RadioInv, RadioTypeOK
<1>10. \A k \in Keys : LastIsRight(k)'
  BY <1>1, <1>2, <1>3, <1>7, LastKeptBy DEF RadioInv
<1>11. ui = "pane" => PaneRight'
  <2> SUFFICES ASSUME ui = "pane" PROVE PaneRight'
    OBVIOUS
  <2>1. PaneRight
    BY DEF RadioInv
  <2>2. ASSUME NEW k \in Switched
        PROVE  Blocked(k)'
    <3>1. /\ Among(news', Replies(k)) <=> Among(news, Replies(k))
          /\ Among(pending', SetCalls(k)) <=> Among(pending, SetCalls(k))
      BY <1>4, <1>6, <1>7, <1>8
    <3>2. Blocked(k)
      BY <2>1, <2>2 DEF PaneRight
    <3>3. Single(news', Replies(k)) /\ Single(pending', SetCalls(k))
      BY <1>4, <1>6, <1>7, <3>2 DEF Blocked
    <3> QED BY <1>1, <3>1, <3>2, <3>3 DEF Blocked
  <2>3. Vanishes' <=> Vanishes
    BY <1>6, <1>7 DEF Vanishes
  <2>4. \A k \in Switched : PaneKnows(k)'
    BY <1>1, <1>6, <1>7 DEF PaneKnows, Switched, Keys
  <2>5. \A k \in Switched : PaneFollows(k)'
    BY <1>1, <1>6, <1>7 DEF PaneFollows
  <2> QED BY <1>1, <2>1, <2>2, <2>3, <2>4, <2>5 DEF PaneRight
<1>12. ui # "pane" => ManagerRight'
  <2> SUFFICES ASSUME ui # "pane" PROVE ManagerRight'
    OBVIOUS
  <2>1. ManagerRight
    BY DEF RadioInv
  <2>2. ManagerKnows' /\ (Vanishes' <=> Vanishes)
    BY <1>1, <1>2, <1>3, <1>4, <1>7, <1>8, <2>1, AnsweredManager DEF ManagerRight
  <2>3. Asks
    BY <1>4, <1>8 DEF Asks
  <2>4. ASSUME NEW k \in Switched, TileFollows(k)
        PROVE  TileFollows(k)'
    BY <1>1, <2>2, <2>3, <2>4 DEF TileFollows, TileWaits, Says
  <2>5. ShellFollows => ShellFollows'
    BY <1>1, <2>2, <2>3 DEF ShellFollows, ShellWaits
  <2>6. ui = "bluetooth" => TechComes'
    BY <1>1, <1>2, <1>3, <2>1, TechKeptBy DEF ManagerRight
  <2> QED BY <1>1, <2>1, <2>2, <2>4, <2>5, <2>6 DEF ManagerRight
<1> QED BY <1>1, <1>9, <1>10, <1>11, <1>12 DEF RadioInv

LEMMA ServeRefusedKeeps ==
  ASSUME RadioInv, panel.alive, pending # <<>>, Head(pending).type = "set",
         CanRefuse(Head(pending)), Served(<<Failure(Head(pending))>>),
         UNCHANGED <<radio, running, making, ui, panel, did>>
  PROVE  RadioInv'
<1> DEFINE c == Head(pending)
           m == Failure(c)
<1>1. /\ radio \in [Keys -> BOOLEAN] /\ news \in Seq(RadioNews) /\ pending \in Seq(RadioCalls)
      /\ running /\ pending' = Tail(pending) /\ news' = news \o <<m>>
      /\ radio' = radio /\ running' = running /\ making' = making /\ ui' = ui /\ panel' = panel
      /\ did' = did
  BY DEF RadioInv, RadioTypeOK, Served
<1>2. /\ c \in RadioCalls /\ pending' \in Seq(RadioCalls)
      /\ \A S : Among(pending, S) <=> c \in S \/ Among(pending', S)
      /\ \A S : Single(pending, S) => Single(pending', S) /\ (c \in S => ~Among(pending', S))
  BY <1>1, CallTaken
<1>3. c.type = "set" /\ CanRefuse(c)
  OBVIOUS
<1> HIDE DEF c
<1>4. /\ m \in RadioNews /\ m.type = "reply" /\ m.error /\ m.key = c.key
      /\ c.key \in Switched /\ c.value \in BOOLEAN
  BY <1>2, <1>3, FailureFields, CallFields
<1> HIDE DEF m
<1>5. news' = Append(news, m)
  BY <1>1, <1>4, AppendIsConcat
<1>6. /\ news' \in Seq(RadioNews)
      /\ \A S : Among(news', S) <=> Among(news, S) \/ m \in S
      /\ \A S : Single(news, S) /\ ~(Among(news, S) /\ m \in S) => Single(news', S)
  BY <1>1, <1>4, <1>5, NewsAdded
<1>7. /\ m \notin AllProps /\ m \in Errors /\ \A types : m \in Of(types) <=> "reply" \in types
      /\ \A k : m \in Replies(k) <=> k = c.key
      /\ \A k, b : m \notin Tells(k, b)
  BY <1>4 DEF AllProps, Of, Replies, Tells, Errors
<1>8. /\ c \notin PropsCalls /\ \A k : c \in SetCalls(k) <=> k = c.key
      /\ \A k, b : c \in Setting(k, b) <=> k = c.key /\ b = c.value
  BY <1>2, <1>3 DEF PropsCalls, SetCalls, Setting
<1>9. RadioTypeOK'
  BY <1>1, <1>2, <1>6 DEF RadioInv, RadioTypeOK
<1>10. \A k \in Keys : LastIsRight(k)'
  BY <1>1, <1>4, <1>5, <1>7, LastKeptBy DEF RadioInv
<1>11. ui = "pane" => PaneRight'
  <2> SUFFICES ASSUME ui = "pane" PROVE PaneRight'
    OBVIOUS
  <2>1. PaneRight
    BY DEF RadioInv
  <2>2. ASSUME NEW k \in Switched
        PROVE  Blocked(k)'
    <3>1. Blocked(k)
      BY <2>1, <2>2 DEF PaneRight
    <3>2. CASE k = c.key
      <4>1. Among(news', Replies(k)) /\ Among(pending, SetCalls(k)) /\ ~Among(pending', SetCalls(k))
        BY <1>2, <1>6, <1>7, <1>8, <3>1, <3>2 DEF Blocked
      <4>2. Single(news', Replies(k)) /\ Single(pending', SetCalls(k))
        BY <1>2, <1>6, <3>1, <4>1 DEF Blocked
      <4> QED BY <1>1, <3>1, <4>1, <4>2 DEF Blocked
    <3>3. CASE k # c.key
      <4>1. /\ Among(news', Replies(k)) <=> Among(news, Replies(k))
            /\ Among(pending', SetCalls(k)) <=> Among(pending, SetCalls(k))
        BY <1>2, <1>6, <1>7, <1>8, <3>3
      <4>2. Single(news', Replies(k)) /\ Single(pending', SetCalls(k))
        BY <1>2, <1>6, <1>7, <3>1, <3>3 DEF Blocked
      <4> QED BY <1>1, <3>1, <4>1, <4>2 DEF Blocked
    <3> QED BY <3>2, <3>3
  <2>3. Vanishes' <=> Vanishes
    BY <1>6, <1>7 DEF Vanishes
  <2>4. ASSUME NEW k \in Switched, PaneKnows(k)
        PROVE  PaneKnows(k)'
    BY <1>1, <1>2, <1>6, <1>8, <2>4 DEF PaneKnows
  <2>5. ASSUME NEW k \in Switched, PaneFollows(k)
        PROVE  PaneFollows(k)'
    <3>1. c \in Setting(k, panel.toggle[k]) => m \in Replies(k) \cap Errors
      BY <1>7, <1>8
    <3> QED BY <1>1, <1>2, <1>6, <1>8, <2>5, <3>1 DEF PaneFollows
  <2> QED BY <1>1, <2>1, <2>2, <2>3, <2>4, <2>5 DEF PaneRight
<1>12. ui # "pane" => ManagerRight'
  <2> SUFFICES ASSUME ui # "pane" PROVE ManagerRight'
    OBVIOUS
  <2>1. ManagerRight
    BY DEF RadioInv
  <2>2. ManagerKnows' /\ (Vanishes' <=> Vanishes)
    BY <1>1, <1>2, <1>4, <1>5, <1>7, <1>8, <2>1, AnsweredManager DEF ManagerRight
  <2>3. Asks' <=> Asks
    <3>1. Among(pending', PropsCalls) <=> Among(pending, PropsCalls)
      BY <1>2, <1>8
    <3>2. \A types : "reply" \notin types => (Among(news', Of(types)) <=> Among(news, Of(types)))
      BY <1>6, <1>7
    <3> QED BY <1>1, <3>1, <3>2 DEF Asks
  <2>4. ASSUME ui = "tile", "tile" \notin RefusesOffline, NEW k \in Switched, TileFollows(k)
        PROVE  TileFollows(k)'
    <3>1. c \in Setting(k, panel.toggle[k]) => k = "tech"
      BY <1>3, <1>8, <2>4 DEF CanRefuse, MustRefuse, Switched
    <3>2. /\ \A b : Among(pending, Setting(k, b)) =>
                       c \in Setting(k, b) \/ Among(pending', Setting(k, b))
          /\ \A S : Among(news, S) => Among(news', S)
          /\ Among(news', Errors)
      BY <1>2, <1>6, <1>7
    <3>3. Says(panel', k) = Says(panel, k) /\ did' = did /\ panel' = panel /\ running' = running
      BY <1>1
    <3> SUFFICES ASSUME ~Vanishes, k \notin did.lost, panel.toggle[k] # Says(panel, k), running, ~Asks
                 PROVE  \/ Among(pending', Setting(k, panel.toggle[k]))
                        \/ Among(news', Tells(k, panel.toggle[k]))
                        \/ k = "tech" /\ Among(news', Errors)
      BY <2>2, <2>3, <2>4, <3>3 DEF TileFollows, TileWaits
    <3>4. \/ Among(pending, Setting(k, panel.toggle[k])) \/ Among(news, Tells(k, panel.toggle[k]))
          \/ k = "tech" /\ Among(news, Errors)
      BY <2>4 DEF TileFollows, TileWaits
    <3> QED BY <3>1, <3>2, <3>4
  <2>5. ASSUME ui = "bluetooth", "bluetooth" \notin RefusesTech, ShellFollows
        PROVE  ShellFollows'
    <3>10. did' = did /\ panel' = panel /\ running' = running
      BY <1>1
    <3>11. CASE Vanishes \/ "tech" \in did.lost \/ panel.toggle["tech"] = panel.own["tech"]
      BY <2>2, <3>10, <3>11 DEF ShellFollows, ShellWaits
    <3>12. CASE ~(Vanishes \/ "tech" \in did.lost \/ panel.toggle["tech"] = panel.own["tech"])
      <4>1. running /\ ~Asks
        BY <2>5, <3>12 DEF ShellFollows, ShellWaits
      <4> SUFFICES \/ Among(pending', Setting("tech", panel.toggle["tech"]))
                   \/ Among(news', Tells("tech", panel.toggle["tech"]))
                   \/ Among(news', Tells("have", FALSE))
        <5>1. ASSUME ShellWaits' PROVE ShellFollows'
          BY <5>1 DEF ShellFollows
        <5>2. ShellWaits'
          <6>1. running' /\ ~Asks'
            BY <2>3, <3>10, <4>1
          <6>2. /\ Setting("tech", panel'.toggle["tech"]) = Setting("tech", panel.toggle["tech"])
                /\ Tells("tech", panel'.toggle["tech"]) = Tells("tech", panel.toggle["tech"])
            BY <3>10
          <6>3. (\/ Among(pending, Setting("tech", panel.toggle["tech"]))
                 \/ Among(news, Tells("tech", panel.toggle["tech"])) \/ Among(news, Tells("have", FALSE)))'
            BY <6>2
          <6> QED BY <6>1, <6>3 DEF ShellWaits
        <5> QED BY <5>1, <5>2
      <4>2. \/ Among(pending, Setting("tech", panel.toggle["tech"]))
            \/ Among(news, Tells("tech", panel.toggle["tech"])) \/ Among(news, Tells("have", FALSE))
        BY <2>5, <3>12 DEF ShellFollows, ShellWaits
      <4> SUFFICES ASSUME c \in Setting("tech", panel.toggle["tech"]), ~Among(news, Tells("have", FALSE))
                   PROVE  Among(news, Tells("tech", panel.toggle["tech"]))
        BY <1>2, <1>6, <4>2
      <4>3. c.key = "tech" /\ c.value = panel.toggle["tech"]
        BY <1>8
      <4>4. ~radio["have"] \/ radio["tech"] = panel.toggle["tech"]
        BY <1>3, <2>5, <4>3 DEF CanRefuse, MustRefuse
      <4>5. ~WillKnow
        <5>1. Among(news, Of({"appeared", "proxy"})) => Among(news, Of({"appeared", "proxy", "props"}))
          BY DEF Among, Of
        <5>2. Among(news, AllProps) => Among(news, Of({"appeared", "proxy", "props"}))
          BY DEF Among, Of, AllProps
        <5> QED BY <4>1, <5>1, <5>2 DEF WillKnow, Asks
      <4>6. \A k \in Keys : panel.known[k] = {radio[k]} \/ Among(news, Tells(k, radio[k]))
        BY <1>1, <2>1, <3>12, <4>5 DEF ManagerRight, ManagerKnows
      <4>7. ShellFits(panel) /\ "have" \in Keys /\ "tech" \in Keys
        BY <2>1, <2>5 DEF ManagerRight, Keys
      <4>8. radio["have"]
        <5>1. ~radio["have"] => panel.known["have"] = {FALSE}
          BY <1>1, <4>6, <4>7
        <5>2. ~radio["have"] => ~Says(panel, "have")
          BY <5>1, SaysIs
        <5>3. ~Says(panel, "have") => panel.toggle["tech"] = panel.own["tech"]
          BY <4>7 DEF ShellFits
        <5> QED BY <3>12, <5>2, <5>3
      <4>9. panel.known["tech"] # {radio["tech"]}
        <5>1. panel.known["tech"] = {radio["tech"]} => Says(panel, "tech") = radio["tech"]
          BY <1>1, <4>7, SaysIs
        <5>2. panel.own["tech"] = Says(panel, "tech")
          BY <4>7 DEF ShellFits
        <5> QED BY <3>12, <4>4, <4>8, <5>1, <5>2
      <4> QED BY <4>4, <4>6, <4>7, <4>8, <4>9
    <3> QED BY <3>11, <3>12
  <2>6. ui = "bluetooth" => TechComes'
    BY <1>1, <1>4, <1>5, <2>1, TechKeptBy DEF ManagerRight
  <2> QED BY <1>1, <2>1, <2>2, <2>4, <2>5, <2>6 DEF ManagerRight
<1> QED BY <1>1, <1>9, <1>10, <1>11, <1>12 DEF RadioInv

\* The radios change, and connman says so.
LEMMA Moved ==
  ASSUME RadioInv, panel.alive, running, running' = running, making' = making, ui' = ui,
         panel' = panel, did'.lost = did.lost, did'.exits = did.exits,
         NEW j \in Keys, NEW v \in BOOLEAN, ~(j = "tech" /\ v /\ ~radio["have"]),
         radio' = With(radio, j, v),
         NEW y \in Seq(RadioNews), news' = news \o y, Announces(y, radio, radio'),
         Among(pending', PropsCalls) <=> Among(pending, PropsCalls),
         \A k \in Switched, b \in BOOLEAN :
           Among(pending, Setting(k, b)) => Among(pending', Setting(k, b)) \/ radio'[k] = b
  PROVE  /\ radio' \in [Keys -> BOOLEAN] /\ (radio'["tech"] => radio'["have"])
         /\ news' \in Seq(RadioNews) /\ \A k \in Keys : LastIsRight(k)'
         /\ ui = "pane" => (PaneRight' <=> \A k \in Switched : Blocked(k)')
         /\ ui # "pane" => ManagerRight'
<1>1. /\ radio \in [Keys -> BOOLEAN] /\ (radio["tech"] => radio["have"]) /\ news \in Seq(RadioNews)
      /\ panel \in Programs
  BY DEF RadioInv, RadioTypeOK
<1>2. /\ radio' \in [Keys -> BOOLEAN] /\ (radio'["tech"] => radio'["have"])
      /\ radio'["have"] /\ ~radio["have"] => ~radio'["tech"] /\ ~radio["tech"]
  BY <1>1, WithFields
<1>3. "have" \in Keys /\ "tech" \in Keys /\ "tech" \in Switched /\ Switched \subseteq Keys
  BY DEF Keys, Switched
<1>4. /\ news' \in Seq(RadioNews)
      /\ \A S : Among(news', S) <=> Among(news, S) \/ Among(y, S)
  BY <1>1, ConcatProperties, AmongJoined
<1>5. /\ \A types : "signal" \notin types /\ "reply" \notin types => ~Among(y, Of(types))
      /\ ~Among(y, AllProps)
      /\ \A k \in Keys, b \in BOOLEAN : /\ Among(y, Tells(k, b)) <=> radio[k] # radio'[k] /\ radio'[k] = b
                                        /\ Among(y, Turned(k, b)) <=> radio[k] # radio'[k] /\ radio'[k] = b
  BY DEF Announces
<1>6. ASSUME NEW k \in Keys
      PROVE  /\ ~Among(y, Tells(k, ~radio'[k]))
             /\ radio[k] = radio'[k] \/ Among(y, Tells(k, radio'[k]))
             /\ radio[k] \in BOOLEAN /\ radio'[k] \in BOOLEAN
  BY <1>1, <1>2, <1>5, <1>6
<1>7. ASSUME NEW k \in Keys
      PROVE  LastIsRight(k)'
  <2>1. Followed(news, Tells(k, ~radio[k]), Tells(k, radio[k]) \cup Of({"vanished"}))
    BY <1>7 DEF RadioInv, LastIsRight
  <2>2. Followed(news \o y, Tells(k, ~radio'[k]), Tells(k, radio'[k]) \cup Of({"vanished"}))
    BY <1>1, <1>6, <1>7, <2>1, LastKept
  <2> QED BY <2>2 DEF LastIsRight
<1>8. Vanishes' <=> Vanishes
  BY <1>4, <1>5 DEF Vanishes
<1>9. ASSUME NEW k \in Keys, Among(news, Tells(k, radio[k]))
      PROVE  Among(news', Tells(k, radio'[k]))
  BY <1>4, <1>6, <1>9
<1>10. ASSUME ui = "pane"
       PROVE  PaneRight' <=> \A k \in Switched : Blocked(k)'
  <2>1. PaneRight
    BY <1>10 DEF RadioInv
  <2>2. ASSUME NEW k \in Switched, PaneKnows(k)
        PROVE  PaneKnows(k)'
    <3>0. k \in Keys
      BY DEF Switched, Keys
    <3>1. CASE radio[k] # radio'[k]
      BY <1>4, <1>6, <2>2, <3>0, <3>1 DEF PaneKnows
    <3>2. CASE radio[k] = radio'[k]
      BY <1>4, <2>2, <3>2 DEF PaneKnows
    <3> QED BY <3>1, <3>2
  <2>3. ASSUME NEW k \in Switched, PaneFollows(k), PaneKnows(k)'
        PROVE  PaneFollows(k)'
    <3>1. k \in Keys /\ panel.toggle[k] \in BOOLEAN
      BY <1>1, <1>3, <2>3, ProgramFields
    <3>2. CASE radio'[k] = panel.toggle[k]
      BY <2>3, <3>2 DEF PaneKnows, PaneFollows
    <3>3. CASE radio'[k] # panel.toggle[k]
      BY <1>4, <2>3, <3>1, <3>3 DEF PaneFollows
    <3> QED BY <3>2, <3>3
  <2> QED BY <1>3, <1>8, <2>1, <2>2, <2>3 DEF PaneRight
<1>11. ASSUME ui # "pane"
       PROVE  ManagerRight'
  <2>1. ManagerRight /\ ManagerKnows
    BY <1>11 DEF RadioInv, ManagerRight
  <2>2. /\ WillKnow' <=> WillKnow
        /\ Asks' <=> Asks
    BY <1>4, <1>5 DEF WillKnow, Asks
  <2>3. ManagerKnows'
    <3>1. (running => Followed(news, Of({"vanished"}), Of({"appeared"})))'
      <4>1. Followed(y, Of({"vanished"}), Of({"appeared"}))
        BY <1>5, NoneAmong
      <4> QED BY <1>1, <2>1, <4>1, FollowedJoined DEF ManagerKnows
    <3>2. (Among(pending, PropsCalls) => panel.cm /\ ~Vanishes)'
      BY <1>8, <2>1 DEF ManagerKnows
    <3>3. (NotBefore(news, Of({"vanished"}), AllProps) /\ (Among(news, AllProps) => panel.cm))'
      <4>1. NotBefore(y, Of({"vanished"}), AllProps)
        BY <1>5, NoneAmong
      <4>2. NotBefore(news \o y, Of({"vanished"}), AllProps)
        BY <1>1, <1>5, <2>1, <4>1, NotBeforeJoined DEF ManagerKnows
      <4> QED BY <1>4, <1>5, <2>1, <4>2 DEF ManagerKnows
    <3>4. (running /\ ~Vanishes /\ ~WillKnow =>
             /\ panel.cm
             /\ \A k \in Keys : /\ panel.known[k] # Null
                                /\ panel.known[k] = {radio[k]} \/ Among(news, Tells(k, radio[k])))'
      <4> SUFFICES ASSUME ~Vanishes, ~WillKnow
                   PROVE  /\ panel.cm
                          /\ \A k \in Keys : /\ panel.known[k] # Null
                                             /\ \/ panel.known[k] = {radio'[k]}
                                                \/ Among(news', Tells(k, radio'[k]))
        BY <1>8, <2>2
      <4>1. /\ panel.cm
            /\ \A k \in Keys : /\ panel.known[k] # Null
                               /\ panel.known[k] = {radio[k]} \/ Among(news, Tells(k, radio[k]))
        BY <2>1 DEF ManagerKnows
      <4>2. ASSUME NEW k \in Keys, panel.known[k] = {radio[k]}
            PROVE  panel.known[k] = {radio'[k]} \/ Among(news', Tells(k, radio'[k]))
        BY <1>4, <1>6, <4>2
      <4> QED BY <1>9, <4>1, <4>2
    <3>5. (panel.known["have"] # Null => panel.cm /\ (running \/ Vanishes))'
      BY <2>1 DEF ManagerKnows
    <3> QED BY <3>1, <3>2, <3>3, <3>4, <3>5 DEF ManagerKnows
  <2>4. ASSUME NEW k \in Keys, running, ~Vanishes, ~Asks
        PROVE  Says(panel, k) = radio'[k] \/ Among(news', Tells(k, radio'[k]))
    <3>1. ~WillKnow'
      <4>1. Among(news, Of({"appeared", "proxy"})) => Among(news, Of({"appeared", "proxy", "props"}))
        BY DEF Among, Of
      <4>2. Among(news, AllProps) => Among(news, Of({"appeared", "proxy", "props"}))
        BY DEF Among, Of, AllProps
      <4> QED BY <2>2, <2>4, <4>1, <4>2 DEF WillKnow, Asks
    <3>2. panel.known[k] = {radio'[k]} \/ Among(news', Tells(k, radio'[k]))
      BY <1>8, <2>3, <2>4, <3>1 DEF ManagerKnows
    <3> DEFINE b == radio'[k]
    <3>3. b \in BOOLEAN
      BY <1>2, <2>4
    <3> HIDE DEF b
    <3>4. ASSUME panel.known[k] = {b}
          PROVE  Says(panel, k) = b
      BY <3>3, <3>4, SaysOf
    <3> QED BY <3>2, <3>4 DEF b
  <2>5. ASSUME NEW k \in Switched, NEW b \in BOOLEAN, running, ~Vanishes, ~Asks,
               Among(pending, Setting(k, b)) \/ Among(news, Tells(k, b))
        PROVE  \/ Among(pending', Setting(k, b)) \/ Among(news', Tells(k, b)) \/ Says(panel, k) = b
    <3>1. CASE radio'[k] = b
      BY <1>3, <2>4, <2>5, <3>1
    <3>2. CASE radio'[k] # b
      BY <1>4, <2>5, <3>2
    <3> QED BY <3>1, <3>2
  <2>6. ASSUME NEW k \in Switched, TileFollows(k)
        PROVE  TileFollows(k)'
    <3> DEFINE b == panel.toggle[k]
    <3>1. b \in BOOLEAN
      BY <1>1, <2>6, ProgramFields
    <3>2. ~Vanishes /\ k \notin did.lost /\ b # Says(panel, k) =>
            /\ running /\ ~Asks
            /\ \/ Among(pending, Setting(k, b)) \/ Among(news, Tells(k, b))
               \/ k = "tech" /\ Among(news, Errors)
      BY <2>6 DEF TileFollows, TileWaits
    <3>3. panel'.toggle[k] = b /\ Says(panel', k) = Says(panel, k)
      OBVIOUS
    <3> HIDE DEF b
    <3>4. ~Vanishes /\ k \notin did.lost /\ b # Says(panel, k) =>
            /\ running' /\ ~Asks'
            /\ \/ Among(pending', Setting(k, b)) \/ Among(news', Tells(k, b))
               \/ k = "tech" /\ Among(news', Errors)
      BY <1>4, <2>2, <2>5, <2>6, <3>1, <3>2
    <3>5. (~Vanishes /\ k \notin did.lost)' => ~Vanishes /\ k \notin did.lost
      BY <1>8
    <3> QED BY <3>3, <3>4, <3>5 DEF TileFollows, TileWaits
  <2>7. ASSUME ShellFollows, ShellFits(panel)
        PROVE  ShellFollows'
    <3> DEFINE b == panel.toggle["tech"]
               o == panel.own["tech"]
    <3>1. b \in BOOLEAN
      BY <1>1, <1>3, ProgramFields
    <3>2. ~Vanishes /\ "tech" \notin did.lost /\ b # o =>
            /\ running /\ ~Asks
            /\ \/ Among(pending, Setting("tech", b)) \/ Among(news, Tells("tech", b))
               \/ Among(news, Tells("have", FALSE))
      BY <2>7 DEF ShellFollows, ShellWaits
    <3>3. panel'.toggle["tech"] = b /\ panel'.own["tech"] = o
      OBVIOUS
    <3>4. o = Says(panel, "tech")
      BY <2>7 DEF ShellFits
    <3> HIDE DEF b, o
    <3>5. ~Vanishes /\ "tech" \notin did.lost /\ b # o =>
            /\ running' /\ ~Asks'
            /\ \/ Among(pending', Setting("tech", b)) \/ Among(news', Tells("tech", b))
               \/ Among(news', Tells("have", FALSE))
      BY <1>3, <1>4, <2>2, <2>5, <3>1, <3>2, <3>4
    <3>6. (~Vanishes /\ "tech" \notin did.lost)' => ~Vanishes /\ "tech" \notin did.lost
      BY <1>8
    <3> QED BY <3>3, <3>5, <3>6 DEF ShellFollows, ShellWaits
  <2>8. ASSUME TechComes
        PROVE  TechComes'
    <3>1. radio'["tech"] => radio["tech"] \/ Among(y, Turned("tech", TRUE))
      BY <1>1, <1>2, <1>3, <1>5
    <3>2. Among(y, Turned("tech", FALSE)) => radio["tech"]
      BY <1>1, <1>2, <1>3, <1>5
    <3>3. Among(y, Turned("have", TRUE)) => radio'["have"] /\ ~radio["have"]
      BY <1>1, <1>2, <1>3, <1>5
    <3>4. Among(y, Turned("have", TRUE)) => ~radio'["tech"] /\ ~Among(y, Turned("tech", FALSE))
      BY <1>2, <3>2, <3>3
    <3> QED BY <1>1, <2>8, <3>1, <3>2, <3>4, TechKept
  <2> QED BY <2>1, <2>3, <2>6, <2>7, <2>8 DEF ManagerRight
<1> QED BY <1>2, <1>4, <1>7, <1>10, <1>11

LEMMA RadioChangesKeeps ==
  ASSUME RadioInv, NEW j \in Keys, RadioChanges(j)
  PROVE  RadioInv'
<1> DEFINE x == RadioSignals(radio, radio')
           v == ~radio[j]
<1>1. /\ radio \in [Keys -> BOOLEAN] /\ (radio["tech"] => radio["have"]) /\ news \in Seq(RadioNews)
      /\ running /\ (j = "tech" => radio["have"]) /\ radio' = With(radio, j, v)
      /\ news' = IF panel.alive THEN news \o x ELSE news
      /\ running' = running /\ pending' = pending /\ making' = making /\ ui' = ui /\ panel' = panel
      /\ did' = [did EXCEPT !.changes = did.changes + 1]
      /\ did \in [toggles: Nat, changes: Nat, exits: Nat, lost: SUBSET Switched]
  BY DEF RadioInv, RadioTypeOK, RadioChanges
<1>2. v \in BOOLEAN
  OBVIOUS
<1> HIDE DEF v
<1>3. radio' \in [Keys -> BOOLEAN] /\ (radio'["tech"] => radio'["have"])
  BY <1>1, <1>2, WithFields
<1>4. /\ x \in Seq(RadioNews) /\ Announces(x, radio, radio')
      /\ \A k : ~Among(x, Replies(k))
  BY <1>1, <1>3, SignalsAre
<1> HIDE DEF x
<1>5. /\ did' \in [toggles: Nat, changes: Nat, exits: Nat, lost: SUBSET Switched]
      /\ did'.lost = did.lost /\ did'.exits = did.exits
  BY <1>1
<1>6. CASE ~panel.alive
  <2>1. ui # "pane"
    BY <1>6 DEF RadioInv, PaneRight
  <2>2. RadioTypeOK'
    BY <1>1, <1>3, <1>5, <1>6 DEF RadioInv, RadioTypeOK
  <2> QED BY <1>1, <1>3, <1>6, <2>1, <2>2 DEF RadioInv
<1>7. CASE panel.alive
  <2>0. news' = news \o x /\ running /\ running' = running /\ making' = making /\ ui' = ui
        /\ panel' = panel /\ ~(j = "tech" /\ v /\ ~radio["have"]) /\ radio' = With(radio, j, v)
    BY <1>1, <1>7
  <2>9. Among(pending', PropsCalls) <=> Among(pending, PropsCalls)
    BY <1>1
  <2>10. \A k \in Switched, b \in BOOLEAN :
           Among(pending, Setting(k, b)) => Among(pending', Setting(k, b)) \/ radio'[k] = b
    BY <1>1
  <2>1. /\ news' \in Seq(RadioNews) /\ \A k \in Keys : LastIsRight(k)'
        /\ ui = "pane" => (PaneRight' <=> \A k \in Switched : Blocked(k)')
        /\ ui # "pane" => ManagerRight'
    BY <1>2, <1>4, <1>5, <1>7, <2>0, <2>9, <2>10, Moved
  <2>2. RadioTypeOK'
    BY <1>1, <1>3, <1>5, <2>1 DEF RadioInv, RadioTypeOK
  <2>3. ASSUME ui = "pane", NEW k \in Switched
        PROVE  Blocked(k)'
    <3>1. Blocked(k)
      BY <2>3 DEF RadioInv, PaneRight
    <3>2. Among(news', Replies(k)) <=> Among(news, Replies(k))
      BY <1>1, <1>4, <2>0, AmongJoined
    <3>3. Single(news', Replies(k))
      <4>1. Single(x, Replies(k))
        BY <1>4, NoneAmong
      <4> QED BY <1>1, <1>4, <2>0, <3>1, <4>1, SingleJoined DEF Blocked
    <3> QED BY <1>1, <3>1, <3>2, <3>3 DEF Blocked
  <2> QED BY <1>1, <1>3, <2>1, <2>2, <2>3 DEF RadioInv
<1> QED BY <1>6, <1>7

\* A call that switches succeeds.
Done(c) == [type |-> "reply", key |-> c.key, error |-> FALSE]

LEMMA ServeDoneKeeps ==
  ASSUME RadioInv, panel.alive, pending # <<>>, Head(pending).type = "set",
         ~MustRefuse(Head(pending)), radio' = With(radio, Head(pending).key, Head(pending).value),
         \/ Served(RadioSignals(radio, radio') \o <<Done(Head(pending))>>)
         \/ Served(<<Done(Head(pending))>> \o RadioSignals(radio, radio')),
         UNCHANGED <<running, making, ui, panel, did>>
  PROVE  RadioInv'
<1> DEFINE c == Head(pending)
           m == Done(c)
           d == <<m>>
           x == RadioSignals(radio, radio')
           j == c.key
           v == c.value
<1>1. /\ radio \in [Keys -> BOOLEAN] /\ (radio["tech"] => radio["have"]) /\ news \in Seq(RadioNews)
      /\ pending \in Seq(RadioCalls) /\ running /\ pending' = Tail(pending)
      /\ running' = running /\ making' = making /\ ui' = ui /\ panel' = panel /\ did' = did
  BY DEF RadioInv, RadioTypeOK, Served
<1>20. radio' = With(radio, j, v) /\ (Served(x \o d) \/ Served(d \o x))
  OBVIOUS
<1>2. /\ c \in RadioCalls /\ pending' \in Seq(RadioCalls)
      /\ \A S : Among(pending, S) <=> c \in S \/ Among(pending', S)
      /\ \A S : Single(pending, S) => Single(pending', S) /\ (c \in S => ~Among(pending', S))
  BY <1>1, CallTaken
<1>3. c.type = "set" /\ j \in Switched /\ v \in BOOLEAN /\ j \in Keys
  BY <1>2, CallFields DEF Switched, Keys
<1>4. ~(j = "tech" /\ v /\ ~radio["have"])
  BY DEF MustRefuse
<1>21. m \in RadioNews /\ m.type = "reply" /\ m.key = j /\ m.error = FALSE
  BY <1>3 DEF RadioNews, Done
<1>22. /\ c \notin PropsCalls /\ \A k : c \in SetCalls(k) <=> k = j
       /\ \A k, b : c \in Setting(k, b) => k = j /\ b = v
  BY <1>2, <1>3 DEF PropsCalls, SetCalls, Setting
<1> HIDE DEF j, v
<1>5. radio' \in [Keys -> BOOLEAN] /\ (radio'["tech"] => radio'["have"]) /\ radio'[j] = v
  BY <1>1, <1>3, <1>4, <1>20, WithFields
<1>6. /\ x \in Seq(RadioNews) /\ Announces(x, radio, radio')
      /\ \A k : ~Among(x, Replies(k))
  BY <1>1, <1>5, SignalsAre
<1> HIDE DEF c, m, x
<1>9. /\ d \in Seq(RadioNews) /\ \A S : (Among(d, S) <=> m \in S) /\ Single(d, S)
  BY <1>21, OnlyOne
<1> HIDE DEF d
<1>10. /\ m \notin AllProps /\ \A types : m \in Of(types) <=> "reply" \in types
       /\ \A k : m \in Replies(k) <=> k = j
       /\ \A k, b : m \notin Tells(k, b) /\ m \notin Turned(k, b)
  BY <1>21 DEF AllProps, Of, Replies, Tells, Turned
<1>11. PICK y \in Seq(RadioNews) :
         /\ news' = news \o y /\ \A S : Among(y, S) <=> Among(x, S) \/ m \in S
         /\ \A S : ~Among(x, S) => Single(y, S)
  <2>1. CASE Served(x \o d)
    <3>1. x \o d \in Seq(RadioNews) /\ \A S : Among(x \o d, S) <=> Among(x, S) \/ Among(d, S)
      BY <1>6, <1>9, ConcatProperties, AmongJoined
    <3>2. ASSUME NEW S, ~Among(x, S) PROVE Single(x \o d, S)
      BY <1>6, <1>9, <3>2, NoneAmong, SingleJoined
    <3> QED BY <1>9, <2>1, <3>1, <3>2 DEF Served
  <2>2. CASE Served(d \o x)
    <3>1. d \o x \in Seq(RadioNews) /\ \A S : Among(d \o x, S) <=> Among(d, S) \/ Among(x, S)
      BY <1>6, <1>9, ConcatProperties, AmongJoined
    <3>2. ASSUME NEW S, ~Among(x, S) PROVE Single(d \o x, S)
      BY <1>6, <1>9, <3>2, NoneAmong, SingleJoined
    <3> QED BY <1>9, <2>2, <3>1, <3>2 DEF Served
  <2> QED BY <1>20, <2>1, <2>2
<1>12. Announces(y, radio, radio')
  BY <1>6, <1>10, <1>11 DEF Announces
<1>14. /\ Among(pending', PropsCalls) <=> Among(pending, PropsCalls)
       /\ \A k \in Switched, b \in BOOLEAN :
            Among(pending, Setting(k, b)) => Among(pending', Setting(k, b)) \/ radio'[k] = b
  BY <1>2, <1>5, <1>22
<1>15. did'.lost = did.lost /\ did'.exits = did.exits /\ radio' = With(radio, j, v)
  BY <1>1, <1>20
<1>16. /\ news' \in Seq(RadioNews) /\ \A k \in Keys : LastIsRight(k)'
       /\ ui = "pane" => (PaneRight' <=> \A k \in Switched : Blocked(k)')
       /\ ui # "pane" => ManagerRight'
  BY <1>1, <1>3, <1>4, <1>11, <1>12, <1>14, <1>15, Moved
<1>17. RadioTypeOK'
  BY <1>1, <1>2, <1>5, <1>16 DEF RadioInv, RadioTypeOK
<1>18. ASSUME ui = "pane", NEW k \in Switched
       PROVE  Blocked(k)'
  <2>1. Blocked(k)
    BY <1>18 DEF RadioInv, PaneRight
  <2>2. Among(news', Replies(k)) <=> Among(news, Replies(k)) \/ k = j
    BY <1>1, <1>6, <1>10, <1>11, AmongJoined
  <2>3. Single(y, Replies(k)) /\ (Among(y, Replies(k)) <=> k = j)
    BY <1>6, <1>10, <1>11
  <2>4. CASE k = j
    <3>1. Among(pending, SetCalls(k)) /\ ~Among(pending', SetCalls(k)) /\ Single(pending', SetCalls(k))
      BY <1>2, <1>22, <2>1, <2>4 DEF Blocked
    <3>2. Single(news', Replies(k))
      BY <1>1, <1>11, <2>1, <2>3, <3>1, SingleJoined DEF Blocked
    <3> QED BY <1>1, <2>1, <2>2, <2>4, <3>1, <3>2 DEF Blocked
  <2>5. CASE k # j
    <3>1. Among(pending', SetCalls(k)) <=> Among(pending, SetCalls(k))
      BY <1>2, <1>22, <2>5
    <3>2. Single(pending', SetCalls(k))
      BY <1>2, <2>1 DEF Blocked
    <3>3. Single(news', Replies(k))
      BY <1>1, <1>11, <2>1, <2>3, <2>5, SingleJoined DEF Blocked
    <3> QED BY <1>1, <2>1, <2>2, <2>5, <3>1, <3>2, <3>3 DEF Blocked
  <2> QED BY <2>4, <2>5
<1> QED BY <1>1, <1>5, <1>16, <1>17, <1>18 DEF RadioInv

LEMMA ServeKeeps ==
  ASSUME RadioInv, panel.alive, pending # <<>>, Serve(Head(pending))
  PROVE  RadioInv'
<1> DEFINE c == Head(pending)
           sigs == RadioSignals(radio, radio')
           done == <<Done(c)>>
<1>1. UNCHANGED <<running, making, ui, panel, did>>
  BY DEF Serve
<1>2. CASE /\ c.type = "props" /\ UNCHANGED radio
           /\ Served(<<[type |-> "props", error |-> FALSE, radio |-> radio]>>)
  <2>1. UNCHANGED <<radio, running, making, ui, panel, did>>
    BY <1>1, <1>2
  <2> QED BY <1>2, <2>1, ServePropsKeeps
<1>3. CASE c.type = "set" /\ CanRefuse(c) /\ Served(<<Failure(c)>>) /\ UNCHANGED radio
  <2>1. UNCHANGED <<radio, running, making, ui, panel, did>>
    BY <1>1, <1>3
  <2> QED BY <1>3, <2>1, ServeRefusedKeeps
<1>4. CASE /\ c.type = "set" /\ ~MustRefuse(c) /\ radio' = With(radio, c.key, c.value)
           /\ Served(sigs \o done) \/ Served(done \o sigs)
  BY <1>1, <1>4, ServeDoneKeeps
<1> QED BY <1>2, <1>3, <1>4 DEF Serve, ServeSet, Done

(***************************************************************************)
(* Somebody toggles.                                                       *)
(***************************************************************************)
LEMMA ToggleFields ==
  ASSUME RadioTypeOK, NEW key \in Switched, Toggle(key)
  PROVE  LET v == ~panel.toggle[key]
         IN /\ v \in BOOLEAN /\ panel' \in Programs /\ panel'.alive /\ panel.alive
            /\ panel'.cm = panel.cm /\ panel'.known = panel.known /\ panel'.own = panel.own
            /\ panel'.toggle[key] = v /\ \A k \in Switched \ {key} : panel'.toggle[k] = panel.toggle[k]
            /\ panel'.blocks = IF ui = "pane" /\ ToggleSends(key, v) THEN [panel.blocks EXCEPT ![key] = 1]
                               ELSE panel.blocks
            /\ Visible(key) /\ (ui = "bluetooth" => key = "tech")
            /\ IF ToggleSends(key, v) THEN Send([type |-> "set", key |-> key, value |-> v], news)
               ELSE pending' = pending /\ news' = news
            /\ did' \in [toggles: Nat, changes: Nat, exits: Nat, lost: SUBSET Switched]
            /\ did'.exits = did.exits /\ (\A k \in Switched : k \in did.lost => k \in did'.lost)
            /\ (ui = "pane" /\ ~ToggleSends(key, v)) \/ StillAsks => key \in did'.lost
            /\ radio' = radio /\ running' = running /\ making' = making /\ ui' = ui
<1> DEFINE v == ~panel.toggle[key]
           s == AndToggle(panel, key, v)
           t == AndBlocks(s, key, 1)
           loses == (ui = "pane" /\ ~ToggleSends(key, v)) \/ StillAsks
           lost == IF loses THEN did.lost \cup {key} ELSE did.lost
<1>1. panel \in Programs /\ did \in [toggles: Nat, changes: Nat, exits: Nat, lost: SUBSET Switched]
  BY DEF RadioTypeOK
<1>2. v \in BOOLEAN
  OBVIOUS
<1>3. /\ panel.alive /\ Visible(key) /\ (ui = "bluetooth" => key = "tech")
      /\ panel' = IF ui = "pane" /\ ToggleSends(key, v) THEN t ELSE s
      /\ IF ToggleSends(key, v) THEN Send([type |-> "set", key |-> key, value |-> v], news)
         ELSE pending' = pending /\ news' = news
      /\ did' = [did EXCEPT !.toggles = did.toggles + 1, !.lost = lost]
      /\ radio' = radio /\ running' = running /\ making' = making /\ ui' = ui
  BY DEF Toggle, AndToggle, AndBlocks
<1> HIDE DEF v, s, t
<1>4. /\ s \in Programs /\ s.toggle = [panel.toggle EXCEPT ![key] = v]
      /\ s.alive = panel.alive /\ s.cm = panel.cm /\ s.known = panel.known
      /\ s.own = panel.own /\ s.blocks = panel.blocks
  BY <1>1, <1>2, SetToggle DEF s
<1>5. /\ t \in Programs /\ t.blocks = [s.blocks EXCEPT ![key] = 1]
      /\ t.alive = s.alive /\ t.cm = s.cm /\ t.known = s.known /\ t.own = s.own
      /\ t.toggle = s.toggle
  <2>1. s \in Programs /\ 1 \in Nat
    BY <1>4
  <2> QED BY <2>1, SetBlocks DEF t
<1>6. /\ panel' \in Programs /\ panel'.alive /\ panel'.cm = panel.cm /\ panel'.known = panel.known
      /\ panel'.own = panel.own /\ panel'.toggle = [panel.toggle EXCEPT ![key] = v]
      /\ panel'.blocks = IF ui = "pane" /\ ToggleSends(key, v) THEN [panel.blocks EXCEPT ![key] = 1]
                         ELSE panel.blocks
  BY <1>3, <1>4, <1>5
<1>7. panel'.toggle[key] = v /\ \A k \in Switched \ {key} : panel'.toggle[k] = panel.toggle[k]
  BY <1>1, <1>6, ProgramFields
<1>8. /\ did' \in [toggles: Nat, changes: Nat, exits: Nat, lost: SUBSET Switched]
      /\ did'.exits = did.exits /\ did'.lost = lost
  <2>1. lost \in SUBSET Switched /\ did.toggles + 1 \in Nat
    BY <1>1
  <2> HIDE DEF lost
  <2> QED BY <1>1, <1>3, <2>1
<1>9. /\ \A k \in Switched : k \in did.lost => k \in did'.lost
      /\ (ui = "pane" /\ ~ToggleSends(key, v)) \/ StillAsks => key \in did'.lost
  BY <1>8
<1> QED BY <1>2, <1>3, <1>6, <1>7, <1>8, <1>9 DEF v

\* Nothing that the manager knows of changes.
LEMMA ManagerKept ==
  ASSUME ManagerKnows, news \in Seq(RadioNews), running' = running, radio' = radio,
         making' = making, panel'.cm = panel.cm, panel'.known = panel.known,
         Among(pending', PropsCalls) <=> Among(pending, PropsCalls),
         news' = news \/ \E m \in RadioNews : m.type = "reply" /\ news' = Append(news, m)
  PROVE  /\ ManagerKnows' /\ (Vanishes' <=> Vanishes) /\ (Asks' <=> Asks)
         /\ \A S : Among(news, S) => Among(news', S)
<1>1. CASE news' = news
  <2>1. (Vanishes' <=> Vanishes) /\ (Asks' <=> Asks) /\ (WillKnow' <=> WillKnow)
    BY <1>1 DEF Vanishes, Asks, WillKnow
  <2> QED BY <1>1, <2>1 DEF ManagerKnows
<1>2. ASSUME NEW m \in RadioNews, m.type = "reply", news' = Append(news, m)
      PROVE  /\ ManagerKnows' /\ (Vanishes' <=> Vanishes) /\ (Asks' <=> Asks)
             /\ \A S : Among(news, S) => Among(news', S)
  <2>1. /\ \A S : Among(news', S) <=> Among(news, S) \/ m \in S
        /\ \A S, T : m \notin S /\ (Followed(news, S, T) \/ m \in T) => Followed(news', S, T)
        /\ \A S, T : NotBefore(news, S, T) /\ ~(Among(news, S) /\ m \in T) => NotBefore(news', S, T)
    BY <1>2, NewsAdded
  <2>2. /\ m \notin AllProps /\ (\A types : m \in Of(types) <=> "reply" \in types)
        /\ \A k, b : m \notin Tells(k, b)
    BY <1>2 DEF AllProps, Of, Tells
  <2>3. (Vanishes' <=> Vanishes) /\ (Asks' <=> Asks) /\ (WillKnow' <=> WillKnow)
    BY <2>1, <2>2 DEF Vanishes, Asks, WillKnow
  <2>4. (running => Followed(news, Of({"vanished"}), Of({"appeared"})))'
    BY <2>1, <2>2 DEF ManagerKnows
  <2>5. (~running => Followed(news, AllProps \cup Of({"signal"}), Of({"vanished"})))'
    BY <2>1, <2>2 DEF ManagerKnows
  <2>6. (Among(pending, PropsCalls) => panel.cm /\ ~Vanishes)'
    BY <2>3 DEF ManagerKnows
  <2>7. (NotBefore(news, Of({"vanished"}), AllProps) /\ (Among(news, AllProps) => panel.cm))'
    BY <2>1, <2>2 DEF ManagerKnows
  <2>8. (running /\ ~Vanishes /\ ~WillKnow =>
           /\ panel.cm
           /\ \A k \in Keys : /\ panel.known[k] # Null
                              /\ panel.known[k] = {radio[k]} \/ Among(news, Tells(k, radio[k])))'
    BY <2>1, <2>3 DEF ManagerKnows
  <2>9. (panel.known["have"] # Null => panel.cm /\ (running \/ Vanishes))'
    BY <2>3 DEF ManagerKnows
  <2> QED BY <2>1, <2>3, <2>4, <2>5, <2>6, <2>7, <2>8, <2>9 DEF ManagerKnows
<1> QED BY <1>1, <1>2

\* A call is sent, or fails at once.
LEMMA SetSent ==
  ASSUME RadioTypeOK, NEW key \in Switched, NEW v \in BOOLEAN,
         Send([type |-> "set", key |-> key, value |-> v], news)
  PROVE  /\ pending' \in Seq(RadioCalls) /\ news' \in Seq(RadioNews)
         /\ Among(pending', PropsCalls) <=> Among(pending, PropsCalls)
         /\ \A k, b : Among(pending, Setting(k, b)) => Among(pending', Setting(k, b))
         /\ \/ /\ running /\ (ui = "pane" \/ ~Vanishes) /\ news' = news /\ pending' # <<>>
               /\ Among(pending', Setting(key, v))
               /\ \A k : Among(pending', SetCalls(k)) <=> Among(pending, SetCalls(k)) \/ k = key
               /\ \A k : Single(pending, SetCalls(k)) /\ ~(k = key /\ Among(pending, SetCalls(k)))
                            => Single(pending', SetCalls(k))
            \/ /\ ~(running /\ (ui = "pane" \/ ~Vanishes)) /\ pending' = pending
               /\ \E m \in RadioNews : /\ m.type = "reply" /\ m.key = key /\ m.error
                                       /\ news' = Append(news, m)
<1> DEFINE c == [type |-> "set", key |-> key, value |-> v]
           m == Failure(c)
<1>1. /\ pending \in Seq(RadioCalls) /\ news \in Seq(RadioNews)
      /\ c \in RadioCalls /\ c.type = "set" /\ c.key = key /\ c.value = v
  BY DEF RadioTypeOK, RadioCalls
<1>2. Send(c, news)
  OBVIOUS
<1> HIDE DEF c
<1>3. m \in RadioNews /\ m.type = "reply" /\ m.error /\ m.key = key
  BY <1>1, FailureFields
<1>4. \/ /\ running /\ (ui = "pane" \/ ~Among(news, Of({"vanished"})))
         /\ pending' = Append(pending, c) /\ news' = news
      \/ /\ ~(running /\ (ui = "pane" \/ ~Among(news, Of({"vanished"}))))
         /\ pending' = pending /\ news' = Append(news, m)
  BY <1>1, <1>2, Sending
<1> HIDE DEF m
<1>5. CASE pending' = Append(pending, c) /\ news' = news
  <2>1. /\ Append(pending, c) \in Seq(RadioCalls) /\ Append(pending, c) # <<>>
        /\ \A S : Among(Append(pending, c), S) <=> Among(pending, S) \/ c \in S
        /\ \A S : Single(pending, S) /\ ~(Among(pending, S) /\ c \in S) => Single(Append(pending, c), S)
    BY <1>1, Added
  <2>2. /\ c \notin PropsCalls /\ (\A k : c \in SetCalls(k) <=> k = key) /\ c \in Setting(key, v)
    BY <1>1 DEF PropsCalls, SetCalls, Setting
  <2>3. (running /\ (ui = "pane" \/ ~Vanishes)) \/ pending' = pending
    BY <1>4 DEF Vanishes
  <2>4. pending' # pending
    <3>1. Len(Append(pending, c)) = Len(pending) + 1 /\ Len(pending) \in Nat
      BY <1>1
    <3> QED BY <1>5, <3>1
  <2> QED BY <1>1, <1>5, <2>1, <2>2, <2>3, <2>4
<1>6. CASE /\ ~(running /\ (ui = "pane" \/ ~Among(news, Of({"vanished"}))))
           /\ pending' = pending /\ news' = Append(news, m)
  <2>1. news' \in Seq(RadioNews)
    BY <1>1, <1>3, <1>6, NewsAdded
  <2> QED BY <1>1, <1>3, <1>6, <2>1 DEF Vanishes
<1> QED BY <1>4, <1>5, <1>6

LEMMA ToggleKeeps ==
  ASSUME RadioInv, NEW key \in Switched, Toggle(key)
  PROVE  RadioInv'
<1> DEFINE v == ~panel.toggle[key]
           sent == ToggleSends(key, v)
           came == \E m \in RadioNews : m.type = "reply" /\ m.key = key /\ m.error
                                        /\ news' = Append(news, m)
<1>1. /\ RadioTypeOK /\ radio \in [Keys -> BOOLEAN] /\ running \in BOOLEAN /\ making \in Nat
      /\ pending \in Seq(RadioCalls) /\ news \in Seq(RadioNews) /\ panel \in Programs
  BY DEF RadioInv, RadioTypeOK
<1>2. /\ v \in BOOLEAN /\ panel' \in Programs /\ panel'.alive /\ panel.alive
      /\ panel'.cm = panel.cm /\ panel'.known = panel.known /\ panel'.own = panel.own
      /\ panel'.toggle[key] = v /\ \A k \in Switched \ {key} : panel'.toggle[k] = panel.toggle[k]
      /\ panel'.blocks = IF ui = "pane" /\ sent THEN [panel.blocks EXCEPT ![key] = 1]
                         ELSE panel.blocks
      /\ Visible(key) /\ (ui = "bluetooth" => key = "tech")
      /\ IF sent THEN Send([type |-> "set", key |-> key, value |-> v], news)
         ELSE pending' = pending /\ news' = news
      /\ did' \in [toggles: Nat, changes: Nat, exits: Nat, lost: SUBSET Switched]
      /\ did'.exits = did.exits /\ (\A k \in Switched : k \in did.lost => k \in did'.lost)
      /\ (ui = "pane" /\ ~sent) \/ StillAsks => key \in did'.lost
      /\ radio' = radio /\ running' = running /\ making' = making /\ ui' = ui
  BY <1>1, ToggleFields
<1>3. sent <=> CASE ui = "pane"      -> panel.blocks[key] = 0
                 [] ui = "tile"      -> panel.cm
                 [] ui = "bluetooth" -> key = "tech" /\ panel.own["have"] /\ v # panel.own["tech"] /\ panel.cm
  BY DEF ToggleSends
<1> HIDE DEF v, sent
<1>4. ASSUME sent
      PROVE  /\ pending' \in Seq(RadioCalls) /\ news' \in Seq(RadioNews)
             /\ Among(pending', PropsCalls) <=> Among(pending, PropsCalls)
             /\ \A k, b : Among(pending, Setting(k, b)) => Among(pending', Setting(k, b))
             /\ \/ /\ running /\ (ui = "pane" \/ ~Vanishes) /\ news' = news /\ pending' # <<>>
                   /\ Among(pending', Setting(key, v))
                   /\ \A k : Among(pending', SetCalls(k)) <=> Among(pending, SetCalls(k)) \/ k = key
                   /\ \A k : Single(pending, SetCalls(k)) /\ ~(k = key /\ Among(pending, SetCalls(k)))
                                => Single(pending', SetCalls(k))
                \/ /\ ~(running /\ (ui = "pane" \/ ~Vanishes))
                   /\ pending' = pending /\ came
  BY <1>1, <1>2, <1>4, SetSent
<1>5. /\ pending' \in Seq(RadioCalls) /\ news' \in Seq(RadioNews)
      /\ Among(pending', PropsCalls) <=> Among(pending, PropsCalls)
      /\ \A k, b : Among(pending, Setting(k, b)) => Among(pending', Setting(k, b))
      /\ news' = news \/ (came /\ pending' = pending)
      /\ pending' # <<>> => running
  <2>1. pending # <<>> => running
    BY DEF RadioInv
  <2>2. CASE sent
    BY <1>1, <1>4, <2>1, <2>2
  <2>3. CASE ~sent
    <3>1. pending' = pending /\ news' = news
      BY <1>2, <2>3
    <3> QED BY <1>1, <2>1, <3>1
  <2> QED BY <2>2, <2>3
<1>6. RadioTypeOK'
  BY <1>1, <1>2, <1>5 DEF RadioTypeOK
<1>7. \A k \in Keys : LastIsRight(k)'
  <2>1. \A k \in Keys : LastIsRight(k)
    BY <1>2 DEF RadioInv
  <2>2. CASE news' = news
    BY <1>2, <2>1, <2>2 DEF LastIsRight
  <2>3. ASSUME NEW m \in RadioNews, m.type = "reply", news' = Append(news, m)
        PROVE  \A k \in Keys : LastIsRight(k)'
    <3>1. \A k \in Keys : m \notin Tells(k, ~radio[k])
      BY <2>3 DEF Tells
    <3> QED BY <1>1, <1>2, <2>1, <2>3, <3>1, LastKeptBy
  <2> QED BY <1>5, <2>2, <2>3
<1>8. ASSUME ui = "pane"
      PROVE  PaneRight'
  <2>1. PaneRight
    BY <1>8 DEF RadioInv
  <2>2. sent <=> panel.blocks[key] = 0
    BY <1>3, <1>8
  <2>3. panel.blocks \in [Switched -> Nat]
    BY <1>1, ProgramFields
  <2>4. ASSUME NEW k \in Switched
        PROVE  Blocked(k)'
    <3>1. Blocked(k)
      BY <2>1, <2>4 DEF PaneRight
    <3>2. CASE ~sent
      BY <1>2, <3>1, <3>2 DEF Blocked
    <3>3. CASE sent /\ k # key
      <4>1. panel'.blocks[k] = panel.blocks[k]
        BY <1>2, <2>3, <2>4, <3>3
      <4>2. CASE news' = news
        <5>1. (Among(pending', SetCalls(k)) <=> Among(pending, SetCalls(k))) /\ Single(pending', SetCalls(k))
          BY <1>4, <3>1, <3>3 DEF Blocked
        <5> QED BY <3>1, <4>1, <4>2, <5>1 DEF Blocked
      <4>3. ASSUME NEW m \in RadioNews, m.type = "reply", m.key = key, news' = Append(news, m),
                   pending' = pending
            PROVE  Blocked(k)'
        <5>1. m \notin Replies(k)
          BY <3>3, <4>3 DEF Replies
        <5>2. /\ Among(news', Replies(k)) <=> Among(news, Replies(k))
              /\ Single(news', Replies(k))
          BY <1>1, <3>1, <4>3, <5>1, NewsAdded DEF Blocked
        <5> QED BY <3>1, <4>1, <4>3, <5>2 DEF Blocked
      <4> QED BY <1>5, <4>2, <4>3
    <3>4. CASE sent /\ k = key
      <4>1. panel'.blocks[k] = 1
        BY <1>2, <1>8, <2>3, <2>4, <3>4
      <4>2. ~Among(pending, SetCalls(k)) /\ ~Among(news, Replies(k))
        BY <2>2, <3>1, <3>4 DEF Blocked
      <4>3. CASE running
        <5>1. /\ news' = news /\ Among(pending', SetCalls(k)) /\ Single(pending', SetCalls(k))
          BY <1>4, <1>8, <3>1, <3>4, <4>2, <4>3 DEF Blocked
        <5> QED BY <3>1, <4>1, <4>2, <5>1 DEF Blocked
      <4>4. ASSUME NEW m \in RadioNews, m.type = "reply", m.key = key, news' = Append(news, m),
                   pending' = pending
            PROVE  Blocked(k)'
        <5>1. m \in Replies(k)
          BY <3>4, <4>4 DEF Replies
        <5>2. Among(news', Replies(k)) /\ Single(news', Replies(k))
          BY <1>1, <3>1, <4>2, <4>4, <5>1, NewsAdded DEF Blocked
        <5> QED BY <3>1, <4>1, <4>2, <4>4, <5>2 DEF Blocked
      <4> QED BY <1>4, <1>8, <3>4, <4>3, <4>4
    <3> QED BY <3>2, <3>3, <3>4
  <2>5. ASSUME did.exits = 0
        PROVE  news' = news /\ (sent => Among(pending', Setting(key, v)))
    <3>1. running
      BY <2>1, <2>5 DEF PaneRight
    <3>2. CASE ~sent
      BY <1>2, <3>2
    <3>3. CASE sent
      BY <1>4, <1>8, <3>1, <3>3
    <3> QED BY <3>2, <3>3
  <2>6. ASSUME did.exits = 0, NEW k \in Switched
        PROVE  PaneKnows(k)'
    <3>1. PaneKnows(k)
      BY <2>1, <2>6 DEF PaneRight
    <3>2. news' = news /\ (Among(pending', PropsCalls) <=> Among(pending, PropsCalls))
      BY <1>5, <2>5, <2>6
    <3> QED BY <1>2, <3>1, <3>2 DEF PaneKnows
  <2>7. ASSUME did.exits = 0, NEW k \in Switched
        PROVE  PaneFollows(k)'
    <3>1. PaneFollows(k)
      BY <2>1, <2>7 DEF PaneRight
    <3>2. news' = news /\ (Among(pending', PropsCalls) <=> Among(pending, PropsCalls))
          /\ \A b : Among(pending, Setting(k, b)) => Among(pending', Setting(k, b))
      BY <1>5, <2>5, <2>7
    <3>3. CASE k # key
      <4>1. panel'.toggle[k] = panel.toggle[k] /\ panel'.own = panel.own
        BY <1>2, <2>7, <3>3
      <4>2. k \in did.lost => k \in did'.lost
        BY <1>2, <2>7
      <4> QED BY <3>1, <3>2, <4>1, <4>2 DEF PaneFollows
    <3>4. CASE k = key /\ sent
      <4>1. panel'.toggle[k] = v
        BY <1>2, <3>4
      <4>2. Among(pending', Setting(k, v))
        BY <2>5, <2>7, <3>4
      <4> QED BY <4>1, <4>2 DEF PaneFollows
    <3>5. CASE k = key /\ ~sent
      <4>1. k \in did'.lost
        BY <1>2, <1>8, <3>5
      <4> QED BY <4>1 DEF PaneFollows
    <3> QED BY <3>3, <3>4, <3>5
  <2>8. did.exits = 0 => (running /\ ~Vanishes)'
    <3>1. did.exits = 0 => running /\ ~Vanishes
      BY <2>1 DEF PaneRight
    <3> QED BY <1>2, <2>5, <3>1 DEF Vanishes
  <2>9. panel'.alive /\ making' = 0 /\ did'.exits = did.exits
    BY <1>2, <2>1 DEF PaneRight
  <2> QED BY <2>4, <2>6, <2>7, <2>8, <2>9 DEF PaneRight
<1>9. ASSUME ui # "pane"
      PROVE  ManagerRight'
  <2>1. ManagerRight /\ ManagerKnows
    BY <1>2, <1>9 DEF RadioInv, ManagerRight
  <2>2. /\ ManagerKnows' /\ (Vanishes' <=> Vanishes) /\ (Asks' <=> Asks)
        /\ \A S : Among(news, S) => Among(news', S)
    BY <1>1, <1>2, <1>5, <2>1, ManagerKept
  <2>3. ui = "tile" \/ ui = "bluetooth"
    BY <1>1, <1>9, RadioAssumption DEF RadioTypeOK
  <2>4. panel.own["have"]
    BY <1>2, <1>9 DEF Visible
  <2>5. panel.known["have"] # Null
    <3>1. panel.own["have"] = Says(panel, "have")
      BY <2>1, <2>3 DEF ManagerRight, TileFits, ShellFits
    <3> QED BY <2>4, <3>1, SaysIs
  <2>6. panel.cm /\ (running \/ Vanishes)
    BY <2>1, <2>5 DEF ManagerKnows
  <2>7. ASSUME NEW k \in Keys
        PROVE  Says(panel', k) = Says(panel, k)
    BY <1>2, SaysSame
  <2>8. ASSUME ~Vanishes, sent
        PROVE  running /\ Among(pending', Setting(key, v))
    BY <1>4, <2>6, <2>8
  <2>9. key \notin did'.lost => ~Asks'
    BY <1>1, <1>2, <2>2, AsksIs
  <2>10. ASSUME ui = "tile"
         PROVE  /\ TileFits(panel')
                /\ "tile" \notin RefusesOffline => \A k \in Switched : TileFollows(k)'
    <3>1. TileFits(panel')
      <4>1. "have" \in Keys
        BY DEF Keys
      <4>2. panel.own["have"] = Says(panel, "have")
        BY <2>1, <2>10 DEF ManagerRight, TileFits
      <4>3. panel'.own["have"] = Says(panel', "have")
        BY <1>2, <2>7, <4>1, <4>2
      <4> QED BY <1>2, <2>5, <4>3 DEF TileFits
    <3>2. sent
      BY <1>3, <2>6, <2>10
    <3>3. TileFollows(key)'
      <4>1. (~Vanishes /\ key \notin did.lost)' => TileWaits(key)'
        <5>1. panel'.toggle[key] = v
          BY <1>2
        <5> QED BY <1>2, <2>2, <2>8, <2>9, <3>2, <5>1 DEF TileWaits
      <4> QED BY <4>1 DEF TileFollows
    <3>4. ASSUME NEW k \in Switched, k # key, TileFollows(k)
          PROVE  TileFollows(k)'
      <4>1. panel'.toggle[k] = panel.toggle[k] /\ (k \in did.lost => k \in did'.lost)
        BY <1>2, <3>4
      <4>2. Says(panel', k) = Says(panel, k)
        BY <2>7, <3>4 DEF Switched, Keys
      <4>3. TileWaits(k) => TileWaits(k)'
        BY <1>2, <1>5, <2>2, <4>1 DEF TileWaits
      <4> QED BY <2>2, <3>4, <4>1, <4>2, <4>3 DEF TileFollows
    <3> QED BY <2>1, <2>10, <3>1, <3>3, <3>4 DEF ManagerRight
  <2>11. ASSUME ui = "bluetooth"
         PROVE  ShellFits(panel') /\ TechComes' /\ ShellFollows'
    <3>1. ShellFits(panel')
      <4>1. "have" \in Keys /\ "tech" \in Keys
        BY DEF Keys
      <4>2. panel.own["have"] = Says(panel, "have") /\ panel.own["tech"] = Says(panel, "tech")
        BY <2>1, <2>11 DEF ManagerRight, ShellFits
      <4>3. panel'.own["have"] = Says(panel', "have") /\ panel'.own["tech"] = Says(panel', "tech")
        BY <1>2, <2>7, <4>1, <4>2
      <4> QED BY <1>2, <2>4, <4>3 DEF ShellFits
    <3>2. TechComes'
      <4>1. TechComes
        BY <2>1, <2>11 DEF ManagerRight
      <4>2. CASE news' = news
        BY <1>2, <4>1, <4>2 DEF TechComes
      <4>3. ASSUME NEW m \in RadioNews, m.type = "reply", news' = Append(news, m)
            PROVE  TechComes'
        <5>1. m.type # "signal"
          BY <4>3
        <5> QED BY <1>1, <1>2, <4>1, <4>3, <5>1, TechKeptBy
      <4> QED BY <1>5, <4>2, <4>3
    <3>3. key = "tech" /\ panel'.toggle["tech"] = v
      BY <1>2, <2>11
    <3>4. ShellFollows'
      <4>1. CASE v = panel.own["tech"]
        <5>1. panel'.toggle["tech"] = panel'.own["tech"]
          BY <1>2, <3>3, <4>1
        <5> QED BY <5>1 DEF ShellFollows
      <4>2. CASE v # panel.own["tech"]
        <5>1. sent
          BY <1>3, <2>4, <2>6, <2>11, <3>3, <4>2
        <5>2. (~Vanishes /\ "tech" \notin did.lost)' => ShellWaits'
          BY <1>2, <2>2, <2>8, <2>9, <3>3, <5>1 DEF ShellWaits
        <5> QED BY <5>2 DEF ShellFollows
      <4> QED BY <4>1, <4>2
    <3> QED BY <3>1, <3>2, <3>4
  <2> QED BY <1>2, <2>2, <2>10, <2>11 DEF ManagerRight
<1>10. ui # "pane" => \A k \in Switched : panel'.blocks[k] = 0
  BY <1>2 DEF RadioInv
<1>11. (radio["tech"] => radio["have"])'
  BY <1>2 DEF RadioInv
<1> QED BY <1>2, <1>5, <1>6, <1>7, <1>8, <1>9, <1>10, <1>11 DEF RadioInv

(***************************************************************************)
(* The program hears something.                                            *)
(***************************************************************************)
LEMMA NewsTaken ==
  ASSUME news \in Seq(RadioNews), news # <<>>
  PROVE  LET m == Head(news)
             r == Tail(news)
         IN /\ m \in RadioNews /\ r \in Seq(RadioNews)
            /\ \A S : Among(news, S) <=> m \in S \/ Among(r, S)
            /\ \A S, T : Followed(news, S, T) => Followed(r, S, T) /\ (m \in S => Among(r, T))
            /\ \A S, T : NotBefore(news, S, T) => NotBefore(r, S, T) /\ (m \in S => ~Among(r, T))
            /\ \A S : Single(news, S) => Single(r, S) /\ (m \in S => ~Among(r, S))
BY Rest, AmongRest, FollowedRest, NotBeforeRest, SingleRest

\* What a message tells is not the last word, or is right.
LEMMA KeyTold ==
  ASSUME \A k \in Keys : LastIsRight(k), radio \in [Keys -> BOOLEAN], news \in Seq(RadioNews),
         news # <<>>, NEW k \in Keys, NEW b \in BOOLEAN, Head(news) \in Tells(k, b)
  PROVE  /\ \/ b = radio[k] \/ Among(Tail(news), Tells(k, radio[k]))
            \/ Among(Tail(news), Of({"vanished"}))
         /\ \A c \in BOOLEAN : Head(news) \in Tells(k, c) => c = b
<1> DEFINE m == Head(news)
           r == Tail(news)
<1>1. \A S, T : Followed(news, S, T) => Followed(r, S, T) /\ (m \in S => Among(r, T))
  BY NewsTaken
<1>2. Followed(news, Tells(k, ~radio[k]), Tells(k, radio[k]) \cup Of({"vanished"}))
  BY DEF LastIsRight
<1>3. m \in Tells(k, ~radio[k]) =>
        Among(r, Tells(k, radio[k])) \/ Among(r, Of({"vanished"}))
  BY <1>1, <1>2, AmongEither
<1>4. b = radio[k] \/ b = ~radio[k]
  OBVIOUS
<1>5. \A c \in BOOLEAN : m \in Tells(k, c) => c = b
  BY DEF Tells
<1>6. CASE b = radio[k]
  BY <1>5, <1>6
<1>7. CASE b = ~radio[k]
  <2>1. m \in Tells(k, ~radio[k])
    BY <1>7
  <2> QED BY <1>3, <1>5, <2>1
<1> QED BY <1>4, <1>6, <1>7

\* What the manager knows when it is told, or a call ends.
LEMMA ManagerHears ==
  ASSUME ManagerKnows, \A k \in Keys : LastIsRight(k), radio \in [Keys -> BOOLEAN],
         news \in Seq(RadioNews), news # <<>>, news' = Tail(news),
         pending' = pending, making' = making, running' = running, radio' = radio,
         Head(news).type \in {"props", "signal", "reply"}, panel'.cm = panel.cm,
         \A k \in Keys, b \in BOOLEAN :
           panel.cm /\ Head(news) \in Tells(k, b) => panel'.known[k] = {b},
         \A k \in Keys : ~panel.cm \/ (\A b \in BOOLEAN : Head(news) \notin Tells(k, b)) =>
                           panel'.known[k] = panel.known[k]
  PROVE  ManagerKnows' /\ (Vanishes' <=> Vanishes)
<1> DEFINE m == Head(news)
<1>1. /\ m \in RadioNews
      /\ \A S : Among(news, S) <=> m \in S \/ Among(news', S)
      /\ \A S, T : Followed(news, S, T) => Followed(news', S, T) /\ (m \in S => Among(news', T))
      /\ \A S, T : NotBefore(news, S, T) => NotBefore(news', S, T) /\ (m \in S => ~Among(news', T))
  BY NewsTaken
<1>2. \A types : m \in Of(types) => m.type \in types
  BY DEF Of
<1>3. Vanishes' <=> Vanishes
  BY <1>1, <1>2 DEF Vanishes
<1>4. (running => Followed(news, Of({"vanished"}), Of({"appeared"})))'
  BY <1>1 DEF ManagerKnows
<1>5. (~running => Followed(news, AllProps \cup Of({"signal"}), Of({"vanished"})))'
  BY <1>1 DEF ManagerKnows
<1>6. (Among(pending, PropsCalls) => panel.cm /\ ~Vanishes)'
  BY <1>3 DEF ManagerKnows
<1>7. (NotBefore(news, Of({"vanished"}), AllProps) /\ (Among(news, AllProps) => panel.cm))'
  BY <1>1 DEF ManagerKnows
<1>8. ASSUME NEW k \in Keys, NEW b \in BOOLEAN, m \in Tells(k, b), panel.cm, ~Vanishes
      PROVE  /\ panel'.known[k] # Null
             /\ panel'.known[k] = {radio[k]} \/ Among(news', Tells(k, radio[k]))
  <2>1. b = radio[k] \/ Among(news', Tells(k, radio[k])) \/ Among(news', Of({"vanished"}))
    BY <1>8, KeyTold
  <2>2. panel'.known[k] = {b} /\ {b} # Null
    BY <1>8, ListOf
  <2>3. ~Among(news', Of({"vanished"}))
    BY <1>3, <1>8 DEF Vanishes
  <2> QED BY <2>1, <2>2, <2>3
<1>9. (running /\ ~Vanishes /\ ~WillKnow =>
         /\ panel.cm
         /\ \A k \in Keys : /\ panel.known[k] # Null
                            /\ panel.known[k] = {radio[k]} \/ Among(news, Tells(k, radio[k])))'
  <2> SUFFICES ASSUME running, ~Vanishes, ~WillKnow'
               PROVE  /\ panel.cm
                      /\ \A k \in Keys : /\ panel'.known[k] # Null
                                         /\ \/ panel'.known[k] = {radio[k]}
                                            \/ Among(news', Tells(k, radio[k]))
    BY <1>3
  <2>1. CASE m \in AllProps
    <3>1. panel.cm
      BY <1>1, <2>1 DEF ManagerKnows
    <3>2. ASSUME NEW k \in Keys
          PROVE  m.radio[k] \in BOOLEAN /\ m \in Tells(k, m.radio[k])
      BY <2>1, <3>2, NewsFields DEF AllProps, Tells
    <3> QED BY <1>8, <3>1, <3>2
  <2>2. CASE m \notin AllProps
    <3>1. ~WillKnow
      BY <1>1, <1>2, <2>2 DEF WillKnow
    <3>2. /\ panel.cm
          /\ \A k \in Keys : /\ panel.known[k] # Null
                             /\ panel.known[k] = {radio[k]} \/ Among(news, Tells(k, radio[k]))
      BY <3>1 DEF ManagerKnows
    <3>3. ASSUME NEW k \in Keys, \A b \in BOOLEAN : m \notin Tells(k, b)
          PROVE  /\ panel'.known[k] # Null
                 /\ panel'.known[k] = {radio[k]} \/ Among(news', Tells(k, radio[k]))
      BY <1>1, <3>2, <3>3
    <3> QED BY <1>8, <3>2, <3>3
  <2> QED BY <2>1, <2>2
<1>10. (panel.known["have"] # Null => panel.cm /\ (running \/ Vanishes))'
  <2> SUFFICES ASSUME panel'.known["have"] # Null, ~running
               PROVE  panel.cm /\ Vanishes
    <3>1. running /\ panel'.known["have"] # Null => panel.cm
      <4>1. "have" \in Keys
        BY DEF Keys
      <4> QED BY <4>1 DEF ManagerKnows
    <3> QED BY <1>3, <3>1
  <2>1. "have" \in Keys
    BY DEF Keys
  <2>2. panel.cm
    BY <2>1 DEF ManagerKnows
  <2>3. CASE \A b \in BOOLEAN : m \notin Tells("have", b)
    BY <2>1, <2>3 DEF ManagerKnows
  <2>4. CASE \E b \in BOOLEAN : m \in Tells("have", b)
    <3>1. m \in AllProps \cup Of({"signal"})
      BY <2>4 DEF Tells, AllProps, Of
    <3> QED BY <1>1, <1>3, <2>2, <3>1 DEF ManagerKnows, Vanishes
  <2> QED BY <2>3, <2>4
<1> QED BY <1>3, <1>4, <1>5, <1>6, <1>7, <1>9, <1>10 DEF ManagerKnows

LEMMA TechHears ==
  ASSUME TechComes, news \in Seq(RadioNews), news # <<>>, news' = Tail(news), radio' = radio,
         panel'.own["have"] /\ panel'.known["tech"] = Null =>
           \/ Head(news) \in Turned("have", TRUE)
           \/ panel.own["have"] /\ panel.known["tech"] = Null /\ Head(news) \notin Turned("tech", TRUE)
  PROVE  TechComes'
<1> DEFINE H == Turned("have", TRUE)
           S == Turned("tech", FALSE)
           T == Turned("tech", TRUE)
           on == radio["tech"]
<1>1. ComesAfter(news, H, S, T, on)
  BY DEF TechComes
<1>2. panel.own["have"] /\ panel.known["tech"] = Null => Comes(news, 0, S, T, on)
  BY DEF TechComes
<1> HIDE DEF H, S, T, on
<1>3. ComesAfter(news', H, S, T, on) /\ (Head(news) \in H => Comes(news', 0, S, T, on))
  BY <1>1, ComesAfterRest
<1>4. Comes(news, 0, S, T, on) /\ Head(news) \notin T => Comes(news', 0, S, T, on)
  BY ComesRest
<1>5. panel'.own["have"] /\ panel'.known["tech"] = Null => Comes(news', 0, S, T, on)
  BY <1>2, <1>3, <1>4 DEF H, T
<1>6. on' = on
  BY DEF on
<1> QED BY <1>3, <1>5, <1>6 DEF TechComes, H, S, T, on

LEMMA LastHeard ==
  ASSUME \A k \in Keys : LastIsRight(k), news \in Seq(RadioNews), news # <<>>,
         news' = Tail(news), radio' = radio
  PROVE  \A k \in Keys : LastIsRight(k)'
<1>1. \A S, T : Followed(news, S, T) => Followed(Tail(news), S, T)
  BY NewsTaken
<1> QED BY <1>1 DEF LastIsRight

LEMMA HandledIs ==
  ASSUME NEW s \in Programs, s.alive, NEW m \in RadioNews
  PROVE  /\ m.type = "proxy" => Handled(s, m) = AndCm(s, TRUE)
         /\ m.type = "appeared" => Handled(s, m) = IF ui = "pane" THEN AndCm(s, TRUE) ELSE s
         /\ m.type = "vanished" => Handled(s, m) = IF ui = "pane" THEN AndOwn(AndCm(s, FALSE), "have", FALSE)
                                                   ELSE Vanished(s)
         /\ m.type = "props" =>
              Handled(s, m) = IF ~m.error THEN TakesAll(s, m.radio)
                              ELSE IF ui = "pane" THEN AndOwn(AndCm(s, FALSE), "have", FALSE) ELSE s
         /\ m.type = "signal" =>
              Handled(s, m) = IF s.cm \/ ui = "pane" THEN Property(s, m.key, m.value) ELSE s
         /\ m.type = "reply" => Handled(s, m) = SwitchDone(s, m.key, m.error)
<1>1. ASSUME m.type = "appeared"
      PROVE  Handled(s, m) = IF ui = "pane" THEN AndCm(s, TRUE) ELSE s
  <2>1. Handled(s, m) = AndCm(s, s.cm \/ ui = "pane")
    BY <1>1 DEF Handled, AndCm
  <2>2. CASE ui = "pane"
    <3>1. (s.cm \/ ui = "pane") = TRUE
      BY <2>2
    <3> QED BY <2>1, <2>2, <3>1
  <2>3. CASE ui # "pane"
    <3>1. s.cm \in BOOLEAN
      BY ProgramFields
    <3>2. (s.cm \/ ui = "pane") = s.cm
      BY <2>3, <3>1
    <3>3. AndCm(s, s.cm) = s
      BY DEF AndCm, Programs
    <3> QED BY <2>1, <2>3, <3>2, <3>3
  <2> QED BY <2>2, <2>3
<1>2. m.type = "vanished" =>
        Handled(s, m) = IF ui = "pane" THEN AndOwn(AndCm(s, FALSE), "have", FALSE) ELSE Vanished(s)
  BY DEF Handled, NoDaemon, AndCm, AndOwn
<1>3. m.type = "proxy" => Handled(s, m) = AndCm(s, TRUE)
  BY DEF Handled, AndCm
<1>4. m.type = "props" =>
        Handled(s, m) = IF ~m.error THEN TakesAll(s, m.radio)
                        ELSE IF ui = "pane" THEN AndOwn(AndCm(s, FALSE), "have", FALSE) ELSE s
  <2>1. m.type = "props" /\ ~m.error => Handled(s, m) = TakesAll(s, m.radio)
    BY DEF Handled, TakesAll
  <2>2. m.type = "props" /\ m.error =>
          Handled(s, m) = IF ui = "pane" THEN AndOwn(AndCm(s, FALSE), "have", FALSE) ELSE s
    BY DEF Handled, NoDaemon, AndCm, AndOwn
  <2> QED BY <2>1, <2>2
<1>5. m.type = "signal" =>
        Handled(s, m) = IF s.cm \/ ui = "pane" THEN Property(s, m.key, m.value) ELSE s
  BY DEF Handled
<1>6. m.type = "reply" => Handled(s, m) = SwitchDone(s, m.key, m.error)
  BY DEF Handled
<1> QED BY <1>1, <1>2, <1>3, <1>4, <1>5, <1>6

LEMMA ReceiveFields ==
  ASSUME RadioTypeOK, Receive
  PROVE  LET m == Head(news)
         IN /\ panel.alive /\ news # <<>> /\ m \in RadioNews /\ panel' = Handled(panel, m)
            /\ Returns(m) /\ radio' = radio /\ running' = running /\ ui' = ui
            /\ did' \in [toggles: Nat, changes: Nat, exits: Nat, lost: SUBSET Switched]
            /\ did'.exits = did.exits
            /\ \A k \in Switched :
                 k \in did.lost /\ k \notin did'.lost =>
                   m.type = "signal" /\ m.key = k /\ (ui = "pane" \/ panel'.known[k] # panel.known[k])
<1> DEFINE m == Head(news)
           lost == {k \in did.lost : ~(m.type = "signal" /\ m.key = k
                                       /\ (ui = "pane" \/ panel'.known[k] # panel.known[k]))}
<1>1. /\ news \in Seq(RadioNews) /\ did \in [toggles: Nat, changes: Nat, exits: Nat, lost: SUBSET Switched]
  BY DEF RadioTypeOK
<1>2. /\ panel.alive /\ news # <<>> /\ panel' = Handled(panel, m) /\ Returns(m)
      /\ radio' = radio /\ running' = running /\ ui' = ui /\ did' = [did EXCEPT !.lost = lost]
  BY DEF Receive
<1>3. m \in RadioNews
  BY <1>1, <1>2, NewsTaken
<1>4. lost \in SUBSET Switched
  BY <1>1
<1>5. \A k \in Switched :
        k \in did.lost /\ k \notin lost =>
          m.type = "signal" /\ m.key = k /\ (ui = "pane" \/ panel'.known[k] # panel.known[k])
  OBVIOUS
<1> HIDE DEF lost, m
<1>6. /\ did' \in [toggles: Nat, changes: Nat, exits: Nat, lost: SUBSET Switched]
      /\ did'.exits = did.exits /\ did'.lost = lost
  BY <1>1, <1>2, <1>4
<1> QED BY <1>2, <1>3, <1>5, <1>6 DEF m

\* What the pane makes of a message.
LEMMA PaneHandles ==
  ASSUME NEW s \in Programs, s.alive, ui = "pane", NEW m \in RadioNews,
         m.type = "reply" => s.blocks[m.key] = 1
  PROVE  LET t == Handled(s, m)
         IN /\ t \in Programs /\ t.alive
            /\ \A k \in Switched, b \in BOOLEAN :
                 m \in Tells(k, b) => t.own[k] = b /\ t.toggle[k] = b
            /\ \A k \in Switched : (\A b \in BOOLEAN : m \notin Tells(k, b)) => t.own[k] = s.own[k]
            /\ \A k \in Switched : /\ \A b \in BOOLEAN : m \notin Tells(k, b)
                                   /\ m \notin Replies(k) \cap Errors
                                   => t.toggle[k] = s.toggle[k]
            /\ \A k \in Switched : m \in Replies(k) \cap Errors => t.toggle[k] = s.own[k]
            /\ \A k \in Switched : t.blocks[k] = IF m \in Replies(k) THEN 0 ELSE s.blocks[k]
<1> DEFINE t == Handled(s, m)
           Handles(u) ==
             /\ u \in Programs /\ u.alive
             /\ \A k \in Switched, b \in BOOLEAN :
                  m \in Tells(k, b) => u.own[k] = b /\ u.toggle[k] = b
             /\ \A k \in Switched : (\A b \in BOOLEAN : m \notin Tells(k, b)) => u.own[k] = s.own[k]
             /\ \A k \in Switched : /\ \A b \in BOOLEAN : m \notin Tells(k, b)
                                    /\ m \notin Replies(k) \cap Errors
                                    => u.toggle[k] = s.toggle[k]
             /\ \A k \in Switched : m \in Replies(k) \cap Errors => u.toggle[k] = s.own[k]
             /\ \A k \in Switched : u.blocks[k] = IF m \in Replies(k) THEN 0 ELSE s.blocks[k]
<1>0. /\ s.own \in [Keys -> BOOLEAN] /\ s.toggle \in [Switched -> BOOLEAN]
      /\ s.blocks \in [Switched -> Nat] /\ Switched \subseteq Keys /\ "have" \in Keys
      /\ "have" \notin Switched
  BY ProgramFields DEF Switched, Keys
<1>1. m.type \in {"appeared", "vanished", "proxy", "props", "signal", "reply"}
  BY NewsFields
<1>2. CASE m.type \in {"appeared", "proxy"}
  <2>1. t = AndCm(s, TRUE)
    BY <1>2, HandledIs
  <2> HIDE DEF t
  <2>2. /\ t \in Programs /\ t.alive = s.alive /\ t.own = s.own /\ t.toggle = s.toggle
        /\ t.blocks = s.blocks /\ t.cm
    BY <2>1, SetFlags
  <2>3. (\A k, b : m \notin Tells(k, b)) /\ \A k : m \notin Replies(k)
    BY <1>2 DEF Tells, Replies
  <2>4. Handles(t)
    BY <2>2, <2>3
  <2> QED BY <2>4 DEF t
<1>3. CASE m.type = "vanished" \/ (m.type = "props" /\ m.error)
  <2> DEFINE u == AndCm(s, FALSE)
  <2>1. t = AndOwn(u, "have", FALSE)
    BY <1>3, HandledIs
  <2>2. /\ u \in Programs /\ u.alive = s.alive /\ u.toggle = s.toggle /\ u.blocks = s.blocks
        /\ u.own = s.own
    BY SetFlags
  <2> HIDE DEF t, u
  <2>3. u \in Programs
    BY <2>2
  <2>4. /\ t \in Programs /\ t.alive = u.alive /\ t.toggle = u.toggle /\ t.blocks = u.blocks
        /\ t.own = [u.own EXCEPT !["have"] = FALSE]
    BY <1>0, <2>1, <2>3, SetOwn
  <2>5. (\A k, b : m \notin Tells(k, b)) /\ \A k : m \notin Replies(k)
    BY <1>3 DEF Tells, Replies
  <2>6. \A k \in Switched : t.own[k] = s.own[k]
    BY <1>0, <2>2, <2>4
  <2>7. Handles(t)
    BY <2>2, <2>4, <2>5, <2>6
  <2> QED BY <2>7 DEF t
<1>4. CASE m.type = "props" /\ ~m.error
  <2> DEFINE r == m.radio
  <2>1. t = TakesAll(s, r) /\ r \in [Keys -> BOOLEAN]
    BY <1>4, HandledIs, NewsFields
  <2>2. /\ \A k \in Keys : m \in Tells(k, r[k])
        /\ \A k \in Keys, b \in BOOLEAN : m \in Tells(k, b) => b = r[k]
        /\ \A k : m \notin Replies(k)
    BY <1>4, <2>1 DEF Tells, Replies
  <2> HIDE DEF r, t
  <2>3. PaneHasAll(s, r, t)
    BY <2>1, AllTaken
  <2>4. \A k \in Switched, b \in BOOLEAN : m \in Tells(k, b) => t.own[k] = b /\ t.toggle[k] = b
    BY <1>0, <2>2, <2>3 DEF PaneHasAll
  <2>5. \A k \in Keys : r[k] \in BOOLEAN
    BY <2>1
  <2>6. /\ t \in Programs /\ t.alive /\ t.cm = s.cm /\ t.blocks = s.blocks
    BY <2>3 DEF PaneHasAll
  <2>7. Handles(t)
    BY <1>0, <2>2, <2>4, <2>5, <2>6
  <2> QED BY <2>7 DEF t
<1>5. CASE m.type = "signal"
  <2> DEFINE j == m.key
             v == m.value
  <2>1. t = Property(s, j, v) /\ j \in Keys /\ v \in BOOLEAN
    BY <1>5, HandledIs, NewsFields
  <2>2. /\ \A k, b : m \in Tells(k, b) <=> k = j /\ b = v
        /\ \A k : m \notin Replies(k)
    BY <1>5 DEF Tells, Replies
  <2> HIDE DEF j, v, t
  <2>3. PaneHas(s, j, v, t)
    BY <2>1, PaneTakesIt
  <2>4. \A k \in Keys : (\A b \in BOOLEAN : m \notin Tells(k, b)) => k # j
    BY <2>1, <2>2
  <2>5. \A k \in Keys : t.own[k] = IF k = j THEN v ELSE s.own[k]
    BY <2>3 DEF PaneHas
  <2>6. \A k \in Switched : t.toggle[k] = IF k = j THEN v ELSE s.toggle[k]
    BY <2>3 DEF PaneHas
  <2>7. \A k \in Switched, b \in BOOLEAN : m \in Tells(k, b) => t.own[k] = b /\ t.toggle[k] = b
    BY <1>0, <2>2, <2>5, <2>6
  <2>8. /\ t \in Programs /\ t.alive /\ t.cm = s.cm /\ t.blocks = s.blocks
    BY <2>3 DEF PaneHas
  <2>9. Handles(t)
    BY <1>0, <2>2, <2>4, <2>5, <2>6, <2>7, <2>8
  <2> QED BY <2>9 DEF t
<1>6. CASE m.type = "reply"
  <2> DEFINE j == m.key
             x == IF m.error THEN s.own[j] ELSE s.toggle[j]
             u == AndToggle(s, j, x)
             n == s.blocks[j] - 1
  <2>1. t = SwitchDone(s, j, m.error) /\ j \in Switched /\ m.error \in BOOLEAN
    BY <1>6, HandledIs, NewsFields
  <2>2. t = AndBlocks(u, j, n)
    BY <2>1 DEF SwitchDone, AndToggle, AndBlocks
  <2>3. x \in BOOLEAN /\ n = 0 /\ (m.error => x = s.own[j]) /\ (~m.error => x = s.toggle[j])
    BY <1>0, <1>6, <2>1
  <2>4. /\ \A k, b : m \notin Tells(k, b)
        /\ \A k : m \in Replies(k) <=> k = j
        /\ m \in Errors <=> m.error
    BY <1>6 DEF Tells, Replies, Errors
  <2> HIDE DEF t, j, x, n
  <2>5. /\ u \in Programs /\ u.toggle = [s.toggle EXCEPT ![j] = x] /\ u.alive = s.alive
        /\ u.cm = s.cm /\ u.own = s.own /\ u.blocks = s.blocks
    BY <2>1, <2>3, SetToggle
  <2> HIDE DEF u
  <2>6. u \in Programs /\ n \in Nat
    BY <2>3, <2>5
  <2>7. /\ t \in Programs /\ t.blocks = [u.blocks EXCEPT ![j] = n] /\ t.alive = u.alive
        /\ t.cm = u.cm /\ t.own = u.own /\ t.toggle = u.toggle
    BY <2>1, <2>2, <2>6, SetBlocks
  <2>8. \A k \in Switched : t.blocks[k] = IF k = j THEN 0 ELSE s.blocks[k]
    BY <1>0, <2>1, <2>3, <2>5, <2>7
  <2>9. \A k \in Switched : t.toggle[k] = IF k = j THEN x ELSE s.toggle[k]
    BY <1>0, <2>1, <2>5, <2>7
  <2>10. \A k \in Switched : m \notin Replies(k) \cap Errors => t.toggle[k] = s.toggle[k]
    BY <2>3, <2>4, <2>9
  <2>11. \A k \in Switched : m \in Replies(k) \cap Errors => t.toggle[k] = s.own[k]
    BY <2>3, <2>4, <2>9
  <2>12. Handles(t)
    BY <1>0, <2>4, <2>5, <2>7, <2>8, <2>10, <2>11
  <2> QED BY <2>12 DEF t
<1> QED BY <1>1, <1>2, <1>3, <1>4, <1>5, <1>6

LEMMA PaneReceives ==
  ASSUME RadioInv, Receive, ui = "pane"
  PROVE  RadioInv'
<1> DEFINE m == Head(news)
<1>1. /\ RadioTypeOK /\ PaneRight /\ radio \in [Keys -> BOOLEAN] /\ news \in Seq(RadioNews)
      /\ panel \in Programs /\ (radio["tech"] => radio["have"])
      /\ \A k \in Switched : Blocked(k)
      /\ Switched \subseteq Keys
  BY DEF RadioInv, RadioTypeOK, PaneRight, Switched, Keys
<1>2. /\ panel.alive /\ news # <<>> /\ m \in RadioNews /\ panel' = Handled(panel, m)
      /\ Returns(m) /\ radio' = radio /\ running' = running /\ ui' = ui
      /\ did' \in [toggles: Nat, changes: Nat, exits: Nat, lost: SUBSET Switched]
      /\ did'.exits = did.exits
      /\ \A k \in Switched :
           k \in did.lost /\ k \notin did'.lost =>
             m.type = "signal" /\ m.key = k /\ (ui = "pane" \/ panel'.known[k] # panel.known[k])
  BY <1>1, ReceiveFields
<1>3. news' = Tail(news) /\ pending' = pending /\ making' = making
  BY <1>2 DEF Returns
<1>4. /\ news' \in Seq(RadioNews)
      /\ \A S : Among(news, S) <=> m \in S \/ Among(news', S)
      /\ \A S : Single(news, S) => Single(news', S) /\ (m \in S => ~Among(news', S))
  BY <1>1, <1>2, <1>3, NewsTaken
<1>5. ASSUME NEW k \in Keys, NEW b \in BOOLEAN, m \in Tells(k, b)
      PROVE  b = radio[k] \/ Among(news', Tells(k, radio[k])) \/ Among(news', Of({"vanished"}))
  BY <1>1, <1>2, <1>3, <1>5, KeyTold DEF RadioInv
<1>6. \A k \in Keys : LastIsRight(k)'
  BY <1>1, <1>2, <1>3, LastHeard DEF RadioInv
<1>7. m.type = "reply" => panel.blocks[m.key] = 1
  <2> SUFFICES ASSUME m.type = "reply" PROVE panel.blocks[m.key] = 1
    OBVIOUS
  <2>1. m.key \in Switched /\ m \in Replies(m.key)
    BY <1>2, NewsFields DEF Replies
  <2>2. Blocked(m.key) /\ Among(news, Replies(m.key))
    BY <1>1, <1>4, <2>1
  <2> QED BY <2>2 DEF Blocked
<1> HIDE DEF m
<1>8. /\ panel' \in Programs /\ panel'.alive
      /\ \A k \in Switched, b \in BOOLEAN :
           m \in Tells(k, b) => panel'.own[k] = b /\ panel'.toggle[k] = b
      /\ \A k \in Switched : (\A b \in BOOLEAN : m \notin Tells(k, b)) =>
                               panel'.own[k] = panel.own[k]
      /\ \A k \in Switched : /\ \A b \in BOOLEAN : m \notin Tells(k, b)
                             /\ m \notin Replies(k) \cap Errors
                             => panel'.toggle[k] = panel.toggle[k]
      /\ \A k \in Switched : m \in Replies(k) \cap Errors => panel'.toggle[k] = panel.own[k]
      /\ \A k \in Switched : panel'.blocks[k] = IF m \in Replies(k) THEN 0 ELSE panel.blocks[k]
  BY <1>1, <1>2, <1>7, PaneHandles
<1>9. RadioTypeOK'
  BY <1>1, <1>2, <1>3, <1>4, <1>8 DEF RadioTypeOK
<1>10. ASSUME NEW k \in Switched
       PROVE  Blocked(k)'
  <2>1. Blocked(k)
    BY <1>1, <1>10
  <2>2. CASE m \in Replies(k)
    <3>1. ~Among(news', Replies(k)) /\ ~Among(pending, SetCalls(k)) /\ Single(news', Replies(k))
      BY <1>4, <2>1, <2>2 DEF Blocked
    <3>2. panel'.blocks[k] = 0
      BY <1>8, <1>10, <2>2
    <3> QED BY <1>3, <2>1, <3>1, <3>2 DEF Blocked
  <2>3. CASE m \notin Replies(k)
    <3>1. (Among(news', Replies(k)) <=> Among(news, Replies(k))) /\ Single(news', Replies(k))
      BY <1>4, <2>1, <2>3 DEF Blocked
    <3>2. panel'.blocks[k] = panel.blocks[k]
      BY <1>8, <1>10, <2>3
    <3> QED BY <1>3, <2>1, <3>1, <3>2 DEF Blocked
  <2> QED BY <2>2, <2>3
<1>11. ASSUME did.exits = 0
       PROVE  /\ running' /\ ~Vanishes'
              /\ \A k \in Switched : PaneKnows(k)' /\ PaneFollows(k)'
  <2>1. /\ running /\ ~Vanishes
        /\ \A k \in Switched : PaneKnows(k) /\ PaneFollows(k)
    BY <1>1, <1>11 DEF PaneRight
  <2>2. ~Vanishes' /\ m.type # "vanished"
    BY <1>2, <1>4, <2>1 DEF Vanishes, Of
  <2>3. running'
    BY <1>2, <2>1
  <2>4. ASSUME NEW k \in Switched
        PROVE  PaneKnows(k)'
    <3>0. k \in Keys
      BY <1>1, <2>4
    <3>1. ASSUME NEW b \in BOOLEAN, m \in Tells(k, b)
          PROVE  PaneKnows(k)'
      <4>1. b = radio[k] \/ Among(news', Tells(k, radio[k]))
        BY <1>5, <2>2, <3>0, <3>1 DEF Vanishes
      <4>2. panel'.own[k] = b
        BY <1>8, <2>1, <2>4, <3>1
      <4> QED BY <1>2, <4>1, <4>2 DEF PaneKnows
    <3>2. CASE \A b \in BOOLEAN : m \notin Tells(k, b)
      <4>1. panel'.own[k] = panel.own[k]
        BY <1>8, <2>2, <2>4, <3>2
      <4>2. Among(news, Tells(k, radio[k])) => Among(news', Tells(k, radio[k]))
        BY <1>1, <1>4, <3>0, <3>2
      <4>3. PaneKnows(k)
        BY <2>1, <2>4
      <4> QED BY <1>2, <1>3, <4>1, <4>2, <4>3 DEF PaneKnows
    <3> QED BY <3>1, <3>2
  <2>5. ASSUME NEW k \in Switched
        PROVE  PaneFollows(k)'
    <3>0. k \in Keys
      BY <1>1, <2>5
    <3>1. ASSUME NEW b \in BOOLEAN, m \in Tells(k, b)
          PROVE  PaneFollows(k)'
      <4>1. panel'.toggle[k] = b /\ panel'.own[k] = b
        BY <1>8, <2>1, <2>5, <3>0, <3>1
      <4> QED BY <4>1 DEF PaneFollows
    <3>2. CASE (\A b \in BOOLEAN : m \notin Tells(k, b)) /\ m \in Replies(k) \cap Errors
      <4>1. panel'.toggle[k] = panel.own[k] /\ panel'.own[k] = panel.own[k]
        BY <1>8, <2>2, <2>5, <3>0, <3>2
      <4> QED BY <4>1 DEF PaneFollows
    <3>3. CASE (\A b \in BOOLEAN : m \notin Tells(k, b)) /\ m \notin Replies(k) \cap Errors
      <4>1. panel'.toggle[k] = panel.toggle[k] /\ panel'.own[k] = panel.own[k]
        BY <1>8, <2>2, <2>5, <3>0, <3>3
      <4>2. m \notin AllProps
        <5> SUFFICES ASSUME m \in AllProps PROVE FALSE
          OBVIOUS
        <5>1. m.radio[k] \in BOOLEAN /\ m \in Tells(k, m.radio[k])
          BY <1>2, <3>0, NewsFields DEF AllProps, Tells
        <5> QED BY <3>3, <5>1
      <4>3. ~(m.type = "signal" /\ m.key = k)
        <5> SUFFICES ASSUME m.type = "signal", m.key = k PROVE FALSE
          OBVIOUS
        <5>1. m.value \in BOOLEAN /\ m \in Tells(k, m.value)
          BY <1>2, NewsFields DEF Tells
        <5> QED BY <3>3, <5>1
      <4>4. k \in did.lost => k \in did'.lost
        BY <1>2, <2>5, <4>3
      <4>5. panel.toggle[k] \in BOOLEAN
        BY <1>1, <2>5, ProgramFields
      <4>6. /\ Among(news, AllProps) => Among(news', AllProps)
            /\ Among(news, Replies(k) \cap Errors) => Among(news', Replies(k) \cap Errors)
            /\ Among(news, Tells(k, panel.toggle[k])) => Among(news', Tells(k, panel.toggle[k]))
        BY <1>4, <3>3, <4>2, <4>5
      <4>7. PaneFollows(k)
        BY <2>1, <2>5
      <4> QED BY <1>3, <4>1, <4>4, <4>6, <4>7 DEF PaneFollows
    <3> QED BY <3>1, <3>2, <3>3
  <2> QED BY <2>2, <2>3, <2>4, <2>5
<1>12. PaneRight'
  <2>1. making' = 0
    BY <1>1, <1>3 DEF PaneRight
  <2> QED BY <1>2, <1>8, <1>10, <1>11, <2>1 DEF PaneRight
<1>13. (pending # <<>> => running)'
  BY <1>2, <1>3 DEF RadioInv
<1> QED BY <1>1, <1>2, <1>6, <1>9, <1>12, <1>13 DEF RadioInv

\* What must hold of a program with a manager that heard something.
ManagerHeard ==
  /\ panel' \in Programs /\ panel'.blocks = panel.blocks
  /\ pending' \in Seq(RadioCalls) /\ making' \in Nat /\ news' \in Seq(RadioNews)
  /\ pending' # <<>> => running
  /\ panel'.alive => (\A k \in Keys : LastIsRight(k)') /\ ManagerRight'

LEMMA ManagerReceiving ==
  ASSUME RadioInv, Receive, ui # "pane"
  PROVE  /\ radio \in [Keys -> BOOLEAN] /\ news \in Seq(RadioNews) /\ pending \in Seq(RadioCalls)
         /\ making \in Nat /\ panel \in Programs /\ panel.alive /\ news # <<>>
         /\ ui \in {"tile", "bluetooth"} /\ ui' = ui /\ radio' = radio /\ running' = running
         /\ Head(news) \in RadioNews /\ panel' = Handled(panel, Head(news)) /\ Returns(Head(news))
         /\ (\A k \in Keys : LastIsRight(k)) /\ ManagerKnows /\ ManagerRight
         /\ pending # <<>> => running
         /\ \A k \in Switched :
              k \in did.lost /\ k \notin did'.lost =>
                /\ Head(news).type = "signal" /\ Head(news).key = k
                /\ panel'.known[k] # panel.known[k]
<1>1. /\ RadioTypeOK /\ radio \in [Keys -> BOOLEAN] /\ news \in Seq(RadioNews)
      /\ pending \in Seq(RadioCalls) /\ making \in Nat /\ panel \in Programs /\ ui \in Uis
      /\ pending # <<>> => running
  BY DEF RadioInv, RadioTypeOK
<1>2. ui \in {"tile", "bluetooth"}
  BY <1>1, RadioAssumption
<1>3. /\ panel.alive /\ news # <<>> /\ Head(news) \in RadioNews /\ panel' = Handled(panel, Head(news))
      /\ Returns(Head(news)) /\ radio' = radio /\ running' = running /\ ui' = ui
      /\ \A k \in Switched :
           k \in did.lost /\ k \notin did'.lost =>
             /\ Head(news).type = "signal" /\ Head(news).key = k
             /\ panel'.known[k] # panel.known[k]
  BY <1>1, ReceiveFields
<1>4. (\A k \in Keys : LastIsRight(k)) /\ ManagerRight
  BY <1>3 DEF RadioInv
<1> QED BY <1>1, <1>2, <1>3, <1>4 DEF ManagerRight

\* A program that is still asking follows already.
LEMMA AskingFollows ==
  ASSUME ManagerRight, Asks, NEW k \in Switched
  PROVE  /\ ui = "tile" /\ "tile" \notin RefusesOffline /\ ~Vanishes /\ k \notin did.lost =>
              panel.toggle[k] = Says(panel, k)
         /\ ui = "bluetooth" /\ "bluetooth" \notin RefusesTech /\ ~Vanishes /\ "tech" \notin did.lost =>
              panel.toggle["tech"] = panel.own["tech"]
BY DEF ManagerRight, TileFollows, TileWaits, ShellFollows, ShellWaits

\* The same program goes on, and what it waits for still comes.
LEMMA SameFollows ==
  ASSUME ManagerRight, panel'.known = panel.known, panel'.own = panel.own,
         panel'.toggle = panel.toggle, ui' = ui, Vanishes' <=> Vanishes,
         \A k \in Switched : k \in did.lost => k \in did'.lost,
         ui = "tile" => \A k \in Switched : (TileWaits(k) => TileWaits(k)'),
         ui = "bluetooth" => (ShellWaits => ShellWaits')
  PROVE  /\ ui = "tile" => /\ TileFits(panel')
                           /\ "tile" \notin RefusesOffline => \A k \in Switched : TileFollows(k)'
         /\ ui = "bluetooth" => /\ ShellFits(panel')
                                /\ "bluetooth" \notin RefusesTech => ShellFollows'
<1>1. \A k : panel'.known[k] = panel.known[k]
  OBVIOUS
<1>2. \A k : Says(panel', k) = Says(panel, k)
  BY <1>1, SaysSame
<1>3. TileFits(panel) => TileFits(panel')
  BY <1>2 DEF TileFits
<1>4. ShellFits(panel) => ShellFits(panel')
  BY <1>2 DEF ShellFits
<1>5. ASSUME ui = "tile", NEW k \in Switched, TileFollows(k)
      PROVE  TileFollows(k)'
  <2>1. panel'.toggle[k] = panel.toggle[k] /\ Says(panel', k) = Says(panel, k)
    BY <1>2
  <2>2. (~Vanishes /\ k \notin did.lost)' => ~Vanishes /\ k \notin did.lost
    BY <1>5
  <2> QED BY <1>5, <2>1, <2>2 DEF TileFollows
<1>6. ASSUME ui = "bluetooth", ShellFollows
      PROVE  ShellFollows'
  <2>1. panel'.toggle["tech"] = panel.toggle["tech"] /\ panel'.own["tech"] = panel.own["tech"]
    OBVIOUS
  <2>2. (~Vanishes /\ "tech" \notin did.lost)' => ~Vanishes /\ "tech" \notin did.lost
    BY DEF Switched
  <2> QED BY <1>6, <2>1, <2>2 DEF ShellFollows
<1> QED BY <1>3, <1>4, <1>5, <1>6 DEF ManagerRight

LEMMA ManagerAppeared ==
  ASSUME RadioInv, Receive, ui # "pane", Head(news).type = "appeared"
  PROVE  ManagerHeard
<1> DEFINE m == Head(news)
<1>1. /\ radio \in [Keys -> BOOLEAN] /\ news \in Seq(RadioNews) /\ pending \in Seq(RadioCalls)
      /\ making \in Nat /\ panel \in Programs /\ panel.alive /\ news # <<>>
      /\ ui \in {"tile", "bluetooth"} /\ ui' = ui /\ radio' = radio /\ running' = running
      /\ m \in RadioNews /\ panel' = Handled(panel, m) /\ Returns(m)
      /\ (\A k \in Keys : LastIsRight(k)) /\ ManagerKnows /\ ManagerRight
      /\ pending # <<>> => running
      /\ \A k \in Switched : k \in did.lost /\ k \notin did'.lost => m.type = "signal"
  BY ManagerReceiving
<1>2. panel' = panel
  BY <1>1, HandledIs
<1>3. /\ news' = Tail(news) /\ pending' = pending /\ making' = making + 1
      /\ \A k \in Switched : k \in did.lost => k \in did'.lost
  BY <1>1 DEF Returns
<1>4. /\ news' \in Seq(RadioNews)
      /\ \A S : Among(news, S) <=> m \in S \/ Among(news', S)
      /\ \A S, T : Followed(news, S, T) => Followed(news', S, T)
      /\ \A S, T : NotBefore(news, S, T) => NotBefore(news', S, T)
  BY <1>1, <1>3, NewsTaken
<1>5. \A k \in Keys : LastIsRight(k)'
  BY <1>1, <1>3, LastHeard
<1>6. Vanishes' <=> Vanishes
  BY <1>4 DEF Vanishes, Of
<1>7. ManagerKnows'
  <2>1. making' > 0 /\ making' \in Nat
    BY <1>1, <1>3
  <2>2. WillKnow'
    BY <2>1 DEF WillKnow
  <2>3. (running => Followed(news, Of({"vanished"}), Of({"appeared"})))'
    BY <1>1, <1>4 DEF ManagerKnows
  <2>4. (~running => Followed(news, AllProps \cup Of({"signal"}), Of({"vanished"})))'
    BY <1>1, <1>4 DEF ManagerKnows
  <2>5. (Among(pending, PropsCalls) => panel.cm /\ ~Vanishes)'
    BY <1>1, <1>2, <1>3, <1>6 DEF ManagerKnows
  <2>6. (NotBefore(news, Of({"vanished"}), AllProps) /\ (Among(news, AllProps) => panel.cm))'
    BY <1>1, <1>2, <1>4 DEF ManagerKnows
  <2>7. (panel.known["have"] # Null => panel.cm /\ (running \/ Vanishes))'
    BY <1>1, <1>2, <1>6 DEF ManagerKnows
  <2> QED BY <2>2, <2>3, <2>4, <2>5, <2>6, <2>7 DEF ManagerKnows
<1>8. Asks
  <2>1. m \in Of({"appeared", "proxy", "props"})
    BY <1>1 DEF Of
  <2> QED BY <1>4, <2>1 DEF Asks
<1>9. (\A k \in Switched : ~TileWaits(k)) /\ ~ShellWaits
  BY <1>8 DEF TileWaits, ShellWaits
<1>10. ui = "bluetooth" => TechComes'
  <2>1. m \notin Turned("tech", TRUE)
    BY DEF Turned
  <2>2. TechComes /\ panel'.own = panel.own /\ panel'.known = panel.known => TechComes'
    BY <1>1, <1>3, <2>1, TechHears
  <2> QED BY <1>1, <1>2, <2>2 DEF ManagerRight
<1>11. ManagerRight'
  <2>1. panel'.known = panel.known /\ panel'.own = panel.own /\ panel'.toggle = panel.toggle
    BY <1>2
  <2> QED BY <1>1, <1>3, <1>6, <1>7, <1>9, <1>10, <2>1, SameFollows DEF ManagerRight
<1> QED BY <1>1, <1>2, <1>3, <1>4, <1>5, <1>11 DEF ManagerHeard

LEMMA ManagerHasProxy ==
  ASSUME RadioInv, Receive, ui # "pane", Head(news).type = "proxy"
  PROVE  ManagerHeard
<1> DEFINE m == Head(news)
           r == Tail(news)
           c == [type |-> "props"]
           f == Failure(c)
<1>1. /\ radio \in [Keys -> BOOLEAN] /\ news \in Seq(RadioNews) /\ pending \in Seq(RadioCalls)
      /\ making \in Nat /\ panel \in Programs /\ panel.alive /\ news # <<>>
      /\ ui \in {"tile", "bluetooth"} /\ ui' = ui /\ radio' = radio /\ running' = running
      /\ m \in RadioNews /\ panel' = Handled(panel, m) /\ Returns(m)
      /\ (\A k \in Keys : LastIsRight(k)) /\ ManagerKnows /\ ManagerRight
      /\ pending # <<>> => running
      /\ \A k \in Switched : k \in did.lost /\ k \notin did'.lost => m.type = "signal"
  BY ManagerReceiving
<1>2. /\ panel' \in Programs /\ panel'.cm /\ panel'.known = panel.known /\ panel'.own = panel.own
      /\ panel'.toggle = panel.toggle /\ panel'.blocks = panel.blocks
  <2>1. panel' = AndCm(panel, TRUE)
    BY <1>1, HandledIs
  <2>2. panel \in Programs /\ TRUE \in BOOLEAN
    BY <1>1
  <2> HIDE DEF m, r, c, f
  <2>3. /\ AndCm(panel, TRUE) \in Programs /\ AndCm(panel, TRUE).cm
        /\ AndCm(panel, TRUE).known = panel.known
        /\ AndCm(panel, TRUE).own = panel.own /\ AndCm(panel, TRUE).toggle = panel.toggle
        /\ AndCm(panel, TRUE).blocks = panel.blocks
    BY <2>2, SetFlags
  <2> QED BY <2>1, <2>3
<1>3. making' = making /\ Send(c, r) /\ \A k \in Switched : k \in did.lost => k \in did'.lost
  BY <1>1 DEF Returns
<1>4. /\ r \in Seq(RadioNews)
      /\ \A S : Among(news, S) <=> m \in S \/ Among(r, S)
      /\ \A S, T : Followed(news, S, T) => Followed(r, S, T)
      /\ \A S, T : NotBefore(news, S, T) => NotBefore(r, S, T)
  BY <1>1, NewsTaken
<1>5. c \in RadioCalls /\ c.type = "props"
  BY DEF RadioCalls
<1>6. /\ m \notin AllProps /\ (\A types : m \in Of(types) <=> "proxy" \in types)
      /\ (\A k, b : m \notin Tells(k, b) /\ m \notin Turned(k, b)) /\ m \notin Errors
  BY <1>1 DEF AllProps, Of, Tells, Turned, Errors
<1> HIDE DEF c, r, m
<1>7. \/ /\ running /\ ~Among(r, Of({"vanished"})) /\ pending' = Append(pending, c) /\ news' = r
      \/ /\ ~(running /\ ~Among(r, Of({"vanished"}))) /\ pending' = pending /\ news' = Append(r, f)
  BY <1>1, <1>3, <1>4, <1>5, Sending
<1>8. /\ f \in RadioNews /\ f.type = "props" /\ f.error
  BY <1>5, FailureFields
<1> HIDE DEF f
<1>9. /\ f \notin AllProps /\ (\A types : f \in Of(types) <=> "props" \in types)
      /\ (\A k, b : f \notin Tells(k, b) /\ f \notin Turned(k, b))
  BY <1>8 DEF AllProps, Of, Tells, Turned
<1>10. Among(r, Of({"vanished"})) <=> Vanishes
  BY <1>4, <1>6 DEF Vanishes
<1>11. Asks
  BY <1>4, <1>6 DEF Asks
<1>12. (\A k \in Switched : ~TileWaits(k)) /\ ~ShellWaits
  BY <1>11 DEF TileWaits, ShellWaits
<1>13. TechComes => ComesAfter(r, Turned("have", TRUE), Turned("tech", FALSE), Turned("tech", TRUE), radio["tech"])
         /\ (panel.own["have"] /\ panel.known["tech"] = Null =>
               Comes(r, 0, Turned("tech", FALSE), Turned("tech", TRUE), radio["tech"]))
  BY <1>1, <1>6, ComesRest, ComesAfterRest DEF TechComes, m, r
<1>14. CASE running /\ ~Vanishes /\ pending' = Append(pending, c) /\ news' = r
  <2>1. /\ pending' \in Seq(RadioCalls) /\ \A S : Among(pending', S) <=> Among(pending, S) \/ c \in S
    BY <1>1, <1>5, <1>14, Added
  <2>2. Among(pending', PropsCalls)
    BY <1>5, <2>1 DEF PropsCalls
  <2>3. (Vanishes' <=> Vanishes) /\ ~Vanishes'
    BY <1>10, <1>14 DEF Vanishes
  <2>4. \A k \in Keys : LastIsRight(k)'
    BY <1>1, <1>4, <1>14 DEF LastIsRight
  <2>5. ManagerKnows'
    <3>1. WillKnow'
      BY <2>2 DEF WillKnow
    <3>2. (running => Followed(news, Of({"vanished"}), Of({"appeared"})))'
      BY <1>1, <1>4, <1>14 DEF ManagerKnows
    <3>3. running'
      BY <1>1, <1>14
    <3>4. NotBefore(news', Of({"vanished"}), AllProps)
      BY <1>1, <1>4, <1>14 DEF ManagerKnows
    <3> QED BY <1>2, <2>3, <3>1, <3>2, <3>3, <3>4 DEF ManagerKnows
  <2>6. TechComes => TechComes'
    BY <1>1, <1>2, <1>13, <1>14 DEF TechComes
  <2>7. ManagerRight'
    BY <1>1, <1>2, <1>3, <1>12, <2>3, <2>5, <2>6, SameFollows DEF ManagerRight
  <2> QED BY <1>1, <1>2, <1>3, <1>4, <1>14, <2>1, <2>4, <2>7 DEF ManagerHeard
<1>15. CASE ~(running /\ ~Vanishes) /\ pending' = pending /\ news' = Append(r, f)
  <2>1. /\ news' \in Seq(RadioNews) /\ \A S : Among(news', S) <=> Among(r, S) \/ f \in S
        /\ \A S, T : f \notin S /\ Followed(r, S, T) => Followed(news', S, T)
        /\ \A S, T : NotBefore(r, S, T) /\ f \notin T => NotBefore(news', S, T)
    <3>1. /\ Append(r, f) \in Seq(RadioNews)
          /\ \A S : Among(Append(r, f), S) <=> Among(r, S) \/ f \in S
          /\ \A S, T : f \notin S /\ (Followed(r, S, T) \/ f \in T) => Followed(Append(r, f), S, T)
          /\ \A S, T : NotBefore(r, S, T) /\ ~(Among(r, S) /\ f \in T) => NotBefore(Append(r, f), S, T)
      BY <1>4, <1>8, Added
    <3> QED BY <1>15, <3>1
  <2>2. Vanishes' <=> Vanishes
    BY <1>9, <1>10, <2>1 DEF Vanishes
  <2>3. \A k \in Keys : LastIsRight(k)'
    BY <1>1, <1>4, <1>9, <2>1 DEF LastIsRight
  <2>4. ManagerKnows'
    <3>1. (running => Followed(news, Of({"vanished"}), Of({"appeared"})))'
      BY <1>1, <1>4, <1>9, <2>1 DEF ManagerKnows
    <3>2. (~running => Followed(news, AllProps \cup Of({"signal"}), Of({"vanished"})))'
      BY <1>1, <1>4, <1>9, <2>1 DEF ManagerKnows
    <3>3. (Among(pending, PropsCalls) => panel.cm /\ ~Vanishes)'
      BY <1>1, <1>2, <1>15, <2>2 DEF ManagerKnows
    <3>4. NotBefore(news', Of({"vanished"}), AllProps)
      BY <1>1, <1>4, <1>9, <2>1 DEF ManagerKnows
    <3>5. ~(running /\ ~Vanishes)'
      BY <1>1, <1>15, <2>2
    <3>6. (panel.known["have"] # Null => panel.cm /\ (running \/ Vanishes))'
      BY <1>1, <1>2, <2>2 DEF ManagerKnows
    <3> QED BY <1>2, <3>1, <3>2, <3>3, <3>4, <3>5, <3>6 DEF ManagerKnows
  <2>5. TechComes => TechComes'
    <3> DEFINE H == Turned("have", TRUE)
               S == Turned("tech", FALSE)
               T == Turned("tech", TRUE)
               on == radio["tech"]
               x == <<f>>
    <3>1. /\ x \in Seq(RadioNews) /\ news' = r \o x /\ \A U : Among(x, U) <=> f \in U
      <4>1. x \in Seq(RadioNews) /\ \A U : Among(x, U) <=> f \in U
        BY <1>8, OnlyOne
      <4>2. Append(r, f) = r \o x
        BY <1>4, <1>8, Added
      <4> QED BY <1>15, <4>1, <4>2
    <3>2. ~Among(x, H) /\ ~Among(x, S) /\ 0 \in 0..Len(r)
      <4>1. Len(r) \in Nat
        BY <1>4, LenProperties
      <4>2. f \notin H /\ f \notin S
        BY <1>9
      <4>3. ~Among(x, H) /\ ~Among(x, S)
        BY <3>1, <4>2
      <4>4. 0 \in 0..Len(r)
        BY <4>1
      <4> QED BY <4>3, <4>4
    <3> HIDE DEF x
    <3>3. /\ ComesAfter(r, H, S, T, on) => ComesAfter(r \o x, H, S, T, on)
          /\ Comes(r, 0, S, T, on) => Comes(r \o x, 0, S, T, on)
      <4> HIDE DEF H, S, T, on
      <4> QED BY <1>4, <3>1, <3>2, ComesJoined, ComesAfterJoined
    <3>4. /\ ComesAfter(r, H, S, T, on) => ComesAfter(news', H, S, T, on')
          /\ Comes(r, 0, S, T, on) => Comes(news', 0, S, T, on')
      BY <1>1, <3>1, <3>3
    <3> QED BY <1>2, <1>13, <3>4 DEF TechComes
  <2>6. ManagerRight'
    BY <1>1, <1>2, <1>3, <1>12, <2>2, <2>4, <2>5, SameFollows DEF ManagerRight
  <2> QED BY <1>1, <1>2, <1>3, <1>15, <2>1, <2>3, <2>6 DEF ManagerHeard
<1> QED BY <1>7, <1>10, <1>14, <1>15

LEMMA ManagerLeft ==
  ASSUME RadioInv, Receive, ui # "pane", Head(news).type = "vanished"
  PROVE  ManagerHeard
<1> DEFINE m == Head(news)
<1>1. /\ radio \in [Keys -> BOOLEAN] /\ news \in Seq(RadioNews) /\ pending \in Seq(RadioCalls)
      /\ making \in Nat /\ panel \in Programs /\ panel.alive /\ news # <<>>
      /\ ui \in {"tile", "bluetooth"} /\ ui' = ui /\ radio' = radio /\ running' = running
      /\ m \in RadioNews /\ panel' = Handled(panel, m) /\ Returns(m)
      /\ (\A k \in Keys : LastIsRight(k)) /\ ManagerKnows /\ ManagerRight
      /\ pending # <<>> => running
  BY ManagerReceiving
<1>2. AfterVanished(panel, panel')
  <2>1. panel' = Vanished(panel)
    BY <1>1, HandledIs
  <2> QED BY <1>1, <2>1, ManagerVanished
<1>3. news' = Tail(news) /\ pending' = pending /\ making' = making
  BY <1>1 DEF Returns
<1>4. /\ news' \in Seq(RadioNews)
      /\ \A S : Among(news, S) <=> m \in S \/ Among(news', S)
      /\ \A S, T : Followed(news, S, T) => Followed(news', S, T) /\ (m \in S => Among(news', T))
      /\ \A S, T : NotBefore(news, S, T) => NotBefore(news', S, T) /\ (m \in S => ~Among(news', T))
  BY <1>1, <1>3, NewsTaken
<1>5. \A k \in Keys : LastIsRight(k)'
  BY <1>1, <1>3, LastHeard
<1>6. m \in Of({"vanished"}) /\ Vanishes
  BY <1>1, <1>4 DEF Of, Vanishes
<1>7. ASSUME panel'.alive
      PROVE  ManagerRight'
  <2>1. /\ panel.known["have"] = Null /\ panel'.known = panel.known /\ panel'.own = panel.own
        /\ panel'.toggle = panel.toggle
    <3>1. panel.known["have"] = Null /\ panel' = AndCm(panel, FALSE)
      BY <1>2, <1>7 DEF AfterVanished
    <3>2. panel \in Programs /\ FALSE \in BOOLEAN
      BY <1>1
    <3>3. /\ AndCm(panel, FALSE).known = panel.known /\ AndCm(panel, FALSE).own = panel.own
          /\ AndCm(panel, FALSE).toggle = panel.toggle
      BY <3>2, SetFlags
    <3> QED BY <3>1, <3>3
  <2>2. ManagerKnows'
    <3>1. running => WillKnow'
      <4>1. running => Among(news', Of({"appeared"}))
        BY <1>1, <1>4, <1>6 DEF ManagerKnows
      <4>2. Among(news', Of({"appeared"})) => Among(news', Of({"appeared", "proxy"}))
        BY DEF Among, Of
      <4> QED BY <4>1, <4>2 DEF WillKnow
    <3>2. (running => Followed(news, Of({"vanished"}), Of({"appeared"})))'
      BY <1>1, <1>4 DEF ManagerKnows
    <3>3. (~running => Followed(news, AllProps \cup Of({"signal"}), Of({"vanished"})))'
      BY <1>1, <1>4 DEF ManagerKnows
    <3>4. ~Among(pending', PropsCalls)
      BY <1>1, <1>3, <1>6 DEF ManagerKnows
    <3>5. NotBefore(news', Of({"vanished"}), AllProps) /\ ~Among(news', AllProps)
      BY <1>1, <1>4, <1>6 DEF ManagerKnows
    <3> QED BY <1>1, <2>1, <3>1, <3>2, <3>3, <3>4, <3>5 DEF ManagerKnows
  <2>3. /\ \A k : Says(panel', k) = Says(panel, k)
        /\ Says(panel, "have") = FALSE
    <3>1. \A k : panel'.known[k] = panel.known[k]
      BY <2>1
    <3>2. \A k : Says(panel', k) = Says(panel, k)
      BY <3>1, SaysSame
    <3>3. Says(panel, "have") = FALSE
      BY <2>1, SaysIs
    <3> QED BY <3>2, <3>3
  <2>4. ui = "tile" => TileFits(panel') /\ \A k \in Switched : TileFollows(k)'
    <3> SUFFICES ASSUME ui = "tile" PROVE TileFits(panel') /\ \A k \in Switched : TileFollows(k)'
      OBVIOUS
    <3>1. TileFits(panel)
      BY <1>1 DEF ManagerRight
    <3>2. TileFits(panel')
      BY <2>1, <2>3, <3>1 DEF TileFits
    <3>3. \A k \in Switched : panel'.toggle[k] = Says(panel', k)
      BY <2>1, <3>2 DEF TileFits
    <3> QED BY <3>2, <3>3 DEF TileFollows
  <2>5. ui = "bluetooth" => ShellFits(panel') /\ ShellFollows' /\ TechComes'
    <3> SUFFICES ASSUME ui = "bluetooth" PROVE ShellFits(panel') /\ ShellFollows' /\ TechComes'
      OBVIOUS
    <3>1. ShellFits(panel) /\ TechComes
      BY <1>1 DEF ManagerRight
    <3>2. ShellFits(panel')
      BY <2>1, <2>3, <3>1 DEF ShellFits
    <3>3. ~panel'.own["have"]
      BY <2>1, <2>3, <3>1 DEF ShellFits
    <3>4. panel'.toggle["tech"] = panel'.own["tech"]
      BY <3>2, <3>3 DEF ShellFits
    <3>5. ShellFollows'
      BY <3>4 DEF ShellFollows
    <3>6. TechComes'
      BY <1>1, <1>3, <3>1, <3>3, TechHears
    <3> QED BY <3>2, <3>5, <3>6
  <2> QED BY <1>1, <2>2, <2>4, <2>5 DEF ManagerRight
<1> QED BY <1>1, <1>2, <1>3, <1>4, <1>5, <1>7 DEF ManagerHeard, AfterVanished

\* connman does not answer, or answers: the program knows everything then.
LEMMA ManagerAnswered ==
  ASSUME RadioInv, Receive, ui # "pane", Head(news).type = "props"
  PROVE  ManagerHeard
<1> DEFINE m == Head(news)
<1>1. /\ radio \in [Keys -> BOOLEAN] /\ news \in Seq(RadioNews) /\ pending \in Seq(RadioCalls)
      /\ making \in Nat /\ panel \in Programs /\ panel.alive /\ news # <<>>
      /\ ui \in {"tile", "bluetooth"} /\ ui' = ui /\ radio' = radio /\ running' = running
      /\ m \in RadioNews /\ panel' = Handled(panel, m) /\ Returns(m)
      /\ (\A k \in Keys : LastIsRight(k)) /\ ManagerKnows /\ ManagerRight
      /\ pending # <<>> => running
      /\ \A k \in Switched : k \in did.lost /\ k \notin did'.lost => m.type = "signal"
  BY ManagerReceiving
<1>2. /\ news' = Tail(news) /\ pending' = pending /\ making' = making
      /\ \A k \in Switched : k \in did.lost => k \in did'.lost
  BY <1>1 DEF Returns
<1>3. news' \in Seq(RadioNews) /\ \A S : Among(news, S) <=> m \in S \/ Among(news', S)
  BY <1>1, <1>2, NewsTaken
<1>4. \A k \in Keys : LastIsRight(k)'
  BY <1>1, <1>2, LastHeard
<1>5. Asks
  <2>1. m \in Of({"appeared", "proxy", "props"})
    BY <1>1 DEF Of
  <2> QED BY <1>3, <2>1 DEF Asks
<1>6. \A k \in Switched : ~TileWaits(k) /\ ~ShellWaits
  BY <1>5 DEF TileWaits, ShellWaits
<1>7. \A k, b : m \notin Turned(k, b)
  BY DEF Turned
<1>8. m.error \in BOOLEAN /\ (~m.error => m.radio \in [Keys -> BOOLEAN])
  BY <1>1, NewsFields
<1>9. CASE m.error
  <2>1. panel' = panel
    BY <1>1, <1>9, HandledIs
  <2>2. \A k, b : m \notin Tells(k, b)
    BY <1>9 DEF Tells
  <2>3. ManagerKnows' /\ (Vanishes' <=> Vanishes)
    <3>1. panel'.cm = panel.cm /\ \A k \in Keys : panel'.known[k] = panel.known[k]
      BY <2>1
    <3> QED BY <1>1, <1>2, <2>2, <3>1, ManagerHears
  <2>4. ui = "bluetooth" => TechComes'
    <3>1. panel'.own = panel.own /\ panel'.known = panel.known
      BY <2>1
    <3>2. TechComes => TechComes'
      BY <1>1, <1>2, <1>7, <3>1, TechHears
    <3> QED BY <1>1, <3>2 DEF ManagerRight
  <2>5. ManagerRight'
    <3>1. panel'.known = panel.known /\ panel'.own = panel.own /\ panel'.toggle = panel.toggle
      BY <2>1
    <3>2. (\A k \in Switched : ~TileWaits(k)) /\ ~ShellWaits
      BY <1>5 DEF TileWaits, ShellWaits
    <3>3. /\ ui = "tile" => /\ TileFits(panel')
                            /\ "tile" \notin RefusesOffline => \A k \in Switched : TileFollows(k)'
          /\ ui = "bluetooth" => /\ ShellFits(panel')
                                 /\ "bluetooth" \notin RefusesTech => ShellFollows'
      BY <1>1, <1>2, <2>3, <3>1, <3>2, SameFollows
    <3> QED BY <1>1, <2>3, <2>4, <3>3 DEF ManagerRight
  <2> QED BY <1>1, <1>2, <1>3, <1>4, <2>1, <2>5 DEF ManagerHeard
<1>10. CASE ~m.error
  <2> DEFINE r == m.radio
  <2>1. r \in [Keys -> BOOLEAN] /\ m \in AllProps
    BY <1>1, <1>8, <1>10 DEF AllProps
  <2>2. panel' = TakesAll(panel, r)
    BY <1>1, <1>10, HandledIs
  <2>3. \A k \in Keys : /\ m \in Tells(k, r[k]) /\ r[k] \in BOOLEAN
                        /\ \A b \in BOOLEAN : m \in Tells(k, b) => b = r[k]
    BY <1>1, <1>10, <2>1 DEF Tells
  <2>4. panel.cm
    BY <1>1, <1>3, <2>1 DEF ManagerKnows
  <2>5. /\ ui = "tile" => TileHasAll(panel, r, panel')
        /\ ui = "bluetooth" => ShellHasAll(panel, r, panel')
    BY <1>1, <2>1, <2>2, AllTaken DEF ManagerRight
  <2> HIDE DEF r, m
  <2>6. /\ panel' \in Programs /\ panel'.alive /\ panel'.cm = panel.cm /\ panel'.blocks = panel.blocks
        /\ \A k \in Keys : panel'.known[k] = {r[k]}
    BY <1>1, <2>5 DEF TileHasAll, ShellHasAll
  <2>7. ManagerKnows' /\ (Vanishes' <=> Vanishes)
    <3>1. \A k \in Keys, b \in BOOLEAN : m \in Tells(k, b) => panel'.known[k] = {b}
      BY <2>3, <2>6
    <3>2. \A k \in Keys : \E b \in BOOLEAN : m \in Tells(k, b)
      BY <2>3
    <3> QED BY <1>1, <1>2, <2>4, <2>6, <3>1, <3>2, ManagerHears DEF m
  <2>8. \A k \in Keys : panel'.known[k] # Null /\ Says(panel', k) = r[k]
    BY <2>3, <2>6, ListOf, SaysOf
  <2>9. Switched \subseteq Keys /\ "tech" \in Keys
    BY DEF Switched, Keys
  <2>10. ASSUME ui = "tile"
         PROVE  /\ TileFits(panel')
                /\ "tile" \notin RefusesOffline => \A k \in Switched : TileFollows(k)'
    <3>1. TileHasAll(panel, r, panel')
      BY <2>5, <2>10
    <3>2. ASSUME NEW k \in Switched, "tile" \notin RefusesOffline, ~Vanishes, k \notin did.lost
          PROVE  panel'.toggle[k] = Says(panel', k)
      <4>0. k \in Keys
        BY <2>9, <3>2
      <4>1. panel.toggle[k] = Says(panel, k)
        BY <1>1, <1>5, <2>10, <3>2, AskingFollows
      <4>2. panel.known[k] = {r[k]} => Says(panel, k) = r[k]
        BY <2>3, <4>0, SaysOf
      <4>3. panel'.toggle[k] = IF panel.known[k] # {r[k]} THEN r[k] ELSE panel.toggle[k]
        BY <3>1, <3>2 DEF TileHasAll
      <4> QED BY <2>8, <4>0, <4>1, <4>2, <4>3
    <3>3. ASSUME NEW k \in Switched, "tile" \notin RefusesOffline
          PROVE  TileFollows(k)'
      <4>1. (~Vanishes /\ k \notin did.lost)' => ~Vanishes /\ k \notin did.lost
        BY <1>2, <2>7, <3>3
      <4> QED BY <3>2, <3>3, <4>1 DEF TileFollows
    <3> QED BY <3>1, <3>3 DEF TileHasAll
  <2>11. ASSUME ui = "bluetooth"
         PROVE  /\ ShellFits(panel') /\ TechComes'
                /\ "bluetooth" \notin RefusesTech => ShellFollows'
    <3>1. ShellHasAll(panel, r, panel')
      BY <2>5, <2>11
    <3>2. TechComes'
      <4>1. TechComes
        BY <1>1, <2>11 DEF ManagerRight
      <4> QED BY <1>1, <1>2, <2>8, <2>9, <4>1, TechHears
    <3>3. ASSUME "bluetooth" \notin RefusesTech, ~Vanishes, "tech" \notin did.lost
          PROVE  panel'.toggle["tech"] = panel'.own["tech"]
      <4>1. "tech" \in Switched
        BY DEF Switched
      <4>2. panel.toggle["tech"] = panel.own["tech"]
        BY <1>1, <1>5, <2>11, <3>3, <4>1, AskingFollows
      <4> QED BY <3>1, <4>2 DEF ShellHasAll
    <3>4. ASSUME "bluetooth" \notin RefusesTech
          PROVE  ShellFollows'
      <4>1. (~Vanishes /\ "tech" \notin did.lost)' => ~Vanishes /\ "tech" \notin did.lost
        BY <1>2, <2>7 DEF Switched
      <4> QED BY <3>3, <3>4, <4>1 DEF ShellFollows
    <3> QED BY <3>1, <3>2, <3>4 DEF ShellHasAll
  <2>12. ManagerRight'
    BY <1>1, <2>7, <2>10, <2>11 DEF ManagerRight
  <2> QED BY <1>1, <1>2, <1>3, <1>4, <2>6, <2>12 DEF ManagerHeard
<1> QED BY <1>8, <1>9, <1>10

\* A call to connman has ended.
LEMMA ManagerReplied ==
  ASSUME RadioInv, Receive, ui # "pane", Head(news).type = "reply"
  PROVE  ManagerHeard
<1> DEFINE m == Head(news)
<1>1. /\ radio \in [Keys -> BOOLEAN] /\ news \in Seq(RadioNews) /\ pending \in Seq(RadioCalls)
      /\ making \in Nat /\ panel \in Programs /\ panel.alive /\ news # <<>>
      /\ ui \in {"tile", "bluetooth"} /\ ui' = ui /\ radio' = radio /\ running' = running
      /\ m \in RadioNews /\ panel' = Handled(panel, m) /\ Returns(m)
      /\ (\A k \in Keys : LastIsRight(k)) /\ ManagerKnows /\ ManagerRight
      /\ pending # <<>> => running
      /\ \A k \in Switched : k \in did.lost /\ k \notin did'.lost => m.type = "signal"
  BY ManagerReceiving
<1>2. /\ news' = Tail(news) /\ pending' = pending /\ making' = making
      /\ \A k \in Switched : k \in did.lost => k \in did'.lost
  BY <1>1 DEF Returns
<1>3. news' \in Seq(RadioNews) /\ \A S : Among(news, S) <=> m \in S \/ Among(news', S)
  BY <1>1, <1>2, NewsTaken
<1>4. \A k \in Keys : LastIsRight(k)'
  BY <1>1, <1>2, LastHeard
<1>5. (\A k, b : m \notin Tells(k, b) /\ m \notin Turned(k, b)) /\ m \notin AllProps
  BY DEF Tells, Turned, AllProps
<1>6. Asks' <=> Asks
  <2>1. m \notin Of({"appeared", "proxy", "props"})
    BY DEF Of
  <2> QED BY <1>2, <1>3, <2>1 DEF Asks
<1>7. m.error \in BOOLEAN
  BY <1>1, NewsFields
<1>8. panel' = IF m.error THEN Enabled(panel) ELSE panel
  <2>1. panel' = SwitchDone(panel, m.key, m.error)
    BY <1>1, HandledIs
  <2> QED BY <1>1, <2>1 DEF SwitchDone
<1>9. CASE panel' = panel /\ ~(ui = "tile" /\ m \in Errors)
  <2>1. panel'.known = panel.known /\ panel'.own = panel.own /\ panel'.toggle = panel.toggle
    BY <1>9
  <2>2. ManagerKnows' /\ (Vanishes' <=> Vanishes)
    <3>1. panel'.cm = panel.cm /\ \A k \in Keys : panel'.known[k] = panel.known[k]
      BY <1>9
    <3> QED BY <1>1, <1>2, <1>5, <3>1, ManagerHears
  <2>3. ui = "bluetooth" => TechComes'
    <3>1. TechComes => TechComes'
      BY <1>1, <1>2, <1>5, <2>1, TechHears
    <3> QED BY <1>1, <3>1 DEF ManagerRight
  <2>4. ui = "tile" => \A k \in Switched : TileWaits(k) => TileWaits(k)'
    <3>1. \A k \in Switched : panel'.toggle[k] = panel.toggle[k]
      BY <2>1
    <3> HIDE DEF m
    <3> QED BY <1>1, <1>2, <1>3, <1>5, <1>6, <1>9, <3>1 DEF TileWaits
  <2>5. ShellWaits => ShellWaits'
    <3>1. panel'.toggle["tech"] = panel.toggle["tech"]
      BY <2>1
    <3> HIDE DEF m
    <3> QED BY <1>1, <1>2, <1>3, <1>5, <1>6, <3>1 DEF ShellWaits
  <2>6. /\ ui = "tile" => /\ TileFits(panel')
                          /\ "tile" \notin RefusesOffline => \A k \in Switched : TileFollows(k)'
        /\ ui = "bluetooth" => /\ ShellFits(panel')
                               /\ "bluetooth" \notin RefusesTech => ShellFollows'
    BY <1>1, <1>2, <2>1, <2>2, <2>4, <2>5, SameFollows
  <2>7. ManagerRight'
    BY <1>1, <2>2, <2>3, <2>6 DEF ManagerRight
  <2> QED BY <1>1, <1>2, <1>3, <1>4, <1>9, <2>7 DEF ManagerHeard
<1>10. CASE ui = "tile" /\ m.error
  <2>1. AfterEnabled(panel, panel')
    BY <1>1, <1>8, <1>10, ManagerEnabled
  <2>2. ASSUME panel'.alive
        PROVE  ManagerRight'
    <3> DEFINE b == Says(panel, "tech")
    <3>1. b \in BOOLEAN /\ panel' = AndToggle(panel, "tech", b)
      BY <1>10, <2>1, <2>2, SaysIs DEF AfterEnabled
    <3> HIDE DEF b
    <3>2. panel \in Programs /\ "tech" \in Switched
      BY <1>1 DEF Switched
    <3> DEFINE t == AndToggle(panel, "tech", b)
    <3>3. /\ t.toggle = [panel.toggle EXCEPT !["tech"] = b]
          /\ t.alive = panel.alive /\ t.cm = panel.cm /\ t.known = panel.known /\ t.own = panel.own
      BY <3>1, <3>2, SetToggle
    <3> HIDE DEF t
    <3>4. /\ panel'.toggle["tech"] = b /\ panel'.toggle["offline"] = panel.toggle["offline"]
          /\ panel'.cm = panel.cm /\ panel'.own = panel.own /\ panel'.known = panel.known
      <4>1. panel' = t
        BY <3>1 DEF t
      <4>2. panel.toggle \in [Switched -> BOOLEAN]
        BY <3>2, ProgramFields
      <4> QED BY <3>2, <3>3, <4>1, <4>2 DEF Switched
    <3>5. \A k : panel'.known[k] = panel.known[k]
      BY <3>4
    <3>6. \A k : Says(panel', k) = Says(panel, k)
      BY <3>5, SaysSame
    <3>7. ManagerKnows' /\ (Vanishes' <=> Vanishes)
      <4>1. panel'.cm = panel.cm /\ \A k \in Keys : panel'.known[k] = panel.known[k]
        BY <3>4
      <4> QED BY <1>1, <1>2, <1>5, <4>1, ManagerHears
    <3>8. TileFits(panel')
      BY <1>1, <1>10, <3>4, <3>5, <3>6 DEF ManagerRight, TileFits, b, Switched
    <3>9. TileFollows("tech")'
      BY <3>4, <3>6 DEF TileFollows, b
    <3>10. TileFollows("offline") => TileFollows("offline")'
      <4>1. (~Vanishes /\ "offline" \notin did.lost)' => ~Vanishes /\ "offline" \notin did.lost
        BY <1>2, <3>7 DEF Switched
      <4>2. TileWaits("offline") => TileWaits("offline")'
        <5> HIDE DEF m
        <5> QED BY <1>1, <1>2, <1>3, <1>5, <1>6, <3>4 DEF TileWaits
      <4> QED BY <3>4, <3>6, <4>1, <4>2 DEF TileFollows
    <3> QED BY <1>1, <1>10, <3>7, <3>8, <3>9, <3>10 DEF ManagerRight, Switched
  <2> QED BY <1>1, <1>2, <1>3, <1>4, <2>1, <2>2 DEF ManagerHeard, AfterEnabled
<1>11. CASE ui = "bluetooth" /\ m.error
  <2>1. AfterEnabled(panel, panel')
    BY <1>1, <1>8, <1>11, ManagerEnabled
  <2>2. CASE panel'.alive
    <3>1. panel' = panel
      BY <1>1, <1>11, <2>1, <2>2 DEF AfterEnabled, ManagerRight
    <3> QED BY <1>9, <1>11, <3>1
  <2>3. CASE ~panel'.alive
    BY <1>1, <1>2, <1>3, <2>1, <2>3 DEF ManagerHeard, AfterEnabled
  <2> QED BY <2>2, <2>3
<1>12. CASE ~m.error
  BY <1>8, <1>9, <1>12 DEF Errors
<1> QED BY <1>1, <1>10, <1>11, <1>12

\* connman says that something changed: for the tile,
LEMMA TileSignalled ==
  ASSUME TileFits(panel), NEW key \in Keys, NEW b \in BOOLEAN, TileHas(panel, key, b, panel'),
         "tile" \notin RefusesOffline, NEW k \in Switched, TileFollows(k),
         k \in did.lost => k \in did'.lost \/ (k = key /\ panel'.known[k] # panel.known[k]),
         Vanishes' <=> Vanishes, Asks' <=> Asks, running' = running, pending' = pending,
         panel \in Programs,
         \A c \in BOOLEAN : Among(news, Tells(k, c)) => Among(news', Tells(k, c)) \/ (k = key /\ c = b),
         Among(news, Errors) => Among(news', Errors)
  PROVE  TileFollows(k)'
<1>1. k \in Keys /\ panel.toggle[k] \in BOOLEAN
  BY ProgramFields DEF Switched, Keys
<1>2. CASE k = key /\ panel.known[k] # {b}
  <2>1. panel'.known[k] = {b} /\ panel'.toggle[k] = b
    BY <1>2 DEF TileHas
  <2>2. Says(panel', k) = b
    BY <2>1, SaysOf
  <2> QED BY <2>1, <2>2 DEF TileFollows
<1>3. CASE ~(k = key /\ panel.known[k] # {b})
  <2>1. panel'.known[k] = panel.known[k] /\ panel'.toggle[k] = panel.toggle[k]
    BY <1>1, <1>3 DEF TileHas
  <2>2. Says(panel', k) = Says(panel, k)
    BY <2>1, SaysSame
  <2>3. k = key => Says(panel, k) = b
    BY <1>3, SaysOf
  <2>4. TileWaits(k) => TileWaits(k)' \/ panel.toggle[k] = Says(panel, k)
    <3>1. Among(news, Tells(k, panel.toggle[k])) =>
            Among(news', Tells(k, panel.toggle[k])) \/ panel.toggle[k] = Says(panel, k)
      BY <1>1, <2>3
    <3> QED BY <2>1, <3>1 DEF TileWaits
  <2>5. (~Vanishes /\ k \notin did.lost)' => ~Vanishes /\ k \notin did.lost
    BY <2>1
  <2> QED BY <2>1, <2>2, <2>4, <2>5 DEF TileFollows
<1> QED BY <1>2, <1>3

\* and for the Bluetooth panel, where its technology came before it was on.
LEMMA ShellSignalled ==
  ASSUME ShellFits(panel), NEW key \in Keys, NEW b \in BOOLEAN, ShellHas(panel, key, b, panel'),
         ShellFollows,
         "tech" \in did.lost => "tech" \in did'.lost \/ (key = "tech" /\ panel'.known["tech"] # panel.known["tech"]),
         Vanishes' <=> Vanishes, Asks' <=> Asks, running' = running, pending' = pending,
         panel \in Programs,
         \A c \in BOOLEAN : Among(news, Tells("tech", c)) =>
                              Among(news', Tells("tech", c)) \/ (key = "tech" /\ c = b),
         Among(news, Tells("have", FALSE)) => Among(news', Tells("have", FALSE)) \/ (key = "have" /\ b = FALSE),
         key = "tech" /\ b = FALSE => ~(panel.own["have"] /\ panel.known["tech"] = Null)
  PROVE  ShellFollows'
<1>1. /\ panel.toggle["tech"] \in BOOLEAN /\ panel.known["tech"] \in Lists /\ panel.own["tech"] \in BOOLEAN
      /\ "tech" \in Keys /\ "have" \in Keys
  BY ProgramFields DEF Switched, Keys
<1>2. ShellFits(panel')
  BY DEF ShellHas
<1>3. CASE key # "offline" /\ panel.own[key] # b
  BY <1>3 DEF ShellHas, ShellFollows
<1>4. CASE ~panel'.own["have"]
  BY <1>2, <1>4 DEF ShellFits, ShellFollows
<1>5. CASE ~(key # "offline" /\ panel.own[key] # b) /\ panel'.own["have"]
  <2>1. panel'.toggle["tech"] = panel.toggle["tech"]
    BY <1>5 DEF ShellHas
  <2>2. panel'.own["tech"] = panel.own["tech"] /\ (key = "tech" => panel.own["tech"] = b)
    BY <1>1, <1>5 DEF ShellHas
  <2>3. panel'.own["have"] = panel.own["have"] /\ (key = "have" => b = panel.own["have"])
    BY <1>1, <1>5 DEF ShellHas
  <2>4. "tech" \in did.lost => "tech" \in did'.lost
    <3> SUFFICES ASSUME key = "tech", panel.known["tech"] # {b} PROVE FALSE
      BY DEF ShellHas
    <3>1. Says(panel, "tech") = b
      BY <2>2 DEF ShellFits
    <3>2. panel.known["tech"] = Null \/ \E c \in BOOLEAN : panel.known["tech"] = {c} /\ c # b
      BY <1>1 DEF Lists
    <3>3. panel.known["tech"] = Null
      BY <3>1, <3>2, SaysOf
    <3>4. b = FALSE
      BY <3>1, <3>3, SaysIs
    <3> QED BY <1>5, <2>3, <3>3, <3>4
  <2>5. ShellWaits => ShellWaits' \/ panel.toggle["tech"] = panel.own["tech"]
    <3>1. Among(news, Tells("tech", panel.toggle["tech"])) =>
            Among(news', Tells("tech", panel.toggle["tech"])) \/ panel.toggle["tech"] = panel.own["tech"]
      BY <1>1, <2>2
    <3>2. Among(news, Tells("have", FALSE)) => Among(news', Tells("have", FALSE))
      BY <1>5, <2>3
    <3> QED BY <2>1, <3>1, <3>2 DEF ShellWaits
  <2>6. (~Vanishes /\ "tech" \notin did.lost)' => ~Vanishes /\ "tech" \notin did.lost
    BY <2>4
  <2> QED BY <2>1, <2>2, <2>5, <2>6 DEF ShellFollows
<1> QED BY <1>3, <1>4, <1>5

LEMMA ManagerSignalled ==
  ASSUME RadioInv, Receive, ui # "pane", Head(news).type = "signal"
  PROVE  ManagerHeard
<1> DEFINE m == Head(news)
           key == m.key
           b == m.value
<1>1. /\ radio \in [Keys -> BOOLEAN] /\ news \in Seq(RadioNews) /\ pending \in Seq(RadioCalls)
      /\ making \in Nat /\ panel \in Programs /\ panel.alive /\ news # <<>>
      /\ ui \in {"tile", "bluetooth"} /\ ui' = ui /\ radio' = radio /\ running' = running
      /\ m \in RadioNews /\ panel' = Handled(panel, m) /\ Returns(m)
      /\ (\A k \in Keys : LastIsRight(k)) /\ ManagerKnows /\ ManagerRight
      /\ pending # <<>> => running
      /\ \A k \in Switched :
           k \in did.lost /\ k \notin did'.lost => m.key = k /\ panel'.known[k] # panel.known[k]
  BY ManagerReceiving
<1>2. news' = Tail(news) /\ pending' = pending /\ making' = making
  BY <1>1 DEF Returns
<1>3. news' \in Seq(RadioNews) /\ \A S : Among(news, S) <=> m \in S \/ Among(news', S)
  BY <1>1, <1>2, NewsTaken
<1>4. \A k \in Keys : LastIsRight(k)'
  BY <1>1, <1>2, LastHeard
<1>5. key \in Keys /\ b \in BOOLEAN
  BY <1>1, NewsFields
<1>6. /\ \A k, c : m \in Tells(k, c) <=> k = key /\ c = b
      /\ \A k, c : m \in Turned(k, c) <=> k = key /\ c = b
      /\ m \notin Errors
  BY <1>1 DEF Tells, Turned, Errors
<1>7. Asks' <=> Asks
  <2>1. m \notin Of({"appeared", "proxy", "props"})
    BY DEF Of
  <2> QED BY <1>2, <1>3, <2>1 DEF Asks
<1>8. panel' = IF panel.cm THEN Property(panel, key, b) ELSE panel
  BY <1>1, HandledIs
<1>11. \A k \in Switched : k \in did.lost => k \in did'.lost \/ (k = key /\ panel'.known[k] # panel.known[k])
  BY <1>1
<1>12. \A k, c : m \in Turned(k, c) => k = key
  BY <1>6
<1> HIDE DEF key, b
<1>9. CASE ~panel.cm
  <2>1. panel' = panel
    BY <1>8, <1>9
  <2>2. panel.known["have"] = Null
    BY <1>1, <1>9 DEF ManagerKnows
  <2>3. /\ panel'.cm = panel.cm /\ panel'.own = panel.own /\ panel'.toggle = panel.toggle
        /\ \A k : panel'.known[k] = panel.known[k]
    BY <2>1
  <2>4. ManagerKnows' /\ (Vanishes' <=> Vanishes)
    BY <1>1, <1>2, <1>9, <2>3, ManagerHears
  <2>5. \A k : Says(panel', k) = Says(panel, k)
    BY <2>3, SaysSame
  <2>6. ASSUME ui = "tile"
        PROVE  TileFits(panel') /\ \A k \in Switched : TileFollows(k)'
    <3>1. TileFits(panel')
      BY <1>1, <2>3, <2>5, <2>6 DEF ManagerRight, TileFits
    <3>2. \A k \in Switched : panel'.toggle[k] = Says(panel', k)
      BY <2>2, <2>3, <3>1 DEF TileFits
    <3> QED BY <3>1, <3>2 DEF TileFollows
  <2>7. ASSUME ui = "bluetooth"
        PROVE  ShellFits(panel') /\ ShellFollows' /\ TechComes'
    <3>1. ShellFits(panel')
      BY <1>1, <2>3, <2>5, <2>7 DEF ManagerRight, ShellFits
    <3>2. Says(panel, "have") = FALSE
      BY <2>2, SaysIs
    <3>3. ~panel'.own["have"]
      BY <2>5, <3>1, <3>2 DEF ShellFits
    <3>4. ShellFollows'
      BY <3>1, <3>3 DEF ShellFits, ShellFollows
    <3>5. TechComes
      BY <1>1, <2>7 DEF ManagerRight
    <3>6. TechComes'
      BY <1>1, <1>2, <3>3, <3>5, TechHears
    <3> QED BY <3>1, <3>4, <3>6
  <2>8. ManagerRight'
    BY <1>1, <2>4, <2>6, <2>7 DEF ManagerRight
  <2> QED BY <1>1, <1>2, <1>3, <1>4, <2>1, <2>8 DEF ManagerHeard
<1>10. CASE panel.cm
  <2>1. panel' = Property(panel, key, b)
    BY <1>8, <1>10
  <2>2. ui = "tile" => TileFits(panel) /\ TileHas(panel, key, b, panel')
    BY <1>1, <1>5, <2>1, TileTakesIt DEF ManagerRight
  <2>3. ui = "bluetooth" => ShellFits(panel) /\ ShellHas(panel, key, b, panel')
    BY <1>1, <1>5, <2>1, ShellTakesIt DEF ManagerRight
  <2>4. /\ panel' \in Programs /\ panel'.alive /\ panel'.cm = panel.cm /\ panel'.blocks = panel.blocks
        /\ panel'.known[key] = {b} /\ \A k \in Keys \ {key} : panel'.known[k] = panel.known[k]
    BY <1>1, <2>2, <2>3 DEF TileHas, ShellHas
  <2>5. ManagerKnows' /\ (Vanishes' <=> Vanishes)
    <3>1. \A k \in Keys, c \in BOOLEAN : m \in Tells(k, c) => panel'.known[k] = {c}
      BY <1>6, <2>4
    <3>2. \A k \in Keys : (\A c \in BOOLEAN : m \notin Tells(k, c)) => panel'.known[k] = panel.known[k]
      BY <1>5, <1>6, <2>4
    <3> QED BY <1>1, <1>2, <1>10, <2>4, <3>1, <3>2, ManagerHears
  <2> HIDE DEF m
  <2>6. \A k : \A c \in BOOLEAN : Among(news, Tells(k, c)) => Among(news', Tells(k, c)) \/ (k = key /\ c = b)
    BY <1>3, <1>6
  <2>7. Among(news, Errors) => Among(news', Errors)
    BY <1>3, <1>6
  <2>8. ASSUME ui = "tile"
        PROVE  /\ TileFits(panel')
               /\ "tile" \notin RefusesOffline => \A k \in Switched : TileFollows(k)'
    <3>1. TileFits(panel) /\ TileHas(panel, key, b, panel')
      BY <2>2, <2>8
    <3>2. ASSUME "tile" \notin RefusesOffline, NEW k \in Switched
          PROVE  TileFollows(k)'
      <4>1. TileFollows(k)
        BY <1>1, <2>8, <3>2 DEF ManagerRight
      <4>2. k \in did.lost => k \in did'.lost \/ (k = key /\ panel'.known[k] # panel.known[k])
        BY <1>11, <3>2
      <4>3. \A c \in BOOLEAN : Among(news, Tells(k, c)) => Among(news', Tells(k, c)) \/ (k = key /\ c = b)
        BY <2>6
      <4> QED BY <1>1, <1>2, <1>5, <1>7, <2>5, <2>7, <3>1, <3>2, <4>1, <4>2, <4>3, TileSignalled
    <3> QED BY <3>1, <3>2 DEF TileHas
  <2>9. ASSUME ui = "bluetooth"
         PROVE  /\ ShellFits(panel') /\ TechComes'
                /\ "bluetooth" \notin RefusesTech => ShellFollows'
    <3>1. /\ ShellFits(panel) /\ ShellHas(panel, key, b, panel') /\ TechComes
          /\ "tech" \in Switched /\ "tech" \in Keys /\ "have" \in Keys
      BY <1>1, <2>3, <2>9 DEF ManagerRight, Switched, Keys
    <3>2. TechComes'
      <4>1. CASE key = "tech"
        <5>1. panel'.known["tech"] # Null
          BY <1>5, <2>4, <4>1, ListOf
        <5> QED BY <1>1, <1>2, <3>1, <5>1, TechHears
      <4>2. CASE key = "have"
        <5>1. panel'.own["have"] = b
          BY <3>1, <4>2 DEF ShellHas
        <5>2. b = TRUE => m \in Turned("have", TRUE)
          BY <1>6, <4>2
        <5> QED BY <1>1, <1>2, <1>5, <3>1, <5>1, <5>2, TechHears DEF m
      <4>3. CASE key = "offline"
        <5>1. panel'.own["have"] = panel.own["have"] /\ panel'.known["tech"] = panel.known["tech"]
          BY <2>4, <3>1, <4>3 DEF ShellHas
        <5>2. m \notin Turned("tech", TRUE)
          BY <1>12, <4>3
        <5> QED BY <1>1, <1>2, <3>1, <5>1, <5>2, TechHears DEF m
      <4> QED BY <1>5, <4>1, <4>2, <4>3 DEF Keys
    <3>3. ASSUME "bluetooth" \notin RefusesTech
          PROVE  ShellFollows'
      <4>1. ShellFollows
        BY <1>1, <2>9, <3>3 DEF ManagerRight
      <4>2. "tech" \in did.lost =>
              "tech" \in did'.lost \/ (key = "tech" /\ panel'.known["tech"] # panel.known["tech"])
        BY <1>11, <3>1
      <4>3. /\ \A c \in BOOLEAN : Among(news, Tells("tech", c)) =>
                                    Among(news', Tells("tech", c)) \/ (key = "tech" /\ c = b)
            /\ Among(news, Tells("have", FALSE)) =>
                 Among(news', Tells("have", FALSE)) \/ (key = "have" /\ b = FALSE)
        BY <2>6
      <4>4. key = "tech" /\ b = FALSE => ~(panel.own["have"] /\ panel.known["tech"] = Null)
        <5> SUFFICES ASSUME key = "tech", b = FALSE, panel.own["have"], panel.known["tech"] = Null
                     PROVE  FALSE
          OBVIOUS
        <5>1. Comes(news, 0, Turned("tech", FALSE), Turned("tech", TRUE), radio["tech"])
          BY <3>1 DEF TechComes
        <5>2. m \notin Turned("tech", FALSE)
          BY <1>1, <5>1, ComesRest DEF m
        <5> QED BY <1>6, <5>2
      <4> QED BY <1>1, <1>2, <1>5, <1>7, <2>5, <3>1, <4>1, <4>2, <4>3, <4>4, ShellSignalled
    <3> QED BY <3>1, <3>2, <3>3 DEF ShellHas
  <2>10. ManagerRight'
    BY <1>1, <2>5, <2>8, <2>9 DEF ManagerRight
  <2> QED BY <1>1, <1>2, <1>3, <1>4, <2>4, <2>10 DEF ManagerHeard
<1> QED BY <1>9, <1>10

\* Whatever it receives.
LEMMA ReceiveKeeps ==
  ASSUME RadioInv, Receive
  PROVE  RadioInv'
<1>1. CASE ui = "pane"
  BY <1>1, PaneReceives
<1>2. CASE ui # "pane"
  <2>1. /\ RadioTypeOK /\ (radio["tech"] => radio["have"]) /\ \A k \in Switched : panel.blocks[k] = 0
    BY <1>2 DEF RadioInv
  <2>2. /\ Head(news) \in RadioNews /\ radio' = radio /\ running' = running /\ ui' = ui
        /\ did' \in [toggles: Nat, changes: Nat, exits: Nat, lost: SUBSET Switched]
    BY <2>1, ReceiveFields
  <2>3. Head(news).type \in {"appeared", "vanished", "proxy", "props", "signal", "reply"}
    BY <2>2, NewsFields
  <2>4. ManagerHeard
    BY <1>2, <2>3, ManagerAppeared, ManagerLeft, ManagerHasProxy, ManagerAnswered, ManagerSignalled,
       ManagerReplied
  <2>5. RadioTypeOK'
    BY <2>1, <2>2, <2>4 DEF RadioTypeOK, ManagerHeard
  <2> QED BY <1>2, <2>1, <2>2, <2>4, <2>5 DEF RadioInv, ManagerHeard
<1> QED BY <1>1, <1>2

LEMMA RadioStarts ==
  RadioInit => RadioInv
<1> SUFFICES ASSUME RadioInit PROVE RadioInv
  OBVIOUS
<1>1. /\ radio \in [Keys -> BOOLEAN] /\ (radio["tech"] => radio["have"]) /\ running = TRUE
      /\ ui \in Uis /\ panel = Fresh(ui) /\ pending = FirstAsks(ui) /\ making = 0 /\ news = FirstNews(ui)
      /\ did = [toggles |-> 0, changes |-> 0, exits |-> 0, lost |-> {}]
  BY DEF RadioInit
<1>2. did \in [toggles: Nat, changes: Nat, exits: Nat, lost: SUBSET Switched]
  BY <1>1
<1>3. CASE ui = "pane"
  <2> DEFINE c == [type |-> "props"]
  <2>1. /\ panel \in Programs /\ panel.alive /\ panel.cm
        /\ \A k \in Switched : panel.toggle[k] = FALSE /\ panel.blocks[k] = 0
        /\ \A k \in Keys : panel.own[k] = FALSE
    BY <1>1, <1>3, FreshFields
  <2>2. news = <<>> /\ pending = <<c>>
    BY <1>1, <1>3 DEF FirstAsks, FirstNews
  <2>3. /\ c \in RadioCalls /\ c \in PropsCalls /\ \A k : c \notin SetCalls(k)
    BY DEF RadioCalls, PropsCalls, SetCalls
  <2> HIDE DEF c
  <2>4. pending \in Seq(RadioCalls) /\ (\A S : Among(pending, S) <=> c \in S) /\ \A S : Single(pending, S)
    BY <2>2, <2>3, OnlyOne
  <2>5. /\ news \in Seq(RadioNews) /\ (\A S : ~Among(news, S) /\ Single(news, S))
        /\ \A S, T : Followed(news, S, T)
    BY <2>2, NothingAmong
  <2>6. RadioTypeOK
    BY <1>1, <1>2, <2>1, <2>4, <2>5 DEF RadioTypeOK
  <2>7. \A k \in Switched : Blocked(k)
    BY <2>1, <2>3, <2>4, <2>5 DEF Blocked
  <2>8. Among(pending, PropsCalls)
    BY <2>3, <2>4
  <2>9. PaneRight
    BY <1>1, <2>1, <2>5, <2>7, <2>8 DEF PaneRight, PaneKnows, PaneFollows, Vanishes
  <2>10. \A k \in Keys : LastIsRight(k)
    BY <2>5 DEF LastIsRight
  <2> QED BY <1>1, <1>3, <2>6, <2>9, <2>10 DEF RadioInv
<1>4. CASE ui # "pane"
  <2>1. Begins
    <3>1. ui \in {"tile", "bluetooth"}
      BY <1>1, <1>4, RadioAssumption
    <3> QED BY <1>1, <1>4, <3>1 DEF Begins, FirstAsks, FirstNews
  <2>2. Begun
    BY <2>1, FreshManager
  <2>3. RadioTypeOK
    BY <1>1, <1>2, <2>2 DEF RadioTypeOK, Begun
  <2> QED BY <1>1, <1>4, <2>2, <2>3 DEF RadioInv, Begun
<1> QED BY <1>3, <1>4

LEMMA RadioStutters ==
  ASSUME RadioInv, UNCHANGED radioVars
  PROVE  RadioInv'
<1>1. /\ radio' = radio /\ running' = running /\ pending' = pending /\ making' = making
      /\ news' = news /\ ui' = ui /\ panel' = panel /\ did' = did
  BY DEF radioVars
<1>2. RadioTypeOK'
  BY <1>1 DEF RadioInv, RadioTypeOK
<1>3. (\A k \in Keys : LastIsRight(k)) => \A k \in Keys : LastIsRight(k)'
  BY <1>1 DEF LastIsRight
<1>4. PaneRight => PaneRight'
  BY <1>1 DEF PaneRight, Blocked, PaneKnows, PaneFollows, Vanishes
<1>5. ManagerRight => ManagerRight'
  <2>1. ManagerKnows => ManagerKnows'
    BY <1>1 DEF ManagerKnows, WillKnow, Vanishes
  <2>2. \A k : TileFollows(k) => TileFollows(k)'
    BY <1>1 DEF Vanishes, Asks, TileFollows, TileWaits
  <2>3. ShellFollows => ShellFollows'
    BY <1>1 DEF Vanishes, Asks, ShellFollows, ShellWaits
  <2>4. TechComes => TechComes'
    BY <1>1 DEF TechComes
  <2>5. (TileFits(panel) => TileFits(panel')) /\ (ShellFits(panel) => ShellFits(panel'))
    BY <1>1
  <2> QED BY <1>1, <2>1, <2>2, <2>3, <2>4, <2>5 DEF ManagerRight
<1> QED BY <1>1, <1>2, <1>3, <1>4, <1>5 DEF RadioInv

LEMMA RadioKeeps ==
  RadioInv /\ [RadioNext]_radioVars => RadioInv'
<1> SUFFICES ASSUME RadioInv, [RadioNext]_radioVars PROVE RadioInv'
  OBVIOUS
<1>1. CASE Receive
  BY <1>1, ReceiveKeeps
<1>2. CASE Restart
  BY <1>2, RestartKeeps
<1>3. CASE ProxyMade
  BY <1>3, ProxyMadeKeeps
<1>4. CASE ConnmanExits
  BY <1>4, ConnmanExitsKeeps
<1>5. CASE ConnmanStarts
  BY <1>5, ConnmanStartsKeeps
<1>6. CASE panel.alive /\ pending # <<>> /\ Serve(Head(pending))
  BY <1>6, ServeKeeps
<1>7. ASSUME NEW k \in Keys, RadioChanges(k)
      PROVE  RadioInv'
  BY <1>7, RadioChangesKeeps
<1>8. ASSUME NEW k \in Switched, Toggle(k)
      PROVE  RadioInv'
  BY <1>8, ToggleKeeps
<1>9. CASE UNCHANGED radioVars
  BY <1>9, RadioStutters
<1> QED BY <1>1, <1>2, <1>3, <1>4, <1>5, <1>6, <1>7, <1>8, <1>9 DEF RadioNext

\* When nothing is under way, nothing can still come.
LEMMA RadioFollows ==
  ASSUME RadioInv, "bluetooth" \notin RefusesTech, "tile" \notin RefusesOffline
  PROVE  TogglesFollow
<1> SUFFICES ASSUME Quiet PROVE TogglesFollow
  BY DEF TogglesFollow, FailureResetsToggle
<1>1. /\ panel.alive /\ running /\ pending = <<>> /\ making = 0 /\ news = <<>>
      /\ panel \in Programs /\ ui \in Uis /\ radio \in [Keys -> BOOLEAN]
      /\ did.exits \in Nat
  BY DEF Quiet, RadioInv, RadioTypeOK
<1>2. (\A S : ~Among(pending, S)) /\ \A S : ~Among(news, S)
  BY <1>1, NothingAmong
<1>3. Switched \subseteq Keys /\ "tech" \in Keys /\ "have" \in Keys /\ "tech" \in Switched
  BY DEF Switched, Keys
<1>4. CASE ui = "pane"
  <2>1. PaneRight
    BY <1>4 DEF RadioInv
  <2>2. \A k \in Switched : panel.blocks[k] = 0
    BY <1>2, <2>1 DEF PaneRight, Blocked
  <2>3. did.exits = 0 => FailureResetsToggle
    <3> SUFFICES ASSUME did.exits = 0, NEW k \in Switched, k \notin did.lost
                 PROVE  panel.toggle[k] = radio[k]
      BY <1>4 DEF FailureResetsToggle, Shows
    <3>1. PaneKnows(k) /\ PaneFollows(k)
      BY <1>3, <2>1 DEF PaneRight
    <3> QED BY <1>2, <3>1 DEF PaneKnows, PaneFollows
  <2>4. did.exits = 0 \/ did.exits > 0
    BY <1>1
  <2> QED BY <1>4, <2>2, <2>3, <2>4 DEF TogglesFollow
<1>5. CASE ui # "pane"
  <2>1. ManagerRight /\ \A k \in Switched : panel.blocks[k] = 0
    BY <1>1, <1>5 DEF RadioInv
  <2>2. ~WillKnow /\ ~Vanishes
    BY <1>1, <1>2 DEF WillKnow, Vanishes
  <2>3. \A k \in Keys : panel.known[k] = {radio[k]}
    BY <1>1, <1>2, <2>1, <2>2 DEF ManagerRight, ManagerKnows
  <2>4. \A k \in Keys : Says(panel, k) = radio[k]
    BY <1>1, <2>3, SaysOf
  <2>5. CASE ui = "tile"
    <3> SUFFICES ASSUME NEW k \in Switched, k \notin did.lost PROVE panel.toggle[k] = radio[k]
      BY <2>1, <2>5 DEF TogglesFollow, FailureResetsToggle, Shows
    <3>1. TileFollows(k)
      BY <2>1, <2>5 DEF ManagerRight
    <3>2. ~TileWaits(k)
      BY <1>2 DEF TileWaits
    <3> QED BY <1>3, <2>2, <2>4, <3>1, <3>2 DEF TileFollows
  <2>6. CASE ui = "bluetooth"
    <3> SUFFICES ASSUME "tech" \notin did.lost PROVE panel.toggle["tech"] = radio["tech"]
      BY <2>1, <2>6 DEF TogglesFollow, FailureResetsToggle, Shows
    <3>1. ShellFits(panel) /\ ShellFollows
      BY <2>1, <2>6 DEF ManagerRight
    <3>2. ~ShellWaits
      BY <1>2 DEF ShellWaits
    <3> QED BY <1>3, <2>2, <2>4, <3>1, <3>2 DEF ShellFits, ShellFollows
  <2> QED BY <1>1, <1>5, <2>5, <2>6, RadioAssumption
<1> QED BY <1>4, <1>5

\* Whatever is toggled, changes, fails, crashes and starts anew, the state of the radios' program
\* is of the type the model says: so are connman's calls and news.
THEOREM RadioTypeCorrect ==
  RadioSpec => []RadioTypeOK
<1>1. RadioInv => RadioTypeOK
  BY DEF RadioInv
<1> QED BY <1>1, RadioStarts, RadioKeeps, PTL DEF RadioSpec

\* When nothing is under way, every visible toggle says what the radio does and no handler is
\* blocked, where TogglesFollow promises it, however many toggles, changes and exits interleave
\* (carrick-pane.c, mpd-computer-tile.c, dawati-bt-shell.c); unless connman refuses the Bluetooth
\* panel its technology or the devices panel offline mode: those toggles are not reset.
THEOREM RadioToggles ==
  ASSUME "bluetooth" \notin RefusesTech, "tile" \notin RefusesOffline
  PROVE  RadioSpec => []TogglesFollow
<1>1. RadioInv => TogglesFollow
  BY RadioFollows
<1> QED BY <1>1, RadioStarts, RadioKeeps, PTL DEF RadioSpec
=============================================================================
