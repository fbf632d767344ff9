--------------------------- MODULE RegionLemmas ---------------------------
(***************************************************************************)
(* What pushes and pops do to the regions of the program, and to an        *)
(* EventRegionMatcher that counts them.                                    *)
(***************************************************************************)
EXTENDS Regions, RegionMatcher, SequenceTheorems, TLAPS

\* The events come from one thread.
OneThread == \A t, u \in Thread : t = u

\* The level, a uint32_t, goes up and down by one as long as it counts no
\* more regions than it can.
LEMMA Increment ==
  ASSUME NEW level \in 0 .. invalid_nested_level - 1
  PROVE  Incremented(level) = level + 1
  <1> DEFINE m == invalid_nested_level + 1
  <1>1. m \in Nat /\ m > 0 /\ level + 1 \in 0 .. m - 1
    BY RegionMatcherAssumption
  <1> HIDE DEF m
  <1>2. (level + 1) % m = level + 1
    BY <1>1
  <1> QED BY <1>2 DEF Incremented, m

LEMMA Decrement ==
  ASSUME NEW level \in Level \ {0}
  PROVE  Decremented(level) = level - 1
  <1> DEFINE m == invalid_nested_level + 1
             a == level - 1
  <1>1. m \in Nat /\ m > 0 /\ a \in 0 .. m - 1
    BY RegionMatcherAssumption DEF Level
  <1>2. level + invalid_nested_level = a + m
    BY RegionMatcherAssumption DEF Level
  <1> HIDE DEF m, a
  <1>3. (a + m) % m = a
    BY <1>1
  <1> QED BY <1>2, <1>3 DEF Decremented, m, a

\* A region that is level - 1 below the top of a stack of n is level below
\* the top of the stack with one more, and level - 2 with one less.
LEMMA OneMore ==
  ASSUME NEW n \in Nat, NEW level \in 1 .. n
  PROVE  /\ n + 1 - level \in 1 .. n
         /\ level + 1 \in 1 .. n + 1
         /\ (n + 1) + 1 - (level + 1) = n + 1 - level
  OBVIOUS

LEMMA OneLess ==
  ASSUME NEW n \in Nat, NEW level \in 1 .. n, level # 1
  PROVE  /\ level - 1 # 0
         /\ level - 1 \in 1 .. n - 1
         /\ (n - 1) + 1 - (level - 1) = n + 1 - level
         /\ n + 1 - level \in 1 .. n - 1
  OBVIOUS

\* What a matcher is inside a region, and outside.
LEMMA InsideState ==
  ASSUME NEW level \in Level \ {0}
  PROVE  [matching |-> TRUE, nested_level |-> level] \in MatcherState
  <1>1. [matching |-> TRUE, nested_level |-> level] \in [matching : {TRUE}, nested_level : Level \ {0}]
    OBVIOUS
  <1> QED BY <1>1 DEF MatcherState

LEMMA OutsideState ==
  ASSUME NEW level \in {0, invalid_nested_level}
  PROVE  [matching |-> FALSE, nested_level |-> level] \in MatcherState
  <1>1. [matching |-> FALSE, nested_level |-> level]
          \in [matching : {FALSE}, nested_level : {0, invalid_nested_level}]
    OBVIOUS
  <1> QED BY <1>1 DEF MatcherState

-----------------------------------------------------------------------------
(***************************************************************************)
(* What the program does to its regions.                                   *)
(***************************************************************************)
\* A push leaves the regions that are open below the new one.
LEMMA PushProperties ==
  ASSUME RegionsTypeOK, NEW th \in Thread, NEW name \in Name, pushRegion(th, name)
  PROVE  /\ RegionsTypeOK' /\ clock' = clock + 1 /\ finished' = finished
         /\ Len(regions[th]) \in Nat /\ Len(regions[th]) < MaxDepth
         /\ Len(regions'[th]) = Len(regions[th]) + 1
         /\ DOMAIN regions[th] = 1 .. Len(regions[th])
         /\ DOMAIN regions'[th] = 1 .. Len(regions[th]) + 1
         /\ \A i \in DOMAIN regions[th] : regions'[th][i] = regions[th][i]
         /\ regions'[th][Len(regions[th]) + 1] = [name |-> name, pushed |-> now]
         /\ \A u \in Thread \ {th} : regions'[u] = regions[u]
         /\ Pushed' \subseteq Pushed \cup {[name |-> name, pushed |-> now]}
  <1> DEFINE new == [name |-> name, pushed |-> now]
  <1>1. /\ clock' = clock + 1 /\ finished' = finished /\ clock \in Nat /\ now \in Nat
        /\ Len(regions[th]) < MaxDepth
        /\ regions' = [regions EXCEPT ![th] = Append(regions[th], new)]
    BY DEF pushRegion, RegionsTypeOK, now
  <1>2. new \in Region /\ regions[th] \in Seq(Region)
    BY <1>1 DEF Region, RegionsTypeOK
  <1> HIDE DEF new
  <1>3. regions'[th] = Append(regions[th], new) /\ \A u \in Thread \ {th} : regions'[u] = regions[u]
    BY <1>1 DEF RegionsTypeOK
  <1>4. /\ regions'[th] \in Seq(Region) /\ Len(regions'[th]) = Len(regions[th]) + 1
        /\ \A i \in 1 .. Len(regions[th]) : regions'[th][i] = regions[th][i]
        /\ regions'[th][Len(regions[th]) + 1] = new
    BY <1>2, <1>3, AppendProperties
  <1>5. /\ Len(regions[th]) \in Nat /\ DOMAIN regions[th] = 1 .. Len(regions[th])
        /\ DOMAIN regions'[th] = 1 .. Len(regions[th]) + 1
    BY <1>2, <1>4
  <1>6. RegionsTypeOK'
    BY <1>1, <1>2, <1>4 DEF RegionsTypeOK
  <1>7. Pushed' \subseteq Pushed \cup {new}
    <2> SUFFICES ASSUME NEW r \in Pushed', r # new PROVE r \in Pushed
      OBVIOUS
    <2>1. CASE \E f \in finished' : r = [name |-> f.name, pushed |-> f.pushed]
      BY <1>1, <2>1 DEF Pushed
    <2>2. ASSUME NEW u \in Thread, NEW i \in DOMAIN regions'[u], r = regions'[u][i] PROVE r \in Pushed
      <3>1. i \in DOMAIN regions[u] /\ r = regions[u][i]
        <4>1. CASE u = th
          <5>1. i \in 1 .. Len(regions[th]) + 1 /\ i # Len(regions[th]) + 1
            BY <1>4, <1>5, <2>2, <4>1
          <5>2. i \in 1 .. Len(regions[th])
            BY <1>5, <5>1
          <5> QED BY <1>4, <1>5, <2>2, <4>1, <5>2
        <4>2. CASE u # th
          BY <1>3, <2>2, <4>2
        <4> QED BY <4>1, <4>2
      <3> QED BY <3>1 DEF Pushed
    <2> QED BY <2>1, <2>2 DEF Pushed
  <1> QED BY <1>1, <1>3, <1>4, <1>5, <1>6, <1>7 DEF new

\* A pop takes the innermost region away, which is finished from then on.
LEMMA PopProperties ==
  ASSUME RegionsTypeOK, NEW th \in Thread, popRegion(th)
  PROVE  /\ RegionsTypeOK' /\ clock' = clock + 1
         /\ Len(regions[th]) \in Nat \ {0}
         /\ Len(regions'[th]) = Len(regions[th]) - 1
         /\ DOMAIN regions[th] = 1 .. Len(regions[th])
         /\ DOMAIN regions'[th] = 1 .. Len(regions[th]) - 1
         /\ \A i \in DOMAIN regions'[th] : regions'[th][i] = regions[th][i]
         /\ \A u \in Thread \ {th} : regions'[u] = regions[u]
         /\ LET last == regions[th][Len(regions[th])]
            IN finished' = finished \cup {[name |-> last.name, pushed |-> last.pushed, popped |-> now]}
         /\ Pushed' \subseteq Pushed
  <1> DEFINE s == regions[th]
             last == s[Len(s)]
             new == [name |-> last.name, pushed |-> last.pushed, popped |-> now]
  <1>1. /\ clock' = clock + 1 /\ clock \in Nat /\ now \in Nat
        /\ regions[th] # <<>>
        /\ finished' = finished \cup {new}
        /\ regions' = [regions EXCEPT ![th] = SubSeq(s, 1, Len(s) - 1)]
    BY DEF popRegion, RegionsTypeOK, now
  <1>2. s \in Seq(Region) /\ Len(s) \in Nat \ {0} /\ DOMAIN s = 1 .. Len(s)
    BY <1>1 DEF RegionsTypeOK
  <1>3. regions'[th] = SubSeq(s, 1, Len(s) - 1) /\ \A u \in Thread \ {th} : regions'[u] = regions[u]
    BY <1>1 DEF RegionsTypeOK
  <1>4. /\ regions'[th] \in Seq(Region) /\ Len(regions'[th]) = Len(s) - 1
        /\ DOMAIN regions'[th] = 1 .. Len(s) - 1
        /\ \A i \in 1 .. Len(s) - 1 : regions'[th][i] = s[i]
    <2> HIDE DEF s
    <2> QED BY <1>2, <1>3
  <1>5. last \in Region
    BY <1>2
  <1>6. new \in Finished
    BY <1>1, <1>5 DEF Region, Finished
  <1>7. RegionsTypeOK'
    BY <1>1, <1>4, <1>6 DEF RegionsTypeOK
  <1>8. last = [name |-> new.name, pushed |-> new.pushed]
    BY <1>5 DEF Region
  <1>9. Pushed' \subseteq Pushed
    <2> SUFFICES ASSUME NEW r \in Pushed' PROVE r \in Pushed
      OBVIOUS
    <2>1. ASSUME NEW f \in finished', r = [name |-> f.name, pushed |-> f.pushed] PROVE r \in Pushed
      <3>1. CASE f \in finished
        BY <2>1, <3>1 DEF Pushed
      <3>2. CASE f = new
        <4>1. r = regions[th][Len(s)] /\ Len(s) \in DOMAIN regions[th]
          BY <1>2, <1>8, <2>1, <3>2
        <4> QED BY <4>1 DEF Pushed
      <3> QED BY <1>1, <2>1, <3>1, <3>2
    <2>2. ASSUME NEW u \in Thread, NEW i \in DOMAIN regions'[u], r = regions'[u][i] PROVE r \in Pushed
      <3>1. i \in DOMAIN regions[u] /\ r = regions[u][i]
        <4>1. CASE u = th
          <5>1. i \in 1 .. Len(s) - 1 /\ i \in 1 .. Len(s)
            BY <1>2, <1>4, <2>2, <4>1
          <5> QED BY <1>2, <1>4, <2>2, <4>1, <5>1
        <4>2. CASE u # th
          BY <1>3, <2>2, <4>2
        <4> QED BY <4>1, <4>2
      <3> QED BY <3>1 DEF Pushed
    <2> QED BY <2>1, <2>2 DEF Pushed
  <1> QED BY <1>1, <1>2, <1>3, <1>4, <1>7, <1>9

\* No region was pushed later than now, and none popped before it was pushed.
RegionsInThePast ==
  /\ \A th \in Thread : \A i \in DOMAIN regions[th] : regions[th][i].pushed <= clock
  /\ \A r \in finished : r.pushed <= clock /\ r.pushed < r.popped

LEMMA PushedInThePast ==
  ASSUME RegionsTypeOK, RegionsInThePast
  PROVE  \A r \in Pushed : r.pushed \in Nat /\ r.pushed <= clock
  <1>1. \A th \in Thread : \A i \in DOMAIN regions[th] : regions[th][i] \in Region
    <2>1. \A th \in Thread : regions[th] \in Seq(Region)
      BY DEF RegionsTypeOK
    <2> QED BY <2>1
  <1>2. \A r \in finished : /\ [name |-> r.name, pushed |-> r.pushed].pushed \in Nat
                            /\ [name |-> r.name, pushed |-> r.pushed].pushed <= clock
    BY DEF RegionsTypeOK, Finished, RegionsInThePast
  <1> QED BY <1>1, <1>2 DEF Region, Pushed, RegionsInThePast

LEMMA PastGoesOn ==
  ASSUME RegionsTypeOK, RegionsInThePast, NEW th \in Thread,
         popRegion(th) \/ \E name \in Name : pushRegion(th, name)
  PROVE  RegionsInThePast'
  <1>1. clock \in Nat /\ now = clock + 1
    BY DEF RegionsTypeOK, now
  <1>2. \A u \in Thread : \A i \in DOMAIN regions[u] : regions[u][i].pushed \in Nat
    <2>1. \A u \in Thread : regions[u] \in Seq(Region)
      BY DEF RegionsTypeOK
    <2>2. \A u \in Thread : \A i \in DOMAIN regions[u] : regions[u][i] \in Region
      BY <2>1
    <2> QED BY <2>2 DEF Region
  <1>3. \A r \in finished : r.pushed \in Nat
    BY DEF RegionsTypeOK, Finished
  <1>4. CASE popRegion(th)
    <2> DEFINE n == Len(regions[th])
               done == [name |-> regions[th][n].name, pushed |-> regions[th][n].pushed, popped |-> now]
    <2>1. /\ clock' = clock + 1 /\ n \in Nat \ {0}
          /\ DOMAIN regions[th] = 1 .. n /\ DOMAIN regions'[th] = 1 .. n - 1
          /\ \A i \in DOMAIN regions'[th] : regions'[th][i] = regions[th][i]
          /\ \A u \in Thread \ {th} : regions'[u] = regions[u]
          /\ finished' = finished \cup {done}
      BY <1>4, PopProperties
    <2>2. /\ done.pushed = regions[th][n].pushed /\ done.popped = clock + 1
          /\ n \in DOMAIN regions[th]
      BY <1>1, <2>1
    <2> HIDE DEF n, done
    <2>3. ASSUME NEW u \in Thread, NEW i \in DOMAIN regions'[u]
          PROVE  i \in DOMAIN regions[u] /\ regions'[u][i] = regions[u][i]
      <3>1. CASE u = th
        <4>1. i \in 1 .. n - 1 /\ i \in 1 .. n
          BY <2>1, <2>3, <3>1
        <4> QED BY <2>1, <2>3, <3>1, <4>1
      <3>2. CASE u # th
        BY <2>1, <2>3, <3>2
      <3> QED BY <3>1, <3>2
    <2>4. ASSUME NEW u \in Thread, NEW i \in DOMAIN regions'[u] PROVE regions'[u][i].pushed <= clock'
      BY <1>1, <1>2, <2>1, <2>3 DEF RegionsInThePast
    <2>5. ASSUME NEW r \in finished' PROVE r.pushed <= clock' /\ r.pushed < r.popped
      BY <1>1, <1>2, <1>3, <2>1, <2>2 DEF RegionsInThePast
    <2> QED BY <2>4, <2>5 DEF RegionsInThePast
  <1>5. ASSUME NEW name \in Name, pushRegion(th, name) PROVE RegionsInThePast'
    <2> DEFINE n == Len(regions[th])
               new == [name |-> name, pushed |-> now]
    <2>1. /\ clock' = clock + 1 /\ finished' = finished /\ n \in Nat
          /\ DOMAIN regions[th] = 1 .. n /\ DOMAIN regions'[th] = 1 .. n + 1
          /\ \A i \in DOMAIN regions[th] : regions'[th][i] = regions[th][i]
          /\ regions'[th][n + 1] = new /\ new.pushed = now
          /\ \A u \in Thread \ {th} : regions'[u] = regions[u]
      BY <1>5, PushProperties
    <2> HIDE DEF n, new
    <2>2. ASSUME NEW u \in Thread, NEW i \in DOMAIN regions'[u] PROVE regions'[u][i].pushed <= clock'
      <3>1. CASE u = th /\ i \in 1 .. n
        BY <1>1, <1>2, <2>1, <3>1 DEF RegionsInThePast
      <3>2. CASE u = th /\ i = n + 1
        BY <1>1, <2>1, <3>2
      <3>3. CASE u # th
        BY <1>1, <1>2, <2>1, <2>2, <3>3 DEF RegionsInThePast
      <3> QED BY <2>1, <2>2, <3>1, <3>2, <3>3
    <2>3. ASSUME NEW r \in finished' PROVE r.pushed <= clock' /\ r.pushed < r.popped
      BY <1>1, <1>3, <2>1 DEF RegionsInThePast
    <2> QED BY <2>2, <2>3 DEF RegionsInThePast
  <1> QED BY <1>4, <1>5
=============================================================================
