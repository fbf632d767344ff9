--------------------------- MODULE SequenceProofs ---------------------------
(***************************************************************************)
(* A SequenceOfRegionTimerListener times the regions of its sequence, for  *)
(* every sequence and every nesting of regions on one thread, if the       *)
(* program does not reset it within a region that is being timed.          *)
(***************************************************************************)
EXTENDS SequenceOfRegionTimers, RegionLemmas

(***************************************************************************)
(* The inductive invariant.                                                *)
(***************************************************************************)
\* Everything that has a time happened by now.
InThePast ==
  /\ since <= clock
  /\ \A i \in Index : timers[i].tick <= clock /\ timers[i].tock <= clock
  /\ RegionsInThePast

\* Only the current matcher is inside a region, its level is the depth of the
\* stack from that region on, and its timer was started by the push of it.
InsideTheRegion ==
  \A i \in Index : matchers[i].matching =>
    /\ i = Current
    /\ Waiting(i) < timers[i].tick
    /\ \A th \in Thread :
         /\ matchers[i].nested_level \in 1 .. Len(regions[th])
         /\ LET selected == regions[th][Len(regions[th]) + 1 - matchers[i].nested_level]
            IN selected.name \in Wanted[i] /\ selected.pushed = timers[i].tick

SeqInv ==
  /\ TypeOK
  /\ \A th \in Thread : Len(regions[th]) <= MaxDepth
  /\ InThePast
  /\ InsideTheRegion
  /\ TimesSequence
  /\ MissesNoRegion

-----------------------------------------------------------------------------
(***************************************************************************)
(* Every step keeps the invariant.                                         *)
(***************************************************************************)
\* The positions of the sequence.
LEMMA IndexProperties ==
  Len(Wanted) \in Nat /\ Index = 1 .. Len(Wanted) /\ \A i \in Index : i # 1 => i - 1 \in Index
  <1>1. Len(Wanted) \in Nat /\ Index = 1 .. Len(Wanted)
    BY SequenceAssumption DEF Index
  <1> QED BY <1>1

LEMMA TimerProperties ==
  ASSUME TypeOK
  PROVE  /\ clock \in Nat /\ since \in Nat /\ current \in Nat /\ Current \in Nat
         /\ current <= Len(Wanted)
         /\ \A i \in Index : /\ timers[i].tick \in Nat /\ timers[i].tock \in Nat
                             /\ Waiting(i) \in Nat
                             /\ matchers[i] \in MatcherState
  <1>1. \A i \in Index : timers[i] \in Timer
    BY DEF TypeOK
  <1>2. \A i \in Index : timers[i].tick \in Nat /\ timers[i].tock \in Nat
    BY <1>1 DEF Timer
  <1>3. clock \in Nat /\ since \in Nat /\ current \in Nat /\ Current \in Nat /\ current <= Len(Wanted)
    BY IndexProperties DEF TypeOK, RegionsTypeOK, Current
  <1> QED BY <1>2, <1>3, IndexProperties DEF Waiting, TypeOK

\* A matcher waits since the timer before its own was stopped.
LEMMA WaitingStays ==
  ASSUME since' = since, NEW i \in Index,
         \A j \in Index : j < i => timers'[j].tock = timers[j].tock
  PROVE  Waiting(i)' = Waiting(i)
  <1>1. CASE i = 1
    BY <1>1 DEF Waiting
  <1>2. CASE i # 1
    <2>1. i - 1 \in Index /\ i - 1 < i
      BY <1>2, IndexProperties
    <2> QED BY <1>2, <2>1 DEF Waiting
  <1> QED BY <1>1, <1>2

LEMMA InitSeqInv == Init => SeqInv
  <1> SUFFICES ASSUME Init PROVE SeqInv
    OBVIOUS
  <1>1. /\ clock = 0 /\ regions = [th \in Thread |-> <<>>] /\ finished = {}
        /\ matchers = [i \in Index |-> Initially]
        /\ timers = [i \in Index |-> [tick |-> 0, tock |-> 0]] /\ current = 0 /\ since = 0
    BY DEF Init, RegionsInit
  <1>2. TypeOK
    <2>1. <<>> \in Seq(Region)
      OBVIOUS
    <2>2. RegionsTypeOK
      BY <1>1, <2>1 DEF RegionsTypeOK
    <2>3. Initially \in MatcherState
      BY OutsideState DEF Initially
    <2>4. [tick |-> 0, tock |-> 0] \in Timer
      BY DEF Timer
    <2> QED BY <1>1, <2>2, <2>3, <2>4, IndexProperties DEF TypeOK
  <1>3. \A th \in Thread : Len(regions[th]) <= MaxDepth
    <2>1. \A th \in Thread : Len(regions[th]) = 0
      BY <1>1
    <2>2. 0 <= MaxDepth
      BY RegionsAssumption
    <2> QED BY <2>1, <2>2
  <1>4. InThePast
    BY <1>1 DEF InThePast, RegionsInThePast
  <1>5. InsideTheRegion /\ TimesSequence
    <2>1. \A i \in Index : ~matchers[i].matching
      BY <1>1 DEF Initially
    <2> QED BY <1>1, <2>1 DEF InsideTheRegion, TimesSequence
  <1>6. MissesNoRegion
    BY <1>1 DEF MissesNoRegion, Pushed
  <1> QED BY <1>2, <1>3, <1>4, <1>5, <1>6 DEF SeqInv

LEMMA PushStep ==
  ASSUME OneThread, SeqInv, NEW th \in Thread, NEW name \in Name, Push(th, name)
  PROVE  SeqInv'
  <1> DEFINE n == Len(regions[th])
             new == [name |-> name, pushed |-> now]
  <1> USE DEF SeqInv
  <1>1. /\ RegionsTypeOK' /\ clock' = clock + 1 /\ finished' = finished /\ now = clock'
        /\ n \in Nat /\ n < MaxDepth /\ Len(regions'[th]) = n + 1
        /\ DOMAIN regions[th] = 1 .. n /\ DOMAIN regions'[th] = 1 .. n + 1
        /\ \A i \in 1 .. n : regions'[th][i] = regions[th][i]
        /\ regions'[th][n + 1] = new
        /\ Pushed' \subseteq Pushed \cup {new}
    BY PushProperties DEF Push, TypeOK, now
  <1>2. \A u \in Thread : u = th
    BY DEF OneThread
  <1>3. /\ clock \in Nat /\ since \in Nat /\ current \in Nat /\ Current \in Nat /\ Current = current + 1
        /\ current <= Len(Wanted) /\ MaxDepth \in Nat
        /\ \A i \in Index : /\ timers[i].tick \in Nat /\ timers[i].tock \in Nat
                            /\ Waiting(i) \in Nat
                            /\ matchers[i] \in MatcherState
        /\ since <= clock
        /\ \A i \in Index : timers[i].tick <= clock /\ timers[i].tock <= clock
        /\ Len(Wanted) \in Nat /\ Index = 1 .. Len(Wanted)
    BY TimerProperties, IndexProperties, RegionsAssumption DEF InThePast, Current
  <1>4. UNCHANGED <<current, since>> /\ Current' = Current
    BY DEF Push, Current
  <1>5. \A u \in Thread : Len(regions'[u]) <= MaxDepth
    BY <1>1, <1>2, <1>3
  <1>6. RegionsInThePast'
    BY PastGoesOn DEF Push, TypeOK, InThePast
  <1>7. new.pushed = clock + 1 /\ new.name = name
    BY DEF now
  <1>8. \A i \in Index : i < Current => Timed(i) /\ i # Current /\ i \in 1 .. current
    <2>1. \A i \in Index : i < Current => i \in 1 .. current /\ i # Current
      BY <1>3
    <2> QED BY <2>1 DEF TimesSequence
  <1>9. \A i \in 1 .. current : i \in Index /\ i # Current
    BY <1>3
  <1>9a. /\ clock' \in Nat /\ since <= clock'
         /\ \A i \in Index : timers[i].tick <= clock' /\ timers[i].tock <= clock'
    <2>1. clock \in Nat /\ clock' = clock + 1
      BY <1>1, <1>3
    <2>2. \A a \in Nat : a <= clock => a <= clock'
      BY <2>1
    <2>3. clock' \in Nat /\ since \in Nat /\ \A i \in Index : timers[i].tick \in Nat /\ timers[i].tock \in Nat
      BY <1>3, <2>1
    <2> QED BY <1>3, <2>2, <2>3
  <1> HIDE DEF n, new
  <1>10. CASE /\ UNCHANGED <<matchers, timers>>
              /\ Current \in Index => ~matchers[Current].matching /\ name \notin Wanted[Current]
    <2>1. \A i \in Index : Waiting(i)' = Waiting(i)
      BY <1>4, <1>10, WaitingStays
    <2>2. TypeOK'
      BY <1>1, <1>4, <1>10 DEF TypeOK
    <2>3. InThePast'
      BY <1>4, <1>6, <1>9a, <1>10 DEF InThePast
    <2>4. InsideTheRegion'
      BY <1>10 DEF InsideTheRegion
    <2>5. TimesSequence'
      BY <1>1, <1>4, <1>9, <1>10, <2>1 DEF TimesSequence, Timed
    <2>6. MissesNoRegion'
      <3> SUFFICES ASSUME NEW r \in Pushed', NEW i \in Index, i <= Current, r.name \in Wanted[i],
                          r.pushed > Waiting(i)
                   PROVE  /\ i = Current => matchers[i].matching
                          /\ Waiting(i) < timers[i].tick /\ timers[i].tick <= r.pushed
        BY <1>4, <1>10, <2>1 DEF MissesNoRegion
      <3>1. CASE r \in Pushed
        BY <3>1 DEF MissesNoRegion
      <3>2. CASE r = new
        <4>1. i < Current
          BY <1>3, <1>7, <1>10, <3>2
        <4> QED BY <1>3, <1>7, <1>8, <3>2, <4>1 DEF Timed
      <3> QED BY <1>1, <3>1, <3>2
    <2> QED BY <1>5, <2>2, <2>3, <2>4, <2>5, <2>6
  <1>11. ASSUME NEW c \in Index, c = Current, matchers[c].matching, timers' = timers,
                matchers' = [matchers EXCEPT ![c] = OnPush(matchers[c], name \in Wanted[c])]
         PROVE  SeqInv'
    <2>1. \A i \in Index : Waiting(i)' = Waiting(i)
      BY <1>4, <1>11, WaitingStays
    <2>2. PICK level \in 1 .. n :
            /\ level = matchers[c].nested_level /\ Waiting(c) < timers[c].tick
            /\ regions[th][n + 1 - level].name \in Wanted[c]
            /\ regions[th][n + 1 - level].pushed = timers[c].tick
      BY <1>2, <1>11 DEF InsideTheRegion, n
    <2>3. level \in 0 .. invalid_nested_level - 1 /\ invalid_nested_level \in Nat
      <3>1. MaxDepth < invalid_nested_level /\ invalid_nested_level \in Nat
        BY SequenceAssumption, RegionMatcherAssumption
      <3>2. n \in Nat /\ n < MaxDepth /\ MaxDepth \in Nat /\ level \in 0 .. n
        <4>1. n \in Nat /\ n < MaxDepth /\ MaxDepth \in Nat
          BY <1>1, <1>3
        <4> QED BY <2>2, <4>1
      <3> QED BY <3>1, <3>2
    <2> DEFINE m == [matching |-> TRUE, nested_level |-> level + 1]
    <2>4. OnPush(matchers[c], name \in Wanted[c]) = m
      BY <1>3, <1>11, <2>2, <2>3, Increment DEF OnPush, MatcherState
    <2>5. m \in MatcherState
      <3>1. level + 1 \in Level \ {0}
        BY <2>3 DEF Level
      <3> QED BY <3>1, InsideState
    <2>6. m.matching /\ m.nested_level = level + 1
      OBVIOUS
    <2> HIDE DEF m
    <2>7. matchers'[c] = m /\ \A i \in Index \ {c} : matchers'[i] = matchers[i]
      BY <1>11, <2>4 DEF TypeOK
    <2>8. TypeOK'
      BY <1>1, <1>4, <1>11, <2>4, <2>5 DEF TypeOK
    <2>9. InThePast'
      <3>1. timers' = timers
        BY <1>11
      <3> QED BY <1>4, <1>6, <1>9a, <3>1 DEF InThePast
    <2>10. InsideTheRegion'
      <3> SUFFICES ASSUME NEW i \in Index, matchers'[i].matching
                   PROVE  /\ i = Current /\ Waiting(i) < timers[i].tick
                          /\ matchers'[i].nested_level \in 1 .. Len(regions'[th])
                          /\ LET selected == regions'[th][Len(regions'[th]) + 1 - matchers'[i].nested_level]
                             IN selected.name \in Wanted[i] /\ selected.pushed = timers[i].tick
        BY <1>2, <1>4, <1>11, <2>1 DEF InsideTheRegion
      <3>1. i = c
        BY <1>11, <2>7 DEF InsideTheRegion
      <3>2. /\ matchers'[i].nested_level = level + 1 /\ n + 1 - level \in 1 .. n
            /\ Len(regions'[th]) + 1 - (level + 1) = n + 1 - level
            /\ level + 1 \in 1 .. Len(regions'[th])
        <4>1. n \in Nat /\ Len(regions'[th]) = n + 1
          BY <1>1
        <4>2. matchers'[i].nested_level = level + 1
          BY <2>6, <2>7, <3>1
        <4> QED BY <4>1, <4>2, OneMore
      <3>3. regions'[th][n + 1 - level] = regions[th][n + 1 - level]
        BY <1>1, <3>2
      <3> QED BY <1>11, <2>2, <3>1, <3>2, <3>3
    <2>11. TimesSequence'
      BY <1>1, <1>4, <1>9, <1>11, <2>1 DEF TimesSequence, Timed
    <2>12. MissesNoRegion'
      <3> SUFFICES ASSUME NEW r \in Pushed', NEW i \in Index, i <= Current, r.name \in Wanted[i],
                          r.pushed > Waiting(i)
                   PROVE  /\ i = Current => matchers'[i].matching
                          /\ Waiting(i) < timers[i].tick /\ timers[i].tick <= r.pushed
        BY <1>4, <1>11, <2>1 DEF MissesNoRegion
      <3>1. CASE r \in Pushed
        BY <1>11, <2>6, <2>7, <3>1 DEF MissesNoRegion
      <3>2. CASE r = new /\ i = Current
        <4>1. matchers'[i].matching
          BY <1>11, <2>6, <2>7, <3>2
        <4>2. Waiting(i) < timers[i].tick /\ timers[i].tick \in Nat /\ timers[i].tick <= clock
          BY <1>3, <1>11, <2>2, <3>2
        <4>3. r.pushed = clock + 1 /\ clock \in Nat
          BY <1>3, <1>7, <3>2
        <4> QED BY <4>1, <4>2, <4>3
      <3>3. CASE r = new /\ i # Current
        <4>1. i < Current
          BY <1>3, <3>3
        <4> QED BY <1>3, <1>7, <1>8, <3>3, <4>1 DEF Timed
      <3> QED BY <1>1, <3>1, <3>2, <3>3
    <2> QED BY <1>5, <2>8, <2>9, <2>10, <2>11, <2>12
  <1>12. ASSUME NEW c \in Index, c = Current, ~matchers[c].matching, name \in Wanted[c],
                matchers' = [matchers EXCEPT ![c] = OnPush(matchers[c], TRUE)],
                timers' = [timers EXCEPT ![c].tick = now]
         PROVE  SeqInv'
    <2> DEFINE m == [matching |-> TRUE, nested_level |-> 1]
    <2>1. /\ OnPush(matchers[c], TRUE) = m /\ m.matching /\ m.nested_level = 1
      BY <1>12 DEF OnPush
    <2>2. m \in MatcherState
      <3>1. 1 \in Level \ {0}
        BY RegionMatcherAssumption DEF Level
      <3> QED BY <3>1, InsideState
    <2> HIDE DEF m
    <2>3. matchers'[c] = m /\ \A i \in Index \ {c} : matchers'[i] = matchers[i]
      BY <1>12, <2>1 DEF TypeOK
    <2>4. timers \in [Index -> Timer] /\ timers[c] \in Timer
      BY DEF TypeOK
    <2>5. /\ timers' = [timers EXCEPT ![c] = [timers[c] EXCEPT !.tick = now]]
          /\ now \in Nat
      BY <1>1, <1>3, <1>12
    <2>6. /\ [timers[c] EXCEPT !.tick = now] \in Timer
          /\ [timers[c] EXCEPT !.tick = now].tick = now
          /\ [timers[c] EXCEPT !.tick = now].tock = timers[c].tock
      BY <2>4, <2>5 DEF Timer
    <2>7. /\ timers' \in [Index -> Timer]
          /\ timers'[c].tick = now /\ timers'[c].tock = timers[c].tock
          /\ \A i \in Index \ {c} : timers'[i] = timers[i]
          /\ \A i \in Index : timers'[i].tock = timers[i].tock
      BY <2>4, <2>5, <2>6
    <2>8. \A i \in Index : Waiting(i)' = Waiting(i)
      BY <1>4, <2>7, WaitingStays
    <2>9. Waiting(c) <= clock
      BY <1>3, IndexProperties DEF Waiting
    <2>10. TypeOK'
      BY <1>1, <1>4, <1>12, <2>1, <2>2, <2>7 DEF TypeOK
    <2>11. InThePast'
      <3>1. \A i \in Index : timers'[i].tick <= clock' /\ timers'[i].tock <= clock'
        <4>1. ASSUME NEW i \in Index \ {c} PROVE timers'[i].tick <= clock' /\ timers'[i].tock <= clock'
          BY <1>9a, <2>7
        <4>2. timers'[c].tick <= clock' /\ timers'[c].tock <= clock'
          <5>1. timers'[c].tick = clock' /\ timers'[c].tock = timers[c].tock
            BY <1>1, <2>7
          <5>2. clock' <= clock'
            BY <1>9a
          <5> QED BY <1>9a, <5>1, <5>2
        <4> QED BY <4>1, <4>2
      <3> QED BY <1>4, <1>6, <1>9a, <3>1 DEF InThePast
    <2>12. InsideTheRegion'
      <3> SUFFICES ASSUME NEW i \in Index, matchers'[i].matching
                   PROVE  /\ i = Current /\ Waiting(i) < timers'[i].tick
                          /\ matchers'[i].nested_level \in 1 .. Len(regions'[th])
                          /\ LET selected == regions'[th][Len(regions'[th]) + 1 - matchers'[i].nested_level]
                             IN selected.name \in Wanted[i] /\ selected.pushed = timers'[i].tick
        BY <1>2, <1>4, <2>8 DEF InsideTheRegion
      <3>1. i = c
        BY <1>12, <2>3 DEF InsideTheRegion
      <3>2. /\ matchers'[i].nested_level = 1 /\ Len(regions'[th]) + 1 - 1 = n + 1
            /\ 1 \in 1 .. Len(regions'[th])
        BY <1>1, <2>1, <2>3, <3>1
      <3>3. Waiting(c) < timers'[c].tick
        <4>1. Waiting(c) \in Nat /\ timers'[c].tick = now
          BY <1>3, <2>7
        <4> QED BY <1>1, <1>3, <2>9, <4>1
      <3>4. /\ regions'[th][n + 1].name \in Wanted[c] /\ i = Current
            /\ regions'[th][n + 1].pushed = timers'[c].tick
        BY <1>1, <1>3, <1>7, <1>12, <2>7, <3>1
      <3> QED BY <3>1, <3>2, <3>3, <3>4
    <2>13. TimesSequence'
      <3>1. \A i \in 1 .. current : timers'[i] = timers[i]
        BY <1>9, <1>12, <2>7
      <3> QED BY <1>1, <1>4, <1>9, <2>8, <3>1 DEF TimesSequence, Timed
    <2>14. MissesNoRegion'
      <3> SUFFICES ASSUME NEW r \in Pushed', NEW i \in Index, i <= Current, r.name \in Wanted[i],
                          r.pushed > Waiting(i)
                   PROVE  /\ i = Current => matchers'[i].matching
                          /\ Waiting(i) < timers'[i].tick /\ timers'[i].tick <= r.pushed
        BY <1>4, <2>8 DEF MissesNoRegion
      <3>1. CASE i # Current
        <4>1. i < Current /\ timers'[i] = timers[i]
          BY <1>3, <1>12, <2>7, <3>1
        <4>2. CASE r \in Pushed
          BY <3>1, <4>1, <4>2 DEF MissesNoRegion
        <4>3. CASE r = new
          BY <1>3, <1>7, <1>8, <4>1, <4>3 DEF Timed
        <4> QED BY <1>1, <4>2, <4>3
      <3>2. CASE i = Current
        <4>1. CASE r \in Pushed
          BY <1>12, <3>2, <4>1 DEF MissesNoRegion
        <4>2. CASE r = new
          <5>1. i = c /\ matchers'[i].matching
            BY <1>12, <2>1, <2>3, <3>2
          <5>2. Waiting(i) \in Nat /\ Waiting(i) <= clock /\ timers'[i].tick = now /\ r.pushed = clock + 1
            BY <1>3, <1>7, <2>7, <2>9, <4>2, <5>1
          <5> QED BY <1>1, <1>3, <5>1, <5>2
        <4> QED BY <1>1, <4>1, <4>2
      <3> QED BY <3>1, <3>2
    <2> QED BY <1>5, <2>10, <2>11, <2>12, <2>13, <2>14
  <1>13. CASE all_matched
    <2>1. UNCHANGED <<matchers, timers>> /\ Current \notin Index
      BY <1>3, <1>13 DEF Push, all_matched
    <2> QED BY <1>10, <2>1
  <1>14. CASE ~all_matched
    <2>1. /\ matchers' = [matchers EXCEPT ![Current] = OnPush(matchers[Current], name \in Wanted[Current])]
          /\ timers' = IF PushMatches(matchers[Current], name \in Wanted[Current], TRUE)
                       THEN [timers EXCEPT ![Current].tick = now] ELSE timers
      BY <1>14 DEF Push
    <2>2. PICK c \in Index : c = Current
      BY <1>3, <1>14 DEF all_matched
    <2>3. CASE matchers[c].matching
      BY <1>11, <2>1, <2>2, <2>3 DEF PushMatches
    <2>4. CASE ~matchers[c].matching /\ name \in Wanted[c]
      BY <1>12, <2>1, <2>2, <2>4 DEF PushMatches
    <2>5. CASE ~matchers[c].matching /\ name \notin Wanted[c]
      <3>1. OnPush(matchers[c], name \in Wanted[c]) = matchers[c]
        BY <2>5 DEF OnPush
      <3>2. matchers' = matchers /\ timers' = timers
        BY <2>1, <2>2, <2>5, <3>1 DEF PushMatches, TypeOK
      <3> QED BY <1>10, <2>2, <2>5, <3>2
    <2> QED BY <2>3, <2>4, <2>5
  <1> QED BY <1>13, <1>14

LEMMA PopStep ==
  ASSUME OneThread, SeqInv, NEW th \in Thread, Pop(th)
  PROVE  SeqInv'
  <1> DEFINE n == Len(regions[th])
             last == regions[th][n]
             done == [name |-> last.name, pushed |-> last.pushed, popped |-> now]
  <1> USE DEF SeqInv
  <1>1. /\ RegionsTypeOK' /\ clock' = clock + 1 /\ now = clock'
        /\ n \in Nat \ {0} /\ Len(regions'[th]) = n - 1
        /\ DOMAIN regions[th] = 1 .. n /\ DOMAIN regions'[th] = 1 .. n - 1
        /\ \A i \in 1 .. n - 1 : regions'[th][i] = regions[th][i]
        /\ finished' = finished \cup {done}
        /\ Pushed' \subseteq Pushed
    BY PopProperties DEF Pop, TypeOK, now
  <1>2. \A u \in Thread : u = th
    BY DEF OneThread
  <1>3. /\ clock \in Nat /\ since \in Nat /\ current \in Nat /\ Current \in Nat /\ Current = current + 1
        /\ current <= Len(Wanted) /\ MaxDepth \in Nat
        /\ \A i \in Index : /\ timers[i].tick \in Nat /\ timers[i].tock \in Nat
                            /\ Waiting(i) \in Nat
                            /\ matchers[i] \in MatcherState
        /\ since <= clock
        /\ \A i \in Index : timers[i].tick <= clock /\ timers[i].tock <= clock
        /\ Len(Wanted) \in Nat /\ Index = 1 .. Len(Wanted)
    BY TimerProperties, IndexProperties, RegionsAssumption DEF InThePast, Current
  <1>4. since' = since /\ since' <= clock'
    <2>1. since' = since
      BY DEF Pop
    <2> QED BY <1>1, <1>3, <2>1
  <1>5. \A r \in Pushed : r.pushed \in Nat /\ r.pushed <= clock
    BY PushedInThePast DEF TypeOK, InThePast
  <1> HIDE DEF n, last, done
  <1>6. \A u \in Thread : Len(regions'[u]) <= MaxDepth
    <2>1. n <= MaxDepth
      BY DEF n
    <2> QED BY <1>1, <1>2, <1>3, <2>1
  <1>7. RegionsInThePast'
    BY PastGoesOn DEF Pop, TypeOK, InThePast
  <1>8. \A i \in Index : timers[i].tick <= clock' /\ timers[i].tock <= clock'
    <2>1. clock \in Nat /\ clock' = clock + 1
      BY <1>1, <1>3
    <2>2. \A a \in Nat : a <= clock => a <= clock'
      BY <2>1
    <2> QED BY <1>3, <2>2
  <1>9. CASE /\ UNCHANGED <<matchers, timers, current>>
             /\ Current \in Index => ~matchers[Current].matching
    <2>1. (\A i \in Index : Waiting(i)' = Waiting(i)) /\ Current' = Current
      BY <1>4, <1>9, WaitingStays DEF Current
    <2>2. TypeOK'
      BY <1>1, <1>4, <1>9 DEF TypeOK
    <2>3. InThePast'
      BY <1>4, <1>7, <1>8, <1>9 DEF InThePast
    <2>4. InsideTheRegion'
      BY <1>9 DEF InsideTheRegion
    <2>5. TimesSequence'
      <3>1. \A i \in 1 .. current : i \in Index
        BY <1>3
      <3> QED BY <1>1, <1>9, <2>1, <3>1 DEF TimesSequence, Timed
    <2>6. MissesNoRegion'
      BY <1>1, <1>9, <2>1 DEF MissesNoRegion
    <2> QED BY <1>6, <2>2, <2>3, <2>4, <2>5, <2>6
  <1>10. ASSUME NEW c \in Index, c = Current, matchers[c].matching,
                matchers' = [matchers EXCEPT ![c] = OnPop(matchers[c])],
                IF PopMatches(matchers[c], TRUE)
                THEN timers' = [timers EXCEPT ![c].tock = now] /\ current' = c
                ELSE UNCHANGED <<timers, current>>
         PROVE  SeqInv'
    <2>1. PICK level \in 1 .. n :
            /\ level = matchers[c].nested_level /\ Waiting(c) < timers[c].tick
            /\ regions[th][n + 1 - level].name \in Wanted[c]
            /\ regions[th][n + 1 - level].pushed = timers[c].tick
      BY <1>2, <1>10 DEF InsideTheRegion, n
    <2>2. level \in Level \ {0} /\ Decremented(matchers[c].nested_level) = level - 1
      <3>1. level \in Level \ {0}
        <4>1. matchers[c] \in MatcherState
          BY <1>3
        <4> QED BY <1>10, <2>1, <4>1 DEF MatcherState
      <3> QED BY <2>1, <3>1, Decrement
    <2>3. \A i \in Index \ {c} : matchers'[i] = matchers[i] /\ ~matchers[i].matching
      BY <1>10 DEF TypeOK, InsideTheRegion
    <2>4. CASE level # 1
      <3> DEFINE m == [matching |-> TRUE, nested_level |-> level - 1]
      <3>1. /\ level - 1 # 0 /\ level - 1 \in 1 .. n - 1 /\ (n - 1) + 1 - (level - 1) = n + 1 - level
            /\ n + 1 - level \in 1 .. n - 1 /\ level - 1 \in Level \ {0}
        <4>1. /\ level - 1 # 0 /\ level - 1 \in 1 .. n - 1 /\ (n - 1) + 1 - (level - 1) = n + 1 - level
              /\ n + 1 - level \in 1 .. n - 1
          <5>1. n \in Nat
            BY <1>1
          <5> QED BY <2>4, <5>1, OneLess
        <4>2. level - 1 \in Level \ {0}
          BY <2>2, <4>1, RegionMatcherAssumption DEF Level
        <4> QED BY <4>1, <4>2
      <3>2. OnPop(matchers[c]) = m
        <4>1. (level - 1 # 0) = TRUE
          BY <3>1
        <4> QED BY <1>10, <2>2, <4>1 DEF OnPop
      <3>3. m \in MatcherState /\ m.matching /\ m.nested_level = level - 1
        BY <3>1, InsideState
      <3> HIDE DEF m
      <3>4. matchers'[c] = m
        BY <1>10, <3>2 DEF TypeOK
      <3>5. UNCHANGED <<timers, current>> /\ Current' = Current
        BY <1>10, <2>2, <3>1 DEF PopMatches, Current
      <3>6. \A i \in Index : Waiting(i)' = Waiting(i)
        BY <1>4, <3>5, WaitingStays
      <3>7. TypeOK'
        BY <1>1, <1>4, <1>10, <3>2, <3>3, <3>5 DEF TypeOK
      <3>8. InThePast'
        BY <1>4, <1>7, <1>8, <3>5 DEF InThePast
      <3>9. InsideTheRegion'
        <4> SUFFICES ASSUME NEW i \in Index, matchers'[i].matching
                     PROVE  /\ i = Current /\ Waiting(i) < timers[i].tick
                            /\ matchers'[i].nested_level \in 1 .. Len(regions'[th])
                            /\ LET selected == regions'[th][Len(regions'[th]) + 1 - matchers'[i].nested_level]
                               IN selected.name \in Wanted[i] /\ selected.pushed = timers[i].tick
          BY <1>2, <3>5, <3>6 DEF InsideTheRegion
        <4>1. i = c
          BY <2>3
        <4>2. regions'[th][n + 1 - level] = regions[th][n + 1 - level]
          BY <1>1, <3>1
        <4>3. Len(regions'[th]) + 1 - matchers'[i].nested_level = n + 1 - level
          BY <1>1, <3>1, <3>3, <3>4, <4>1
        <4>4. matchers'[i].nested_level \in 1 .. Len(regions'[th])
          BY <1>1, <3>1, <3>3, <3>4, <4>1
        <4> QED BY <1>10, <2>1, <4>1, <4>2, <4>3, <4>4
      <3>10. TimesSequence'
        <4>1. \A i \in 1 .. current : i \in Index
          BY <1>3
        <4> QED BY <1>1, <3>5, <3>6, <4>1 DEF TimesSequence, Timed
      <3>11. MissesNoRegion'
        <4> SUFFICES ASSUME NEW r \in Pushed, NEW i \in Index, i <= Current, r.name \in Wanted[i],
                            r.pushed > Waiting(i)
                     PROVE  /\ i = Current => matchers'[i].matching
                            /\ Waiting(i) < timers[i].tick /\ timers[i].tick <= r.pushed
          BY <1>1, <3>5, <3>6 DEF MissesNoRegion
        <4>1. i = Current => matchers'[i].matching
          BY <1>10, <3>3, <3>4
        <4> QED BY <4>1 DEF MissesNoRegion
      <3> QED BY <1>6, <3>7, <3>8, <3>9, <3>10, <3>11
    <2>5. CASE level = 1
      <3> DEFINE m == [matching |-> FALSE, nested_level |-> 0]
                 t == [timers[c] EXCEPT !.tock = now]
      <3>1. OnPop(matchers[c]) = m
        <4>1. level - 1 = 0 /\ (level - 1 # 0) = FALSE
          BY <2>5
        <4> QED BY <1>10, <2>2, <4>1 DEF OnPop
      <3>2. m \in MatcherState /\ ~m.matching
        BY OutsideState
      <3>3. timers \in [Index -> Timer] /\ timers[c] \in Timer /\ now \in Nat
        <4>1. timers \in [Index -> Timer]
          BY DEF TypeOK
        <4>2. now \in Nat
          BY <1>1, <1>3
        <4> QED BY <4>1, <4>2
      <3>4. t \in Timer /\ t.tick = timers[c].tick /\ t.tock = now
        BY <3>3 DEF Timer
      <3>5. timers' = [timers EXCEPT ![c] = t] /\ current' = c
        <4>1. PopMatches(matchers[c], TRUE)
          BY <1>10, <2>2, <2>5 DEF PopMatches
        <4> QED BY <1>10, <4>1
      <3> HIDE DEF m, t
      <3>6. \A i \in Index : ~matchers'[i].matching
        BY <1>10, <2>3, <3>1, <3>2 DEF TypeOK
      <3>7. /\ timers' \in [Index -> Timer]
            /\ timers'[c].tick = timers[c].tick /\ timers'[c].tock = now
            /\ \A i \in Index \ {c} : timers'[i] = timers[i]
        BY <3>3, <3>4, <3>5
      <3>8. \A i \in Index : i <= c => Waiting(i)' = Waiting(i)
        <4>1. \A i, j \in Index : i <= c /\ j < i => j # c
          BY <1>3
        <4> QED BY <1>4, <3>7, <4>1, WaitingStays
      <3>9. TypeOK'
        <4>1. matchers' \in [Index -> MatcherState]
          BY <1>10, <3>1, <3>2 DEF TypeOK
        <4>2. current' \in 0 .. Len(Wanted)
          BY <1>3, <3>5
        <4> QED BY <1>1, <1>3, <1>4, <3>7, <4>1, <4>2 DEF TypeOK
      <3>10. InThePast'
        <4>1. ASSUME NEW i \in Index PROVE timers'[i].tick <= clock' /\ timers'[i].tock <= clock'
          <5>1. CASE i = c
            <6>1. now <= clock'
              BY <1>1, <1>3
            <6> QED BY <1>8, <3>7, <5>1, <6>1
          <5>2. CASE i # c
            BY <1>8, <3>7, <5>2
          <5> QED BY <5>1, <5>2
        <4> QED BY <1>4, <1>7, <4>1 DEF InThePast
      <3>11. InsideTheRegion'
        BY <3>6 DEF InsideTheRegion
      <3>12. Timed(c)'
        <4>1. n + 1 - level = n
          BY <1>1, <2>5
        <4>2. last.name \in Wanted[c] /\ last.pushed = timers[c].tick
          BY <2>1, <4>1 DEF last
        <4>3. [name |-> last.name, pushed |-> timers'[c].tick, popped |-> timers'[c].tock] \in finished'
          BY <1>1, <3>7, <4>2 DEF done
        <4>4. c <= c
          BY <1>3
        <4>5. timers'[c].tick > Waiting(c)'
          BY <1>3, <2>1, <3>7, <3>8, <4>4
        <4> QED BY <4>2, <4>3, <4>5 DEF Timed
      <3>13. TimesSequence'
        <4> SUFFICES ASSUME NEW i \in 1 .. c PROVE Timed(i)'
          BY <3>5 DEF TimesSequence
        <4>1. CASE i = c
          BY <3>12, <4>1
        <4>2. CASE i # c
          <5>1. i \in 1 .. current /\ i \in Index /\ i <= c
            BY <1>3, <1>10, <4>2
          <5>2. timers'[i] = timers[i] /\ Waiting(i)' = Waiting(i)
            BY <3>7, <3>8, <4>2, <5>1
          <5> QED BY <1>1, <5>1, <5>2 DEF TimesSequence, Timed
        <4> QED BY <4>1, <4>2
      <3>14. MissesNoRegion'
        <4> SUFFICES ASSUME NEW r \in Pushed, NEW i \in Index, i <= c + 1, r.name \in Wanted[i],
                            r.pushed > Waiting(i)'
                     PROVE  /\ i # c + 1
                            /\ Waiting(i)' < timers'[i].tick /\ timers'[i].tick <= r.pushed
          BY <1>1, <3>5 DEF MissesNoRegion, Current
        <4>1. CASE i = c + 1
          <5>1. i # 1 /\ i - 1 = c
            BY <1>3, <4>1
          <5>2. Waiting(i)' = now
            BY <3>7, <5>1 DEF Waiting
          <5>3. now = clock + 1 /\ clock \in Nat /\ r.pushed \in Nat /\ r.pushed <= clock
            BY <1>1, <1>3, <1>5
          <5> QED BY <5>2, <5>3
        <4>2. CASE i <= c
          <5>1. Waiting(i)' = Waiting(i) /\ timers'[i].tick = timers[i].tick
            BY <3>7, <3>8, <4>2
          <5>2. i # c + 1
            BY <1>3, <4>2
          <5> QED BY <1>10, <4>2, <5>1, <5>2 DEF MissesNoRegion
        <4>3. i = c + 1 \/ i <= c
          BY <1>3
        <4> QED BY <4>1, <4>2, <4>3
      <3> QED BY <1>6, <3>9, <3>10, <3>11, <3>13, <3>14
    <2> QED BY <2>4, <2>5
  <1>11. CASE all_matched
    <2>1. UNCHANGED <<matchers, timers, current>> /\ Current \notin Index
      BY <1>3, <1>11 DEF Pop, all_matched
    <2> QED BY <1>9, <2>1
  <1>12. CASE ~all_matched
    <2>1. /\ matchers' = [matchers EXCEPT ![Current] = OnPop(matchers[Current])]
          /\ IF PopMatches(matchers[Current], TRUE)
             THEN timers' = [timers EXCEPT ![Current].tock = now] /\ current' = Current
             ELSE UNCHANGED <<timers, current>>
      BY <1>12 DEF Pop
    <2>2. PICK c \in Index : c = Current
      BY <1>3, <1>12 DEF all_matched
    <2>3. CASE matchers[c].matching
      BY <1>10, <2>1, <2>2, <2>3
    <2>4. CASE ~matchers[c].matching
      <3>1. OnPop(matchers[c]) = matchers[c] /\ ~PopMatches(matchers[c], TRUE)
        BY <2>4 DEF OnPop, PopMatches
      <3>2. matchers' = matchers
        BY <2>1, <2>2, <3>1 DEF TypeOK
      <3> QED BY <1>9, <2>1, <2>2, <2>4, <3>1, <3>2
    <2> QED BY <2>3, <2>4
  <1> QED BY <1>11, <1>12

\* No region is being timed, so nothing of interest is lost.
LEMMA ResetStep ==
  ASSUME SeqInv, Reset, ~Interrupting
  PROVE  SeqInv'
  <1> USE DEF SeqInv
  <1>1. /\ UNCHANGED <<clock, regions, finished, matchers, timers>>
        /\ current' = 0 /\ since' = clock /\ ~Timing
    BY DEF Reset, regionVars
  <1>2. Pushed' = Pushed /\ RegionsTypeOK'
    BY <1>1 DEF Pushed, RegionsTypeOK, TypeOK
  <1>3. clock \in Nat /\ Len(Wanted) \in Nat /\ Index = 1 .. Len(Wanted)
    BY TimerProperties, IndexProperties
  <1>4. TypeOK'
    <2>1. 0 \in 0 .. Len(Wanted)
      BY <1>3
    <2> QED BY <1>1, <1>2, <1>3, <2>1 DEF TypeOK
  <1>5. InThePast'
    BY <1>1, <1>3 DEF InThePast, RegionsInThePast
  <1>6. InsideTheRegion'
    <2>1. \A i \in Index : ~matchers[i].matching
      BY <1>1 DEF Timing, InsideTheRegion
    <2> QED BY <1>1, <2>1 DEF InsideTheRegion
  <1>7. TimesSequence'
    BY <1>1 DEF TimesSequence
  <1>8. MissesNoRegion'
    <2> SUFFICES ASSUME NEW r \in Pushed, NEW i \in Index, i <= 1, r.pushed > Waiting(i)' PROVE FALSE
      BY <1>1, <1>2 DEF MissesNoRegion, Current
    <2>1. Waiting(i)' = clock
      BY <1>1, <1>3 DEF Waiting
    <2>2. r.pushed \in Nat /\ r.pushed <= clock
      BY PushedInThePast DEF TypeOK, InThePast
    <2> QED BY <1>3, <2>1, <2>2
  <1> QED BY <1>1, <1>4, <1>5, <1>6, <1>7, <1>8

LEMMA NextSeqInv ==
  ASSUME OneThread, ~Interrupting
  PROVE  SeqInv /\ [Next]_vars => SeqInv'
  <1> SUFFICES ASSUME SeqInv, [Next]_vars PROVE SeqInv'
    OBVIOUS
  <1>1. ASSUME NEW th \in Thread, NEW name \in Name, Push(th, name) PROVE SeqInv'
    BY <1>1, PushStep
  <1>2. ASSUME NEW th \in Thread, Pop(th) PROVE SeqInv'
    BY <1>2, PopStep
  <1>3. CASE Reset
    BY <1>3, ResetStep
  <1>4. CASE UNCHANGED vars
    <2> USE <1>4 DEF vars, regionVars, sequenceVars, SeqInv
    <2>1. TypeOK' /\ InThePast'
      BY DEF TypeOK, RegionsTypeOK, InThePast, RegionsInThePast
    <2>2. Pushed' = Pushed /\ Current' = Current /\ \A i : Waiting(i)' = Waiting(i)
      BY DEF Pushed, Current, Waiting
    <2>3. InsideTheRegion' /\ TimesSequence' /\ MissesNoRegion'
      BY <2>2 DEF InsideTheRegion, TimesSequence, Timed, MissesNoRegion
    <2> QED BY <2>1, <2>3
  <1> QED BY <1>1, <1>2, <1>3, <1>4 DEF Next

\* The members of the listener stay of their types; in particular no matcher
\* counts below the region it has selected (EventRegionMatcher).
THEOREM TypeOKHolds ==
  ASSUME OneThread, ~Interrupting
  PROVE  Spec => []TypeOK
  <1>1. SeqInv => TypeOK
    BY DEF SeqInv
  <1> QED BY <1>1, InitSeqInv, NextSeqInv, PTL DEF Spec

\* The timers that are done have timed the regions of the sequence, in its
\* order and one after the other, whatever the sequence and the nesting of
\* other regions around, between and inside them (both operator()).
THEOREM TimesSequenceHolds ==
  ASSUME OneThread, ~Interrupting
  PROVE  Spec => []TimesSequence
  <1>1. SeqInv => TimesSequence
    BY DEF SeqInv
  <1> QED BY <1>1, InitSeqInv, NextSeqInv, PTL DEF Spec

\* Each timer times the first region its matcher accepts after the one before
\* it was stopped (both operator()).
THEOREM MissesNoRegionHolds ==
  ASSUME OneThread, ~Interrupting
  PROVE  Spec => []MissesNoRegion
  <1>1. SeqInv => MissesNoRegion
    BY DEF SeqInv
  <1> QED BY <1>1, InitSeqInv, NextSeqInv, PTL DEF Spec

\* all_matched() says what SequenceOfRegionTimerListener.hpp:33 says of it, for
\* a program that resets the listener between the regions of its sequence and
\* never within the one being timed (both operator(), reset()).
THEOREM AllMatchedMeansTimedHolds ==
  ASSUME OneThread, ~Interrupting
  PROVE  Spec => []AllMatchedMeansTimed
  <1>1. SeqInv => AllMatchedMeansTimed
    BY IndexProperties DEF SeqInv, TimesSequence, AllMatchedMeansTimed, all_matched
  <1> QED BY <1>1, InitSeqInv, NextSeqInv, PTL DEF Spec
=============================================================================
