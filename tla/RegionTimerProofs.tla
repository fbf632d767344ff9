------------------------- MODULE RegionTimerProofs -------------------------
(***************************************************************************)
(* A RegionTimerListener times the first wanted region, from its own push  *)
(* to its own pop, for every nesting of regions on one thread.             *)
(***************************************************************************)
EXTENDS RegionTimer, RegionLemmas

(***************************************************************************)
(* The inductive invariant.                                                *)
(***************************************************************************)
\* Everything that has a time happened by now.
InThePast == since <= clock /\ tick <= clock /\ RegionsInThePast

\* The matcher is inside a region when the timer runs, and its level is the
\* depth of the stack from that region on.
InsideTheRegion ==
  /\ matcher.matching <=> connected
  /\ connected =>
       /\ registered
       /\ \A th \in Thread :
            /\ matcher.nested_level \in 1 .. Len(regions[th])
            /\ LET selected == regions[th][Len(regions[th]) + 1 - matcher.nested_level]
               IN selected.name \in Wanted /\ selected.pushed = tick

\* SelectsFirst, kept by a closed listener that is not registered.
StartedByTheFirst ==
  /\ matched_begin => since < tick
  /\ \A r \in Pushed :
       (registered \/ closed) /\ r.name \in Wanted /\ r.pushed > since =>
         matched_begin /\ tick <= r.pushed

RTInv ==
  /\ TypeOK
  /\ \A th \in Thread : Len(regions[th]) <= MaxDepth
  /\ InThePast
  /\ InsideTheRegion
  /\ TimesOneRegion
  /\ StartedByTheFirst

-----------------------------------------------------------------------------
(***************************************************************************)
(* Every step keeps the invariant.                                         *)
(***************************************************************************)
LEMMA InitRTInv == Init => RTInv
  <1> SUFFICES ASSUME Init PROVE RTInv
    OBVIOUS
  <1> USE DEF Init, RegionsInit, TimerListenerInit
  <1>1. TypeOK
    <2>1. matcher \in MatcherState
      BY OutsideState DEF Initially
    <2>2. <<>> \in Seq(Region)
      OBVIOUS
    <2>3. RegionsTypeOK
      BY <2>2 DEF RegionsTypeOK
    <2>4. TimerListenerTypeOK
      BY DEF TimerListenerTypeOK
    <2> QED BY <2>1, <2>3, <2>4 DEF TypeOK
  <1>2. (\A th \in Thread : Len(regions[th]) <= MaxDepth) /\ InThePast
    BY RegionsAssumption DEF InThePast, RegionsInThePast
  <1>3. InsideTheRegion /\ TimesOneRegion
    BY DEF InsideTheRegion, Initially, connected, TimesOneRegion, closed
  <1>4. StartedByTheFirst
    BY DEF StartedByTheFirst, Pushed
  <1> QED BY <1>1, <1>2, <1>3, <1>4 DEF RTInv

LEMMA PushStep ==
  ASSUME OneThread, TimerType = "Timer<void>", RTInv, NEW th \in Thread, NEW name \in Name, Push(th, name)
  PROVE  RTInv'
  <1> DEFINE n == Len(regions[th])
             new == [name |-> name, pushed |-> now]
  <1> USE DEF RTInv
  <1>1. /\ RegionsTypeOK' /\ clock' = clock + 1 /\ finished' = finished /\ now = clock'
        /\ n \in Nat /\ n < MaxDepth /\ Len(regions'[th]) = n + 1
        /\ DOMAIN regions[th] = 1 .. n /\ DOMAIN regions'[th] = 1 .. n + 1
        /\ \A i \in 1 .. n : regions'[th][i] = regions[th][i]
        /\ regions'[th][n + 1] = new
        /\ Pushed' \subseteq Pushed \cup {new}
    BY PushProperties DEF Push, TypeOK, now
  <1>2. \A u \in Thread : u = th
    BY DEF OneThread
  <1>3. /\ clock \in Nat /\ tick \in Nat /\ tock \in Nat /\ since \in Nat /\ since <= clock /\ tick <= clock
        /\ matched_begin \in BOOLEAN /\ matched_end \in BOOLEAN /\ registered \in BOOLEAN
        /\ matcher \in MatcherState /\ (matched_end => matched_begin) /\ MaxDepth \in Nat
    BY RegionsAssumption DEF TypeOK, RegionsTypeOK, TimerListenerTypeOK, InThePast
  <1>4. registered' = registered
    BY DEF Push
  <1>5. \A u \in Thread : Len(regions'[u]) <= MaxDepth
    BY <1>1, <1>2, <1>3
  <1>6. ASSUME since' = since, tick' \in {tick, clock'} PROVE InThePast'
    <2>1. RegionsInThePast'
      BY PastGoesOn DEF Push, TypeOK, InThePast
    <2> QED BY <1>1, <1>3, <1>6, <2>1 DEF InThePast
  <1>7. new.pushed = clock + 1 /\ new.name = name
    BY DEF now
  <1> HIDE DEF n, new
  <1>8. CASE /\ UNCHANGED <<matcher, listenerVars>> /\ ~connected
             /\ closed \/ ~registered \/ name \notin Wanted
    <2> USE <1>8 DEF listenerVars, flagVars, timerVars
    <2>1. TypeOK'
      BY <1>1, <1>4 DEF TypeOK, TimerListenerTypeOK
    <2>2. InThePast'
      BY <1>6
    <2>3. InsideTheRegion' /\ TimesOneRegion'
      BY <1>1 DEF InsideTheRegion, TimesOneRegion, connected, closed
    <2>4. StartedByTheFirst'
      <3> SUFFICES ASSUME NEW r \in Pushed', registered \/ closed, r.name \in Wanted, r.pushed > since
                   PROVE  matched_begin /\ tick <= r.pushed
        BY <1>4 DEF StartedByTheFirst, closed
      <3>1. CASE r \in Pushed
        BY <3>1 DEF StartedByTheFirst
      <3>2. CASE r = new
        BY <1>3, <1>7, <3>2 DEF closed
      <3> QED BY <1>1, <3>1, <3>2
    <2> QED BY <1>5, <2>1, <2>2, <2>3, <2>4
  <1>9. CASE /\ connected /\ registered /\ UNCHANGED listenerVars
             /\ matcher' = OnPush(matcher, name \in Wanted)
    <2> USE <1>9 DEF listenerVars, flagVars, timerVars
    <2>1. /\ matcher.matching /\ matcher.nested_level \in 1 .. n
          /\ regions[th][n + 1 - matcher.nested_level].name \in Wanted
          /\ regions[th][n + 1 - matcher.nested_level].pushed = tick
      BY <1>2 DEF InsideTheRegion, n
    <2>2. matcher.nested_level \in 0 .. invalid_nested_level - 1 /\ invalid_nested_level \in Nat
      BY <1>1, <1>3, <2>1, RegionTimerAssumption, RegionMatcherAssumption
    <2>3. matcher' = [matching |-> TRUE, nested_level |-> matcher.nested_level + 1]
      BY <1>3, <2>1, <2>2, Increment DEF OnPush, MatcherState
    <2>4. TypeOK'
      <3>1. matcher.nested_level + 1 \in Level \ {0}
        BY <2>2 DEF Level
      <3>2. matcher' \in MatcherState
        BY <2>3, <3>1, InsideState
      <3> QED BY <1>1, <1>4, <3>2 DEF TypeOK, TimerListenerTypeOK
    <2>5. InThePast'
      BY <1>6
    <2>6. InsideTheRegion'
      <3> DEFINE i == n + 1 - matcher.nested_level
      <3>0. matcher'.nested_level = matcher.nested_level + 1 /\ matcher'.matching
        BY <2>3
      <3>1. i \in 1 .. n /\ Len(regions'[th]) + 1 - matcher'.nested_level = i
        <4>1. PICK level \in 1 .. n : matcher.nested_level = level
          BY <2>1
        <4>2. i = n + 1 - level /\ Len(regions'[th]) + 1 - matcher'.nested_level = (n + 1) + 1 - (level + 1)
          BY <1>1, <3>0, <4>1
        <4> HIDE DEF i
        <4> QED BY <1>1, <4>1, <4>2
      <3>2. regions'[th][i].name \in Wanted /\ regions'[th][i].pushed = tick
        BY <1>1, <2>1, <3>1
      <3>3. matcher'.nested_level \in 1 .. Len(regions'[th])
        BY <1>1, <2>1, <2>3
      <3> HIDE DEF i
      <3> QED BY <1>2, <1>4, <2>3, <3>1, <3>2, <3>3 DEF InsideTheRegion, connected
    <2>7. TimesOneRegion'
      BY DEF TimesOneRegion, closed, connected
    <2>8. StartedByTheFirst'
      <3> SUFFICES ASSUME NEW r \in Pushed', r.name \in Wanted, r.pushed > since
                   PROVE  matched_begin /\ tick <= r.pushed
        BY <1>4 DEF StartedByTheFirst, connected
      <3>1. CASE r \in Pushed
        BY <3>1 DEF StartedByTheFirst
      <3>2. CASE r = new
        BY <1>3, <1>7, <3>2 DEF connected
      <3> QED BY <1>1, <3>1, <3>2
    <2> QED BY <1>5, <2>4, <2>5, <2>6, <2>7, <2>8
  <1>10. CASE /\ ~connected /\ ~closed /\ registered /\ name \in Wanted
              /\ matcher' = OnPush(matcher, TRUE)
              /\ MatchBegin("PushRegionEvent", now)
    <2>1. /\ ~matched_begin /\ matched_begin' /\ matched_end' = matched_end /\ tick' = clock'
          /\ tock' = tock /\ since' = since /\ ended' = ended
          /\ began' = "PushRegionEvent"
      BY <1>1, <1>10 DEF MatchBegin, Startable, start, timerVars
    <2>2. ~matched_end /\ ~matched_end' /\ connected' /\ ~closed'
      BY <1>3, <2>1 DEF connected, closed
    <2>3. matcher' = [matching |-> TRUE, nested_level |-> 1]
      BY <1>3, <1>10, <2>2 DEF OnPush, InsideTheRegion
    <2>4. TypeOK'
      <3>1. 1 \in Level \ {0}
        BY RegionMatcherAssumption DEF Level
      <3>2. matcher' \in MatcherState
        BY <2>3, <3>1, InsideState
      <3>3. TimerListenerTypeOK'
        <4>1. "PushRegionEvent" \in EventTypeList
          BY DEF EventTypeList
        <4> QED BY <1>1, <1>3, <2>1, <2>2, <4>1 DEF TypeOK, TimerListenerTypeOK
      <3> QED BY <1>1, <1>4, <3>2, <3>3 DEF TypeOK
    <2>5. InThePast'
      BY <1>6, <2>1
    <2>6. InsideTheRegion'
      <3>1. matcher'.nested_level = 1 /\ matcher'.matching
        BY <2>3
      <3>2. Len(regions'[th]) + 1 - matcher'.nested_level = n + 1 /\ 1 \in 1 .. Len(regions'[th])
        BY <1>1, <3>1
      <3>3. regions'[th][n + 1].name \in Wanted /\ regions'[th][n + 1].pushed = tick'
        BY <1>1, <1>10, <1>3, <1>7, <2>1
      <3> QED BY <1>2, <1>4, <1>10, <2>2, <3>1, <3>2, <3>3 DEF InsideTheRegion
    <2>7. TimesOneRegion'
      BY <2>2 DEF TimesOneRegion
    <2>8. StartedByTheFirst'
      <3>1. since' < tick'
        BY <1>1, <1>3, <2>1
      <3> SUFFICES ASSUME NEW r \in Pushed', r.name \in Wanted, r.pushed > since
                   PROVE  tick' <= r.pushed
        BY <2>1, <3>1 DEF StartedByTheFirst
      <3>2. CASE r \in Pushed
        BY <1>10, <2>1, <3>2 DEF StartedByTheFirst
      <3>3. CASE r = new
        BY <1>1, <1>3, <1>7, <2>1, <3>3
      <3> QED BY <1>1, <3>2, <3>3
    <2> QED BY <1>5, <2>4, <2>5, <2>6, <2>7, <2>8
  <1>11. CASE Ignored /\ UNCHANGED <<matcher, listenerVars>>
    <2>1. ~connected /\ (closed \/ ~registered)
      BY <1>11 DEF Ignored, InsideTheRegion, connected, closed
    <2> QED BY <1>8, <1>11, <2>1
  <1>12. CASE /\ ~Ignored
              /\ matcher' = OnPush(matcher, name \in Wanted)
              /\ Branch("PushRegionEvent", PushMatches(matcher, name \in Wanted, TRUE), now)
    <2>1. registered /\ ~closed
      BY <1>12 DEF Ignored
    <2>2. CASE connected
      <3>1. matcher.matching
        BY <2>2 DEF InsideTheRegion
      <3>2. UNCHANGED listenerVars
        BY <1>12, <2>1, <3>1 DEF Branch, PushMatches
      <3> QED BY <1>9, <1>12, <2>1, <2>2, <3>2
    <2>3. CASE ~connected /\ name \in Wanted
      <3>1. ~matcher.matching
        BY <2>3 DEF InsideTheRegion
      <3>2. MatchBegin("PushRegionEvent", now)
        BY <1>12, <2>1, <2>3, <3>1 DEF Branch, PushMatches, MatchEnd, connected, closed
      <3> QED BY <1>10, <1>12, <2>1, <2>3, <3>2
    <2>4. CASE ~connected /\ name \notin Wanted
      <3>1. ~matcher.matching
        BY <2>4 DEF InsideTheRegion
      <3>2. UNCHANGED listenerVars /\ matcher' = matcher
        BY <1>12, <2>1, <2>4, <3>1 DEF Branch, PushMatches, OnPush
      <3> QED BY <1>8, <2>4, <3>2
    <2> QED BY <2>2, <2>3, <2>4
  <1> QED BY <1>11, <1>12 DEF Push

LEMMA PopStep ==
  ASSUME OneThread, RTInv, NEW th \in Thread, Pop(th)
  PROVE  RTInv'
  <1> DEFINE n == Len(regions[th])
             last == regions[th][n]
             done == [name |-> last.name, pushed |-> last.pushed, popped |-> now]
  <1> USE DEF RTInv
  <1>1. /\ RegionsTypeOK' /\ clock' = clock + 1 /\ now = clock'
        /\ n \in Nat \ {0} /\ Len(regions'[th]) = n - 1
        /\ DOMAIN regions[th] = 1 .. n /\ DOMAIN regions'[th] = 1 .. n - 1
        /\ \A i \in 1 .. n - 1 : regions'[th][i] = regions[th][i]
        /\ finished' = finished \cup {done}
        /\ Pushed' \subseteq Pushed
    BY PopProperties DEF Pop, TypeOK, now
  <1>2. \A u \in Thread : u = th
    BY DEF OneThread
  <1>3. /\ clock \in Nat /\ tick \in Nat /\ tock \in Nat /\ since \in Nat /\ since <= clock /\ tick <= clock
        /\ matched_begin \in BOOLEAN /\ matched_end \in BOOLEAN /\ registered \in BOOLEAN
        /\ matcher \in MatcherState /\ (matched_end => matched_begin) /\ MaxDepth \in Nat
    BY RegionsAssumption DEF TypeOK, RegionsTypeOK, TimerListenerTypeOK, InThePast
  <1>4. registered' = registered
    BY DEF Pop
  <1> HIDE DEF n, last, done
  <1>5. \A u \in Thread : Len(regions'[u]) <= MaxDepth
    <2>1. n <= MaxDepth
      BY DEF n
    <2> QED BY <1>1, <1>2, <1>3, <2>1
  <1>6. ASSUME since' = since, tick' = tick PROVE InThePast'
    <2>1. RegionsInThePast'
      BY PastGoesOn DEF Pop, TypeOK, InThePast
    <2> QED BY <1>1, <1>3, <1>6, <2>1 DEF InThePast
  <1>7. CASE UNCHANGED <<matcher, listenerVars>> /\ ~connected
    <2>1. /\ UNCHANGED <<matcher, matched_begin, matched_end, tick, tock, began, ended, since>>
          /\ connected' = connected /\ closed' = closed
      BY <1>7 DEF listenerVars, flagVars, timerVars, connected, closed
    <2>2. TypeOK'
      BY <1>1, <1>4, <2>1 DEF TypeOK, TimerListenerTypeOK
    <2>3. InThePast'
      BY <1>6, <2>1
    <2>4. InsideTheRegion' /\ TimesOneRegion'
      BY <1>1, <1>7, <2>1 DEF InsideTheRegion, TimesOneRegion
    <2>5. StartedByTheFirst'
      BY <1>1, <1>4, <2>1 DEF StartedByTheFirst
    <2> QED BY <1>5, <2>2, <2>3, <2>4, <2>5
  <1>8. CASE /\ connected /\ registered
             /\ matcher' = OnPop(matcher)
             /\ Branch("PopRegionEvent", PopMatches(matcher, TRUE), now)
    <2>1. PICK level \in 1 .. n :
            /\ level = matcher.nested_level /\ matcher.matching
            /\ regions[th][n + 1 - level].name \in Wanted
            /\ regions[th][n + 1 - level].pushed = tick
      BY <1>2, <1>8 DEF InsideTheRegion, n
    <2>2. level \in Level \ {0} /\ Decremented(matcher.nested_level) = level - 1 /\ level - 1 \in Level
      <3>1. level \in Level \ {0}
        BY <1>3, <2>1 DEF MatcherState
      <3> QED BY <2>1, <3>1, Decrement, RegionMatcherAssumption DEF Level
    <2>3. matched_begin /\ ~matched_end /\ ~closed
      BY <1>3, <1>8 DEF connected, closed
    <2>4. ASSUME NEW r \in Pushed', r.name \in Wanted, r.pushed > since
          PROVE  since < tick /\ tick <= r.pushed
      BY <1>1, <1>8, <2>3, <2>4 DEF StartedByTheFirst
    <2>5. since < tick
      BY <2>3 DEF StartedByTheFirst
    <2>6. CASE level # 1
      <3>1. level - 1 # 0 /\ level - 1 \in 1 .. n - 1 /\ (n - 1) + 1 - (level - 1) = n + 1 - level
            /\ n + 1 - level \in 1 .. n - 1
        <4>1. level \in 1 .. n /\ n \in Nat
          BY <1>1, <2>1
        <4> HIDE DEF n
        <4> QED BY <2>6, <4>1
      <3>2. matcher' = [matching |-> TRUE, nested_level |-> level - 1]
        <4>1. (level - 1 # 0) = TRUE
          BY <3>1
        <4> QED BY <1>8, <2>1, <2>2, <4>1 DEF OnPop
      <3>3. UNCHANGED <<matched_begin, matched_end, tick, tock, began, ended, since>>
        BY <1>8, <2>1, <2>2, <2>3, <3>1 DEF Branch, PopMatches, listenerVars, flagVars, timerVars
      <3>4. connected' /\ ~closed'
        BY <1>8, <2>3, <3>3 DEF connected, closed
      <3>5. matcher' \in MatcherState
        BY <2>2, <3>1, <3>2, InsideState
      <3>6. TypeOK'
        BY <1>1, <1>4, <3>3, <3>5 DEF TypeOK, TimerListenerTypeOK
      <3>7. matcher'.nested_level = level - 1 /\ matcher'.matching
        BY <3>2
      <3>8. InsideTheRegion'
        <4>1. regions'[th][n + 1 - level] = regions[th][n + 1 - level]
          BY <1>1, <3>1
        <4>2. Len(regions'[th]) + 1 - matcher'.nested_level = n + 1 - level
          BY <1>1, <3>1, <3>7
        <4>3. matcher'.nested_level \in 1 .. Len(regions'[th])
          BY <1>1, <3>1, <3>7
        <4> QED BY <1>2, <1>4, <1>8, <2>1, <3>3, <3>4, <3>7, <4>1, <4>2, <4>3 DEF InsideTheRegion
      <3>9. TimesOneRegion' /\ StartedByTheFirst'
        BY <1>1, <2>4, <2>5, <2>3, <3>3, <3>4 DEF TimesOneRegion, StartedByTheFirst
      <3> QED BY <1>5, <1>6, <3>3, <3>6, <3>8, <3>9
    <2>7. CASE level = 1
      <3>1. matcher' = [matching |-> FALSE, nested_level |-> 0]
        <4>1. level - 1 = 0 /\ (level - 1 # 0) = FALSE
          BY <2>7
        <4> QED BY <1>8, <2>1, <2>2, <4>1 DEF OnPop
      <3>2. /\ matched_end' /\ matched_begin' = matched_begin /\ tick' = tick /\ tock' = now
            /\ since' = since /\ began' = began /\ ended' = "PopRegionEvent"
            /\ matched_end' \in BOOLEAN
        <4>1. PopMatches(matcher, TRUE)
          BY <2>1, <2>2, <2>7 DEF PopMatches
        <4>2. MatchEnd("PopRegionEvent", now)
          BY <1>8, <2>3, <4>1 DEF Branch, MatchBegin
        <4> QED BY <4>2 DEF MatchEnd, stop
      <3>3. closed' /\ ~connected'
        BY <2>3, <3>2 DEF connected, closed
      <3>4. matcher' \in MatcherState
        BY <3>1, OutsideState
      <3>5. TypeOK'
        <4>1. "PopRegionEvent" \in EventTypeList
          BY DEF EventTypeList
        <4> QED BY <1>1, <1>3, <1>4, <2>3, <3>2, <3>4, <4>1 DEF TypeOK, TimerListenerTypeOK
      <3>6. ~matcher'.matching
        BY <3>1
      <3>7. InsideTheRegion'
        BY <3>3, <3>6 DEF InsideTheRegion
      <3>8. TimesOneRegion'
        <4>1. n + 1 - level = n
          BY <1>1, <2>7
        <4>2. last.name \in Wanted /\ last.pushed = tick
          BY <2>1, <4>1 DEF last
        <4>3. [name |-> last.name, pushed |-> tick', popped |-> tock'] \in finished'
          BY <1>1, <3>2, <4>2 DEF done
        <4> QED BY <4>2, <4>3 DEF TimesOneRegion
      <3>9. StartedByTheFirst'
        BY <1>1, <2>3, <2>4, <2>5, <3>2 DEF StartedByTheFirst
      <3> QED BY <1>5, <1>6, <3>2, <3>5, <3>7, <3>8, <3>9
    <2> QED BY <2>6, <2>7
  <1>9. CASE Ignored /\ UNCHANGED <<matcher, listenerVars>>
    <2>1. ~connected
      BY <1>9 DEF Ignored, InsideTheRegion, connected, closed
    <2> QED BY <1>7, <1>9, <2>1
  <1>10. CASE /\ ~Ignored
              /\ matcher' = OnPop(matcher)
              /\ Branch("PopRegionEvent", PopMatches(matcher, TRUE), now)
    <2>1. registered /\ ~closed
      BY <1>10 DEF Ignored
    <2>2. CASE ~connected
      <3>1. ~matcher.matching
        BY <2>2 DEF InsideTheRegion
      <3>2. UNCHANGED <<matcher, listenerVars>>
        BY <1>10, <2>1, <3>1 DEF Branch, PopMatches, OnPop
      <3> QED BY <1>7, <2>2, <3>2
    <2> QED BY <1>8, <1>10, <2>1, <2>2
  <1> QED BY <1>9, <1>10 DEF Pop

LEMMA RegisterStep ==
  ASSUME RTInv, Register \/ Unregister \/ Reset
  PROVE  RTInv'
  <1> USE DEF RTInv
  <1>1. UNCHANGED <<clock, regions, finished, matcher, tick, tock, began, ended>>
    BY DEF Register, Unregister, Reset, reset, regionVars, listenerVars, timerVars, flagVars
  <1>2. Pushed' = Pushed /\ RegionsTypeOK'
    BY <1>1 DEF Pushed, RegionsTypeOK, TypeOK
  <1>3. /\ clock \in Nat /\ tick \in Nat /\ since \in Nat /\ since <= clock /\ tick <= clock
        /\ matched_begin \in BOOLEAN /\ matched_end \in BOOLEAN /\ (matched_end => matched_begin)
    BY DEF TypeOK, RegionsTypeOK, TimerListenerTypeOK, InThePast
  <1>4. \A r \in Pushed : r.pushed \in Nat /\ r.pushed <= clock
    BY PushedInThePast DEF TypeOK, InThePast
  <1>5. CASE Register
    <2>1. /\ ~registered /\ registered' /\ registered' \in BOOLEAN
          /\ UNCHANGED <<matched_begin, matched_end>>
          /\ since' = IF closed THEN since ELSE clock
      BY <1>5 DEF Register, flagVars
    <2>2. ~connected /\ ~connected' /\ closed' = closed /\ since' \in Nat /\ since' <= clock
      BY <1>3, <2>1 DEF InsideTheRegion, connected, closed
    <2>3. TypeOK' /\ InThePast'
      BY <1>1, <1>2, <1>3, <2>1, <2>2 DEF TypeOK, TimerListenerTypeOK, InThePast, RegionsInThePast
    <2>4. InsideTheRegion' /\ TimesOneRegion'
      BY <1>1, <2>2 DEF InsideTheRegion, TimesOneRegion
    <2>5. StartedByTheFirst'
      <3>1. CASE closed
        BY <1>1, <1>2, <2>1, <2>2, <3>1 DEF StartedByTheFirst
      <3>2. CASE ~closed
        <4>1. ~matched_begin /\ since' = clock
          BY <1>3, <2>1, <2>2, <3>2 DEF connected, closed
        <4> QED BY <1>2, <1>3, <1>4, <2>1, <4>1 DEF StartedByTheFirst
      <3> QED BY <3>1, <3>2
    <2> QED BY <1>1, <2>3, <2>4, <2>5
  <1>6. CASE Unregister
    <2>1. /\ ~connected /\ ~registered' /\ registered' \in BOOLEAN
          /\ UNCHANGED <<matched_begin, matched_end, since>>
      BY <1>6 DEF Unregister, listenerVars, flagVars
    <2>2. ~connected' /\ closed' = closed
      BY <2>1 DEF connected, closed
    <2>3. TypeOK' /\ InThePast'
      BY <1>1, <1>2, <2>1 DEF TypeOK, TimerListenerTypeOK, InThePast, RegionsInThePast
    <2>4. InsideTheRegion' /\ TimesOneRegion' /\ StartedByTheFirst'
      BY <1>1, <1>2, <2>1, <2>2 DEF InsideTheRegion, TimesOneRegion, StartedByTheFirst
    <2> QED BY <1>1, <2>3, <2>4
  <1>7. CASE Reset
    <2>1. /\ closed /\ registered' = registered /\ since' = clock
          /\ matched_begin' = FALSE /\ matched_end' = FALSE
      BY <1>7 DEF Reset, reset
    <2>2. ~connected /\ ~connected' /\ ~closed'
      BY <2>1 DEF connected, closed
    <2>3. TypeOK' /\ InThePast'
      <3>1. TimerListenerTypeOK'
        BY <1>1, <1>3, <2>1 DEF TypeOK, TimerListenerTypeOK
      <3>2. InThePast'
        BY <1>1, <1>3, <2>1 DEF InThePast, RegionsInThePast
      <3> QED BY <1>1, <1>2, <2>1, <3>1, <3>2 DEF TypeOK
    <2>4. InsideTheRegion' /\ TimesOneRegion'
      BY <1>1, <2>2 DEF InsideTheRegion, TimesOneRegion
    <2>5. StartedByTheFirst'
      BY <1>2, <1>3, <1>4, <2>1 DEF StartedByTheFirst
    <2> QED BY <1>1, <2>3, <2>4, <2>5
  <1> QED BY <1>5, <1>6, <1>7

LEMMA NextRTInv ==
  ASSUME OneThread, TimerType = "Timer<void>"
  PROVE  RTInv /\ [Next]_vars => RTInv'
  <1> SUFFICES ASSUME RTInv, [Next]_vars PROVE RTInv'
    OBVIOUS
  <1>1. ASSUME NEW th \in Thread, NEW name \in Name, Push(th, name) PROVE RTInv'
    BY <1>1, PushStep
  <1>2. ASSUME NEW th \in Thread, Pop(th) PROVE RTInv'
    BY <1>2, PopStep
  <1>3. CASE Register \/ Unregister \/ Reset
    BY <1>3, RegisterStep
  <1>4. CASE UNCHANGED vars
    <2> USE <1>4 DEF vars, regionVars, listenerVars, flagVars, timerVars, RTInv
    <2>1. TypeOK' /\ InThePast'
      BY DEF TypeOK, RegionsTypeOK, TimerListenerTypeOK, InThePast, RegionsInThePast
    <2>2. Pushed' = Pushed /\ connected' = connected /\ closed' = closed
      BY DEF Pushed, connected, closed
    <2>3. InsideTheRegion' /\ TimesOneRegion' /\ StartedByTheFirst'
      BY <2>2 DEF InsideTheRegion, TimesOneRegion, StartedByTheFirst
    <2> QED BY <2>1, <2>3
  <1> QED BY <1>1, <1>2, <1>3, <1>4 DEF Next

\* The members of a region timer stay of their types, and its matcher never
\* counts below the region it has selected (EventRegionMatcher).
THEOREM TypeOKHolds ==
  ASSUME OneThread, TimerType = "Timer<void>"
  PROVE  Spec => []TypeOK
  <1>1. RTInv => TypeOK
    BY DEF RTInv
  <1> QED BY <1>1, InitRTInv, NextRTInv, PTL DEF Spec

\* A closed region timer has timed one region of a wanted name, its own push
\* to its own pop, for all nestings and however often it is registered,
\* unregistered and reset (EventRegionMatcher, TimerListener::operator()).
THEOREM TimesOneRegionHolds ==
  ASSUME OneThread, TimerType = "Timer<void>"
  PROVE  Spec => []TimesOneRegion
  <1>1. RTInv => TimesOneRegion
    BY DEF RTInv
  <1> QED BY <1>1, InitRTInv, NextRTInv, PTL DEF Spec

\* The region it times is the first one it could (EventRegionMatcher,
\* TimerListener::operator() and reset()).
THEOREM SelectsFirstHolds ==
  ASSUME OneThread, TimerType = "Timer<void>"
  PROVE  Spec => []SelectsFirst
  <1>1. RTInv => SelectsFirst
    BY DEF RTInv, StartedByTheFirst, SelectsFirst
  <1> QED BY <1>1, InitRTInv, NextRTInv, PTL DEF Spec

\* A closed region timer has a duration: with the timer that a region listener
\* has by default, both of its events have been recorded (RegionTimerListener,
\* TimerListener::operator(), Timer::is_valid).
THEOREM ClosedIsTimedHolds ==
  ASSUME OneThread, TimerType = "Timer<void>"
  PROVE  Spec => []ClosedIsTimed
  <1>1. RTInv => ClosedIsTimed
    <2> SUFFICES ASSUME RTInv, closed PROVE tick # 0 /\ tock # 0
      BY DEF ClosedIsTimed, is_valid
    <2>1. since < tick /\ since \in Nat /\ tick \in Nat
      BY DEF RTInv, StartedByTheFirst, closed, TypeOK, TimerListenerTypeOK
    <2>2. PICK name \in Wanted : [name |-> name, pushed |-> tick, popped |-> tock] \in finished
      BY DEF RTInv, TimesOneRegion
    <2>3. tick < tock /\ tock \in Nat
      BY <2>2 DEF RTInv, InThePast, RegionsInThePast, TypeOK, TimerListenerTypeOK
    <2> QED BY <2>1, <2>3
  <1> QED BY <1>1, InitRTInv, NextRTInv, PTL DEF Spec
=============================================================================
