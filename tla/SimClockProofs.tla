---------------------------- MODULE SimClockProofs ----------------------------
(***************************************************************************)
(* The clock and the table of frames in flight, for every set of links and  *)
(* delays, every table size and every interleaving of handlers with the     *)
(* scan of sim_clock_tick.                                                  *)
(***************************************************************************)
EXTENDS SimClock, WellFoundedInduction, TLAPS

\* Which frames the table holds.
OneSlot ==
  \A p \in Packets :
    LET at == {i \in Slots : slot[i].id = p}
    IN IF status[p] = "flying" THEN \E i \in at : at = {i} ELSE at = {}

\* The simulated time is never behind that of the last tick, so whatever is
\* put into the table during a tick is due after it.
NotBehind == Now \in Nat /\ Now >= tick_now

\* The slot under the scan while a handler runs was freed before, so what it
\* holds was put there by the handler.
HandlerSlot ==
  handling => /\ scan > 0
              /\ slot[scan].id # 0 => slot[scan].deliver_at > tick_now

ClockInv == TypeOK /\ OneSlot /\ NotBehind /\ HandlerSlot /\ TickComplete

-----------------------------------------------------------------------------
LEMMA ClockNumbers ==
  /\ StepMs \in Nat \ {0} /\ MaxSlots \in Nat \ {0} /\ MaxPackets \in Nat \ {0}
  /\ MaxTime \in Nat /\ 1 \in Speeds /\ \A v \in Speeds : v \in Nat \ {0}
  /\ \A l \in Links : Delay[l] \in Nat
BY ClockAssumption

\* A frame that waits at all waits at least one unit of simulated time.
LEMMA DelayPositive ==
  ASSUME NEW l \in Links, NEW v \in Speeds, Delay[l] > 0
  PROVE  Delay[l] \div v \in Nat /\ Delay[l] \div v > 0
<1>1. Delay[l] \in Nat /\ v \in Nat /\ v > 0 /\ Delay[l] % v = 0
  BY ClockAssumption
<1>2. ASSUME NEW d \in Nat, NEW w \in Nat, w > 0, d > 0, d % w = 0
      PROVE  d \div w \in Nat /\ d \div w > 0
  BY <1>2
<1>. QED BY <1>1, <1>2

LEMMA LeastExists ==
  ASSUME NEW S \in SUBSET Nat, S # {}
  PROVE  \E m \in S : \A n \in S : m <= n
<1>1. PICK m \in S : \A n \in S : ~(<<n, m>> \in OpToRel(<, Nat))
  BY NatLessThanWellFounded, WFMin, Zenon
<1>2. \A n \in S : ~(n < m)
  BY <1>1 DEF OpToRel
<1>. QED BY <1>2

LEMMA FirstFreeIsFree ==
  ASSUME Free # {}
  PROVE  FirstFree \in Slots /\ slot[FirstFree].id = 0
<1>1. Free \in SUBSET Nat
  BY DEF Free, Slots
<1>2. PICK m \in Free : \A n \in Free : m <= n
  BY <1>1, LeastExists
<1>3. FirstFree \in Free
  BY <1>2 DEF FirstFree
<1>. QED BY <1>3 DEF Free

LEMMA NextPacket ==
  ASSUME \E q \in Packets : status[q] = "new"
  PROVE  LET p == CHOOSE q \in Packets : /\ status[q] = "new"
                                         /\ \A r \in 1 .. q - 1 : status[r] # "new"
         IN p \in Packets /\ status[p] = "new"
<1> DEFINE S == {q \in Packets : status[q] = "new"}
<1>1. S \in SUBSET Nat /\ S # {}
  BY DEF Packets
<1>2. PICK m \in S : \A n \in S : m <= n
  BY <1>1, LeastExists
<1>3. \A r \in 1 .. m - 1 : status[r] # "new"
  BY <1>1, <1>2, ClockNumbers DEF Packets
<1>. QED BY <1>2, <1>3

\* Pausing and resuming do not move the simulated time.
LEMMA PauseKeepsTime ==
  ASSUME TypeOK, NotBehind, NEW on \in BOOLEAN, SetPaused(on), mono' = mono
  PROVE  /\ paused' \in BOOLEAN /\ paused_at' \in Nat /\ accum' \in Int
         /\ Now' = Now
<1>1. mono \in Nat /\ paused_at \in Nat /\ accum \in Int /\ Now \in Nat
  BY DEF TypeOK, NotBehind
<1>. QED BY <1>1 DEF SetPaused, Now

\* A step that leaves the table and the scan alone.
LEMMA TableKept ==
  ASSUME ClockInv, UNCHANGED <<slot, scan, tick_now, handling, status>>
  PROVE  OneSlot' /\ HandlerSlot' /\ TickComplete'
BY DEF ClockInv, OneSlot, HandlerSlot, TickComplete

-----------------------------------------------------------------------------
LEMMA RealTimeStep ==
  ASSUME ClockInv, NEW d \in 1 .. MaxTime, RealTime(d)
  PROVE  ClockInv' /\ Now' >= Now /\ paused' = paused
<1>1. /\ mono \in Nat /\ paused_at \in Nat /\ accum \in Int /\ d \in Nat
      /\ Now \in Nat /\ Now >= tick_now /\ tick_now \in Nat
  BY ClockNumbers DEF ClockInv, TypeOK, NotBehind
<1>2. Now' \in Nat /\ Now' >= Now
  BY <1>1 DEF RealTime, Now
<1>3. TypeOK'
  BY <1>1 DEF ClockInv, RealTime, TypeOK
<1>4. NotBehind'
  BY <1>1, <1>2 DEF RealTime, NotBehind
<1>. QED BY <1>2, <1>3, <1>4, TableKept DEF RealTime, ClockInv

LEMMA TogglePauseStep ==
  ASSUME ClockInv, TogglePause
  PROVE  ClockInv' /\ Now' = Now
<1>1. (~paused) \in BOOLEAN /\ SetPaused(~paused) /\ mono' = mono
  BY DEF TogglePause
<1>2. TypeOK /\ NotBehind
  BY DEF ClockInv
<1>3. paused' \in BOOLEAN /\ paused_at' \in Nat /\ accum' \in Int /\ Now' = Now
  BY <1>1, <1>2, PauseKeepsTime
<1>4. TypeOK'
  BY <1>2, <1>3 DEF TogglePause, TypeOK
<1>5. NotBehind'
  BY <1>2, <1>3 DEF TogglePause, NotBehind
<1>. QED BY <1>3, <1>4, <1>5, TableKept DEF TogglePause, ClockInv

LEMMA StepStep ==
  ASSUME ClockInv, Step
  PROVE  ClockInv' /\ Now' = Now + StepMs
<1>1. Now \in Nat /\ Now >= tick_now /\ tick_now \in Nat /\ StepMs \in Nat
  BY ClockNumbers DEF ClockInv, TypeOK, NotBehind
<1>2. Now' = Now + StepMs /\ paused_at' \in Nat
  BY <1>1 DEF Step, Now
<1>3. TypeOK'
  BY <1>2 DEF ClockInv, Step, TypeOK
<1>4. NotBehind'
  BY <1>1, <1>2 DEF Step, NotBehind
<1>. QED BY <1>2, <1>3, <1>4, TableKept DEF Step, ClockInv

LEMMA SetSpeedStep ==
  ASSUME ClockInv, NEW v \in Speeds, SetSpeed(v)
  PROVE  ClockInv' /\ Now' = Now
<1>1. Now' = Now
  BY DEF SetSpeed, Now
<1>2. TypeOK' /\ NotBehind'
  BY <1>1 DEF ClockInv, SetSpeed, TypeOK, NotBehind
<1>. QED BY <1>1, <1>2, TableKept DEF SetSpeed, ClockInv

LEMMA OpenGuiStep ==
  ASSUME ClockInv, OpenGui
  PROVE  ClockInv' /\ Now' = Now
<1>1. TypeOK /\ NotBehind
  BY DEF ClockInv
<1>2. paused' \in BOOLEAN /\ paused_at' \in Nat /\ accum' \in Int /\ Now' = Now
  BY <1>1, PauseKeepsTime DEF OpenGui
<1>3. TypeOK'
  BY <1>1, <1>2 DEF OpenGui, TypeOK
<1>4. NotBehind'
  BY <1>1, <1>2 DEF OpenGui, NotBehind
<1>. QED BY <1>2, <1>3, <1>4, TableKept DEF OpenGui, ClockInv

LEMMA CloseGuiStep ==
  ASSUME ClockInv, CloseGui
  PROVE  ClockInv' /\ Now' = Now
<1>1. TypeOK /\ NotBehind /\ OneSlot /\ HandlerSlot
  BY DEF ClockInv
<1>2. paused' \in BOOLEAN /\ paused_at' \in Nat /\ accum' \in Int /\ Now' = Now
  BY <1>1, PauseKeepsTime DEF CloseGui
<1>3. Empty \in [id : 0 .. MaxPackets, deliver_at : Nat]
  BY ClockNumbers DEF Empty
<1>4. \A i \in Slots : slot'[i].id = 0
  BY DEF CloseGui, Empty
<1>5. TypeOK'
  BY <1>1, <1>2, <1>3, ClockNumbers DEF CloseGui, TypeOK
<1>6. NotBehind'
  BY <1>1, <1>2 DEF CloseGui, NotBehind
<1>7. OneSlot'
  <2>1. \A p \in Packets : {i \in Slots : slot'[i].id = p} = {}
    BY <1>4 DEF Packets
  <2>2. \A p \in Packets : status'[p] # "flying"
    BY <1>1 DEF CloseGui, OneSlot
  <2>. QED BY <2>1, <2>2 DEF OneSlot
<1>8. HandlerSlot' /\ TickComplete'
  BY <1>1, <1>4 DEF CloseGui, HandlerSlot, TickComplete
<1>. QED BY <1>2, <1>5, <1>6, <1>7, <1>8 DEF ClockInv

LEMMA TransmitStep ==
  ASSUME ClockInv, NEW l \in Links, Transmit(l)
  PROVE  ClockInv' /\ Now' = Now
<1> DEFINE p == CHOOSE q \in Packets : /\ status[q] = "new"
                                       /\ \A r \in 1 .. q - 1 : status[r] # "new"
           waits == realtime /\ Delay[l] > 0 /\ Free # {}
           f == FirstFree
           at == Now + Delay[l] \div speed
           new == [id |-> p, deliver_at |-> at]
<1>1. TypeOK /\ OneSlot /\ NotBehind /\ HandlerSlot /\ TickComplete
  BY DEF ClockInv
<1>2. p \in Packets /\ status[p] = "new"
  BY NextPacket DEF Transmit
<1>3. /\ slot' = IF waits THEN [slot EXCEPT ![f] = new] ELSE slot
      /\ status' = [status EXCEPT ![p] = IF waits THEN "flying" ELSE "received"]
      /\ UNCHANGED <<clock, realtime, scan, tick_now, handling>>
  BY DEF Transmit
<1>4. Now' = Now
  BY <1>3 DEF Now, clock
<1>5. waits => f \in Slots /\ slot[f].id = 0 /\ at \in Nat /\ at > tick_now
  <2>. SUFFICES ASSUME waits PROVE f \in Slots /\ slot[f].id = 0 /\ at \in Nat /\ at > tick_now
    OBVIOUS
  <2>1. f \in Slots /\ slot[f].id = 0
    BY FirstFreeIsFree
  <2> DEFINE q == Delay[l] \div speed
  <2>2. q \in Nat /\ q > 0
    BY <1>1, DelayPositive DEF TypeOK
  <2> HIDE DEF q
  <2>3. Now \in Nat /\ tick_now \in Nat /\ Now >= tick_now
    BY <1>1 DEF NotBehind, TypeOK
  <2>4. Now + q \in Nat /\ Now + q > tick_now
    BY <2>2, <2>3
  <2>. QED BY <2>1, <2>4 DEF q
<1> HIDE DEF p, waits, f, at
<1>6. NotBehind'
  BY <1>1, <1>3, <1>4 DEF NotBehind
<1>7. TypeOK'
  <2>1. waits => new \in [id : 0 .. MaxPackets, deliver_at : Nat]
    BY <1>2, <1>5 DEF Packets
  <2>2. slot' \in [Slots -> [id : 0 .. MaxPackets, deliver_at : Nat]]
    BY <1>1, <1>3, <1>5, <2>1 DEF TypeOK
  <2>3. status' \in [Packets -> {"new", "flying", "received", "cleared"}]
    BY <1>1, <1>2, <1>3 DEF TypeOK
  <2>. QED BY <1>1, <1>3, <2>2, <2>3 DEF TypeOK, clock
<1>8. CASE waits
  <2>1. /\ slot'[f] = new /\ new.id = p /\ new.deliver_at = at
        /\ \A i \in Slots \ {f} : slot'[i] = slot[i]
    BY <1>1, <1>3, <1>5, <1>8 DEF TypeOK
  <2>2. status'[p] = "flying" /\ \A q \in Packets \ {p} : status'[q] = status[q]
    BY <1>1, <1>2, <1>3, <1>8 DEF TypeOK
  <2>3. p # 0 /\ \A q \in Packets : q # 0
    BY <1>2 DEF Packets
  <2> HIDE DEF new
  <2>4. OneSlot'
    <3>1. {i \in Slots : slot'[i].id = p} = {f}
      <4>1. {i \in Slots : slot[i].id = p} = {}
        BY <1>1, <1>2 DEF OneSlot
      <4>. QED BY <1>5, <1>8, <2>1, <4>1
    <3>2. \A q \in Packets \ {p} :
            {i \in Slots : slot'[i].id = q} = {i \in Slots : slot[i].id = q}
      BY <1>5, <1>8, <2>1, <2>3
    <3>3. ASSUME NEW q \in Packets
          PROVE  LET here == {i \in Slots : slot'[i].id = q}
                 IN IF status'[q] = "flying" THEN \E i \in here : here = {i} ELSE here = {}
      <4>1. CASE q = p
        BY <2>2, <3>1, <4>1
      <4>2. CASE q # p
        BY <1>1, <2>2, <3>2, <4>2 DEF OneSlot
      <4>. QED BY <4>1, <4>2
    <3>. QED BY <3>3 DEF OneSlot
  <2>5. HandlerSlot'
    BY <1>1, <1>3, <1>5, <1>8, <2>1 DEF HandlerSlot, TypeOK, Slots
  <2>6. TickComplete'
    BY <1>1, <1>3, <1>5, <1>8, <2>1 DEF TickComplete
  <2>. QED BY <1>4, <1>6, <1>7, <2>4, <2>5, <2>6 DEF ClockInv
<1>9. CASE ~waits
  <2>1. slot' = slot
    BY <1>3, <1>9
  <2>2. status'[p] = "received" /\ \A q \in Packets \ {p} : status'[q] = status[q]
    BY <1>1, <1>2, <1>3, <1>9 DEF TypeOK
  <2>3. OneSlot'
    BY <1>1, <1>2, <2>1, <2>2 DEF OneSlot
  <2>4. HandlerSlot' /\ TickComplete'
    BY <1>1, <1>3, <2>1 DEF HandlerSlot, TickComplete
  <2>. QED BY <1>4, <1>6, <1>7, <2>3, <2>4 DEF ClockInv
<1>. QED BY <1>8, <1>9

LEMMA BeginTickStep ==
  ASSUME ClockInv, BeginTick
  PROVE  ClockInv' /\ Now' = Now
<1>1. TypeOK /\ OneSlot /\ NotBehind /\ HandlerSlot
  BY DEF ClockInv
<1>2. Now' = Now
  BY DEF BeginTick, Now, clock
<1>3. ~handling
  BY <1>1 DEF BeginTick, HandlerSlot
<1>4. TypeOK'
  BY <1>1, ClockNumbers DEF BeginTick, TypeOK, NotBehind, clock
<1>5. NotBehind'
  BY <1>1, <1>2 DEF BeginTick, NotBehind
<1>6. OneSlot' /\ HandlerSlot'
  BY <1>1, <1>3 DEF BeginTick, OneSlot, HandlerSlot
<1>7. TickComplete'
  BY DEF BeginTick, TickComplete, Slots
<1>. QED BY <1>2, <1>4, <1>5, <1>6, <1>7 DEF ClockInv

LEMMA TickDeliverStep ==
  ASSUME ClockInv, TickDeliver
  PROVE  ClockInv' /\ Now' = Now
<1> DEFINE p == slot[scan].id
<1>1. TypeOK /\ OneSlot /\ NotBehind /\ TickComplete
  BY DEF ClockInv
<1>2. Now' = Now
  BY DEF TickDeliver, Now, clock
<1>3. scan \in Slots /\ p \in Packets
  BY <1>1, ClockNumbers DEF TickDeliver, TypeOK, IsDue, Slots, Packets
<1>4. /\ slot'[scan] = Empty /\ Empty.id = 0
      /\ \A i \in Slots \ {scan} : slot'[i] = slot[i]
      /\ status'[p] = "received" /\ \A q \in Packets \ {p} : status'[q] = status[q]
      /\ scan' = scan /\ tick_now' = tick_now
  BY <1>1, <1>3 DEF TickDeliver, TypeOK, Empty
<1>5. TypeOK'
  <2>1. Empty \in [id : 0 .. MaxPackets, deliver_at : Nat]
    BY ClockNumbers DEF Empty
  <2>2. slot' \in [Slots -> [id : 0 .. MaxPackets, deliver_at : Nat]]
    BY <1>1, <2>1 DEF TickDeliver, TypeOK
  <2>3. status' \in [Packets -> {"new", "flying", "received", "cleared"}]
    BY <1>1 DEF TickDeliver, TypeOK
  <2>. QED BY <1>1, <2>2, <2>3 DEF TickDeliver, TypeOK, clock
<1>6. NotBehind'
  BY <1>1, <1>2, <1>4 DEF NotBehind
<1>7. OneSlot'
  <2>1. {i \in Slots : slot[i].id = p} = {scan}
    BY <1>1, <1>3 DEF OneSlot
  <2> HIDE DEF p
  <2>2. {i \in Slots : slot'[i].id = p} = {}
    BY <1>3, <1>4, <2>1 DEF Packets
  <2>3. \A q \in Packets \ {p} :
          {i \in Slots : slot'[i].id = q} = {i \in Slots : slot[i].id = q}
    BY <1>3, <1>4, <2>1 DEF Packets
  <2>4. ASSUME NEW q \in Packets
        PROVE  LET here == {i \in Slots : slot'[i].id = q}
               IN IF status'[q] = "flying" THEN \E i \in here : here = {i} ELSE here = {}
    <3>1. CASE q = p
      BY <1>4, <2>2, <3>1
    <3>2. CASE q # p
      BY <1>1, <1>4, <2>3, <3>2 DEF OneSlot
    <3>. QED BY <3>1, <3>2
  <2>. QED BY <2>4 DEF OneSlot
<1>8. HandlerSlot'
  BY <1>4 DEF TickDeliver, HandlerSlot
<1>9. TickComplete'
  BY <1>1, <1>3, <1>4 DEF TickComplete
<1>. QED BY <1>2, <1>5, <1>6, <1>7, <1>8, <1>9 DEF ClockInv

LEMMA TickNextStep ==
  ASSUME ClockInv, TickNext
  PROVE  ClockInv' /\ Now' = Now
<1>1. TypeOK /\ OneSlot /\ NotBehind /\ HandlerSlot /\ TickComplete
  BY DEF ClockInv
<1>2. Now' = Now
  BY DEF TickNext, Now, clock
<1>3. /\ slot' = slot /\ status' = status /\ tick_now' = tick_now /\ ~handling'
      /\ scan' = IF scan < MaxSlots THEN scan + 1 ELSE 0
  BY DEF TickNext
<1>4. scan \in Slots /\ scan \in Nat
  BY <1>1, ClockNumbers DEF TickNext, TypeOK, Slots
<1>5. TypeOK'
  <2>1. scan' \in 0 .. MaxSlots
    BY <1>3, <1>4, ClockNumbers DEF Slots
  <2>2. {paused', realtime', handling'} \subseteq BOOLEAN
    BY <1>1, Zenon DEF TickNext, TypeOK, clock
  <2>. QED BY <1>1, <2>1, <2>2 DEF TickNext, TypeOK, clock
<1>6. NotBehind' /\ OneSlot' /\ HandlerSlot'
  BY <1>1, <1>2, <1>3 DEF NotBehind, OneSlot, HandlerSlot
<1>7. slot[scan].id # 0 => slot[scan].deliver_at > tick_now
  <2>1. CASE handling
    BY <1>1, <2>1 DEF HandlerSlot
  <2>2. CASE ~IsDue(scan)
    <3>1. slot[scan].deliver_at \in Nat /\ tick_now \in Nat
      BY <1>1, <1>4 DEF TypeOK
    <3>. QED BY <2>2, <3>1 DEF IsDue
  <2>. QED BY <2>1, <2>2 DEF TickNext
<1>8. TickComplete'
  <2>. SUFFICES ASSUME NEW i \in Slots, slot[i].id # 0, scan' = 0 \/ i < scan'
                PROVE  slot[i].deliver_at > tick_now
    BY <1>3 DEF TickComplete
  <2>1. i = scan \/ i < scan
    BY <1>3, <1>4, ClockNumbers DEF Slots
  <2>. QED BY <1>1, <1>4, <1>7, <2>1 DEF TickComplete
<1>. QED BY <1>2, <1>5, <1>6, <1>8 DEF ClockInv

-----------------------------------------------------------------------------
LEMMA ClockInit == Init => ClockInv
<1>. SUFFICES ASSUME Init PROVE ClockInv
  OBVIOUS
<1>1. Empty \in [id : 0 .. MaxPackets, deliver_at : Nat] /\ Empty.id = 0
  BY ClockNumbers DEF Empty
<1>2. TypeOK
  <2>1. {paused, realtime, handling} \subseteq BOOLEAN
    BY Zenon DEF Init
  <2>2. /\ {mono, paused_at} \subseteq Nat /\ accum \in Int /\ speed \in Speeds
        /\ scan \in 0 .. MaxSlots /\ tick_now \in Nat
    BY ClockNumbers DEF Init
  <2>3. /\ slot \in [Slots -> [id : 0 .. MaxPackets, deliver_at : Nat]]
        /\ status \in [Packets -> {"new", "flying", "received", "cleared"}]
    BY <1>1 DEF Init
  <2>. QED BY <2>1, <2>2, <2>3, Zenon DEF TypeOK
<1>3. OneSlot
  <2>1. \A p \in Packets : {i \in Slots : slot[i].id = p} = {}
    BY <1>1 DEF Init, Packets
  <2>. QED BY <2>1 DEF Init, OneSlot
<1>4. NotBehind /\ HandlerSlot /\ TickComplete
  BY <1>1 DEF Init, NotBehind, Now, HandlerSlot, TickComplete
<1>. QED BY <1>2, <1>3, <1>4 DEF ClockInv

\* Every step keeps the invariant and moves the time as TimeContinuous says.
LEMMA ClockStep ==
  ASSUME ClockInv, [Next]_vars
  PROVE  /\ ClockInv'
         /\ Now' >= Now
         /\ paused' # paused /\ mono' = mono => Now' \in {Now, Now + StepMs}
<1>1. Now \in Nat /\ StepMs \in Nat
  BY ClockNumbers DEF ClockInv, NotBehind
<1>2. ASSUME NEW d \in 1 .. MaxTime, RealTime(d)
      PROVE  ClockInv' /\ Now' >= Now /\ paused' = paused
  BY <1>2, RealTimeStep
<1>3. CASE TogglePause
  BY <1>1, <1>3, TogglePauseStep
<1>4. CASE Step
  BY <1>1, <1>4, StepStep
<1>5. ASSUME NEW v \in Speeds, SetSpeed(v)
      PROVE  ClockInv' /\ Now' = Now
  BY <1>5, SetSpeedStep
<1>6. CASE OpenGui
  BY <1>1, <1>6, OpenGuiStep
<1>7. CASE CloseGui
  BY <1>1, <1>7, CloseGuiStep
<1>8. ASSUME NEW l \in Links, Transmit(l)
      PROVE  ClockInv' /\ Now' = Now
  BY <1>8, TransmitStep
<1>9. CASE BeginTick
  BY <1>1, <1>9, BeginTickStep
<1>10. CASE TickDeliver
  BY <1>1, <1>10, TickDeliverStep
<1>11. CASE TickNext
  BY <1>1, <1>11, TickNextStep
<1>12. CASE UNCHANGED vars
  <2>1. ClockInv' <=> ClockInv
    BY <1>12 DEF vars, clock, ClockInv, TypeOK, OneSlot, NotBehind, Now, HandlerSlot, TickComplete
  <2>2. Now' = Now
    BY <1>12 DEF vars, clock, Now
  <2>. QED BY <1>1, <2>1, <2>2
<1>. QED BY <1>1, <1>2, <1>3, <1>4, <1>5, <1>6, <1>7, <1>8, <1>9, <1>10, <1>11, <1>12 DEF Next

LEMMA ClockInvariant == Spec => []ClockInv
<1>1. ClockInv /\ [Next]_vars => ClockInv'
  BY ClockStep
<1>. QED BY <1>1, ClockInit, PTL DEF Spec

\* A frame in flight is in exactly one slot of g_in_flight and an occupied
\* slot holds a frame in flight, while handlers transmit inside the scan.
THEOREM FramesInFlightOnce == Spec => []InFlightOnce
<1>1. ClockInv => InFlightOnce
  BY DEF ClockInv, OneSlot, InFlightOnce
<1>. QED BY <1>1, ClockInvariant, PTL

\* When sim_clock_tick has passed a slot, nothing due at its time is left.
THEOREM TicksComplete == Spec => []TickComplete
<1>1. ClockInv => TickComplete
  BY DEF ClockInv
<1>. QED BY <1>1, ClockInvariant, PTL

\* sim_clock_now_ms never goes back and pausing or resuming does not move it.
THEOREM TimeIsContinuous == Spec => TimeContinuous
<1>1. ClockInv /\ [Next]_vars =>
        [/\ Now' >= Now
         /\ paused' # paused /\ mono' = mono => Now' \in {Now, Now + StepMs}]_vars
  BY ClockStep
<1>. QED BY <1>1, ClockInvariant, PTL DEF Spec, TimeContinuous
=============================================================================
