------------------------------- MODULE SimClock -------------------------------
(***************************************************************************)
(* The clock of the realtime mode (core/sim_clock.c), transmit of           *)
(* core/link.c and the part of the GUI's main loop that drives them.        *)
(*                                                                         *)
(* A frame on a link with a delay waits in a table of slots; each frame of  *)
(* the main loop scans the table once.  Receiving a packet runs a node's    *)
(* handler inside the scan, and the handler may transmit.  The state of the *)
(* loop is scan: 0 outside sim_clock_tick, else the slot looked at next.    *)
(*                                                                         *)
(* Real time passes between any two steps.  Times are integers: delays are  *)
(* multiples of every speed, so that delay / speed is exact.                *)
(***************************************************************************)
EXTENDS Integers

CONSTANTS
  Links,        \* the links, each with its delay Delay[l]
  Delay,
  Speeds,       \* the speed factors (1 at the start)
  StepMs,       \* what one press of STEP adds
  MaxSlots,     \* SIM_INFLIGHT_MAX
  MaxPackets,   \* bound on the frames transmitted
  MaxTime       \* bound on the real time

ASSUME ClockAssumption ==
  /\ Delay \in [Links -> Nat]
  /\ Speeds \subseteq Nat \ {0} /\ 1 \in Speeds
  /\ \A l \in Links, v \in Speeds : Delay[l] % v = 0
  /\ {StepMs, MaxSlots, MaxPackets} \subseteq Nat \ {0}
  /\ MaxTime \in Nat

Slots == 1 .. MaxSlots
Packets == 1 .. MaxPackets
Empty == [id |-> 0, deliver_at |-> 0]

VARIABLES
  mono,        \* the monotonic clock
  accum,       \* g_paused_accum_ms
  paused,      \* g_paused
  paused_at,   \* g_paused_at_sim_ms
  speed,       \* g_speed
  realtime,    \* g_realtime_enabled: the GUI is open
  slot,        \* g_in_flight
  scan,        \* where sim_clock_tick is, 0 when it is not running
  tick_now,    \* its argument, or that of the last tick
  handling,    \* a node's handler is running inside the scan
  status       \* status[p]: what became of the p-th frame (history)

clock == <<mono, accum, paused, paused_at, speed>>
vars == <<clock, realtime, slot, scan, tick_now, handling, status>>

Init == /\ mono = 0 /\ accum = 0 /\ paused = FALSE /\ paused_at = 0 /\ speed = 1
        /\ realtime = FALSE
        /\ slot = [i \in Slots |-> Empty]
        /\ scan = 0 /\ tick_now = 0 /\ handling = FALSE
        /\ status = [p \in Packets |-> "new"]

\* sim_clock_now_ms
Now == IF paused THEN paused_at ELSE mono - accum

Free == {i \in Slots : slot[i].id = 0}
FirstFree == CHOOSE i \in Free : \A j \in Free : i <= j

-----------------------------------------------------------------------------
RealTime(d) ==
  /\ mono + d <= MaxTime
  /\ mono' = mono + d
  /\ UNCHANGED <<accum, paused, paused_at, speed, realtime, slot, scan, tick_now,
                 handling, status>>

\* Mutant of SetPaused: the time spent paused counts after all.
SetPausedJumps(on) ==
  /\ paused' = on
  /\ paused_at' = IF on /\ ~paused THEN Now ELSE paused_at
  /\ accum' = accum

\* sim_clock_set_paused
SetPaused(on) ==
  /\ paused' = on
  /\ paused_at' = IF on /\ ~paused THEN Now ELSE paused_at
  /\ accum' = IF ~on /\ paused THEN mono - paused_at ELSE accum

\* The handlers of handle_events: PAUSE/PLAY, STEP (which pauses first) and
\* the speed keys and slider.
TogglePause ==
  /\ realtime /\ scan = 0
  /\ SetPaused(~paused)
  /\ UNCHANGED <<mono, speed, realtime, slot, scan, tick_now, handling, status>>

Step ==
  /\ realtime /\ scan = 0
  /\ Now + StepMs <= MaxTime
  /\ paused' = TRUE
  /\ paused_at' = Now + StepMs
  /\ UNCHANGED <<mono, accum, speed, realtime, slot, scan, tick_now, handling, status>>

SetSpeed(v) ==
  /\ realtime /\ scan = 0
  /\ speed' = v
  /\ UNCHANGED <<mono, accum, paused, paused_at, realtime, slot, scan, tick_now,
                 handling, status>>

\* Opening the GUI starts paused; leaving it resumes, goes back to the
\* synchronous mode and empties the table.
OpenGui ==
  /\ ~realtime
  /\ realtime' = TRUE
  /\ SetPaused(TRUE)
  /\ UNCHANGED <<mono, speed, slot, scan, tick_now, handling, status>>

CloseGui ==
  /\ realtime /\ scan = 0
  /\ realtime' = FALSE
  /\ SetPaused(FALSE)
  /\ speed' = 1
  /\ slot' = [i \in Slots |-> Empty]
  /\ status' = [p \in Packets |-> IF \E i \in Slots : slot[i].id = p THEN "cleared" ELSE status[p]]
  /\ UNCHANGED <<mono, scan, tick_now, handling>>

-----------------------------------------------------------------------------
\* transmit, from a command outside the scan or from a handler inside it.
\* Without a delay, in the synchronous mode, or when sim_clock_enqueue finds
\* no free slot, the frame is received at once.
Transmit(l) ==
  LET p == CHOOSE q \in Packets : /\ status[q] = "new"
                                  /\ \A r \in 1 .. q - 1 : status[r] # "new"
      waits == realtime /\ Delay[l] > 0 /\ Free # {}
  IN /\ scan = 0 \/ handling
     /\ \E q \in Packets : status[q] = "new"
     /\ slot' = IF waits
                THEN [slot EXCEPT ![FirstFree] =
                        [id |-> p, deliver_at |-> Now + Delay[l] \div speed]]
                ELSE slot
     /\ status' = [status EXCEPT ![p] = IF waits THEN "flying" ELSE "received"]
     /\ UNCHANGED <<clock, realtime, scan, tick_now, handling>>

BeginTick ==
  /\ realtime /\ scan = 0
  /\ tick_now' = Now
  /\ scan' = 1
  /\ UNCHANGED <<clock, realtime, slot, handling, status>>

IsDue(i) == slot[i].id # 0 /\ slot[i].deliver_at <= tick_now

\* Mutant: the slot stays active while the packet is received.
TickDeliverKeeps ==
  /\ scan > 0 /\ ~handling
  /\ IsDue(scan)
  /\ status' = [status EXCEPT ![slot[scan].id] = "received"]
  /\ handling' = TRUE
  /\ UNCHANGED <<clock, realtime, slot, scan, tick_now>>

\* The slot is freed before the packet is received, so the handler can use
\* it again.
TickDeliver ==
  /\ scan > 0 /\ ~handling
  /\ IsDue(scan)
  /\ slot' = [slot EXCEPT ![scan] = Empty]
  /\ status' = [status EXCEPT ![slot[scan].id] = "received"]
  /\ handling' = TRUE
  /\ UNCHANGED <<clock, realtime, scan, tick_now>>

\* Mutant: the last slot is never looked at.
TickNextShort ==
  /\ scan > 0
  /\ handling \/ ~IsDue(scan)
  /\ handling' = FALSE
  /\ scan' = IF scan + 1 < MaxSlots THEN scan + 1 ELSE 0
  /\ UNCHANGED <<clock, realtime, slot, tick_now, status>>

\* The scan moves on, when the handler returns or the slot has nothing due.
TickNext ==
  /\ scan > 0
  /\ handling \/ ~IsDue(scan)
  /\ handling' = FALSE
  /\ scan' = IF scan < MaxSlots THEN scan + 1 ELSE 0
  /\ UNCHANGED <<clock, realtime, slot, tick_now, status>>

Next ==
  \/ \E d \in 1 .. MaxTime : RealTime(d)
  \/ TogglePause
  \/ Step
  \/ \E v \in Speeds : SetSpeed(v)
  \/ OpenGui
  \/ CloseGui
  \/ \E l \in Links : Transmit(l)
  \/ BeginTick
  \/ TickDeliver
  \/ TickNext

Spec == Init /\ [][Next]_vars

-----------------------------------------------------------------------------
\* The clock, the table and the loop have their types.
TypeOK == /\ {mono, paused_at} \subseteq Nat /\ accum \in Int
          /\ {paused, realtime, handling} \subseteq BOOLEAN
          /\ speed \in Speeds
          /\ slot \in [Slots -> [id : 0 .. MaxPackets, deliver_at : Nat]]
          /\ scan \in 0 .. MaxSlots /\ tick_now \in Nat
          /\ status \in [Packets -> {"new", "flying", "received", "cleared"}]

\* Simulated time never runs backwards and jumps neither on pause nor on
\* resume, however pauses, steps and speeds follow each other.
TimeContinuous ==
  [][/\ Now' >= Now
     /\ paused' # paused /\ mono' = mono => Now' \in {Now, Now + StepMs}]_vars

\* A frame in flight is in exactly one slot, and a slot that is not empty
\* holds a frame in flight: none is lost or received twice, although
\* handlers reuse slots while the table is scanned.  (And the state has its
\* types.)
InFlightOnce ==
  /\ TypeOK
  /\ \A p \in Packets :
       LET at == {i \in Slots : slot[i].id = p}
       IN IF status[p] = "flying" THEN \E i \in at : at = {i} ELSE at = {}

\* Behind the scan, and everywhere when the tick has ended, nothing that was
\* due at the tick's time is still waiting: what handlers put into slots that
\* the scan has passed was not yet due.
TickComplete ==
  \A i \in Slots :
    slot[i].id # 0 /\ (scan = 0 \/ i < scan) => slot[i].deliver_at > tick_now
=============================================================================
