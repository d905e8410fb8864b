-------------------------- MODULE TimerQueueProofs --------------------------
(***************************************************************************)
(* TimerInv is an invariant of TimerQueue for any timers, delays and       *)
(* length of the year; Armed and RepeatingStays follow.                    *)
(***************************************************************************)
EXTENDS TimerQueue, TLAPS

(* howMuchTimeFromNow never asks for a negative time. *)
LEMMA FromNowNat == ASSUME NEW n \in Int PROVE FromNow(n) \in Nat /\ FromNow(n) >= n
  BY DEF FromNow

(* A tick takes one from the timerfd and from the timer it is armed for    *)
(* alike, whether it is due or not.                                        *)
LEMMA TickCommutes ==
  ASSUME NEW n \in Int
  PROVE  /\ Later(n) \in Int /\ Later(n) <= n
         /\ FromNow(Later(n)) = FromNow(FromNow(n) - 1)
  BY TimersAssumption DEF FromNow, Later, Floor

(* The constructor arms the timerfd for the sentinel. *)
LEMMA InitInv == Init => TimerInv
  <1> SUFFICES ASSUME Init PROVE TimerInv
    OBVIOUS
  <1>1. TypeOK
    <2>1. fd \in Nat
      BY TimersAssumption DEF Init
    <2>2. left \in [AllTimers -> Int]
      BY TimersAssumption DEF Init
    <2>3. interval \in [AllTimers -> OneShot .. MaxDelay]
      BY TimersAssumption DEF Init, OneShot
    <2> QED
      BY <2>1, <2>2, <2>3 DEF Init, TypeOK, AllTimers
  <1>2. Armed
    <2>1. left[Sentinel] = Year /\ FromNow(left[Sentinel]) = Year
      BY TimersAssumption DEF Init, AllTimers, FromNow
    <2>2. fd \in Nat /\ fd <= Year /\ (~fdAbsolute => fd = Year)
      BY TimersAssumption DEF Init
    <2>3. fd # NotArmed
      BY <2>2, TimersAssumption
    <2> QED
      BY <2>1, <2>2, <2>3 DEF Init, Armed
  <1>3. RepeatingStays
    BY DEF Init, RepeatingStays, Regular
  <1> QED
    BY <1>1, <1>2, <1>3, TimersAssumption DEF Init, TimerInv, Regular, AllTimers

(* Arming for the first entry of the new list establishes what Armed says. *)
LEMMA ResetArms ==
  ASSUME TypeOK, ResetTimerFd, timerLists' # {}, timerLists' \subseteq AllTimers,
         left' \in [AllTimers -> Int]
  PROVE  Armed' /\ fdAbsolute' = FALSE /\ fd' \in Nat
  <1>1. PICK t \in timerLists' : /\ \A u \in timerLists' : left'[t] <= left'[u]
                                 /\ fd' = FromNow(left'[t])
    BY DEF ResetTimerFd
  <1>2. fdAbsolute' = FALSE
    BY DEF ResetTimerFd
  <1>3. left'[t] \in Int /\ \A u \in timerLists' : left'[u] \in Int
    BY <1>1
  <1>4. fd' \in Nat
    BY <1>1, <1>3, FromNowNat
  <1>5. \A u \in timerLists' : fd' <= FromNow(left'[u])
    BY <1>1, <1>3 DEF FromNow
  <1>6. fd' # NotArmed
    BY <1>4, TimersAssumption
  <1> QED
    BY <1>1, <1>2, <1>4, <1>5, <1>6 DEF Armed

(* addTimer *)
LEMMA AddTimerInv ==
  ASSUME TimerInv, NEW t \in Timers, NEW delay \in 0 .. MaxDelay,
         NEW every \in OneShot .. MaxDelay, AddTimer(t, delay, every)
  PROVE  TimerInv'
  <1> USE TimersAssumption
  <1>1. TypeOK BY DEF TimerInv
  <1>2. /\ t # Sentinel /\ t \in AllTimers /\ t \notin timerLists
        /\ left' = [left EXCEPT ![t] = delay] /\ delay \in Int
        /\ timerLists' = timerLists \cup {t} /\ timerLists' \subseteq AllTimers
    BY <1>1 DEF AddTimer, TimerInv, AllTimers, TypeOK
  <1>3. /\ left' \in [AllTimers -> Int]
        /\ left'[t] = delay
        /\ \A u \in AllTimers \ {t} : left'[u] = left[u]
    BY <1>1, <1>2 DEF TypeOK
  <1>4. Regular' <=> Regular
    BY <1>2, <1>3 DEF AddTimer, Regular, AllTimers
  <1>5. /\ interval' \in [AllTimers -> OneShot .. MaxDelay]
        /\ interval'[t] = every /\ \A u \in AllTimers \ {t} : interval'[u] = interval[u]
    BY <1>1, <1>2 DEF AddTimer, TypeOK
  <1>6. RepeatingStays'
    BY <1>1, <1>2, <1>3, <1>4, <1>5 DEF AddTimer, TimerInv, RepeatingStays, TypeOK, AllTimers
  <1>7. /\ interval'[Sentinel] = OneShot
        /\ timerLists' \subseteq known' \cup {Sentinel}
        /\ ~stepped' => \A u \in timerLists' \ {Sentinel} : left'[u] <= MaxDelay
        /\ ~stepped' /\ ~YearPasses => left'[Sentinel] = Year
    BY <1>1, <1>2, <1>3, <1>5 DEF AddTimer, TimerInv, TypeOK, AllTimers
  <1>8. CASE \A u \in timerLists : delay < left[u]
    <2>1. ResetTimerFd
      BY <1>8 DEF AddTimer
    <2>2. Armed' /\ fdAbsolute' = FALSE /\ fd' \in Nat
      BY <2>1, <1>1, <1>2, <1>3, ResetArms
    <2>3. TypeOK'
      BY <1>1, <1>2, <1>3, <1>5, <2>2 DEF AddTimer, TypeOK
    <2> QED
      BY <2>2, <2>3, <1>6, <1>7 DEF TimerInv
  <1>9. CASE ~ \A u \in timerLists : delay < left[u]
    <2>1. fd' = fd /\ fdAbsolute' = fdAbsolute
      BY <1>9 DEF AddTimer
    <2>2. PICK u \in timerLists : ~(delay < left[u])
      BY <1>9
    <2>3. TypeOK'
      BY <1>1, <1>2, <1>3, <1>5, <2>1 DEF AddTimer, TypeOK
    <2>4. u \in AllTimers /\ left[u] \in Int /\ left[u] <= delay
      BY <2>2, <1>1 DEF TypeOK
    <2>5. Armed'
      <3> SUFFICES ASSUME Regular
                   PROVE  /\ fd # NotArmed
                          /\ \A v \in timerLists' : fd <= FromNow(left'[v])
                          /\ ~fdAbsolute => \E v \in timerLists' : fd = FromNow(left'[v])
        BY <1>4, <2>1 DEF Armed
      <3>1. fd # NotArmed /\ fd \in Nat /\ \A v \in timerLists : fd <= FromNow(left[v])
        BY <1>1 DEF TimerInv, Armed, TypeOK
      <3>2. fd <= FromNow(delay)
        BY <3>1, <2>2, <2>4 DEF FromNow
      <3>3. \A v \in timerLists : v # t /\ v \in AllTimers
        BY <1>1, <1>2 DEF TypeOK
      <3> QED
        BY <3>1, <3>2, <3>3, <1>2, <1>3 DEF TimerInv, Armed
    <2>6. ASSUME Regular, fdAbsolute
          PROVE  /\ fd >= left'[Sentinel] - 1
                 /\ ~YearPasses => timerLists' = {Sentinel}
      <3>1. YearPasses
        BY <2>2, <2>4, <2>6 DEF TimerInv, Regular
      <3> QED
        BY <3>1, <2>6, <1>2, <1>3 DEF TimerInv, AllTimers
    <2> QED
      BY <2>1, <2>3, <2>5, <2>6, <1>4, <1>6, <1>7 DEF TimerInv
  <1> QED
    BY <1>8, <1>9

(* eventRead: with the clocks in step, it finds an expired timer and a     *)
(* timer that is not, and so arms the timerfd again.                       *)
LEMMA EventReadInv == ASSUME TimerInv, EventRead PROVE TimerInv'
  <1> USE TimersAssumption
  <1>1. TypeOK BY DEF TimerInv
  <1>2. Expired \subseteq timerLists /\ \A t \in Expired : left[t] <= 0
    BY DEF Expired
  <1>3. CASE Expired = {}
    <2>1. /\ fd' = NotArmed /\ fd = 0
          /\ UNCHANGED <<timerLists, left, fdAbsolute, threads>>
      BY <1>3 DEF EventRead
    <2>2. ASSUME Regular PROVE FALSE
      <3>1. Sentinel \in timerLists /\ ~(left[Sentinel] <= 0) /\ Sentinel \in AllTimers
        BY <2>2, <1>1 DEF TimerInv, RepeatingStays, Regular, AllTimers, TypeOK
      <3>2. \A t \in timerLists : ~(left[t] <= 0)
        BY <1>3, <3>1 DEF Expired
      <3>3. ~fdAbsolute
        BY <2>1, <2>2, <1>1, <3>1 DEF TimerInv, Regular, TypeOK
      <3>4. PICK t \in timerLists : 0 = FromNow(left[t])
        BY <3>3, <2>1, <2>2 DEF TimerInv, Armed
      <3>5. left[t] \in Int
        BY <3>4, <1>1 DEF TypeOK
      <3> QED
        BY <3>2, <3>4, <3>5 DEF FromNow
    <2>3. ~Regular'
      BY <2>1, <2>2 DEF EventRead, Regular
    <2> QED
      BY <2>1, <2>3, <1>1 DEF EventRead, TimerInv, TypeOK, Armed, RepeatingStays
  <1>4. CASE Expired # {}
    <2>1. /\ ResetExpired(Expired) /\ threads' = threads \cup Expired
          /\ UNCHANGED <<interval, cancels, freed, known, stepped, crash>>
      BY <1>4 DEF EventRead
    <2>2. /\ timerLists' = timerLists \ {t \in Expired : interval[t] = OneShot}
          /\ ResetTimerFd
          /\ left' = [t \in AllTimers |-> IF t \in Expired /\ interval[t] > 0
                                         THEN interval[t] ELSE left[t]]
      BY <2>1 DEF ResetExpired, RestartTimer
    <2>3. left' \in [AllTimers -> Int]
      BY <2>2, <1>1 DEF TypeOK
    <2>4. timerLists' \subseteq AllTimers /\ timerLists' \subseteq timerLists
      BY <2>2, <1>1 DEF TypeOK
    <2>5. timerLists' # {}
      BY <1>4, <2>2 DEF Expired
    <2>6. Armed' /\ fdAbsolute' = FALSE /\ fd' \in Nat
      BY <1>1, <2>2, <2>3, <2>4, <2>5, ResetArms
    <2>7. TypeOK'
      BY <1>1, <1>2, <2>1, <2>3, <2>4, <2>6 DEF TypeOK
    <2>8. left'[Sentinel] = left[Sentinel]
      BY <2>2 DEF TimerInv, AllTimers, OneShot
    <2>9. RepeatingStays'
      <3>1. ASSUME NEW t \in known' \ freed', interval'[t] # OneShot
            PROVE  t \in timerLists'
        BY <3>1, <2>1, <2>2 DEF TimerInv, RepeatingStays
      <3>2. Regular' => Sentinel \in timerLists'
        BY <2>1, <2>2, <2>8, <1>2, <1>1 DEF TimerInv, RepeatingStays, Regular, TypeOK, AllTimers
      <3> QED
        BY <3>1, <3>2 DEF RepeatingStays
    <2>10. ~stepped' => \A t \in timerLists' \ {Sentinel} : left'[t] <= MaxDelay
      BY <1>1, <2>1, <2>2, <2>4 DEF TimerInv, TypeOK
    <2> QED
      BY <2>1, <2>4, <2>6, <2>7, <2>8, <2>9, <2>10 DEF TimerInv
  <1> QED
    BY <1>3, <1>4

(* delTimerInLoop *)
LEMMA DelTimerInv ==
  ASSUME TimerInv, NEW t \in Timers, DelTimerInLoop(t)
  PROVE  TimerInv'
  <1> USE TimersAssumption
  <1>1. TypeOK BY DEF TimerInv
  <1>2. t # Sentinel
    OBVIOUS
  <1>3. CASE t \notin timerLists
    BY <1>1, <1>3 DEF DelTimerInLoop, TimerInv, TypeOK, Armed, RepeatingStays, Regular
  <1>4. CASE t \in timerLists
    <2>1. /\ timerLists' = timerLists \ {t} /\ freed' = freed \cup {t}
          /\ left' = left /\ ResetTimerFd /\ cancels' = cancels \ {t}
          /\ UNCHANGED <<interval, threads, known, stepped, crash>>
      BY <1>4 DEF DelTimerInLoop
    <2>2. Regular' <=> Regular
      BY <2>1 DEF Regular
    <2>3. RepeatingStays'
      BY <2>1, <2>2, <1>2 DEF TimerInv, RepeatingStays
    <2>4. CASE timerLists' = {}
      <3>1. ~Regular'
        BY <2>3, <2>4 DEF RepeatingStays
      <3>2. UNCHANGED <<fd, fdAbsolute>>
        BY <2>1, <2>4 DEF ResetTimerFd
      <3>3. TypeOK'
        BY <1>1, <2>1, <3>2 DEF TypeOK
      <3> QED
        BY <1>1, <2>1, <2>3, <3>1, <3>3 DEF TimerInv, Armed
    <2>5. CASE timerLists' # {}
      <3>1. Armed' /\ fdAbsolute' = FALSE /\ fd' \in Nat
        BY <1>1, <2>1, <2>5, ResetArms DEF TypeOK
      <3>2. TypeOK'
        BY <1>1, <2>1, <3>1 DEF TypeOK
      <3> QED
        BY <1>1, <2>1, <2>3, <3>1, <3>2 DEF TimerInv
    <2> QED
      BY <2>4, <2>5
  <1> QED
    BY <1>3, <1>4

(* The clock *)
LEMMA TickInv == ASSUME TimerInv, Tick PROVE TimerInv'
  <1> USE TimersAssumption
  <1>1. TypeOK BY DEF TimerInv
  <1>2. UNCHANGED <<timerLists, interval, fdAbsolute, threads, cancels, freed, known, stepped,
                    crash>>
    BY DEF Tick
  <1>3. /\ left' \in [AllTimers -> Int]
        /\ \A t \in AllTimers : left'[t] <= left[t]
        /\ \A t \in Ticking : left'[t] = Later(left[t])
        /\ \A t \in AllTimers \ Ticking : left'[t] = left[t]
    <2>1. left' = [t \in AllTimers |-> IF t \in Ticking THEN Later(left[t]) ELSE left[t]]
      BY DEF Tick
    <2>2. \A t \in AllTimers : left[t] \in Int /\ Later(left[t]) \in Int
                               /\ Later(left[t]) <= left[t]
      BY <1>1, TickCommutes DEF TypeOK
    <2>3. Ticking \subseteq AllTimers
      BY <1>1 DEF Ticking, TypeOK
    <2> QED
      BY <2>1, <2>2, <2>3
  <1>4. fd' \in Nat \cup {NotArmed}
    BY <1>1, FromNowNat DEF Tick, TypeOK
  <1>5. TypeOK'
    BY <1>1, <1>2, <1>3, <1>4 DEF TypeOK
  <1>6. Regular' => Regular
    BY <1>1, <1>2, <1>3 DEF Regular, TypeOK, AllTimers
  <1>7. RepeatingStays'
    BY <1>2, <1>6 DEF TimerInv, RepeatingStays
  <1>8. ~stepped' => \A t \in timerLists' \ {Sentinel} : left'[t] <= MaxDelay
    BY <1>1, <1>2, <1>3 DEF TimerInv, TypeOK
  <1>9. ~stepped' /\ ~YearPasses => left'[Sentinel] = Year
    BY <1>2, <1>3 DEF TimerInv, Ticking, AllTimers
  <1>10. ASSUME Regular'
         PROVE  /\ Armed'
                /\ fdAbsolute' => /\ fd' >= left'[Sentinel] - 1
                                  /\ ~YearPasses => timerLists' = {Sentinel}
    <2>1. /\ Regular /\ Sentinel \in timerLists /\ fd \in Nat /\ fd # NotArmed
          /\ left[Sentinel] \in Int /\ left'[Sentinel] \in Int
      BY <1>1, <1>3, <1>6, <1>10 DEF TimerInv, RepeatingStays, Armed, TypeOK, AllTimers
    <2>2. CASE Ticking = {}
      <3>1. fd' = fd /\ \A t \in timerLists : left'[t] = left[t]
        BY <1>1, <1>3, <2>1, <2>2 DEF Tick, TypeOK
      <3> QED
        BY <1>2, <2>1, <3>1 DEF TimerInv, Armed
    <2>3. CASE Ticking # {}
      <3>1. fd' = FromNow(fd - 1) /\ fd' \in Nat
        BY <2>1, <2>3, FromNowNat DEF Tick
      <3>2. \A t \in Ticking : /\ left[t] \in Int /\ t \in timerLists
                               /\ FromNow(left'[t]) = FromNow(FromNow(left[t]) - 1)
        BY <1>1, <1>3, TickCommutes DEF Ticking, TypeOK
      <3>3. \A t \in Ticking : fd' <= FromNow(left'[t])
        <4> SUFFICES ASSUME NEW t \in Ticking PROVE fd' <= FromNow(left'[t])
          OBVIOUS
        <4>1. fd <= FromNow(left[t]) /\ FromNow(left[t]) \in Nat
          BY <2>1, <3>2, FromNowNat DEF TimerInv, Armed
        <4> QED
          BY <4>1, <2>1, <3>1, <3>2 DEF FromNow
      <3>4. CASE YearPasses
        <4>1. Ticking = timerLists
          BY <3>4 DEF Ticking
        <4>2. ~fdAbsolute => \E t \in timerLists : fd' = FromNow(left'[t])
          BY <2>1, <3>1, <3>2, <4>1 DEF TimerInv, Armed
        <4>3. fdAbsolute => fd' >= left'[Sentinel] - 1
          <5>1. fdAbsolute => fd >= left[Sentinel] - 1
            BY <2>1 DEF TimerInv
          <5>2. left'[Sentinel] = Later(left[Sentinel]) /\ left[Sentinel] > 1
            BY <2>1, <1>3, <4>1 DEF Regular
          <5>3. left'[Sentinel] = left[Sentinel] - 1
            BY <2>1, <5>2 DEF Later, Floor
          <5> QED
            BY <2>1, <3>1, <5>1, <5>3 DEF FromNow
        <4>4. fd' # NotArmed
          BY <3>1
        <4> QED
          BY <1>2, <3>3, <3>4, <4>1, <4>2, <4>3, <4>4 DEF Armed
      <3>5. CASE ~YearPasses
        <4>1. Ticking = timerLists \ {Sentinel}
          BY <3>5 DEF Ticking
        <4>2. ~fdAbsolute
          BY <2>1, <2>3, <3>5, <4>1 DEF TimerInv
        <4>3. left[Sentinel] = Year /\ left'[Sentinel] = Year /\ FromNow(Year) = Year
          BY <1>2, <1>9, <2>1, <3>5 DEF TimerInv, Regular, FromNow
        <4>4. PICK u \in Ticking : TRUE
          BY <2>3
        <4>5. left[u] <= MaxDelay /\ FromNow(left[u]) <= MaxDelay
          BY <4>1, <4>4, <3>2, <2>1 DEF TimerInv, Regular, FromNow
        <4>6. fd <= MaxDelay
          BY <4>4, <4>5, <3>2, <2>1, FromNowNat DEF TimerInv, Armed
        <4>7. PICK t \in timerLists : fd = FromNow(left[t])
          BY <2>1, <4>2 DEF TimerInv, Armed
        <4>8. t \in Ticking
          BY <4>1, <4>3, <4>6, <4>7
        <4>9. fd' = FromNow(left'[t])
          BY <3>1, <3>2, <4>7, <4>8
        <4>10. fd' <= FromNow(left'[Sentinel])
          BY <4>3, <4>6, <2>1, <3>1 DEF FromNow
        <4>11. fd' # NotArmed
          BY <3>1
        <4> QED
          BY <1>2, <3>3, <4>1, <4>2, <4>7, <4>9, <4>10, <4>11 DEF Armed
      <3> QED
        BY <3>4, <3>5
    <2> QED
      BY <2>2, <2>3
  <1> QED
    BY <1>2, <1>5, <1>7, <1>8, <1>9, <1>10 DEF TimerInv, Armed

(* The other steps: a timer thread runs, a cancellation is queued, a timer *)
(* is refused, the wall clock is set.                                      *)
LEMMA OtherInv ==
  ASSUME TimerInv,
         \/ \E t \in AllTimers : AsyncRunProc(t)
         \/ \E t \in Timers : DelTimer(t) \/ AddInvalid(t)
         \/ \E n \in 1 .. MaxStep : SetBack(n)
         \/ UNCHANGED vars
  PROVE  TimerInv'
  <1> USE TimersAssumption
  <1>1. TypeOK BY DEF TimerInv
  <1>2. ASSUME NEW t \in AllTimers, AsyncRunProc(t) PROVE TimerInv'
    BY <1>1, <1>2 DEF AsyncRunProc, TimerInv, TypeOK, Armed, RepeatingStays, Regular
  <1>3. ASSUME NEW t \in Timers, DelTimer(t) PROVE TimerInv'
    BY <1>1, <1>3 DEF DelTimer, TimerInv, TypeOK, Armed, RepeatingStays, Regular
  <1>4. ASSUME NEW n \in 1 .. MaxStep, SetBack(n) PROVE TimerInv'
    <2>1. stepped' = TRUE /\ ~Regular'
      BY <1>4 DEF SetBack, Regular
    <2>2. left' \in [AllTimers -> Int] /\ fd' \in Nat \cup {NotArmed}
      BY <1>1, <1>4 DEF SetBack, TypeOK
    <2> QED
      BY <1>1, <1>4, <2>1, <2>2 DEF SetBack, TimerInv, TypeOK, Armed, RepeatingStays
  <1>5. ASSUME NEW t \in Timers, AddInvalid(t) PROVE TimerInv'
    BY <1>1, <1>5 DEF AddInvalid, TimerInv, TypeOK, Armed, RepeatingStays, Regular
  <1>6. CASE UNCHANGED vars
    BY <1>1, <1>6 DEF vars, TimerInv, TypeOK, Armed, RepeatingStays, Regular
  <1> QED
    BY <1>2, <1>3, <1>4, <1>5, <1>6

(* TimerQueue.cpp keeps TimerInv through every addTimer, delTimer and      *)
(* eventRead, for any timers and delays.                                   *)
THEOREM TimerQueueInvariant == Spec => []TimerInv
  <1>1. Init => TimerInv
    BY InitInv
  <1>2. TimerInv /\ [Next]_vars => TimerInv'
    BY AddTimerInv, EventReadInv, DelTimerInv, TickInv, OtherInv DEF Next
  <1> QED
    BY <1>1, <1>2, PTL DEF Spec

(* While the clock is not set and the year is not over, the timerfd is     *)
(* always armed for the timer that expires first.                          *)
THEOREM TimerfdArmed == Spec => []Armed
  <1>1. TimerInv => Armed
    BY DEF TimerInv
  <1> QED
    BY <1>1, TimerQueueInvariant, PTL

(* A repeating timer stays in the list until it is cancelled. *)
THEOREM RepeatingTimersStay == Spec => []RepeatingStays
  <1>1. TimerInv => RepeatingStays
    BY DEF TimerInv
  <1> QED
    BY <1>1, TimerQueueInvariant, PTL
=============================================================================
