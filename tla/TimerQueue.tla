----------------------------- MODULE TimerQueue -----------------------------
(***************************************************************************)
(* base/TimerQueue.cpp and base/Timer.cpp: the timers of one Reactor.      *)
(*                                                                         *)
(* timerLists_ is ordered by wall clock time; one timerfd is armed for its *)
(* first entry.  When it fires, eventRead takes the expired timers out,    *)
(* starts a detached thread for each, puts the repeating ones back and     *)
(* arms the timerfd again.  The constructor puts in a sentinel that        *)
(* expires in a year, so that the list is never empty.                     *)
(*                                                                         *)
(* Time is kept as what is left: left[t] ticks until t expires, fd ticks   *)
(* until the timerfd fires.  The wall clock may be set; a timerfd armed    *)
(* relatively (every time but the first of the process) does not notice.   *)
(*                                                                         *)
(* addTimer takes no lock and may be called in any thread; the data race   *)
(* on the std::set is not modelled: each addTimer is one step, as it is    *)
(* when the loop's thread calls it.                                        *)
(***************************************************************************)
EXTENDS Integers

CONSTANTS Timers, Sentinel, NotArmed,
          MaxDelay,    \* bound: ticks until a new timer expires, or its interval_
          Year,        \* ticks until the sentinel expires
          YearPasses,  \* FALSE: the process ends long before a year is over
          MaxStep      \* bound: ticks the wall clock is set by, once

ASSUME TimersAssumption == /\ Sentinel \notin Timers
                           /\ NotArmed \notin Nat
                           /\ MaxDelay \in Nat \ {0} /\ MaxStep \in Nat
                           /\ Year \in Nat /\ Year > MaxDelay + MaxStep + 1
                           /\ YearPasses \in BOOLEAN

VARIABLES timerLists,  \* timerLists_: the timers waiting to expire
          left,        \* ticks until each one expires, by the wall clock
          interval,    \* interval_ of a timer with brepeat_, OneShot for the others
          fd,          \* ticks until timerfd_ fires, or NotArmed
          fdAbsolute,  \* timerfd_ was armed with TFD_TIMER_ABSTIME
          threads,     \* timers with a thread started and not yet in its callback
          cancels,     \* delTimerInLoop calls queued on the loop
          freed,       \* Timer objects deleted
          known,       \* timers handed to addTimer
          stepped,     \* the wall clock was set
          crash        \* "no"; "assert": defaultTimerCallback ran; "freed": a
                       \* deleted Timer was used

vars == <<timerLists, left, interval, fd, fdAbsolute, threads, cancels, freed, known,
          stepped, crash>>

AllTimers == Timers \cup {Sentinel}

OneShot == -1

(* What is left is not counted below this: the timer has expired and stays *)
(* so even if the clock is set back.                                       *)
Floor == -MaxStep

TypeOK == /\ timerLists \subseteq AllTimers
          /\ left \in [AllTimers -> Int]
          /\ interval \in [AllTimers -> OneShot .. MaxDelay]
          /\ fd \in Nat \cup {NotArmed}
          /\ fdAbsolute \in BOOLEAN /\ stepped \in BOOLEAN
          /\ threads \subseteq AllTimers /\ cancels \subseteq Timers
          /\ freed \subseteq Timers /\ known \subseteq Timers
          /\ crash \in {"no", "assert", "freed"}

(* howMuchTimeFromNow: a timer that is due already fires at once *)
FromNow(n) == IF n < 0 THEN 0 ELSE n

(* resetTimerFd for the first entry of the list, if there is one; after    *)
(* the first call in the process it is relative.                           *)
ResetTimerFd ==
  \/ /\ timerLists' = {}
     /\ UNCHANGED <<fd, fdAbsolute>>
  \/ /\ \E t \in timerLists' :
          /\ \A u \in timerLists' : left'[t] <= left'[u]
          /\ fd' = FromNow(left'[t])
     /\ fdAbsolute' = FALSE

(* The constructor.  Its resetTimerFd is absolute, and cut to a whole      *)
(* second, in the first TimerQueue of the process only.                    *)
Init == /\ timerLists = {Sentinel}
        /\ left = [t \in AllTimers |-> IF t = Sentinel THEN Year ELSE 0]
        /\ interval = [t \in AllTimers |-> OneShot]
        /\ fdAbsolute \in BOOLEAN
        /\ fd \in IF fdAbsolute THEN {Year, Year - 1} ELSE {Year}
        /\ threads = {} /\ cancels = {} /\ freed = {} /\ known = {}
        /\ stepped = FALSE /\ crash = "no"

-----------------------------------------------------------------------------
(* Mutant: the timerfd stays armed for the timer that was first before. *)
AddTimerKeepsFd(t, delay, every) ==
  /\ crash = "no" /\ t \notin known
  /\ known' = known \cup {t}
  /\ timerLists' = timerLists \cup {t}
  /\ left' = [left EXCEPT ![t] = delay]
  /\ interval' = [interval EXCEPT ![t] = every]
  /\ UNCHANGED <<fd, fdAbsolute, threads, cancels, freed, stepped, crash>>

(* addTimer (runAt, runDelay, runEvery), with insert's answer *)
AddTimer(t, delay, every) ==
  /\ crash = "no" /\ t \notin known
  /\ known' = known \cup {t}
  /\ timerLists' = timerLists \cup {t}
  /\ left' = [left EXCEPT ![t] = delay]
  /\ interval' = [interval EXCEPT ![t] = every]
  /\ IF \A u \in timerLists : delay < left[u]
     THEN ResetTimerFd
     ELSE UNCHANGED <<fd, fdAbsolute>>
  /\ UNCHANGED <<threads, cancels, freed, stepped, crash>>

(* addTimer of a timestamp that is not valid(): insert deletes the Timer,  *)
(* and addTimer then asks the deleted Timer for its index.                 *)
AddInvalid(t) ==
  /\ crash = "no" /\ t \notin known
  /\ known' = known \cup {t}
  /\ freed' = freed \cup {t}
  /\ crash' \in {"no", "freed"}
  /\ UNCHANGED <<timerLists, left, interval, fd, fdAbsolute, threads, cancels, stepped>>

(* getExpireTimer: lower_bound of (now, highest address); nothing at all   *)
(* if that is the end of the list.                                         *)
Expired ==
  LET past == {t \in timerLists : left[t] <= 0}
  IN  IF past = timerLists THEN {} ELSE past

(* restartTimer: a repeating timer expires an interval from now, which     *)
(* compute_ decides if there is one; with neither it stays due for ever.   *)
RestartTimer(expired) ==
  left' = [t \in AllTimers |-> IF t \in expired /\ interval[t] > 0 THEN interval[t] ELSE left[t]]

(* Mutant: repeating timers are not put back. *)
ResetExpiredDrops(expired) ==
  /\ timerLists' = timerLists \ expired
  /\ RestartTimer(expired)
  /\ ResetTimerFd

(* resetExpired: the expired timers are out of the list; those that repeat *)
(* are put back, the others are forgotten (and never deleted).             *)
ResetExpired(expired) ==
  /\ timerLists' = timerLists \ {t \in expired : interval[t] = OneShot}
  /\ RestartTimer(expired)
  /\ ResetTimerFd

(* eventRead; nothing is armed again if no timer is given back *)
EventRead ==
  /\ crash = "no" /\ fd = 0
  /\ \/ /\ Expired = {}
        /\ fd' = NotArmed
        /\ UNCHANGED <<timerLists, left, fdAbsolute, threads>>
     \/ /\ Expired # {}
        /\ threads' = threads \cup Expired
        /\ ResetExpired(Expired)
  /\ UNCHANGED <<interval, cancels, freed, known, stepped, crash>>

(* asyncRunProc, in the thread Timer::run started *)
AsyncRunProc(t) ==
  /\ crash = "no" /\ t \in threads
  /\ threads' = threads \ {t}
  /\ crash' = CASE t \in freed -> "freed"
                [] t = Sentinel -> "assert"
                [] OTHER -> "no"
  /\ UNCHANGED <<timerLists, left, interval, fd, fdAbsolute, cancels, freed, known, stepped>>

(* cancelTimer and delTimer: runInLoop(delTimerInLoop) *)
DelTimer(t) ==
  /\ crash = "no" /\ t \in known \ cancels
  /\ cancels' = cancels \cup {t}
  /\ UNCHANGED <<timerLists, left, interval, fd, fdAbsolute, threads, freed, known, stepped,
                 crash>>

(* Mutant: whatever it finds, the timerfd is disarmed with the timer. *)
DelTimerInLoopDisarms(t) ==
  /\ crash = "no" /\ t \in cancels
  /\ cancels' = cancels \ {t}
  /\ timerLists' = timerLists \ {t}
  /\ freed' = freed \cup ({t} \cap timerLists)
  /\ fd' = NotArmed
  /\ UNCHANGED <<left, interval, fdAbsolute, threads, known, stepped, crash>>

DelTimerInLoop(t) ==
  /\ crash = "no" /\ t \in cancels
  /\ cancels' = cancels \ {t}
  /\ \/ /\ t \in timerLists
        /\ timerLists' = timerLists \ {t}
        /\ freed' = freed \cup {t}
        /\ left' = left
        /\ ResetTimerFd
     \/ /\ t \notin timerLists
        /\ UNCHANGED <<timerLists, freed, left, fd, fdAbsolute>>
  /\ UNCHANGED <<interval, threads, known, stepped, crash>>

-----------------------------------------------------------------------------
(* The clocks.                                                             *)

Later(n) == IF n = Floor THEN n ELSE n - 1

(* The sentinel does not come closer in a process that ends within a year. *)
Ticking == IF YearPasses THEN timerLists ELSE timerLists \ {Sentinel}

Tick ==
  /\ crash = "no"
  /\ left' = [t \in AllTimers |-> IF t \in Ticking THEN Later(left[t]) ELSE left[t]]
  /\ fd' = IF fd = NotArmed \/ Ticking = {} THEN fd ELSE FromNow(fd - 1)
  /\ UNCHANGED <<timerLists, interval, fdAbsolute, threads, cancels, freed, known, stepped,
                 crash>>

(* The wall clock is set back by n; only an absolute timerfd follows it.   *)
SetBack(n) ==
  /\ crash = "no" /\ ~stepped
  /\ stepped' = TRUE
  /\ left' = [t \in AllTimers |-> IF t \in timerLists THEN left[t] + n ELSE left[t]]
  /\ fd' = IF fdAbsolute /\ fd # NotArmed THEN fd + n ELSE fd
  /\ UNCHANGED <<timerLists, interval, fdAbsolute, threads, cancels, freed, known, crash>>

Next == \/ \E t \in Timers, delay \in 0 .. MaxDelay, every \in OneShot .. MaxDelay :
             AddTimer(t, delay, every)
        \/ \E t \in Timers : AddInvalid(t)
        \/ EventRead
        \/ \E t \in AllTimers : AsyncRunProc(t)
        \/ \E t \in Timers : DelTimer(t) \/ DelTimerInLoop(t)
        \/ Tick
        \/ \E n \in 1 .. MaxStep : SetBack(n)

Spec == Init /\ [][Next]_vars

(* Time passes, the loop runs, and the kernel runs the threads started.    *)
FairSpec == /\ Spec
            /\ WF_vars(Tick) /\ WF_vars(EventRead)
            /\ \A t \in Timers : WF_vars(DelTimerInLoop(t)) /\ WF_vars(AsyncRunProc(t))

-----------------------------------------------------------------------------
(* Properties.                                                             *)

(* The clocks agree and the sentinel is ahead. *)
Regular == ~stepped /\ left[Sentinel] > 1

(* As long as the wall clock was not set and the year is not over, the     *)
(* timerfd is armed for the timer that expires first, whatever was added,  *)
(* cancelled and repeated before: no timer waits behind a disarmed         *)
(* timerfd, and it never fires to find nothing.  (addTimer, resetExpired,  *)
(* delTimerInLoop.)                                                        *)
Armed ==
  Regular =>
    /\ fd # NotArmed
    /\ \A t \in timerLists : fd <= FromNow(left[t])
    /\ ~fdAbsolute => \E t \in timerLists : fd = FromNow(left[t])

(* A repeating timer that was not cancelled is in the list; a list whose   *)
(* timers all expire together still has the sentinel.                      *)
RepeatingStays ==
  /\ \A t \in known \ freed : interval[t] # OneShot => t \in timerLists
  /\ Regular => Sentinel \in timerLists

(* The inductive invariant.  Before the clock is set, no timer waits for   *)
(* longer than MaxDelay; a timerfd still armed absolutely by the           *)
(* constructor fires at most a tick before the sentinel expires, with      *)
(* nothing in front of it in the list.                                     *)
TimerInv ==
  /\ TypeOK /\ Armed /\ RepeatingStays
  /\ interval[Sentinel] = OneShot
  /\ timerLists \subseteq known \cup {Sentinel}
  /\ ~stepped => \A t \in timerLists \ {Sentinel} : left[t] <= MaxDelay
  /\ ~stepped /\ ~YearPasses => left[Sentinel] = Year
  /\ Regular /\ fdAbsolute => /\ fd >= left[Sentinel] - 1
                              /\ ~YearPasses => timerLists = {Sentinel}

(* Each timer in the list is run, again and again if it repeats, unless it *)
(* is cancelled or the wall clock is set back.                             *)
DueRuns ==
  \A t \in Timers :
    t \in timerLists ~> t \in threads \/ t \in freed \/ stepped \/ crash # "no"

(* defaultTimerCallback holds assert(0): the sentinel is there to keep the *)
(* list from being empty and its callback never runs.                      *)
SentinelSleeps == crash # "assert"
=============================================================================
