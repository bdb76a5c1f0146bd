------------------------------- MODULE SlaClock -------------------------------
(***************************************************************************)
(* One reaction-time clock of a signal in time: domain/sla.go and the      *)
(* statements of db/queries/sla_clocks.sql.  Time is counted in ticks,     *)
(* several to a second, because pauses are accumulated in whole seconds.   *)
(* A command takes its instant from the clock of its process before it     *)
(* opens its transaction, so a write may carry an instant that has already *)
(* passed, and the instants of two writes need not be in order.            *)
(***************************************************************************)
EXTENDS Integers

CONSTANTS TicksPerSecond,
          Durations,   \* durations of the target at the priorities in use
          NotPaused,   \* paused_at IS NULL
          MaxDelay,    \* bound: ticks between taking an instant and the write
          MaxTime,     \* bound: instants
          MaxResumes   \* bound: pauses ended since the clock was (re)started

ASSUME TicksAssumption == TicksPerSecond \in Nat \ {0}
ASSUME DurationsAssumption == Durations \subseteq Nat \ {0}
ASSUME NotPausedAssumption == NotPaused \notin Int
ASSUME ClockBoundsAssumption ==
    MaxDelay \in Nat /\ MaxTime \in Nat /\ MaxResumes \in Nat

VARIABLES now,
          deadline,       \* deadline_at
          fulfilled,      \* fulfilled_at IS NOT NULL
          pausedSeconds,  \* paused_seconds
          pausedAt,       \* paused_at
          pausedTicks,    \* history: the ended pauses since the start, exactly
          resumes         \* history: how many there were

clock == <<deadline, fulfilled, pausedSeconds, pausedAt, pausedTicks, resumes>>
vars == <<now, clock>>

Paused == pausedAt # NotPaused

TypeOK == /\ now \in Nat
          /\ deadline \in Nat
          /\ fulfilled \in BOOLEAN
          /\ pausedSeconds \in Nat
          /\ pausedAt \in 0..now \union {NotPaused}
          /\ pausedTicks \in Nat
          /\ resumes \in Nat

\* NewSlaClock at instant 0.
Init == /\ now = 0
        /\ deadline \in Durations
        /\ fulfilled = FALSE
        /\ pausedSeconds = 0
        /\ pausedAt = NotPaused
        /\ pausedTicks = 0
        /\ resumes = 0

\* The instants a command that writes now may have taken.
Instants == {t \in 0..now : t >= now - MaxDelay}

\* A numeric is cast to bigint by rounding to the nearest integer, halves up.
WholeSeconds(ticks) == (2 * ticks + TicksPerSecond) \div (2 * TicksPerSecond)

RunningPause == IF Paused THEN now - pausedAt ELSE 0

EffectiveDeadline == deadline + pausedSeconds * TicksPerSecond + RunningPause

\* ScanDueSlaClocks returns the clock.
Due == ~fulfilled /\ EffectiveDeadline <= now

Pause(t) == /\ ~fulfilled
            /\ ~Paused
            /\ pausedAt' = t
            /\ UNCHANGED <<now, deadline, fulfilled, pausedSeconds, pausedTicks, resumes>>

\* A clock that was fulfilled while it was paused may still be resumed.
Resume(t) == /\ Paused
             /\ t >= pausedAt
             /\ resumes < MaxResumes
             /\ pausedSeconds' = pausedSeconds + WholeSeconds(t - pausedAt)
             /\ pausedTicks' = pausedTicks + (t - pausedAt)
             /\ pausedAt' = NotPaused
             /\ resumes' = resumes + 1
             /\ UNCHANGED <<now, deadline, fulfilled>>

Fulfil == /\ ~fulfilled
          /\ fulfilled' = TRUE
          /\ UNCHANGED <<now, deadline, pausedSeconds, pausedAt, pausedTicks, resumes>>

\* The stored deadline is compared and replaced; pauses stay on top of it.
Tighten(t, d) == /\ ~fulfilled
                 /\ t + d < deadline
                 /\ deadline' = t + d
                 /\ UNCHANGED <<now, fulfilled, pausedSeconds, pausedAt,
                                pausedTicks, resumes>>

\* Mutant of Reset: paused_seconds survives.
ResetKeepsPauses(t, d) == /\ deadline' = t + d
                          /\ fulfilled' = FALSE
                          /\ pausedAt' = NotPaused
                          /\ pausedTicks' = 0
                          /\ resumes' = 0
                          /\ UNCHANGED <<now, pausedSeconds>>

Reset(t, d) == /\ deadline' = t + d
               /\ fulfilled' = FALSE
               /\ pausedSeconds' = 0
               /\ pausedAt' = NotPaused
               /\ pausedTicks' = 0
               /\ resumes' = 0
               /\ UNCHANGED now

Tick == /\ now < MaxTime
        /\ now' = now + 1
        /\ UNCHANGED clock

Next == \/ Tick
        \/ Fulfil
        \/ \E t \in Instants :
             \/ Pause(t) \/ Resume(t)
             \/ \E d \in Durations : Tighten(t, d) \/ Reset(t, d)

Spec == Init /\ [][Next]_vars

-------------------------------------------------------------------------------
(* Properties *)

\* The deadline the breach scan works with is never further from the deadline
\* plus the exact length of all pauses than half a second for each pause that
\* was ended: nothing else is credited or lost, whatever instants the commands
\* carried and whether the clock was tightened or fulfilled in a pause
\* (sla.go, EffectiveDeadline; ResumeSlaClock).
PauseDriftBounded ==
    LET exact == deadline + pausedTicks + RunningPause
    IN /\ 2 * (EffectiveDeadline - exact) <= resumes * TicksPerSecond
       /\ 2 * (exact - EffectiveDeadline) <= resumes * TicksPerSecond

\* The time a running pause leaves until the deadline stands still: a clock
\* that is not due when a pause has begun does not come due in it (ch. 9.4,
\* "the remaining time is frozen while paused").
NoBreachInPause ==
    [][Paused /\ Paused' /\ now' > now => (Due' <=> Due)]_vars

\* Nobody gets more time from a priority change, however often the priority
\* goes up and down: unless a reopen restarted the clock, a new stored deadline
\* leaves less time than before (TightenSlaClock).
Restarted == \E t \in Instants, d \in Durations : Reset(t, d)

UpgradeNeverLengthens ==
    [][deadline' # deadline /\ ~Restarted
       => EffectiveDeadline' < EffectiveDeadline]_vars

-------------------------------------------------------------------------------
(* What the code's own comments say of it. *)

\* sla_clocks.sql, ResumeSlaClock: "the whole-second truncation happens after
\* the subtraction"; domain.SlaClock.Resume truncates.  The seconds credited
\* for pauses would then never exceed the time really paused.
ResumeTruncates == pausedSeconds * TicksPerSecond <= pausedTicks
===============================================================================
