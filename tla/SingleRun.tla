----------------------------- MODULE SingleRun -----------------------------
(***************************************************************************)
(* worker.SingleRun (pkgs/worker/lifecycle.go): starting and stopping one  *)
(* background runner, such as a service's janitor.  s.mu covers the        *)
(* exchange of the fields; the run, the cancellation and the wait are      *)
(* outside it, and Stop gives up waiting when its caller's context ends.   *)
(***************************************************************************)
EXTENDS Integers, FiniteSets

CONSTANTS Callers,  \* goroutines that call Stop, again and again
          MaxRuns   \* bound: runs started

ASSUME RunsAssumption == MaxRuns \in Nat

NoRun == 0
Runs == 1 .. MaxRuns

VARIABLES cur,        \* the run s.cancel and s.done belong to, or NoRun
          started,    \* runs started so far
          run,        \* where each run is
          ctxDone,    \* runs whose context is done
          stop,       \* where each call of Stop is
          held        \* the run a call of Stop took out, or NoRun

srVars == <<cur, started, run, ctxDone, stop, held>>

SRInit ==
  /\ cur = NoRun /\ started = 0 /\ ctxDone = {}
  /\ run = [r \in Runs |-> "none"]
  /\ stop = [s \in Callers |-> "out"]
  /\ held = [s \in Callers |-> NoRun]

\* Mutant of startLocked: s.done is not looked at.
StartAlways ==
  /\ started < MaxRuns
  /\ started' = started + 1
  /\ cur' = started + 1
  /\ run' = [run EXCEPT ![started + 1] = "running"]
  /\ UNCHANGED <<ctxDone, stop, held>>

\* Start; a no-op while s.done is set.
Start ==
  /\ cur = NoRun /\ started < MaxRuns
  /\ started' = started + 1
  /\ cur' = started + 1
  /\ run' = [run EXCEPT ![started + 1] = "running"]
  /\ UNCHANGED <<ctxDone, stop, held>>

\* Run returns, because its context is done or for reasons of its own, and
\* done is closed.
RunEnds(r) ==
  /\ run[r] = "running"
  /\ run' = [run EXCEPT ![r] = "ended"]
  /\ UNCHANGED <<cur, started, ctxDone, stop, held>>

\* Stop takes the run out of the fields.
Take(s) ==
  /\ stop[s] \in {"out", "back", "gaveup"}
  /\ stop' = [stop EXCEPT ![s] = IF cur = NoRun THEN "back" ELSE "cancel"]
  /\ held' = [held EXCEPT ![s] = cur]
  /\ cur' = NoRun
  /\ UNCHANGED <<started, run, ctxDone>>

\* Mutant of Stop: the context is not cancelled.
CancelRunNever(s) ==
  /\ stop[s] = "cancel"
  /\ stop' = [stop EXCEPT ![s] = "wait"]
  /\ UNCHANGED <<cur, started, run, ctxDone, held>>

CancelRun(s) ==
  /\ stop[s] = "cancel"
  /\ ctxDone' = ctxDone \cup {held[s]}
  /\ stop' = [stop EXCEPT ![s] = "wait"]
  /\ UNCHANGED <<cur, started, run, held>>

AwaitRun(s) ==
  /\ stop[s] = "wait" /\ run[held[s]] = "ended"
  /\ stop' = [stop EXCEPT ![s] = "back"]
  /\ UNCHANGED <<cur, started, run, ctxDone, held>>

\* The caller's context ends first.
GiveUp(s) ==
  /\ stop[s] = "wait"
  /\ stop' = [stop EXCEPT ![s] = "gaveup"]
  /\ UNCHANGED <<cur, started, run, ctxDone, held>>

SRNext ==
  \/ Start
  \/ \E r \in Runs : RunEnds(r)
  \/ \E s \in Callers : Take(s) \/ CancelRun(s) \/ AwaitRun(s) \/ GiveUp(s)

\* A call of Stop goes on; a run whose context is done returns.
SRFairness ==
  /\ \A s \in Callers : WF_srVars(CancelRun(s)) /\ WF_srVars(AwaitRun(s) \/ GiveUp(s))
  /\ \A r \in Runs : WF_srVars(r \in ctxDone /\ RunEnds(r))

SRSpec == SRInit /\ [][SRNext]_srVars /\ SRFairness
-----------------------------------------------------------------------------
SRTypeOK ==
  /\ cur \in 0 .. started /\ started \in 0 .. MaxRuns
  /\ run \in [Runs -> {"none", "running", "ended"}]
  /\ \A r \in Runs : run[r] = "none" <=> r > started
  /\ ctxDone \subseteq 1 .. started
  /\ stop \in [Callers -> {"out", "cancel", "wait", "back", "gaveup"}]
  /\ held \in [Callers -> 0 .. started]

\* No run is forgotten: one that still goes is the current one, or its context
\* has been cancelled, or a call of Stop is about to cancel it.
NoRunForgotten ==
  \A r \in Runs :
    run[r] = "running" =>
      \/ r = cur \/ r \in ctxDone
      \/ \E s \in Callers : stop[s] = "cancel" /\ held[s] = r

\* A Stop that returns without giving up has seen its run exit.
StopWaited ==
  \A s \in Callers :
    stop[s] = "back" /\ held[s] # NoRun => run[held[s]] = "ended"

\* A run that a Stop took out ends, whether or not the Stop waited for it.
TakenRunEnds ==
  \A s \in Callers, r \in Runs :
    stop[s] = "cancel" /\ held[s] = r ~> run[r] = "ended"
=============================================================================
