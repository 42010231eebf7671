---------------------------- MODULE WorkerGroup ----------------------------
(***************************************************************************)
(* worker.Group (pkgs/worker/group.go): the background work of a backend - *)
(* tracked goroutines and tickers started with Go and Ticker, one-shot     *)
(* callbacks scheduled with After - and Stop, which ends it.  g.mu guards  *)
(* the flag and the timer map only; cancelling, stopping timers and the    *)
(* wait run outside it.                                                    *)
(***************************************************************************)
EXTENDS Integers, FiniteSets

CONSTANTS Workers,   \* calls of Go and Ticker
          Callbacks, \* calls of After
          Stoppers   \* goroutines that call Stop

VARIABLES stopped,    \* g.stopped
          cancelled,  \* g.ctx is done
          wg,         \* the goroutines g.wg counts
          timers,     \* g.timers: the callbacks it tracks
          wk,         \* where each worker is
          cb,         \* where each callback is
          st,         \* where each call of Stop is
          rest        \* timers a call of Stop copied and has yet to stop

wgVars == <<stopped, cancelled, wg, timers, wk, cb, st, rest>>

WGInit ==
  /\ stopped = FALSE /\ cancelled = FALSE /\ wg = {} /\ timers = {}
  /\ wk = [w \in Workers |-> "new"]
  /\ cb = [c \in Callbacks |-> "new"]
  /\ st = [s \in Stoppers |-> "out"]
  /\ rest = [s \in Stoppers |-> {}]
-----------------------------------------------------------------------------
(* Go and Ticker.                                                          *)

\* Mutant of Go: the flag is not looked at.
GoAlways(w) ==
  /\ wk[w] = "new"
  /\ wk' = [wk EXCEPT ![w] = "waiting"]
  /\ wg' = wg \cup {w}
  /\ UNCHANGED <<stopped, cancelled, timers, cb, st, rest>>

\* Go and Ticker are no-ops after Stop; wg.Add runs under g.mu.
Go(w) ==
  /\ wk[w] = "new" /\ ~stopped
  /\ wk' = [wk EXCEPT ![w] = "waiting"]
  /\ wg' = wg \cup {w}
  /\ UNCHANGED <<stopped, cancelled, timers, cb, st, rest>>

GoRefused(w) ==
  /\ wk[w] = "new" /\ stopped
  /\ wk' = [wk EXCEPT ![w] = "refused"]
  /\ UNCHANGED <<stopped, cancelled, wg, timers, cb, st, rest>>

\* The ticker's select takes a tick, even when the context is done as well.
Tick(w) ==
  /\ wk[w] = "waiting"
  /\ wk' = [wk EXCEPT ![w] = "sweeping"]
  /\ UNCHANGED <<stopped, cancelled, wg, timers, cb, st, rest>>

\* sweepOnce returns, its panic recovered.
SweepEnds(w) ==
  /\ wk[w] = "sweeping"
  /\ wk' = [wk EXCEPT ![w] = "waiting"]
  /\ UNCHANGED <<stopped, cancelled, wg, timers, cb, st, rest>>

\* Mutant of Go: a panic in fn skips wg.Done.
DoneNotCounted(w) ==
  /\ wk[w] = "waiting"
  /\ wk' = [wk EXCEPT ![w] = "done"]
  /\ UNCHANGED <<stopped, cancelled, wg, timers, cb, st, rest>>

\* fn returns, or panics and is recovered: the deferred wg.Done runs.  A
\* ticker returns only when its context is done, any other fn when it likes.
Done(w) ==
  /\ wk[w] = "waiting"
  /\ wk' = [wk EXCEPT ![w] = "done"]
  /\ wg' = wg \ {w}
  /\ UNCHANGED <<stopped, cancelled, timers, cb, st, rest>>
-----------------------------------------------------------------------------
(* After.                                                                  *)

\* Mutant of After: the timer is not tracked.
AfterUntracked(c) ==
  /\ cb[c] = "new" /\ ~stopped
  /\ cb' = [cb EXCEPT ![c] = "pending"]
  /\ UNCHANGED <<stopped, cancelled, wg, timers, wk, st, rest>>

After(c) ==
  /\ cb[c] = "new" /\ ~stopped
  /\ cb' = [cb EXCEPT ![c] = "pending"]
  /\ timers' = timers \cup {c}
  /\ UNCHANGED <<stopped, cancelled, wg, wk, st, rest>>

AfterRefused(c) ==
  /\ cb[c] = "new" /\ stopped
  /\ cb' = [cb EXCEPT ![c] = "refused"]
  /\ UNCHANGED <<stopped, cancelled, wg, timers, wk, st, rest>>

\* The timer fires on a goroutine of its own, which g.wg does not count.
FireCallback(c) ==
  /\ cb[c] = "pending"
  /\ cb' = [cb EXCEPT ![c] = "fired"]
  /\ UNCHANGED <<stopped, cancelled, wg, timers, wk, st, rest>>

\* removeTimer, then fn.
RemoveTimer(c) ==
  /\ cb[c] = "fired"
  /\ cb' = [cb EXCEPT ![c] = "running"]
  /\ timers' = timers \ {c}
  /\ UNCHANGED <<stopped, cancelled, wg, wk, st, rest>>

CallbackEnds(c) ==
  /\ cb[c] = "running"
  /\ cb' = [cb EXCEPT ![c] = "done"]
  /\ UNCHANGED <<stopped, cancelled, wg, timers, wk, st, rest>>
-----------------------------------------------------------------------------
(* Stop.                                                                   *)

StopAgain(s) ==
  /\ st[s] = "out" /\ stopped
  /\ st' = [st EXCEPT ![s] = "back"]
  /\ UNCHANGED <<stopped, cancelled, wg, timers, wk, cb, rest>>

Stop(s) ==
  /\ st[s] = "out" /\ ~stopped
  /\ stopped' = TRUE
  /\ st' = [st EXCEPT ![s] = "cancel"]
  /\ rest' = [rest EXCEPT ![s] = timers]
  /\ timers' = {}
  /\ UNCHANGED <<cancelled, wg, wk, cb>>

Cancel(s) ==
  /\ st[s] = "cancel"
  /\ cancelled' = TRUE
  /\ st' = [st EXCEPT ![s] = "timers"]
  /\ UNCHANGED <<stopped, wg, timers, wk, cb, rest>>

\* One round of the loop over the copied timers; a timer that has fired is
\* beyond t.Stop.
StopTimer(s, c) ==
  /\ st[s] = "timers" /\ c \in rest[s]
  /\ rest' = [rest EXCEPT ![s] = @ \ {c}]
  /\ cb' = IF cb[c] = "pending" THEN [cb EXCEPT ![c] = "stopped"] ELSE cb
  /\ UNCHANGED <<stopped, cancelled, wg, timers, wk, st>>

\* wg.Wait, once the loop is through.
Wait(s) ==
  /\ st[s] = "timers" /\ rest[s] = {} /\ wg = {}
  /\ st' = [st EXCEPT ![s] = "joined"]
  /\ UNCHANGED <<stopped, cancelled, wg, timers, wk, cb, rest>>

WGNext ==
  \/ \E w \in Workers : Go(w) \/ GoRefused(w) \/ Tick(w) \/ SweepEnds(w) \/ Done(w)
  \/ \E c \in Callbacks : \/ After(c) \/ AfterRefused(c) \/ FireCallback(c)
                          \/ RemoveTimer(c) \/ CallbackEnds(c)
  \/ \E s \in Stoppers : \/ StopAgain(s) \/ Stop(s) \/ Cancel(s) \/ Wait(s)
                         \/ \E c \in Callbacks : StopTimer(s, c)

\* A call of Stop that has begun goes on, sweeps end, and a worker whose
\* context is done returns: between two ticks nothing but ctx.Done is ready.
WGFairness ==
  /\ \A s \in Stoppers :
       /\ WF_wgVars(Cancel(s)) /\ WF_wgVars(Wait(s))
       /\ \A c \in Callbacks : WF_wgVars(StopTimer(s, c))
  /\ \A w \in Workers :
       WF_wgVars(SweepEnds(w)) /\ SF_wgVars(cancelled /\ Done(w))

WGSpec == WGInit /\ [][WGNext]_wgVars /\ WGFairness
-----------------------------------------------------------------------------
Running(w) == wk[w] \in {"waiting", "sweeping"}

\* Shape of the state; g.wg counts exactly the goroutines that run.
WGTypeOK ==
  /\ stopped \in BOOLEAN /\ cancelled \in BOOLEAN
  /\ wk \in [Workers -> {"new", "refused", "waiting", "sweeping", "done"}]
  /\ cb \in [Callbacks -> {"new", "refused", "pending", "fired", "running",
                           "done", "stopped"}]
  /\ st \in [Stoppers -> {"out", "cancel", "timers", "joined", "back"}]
  /\ rest \in [Stoppers -> SUBSET Callbacks] /\ timers \subseteq Callbacks
  /\ wg = {w \in Workers : Running(w)}

\* When the Stop that does the work returns, none of the goroutines and
\* tickers of the group runs, and none will: a Go that raced it was either
\* counted before the wait or refused.
Joined ==
  (\E s \in Stoppers : st[s] = "joined") => \A w \in Workers : ~Running(w)

\* ... and no callback is left to fire: every timer that After armed is
\* stopped or has fired by then.
NothingPending ==
  (\E s \in Stoppers : st[s] = "joined") =>
    \A c \in Callbacks : cb[c] # "pending"

\* Stop returns.
StopReturns == \A s \in Stoppers : st[s] = "cancel" ~> st[s] = "joined"

=============================================================================
