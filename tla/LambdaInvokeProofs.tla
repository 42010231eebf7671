------------------------- MODULE LambdaInvokeProofs -------------------------
(***************************************************************************)
(* Proofs about LambdaInvoke: for any calls, limits, queue sizes and       *)
(* numbers of retries, no slot of the concurrency counter is lost, a       *)
(* runtime on which a call has timed out is not handed out again, no       *)
(* request is answered by two POSTs, and no answer a POST claimed for a    *)
(* waiting call is thrown away.                                            *)
(***************************************************************************)
EXTENDS LambdaInvoke, FiniteSetTheorems, SequenceTheorems, TLAPS

Pcs == {"idle", "lookup", "start", "unmap", "fail", "send", "enqueue", "retry",
        "wait", "grace", "evict", "return", "finish", "done"}
Outs == {"none", "timeout", "cancelled"}

CallRec == [pc : Pcs, rt : Nat, att : Nat, tracked : BOOLEAN, out : Outs]

\* The part of the state that the slots and the runtimes of calls are kept in.
Shape ==
  /\ active \in Nat /\ made \in Nat /\ cur \in 0 .. made
  /\ call \in [Calls -> CallRec]

\* A call has the runtime it looked up, which was registered by then, unless
\* there was none to be had.
HasRuntime ==
  \A i \in Calls :
    /\ call[i].rt <= made
    /\ call[i].pc \notin {"idle", "lookup", "fail", "done"}
         /\ (call[i].pc = "return" => call[i].out # "none")
       => call[i].rt # NoRuntime

\* A call takes its slot before anything else.
Untracked == \A i \in Calls : call[i].pc = "idle" => ~call[i].tracked

\* Why a call stopped waiting is known only after it has waited.
OutLate ==
  \A i \in Calls :
    call[i].pc \notin {"grace", "evict", "return", "finish"} => call[i].out = "none"

IInv == Shape /\ HasRuntime /\ Untracked /\ OutLate /\ NoSlotLeak /\ HungRuntimeRetired

-----------------------------------------------------------------------------
(* Slots.                                                                  *)

\* The calls that hold a slot are finitely many.
LEMMA HoldingFinite == IsFiniteSet(Holding) /\ Cardinality(Holding) \in Nat
<1>1. IsFiniteSet(Calls)
  BY InvokeAssumption, FS_Union DEF Calls
<1>2. Holding \in SUBSET Calls
  BY DEF Holding
<1> QED
  BY <1>1, <1>2, FS_Subset, FS_CardinalityType

\* releaseConcurrencySlot gives back at most what there is.
LEMMA ReleasedNat == ASSUME NEW n \in Nat PROVE Released(n) \in 0 .. n
  BY DEF Released

\* The record of a call that has returned.
LEMMA DoneCall ==
  ASSUME NEW i \in Calls, call \in [Calls -> CallRec], Done(i)
  PROVE  call' \in [Calls -> CallRec]
<1>1. [NoCall EXCEPT !.pc = "done"] \in CallRec
  BY DEF NoCall, NoRuntime, CallRec, Pcs, Outs
<1> QED
  BY <1>1 DEF Done

\* A call that goes on.
LEMMA ToCall ==
  ASSUME NEW i \in Calls, call \in [Calls -> CallRec], NEW pc \in Pcs, To(i, pc)
  PROVE  call' \in [Calls -> CallRec]
  BY DEF To, CallRec

\* A call that stops waiting and records why.
LEMMA StopCall ==
  ASSUME NEW i \in Calls, call \in [Calls -> CallRec], NEW pc \in Pcs,
         NEW out \in Outs, Stop(i, pc, out)
  PROVE  call' \in [Calls -> CallRec]
  BY DEF Stop, CallRec

\* What a step may do to the counter and to the calls that hold a slot.
Kept == active' \in 0 .. active /\ Holding' = Holding
Taken(i) == i \notin Holding /\ Holding' = Holding \cup {i} /\ active' = active + 1
Given(i) == i \in Holding /\ Holding' = Holding \ {i} /\ active' = Released(active)

\* None of these lets the counter get ahead of the holders.
LEMMA SlotsCount ==
  ASSUME active \in Nat, NoSlotLeak, NEW i, Kept \/ Taken(i) \/ Given(i)
  PROVE  NoSlotLeak'
<1> USE HoldingFinite
<1>1. CASE Kept
  BY <1>1 DEF Kept, NoSlotLeak
<1>2. CASE Taken(i)
  <2>1. Cardinality(Holding') = Cardinality(Holding) + 1
    BY <1>2, FS_AddElement DEF Taken
  <2> QED
    BY <1>2, <2>1 DEF Taken, NoSlotLeak
<1>3. CASE Given(i)
  <2>1. Cardinality(Holding') = Cardinality(Holding) - 1
    BY <1>3, FS_RemoveElement DEF Given
  <2>2. active' = 0 \/ active' = active - 1
    BY <1>3 DEF Given, Released
  <2>3. Cardinality(Holding') \in Nat
    BY <1>3, FS_RemoveElement, FS_CardinalityType DEF Given
  <2> QED
    BY <2>1, <2>2, <2>3 DEF NoSlotLeak
<1> QED
  BY <1>1, <1>2, <1>3
-----------------------------------------------------------------------------
\* Before the first call nothing is counted and no runtime is registered.
LEMMA InitIInv == Init => IInv
<1> SUFFICES ASSUME Init PROVE IInv
  OBVIOUS
<1> USE DEF Init, NoCall, NoRuntime
<1>1. Shape /\ HasRuntime /\ Untracked /\ OutLate /\ HungRuntimeRetired
  BY DEF Shape, CallRec, Pcs, Outs, HasRuntime, Untracked, OutLate, HungRuntimeRetired
<1>2. NoSlotLeak
  BY HoldingFinite DEF NoSlotLeak
<1> QED
  BY <1>1, <1>2 DEF IInv
-----------------------------------------------------------------------------
(* Steps.                                                                  *)

\* The parts of the invariant without cardinalities.
CallInv == Shape /\ HasRuntime /\ Untracked /\ OutLate /\ HungRuntimeRetired

\* Every step keeps them, action by action.
LEMMA NextCallInv == CallInv /\ [Next]_vars => CallInv'
<1> SUFFICES ASSUME CallInv, [Next]_vars PROVE CallInv'
  OBVIOUS
<1> USE DEF CallInv, NoRuntime
<1>1. ASSUME NEW i \in Calls, Acquire(i) PROVE CallInv'
  <2>1. Shape'
    <3>1. active' \in Nat /\ made' \in Nat /\ cur' \in 0 .. made'
      BY <1>1 DEF Acquire, Shape
    <3>2. CASE Done(i)
      BY <3>1, <3>2, DoneCall DEF Shape
    <3>3. CASE To(i, "lookup")
      BY <3>1, <3>3, ToCall DEF Shape, Pcs
    <3>4. CASE call' = [call EXCEPT ![i].pc = "lookup", ![i].tracked = TRUE]
      <4>1. call' \in [Calls -> CallRec]
        BY <3>4, ZenonT(40) DEF Shape, CallRec, Pcs
      <4> QED  BY <3>1, <4>1 DEF Shape
    <3> QED  BY <1>1, <3>2, <3>3, <3>4 DEF Acquire
  <2>2. HasRuntime'
    BY <1>1 DEF To, Stop, Done, Acquire, NoCall, Shape, CallRec, HasRuntime
  <2>3. Untracked' /\ OutLate'
    BY <1>1 DEF To, Stop, Done, Acquire, NoCall, Shape, CallRec, Untracked, OutLate
  <2>4. HungRuntimeRetired'
    BY <1>1 DEF To, Stop, Done, Acquire, NoCall, Shape, CallRec, HasRuntime, OutLate,
       HungRuntimeRetired
  <2> QED  BY <2>1, <2>2, <2>3, <2>4
<1>2. ASSUME NEW i \in Calls, Lookup(i) PROVE CallInv'
  <2>1. Shape'
    <3> DEFINE r == IF cur = NoRuntime THEN made + 1 ELSE cur
    <3>1. r \in Nat /\ made' \in Nat /\ cur' \in 0 .. made' /\ active' \in Nat
      BY <1>2 DEF Lookup, Shape
    <3>2. \/ call' = [call EXCEPT ![i].pc = "start", ![i].rt = r]
          \/ To(i, "fail")
      BY <1>2 DEF Lookup
    <3> HIDE DEF r
    <3>3. CASE call' = [call EXCEPT ![i].pc = "start", ![i].rt = r]
      <4>1. call' \in [Calls -> CallRec]
        BY <3>1, <3>3, ZenonT(40) DEF Shape, CallRec, Pcs
      <4> QED  BY <3>1, <4>1 DEF Shape
    <3>4. CASE To(i, "fail")
      BY <3>1, <3>4, ToCall DEF Shape, Pcs
    <3> QED  BY <3>2, <3>3, <3>4
  <2>2. HasRuntime'
    BY <1>2 DEF To, Stop, Done, Lookup, Shape, CallRec, HasRuntime
  <2>3. Untracked' /\ OutLate'
    BY <1>2 DEF To, Stop, Done, Lookup, Shape, CallRec, Untracked, OutLate
  <2>4. HungRuntimeRetired'
    BY <1>2 DEF To, Stop, Done, Lookup, Shape, CallRec, HasRuntime, OutLate, HungRuntimeRetired
  <2> QED  BY <2>1, <2>2, <2>3, <2>4
<1>3. ASSUME NEW i \in Calls, Start(i) PROVE CallInv'
  <2>1. Shape'
    BY <1>3 DEF To, Stop, Done, Start, Shape, CallRec, Pcs, Outs
  <2>2. HasRuntime'
    BY <1>3 DEF To, Stop, Done, Start, Shape, CallRec, HasRuntime
  <2>3. Untracked' /\ OutLate'
    BY <1>3 DEF To, Stop, Done, Start, Shape, CallRec, Untracked, OutLate
  <2>4. HungRuntimeRetired'
    BY <1>3 DEF To, Stop, Done, Start, Shape, CallRec, HasRuntime, OutLate, HungRuntimeRetired
  <2> QED  BY <2>1, <2>2, <2>3, <2>4
<1>4. ASSUME NEW i \in Calls, Unmap(i) PROVE CallInv'
  <2>1. Shape'
    BY <1>4 DEF To, Stop, Done, Unmap, Shape, CallRec, Pcs, Outs
  <2>2. HasRuntime'
    BY <1>4 DEF To, Stop, Done, Unmap, Shape, CallRec, HasRuntime
  <2>3. Untracked' /\ OutLate'
    BY <1>4 DEF To, Stop, Done, Unmap, Shape, CallRec, Untracked, OutLate
  <2>4. HungRuntimeRetired'
    BY <1>4 DEF To, Stop, Done, Unmap, Shape, CallRec, HasRuntime, OutLate, HungRuntimeRetired
  <2> QED  BY <2>1, <2>2, <2>3, <2>4
<1>5. ASSUME NEW i \in Calls, StartFailed(i) PROVE CallInv'
  <2>1. Shape'
    <3>1. active' \in Nat /\ made' \in Nat /\ cur' \in 0 .. made'
      BY <1>5, ReleasedNat DEF StartFailed, Shape
    <3>2. CASE Done(i)
      BY <3>1, <3>2, DoneCall DEF Shape
    <3>3. CASE To(i, "return")
      BY <3>1, <3>3, ToCall DEF Shape, Pcs
    <3> QED  BY <1>5, <3>2, <3>3 DEF StartFailed
  <2>2. HasRuntime'
    BY <1>5 DEF To, Stop, Done, StartFailed, NoCall, Shape, CallRec, HasRuntime, OutLate
  <2>3. Untracked' /\ OutLate'
    BY <1>5 DEF To, Stop, Done, StartFailed, NoCall, Shape, CallRec, Untracked, OutLate
  <2>4. HungRuntimeRetired'
    BY <1>5 DEF To, Stop, Done, StartFailed, NoCall, Shape, CallRec, HasRuntime, OutLate,
       HungRuntimeRetired
  <2> QED  BY <2>1, <2>2, <2>3, <2>4
<1>6. ASSUME NEW i \in Calls, EvictTimedOut(i) PROVE CallInv'
  <2>1. Shape'
    BY <1>6 DEF To, Stop, Done, EvictTimedOut, Retire, Shape, CallRec, Pcs, Outs
  <2>2. HasRuntime'
    BY <1>6 DEF To, Stop, Done, EvictTimedOut, Retire, Shape, CallRec, HasRuntime
  <2>3. Untracked' /\ OutLate'
    BY <1>6 DEF To, Stop, Done, EvictTimedOut, Shape, CallRec, Untracked, OutLate
  <2>4. HungRuntimeRetired'
    BY <1>6 DEF To, Stop, Done, EvictTimedOut, Retire, Shape, CallRec, HasRuntime, OutLate,
       HungRuntimeRetired
  <2> QED  BY <2>1, <2>2, <2>3, <2>4
<1>7. ASSUME NEW i \in Calls, Send(i) PROVE CallInv'
  <2>1. Shape'
    BY <1>7 DEF To, Stop, Done, Send, Shape, CallRec, Pcs, Outs
  <2>2. HasRuntime'
    BY <1>7 DEF To, Stop, Done, Send, Shape, CallRec, HasRuntime
  <2>3. Untracked' /\ OutLate'
    BY <1>7 DEF To, Stop, Done, Send, Shape, CallRec, Untracked, OutLate
  <2>4. HungRuntimeRetired'
    BY <1>7 DEF To, Stop, Done, Send, Shape, CallRec, HasRuntime, OutLate, HungRuntimeRetired
  <2> QED  BY <2>1, <2>2, <2>3, <2>4
<1>8. ASSUME NEW i \in Calls, GiveUp(i) PROVE CallInv'
  <2>1. Shape'
    BY <1>8 DEF To, Stop, Done, GiveUp, Shape, CallRec, Pcs, Outs
  <2>2. HasRuntime'
    BY <1>8 DEF To, Stop, Done, GiveUp, Shape, CallRec, HasRuntime
  <2>3. Untracked' /\ OutLate'
    BY <1>8 DEF To, Stop, Done, GiveUp, Shape, CallRec, Untracked, OutLate
  <2>4. HungRuntimeRetired'
    BY <1>8 DEF To, Stop, Done, GiveUp, Shape, CallRec, HasRuntime, OutLate, HungRuntimeRetired
  <2> QED  BY <2>1, <2>2, <2>3, <2>4
<1>9. ASSUME NEW i \in Calls, StopWaiting(i) PROVE CallInv'
  <2>1. Shape'
    <3>1. PICK pc \in Pcs, out \in Outs : Stop(i, pc, out)
      BY <1>9 DEF StopWaiting, AfterTimer, Pcs, Outs
    <3>2. call' \in [Calls -> CallRec]
      BY <3>1, StopCall DEF Shape
    <3> QED  BY <1>9, <3>2 DEF StopWaiting, Shape
  <2>2. HasRuntime'
    BY <1>9 DEF To, Stop, Done, StopWaiting, AfterTimer, Shape, CallRec, HasRuntime
  <2>3. Untracked' /\ OutLate'
    BY <1>9 DEF To, Stop, Done, StopWaiting, AfterTimer, Shape, CallRec, Untracked, OutLate
  <2>4. HungRuntimeRetired'
    BY <1>9 DEF To, Stop, Done, StopWaiting, AfterTimer, Shape, CallRec, HasRuntime, OutLate,
       HungRuntimeRetired
  <2> QED  BY <2>1, <2>2, <2>3, <2>4
<1>10. ASSUME NEW i \in Calls, GraceOver(i) PROVE CallInv'
  <2>1. Shape'
    BY <1>10 DEF To, Stop, Done, GraceOver, AfterTimer, Shape, CallRec, Pcs, Outs
  <2>2. HasRuntime'
    BY <1>10 DEF To, Stop, Done, GraceOver, AfterTimer, Shape, CallRec, HasRuntime
  <2>3. Untracked' /\ OutLate'
    BY <1>10 DEF To, Stop, Done, GraceOver, AfterTimer, Shape, CallRec, Untracked, OutLate
  <2>4. HungRuntimeRetired'
    BY <1>10 DEF To, Stop, Done, GraceOver, AfterTimer, Shape, CallRec, HasRuntime, OutLate,
       HungRuntimeRetired
  <2> QED  BY <2>1, <2>2, <2>3, <2>4
<1>11. ASSUME NEW i \in Calls, Answered(i) PROVE CallInv'
  <2>1. Shape'
    BY <1>11, ZenonT(40) DEF To, Stop, Done, Answered, Shape, CallRec, Pcs, Outs
  <2>2. HasRuntime'
    BY <1>11 DEF To, Stop, Done, Answered, Shape, CallRec, HasRuntime
  <2>3. Untracked' /\ OutLate'
    BY <1>11 DEF To, Stop, Done, Answered, Shape, CallRec, Untracked, OutLate
  <2>4. HungRuntimeRetired'
    BY <1>11 DEF To, Stop, Done, Answered, Shape, CallRec, HasRuntime, OutLate, HungRuntimeRetired
  <2> QED  BY <2>1, <2>2, <2>3, <2>4
<1>12. ASSUME NEW i \in Calls, Return(i) PROVE CallInv'
  <2>1. Shape'
    <3>1. active' \in Nat /\ made' \in Nat /\ cur' \in 0 .. made'
      BY <1>12, ReleasedNat DEF Return, Shape
    <3> QED  BY <1>12, <3>1, DoneCall DEF Return, Shape
  <2>2. HasRuntime'
    BY <1>12 DEF To, Stop, Done, Return, NoCall, Shape, CallRec, HasRuntime
  <2>3. Untracked' /\ OutLate'
    BY <1>12 DEF To, Stop, Done, Return, NoCall, Shape, CallRec, Untracked, OutLate
  <2>4. HungRuntimeRetired'
    BY <1>12 DEF To, Stop, Done, Return, NoCall, Shape, CallRec, HasRuntime, OutLate,
       HungRuntimeRetired
  <2> QED  BY <2>1, <2>2, <2>3, <2>4
<1>13. ASSUME NEW i \in Calls, EnqueueAsync(i) PROVE CallInv'
  <2>1. Shape'
    <3>1. active' \in Nat /\ made' \in Nat /\ cur' \in 0 .. made'
      BY <1>13, ReleasedNat DEF EnqueueAsync, Shape
    <3>2. CASE Done(i)
      BY <3>1, <3>2, DoneCall DEF Shape
    <3>3. CASE \E pc \in {"wait", "enqueue"} : To(i, pc)
      BY <3>1, <3>3, ToCall DEF Shape, Pcs
    <3> QED  BY <1>13, <3>2, <3>3 DEF EnqueueAsync
  <2>2. HasRuntime'
    BY <1>13 DEF To, Stop, Done, EnqueueAsync, NoCall, Shape, CallRec, HasRuntime
  <2>3. Untracked' /\ OutLate'
    BY <1>13 DEF To, Stop, Done, EnqueueAsync, NoCall, Shape, CallRec, Untracked, OutLate
  <2>4. HungRuntimeRetired'
    BY <1>13 DEF To, Stop, Done, EnqueueAsync, NoCall, Shape, CallRec, HasRuntime, OutLate,
       HungRuntimeRetired
  <2> QED  BY <2>1, <2>2, <2>3, <2>4
<1>14. ASSUME NEW i \in Calls, Enqueued(i) PROVE CallInv'
  <2>1. Shape'
    BY <1>14 DEF To, Stop, Done, Enqueued, Shape, CallRec, Pcs, Outs
  <2>2. HasRuntime'
    BY <1>14 DEF To, Stop, Done, Enqueued, Shape, CallRec, HasRuntime
  <2>3. Untracked' /\ OutLate'
    BY <1>14 DEF To, Stop, Done, Enqueued, Shape, CallRec, Untracked, OutLate
  <2>4. HungRuntimeRetired'
    BY <1>14 DEF To, Stop, Done, Enqueued, Shape, CallRec, HasRuntime, OutLate, HungRuntimeRetired
  <2> QED  BY <2>1, <2>2, <2>3, <2>4
<1>15. ASSUME NEW i \in Calls, NotEnqueued(i) PROVE CallInv'
  <2>1. Shape'
    BY <1>15 DEF To, Stop, Done, NotEnqueued, Shape, CallRec, Pcs, Outs
  <2>2. HasRuntime'
    BY <1>15 DEF To, Stop, Done, NotEnqueued, Shape, CallRec, HasRuntime
  <2>3. Untracked' /\ OutLate'
    BY <1>15 DEF To, Stop, Done, NotEnqueued, Shape, CallRec, Untracked, OutLate
  <2>4. HungRuntimeRetired'
    BY <1>15 DEF To, Stop, Done, NotEnqueued, Shape, CallRec, HasRuntime, OutLate,
       HungRuntimeRetired
  <2> QED  BY <2>1, <2>2, <2>3, <2>4
<1>16. ASSUME NEW i \in Calls, Attempted(i) PROVE CallInv'
  <2>1. Shape'
    <3>1. CASE To(i, "finish")
      <4>1. call' \in [Calls -> CallRec]
        BY <3>1, ToCall DEF Shape, Pcs
      <4> QED  BY <1>16, <4>1 DEF Attempted, Shape
    <3>2. CASE call' = [call EXCEPT ![i].pc = "retry", ![i].att = @ + 1]
      <4>1. call' \in [Calls -> CallRec]
        BY <3>2 DEF Shape, CallRec, Pcs
      <4> QED  BY <1>16, <4>1 DEF Attempted, Shape
    <3> QED  BY <1>16, <3>1, <3>2 DEF Attempted
  <2>2. HasRuntime'
    BY <1>16, ZenonT(40) DEF To, Stop, Done, Attempted, Shape, CallRec, HasRuntime
  <2>3. Untracked' /\ OutLate'
    BY <1>16 DEF To, Stop, Done, Attempted, Shape, CallRec, Untracked, OutLate
  <2>4. HungRuntimeRetired'
    BY <1>16 DEF To, Stop, Done, Attempted, Shape, CallRec, HasRuntime, OutLate,
       HungRuntimeRetired
  <2> QED  BY <2>1, <2>2, <2>3, <2>4
<1>17. ASSUME NEW i \in Calls, AsyncTimeout(i) PROVE CallInv'
  <2>1. Shape'
    BY <1>17, ZenonT(40) DEF To, Stop, Done, AsyncTimeout, Shape, CallRec, Pcs, Outs
  <2>2. HasRuntime'
    BY <1>17 DEF To, Stop, Done, AsyncTimeout, Shape, CallRec, HasRuntime
  <2>3. Untracked' /\ OutLate'
    BY <1>17 DEF To, Stop, Done, AsyncTimeout, Shape, CallRec, Untracked, OutLate
  <2>4. HungRuntimeRetired'
    BY <1>17 DEF To, Stop, Done, AsyncTimeout, Shape, CallRec, HasRuntime, OutLate,
       HungRuntimeRetired
  <2> QED  BY <2>1, <2>2, <2>3, <2>4
<1>18. ASSUME NEW i \in Calls, Finish(i) PROVE CallInv'
  <2>1. Shape'
    <3>1. active' \in Nat /\ made' \in Nat /\ cur' \in 0 .. made'
      BY <1>18, ReleasedNat DEF Finish, Shape
    <3> QED  BY <1>18, <3>1, DoneCall DEF Finish, Shape
  <2>2. HasRuntime'
    BY <1>18 DEF To, Stop, Done, Finish, NoCall, Shape, CallRec, HasRuntime
  <2>3. Untracked' /\ OutLate'
    BY <1>18 DEF To, Stop, Done, Finish, NoCall, Shape, CallRec, Untracked, OutLate
  <2>4. HungRuntimeRetired'
    BY <1>18 DEF To, Stop, Done, Finish, NoCall, Shape, CallRec, HasRuntime, OutLate,
       HungRuntimeRetired
  <2> QED  BY <2>1, <2>2, <2>3, <2>4
<1>19. ASSUME UNCHANGED <<cur, made, call>>, active' \in Nat PROVE CallInv'
  BY <1>19 DEF Shape, CallRec, HasRuntime, Untracked, OutLate, HungRuntimeRetired
<1>20. CASE Evict \/ Reset
  BY <1>20 DEF Evict, Reset, Retire, Shape, CallRec, HasRuntime, Untracked, OutLate,
     HungRuntimeRetired
<1>21. ASSUME NEW r \in Runtimes, RuntimeAPI(r) \/ CleanupRuntime(r) PROVE CallInv'
  BY <1>21, <1>19 DEF RuntimeAPI, HandleNext, HandleInitError, InitDelete, HandleResult,
     CleanupRuntime, Shape
<1>22. ASSUME Tick \/ \E p \in posting : Put(p) PROVE CallInv'
  BY <1>22, <1>19 DEF Tick, Put, Shape
<1>23. CASE UNCHANGED vars
  BY <1>23, <1>19 DEF vars, Shape
<1> QED
  BY <1>1, <1>2, <1>3, <1>4, <1>5, <1>6, <1>7, <1>8, <1>9, <1>10, <1>11, <1>12, <1>13, <1>14,
     <1>15, <1>16, <1>17, <1>18, <1>20, <1>21, <1>22, <1>23
     DEF Next, CallStep, SyncStep, EventStep

\* Every step keeps the slots, or one call takes one, or gives one back.
LEMMA NextSlots ==
  ASSUME Shape, Untracked, [Next]_vars
  PROVE  Kept \/ \E i \in Calls : Taken(i) \/ Given(i)
<1> USE DEF To, Stop, Done
<1>1. ASSUME NEW i \in Calls, Acquire(i) PROVE Kept \/ Taken(i)
  BY <1>1 DEF Acquire, NoCall, Shape, CallRec, Holding, Kept, Taken, Untracked
<1>2. ASSUME NEW i \in Calls, Lookup(i) PROVE Kept
  BY <1>2 DEF Lookup, Shape, CallRec, Holding, Kept
<1>3. ASSUME NEW i \in Calls, Start(i) PROVE Kept
  BY <1>3 DEF Start, Shape, CallRec, Holding, Kept
<1>4. ASSUME NEW i \in Calls, Unmap(i) PROVE Kept
  BY <1>4 DEF Unmap, Shape, CallRec, Holding, Kept
<1>5. ASSUME NEW i \in Calls, StartFailed(i) PROVE Kept \/ Given(i)
  BY <1>5 DEF StartFailed, NoCall, Shape, CallRec, Holding, Kept, Given, Released
<1>6. ASSUME NEW i \in Calls, EvictTimedOut(i) PROVE Kept
  BY <1>6 DEF EvictTimedOut, Shape, CallRec, Holding, Kept
<1>7. ASSUME NEW i \in Calls, Send(i) PROVE Kept
  BY <1>7 DEF Send, Shape, CallRec, Holding, Kept
<1>8. ASSUME NEW i \in Calls, GiveUp(i) PROVE Kept
  BY <1>8 DEF GiveUp, Shape, CallRec, Holding, Kept
<1>9. ASSUME NEW i \in Calls, StopWaiting(i) PROVE Kept
  BY <1>9 DEF StopWaiting, Shape, CallRec, Holding, Kept
<1>10. ASSUME NEW i \in Calls, GraceOver(i) PROVE Kept
  BY <1>10 DEF GraceOver, Shape, CallRec, Holding, Kept
<1>11. ASSUME NEW i \in Calls, Answered(i) PROVE Kept
  BY <1>11 DEF Answered, Shape, CallRec, Holding, Kept
<1>12. ASSUME NEW i \in Calls, Return(i) PROVE Kept \/ Given(i)
  BY <1>12 DEF Return, NoCall, Shape, CallRec, Holding, Kept, Given, Released
<1>13. ASSUME NEW i \in Calls, EnqueueAsync(i) PROVE Kept \/ Given(i)
  BY <1>13 DEF EnqueueAsync, NoCall, Shape, CallRec, Holding, Kept, Given, Released
<1>14. ASSUME NEW i \in Calls, Enqueued(i) PROVE Kept
  BY <1>14 DEF Enqueued, Shape, CallRec, Holding, Kept
<1>15. ASSUME NEW i \in Calls, NotEnqueued(i) PROVE Kept
  BY <1>15 DEF NotEnqueued, Shape, CallRec, Holding, Kept
<1>16. ASSUME NEW i \in Calls, Attempted(i) PROVE Kept
  BY <1>16 DEF Attempted, Shape, CallRec, Holding, Kept, Calls
<1>17. ASSUME NEW i \in Calls, AsyncTimeout(i) PROVE Kept
  BY <1>17 DEF AsyncTimeout, Shape, CallRec, Holding, Kept
<1>18. ASSUME NEW i \in Calls, Finish(i) PROVE Kept \/ Given(i)
  BY <1>18 DEF Finish, NoCall, Shape, CallRec, Holding, Kept, Given, Released
<1>19. CASE Evict \/ Reset
  BY <1>19 DEF Evict, Reset, Retire, Shape, CallRec, Holding, Kept
<1>20. ASSUME NEW r \in Runtimes, RuntimeAPI(r) \/ CleanupRuntime(r) PROVE Kept
  BY <1>20 DEF RuntimeAPI, HandleNext, HandleInitError, InitDelete, HandleResult,
     CleanupRuntime, Shape, CallRec, Holding, Kept
<1>21. ASSUME Tick \/ \E p \in posting : Put(p) PROVE Kept
  BY <1>21 DEF Tick, Put, Shape, CallRec, Holding, Kept
<1>22. CASE UNCHANGED vars
  BY <1>22 DEF vars, Shape, CallRec, Holding, Kept
<1> QED
  BY <1>1, <1>2, <1>3, <1>4, <1>5, <1>6, <1>7, <1>8, <1>9, <1>10, <1>11, <1>12, <1>13, <1>14,
     <1>15, <1>16, <1>17, <1>18, <1>19, <1>20, <1>21, <1>22
     DEF Next, CallStep, SyncStep, EventStep

\* No path of an invocation loses its slot (acquireConcurrencySlot and
\* releaseConcurrencySlot in invocation.go), and once a call has timed out and
\* cleanupTimedOutRuntime has run, the runtime it was on is never current
\* again: for any numbers of calls, any limits, queue sizes and retries.
THEOREM InvokeSafe == Spec => [](NoSlotLeak /\ HungRuntimeRetired)
<1>1. Init => IInv
  BY InitIInv
<1>2. IInv /\ [Next]_vars => IInv'
  <2> SUFFICES ASSUME IInv, [Next]_vars PROVE IInv'
    OBVIOUS
  <2>1. CallInv'
    BY NextCallInv DEF IInv, CallInv
  <2>2. PICK i : Kept \/ Taken(i) \/ Given(i)
    BY NextSlots DEF IInv
  <2>3. NoSlotLeak'
    BY <2>2, SlotsCount DEF IInv, Shape
  <2> QED
    BY <2>1, <2>3 DEF IInv, CallInv
<1>3. IInv => NoSlotLeak /\ HungRuntimeRetired
  BY DEF IInv
<1> QED
  BY <1>1, <1>2, <1>3, PTL DEF Spec
-----------------------------------------------------------------------------
(* One answer for each request.                                            *)

RuntimeRec == [started : BOOLEAN, err : BOOLEAN, up : BOOLEAN,
               queue : Seq(Ids), pending : SUBSET Ids, told : SUBSET Ids]

\* What a result channel carries.
Results == Answers \cup {InitError}

\* The runtimes, the result channels and the POSTs under way.
ApiTypes ==
  /\ rt \in [Runtimes -> RuntimeRec]
  /\ posting \subseteq Ids \X Answers
  /\ result \in [Ids -> Seq(Results)]

\* Calls that have a runtime, or needed none.
Served == {i \in Calls : call[i].pc \notin {"idle", "lookup"}}

\* A call registers at most one runtime.
Registered == made <= Cardinality(Served)

\* An attempt after the last is never made.
AttemptsBounded == \A i \in Calls : call[i].att <= MaxRetries

\* Where a call stands before it puts its current attempt in the queue.
BeforePush == {"idle", "lookup", "start", "unmap", "fail", "send", "enqueue", "retry"}

\* The attempt is still to come.
Unused(id) ==
  \/ call[id[1]].pc \in BeforePush /\ call[id[1]].att <= id[2]
  \/ call[id[1]].pc = "wait" /\ call[id[1]].att < id[2]

\* The request is with the container or with a POST of it, or answered, or it was.
Outside(id) ==
  \/ \E r \in Runtimes : id \in rt[r].pending
  \/ \E p \in posting : p[1] = id
  \/ result[id] # <<>>
  \/ id \in intime

\* A POST has answered it.
Posted(id) == \E a \in Answers : result[id] = <<a>>

\* A request stands in one queue once ...
QueuedOnce ==
  \A r, s \in Runtimes : \A k \in DOMAIN rt[r].queue, l \in DOMAIN rt[s].queue :
    rt[r].queue[k] = rt[s].queue[l] => r = s /\ k = l

\* ... and not while it is outside.
QueuedAlone ==
  \A r \in Runtimes : \A k \in DOMAIN rt[r].queue : ~Outside(rt[r].queue[k])

\* One runtime has it pending.
PendingOnce ==
  \A id \in Ids, r, s \in Runtimes :
    id \in rt[r].pending /\ id \in rt[s].pending => r = s

\* No POST has claimed or answered a pending request.
PendingAlone ==
  \A id \in Ids, r \in Runtimes :
    id \in rt[r].pending
      => ~Posted(id) /\ id \notin intime /\ \A p \in posting : p[1] # id

\* One POST has claimed it, and none has answered it yet.
ClaimedOnce ==
  \A p, q \in posting : p[1] = q[1] => p = q
ClaimedAlone ==
  \A p \in posting : ~Posted(p[1])

\* There is one answer at most in a channel.
AnsweredOnce ==
  \A id \in Ids : result[id] = <<>> \/ \E a \in Results : result[id] = <<a>>

\* An attempt still to come is nowhere.
UnusedNowhere ==
  \A id \in Ids :
    Unused(id) =>
      /\ ~Outside(id)
      /\ \A r \in Runtimes : \A k \in DOMAIN rt[r].queue : rt[r].queue[k] # id

OneInv == /\ QueuedOnce /\ QueuedAlone /\ PendingOnce /\ PendingAlone /\ ClaimedOnce
          /\ ClaimedAlone /\ AnsweredOnce /\ UnusedNowhere

AnswerInv == CallInv /\ ApiTypes /\ Registered /\ AttemptsBounded /\ OneInv

\* Everything starts empty.
LEMMA InitAnswer == Init => AnswerInv
<1> SUFFICES ASSUME Init PROVE AnswerInv
  OBVIOUS
<1>1. CallInv
  BY InitIInv DEF IInv, CallInv
<1>2. ApiTypes
  BY DEF Init, ApiTypes, RuntimeRec, Fresh
<1>3. Registered
  <2>1. IsFiniteSet(Calls) /\ Served \in SUBSET Calls
    BY InvokeAssumption, FS_Union DEF Calls, Served
  <2>2. Cardinality(Served) \in Nat
    BY <2>1, FS_Subset, FS_CardinalityType
  <2> QED  BY <2>2 DEF Init, Registered
<1>4. AttemptsBounded
  BY InvokeAssumption DEF Init, AttemptsBounded, NoCall
<1>5. OneInv
  BY DEF Init, Fresh, OneInv, QueuedOnce, QueuedAlone, PendingOnce, PendingAlone, ClaimedOnce,
     ClaimedAlone, AnsweredOnce, UnusedNowhere, Outside, Posted
<1> QED
  BY <1>1, <1>2, <1>3, <1>4, <1>5 DEF AnswerInv
-----------------------------------------------------------------------------
\* A step makes no call unserved, and serves the one that registers a runtime.
LEMMA ServedGrows ==
  ASSUME Shape, [Next]_vars
  PROVE  /\ Served \subseteq Served'
         /\ made' # made => made' = made + 1 /\ Served' # Served
<1> USE DEF To, Stop, Done, Served, Shape, CallRec
<1>1. ASSUME NEW i \in Calls, Acquire(i)
      PROVE  Served \subseteq Served' /\ made' = made
  BY <1>1 DEF Acquire
<1>2. ASSUME NEW i \in Calls, Lookup(i)
      PROVE  Served \subseteq Served' /\ i \in Served' \ Served /\ made' \in {made, made + 1}
  BY <1>2 DEF Lookup
<1>3. ASSUME NEW i \in Calls, Start(i) \/ Unmap(i)
      PROVE  Served \subseteq Served' /\ made' = made
  BY <1>3 DEF Start, Unmap
<1>4. ASSUME NEW i \in Calls, StartFailed(i) \/ EvictTimedOut(i)
      PROVE  Served \subseteq Served' /\ made' = made
  BY <1>4 DEF StartFailed, EvictTimedOut, NoCall
<1>5. ASSUME NEW i \in Calls, Send(i) \/ GiveUp(i) \/ StopWaiting(i) \/ GraceOver(i)
      PROVE  Served \subseteq Served' /\ made' = made
  <2>1. CASE Send(i) \/ GiveUp(i)
    BY <2>1 DEF Send, GiveUp
  <2>2. CASE StopWaiting(i)
    BY <2>2 DEF StopWaiting, AfterTimer
  <2>3. CASE GraceOver(i)
    BY <2>3 DEF GraceOver, AfterTimer
  <2> QED  BY <1>5, <2>1, <2>2, <2>3
<1>6. ASSUME NEW i \in Calls, Answered(i) \/ Return(i) \/ Finish(i)
      PROVE  Served \subseteq Served' /\ made' = made
  BY <1>6 DEF Answered, Return, Finish, NoCall
<1>7. ASSUME NEW i \in Calls, EnqueueAsync(i) \/ Enqueued(i) \/ NotEnqueued(i)
      PROVE  Served \subseteq Served' /\ made' = made
  BY <1>7 DEF EnqueueAsync, Enqueued, NotEnqueued, NoCall
<1>8. ASSUME NEW i \in Calls, Attempted(i) \/ AsyncTimeout(i)
      PROVE  Served \subseteq Served' /\ made' = made
  <2>1. CASE Attempted(i)
    <3>1. call[i].pc = "wait" /\ made' = made
      BY <2>1 DEF Attempted
    <3>2. CASE call' = [call EXCEPT ![i].pc = "finish"]
      BY <3>1, <3>2
    <3>3. CASE call' = [call EXCEPT ![i].pc = "retry", ![i].att = @ + 1]
      BY <3>1, <3>3
    <3> QED  BY <2>1, <3>2, <3>3 DEF Attempted
  <2>2. CASE AsyncTimeout(i)
    BY <2>2 DEF AsyncTimeout
  <2> QED  BY <1>8, <2>1, <2>2
<1>9. ASSUME UNCHANGED <<call, made>>
      PROVE  Served \subseteq Served' /\ made' = made
  BY <1>9
<1> HIDE DEF To, Stop, Done, Served, Shape, CallRec
<1>10. made \in Nat
  BY DEF Shape
<1> QED
  BY <1>1, <1>2, <1>3, <1>4, <1>5, <1>6, <1>7, <1>8, <1>9, <1>10
     DEF Next, CallStep, SyncStep, EventStep, RuntimeAPI, HandleNext, HandleInitError,
         InitDelete, HandleResult, CleanupRuntime, Put, Evict, Reset, Tick, vars

\* So the runtimes are at most as many as the calls.
LEMMA RegisteredStep ==
  ASSUME Shape, Registered, [Next]_vars
  PROVE  Registered'
<1>1. IsFiniteSet(Calls) /\ Served' \in SUBSET Calls
  BY InvokeAssumption, FS_Union DEF Calls, Served
<1>2. IsFiniteSet(Served') /\ Cardinality(Served') \in Nat
  BY <1>1, FS_Subset, FS_CardinalityType
<1>3. Served \subseteq Served' /\ (made' # made => made' = made + 1 /\ Served' # Served)
  BY ServedGrows
<1>4. Cardinality(Served) \in Nat /\ Cardinality(Served) <= Cardinality(Served')
  BY <1>2, <1>3, FS_Subset, FS_CardinalityType
<1>5. Served' # Served => Cardinality(Served) < Cardinality(Served')
  BY <1>2, <1>3, <1>4, FS_Subset
<1>6. made \in Nat
  BY DEF Shape
<1> QED
  BY <1>3, <1>4, <1>5, <1>6, <1>2 DEF Registered

\* The runtime of a call that has one is among those modelled.
LEMMA OwnRuntime ==
  ASSUME Shape, HasRuntime, Registered, NEW i \in Calls,
         call[i].pc \notin {"idle", "lookup", "fail", "return", "done"}
  PROVE  call[i].rt \in Runtimes
<1>1. IsFiniteSet(Calls) /\ Served \in SUBSET Calls
  BY InvokeAssumption, FS_Union DEF Calls, Served
<1>2. Cardinality(Served) <= Cardinality(Calls) /\ Cardinality(Served) \in Nat
      /\ Cardinality(Calls) \in Nat
  BY <1>1, FS_Subset, FS_CardinalityType
<1>3. call[i].rt \in Nat /\ call[i].rt <= made /\ call[i].rt # 0 /\ made \in Nat
  BY DEF HasRuntime, Shape, CallRec, NoRuntime
<1> QED
  BY <1>2, <1>3 DEF Runtimes, Registered

\* The current attempt of a call is a request.
LEMMA IdType ==
  ASSUME Shape, AttemptsBounded, NEW i \in Calls
  PROVE  Id(i) \in Ids
<1>1. call[i].att \in Nat /\ call[i].att <= MaxRetries
  BY DEF Shape, CallRec, AttemptsBounded
<1>2. call[i].att \in 0 .. MaxRetries
  BY <1>1, InvokeAssumption
<1> QED
  BY <1>2 DEF Id, Ids

\* Attempts do not come back: what is still to come after a step was before.
CallsAge == \A id \in Ids : Unused(id)' => Unused(id)

\* The calls other than i, and what i goes on with.
Advanced(i, c) ==
  /\ call' = [call EXCEPT ![i] = c]
  /\ c.att <= MaxRetries
  /\ \A n \in 0 .. MaxRetries :
       \/ c.pc \in BeforePush /\ c.att <= n
       \/ c.pc = "wait" /\ c.att < n
       => \/ call[i].pc \in BeforePush /\ call[i].att <= n
          \/ call[i].pc = "wait" /\ call[i].att < n

\* A call that advances keeps the attempts apart.
LEMMA AdvancedAge ==
  ASSUME Shape, AttemptsBounded, NEW i \in Calls, NEW c, Advanced(i, c)
  PROVE  AttemptsBounded' /\ CallsAge
<1>1. call'[i] = c /\ \A j \in Calls \ {i} : call'[j] = call[j]
  BY DEF Advanced, Shape
<1>2. AttemptsBounded'
  BY <1>1 DEF Advanced, AttemptsBounded
<1>3. ASSUME NEW id \in Ids, Unused(id)' PROVE Unused(id)
  <2>1. id[1] \in Calls /\ id[2] \in 0 .. MaxRetries
    BY DEF Ids
  <2>2. CASE id[1] = i
    BY <1>1, <1>3, <2>1, <2>2 DEF Advanced, Unused
  <2>3. CASE id[1] # i
    BY <1>1, <1>3, <2>1, <2>3 DEF Unused
  <2> QED  BY <2>2, <2>3
<1> QED
  BY <1>2, <1>3 DEF CallsAge

\* Where a call goes from each place; only scheduleAsyncRetry goes back, with
\* the next attempt.
LEMMA AgeStep ==
  ASSUME Shape, AttemptsBounded, [Next]_vars
  PROVE  AttemptsBounded' /\ CallsAge
<1> DEFINE P == AttemptsBounded' /\ CallsAge
<1>a. MaxRetries \in Nat
  BY InvokeAssumption
<1>b. ASSUME NEW i \in Calls, NEW pc, To(i, pc),
             pc \in BeforePush => call[i].pc \in BeforePush,
             pc = "wait" => call[i].pc \in BeforePush
      PROVE  P
  <2>1. Advanced(i, [call[i] EXCEPT !.pc = pc])
    BY <1>b DEF To, Advanced, Shape, CallRec, AttemptsBounded, BeforePush
  <2> QED  BY <2>1, AdvancedAge
<1>c. ASSUME NEW i \in Calls, NEW pc, NEW out, Stop(i, pc, out), pc \notin BeforePush, pc # "wait"
      PROVE  P
  <2>1. Advanced(i, [call[i] EXCEPT !.pc = pc, !.out = out])
    BY <1>c DEF Stop, Advanced, Shape, CallRec, AttemptsBounded
  <2> QED  BY <2>1, AdvancedAge
<1>d. ASSUME NEW i \in Calls, Done(i) PROVE P
  <2>1. Advanced(i, [NoCall EXCEPT !.pc = "done"])
    BY <1>d, <1>a DEF Done, NoCall, Advanced, BeforePush
  <2> QED  BY <2>1, AdvancedAge
<1>1. ASSUME NEW i \in Calls, Acquire(i) PROVE P
  <2>1. call[i].pc = "idle"
    BY <1>1 DEF Acquire
  <2>2. CASE To(i, "lookup")
    BY <2>1, <2>2, <1>b DEF BeforePush
  <2>3. CASE call' = [call EXCEPT ![i].pc = "lookup", ![i].tracked = TRUE]
    <3>1. Advanced(i, [call[i] EXCEPT !.pc = "lookup", !.tracked = TRUE])
      BY <2>1, <2>3 DEF Advanced, Shape, CallRec, AttemptsBounded, BeforePush
    <3> QED  BY <3>1, AdvancedAge
  <2> QED  BY <1>1, <1>d, <2>2, <2>3 DEF Acquire
<1>2. ASSUME NEW i \in Calls, Lookup(i) PROVE P
  <2>1. call[i].pc = "lookup"
    BY <1>2 DEF Lookup
  <2>2. ASSUME NEW r, call' = [call EXCEPT ![i].pc = "start", ![i].rt = r] PROVE P
    <3> DEFINE c == [call[i] EXCEPT !.pc = "start", !.rt = r]
    <3>1. c.pc = "start" /\ c.att = call[i].att
      BY DEF Shape, CallRec
    <3>2. call' = [call EXCEPT ![i] = c]
      BY <2>2
    <3> HIDE DEF c
    <3>3. Advanced(i, c)
      BY <2>1, <3>1, <3>2 DEF Advanced, AttemptsBounded, BeforePush
    <3> QED  BY <3>3, AdvancedAge
  <2>3. CASE To(i, "fail")
    BY <2>1, <2>3, <1>b DEF BeforePush
  <2> QED  BY <1>2, <2>2, <2>3 DEF Lookup
<1>3. ASSUME NEW i \in Calls, Start(i) \/ Unmap(i) PROVE P
  BY <1>3, <1>b DEF Start, Unmap, BeforePush
<1>4. ASSUME NEW i \in Calls, StartFailed(i) \/ EvictTimedOut(i) PROVE P
  BY <1>4, <1>b, <1>d DEF StartFailed, EvictTimedOut, BeforePush
<1>5. ASSUME NEW i \in Calls, Send(i) \/ GiveUp(i) \/ GraceOver(i) PROVE P
  BY <1>5, <1>b DEF Send, GiveUp, GraceOver, AfterTimer, BeforePush
<1>6. ASSUME NEW i \in Calls, StopWaiting(i) PROVE P
  <2>1. PICK pc, out : Stop(i, pc, out) /\ pc \in {"evict", "return", "grace"}
    BY <1>6 DEF StopWaiting, AfterTimer
  <2> QED  BY <2>1, <1>c DEF BeforePush
<1>7. ASSUME NEW i \in Calls, Answered(i) \/ AsyncTimeout(i) PROVE P
  <2>1. PICK pc, out : Stop(i, pc, out) /\ pc \in {"evict", "return"}
    BY <1>7 DEF Answered, AsyncTimeout
  <2> QED  BY <2>1, <1>c DEF BeforePush
<1>8. ASSUME NEW i \in Calls, Return(i) \/ Finish(i) PROVE P
  BY <1>8, <1>d DEF Return, Finish
<1>9. ASSUME NEW i \in Calls, EnqueueAsync(i) \/ Enqueued(i) \/ NotEnqueued(i) PROVE P
  BY <1>9, <1>b, <1>d DEF EnqueueAsync, Enqueued, NotEnqueued, BeforePush
<1>10. ASSUME NEW i \in Calls, Attempted(i) PROVE P
  <2>1. CASE To(i, "finish")
    BY <2>1, <1>b DEF BeforePush
  <2>2. CASE call[i].att # MaxRetries /\ call' = [call EXCEPT ![i].pc = "retry", ![i].att = @ + 1]
    <3>1. call[i].pc = "wait" /\ call[i].att \in Nat /\ call[i].att <= MaxRetries
      BY <1>10 DEF Attempted, Shape, CallRec, AttemptsBounded
    <3>2. Advanced(i, [call[i] EXCEPT !.pc = "retry", !.att = @ + 1])
      BY <2>2, <3>1, <1>a DEF Advanced, Shape, CallRec, BeforePush
    <3> QED  BY <3>2, AdvancedAge
  <2> QED  BY <1>10, <2>1, <2>2 DEF Attempted
<1>11. ASSUME UNCHANGED call PROVE P
  BY <1>11 DEF AttemptsBounded, CallsAge, Unused
<1> HIDE DEF P
<1>12. ASSUME NEW r \in Runtimes, RuntimeAPI(r) \/ CleanupRuntime(r) PROVE UNCHANGED call
  BY <1>12 DEF RuntimeAPI, HandleNext, HandleInitError, InitDelete, HandleResult, CleanupRuntime
<1>13. ASSUME Evict \/ Reset \/ Tick \/ (\E p \in posting : Put(p)) \/ UNCHANGED vars
       PROVE  UNCHANGED call
  BY <1>13 DEF Evict, Reset, Tick, Put, vars
<1>14. P
  BY <1>1, <1>2, <1>3, <1>4, <1>5, <1>6, <1>7, <1>8, <1>9, <1>10, <1>11, <1>12, <1>13
     DEF Next, CallStep, SyncStep, EventStep
<1> QED  BY <1>14 DEF P
-----------------------------------------------------------------------------
(* What a step does to the requests.                                       *)

\* Nothing is added anywhere.
Fewer ==
  /\ \A r \in Runtimes : /\ rt'[r].queue = rt[r].queue
                         /\ rt'[r].pending \subseteq rt[r].pending
  /\ UNCHANGED <<posting, intime>>
  /\ \A id \in Ids : result'[id] \in {result[id], <<>>}

\* A call puts its current attempt in the queue.
Pushed(i, x) ==
  /\ x = Id(i) /\ Unused(x) /\ ~Unused(x)'
  /\ Push(i) /\ call[i].rt \in Runtimes
  /\ UNCHANGED <<posting, intime, result>>

\* A result channel with one answer is empty when it has been read.
LEMMA ReadOut ==
  ASSUME AnsweredOnce, ApiTypes, NEW id \in Ids, result[id] # <<>>
  PROVE  Tail(result[id]) = <<>>
<1>1. PICK a \in Results : result[id] = <<a>>
  BY DEF AnsweredOnce
<1> QED
  BY <1>1

\* A call that enters the queue had not been there.
LEMMA PushStep ==
  ASSUME AnswerInv, NEW i \in Calls, Push(i), To(i, "wait"),
         call[i].pc \in {"send", "enqueue", "retry"}, UNCHANGED <<posting, intime, result>>
  PROVE  \E x \in Ids : Pushed(i, x)
<1>1. call[i].rt \in Runtimes
  BY OwnRuntime DEF AnswerInv, CallInv
<1>2. Id(i) \in Ids
  BY IdType DEF AnswerInv, CallInv
<1>3. call'[i].pc = "wait" /\ call'[i].att = call[i].att /\ call[i].att \in Nat
  BY DEF To, AnswerInv, CallInv, Shape, CallRec
<1>4. PICK x \in Ids : x = <<i, call[i].att>>
  BY <1>2 DEF Id
<1>5. Unused(x) /\ ~Unused(x)'
  BY <1>3, <1>4 DEF Unused, BeforePush
<1> QED
  BY <1>1, <1>4, <1>5 DEF Pushed, Id

\* A request is taken out of the pending ones of one runtime.
LEMMA DeleteEffect ==
  ASSUME ApiTypes, NEW q, NEW x, Delete(q, x)
  PROVE  /\ rt' \in [Runtimes -> RuntimeRec]
         /\ \A r \in Runtimes :
              /\ rt'[r].queue = rt[r].queue
              /\ rt'[r].pending = IF r = q THEN rt[r].pending \ {x} ELSE rt[r].pending
<1>1. rt' = [rt EXCEPT ![q].pending = @ \ {x}, ![q].told = @ \ {x}]
  BY DEF Delete
<1>2. CASE q \in Runtimes
  <2> DEFINE c == [rt[q] EXCEPT !.pending = @ \ {x}, !.told = @ \ {x}]
  <2>1. c \in RuntimeRec /\ c.queue = rt[q].queue /\ c.pending = rt[q].pending \ {x}
    BY <1>2 DEF ApiTypes, RuntimeRec
  <2>2. rt' = [rt EXCEPT ![q] = c]
    BY <1>1, <1>2 DEF ApiTypes
  <2> HIDE DEF c
  <2> QED  BY <1>2, <2>1, <2>2 DEF ApiTypes
<1>3. CASE q \notin Runtimes
  <2>1. rt' = rt
    BY <1>1, <1>3 DEF ApiTypes
  <2> QED  BY <1>3, <2>1 DEF ApiTypes
<1> QED  BY <1>2, <1>3

\* A step that only does that.
LEMMA DeleteFewer ==
  ASSUME ApiTypes, NEW q, NEW x, Delete(q, x), UNCHANGED <<posting, intime, result>>
  PROVE  Fewer
  BY DeleteEffect DEF Fewer

\* A step that leaves the Runtime API's state alone.
LEMMA SameFewer ==
  ASSUME UNCHANGED <<posting, intime, result>>,
         \A r \in Runtimes : rt'[r].queue = rt[r].queue /\ rt'[r].pending = rt[r].pending
  PROVE  Fewer
  BY DEF Fewer

\* Starting a runtime leaves its queue and its pending requests alone.
LEMMA StartRuntimes ==
  ASSUME ApiTypes, NEW i \in Calls, Start(i)
  PROVE  /\ rt' \in [Runtimes -> RuntimeRec]
         /\ \A r \in Runtimes : rt'[r].queue = rt[r].queue /\ rt'[r].pending = rt[r].pending
<1> DEFINE q == call[i].rt
<1>1. \/ rt' = rt
      \/ rt' = [rt EXCEPT ![q].started = TRUE, ![q].up = TRUE]
      \/ rt' = [rt EXCEPT ![q].started = TRUE, ![q].err = TRUE]
  BY DEF Start
<1> HIDE DEF q
<1>2. CASE rt' = rt
  BY <1>2 DEF ApiTypes
<1>3. CASE rt' = [rt EXCEPT ![q].started = TRUE, ![q].up = TRUE]
  BY <1>3 DEF ApiTypes, RuntimeRec
<1>4. CASE rt' = [rt EXCEPT ![q].started = TRUE, ![q].err = TRUE]
  BY <1>4 DEF ApiTypes, RuntimeRec
<1> QED  BY <1>1, <1>2, <1>3, <1>4

\* Every step does one of these.
LEMMA RequestEffect ==
  ASSUME AnswerInv, [Next]_vars
  PROVE  \/ Fewer
         \/ \E i \in Calls, x \in Ids : Pushed(i, x)
         \/ \E r \in Runtimes : HandleNext(r) \/ HandleInitError(r) \/ HandleResult(r)
         \/ \E p \in posting : Put(p)
<1> USE DEF AnswerInv
<1>1. ASSUME NEW i \in Calls, Acquire(i) \/ Lookup(i) \/ Unmap(i) \/ StartFailed(i)
      PROVE  Fewer
  BY <1>1, SameFewer DEF Acquire, Lookup, Unmap, StartFailed, delivery
<1>2. ASSUME NEW i \in Calls, Start(i) PROVE Fewer
  <2>1. \A r \in Runtimes : rt'[r].queue = rt[r].queue /\ rt'[r].pending = rt[r].pending
    BY <1>2, StartRuntimes
  <2> QED  BY <1>2, <2>1, SameFewer DEF Start, delivery
<1>3. ASSUME NEW i \in Calls, EvictTimedOut(i) \/ GiveUp(i) \/ GraceOver(i) \/ Return(i)
      PROVE  Fewer
  BY <1>3, SameFewer DEF EvictTimedOut, GiveUp, GraceOver, Return, delivery
<1>4. ASSUME NEW i \in Calls, Send(i) PROVE \E x \in Ids : Pushed(i, x)
  BY <1>4, PushStep DEF Send, delivery
<1>5. ASSUME NEW i \in Calls, StopWaiting(i) PROVE Fewer
  BY <1>5, DeleteFewer DEF StopWaiting, Withdraw
<1>6. ASSUME NEW i \in Calls, Answered(i) \/ Attempted(i) PROVE Fewer
  <2>1. Id(i) \in Ids
    BY IdType DEF CallInv
  <2>2. result[Id(i)] # <<>> /\ result' = [result EXCEPT ![Id(i)] = Tail(result[Id(i)])]
    BY <1>6 DEF Answered, Attempted
  <2>3. Tail(result[Id(i)]) = <<>>
    BY <2>1, <2>2, ReadOut DEF OneInv
  <2>4. \A id \in Ids : result'[id] \in {result[id], <<>>}
    BY <2>2, <2>3 DEF ApiTypes
  <2> QED  BY <1>6, <2>4 DEF Answered, Attempted, Fewer
<1>7. ASSUME NEW i \in Calls, EnqueueAsync(i) PROVE Fewer \/ \E x \in Ids : Pushed(i, x)
  BY <1>7, PushStep, SameFewer DEF EnqueueAsync, delivery
<1>8. ASSUME NEW i \in Calls, Enqueued(i) PROVE \E x \in Ids : Pushed(i, x)
  BY <1>8, PushStep DEF Enqueued, delivery
<1>9. ASSUME NEW i \in Calls, NotEnqueued(i) \/ Finish(i) PROVE Fewer
  BY <1>9, SameFewer DEF NotEnqueued, Finish, delivery
<1>10. ASSUME NEW i \in Calls, AsyncTimeout(i) PROVE Fewer
  BY <1>10, DeleteFewer DEF AsyncTimeout, Withdraw, delivery
<1>11. ASSUME NEW r \in Runtimes, CleanupRuntime(r) PROVE Fewer
  <2>1. \A s \in Runtimes : rt'[s].queue = rt[s].queue /\ rt'[s].pending = rt[s].pending
    BY <1>11 DEF CleanupRuntime, ApiTypes, RuntimeRec
  <2> QED  BY <1>11, <2>1, SameFewer DEF CleanupRuntime, delivery
<1>12. ASSUME Evict \/ Reset \/ Tick \/ UNCHANGED vars PROVE Fewer
  BY <1>12, SameFewer DEF Evict, Reset, Tick, delivery, vars
<1>13. ASSUME NEW r \in Runtimes, InitDelete(r) PROVE Fewer
  BY <1>13, DeleteFewer DEF InitDelete, delivery
<1> HIDE DEF AnswerInv
<1> QED
  BY <1>1, <1>2, <1>3, <1>4, <1>5, <1>6, <1>7, <1>8, <1>9, <1>10, <1>11, <1>12, <1>13
     DEF Next, CallStep, SyncStep, EventStep, RuntimeAPI

\* The runtimes, channels and POSTs keep their types.
LEMMA ApiTypesStep ==
  ASSUME AnswerInv, [Next]_vars
  PROVE  ApiTypes'
<1> USE DEF AnswerInv
<1>a. UNCHANGED <<rt, posting, result>> => ApiTypes'
  BY DEF ApiTypes
<1>b. ASSUME NEW i \in Calls, Push(i), UNCHANGED <<posting, result>> PROVE ApiTypes'
  <2>1. Id(i) \in Ids
    BY IdType DEF CallInv
  <2>2. rt' \in [Runtimes -> RuntimeRec]
    <3>1. CASE call[i].rt \in Runtimes
      <4>1. Append(rt[call[i].rt].queue, Id(i)) \in Seq(Ids)
        BY <2>1, <3>1, AppendProperties DEF ApiTypes, RuntimeRec
      <4> QED  BY <1>b, <4>1, ZenonT(40) DEF Push, ApiTypes, RuntimeRec
    <3>2. CASE call[i].rt \notin Runtimes
      BY <1>b, <3>2 DEF Push, ApiTypes
    <3> QED  BY <3>1, <3>2
  <2> QED  BY <1>b, <2>2 DEF ApiTypes
<1>1. ASSUME NEW i \in Calls, Acquire(i) \/ Lookup(i) \/ Unmap(i) \/ StartFailed(i)
      PROVE  ApiTypes'
  BY <1>1, <1>a DEF Acquire, Lookup, Unmap, StartFailed, delivery
<1>2. ASSUME NEW i \in Calls, Start(i) PROVE ApiTypes'
  <2>1. rt' \in [Runtimes -> RuntimeRec]
    BY <1>2, StartRuntimes
  <2> QED  BY <1>2, <2>1 DEF Start, ApiTypes, delivery
<1>3. ASSUME NEW i \in Calls, EvictTimedOut(i) \/ GiveUp(i) \/ GraceOver(i) \/ Return(i)
      PROVE  ApiTypes'
  BY <1>3, <1>a DEF EvictTimedOut, GiveUp, GraceOver, Return, delivery
<1>4. ASSUME NEW i \in Calls, Send(i) \/ Enqueued(i) PROVE ApiTypes'
  BY <1>4, <1>b DEF Send, Enqueued, delivery
<1>c. ASSUME NEW q, NEW x, Delete(q, x) PROVE rt' \in [Runtimes -> RuntimeRec]
  BY <1>c, DeleteEffect
<1>5. ASSUME NEW i \in Calls, StopWaiting(i) PROVE ApiTypes'
  <2>1. rt' \in [Runtimes -> RuntimeRec]
    BY <1>5, <1>c DEF StopWaiting, Withdraw
  <2> QED  BY <1>5, <2>1 DEF StopWaiting, ApiTypes
<1>6. ASSUME NEW i \in Calls, Answered(i) \/ Attempted(i) PROVE ApiTypes'
  <2>1. Id(i) \in Ids
    BY IdType DEF CallInv
  <2>2. result[Id(i)] # <<>> /\ result' = [result EXCEPT ![Id(i)] = Tail(result[Id(i)])]
    BY <1>6 DEF Answered, Attempted
  <2>3. Tail(result[Id(i)]) = <<>>
    BY <2>1, <2>2, ReadOut DEF OneInv
  <2>4. result' \in [Ids -> Seq(Results)]
    BY <2>2, <2>3, EmptySeq DEF ApiTypes
  <2> QED  BY <1>6, <2>4 DEF Answered, Attempted, ApiTypes
<1>7. ASSUME NEW i \in Calls, EnqueueAsync(i) PROVE ApiTypes'
  BY <1>7, <1>a, <1>b DEF EnqueueAsync, delivery
<1>9. ASSUME NEW i \in Calls, NotEnqueued(i) \/ Finish(i) PROVE ApiTypes'
  BY <1>9, <1>a DEF NotEnqueued, Finish, delivery
<1>10. ASSUME NEW i \in Calls, AsyncTimeout(i) PROVE ApiTypes'
  <2>1. rt' \in [Runtimes -> RuntimeRec]
    BY <1>10, <1>c DEF AsyncTimeout, Withdraw
  <2> QED  BY <1>10, <2>1 DEF AsyncTimeout, ApiTypes, delivery
<1>11. ASSUME NEW r \in Runtimes, CleanupRuntime(r) PROVE ApiTypes'
  <2>1. rt' \in [Runtimes -> RuntimeRec]
    BY <1>11 DEF CleanupRuntime, ApiTypes, RuntimeRec
  <2> QED  BY <1>11, <2>1 DEF CleanupRuntime, ApiTypes, delivery
<1>12. ASSUME Evict \/ Reset \/ Tick \/ UNCHANGED vars PROVE ApiTypes'
  BY <1>12, <1>a DEF Evict, Reset, Tick, delivery, vars
<1>13. ASSUME NEW r \in Runtimes, HandleNext(r) PROVE ApiTypes'
  <2>1. rt[r].queue \in Seq(Ids) /\ rt[r].queue # <<>>
    BY <1>13 DEF HandleNext, ApiTypes, RuntimeRec
  <2>2. Head(rt[r].queue) \in Ids /\ Tail(rt[r].queue) \in Seq(Ids)
    BY <2>1, HeadTailProperties
  <2>3. rt' \in [Runtimes -> RuntimeRec]
    BY <1>13, <2>2 DEF HandleNext, ApiTypes, RuntimeRec
  <2> QED  BY <1>13, <2>3 DEF HandleNext, ApiTypes, delivery
<1>14. ASSUME NEW r \in Runtimes, HandleInitError(r) PROVE ApiTypes'
  <2>1. PICK id \in rt[r].pending :
          /\ rt' = [rt EXCEPT ![r].told = @ \cup {id}]
          /\ result' = [result EXCEPT ![id] = IF @ = <<>> THEN <<InitError>> ELSE @]
    BY <1>14 DEF HandleInitError
  <2>2. rt' \in [Runtimes -> RuntimeRec]
    BY <2>1 DEF ApiTypes, RuntimeRec
  <2>3. <<InitError>> \in Seq(Results)
    BY DEF Results
  <2>4. result' \in [Ids -> Seq(Results)]
    BY <2>1, <2>3 DEF ApiTypes
  <2> QED  BY <1>14, <2>2, <2>4 DEF HandleInitError, ApiTypes
<1>15. ASSUME NEW r \in Runtimes, HandleResult(r) PROVE ApiTypes'
  <2>1. PICK id \in rt[r].pending, a \in Answers :
          posting' = posting \cup {<<id, a>>} /\ Delete(r, id)
    BY <1>15 DEF HandleResult, AnswersTo, Answers
  <2>2. rt' \in [Runtimes -> RuntimeRec]
    BY <2>1, <1>c
  <2>3. posting' \subseteq Ids \X Answers
    BY <2>1 DEF ApiTypes, RuntimeRec
  <2> QED  BY <1>15, <2>2, <2>3 DEF HandleResult, ApiTypes
<1>16. ASSUME NEW p \in posting, Put(p) PROVE ApiTypes'
  <2>1. p[1] \in Ids /\ p[2] \in Answers
    BY DEF ApiTypes
  <2>2. <<p[2]>> \in Seq(Results)
    BY <2>1 DEF Results
  <2>3. result' \in [Ids -> Seq(Results)]
    BY <1>16, <2>2 DEF Put, ApiTypes
  <2> QED  BY <1>16, <2>3 DEF Put, ApiTypes
<1>17. ASSUME NEW r \in Runtimes, InitDelete(r) PROVE ApiTypes'
  <2>1. rt' \in [Runtimes -> RuntimeRec]
    BY <1>17, <1>c DEF InitDelete
  <2> QED  BY <1>17, <2>1 DEF InitDelete, ApiTypes, delivery
<1> HIDE DEF AnswerInv
<1> QED
  BY <1>1, <1>2, <1>3, <1>4, <1>5, <1>6, <1>7, <1>9, <1>10, <1>11, <1>12, <1>13,
     <1>14, <1>15, <1>16, <1>17
     DEF Next, CallStep, SyncStep, EventStep, RuntimeAPI
-----------------------------------------------------------------------------
(* A request stays in one place, effect by effect.                         *)

\* Nothing new anywhere.
LEMMA FewerOne ==
  ASSUME AnswerInv, CallsAge, Fewer
  PROVE  OneInv'
<1>1. \A r \in Runtimes : rt'[r].queue = rt[r].queue /\ rt'[r].pending \subseteq rt[r].pending
  BY DEF Fewer
<1>2. /\ posting' = posting /\ intime' = intime
      /\ \A id \in Ids : result'[id] \in {result[id], <<>>}
  BY DEF Fewer
<1>3. ApiTypes /\ OneInv
  BY DEF AnswerInv
<1>4. \A id \in Ids : Outside(id)' => Outside(id)
  BY <1>1, <1>2 DEF Outside
<1>5. \A r \in Runtimes : \A k \in DOMAIN rt[r].queue : rt[r].queue[k] \in Ids
  BY <1>3, ElementOfSeq DEF ApiTypes, RuntimeRec
<1>6. QueuedOnce' /\ QueuedAlone'
  BY <1>1, <1>3, <1>4, <1>5 DEF OneInv, QueuedOnce, QueuedAlone
<1>p. ASSUME NEW id \in Ids, Posted(id)' PROVE Posted(id)
  <2>1. PICK a \in Answers : result'[id] = <<a>>
    BY <1>p DEF Posted
  <2>2. <<a>> # <<>>
    OBVIOUS
  <2> QED  BY <1>2, <2>1, <2>2 DEF Posted
<1>7. PendingOnce' /\ PendingAlone'
  BY <1>1, <1>2, <1>3, <1>p DEF OneInv, PendingOnce, PendingAlone
<1>8. ClaimedOnce' /\ ClaimedAlone' /\ AnsweredOnce'
  BY <1>2, <1>3, <1>p DEF OneInv, ClaimedOnce, ClaimedAlone, AnsweredOnce, ApiTypes
<1>9. UnusedNowhere'
  BY <1>1, <1>3, <1>4 DEF OneInv, UnusedNowhere, CallsAge
<1> QED
  BY <1>6, <1>7, <1>8, <1>9 DEF OneInv

\* A new request at the end of a queue.
LEMMA PushedOne ==
  ASSUME AnswerInv, CallsAge, NEW i \in Calls, NEW x \in Ids, Pushed(i, x)
  PROVE  OneInv'
<1> DEFINE q == call[i].rt
<1>1. q \in Runtimes /\ x \in Ids /\ Unused(x) /\ UNCHANGED <<posting, intime, result>>
  BY DEF Pushed
<1>2. rt' = [rt EXCEPT ![q].queue = Append(@, x)]
  BY DEF Pushed, Push
<1>3. ApiTypes /\ OneInv
  BY DEF AnswerInv
<1>x. ~Unused(x)'
  BY DEF Pushed
<1> HIDE DEF q
<1>4. rt[q].queue \in Seq(Ids)
  BY <1>1, <1>3 DEF ApiTypes, RuntimeRec
<1>5. \A r \in Runtimes : rt'[r].pending = rt[r].pending
  BY <1>1, <1>2, <1>3 DEF ApiTypes, RuntimeRec
<1>6. \A r \in Runtimes \ {q} : rt'[r].queue = rt[r].queue
  BY <1>1, <1>2, <1>3 DEF ApiTypes, RuntimeRec
<1>7. rt'[q].queue = Append(rt[q].queue, x)
  BY <1>1, <1>2, <1>3 DEF ApiTypes, RuntimeRec
<1>8. \A id : Outside(id)' <=> Outside(id)
  BY <1>1, <1>5 DEF Outside
<1>9. \A r \in Runtimes : \A k \in DOMAIN rt[r].queue : rt[r].queue[k] \in Ids
  BY <1>3, ElementOfSeq DEF ApiTypes, RuntimeRec
<1>10. /\ ~Outside(x)
       /\ \A r \in Runtimes : \A k \in DOMAIN rt[r].queue : rt[r].queue[k] # x
  BY <1>1, <1>3 DEF OneInv, UnusedNowhere
<1>11. \A r \in Runtimes : \A k \in DOMAIN rt'[r].queue :
         \/ k \in DOMAIN rt[r].queue /\ rt'[r].queue[k] = rt[r].queue[k]
         \/ r = q /\ k = Len(rt[q].queue) + 1 /\ rt'[r].queue[k] = x
  <2> TAKE r \in Runtimes
  <2> TAKE k \in DOMAIN rt'[r].queue
  <2>1. CASE r # q
    BY <2>1, <1>6
  <2>2. CASE r = q
    <3>1. Len(rt[q].queue) \in Nat /\ DOMAIN rt[q].queue = 1 .. Len(rt[q].queue)
      BY <1>4, LenProperties
    <3>2. k \in 1 .. Len(rt[q].queue) + 1
      BY <2>2, <1>7, <1>4, <1>1, <3>1, AppendProperties, LenProperties
    <3>3. CASE k = Len(rt[q].queue) + 1
      BY <3>3, <2>2, <1>7, <1>4, <1>1, AppendProperties
    <3>4. CASE k \in 1 .. Len(rt[q].queue)
      BY <3>4, <3>1, <2>2, <1>7, <1>4, <1>1, AppendProperties
    <3> QED  BY <3>1, <3>2, <3>3, <3>4
  <2> QED  BY <2>1, <2>2
<1>12. QueuedOnce'
  BY <1>10, <1>11, <1>3 DEF OneInv, QueuedOnce
<1>13. QueuedAlone'
  BY <1>8, <1>10, <1>11, <1>3 DEF OneInv, QueuedAlone
<1>14. PendingOnce' /\ PendingAlone'
  BY <1>1, <1>5, <1>3 DEF OneInv, PendingOnce, PendingAlone, Posted
<1>15. ClaimedOnce' /\ ClaimedAlone' /\ AnsweredOnce'
  BY <1>1, <1>3 DEF OneInv, ClaimedOnce, ClaimedAlone, AnsweredOnce, Posted
<1>16. UnusedNowhere'
  <2> SUFFICES ASSUME NEW id \in Ids, Unused(id)'
               PROVE  /\ ~Outside(id)'
                      /\ \A r \in Runtimes : \A k \in DOMAIN rt'[r].queue : rt'[r].queue[k] # id
    BY DEF UnusedNowhere
  <2>1. Unused(id) /\ id # x
    BY <1>x DEF CallsAge
  <2>2. /\ ~Outside(id)
        /\ \A r \in Runtimes : \A k \in DOMAIN rt[r].queue : rt[r].queue[k] # id
    BY <2>1, <1>3 DEF OneInv, UnusedNowhere
  <2> QED  BY <2>1, <2>2, <1>8, <1>11
<1> QED
  BY <1>12, <1>13, <1>14, <1>15, <1>16 DEF OneInv

\* handleNext: from the head of the queue to the pending requests.
LEMMA NextOne ==
  ASSUME AnswerInv, CallsAge, NEW q \in Runtimes, HandleNext(q)
  PROVE  OneInv'
<1> DEFINE x == Head(rt[q].queue)
<1>1. /\ rt[q].queue # <<>> /\ UNCHANGED <<posting, intime, result>>
      /\ rt' = [rt EXCEPT ![q].queue = Tail(@), ![q].pending = @ \cup {x}]
  BY DEF HandleNext, delivery
<1>3. ApiTypes /\ OneInv
  BY DEF AnswerInv
<1>4. rt[q].queue \in Seq(Ids)
  BY <1>3 DEF ApiTypes, RuntimeRec
<1>5. /\ 1 \in DOMAIN rt[q].queue /\ x = rt[q].queue[1] /\ x \in Ids
      /\ Len(rt[q].queue) \in Nat \ {0} /\ DOMAIN rt[q].queue = 1 .. Len(rt[q].queue)
      /\ Tail(rt[q].queue) \in Seq(Ids)
      /\ Len(Tail(rt[q].queue)) = Len(rt[q].queue) - 1
      /\ \A k \in 1 .. Len(Tail(rt[q].queue)) : Tail(rt[q].queue)[k] = rt[q].queue[k + 1]
  BY <1>1, <1>4, HeadTailProperties, LenProperties, EmptySeq
<1> HIDE DEF x
<1>6. \A r \in Runtimes \ {q} : rt'[r] = rt[r]
  BY <1>1, <1>3 DEF ApiTypes
<1>7. rt'[q].queue = Tail(rt[q].queue) /\ rt'[q].pending = rt[q].pending \cup {x}
  BY <1>1, <1>3 DEF ApiTypes, RuntimeRec
<1>8. \A id : Outside(id)' => Outside(id) \/ id = x
  BY <1>1, <1>6, <1>7 DEF Outside
<1>9. \A r \in Runtimes : \A k \in DOMAIN rt[r].queue : rt[r].queue[k] \in Ids
  BY <1>3, ElementOfSeq DEF ApiTypes, RuntimeRec
<1>10. ~Outside(x)
  BY <1>3, <1>5 DEF OneInv, QueuedAlone
<1>11. \A r \in Runtimes : \A k \in DOMAIN rt'[r].queue :
         \/ r # q /\ k \in DOMAIN rt[r].queue /\ rt'[r].queue[k] = rt[r].queue[k]
         \/ r = q /\ k \in Nat \ {0} /\ k + 1 \in DOMAIN rt[r].queue
            /\ rt'[r].queue[k] = rt[r].queue[k + 1]
  <2> TAKE r \in Runtimes
  <2> TAKE k \in DOMAIN rt'[r].queue
  <2>1. CASE r # q
    BY <2>1, <1>6
  <2>2. CASE r = q
    <3>1. k \in 1 .. Len(rt[q].queue) - 1
      BY <2>2, <1>5, <1>7, LenProperties
    <3> QED  BY <2>2, <3>1, <1>5, <1>7
  <2> QED  BY <2>1, <2>2
<1>12. QueuedOnce'
  <2> SUFFICES ASSUME NEW r \in Runtimes, NEW s \in Runtimes,
                      NEW k \in DOMAIN rt'[r].queue, NEW l \in DOMAIN rt'[s].queue,
                      rt'[r].queue[k] = rt'[s].queue[l]
               PROVE  r = s /\ k = l
    BY DEF QueuedOnce
  <2> QED  BY <1>11, <1>3 DEF OneInv, QueuedOnce
<1>13. \A r \in Runtimes : \A k \in DOMAIN rt'[r].queue : rt'[r].queue[k] # x
  <2> SUFFICES ASSUME NEW r \in Runtimes, NEW k \in DOMAIN rt'[r].queue, rt'[r].queue[k] = x
               PROVE  FALSE
    OBVIOUS
  <2> QED  BY <1>5, <1>11, <1>3 DEF OneInv, QueuedOnce
<1>14. QueuedAlone'
  <2> SUFFICES ASSUME NEW r \in Runtimes, NEW k \in DOMAIN rt'[r].queue,
                      NEW y, y = rt'[r].queue[k]
               PROVE  ~Outside(y)'
    BY DEF QueuedAlone, Outside
  <2>1. ~Outside(y)
    BY <1>11, <1>3 DEF OneInv, QueuedAlone
  <2> QED  BY <2>1, <1>8, <1>13
<1>15. PendingOnce' /\ PendingAlone'
  <2>1. /\ \A r \in Runtimes : x \notin rt[r].pending
        /\ ~Posted(x) /\ x \notin intime /\ \A p \in posting : p[1] # x
    BY <1>10 DEF Outside, Posted
  <2>p. \A id : Posted(id)' <=> Posted(id)
    BY <1>1 DEF Posted
  <2>2. PendingOnce'
    BY <1>6, <1>7, <2>1, <1>3 DEF OneInv, PendingOnce
  <2>3. PendingAlone'
    BY <1>1, <1>6, <1>7, <2>1, <2>p, <1>3, ZenonT(40) DEF OneInv, PendingAlone
  <2> QED  BY <2>2, <2>3
<1>16. ClaimedOnce' /\ ClaimedAlone' /\ AnsweredOnce'
  BY <1>1, <1>3 DEF OneInv, ClaimedOnce, ClaimedAlone, AnsweredOnce, Posted
<1>17. UnusedNowhere'
  <2> SUFFICES ASSUME NEW id \in Ids, Unused(id)'
               PROVE  /\ ~Outside(id)'
                      /\ \A r \in Runtimes : \A k \in DOMAIN rt'[r].queue : rt'[r].queue[k] # id
    BY DEF UnusedNowhere
  <2>1. /\ ~Outside(id)
        /\ \A r \in Runtimes : \A k \in DOMAIN rt[r].queue : rt[r].queue[k] # id
    BY <1>3 DEF OneInv, UnusedNowhere, CallsAge
  <2>2. id # x
    BY <2>1, <1>5
  <2> QED  BY <2>1, <2>2, <1>8, <1>11
<1> QED
  BY <1>12, <1>14, <1>15, <1>16, <1>17 DEF OneInv

\* What the answers of the container have in common: only one request moves,
\* which was outside before, and no two POSTs answer it.
Moved(x) ==
  /\ x \in Ids /\ Outside(x)
  /\ \A r \in Runtimes : /\ rt'[r].queue = rt[r].queue
                         /\ rt'[r].pending \subseteq rt[r].pending
  /\ \A p : p[1] # x => (p \in posting' <=> p \in posting)
  /\ \A id \in Ids \ {x} : result'[id] = result[id] /\ (id \in intime' <=> id \in intime)
  /\ AnsweredOnce'
  /\ \A p, s \in posting' : p[1] = x /\ s[1] = x => p = s
  /\ \A p \in posting' : p[1] = x => ~Posted(x)'
  /\ (\E r \in Runtimes : x \in rt'[r].pending)
       => ~Posted(x)' /\ x \notin intime' /\ \A p \in posting' : p[1] # x

\* Such a move keeps every request in one place.
LEMMA MovedOne ==
  ASSUME AnswerInv, CallsAge, ApiTypes', NEW x, Moved(x)
  PROVE  OneInv'
<1>1. /\ x \in Ids /\ Outside(x)
      /\ \A r \in Runtimes : /\ rt'[r].queue = rt[r].queue
                             /\ rt'[r].pending \subseteq rt[r].pending
  BY DEF Moved
<1>2. /\ \A p : p[1] # x => (p \in posting' <=> p \in posting)
      /\ \A id \in Ids \ {x} : result'[id] = result[id] /\ (id \in intime' <=> id \in intime)
  BY DEF Moved
<1>p. \A id \in Ids \ {x} : Posted(id)' <=> Posted(id)
  BY <1>2 DEF Posted
<1>3. ApiTypes /\ OneInv
  BY DEF AnswerInv
<1>4. \A id \in Ids : Outside(id)' => Outside(id)
  BY <1>1, <1>2 DEF Outside
<1>5. \A r \in Runtimes : \A k \in DOMAIN rt[r].queue : rt[r].queue[k] \in Ids
  BY <1>3, ElementOfSeq DEF ApiTypes, RuntimeRec
<1>6. QueuedOnce' /\ QueuedAlone'
  BY <1>1, <1>3, <1>4, <1>5 DEF OneInv, QueuedOnce, QueuedAlone
<1>7. PendingOnce'
  BY <1>1, <1>3 DEF OneInv, PendingOnce
<1>8. PendingAlone'
  <2> SUFFICES ASSUME NEW id \in Ids, NEW r \in Runtimes, id \in rt'[r].pending
               PROVE  ~Posted(id)' /\ id \notin intime' /\ \A p \in posting' : p[1] # id
    BY DEF PendingAlone
  <2>1. CASE id = x
    BY <2>1 DEF Moved
  <2>2. CASE id # x
    BY <2>2, <1>1, <1>2, <1>3, <1>p DEF OneInv, PendingAlone
  <2> QED  BY <2>1, <2>2
<1>9. ClaimedOnce' /\ AnsweredOnce'
  BY <1>2, <1>3 DEF OneInv, ClaimedOnce, Moved
<1>10. ClaimedAlone'
  <2> SUFFICES ASSUME NEW p \in posting', NEW id, id = p[1] PROVE ~Posted(id)'
    BY DEF ClaimedAlone, Posted
  <2>1. id \in Ids
    BY DEF ApiTypes
  <2>2. CASE id = x
    BY <2>2 DEF Moved
  <2>3. CASE id # x
    BY <2>1, <2>3, <1>2, <1>3, <1>p DEF OneInv, ClaimedAlone
  <2> QED  BY <2>2, <2>3
<1>11. UnusedNowhere'
  BY <1>1, <1>3, <1>4 DEF OneInv, UnusedNowhere, CallsAge
<1> QED
  BY <1>6, <1>7, <1>8, <1>9, <1>10, <1>11 DEF OneInv

\* handleInitError, handleInvocationResult and its send are such moves.
LEMMA AnswerMoves ==
  ASSUME AnswerInv
  PROVE  /\ \A r \in Runtimes : HandleInitError(r) \/ HandleResult(r) => \E x : Moved(x)
         /\ \A p \in posting : Put(p) => \E x : Moved(x)
<1>1. ApiTypes /\ OneInv
  BY DEF AnswerInv
<1>2. ASSUME NEW r \in Runtimes, HandleInitError(r) PROVE \E x : Moved(x)
  <2>1. PICK x \in rt[r].pending :
          /\ rt' = [rt EXCEPT ![r].told = @ \cup {x}]
          /\ result' = [result EXCEPT ![x] = IF @ = <<>> THEN <<InitError>> ELSE @]
    BY <1>2 DEF HandleInitError
  <2>2. x \in Ids /\ Outside(x) /\ posting' = posting /\ intime' = intime
    BY <1>1, <1>2, <2>1 DEF ApiTypes, RuntimeRec, Outside, HandleInitError
  <2>3. \A s \in Runtimes : /\ rt'[s].queue = rt[s].queue
                            /\ rt'[s].pending \subseteq rt[s].pending
    BY <1>1, <2>1, <2>2 DEF ApiTypes, RuntimeRec
  <2>4. x \notin intime /\ ~Posted(x) /\ \A p \in posting : p[1] # x
    BY <1>1, <2>1, <2>2 DEF OneInv, PendingAlone
  <2>5. result'[x] = IF result[x] = <<>> THEN <<InitError>> ELSE result[x]
    BY <1>1, <2>1, <2>2 DEF ApiTypes
  <2>6. \A id \in Ids \ {x} : result'[id] = result[id]
    BY <1>1, <2>1 DEF ApiTypes
  <2>7. ~Posted(x)'
    BY <2>4, <2>5 DEF Posted, Answers, InitError
  <2>8. AnsweredOnce'
    BY <1>1, <2>5, <2>6 DEF OneInv, AnsweredOnce, Results
  <2>9. Moved(x)
    BY <2>2, <2>3, <2>4, <2>6, <2>7, <2>8 DEF Moved
  <2> QED  BY <2>9
<1>3. ASSUME NEW r \in Runtimes, HandleResult(r) PROVE \E x : Moved(x)
  <2>1. PICK x \in rt[r].pending, a \in Answers :
          /\ posting' = posting \cup {<<x, a>>} /\ Delete(r, x)
          /\ intime' = IF Waiting(x) THEN intime \cup {x} ELSE intime
    BY <1>3 DEF HandleResult, AnswersTo, Answers
  <2>2. x \in Ids /\ Outside(x) /\ result' = result
    BY <1>1, <1>3, <2>1 DEF ApiTypes, RuntimeRec, Outside, HandleResult
  <2>3. \A s \in Runtimes : /\ rt'[s].queue = rt[s].queue
                            /\ rt'[s].pending = rt[s].pending \ {x}
    <3>1. \A s \in Runtimes :
            /\ rt'[s].queue = rt[s].queue
            /\ rt'[s].pending = IF s = r THEN rt[s].pending \ {x} ELSE rt[s].pending
      BY <1>1, <2>1, DeleteEffect
    <3>2. \A s \in Runtimes \ {r} : x \notin rt[s].pending
      BY <1>1, <2>1, <2>2 DEF OneInv, PendingOnce
    <3> QED  BY <3>1, <3>2
  <2>4. ~Posted(x) /\ \A p \in posting : p[1] # x
    BY <1>1, <2>1, <2>2 DEF OneInv, PendingAlone
  <2>5. ~Posted(x)'
    BY <2>2, <2>4 DEF Posted
  <2>6. \A p : p[1] # x => (p \in posting' <=> p \in posting)
    BY <2>1
  <2>7. \A p \in posting' : p[1] = x => p = <<x, a>>
    BY <2>1, <2>4
  <2>8. AnsweredOnce'
    BY <1>1, <2>2 DEF OneInv, AnsweredOnce
  <2>9. \A id \in Ids \ {x} : result'[id] = result[id] /\ (id \in intime' <=> id \in intime)
    BY <2>1, <2>2
  <2>10. Moved(x)
    BY <2>2, <2>3, <2>5, <2>6, <2>7, <2>8, <2>9 DEF Moved
  <2> QED  BY <2>10
<1>4. ASSUME NEW p \in posting, Put(p) PROVE \E x : Moved(x)
  <2> DEFINE x == p[1]
  <2>1. x \in Ids /\ p[2] \in Answers /\ Outside(x)
    BY <1>1 DEF ApiTypes, Outside
  <2>2. /\ posting' = posting \ {p} /\ rt' = rt /\ intime' = intime
        /\ result' = [result EXCEPT ![x] = <<p[2]>>]
    BY <1>4 DEF Put
  <2>3. \A s \in posting' : s[1] # x
    BY <1>1, <2>2 DEF OneInv, ClaimedOnce
  <2>4. \A s : s[1] # x => (s \in posting' <=> s \in posting)
    BY <2>2
  <2> HIDE DEF x
  <2>5. \A s \in Runtimes : x \notin rt[s].pending
    BY <1>1, <2>1 DEF OneInv, PendingAlone, x
  <2>6. \A id \in Ids \ {x} : result'[id] = result[id] /\ (id \in intime' <=> id \in intime)
    BY <1>1, <2>2 DEF ApiTypes
  <2>7. AnsweredOnce'
    BY <1>1, <2>1, <2>2 DEF ApiTypes, OneInv, AnsweredOnce, Results
  <2>8. Moved(x)
    BY <2>1, <2>2, <2>3, <2>4, <2>5, <2>6, <2>7 DEF Moved
  <2> QED  BY <2>8
<1> QED
  BY <1>2, <1>3, <1>4
-----------------------------------------------------------------------------
\* A set whose elements are all equal has at most one.
LEMMA AtMostOne ==
  ASSUME NEW S, \A x, y \in S : x = y
  PROVE  Cardinality(S) \in 0 .. 1 /\ (Cardinality(S) = 1 => S # {})
<1>1. CASE S = {}
  BY <1>1, FS_EmptySet
<1>2. CASE S # {}
  <2>1. PICK x : x \in S
    BY <1>2
  <2>2. S = {x}
    BY <2>1
  <2> QED  BY <2>2, FS_Singleton
<1> QED  BY <1>1, <1>2

\* Requests in one place have one answer.
LEMMA InvOneAnswer == AnswerInv => OneAnswer
<1> SUFFICES ASSUME AnswerInv, NEW id \in Ids
             PROVE  Cardinality({r \in Runtimes : id \in rt[r].pending})
                      + Cardinality({p \in posting : p[1] = id})
                      + Cardinality({a \in Answers : result[id] = <<a>>}) <= 1
  BY DEF OneAnswer
<1> DEFINE R == {r \in Runtimes : id \in rt[r].pending}
           P == {p \in posting : p[1] = id}
           A == {a \in Answers : result[id] = <<a>>}
<1>1. OneInv
  BY DEF AnswerInv
<1>2. Cardinality(R) \in 0 .. 1 /\ (Cardinality(R) = 1 => R # {})
  BY <1>1, AtMostOne DEF OneInv, PendingOnce
<1>3. Cardinality(P) \in 0 .. 1 /\ (Cardinality(P) = 1 => P # {})
  BY <1>1, AtMostOne DEF OneInv, ClaimedOnce
<1>4. Cardinality(A) \in 0 .. 1 /\ (Cardinality(A) = 1 => A # {})
  <2>1. \A x, y \in A : x = y
    OBVIOUS
  <2> QED  BY <2>1, AtMostOne
<1>5. R # {} => P = {} /\ A = {}
  BY <1>1 DEF OneInv, PendingAlone, Posted
<1>6. P # {} => A = {}
  BY <1>1 DEF OneInv, ClaimedAlone, Posted
<1>7. (P = {} => Cardinality(P) = 0) /\ (A = {} => Cardinality(A) = 0)
  BY FS_EmptySet
<1> HIDE DEF R, P, A
<1>8. Cardinality(R) + Cardinality(P) + Cardinality(A) <= 1
  <2>1. CASE Cardinality(R) = 1
    BY <2>1, <1>2, <1>5, <1>7
  <2>2. CASE Cardinality(R) = 0 /\ Cardinality(P) = 1
    BY <2>2, <1>3, <1>6, <1>7
  <2>3. CASE Cardinality(R) = 0 /\ Cardinality(P) = 0
    BY <2>3, <1>4
  <2> QED  BY <1>2, <1>3, <2>1, <2>2, <2>3
<1> QED
  BY <1>8 DEF R, P, A

\* Every step keeps the whole invariant.
LEMMA NextAnswer == AnswerInv /\ [Next]_vars => AnswerInv'
<1> SUFFICES ASSUME AnswerInv, [Next]_vars PROVE AnswerInv'
  OBVIOUS
<1>1. CallInv'
  BY NextCallInv DEF AnswerInv
<1>2. ApiTypes'
  BY ApiTypesStep
<1>3. Registered'
  BY RegisteredStep DEF AnswerInv, CallInv
<1>4. AttemptsBounded' /\ CallsAge
  BY AgeStep DEF AnswerInv, CallInv
<1>5. OneInv'
  BY <1>2, <1>4, RequestEffect, FewerOne, PushedOne, NextOne, MovedOne, AnswerMoves
<1> QED
  BY <1>1, <1>2, <1>3, <1>4, <1>5 DEF AnswerInv

\* A request is with one runtime, claimed by one POST or answered by one, never
\* two of these (handleNext, handleInitError and its delete,
\* handleInvocationResult of runtime_api.go, invoke and the retries of Event
\* invocations), whatever the container does: no request is answered by two
\* POSTs, and the send of one waits for nothing but the answer of an init error.
THEOREM AnswersOnce == Spec => []OneAnswer
<1>1. Init => AnswerInv
  BY InitAnswer
<1>2. AnswerInv /\ [Next]_vars => AnswerInv'
  BY NextAnswer
<1>3. AnswerInv => OneAnswer
  BY InvOneAnswer
<1> QED
  BY <1>1, <1>2, <1>3, PTL DEF Spec

-----------------------------------------------------------------------------
(* Answers in time.                                                        *)

\* The answer of a request is in its channel, or a POST has still to send it.
Coming(id) == result[id] # <<>> \/ \E p \in posting : p[1] = id

\* A claimed request has its answer coming for as long as the call waits, the
\* grace period does not run down meanwhile, and so the call does not give up.
Delivers(i) ==
  /\ call[i].pc \in {"wait", "grace"} /\ Id(i) \in intime => Coming(Id(i))
  /\ call[i].pc = "grace" /\ Id(i) \in intime => grace[i] # 0
  /\ call[i].out \in {"timeout", "cancelled"} /\ call[i].pc \in {"evict", "return"}
       => Id(i) \notin intime

DeliveryInv == grace \in [Sync -> Nat] /\ \A i \in Sync : Delivers(i)

\* A step that leaves the call, its grace period and its answer alone.
LEMMA SameDelivers ==
  ASSUME NEW i \in Sync, Delivers(i), call'[i] = call[i], grace'[i] = grace[i],
         Id(i) \in intime' => Id(i) \in intime,
         Coming(Id(i)) => Coming(Id(i))'
  PROVE  Delivers(i)'
  BY DEF Delivers, Id, Coming

\* A step to a place where the call does not wait and has not given up.
LEMMA FreshDelivers ==
  ASSUME NEW i \in Sync, call'[i].pc \notin {"wait", "grace"},
         call'[i].out = "none" \/ call'[i].pc \notin {"evict", "return"}
  PROVE  Delivers(i)'
  BY DEF Delivers

\* The requests of two calls differ.
LEMMA IdsDiffer ==
  ASSUME NEW i \in Calls, NEW j \in Calls, i # j
  PROVE  Id(i) # Id(j)
  BY DEF Id

\* What a step of another call leaves alone.
LEMMA OthersDelivers ==
  ASSUME NEW i \in Sync, Delivers(i), NEW j \in Calls \ {i}, call'[i] = call[i],
         Id(i) \in Ids, \A id \in Ids \ {Id(j)} : result'[id] = result[id],
         UNCHANGED <<posting, intime>>, grace'[i] = grace[i]
  PROVE  Delivers(i)'
<1>1. i \in Calls
  BY DEF Calls
<1>2. result'[Id(i)] = result[Id(i)]
  BY <1>1, IdsDiffer
<1>3. Coming(Id(i)) => Coming(Id(i))'
  <2>1. Id(i)' = Id(i)
    BY DEF Id
  <2> QED  BY <1>2, <2>1 DEF Coming
<1> QED  BY <1>1, <1>3, SameDelivers

\* A step of a call, seen from a synchronous call.
LEMMA CallDelivers ==
  ASSUME AnswerInv, DeliveryInv, NEW j \in Calls, NEW i \in Sync,
         Acquire(j) \/ GiveUp(j) \/ CallStep(j)
  PROVE  Delivers(i)'
<1>0. /\ i \in Calls /\ i \notin Event /\ Shape /\ OutLate /\ OneInv /\ ApiTypes
      /\ Delivers(i) /\ grace \in [Sync -> Nat]
  BY InvokeAssumption DEF Calls, AnswerInv, CallInv, DeliveryInv
<1>1. Id(i) \in Ids
  BY <1>0, IdType DEF AnswerInv, CallInv
<1> USE DEF To, Stop, Done, Shape, CallRec
<1>2. ASSUME Acquire(j) \/ Lookup(j) \/ Start(j) \/ Unmap(j) \/ StartFailed(j) PROVE Delivers(i)'
  <2>1. UNCHANGED <<result, posting, grace, intime>>
    BY <1>2 DEF Acquire, Lookup, Start, Unmap, StartFailed, delivery
  <2>2. CASE i # j
    <3>1. call'[i] = call[i]
      BY <1>0, <1>2, <2>2 DEF Acquire, Lookup, Start, Unmap, StartFailed
    <3> QED  BY <1>0, <1>1, <2>1, <2>2, <3>1, OthersDelivers
  <2>3. CASE i = j
    <3>1. call[i].out = "none"
      BY <1>0, <1>2, <2>3 DEF Acquire, Lookup, Start, Unmap, StartFailed, OutLate
    <3>2. call'[i].pc \notin {"wait", "grace"} /\ call'[i].out = "none"
      <4>1. CASE Acquire(j)
        BY <1>0, <2>3, <3>1, <4>1 DEF Acquire, NoCall
      <4>2. CASE Lookup(j)
        BY <1>0, <2>3, <3>1, <4>2 DEF Lookup
      <4>3. CASE Start(j) \/ Unmap(j)
        BY <1>0, <2>3, <3>1, <4>3 DEF Start, Unmap
      <4>4. CASE StartFailed(j)
        BY <1>0, <2>3, <3>1, <4>4 DEF StartFailed, NoCall
      <4> QED  BY <1>2, <4>1, <4>2, <4>3, <4>4
    <3> QED  BY <3>2, FreshDelivers
  <2> QED  BY <2>2, <2>3
<1>3. ASSUME EvictTimedOut(j) \/ Return(j) \/ GiveUp(j) \/ Finish(j) \/ NotEnqueued(j)
      PROVE Delivers(i)'
  <2>1. UNCHANGED <<result, posting, grace, intime>>
    BY <1>3 DEF EvictTimedOut, Return, GiveUp, Finish, NotEnqueued, delivery
  <2>2. CASE i # j
    <3>1. call'[i] = call[i]
      BY <1>0, <1>3, <2>2 DEF EvictTimedOut, Return, GiveUp, Finish, NotEnqueued
    <3> QED  BY <1>0, <1>1, <2>1, <2>2, <3>1, OthersDelivers
  <2>3. CASE i = j /\ EvictTimedOut(j)
    <3>1. call[i].pc = "evict" /\ call' = [call EXCEPT ![i].pc = "return"]
      BY <1>0, <2>3 DEF EvictTimedOut
    <3>2. /\ call'[i].pc = "return" /\ call'[i].out = call[i].out
          /\ call'[i].att = call[i].att
      BY <1>0, <3>1
    <3> QED  BY <1>0, <2>1, <3>1, <3>2 DEF Delivers, Id
  <2>4. CASE i = j /\ GiveUp(j)
    <3>1. call'[i].pc = "return" /\ call'[i].out = "none"
      BY <1>0, <2>4 DEF GiveUp, OutLate
    <3> QED  BY <3>1, FreshDelivers
  <2>5. CASE i = j /\ (Return(j) \/ Finish(j) \/ NotEnqueued(j))
    <3>1. call'[i].pc \in {"done", "finish"}
      BY <1>0, <2>5 DEF Return, Finish, NotEnqueued, NoCall
    <3> QED  BY <3>1, FreshDelivers
  <2> QED  BY <1>3, <2>2, <2>3, <2>4, <2>5
<1>4. ASSUME Send(j) \/ Enqueued(j) PROVE Delivers(i)'
  <2>1. UNCHANGED <<result, posting, grace, intime>>
    BY <1>4 DEF Send, Enqueued, delivery
  <2>2. CASE i # j
    <3>1. call'[i] = call[i]
      BY <1>0, <1>4, <2>2 DEF Send, Enqueued
    <3> QED  BY <1>0, <1>1, <2>1, <2>2, <3>1, OthersDelivers
  <2>3. CASE i = j
    <3>1. call[i].pc \in {"send", "enqueue", "retry"} /\ call[i].att \in Nat
      BY <1>0, <1>4, <2>3 DEF Send, Enqueued
    <3>2. Unused(Id(i))
      BY <3>1 DEF Unused, Id, BeforePush
    <3>3. Id(i) \notin intime
      BY <1>0, <1>1, <3>2 DEF OneInv, UnusedNowhere, Outside
    <3>4. call'[i].pc = "wait" /\ call'[i].att = call[i].att
      BY <1>0, <1>4, <2>3 DEF Send, Enqueued
    <3> QED  BY <2>1, <3>3, <3>4 DEF Delivers, Id
  <2> QED  BY <2>2, <2>3
<1>5. ASSUME StopWaiting(j) PROVE Delivers(i)'
  <2>1. UNCHANGED <<result, posting, intime>> /\ j \in Sync
    BY <1>5 DEF StopWaiting
  <2>2. CASE i # j
    <3>1. call'[i] = call[i] /\ grace'[i] = grace[i]
      BY <1>0, <1>5, <2>2 DEF StopWaiting
    <3> QED  BY <1>0, <1>1, <2>1, <2>2, <3>1, OthersDelivers
  <2>3. CASE i = j
    <3>1. call[i].pc = "wait" /\ call'[i].att = call[i].att
      BY <1>0, <1>5, <2>3 DEF StopWaiting
    <3>2. CASE Id(i) \in rt[call[i].rt].pending
      <4>1. call[i].rt \in Runtimes
        BY <1>0, <3>1, OwnRuntime DEF AnswerInv, CallInv
      <4>2. Id(i) \notin intime
        BY <1>0, <1>1, <3>2, <4>1 DEF OneInv, PendingAlone
      <4> QED  BY <2>1, <3>1, <4>2 DEF Delivers, Id
    <3>3. CASE Id(i) \notin rt[call[i].rt].pending
      <4>1. call'[i].pc = "grace" /\ grace'[i] = Grace
        BY <1>0, <1>5, <2>3, <3>3 DEF StopWaiting
      <4>2. Id(i)' = Id(i)
        BY <3>1 DEF Id
      <4>3. Id(i) \in intime => Coming(Id(i))
        BY <1>0, <3>1 DEF Delivers
      <4>4. Coming(Id(i)) => Coming(Id(i))'
        BY <2>1, <4>2 DEF Coming
      <4> QED  BY <2>1, <4>1, <4>2, <4>3, <4>4, InvokeAssumption DEF Delivers
    <3> QED  BY <3>2, <3>3
  <2> QED  BY <2>2, <2>3
<1>6. ASSUME GraceOver(j) PROVE Delivers(i)'
  <2>1. UNCHANGED <<result, posting, grace, intime>>
    BY <1>6 DEF GraceOver, delivery
  <2>2. CASE i # j
    <3>1. call'[i] = call[i]
      BY <1>0, <1>6, <2>2 DEF GraceOver
    <3> QED  BY <1>0, <1>1, <2>1, <2>2, <3>1, OthersDelivers
  <2>3. CASE i = j
    <3>1. /\ call[i].pc = "grace" /\ grace[i] = 0
          /\ call'[i].att = call[i].att /\ call'[i].pc \in {"evict", "return"}
      BY <1>0, <1>6, <2>3 DEF GraceOver, AfterTimer
    <3>2. Id(i) \notin intime
      BY <1>0, <3>1 DEF Delivers
    <3> QED  BY <2>1, <3>1, <3>2 DEF Delivers, Id
  <2> QED  BY <2>2, <2>3
<1>7. ASSUME Answered(j) \/ Attempted(j) PROVE Delivers(i)'
  <2>1. UNCHANGED <<posting, intime>>
    BY <1>7 DEF Answered, Attempted
  <2>2. CASE i # j
    <3>1. call'[i] = call[i] /\ grace'[i] = grace[i]
      <4>1. CASE Answered(j)
        BY <1>0, <2>2, <4>1 DEF Answered
      <4>2. CASE Attempted(j)
        BY <1>0, <2>2, <4>2 DEF Attempted
      <4> QED  BY <1>7, <4>1, <4>2
    <3>2. \A id \in Ids \ {Id(j)} : result'[id] = result[id]
      BY <1>0, <1>7 DEF Answered, Attempted, ApiTypes
    <3> QED  BY <1>0, <1>1, <2>1, <2>2, <3>1, <3>2, OthersDelivers
  <2>3. CASE i = j
    <3>1. call'[i].pc = "return" /\ call'[i].out = "none"
      BY <1>0, <1>7, <2>3 DEF Answered, Attempted
    <3> QED  BY <3>1, FreshDelivers
  <2> QED  BY <2>2, <2>3
<1>8. ASSUME EnqueueAsync(j) \/ AsyncTimeout(j), i # j
      PROVE Delivers(i)'
  <2>1. UNCHANGED <<result, posting, grace, intime>>
    BY <1>8 DEF EnqueueAsync, AsyncTimeout, delivery
  <2>2. call'[i] = call[i]
    BY <1>0, <1>8 DEF EnqueueAsync, AsyncTimeout
  <2> QED  BY <1>0, <1>1, <1>8, <2>1, <2>2, OthersDelivers
<1>9. ASSUME EnqueueAsync(j) \/ AsyncTimeout(j)
      PROVE i # j
  BY <1>0, <1>9 DEF EnqueueAsync, AsyncTimeout
<1> HIDE DEF To, Stop, Done, Shape, CallRec
<1> QED
  BY <1>2, <1>3, <1>4, <1>5, <1>6, <1>7, <1>8, <1>9 DEF CallStep, SyncStep, EventStep

\* The other steps, among them the POSTs and the time.
LEMMA OtherDelivers ==
  ASSUME AnswerInv, DeliveryInv, NEW i \in Sync,
         \/ \E r \in Runtimes : RuntimeAPI(r) \/ CleanupRuntime(r)
         \/ \E p \in posting : Put(p)
         \/ Evict \/ Reset \/ Tick \/ UNCHANGED vars
  PROVE  Delivers(i)'
<1>0. /\ i \in Calls /\ Shape /\ OneInv /\ ApiTypes /\ Delivers(i) /\ grace \in [Sync -> Nat]
  BY DEF Calls, AnswerInv, CallInv, DeliveryInv
<1>1. Id(i) \in Ids
  BY <1>0, IdType DEF AnswerInv, CallInv
<1>2. call' = call /\ Id(i)' = Id(i)
  BY DEF RuntimeAPI, HandleNext, HandleInitError, InitDelete, HandleResult, CleanupRuntime, Put,
     Evict, Reset, Tick, vars, Id
<1>3. CASE UNCHANGED <<result, posting, grace, intime>>
  <2>1. Coming(Id(i)) => Coming(Id(i))'
    BY <1>2, <1>3 DEF Coming
  <2> QED  BY <1>0, <1>2, <1>3, <2>1, SameDelivers
<1>4. ASSUME NEW r \in Runtimes, HandleInitError(r) PROVE Delivers(i)'
  <2>1. PICK x \in rt[r].pending :
          result' = [result EXCEPT ![x] = IF @ = <<>> THEN <<InitError>> ELSE @]
    BY <1>4 DEF HandleInitError
  <2>2. UNCHANGED <<posting, grace, intime>>
    BY <1>4 DEF HandleInitError
  <2>3. result[Id(i)] # <<>> => result'[Id(i)] # <<>>
    BY <1>0, <1>1, <2>1 DEF ApiTypes
  <2>4. Coming(Id(i)) => Coming(Id(i))'
    BY <1>2, <2>2, <2>3 DEF Coming
  <2> QED  BY <1>0, <1>2, <2>2, <2>4, SameDelivers
<1>5. ASSUME NEW r \in Runtimes, HandleResult(r) PROVE Delivers(i)'
  <2>1. PICK x \in rt[r].pending, a \in Answers :
          /\ posting' = posting \cup {<<x, a>>} /\ result' = result /\ grace' = grace
          /\ intime' = IF Waiting(x) THEN intime \cup {x} ELSE intime
    BY <1>5 DEF HandleResult, AnswersTo, Answers
  <2>2. CASE Waiting(x) /\ x = Id(i)
    <3>1. call[i].pc = "wait"
      BY <2>2 DEF Waiting, Id
    <3>2. Coming(Id(i))'
      <4>1. <<x, a>> \in posting' /\ <<x, a>>[1] = Id(i)'
        BY <1>2, <2>1, <2>2
      <4> QED  BY <4>1 DEF Coming
    <3> QED  BY <1>2, <3>1, <3>2 DEF Delivers
  <2>3. CASE ~(Waiting(x) /\ x = Id(i))
    <3>1. Id(i) \in intime' => Id(i) \in intime
      BY <2>1, <2>3
    <3>2. Coming(Id(i)) => Coming(Id(i))'
      BY <1>2, <2>1 DEF Coming
    <3> QED  BY <1>0, <1>2, <2>1, <3>1, <3>2, SameDelivers
  <2> QED  BY <2>2, <2>3
<1>6. ASSUME NEW p \in posting, Put(p) PROVE Delivers(i)'
  <2>1. /\ result' = [result EXCEPT ![p[1]] = <<p[2]>>] /\ posting' = posting \ {p}
        /\ UNCHANGED <<grace, intime>>
    BY <1>6 DEF Put
  <2>2. CASE p[1] = Id(i)
    <3>1. result'[Id(i)] = <<p[2]>> /\ <<p[2]>> # <<>>
      BY <1>0, <1>1, <2>1, <2>2 DEF ApiTypes
    <3>2. Coming(Id(i))'
      BY <1>2, <3>1 DEF Coming
    <3> QED  BY <1>0, <1>2, <2>1, <3>2, SameDelivers
  <2>3. CASE p[1] # Id(i)
    <3>1. result'[Id(i)] = result[Id(i)]
      BY <1>0, <1>1, <2>1, <2>3 DEF ApiTypes
    <3>2. Coming(Id(i)) => Coming(Id(i))'
      BY <1>2, <2>1, <2>3, <3>1 DEF Coming
    <3> QED  BY <1>0, <1>2, <2>1, <3>2, SameDelivers
  <2> QED  BY <2>2, <2>3
<1>7. ASSUME Tick PROVE Delivers(i)'
  <2>1. UNCHANGED <<result, posting, intime>>
    BY <1>7 DEF Tick
  <2>2. Coming(Id(i)) => Coming(Id(i))'
    BY <1>2, <2>1 DEF Coming
  <2>3. CASE call[i].pc = "grace" /\ Id(i) \in intime
    <3>1. result[Id(i)] = <<>>
      BY <1>7, <2>3 DEF Tick
    <3>2. PICK p \in posting : p[1] = Id(i)
      BY <1>0, <2>3, <3>1 DEF Delivers, Coming
    <3>3. result[p[1]] # <<>>
      BY <1>7 DEF Tick
    <3> QED  BY <3>1, <3>2, <3>3
  <2>4. CASE ~(call[i].pc = "grace" /\ Id(i) \in intime)
    BY <1>0, <1>2, <2>1, <2>2, <2>4 DEF Delivers
  <2> QED  BY <2>3, <2>4
<1> QED
  BY <1>3, <1>4, <1>5, <1>6, <1>7
     DEF RuntimeAPI, HandleNext, InitDelete, CleanupRuntime, Evict, Reset, delivery, vars

\* The clocks of the grace periods keep their type.
LEMMA GraceType ==
  ASSUME grace \in [Sync -> Nat], [Next]_vars
  PROVE  grace' \in [Sync -> Nat]
<1>1. ASSUME NEW i \in Calls, StopWaiting(i) PROVE grace' \in [Sync -> Nat]
  BY <1>1, InvokeAssumption DEF StopWaiting
<1>2. ASSUME NEW i \in Calls, Answered(i) PROVE grace' \in [Sync -> Nat]
  BY <1>2 DEF Answered
<1>3. ASSUME Tick PROVE grace' \in [Sync -> Nat]
  BY <1>3 DEF Tick, Less
<1>4. ASSUME NEW i \in Calls,
             \/ Acquire(i) \/ GiveUp(i) \/ Lookup(i) \/ Start(i) \/ Unmap(i) \/ StartFailed(i)
             \/ EvictTimedOut(i) \/ Send(i) \/ GraceOver(i) \/ Return(i) \/ EventStep(i)
      PROVE  grace' = grace
  BY <1>4 DEF Acquire, GiveUp, Lookup, Start, Unmap, StartFailed, EvictTimedOut, Send, GraceOver,
     Return, EventStep, EnqueueAsync, Enqueued, NotEnqueued, Attempted, AsyncTimeout, Finish,
     delivery
<1>5. ASSUME \/ \E r \in Runtimes : RuntimeAPI(r) \/ CleanupRuntime(r)
             \/ (\E p \in posting : Put(p)) \/ Evict \/ Reset \/ UNCHANGED vars
      PROVE  grace' = grace
  BY <1>5 DEF RuntimeAPI, HandleNext, HandleInitError, InitDelete, HandleResult, CleanupRuntime,
     Put, Evict, Reset, vars, delivery
<1> QED
  BY <1>1, <1>2, <1>3, <1>4, <1>5 DEF Next, CallStep, SyncStep

\* The answer to a waiting call is not thrown away: when its timer fires or its
\* client goes (invoke of runtime_api.go), LoadAndDelete and the grace period
\* see every POST that has claimed the request by then, whatever a
\* handleInitError does between its send and its delete.
THEOREM AnswersDelivered == Spec => []AcceptedDelivered
<1>1. Init => AnswerInv /\ DeliveryInv
  <2> SUFFICES ASSUME Init PROVE DeliveryInv
    BY InitAnswer
  <2>1. grace \in [Sync -> Nat] /\ intime = {}
    BY DEF Init
  <2>2. \A i \in Sync : call[i].pc = "idle"
    BY DEF Init, NoCall, Calls
  <2> QED  BY <2>1, <2>2 DEF DeliveryInv, Delivers
<1>2. AnswerInv /\ DeliveryInv /\ [Next]_vars => AnswerInv' /\ DeliveryInv'
  <2> SUFFICES ASSUME AnswerInv, DeliveryInv, [Next]_vars PROVE DeliveryInv'
    BY NextAnswer
  <2>1. grace' \in [Sync -> Nat]
    BY GraceType DEF DeliveryInv
  <2>2. ASSUME NEW i \in Sync PROVE Delivers(i)'
    BY CallDelivers, OtherDelivers DEF Next
  <2> QED  BY <2>1, <2>2 DEF DeliveryInv
<1>3. DeliveryInv => AcceptedDelivered
  BY DEF DeliveryInv, Delivers, AcceptedDelivered
<1> QED
  BY <1>1, <1>2, <1>3, PTL DEF Spec
=============================================================================
