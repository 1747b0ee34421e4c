--------------------------- MODULE ShutdownProofs ---------------------------
(***************************************************************************)
(* Proofs about Shutdown, for every number of requests and every capacity  *)
(* of the pool's queue.                                                    *)
(*                                                                         *)
(* The invariant: nothing is destroyed before WinMain leaves the event     *)
(* loop and stop() has returned, and from then on no request is under way. *)
(* So a completion finds every object, whatever the pool and the monitor   *)
(* are doing; and the monitor is destroyed, with its thread joined, before *)
(* the service it connects with.                                           *)
(***************************************************************************)
EXTENDS Shutdown, TLAPS

\* Everything is there until WinMain leaves; no request is under way then,
\* nor before it has started; the last object destroyed ends the program.
NoneLeft ==
    /\ (main \in {"starting", "running", "stopping"}) => gone = 0
    /\ (main = "leaving") => gone < Len(Stack)
    /\ (main \in {"starting", "leaving", "over"}) => \A kind \in Kinds : requests[kind] = 0

IInv == TypeOK /\ NoneLeft /\ OnlyPoolAndMonitorDangle

\* The seven objects, by the order in which they go.
LEMMA StackOrder ==
    /\ Len(Stack) = 7
    /\ Stack[1] = "main_window" /\ Stack[2] = "engine" /\ Stack[3] = "authenticator"
    /\ Stack[4] = "file_monitor" /\ Stack[5] = "pool" /\ Stack[6] = "rpc_service"
    /\ Stack[7] = "aioscheduler"
BY DEF Stack

\* An object at position k is there while fewer than k are gone.
LEMMA AliveAt ==
    ASSUME gone \in 0 .. Len(Stack), NEW k \in 1 .. Len(Stack), gone < k
    PROVE  Alive(Stack[k])
<1>1. k \in gone + 1 .. Len(Stack)
  BY StackOrder
<1> QED
  BY <1>1 DEF Alive

\* The service outlives the monitor, which is destroyed two objects earlier.
LEMMA ServiceOutlivesMonitor ==
    ASSUME gone \in 0 .. Len(Stack), Alive("file_monitor")
    PROVE  Alive("rpc_service")
<1>1. PICK k \in gone + 1 .. Len(Stack) : Stack[k] = "file_monitor"
  BY DEF Alive
<1>2. k \in 1 .. 7
  BY <1>1, StackOrder
<1>3. k = 4
  BY <1>1, <1>2, StackOrder
<1> QED
  BY <1>1, <1>3, StackOrder, AliveAt

\* What WinMain starts from.
LEMMA InitIInv == Init => IInv
<1> SUFFICES ASSUME Init PROVE IInv
  OBVIOUS
<1>1. TypeOK
  BY ShutdownAssumption, StackOrder DEF Init, TypeOK
<1>2. NoneLeft /\ OnlyPoolAndMonitorDangle
  BY StackOrder DEF Init, NoneLeft, OnlyPoolAndMonitorDangle
<1> QED
  BY <1>1, <1>2 DEF IInv

-----------------------------------------------------------------------------
(* The steps.                                                              *)

\* Before WinMain leaves, a use of any object finds it.
LEMMA UsesNothingGone ==
    ASSUME TypeOK, gone = 0, NEW thread,
           NEW objects \in SUBSET {Stack[k] : k \in 1 .. Len(Stack)},
           Uses(thread, objects)
    PROVE  dangling' = dangling
<1>1. \A o \in objects : Alive(o)
  BY StackOrder, AliveAt DEF TypeOK
<1> QED
  BY <1>1 DEF Uses

\* What a completion uses are objects of WinMain.
LEMMA UsedByStack ==
    ASSUME NEW kind \in Kinds
    PROVE  UsedBy(kind) \subseteq {Stack[k] : k \in 1 .. Len(Stack)}
<1> DEFINE S == {Stack[k] : k \in 1 .. Len(Stack)}
<1>1. {"main_window", "engine", "authenticator", "pool", "rpc_service"} \subseteq S
  <2>1. {1, 2, 3, 5, 6} \subseteq 1 .. Len(Stack)
    BY StackOrder
  <2> QED
    BY <2>1, StackOrder
<1> QED
  BY <1>1 DEF UsedBy, Kinds

\* A completion: a request is under way, so WinMain has not left.
LEMMA CompleteIInv ==
    ASSUME IInv, Complete PROVE IInv'
<1> USE DEF IInv
<1>1. PICK kind \in Kinds :
         /\ requests[kind] > 0
         /\ kind = "fetch" => tasks < PoolCapacity
         /\ requests' = [requests EXCEPT ![kind] = @ - 1]
         /\ tasks' = IF kind = "fetch" THEN tasks + 1 ELSE tasks
         /\ Uses("rpc", UsedBy(kind))
         /\ UNCHANGED <<main, gone, changed>>
  BY DEF Complete
<1>2. main \notin {"leaving", "over"} /\ gone = 0
  BY <1>1 DEF TypeOK, NoneLeft
<1>3. dangling' = dangling
  BY <1>1, <1>2, UsedByStack, UsesNothingGone
<1>4. TypeOK'
  <2>1. requests' \in [Kinds -> 0 .. MaxRequests]
    BY <1>1, ShutdownAssumption DEF TypeOK
  <2>2. tasks' \in 0 .. PoolCapacity
    BY <1>1, ShutdownAssumption DEF TypeOK
  <2> QED
    BY <1>1, <1>3, <2>1, <2>2 DEF TypeOK
<1>5. NoneLeft'
  BY <1>1, <1>2 DEF NoneLeft
<1> QED
  BY <1>3, <1>4, <1>5 DEF OnlyPoolAndMonitorDangle

\* A task of the pool uses the window and nothing else.
LEMMA PoolRunIInv ==
    ASSUME IInv, PoolRun PROVE IInv'
<1> USE DEF IInv
<1>1. dangling' \subseteq dangling \cup {<<"pool", "main_window">>}
  BY DEF PoolRun, Uses
<1>2. TypeOK'
  <2>1. "main_window" \in {Stack[k] : k \in 1 .. Len(Stack)}
    BY StackOrder
  <2>2. tasks' \in 0 .. PoolCapacity
    BY ShutdownAssumption DEF PoolRun, TypeOK
  <2> QED
    BY <1>1, <2>1, <2>2 DEF PoolRun, TypeOK
<1>3. NoneLeft'
  BY DEF PoolRun, NoneLeft
<1> QED
  BY <1>1, <1>2, <1>3 DEF OnlyPoolAndMonitorDangle

\* The monitor finds the service, not always the authenticator.
LEMMA MonitorRunsIInv ==
    ASSUME IInv, MonitorRuns PROVE IInv'
<1> USE DEF IInv
<1>1. Alive("rpc_service")
  BY ServiceOutlivesMonitor DEF MonitorRuns, TypeOK
<1>2. dangling' \subseteq dangling \cup {<<"monitor", "authenticator">>}
  BY <1>1 DEF MonitorRuns, Uses
<1>3. TypeOK'
  <2>1. "authenticator" \in {Stack[k] : k \in 1 .. Len(Stack)}
    BY StackOrder
  <2>2. dangling' \subseteq {"rpc", "pool", "monitor"} \X {Stack[k] : k \in 1 .. Len(Stack)}
    BY <1>2, <2>1 DEF TypeOK
  <2> QED
    BY <2>2 DEF MonitorRuns, TypeOK
<1>4. NoneLeft'
  BY DEF MonitorRuns, NoneLeft
<1> QED
  BY <1>2, <1>3, <1>4 DEF OnlyPoolAndMonitorDangle

\* The GUI thread: stop() returns when nothing is under way, and the last
\* object destroyed ends the program.
LEMMA MainIInv ==
    ASSUME IInv, Start \/ Send \/ Quit \/ Gui PROVE IInv'
<1> USE DEF IInv
<1>1. CASE Start
  <2>1. TypeOK'
    BY <1>1, ShutdownAssumption DEF Start, TypeOK
  <2>2. NoneLeft'
    BY <1>1, StackOrder DEF Start, NoneLeft, TypeOK
  <2> QED
    BY <1>1, <2>1, <2>2 DEF Start, OnlyPoolAndMonitorDangle
<1>2. CASE Send
  <2>1. TypeOK'
    BY <1>2, ShutdownAssumption DEF Send, TypeOK
  <2>2. NoneLeft'
    BY <1>2 DEF Send, NoneLeft
  <2> QED
    BY <1>2, <2>1, <2>2 DEF Send, OnlyPoolAndMonitorDangle
<1>3. CASE Quit
  BY <1>3 DEF Quit, TypeOK, NoneLeft, OnlyPoolAndMonitorDangle
<1>4. CASE Stopped
  BY <1>4, StackOrder DEF Stopped, TypeOK, NoneLeft, OnlyPoolAndMonitorDangle
<1>5. CASE Destroy
  <2>1. gone' \in 0 .. Len(Stack)
    BY <1>5, StackOrder DEF Destroy, TypeOK, NoneLeft
  <2>2. tasks' \in 0 .. PoolCapacity
    BY <1>5, ShutdownAssumption DEF Destroy, TypeOK
  <2>3. TypeOK'
    BY <1>5, <2>1, <2>2 DEF Destroy, TypeOK
  <2>4. NoneLeft'
    BY <1>5, <2>1 DEF Destroy, TypeOK, NoneLeft
  <2> QED
    BY <1>5, <2>3, <2>4 DEF Destroy, OnlyPoolAndMonitorDangle
<1> QED
  BY <1>1, <1>2, <1>3, <1>4, <1>5 DEF Gui

\* Every step keeps the invariant.
LEMMA StepIInv == IInv /\ [Next]_vars => IInv'
<1> SUFFICES ASSUME IInv, [Next]_vars PROVE IInv'
  OBVIOUS
<1>1. CASE FileChanges
  BY <1>1 DEF FileChanges, IInv, TypeOK, NoneLeft, OnlyPoolAndMonitorDangle
<1>2. CASE UNCHANGED vars
  BY <1>2 DEF vars, IInv, TypeOK, NoneLeft, OnlyPoolAndMonitorDangle
<1> QED
  BY <1>1, <1>2, MainIInv, CompleteIInv, PoolRunIInv, MonitorRunsIInv DEF Next

-----------------------------------------------------------------------------
(* The theorems.                                                           *)

LEMMA Invariance == Spec => []IInv
<1> QED
  BY InitIInv, StepIInv, PTL DEF Spec

\* Type correctness: in particular the pool's queue never holds more than
\* its capacity, because the RPC thread waits (pushOne).
THEOREM TypeCorrect == Spec => []TypeOK
<1>1. IInv => TypeOK
  BY DEF IInv
<1> QED
  BY <1>1, Invariance, PTL

\* However many requests are under way when the user quits, no completion on
\* the RPC thread uses an object that WinMain has destroyed.
THEOREM NoCompletionDangles == Spec => []OnlyPoolAndMonitorDangle
<1>1. IInv => OnlyPoolAndMonitorDangle
  BY DEF IInv
<1> QED
  BY <1>1, Invariance, PTL
=============================================================================
