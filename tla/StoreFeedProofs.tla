-------------------------- MODULE StoreFeedProofs --------------------------
(***************************************************************************)
(* Proofs about StoreFeed, for every number of applications and every      *)
(* batch size.                                                             *)
(*                                                                         *)
(* The feed is a baton passed between the threads: at any time one batch   *)
(* of the catalogue, the window that starts at engine_fetch_index_ and is  *)
(* fetch_count_ long, is in one of four phases, and the invariant says     *)
(* which parts of the state are empty in each of them.  What the list      *)
(* shows, and that the feed implements Catalog, follow from that.          *)
(***************************************************************************)
EXTENDS StoreFeed, FiniteSetTheorems, TLAPS

Pc(t) == frame[t].pc

\* Every application before the window has been settled, none after it has.
SettledBefore(lo)  == \A i \in AppIdx : i < lo => status[i] # "NotFetched"
UntouchedFrom(hi)  == \A i \in AppIdx : i >= hi => status[i] = "NotFetched"

\* How far the window has been requested.
Top == IF Pc("rpc") = "send" THEN frame["rpc"].next
       ELSE IF Pc("gui") = "send" THEN frame["gui"].next
       ELSE engine_fetch_index + fetch_count

NothingUnderWay ==
    /\ Waiting = {} /\ push_item_count = 0

NothingLanded == new_items = 0 /\ ~in_slot /\ pop_item_dq = {}

\* No batch: requestMore may have been called but has not passed the clamp.
Idle ==
    /\ NothingUnderWay /\ NothingLanded /\ push_item_dq = {}
    /\ \A t \in Threads : Pc(t) # "send"
    /\ engine_fetch_index <= size
    /\ SettledBefore(engine_fetch_index)
    /\ UntouchedFrom(engine_fetch_index)

\* What a request, a failure being handled and a task say of the status.
WaitingStatus ==
    /\ \A i \in inflight : status[i] = "NotFetched"
    /\ \A i \in failing : status[i] = "Errored"
    /\ \A task \in tasks : /\ status[task.index] = (IF task.ok THEN "NotFetched" ELSE "Errored")
                           /\ task.count = fetch_count
    /\ inflight \cap failing = {}
    /\ inflight \cap TaskIdx = {}
    /\ failing \cap TaskIdx = {}
    /\ \A a, b \in tasks : a.index = b.index => a = b

\* A batch is being requested and collected: each application of the window
\* below Top waits in one place, or has been pushed, or has failed.
Collecting ==
    /\ NothingLanded
    /\ \A t \in Threads : Pc(t) # "clamp"
    /\ Waiting \subseteq engine_fetch_index .. Top - 1
    /\ Cardinality(Waiting) + push_item_count = Top - engine_fetch_index
    /\ push_item_count < fetch_count
    /\ engine_fetch_index + fetch_count <= size
    /\ WaitingStatus
    /\ \A item \in push_item_dq :
         item.index \in engine_fetch_index .. Top - 1 /\ item.index \notin Waiting
    /\ \A i \in engine_fetch_index .. Top - 1 : i \notin Waiting =>
         /\ status[i] # "Fetched"
         /\ status[i] = "NotFetched" <=> i \in Indices(push_item_dq)
    /\ SettledBefore(engine_fetch_index)
    /\ UntouchedFrom(Top)

\* The window of a batch that is complete lies before engine_fetch_index_.
Complete(batch) ==
    /\ NothingUnderWay
    /\ \A t \in Threads : Pc(t) \notin {"clamp", "send"}
    /\ fetch_count > 0 /\ fetch_count <= engine_fetch_index
    /\ engine_fetch_index <= size
    /\ \A item \in batch : item.index \in engine_fetch_index - fetch_count .. engine_fetch_index - 1
    /\ \A i \in engine_fetch_index - fetch_count .. engine_fetch_index - 1 :
         /\ status[i] # "Fetched"
         /\ status[i] = "NotFetched" <=> i \in Indices(batch)
    /\ SettledBefore(engine_fetch_index - fetch_count)
    /\ UntouchedFrom(engine_fetch_index)

\* newItemSignal is queued, or newItemsSlot has swapped the deques.
Ready     == Complete(push_item_dq) /\ new_items = 1 /\ ~in_slot /\ pop_item_dq = {}
Inserting == Complete(pop_item_dq) /\ new_items = 0 /\ in_slot /\ push_item_dq = {}

Phases == Idle \/ Collecting \/ Ready \/ Inserting

FiniteBatches == IsFiniteSet(push_item_dq) /\ IsFiniteSet(pop_item_dq)

\* A call of requestMore is for the window that follows the last batch.
Frames ==
    /\ Pc("rpc") = "off" \/ Pc("gui") = "off"
    /\ \A t \in Threads :
         /\ Pc(t) = "clamp" => /\ frame[t].next = engine_fetch_index
                               /\ frame[t].last = engine_fetch_index + fetch_count
         /\ Pc(t) = "send" => /\ engine_fetch_index <= frame[t].next
                              /\ frame[t].next < frame[t].last
                              /\ frame[t].last = engine_fetch_index + fetch_count

\* The GUI thread cannot ask for a batch while there is one: there are no
\* rows yet, or requested_more_ says so, or it is in the call itself.
Requested ==
    /\ Idle \/ count = 0 \/ requested_more \/ Pc("gui") # "off"
    /\ Pc("gui") = "returned" => Idle \/ frame["gui"].more

\* While the RPC thread is in requestMore no other thread has anything to do.
FirstBatch ==
    Pc("rpc") # "off" =>
        /\ count = 0 /\ engine_fetch_index = 0 /\ push_item_count = 0
        /\ NothingLanded /\ push_item_dq = {} /\ failing = {} /\ tasks = {}

\* Before the listings are complete nothing is requested.
Listings ==
    listing # "done" =>
        /\ Idle /\ engine_fetch_index = 0 /\ count = 0
        /\ \A t \in Threads : Pc(t) = "off"

\* The RPC thread handles one failure at a time.
OneFailure == \A i, j \in failing : i = j

IInv == /\ TypeOK /\ FiniteBatches /\ OneFailure /\ Phases /\ Frames /\ Requested
        /\ FirstBatch /\ Listings /\ ~thrown

-----------------------------------------------------------------------------
(* Which phase the feed is in, from what a thread sees.                    *)

\* There are two threads to look at.
LEMMA ThreadCases == \A t \in Threads : t = "rpc" \/ t = "gui"
  BY DEF Threads

\* The phase a step is taken in follows from what its guard says.
LEMMA PhaseOf ==
  ASSUME IInv
  PROVE  /\ Waiting # {} => Collecting
         /\ \A t \in Threads : Pc(t) = "send" => Collecting
         /\ \A t \in Threads : Pc(t) = "clamp" => Idle
         /\ new_items > 0 => Ready
         /\ in_slot => Inserting
  BY DEF IInv, Phases, Idle, Collecting, Ready, Inserting, Complete, NothingUnderWay,
         NothingLanded, TypeOK

\* Nothing waits exactly when no fetch is in flight, failing or handed to
\* the pool.
LEMMA WaitingEmpty ==
  Waiting = {} <=> inflight = {} /\ failing = {} /\ tasks = {}
  BY DEF Waiting, TaskIdx

\* Top and the indices are numbers.
LEMMA TopType ==
  ASSUME TypeOK
  PROVE  Top \in Nat /\ engine_fetch_index \in Nat /\ fetch_count \in Nat /\ size \in Nat
  <1>1. \A t \in Threads : frame[t].next \in Nat
    BY DEF TypeOK, EngineTypes, Frame
  <1>2. engine_fetch_index \in Nat /\ fetch_count \in Nat /\ size \in Nat
    BY StoreEngineAssumption DEF TypeOK, EngineTypes, ModelTypes
  <1> QED
    BY <1>1, <1>2 DEF Top, Threads

-----------------------------------------------------------------------------
(* The initial state.                                                      *)

\* The invariant holds when the program starts.
LEMMA InitIInv == Init => IInv
  <1> SUFFICES ASSUME Init PROVE IInv
    OBVIOUS
  <1> USE StoreEngineAssumption, ListModelAssumption
      DEF Init, EngineInit, ModelInit, NoFrame
  <1>1. TypeOK
    <2>1. EngineTypes
      <3>1. frame \in [Threads -> Frame]
        BY DEF Frame
      <3>2. /\ status \in [AppIdx -> StatusE]
            /\ flags \in [AppIdx -> SUBSET FlagE]
            /\ model_index \in [AppIdx -> Nat]
        BY DEF StatusE
      <3> QED
        BY <3>1, <3>2 DEF EngineTypes
    <2>2. ModelTypes /\ tasks \subseteq Task
      BY DEF ModelTypes
    <2>3. FlagTypes
      BY DEF FlagTypes
    <2> QED
      BY <2>1, <2>2, <2>3 DEF TypeOK
  <1>2. Waiting = {}
    BY DEF Waiting, TaskIdx
  <1>3. Idle
    BY <1>2, FS_EmptySet DEF Idle, NothingUnderWay, NothingLanded, SettledBefore,
       UntouchedFrom, Pc, AppIdx
  <1>4. FiniteBatches
    BY FS_EmptySet DEF FiniteBatches
  <1>5. \A t \in Threads : Pc(t) = "off"
    BY DEF Pc
  <1>6. Frames
    BY <1>5 DEF Frames, Threads
  <1>7. Requested /\ FirstBatch
    BY <1>5 DEF Requested, FirstBatch, Threads
  <1>8. Listings
    BY <1>3, <1>5 DEF Listings
  <1> QED
    BY <1>1, <1>3, <1>4, <1>6, <1>7, <1>8 DEF IInv, Phases, OneFailure

-----------------------------------------------------------------------------
(* The listings.                                                           *)

\* The invariant is kept by the completions of the three listings, the last
\* of which starts the first batch.
LEMMA ListStep == IInv /\ List => IInv'
  <1> SUFFICES ASSUME IInv, List PROVE IInv'
    OBVIOUS
  <1> USE DEF vars, engineVars, modelVars, listVars, appVars, pushVars, rowVars
  <1>1. UNCHANGED <<status, model_index, inflight, failing, thrown, modelVars, tasks>>
    BY DEF List, ListingFails, ListAll, ListAquired, ListDefault
  <1>2. /\ listing # "done"
        /\ listing' \in {"a", "d", "failed", "done"}
        /\ listing' # "done" => UNCHANGED <<frame, fetch_count>>
        /\ listing' = "done" => RequestMore("rpc", 0, StartFetchCount)
    BY DEF List, ListingFails, ListAll, ListAquired, ListDefault
  <1>3. size' \in 0 .. MaxApps
    BY DEF List, ListingFails, ListAll, ListAquired, ListDefault, IInv, TypeOK, EngineTypes
  <1>4. flags' \in [AppIdx -> SUBSET FlagE]
    <2>1. CASE ListAll
      <3>1. PICK n \in 0 .. MaxApps :
              \E f \in [{i \in Flaggable : i < n} -> SUBSET {"Owned", "ReviewRequest"}] :
                flags' = [i \in AppIdx |-> IF i \in DOMAIN f THEN f[i] ELSE {}]
        BY <2>1 DEF ListAll
      <3> QED
        BY <3>1 DEF FlagE
    <2>2. ASSUME NEW flag \in FlagE, NEW listed, AddFlag(flag, listed)
          PROVE  flags' \in [AppIdx -> SUBSET FlagE]
      BY <2>2 DEF AddFlag, IInv, TypeOK, EngineTypes
    <2>3. CASE ListAquired
      BY <2>2, <2>3 DEF ListAquired, FlagE
    <2>4. CASE ListDefault
      BY <2>2, <2>4 DEF ListDefault, FlagE
    <2>5. CASE ListingFails
      BY <2>5 DEF ListingFails, IInv, TypeOK, EngineTypes
    <2> QED
      BY <2>1, <2>3, <2>4, <2>5 DEF List
  <1>5. /\ Idle /\ engine_fetch_index = 0 /\ count = 0
        /\ \A t \in Threads : Pc(t) = "off"
    BY <1>2 DEF IInv, Listings
  <1>6. \/ frame' = frame /\ fetch_count' = fetch_count /\ listing' # "done"
        \/ /\ frame' = [frame EXCEPT !["rpc"] =
                 [pc |-> "clamp", next |-> 0, last |-> 0 + StartFetchCount, more |-> FALSE]]
           /\ fetch_count' = StartFetchCount
           /\ listing' = "done"
    BY <1>2 DEF RequestMore
  <1>7. frame' \in [Threads -> Frame]
    <2>1. [pc |-> "clamp", next |-> 0, last |-> 0 + StartFetchCount, more |-> FALSE] \in Frame
      BY StoreEngineAssumption DEF Frame
    <2> QED
      BY <1>6, <2>1 DEF IInv, TypeOK, EngineTypes
  <1>8. TypeOK'
    <2>1. fetch_count' \in Nat
      BY <1>6, StoreEngineAssumption DEF IInv, TypeOK, EngineTypes
    <2>2. EngineTypes'
      BY <1>1, <1>2, <1>3, <1>4, <1>7, <2>1 DEF IInv, TypeOK, EngineTypes
    <2> QED
      BY <1>1, <2>2 DEF IInv, TypeOK, ModelTypes, FlagTypes
  <1>9. /\ Pc("gui")' = "off"
        /\ Pc("rpc")' = "off" \/ /\ Pc("rpc")' = "clamp"
                                 /\ frame'["rpc"].next = 0
                                 /\ frame'["rpc"].last = fetch_count'
    BY <1>5, <1>6, StoreEngineAssumption DEF Pc, Threads, IInv, TypeOK, EngineTypes
  <1>10. Idle'
    <2>1. (Waiting = {})' /\ push_item_count' = 0
      BY <1>1, <1>5 DEF Idle, NothingUnderWay, Waiting, TaskIdx
    <2>2. \A t \in Threads : Pc(t)' # "send"
      BY <1>9, ThreadCases
    <2> QED
      BY <1>1, <1>3, <1>5, <2>1, <2>2
         DEF Idle, NothingUnderWay, NothingLanded, SettledBefore, UntouchedFrom
  <1>11. Frames'
    <2>1. ASSUME NEW t \in Threads
          PROVE  /\ Pc(t)' # "send"
                 /\ Pc(t)' = "clamp" => /\ frame'[t].next = engine_fetch_index'
                                       /\ frame'[t].last = engine_fetch_index' + fetch_count'
      <3>1. fetch_count' \in Nat
        BY <1>6, StoreEngineAssumption DEF IInv, TypeOK, EngineTypes
      <3> QED
        BY <1>1, <1>5, <1>9, <3>1, ThreadCases
    <2> QED
      BY <1>9, <2>1 DEF Frames
  <1>12. FirstBatch'
    BY <1>1, <1>5, WaitingEmpty
       DEF FirstBatch, Idle, NothingUnderWay, NothingLanded
  <1>13. Listings'
    BY <1>1, <1>5, <1>6, <1>10 DEF Listings, Pc
  <1> QED
    BY <1>1, <1>8, <1>9, <1>10, <1>11, <1>12, <1>13
       DEF IInv, Phases, FiniteBatches, Requested, OneFailure

-----------------------------------------------------------------------------
(* Steps of a batch that is being collected.                               *)

\* While something is waiting, a step that leaves the calls and the window
\* alone keeps all of the invariant but the phase and the types.
LEMMA CollectingRest ==
  ASSUME IInv, Waiting # {}, Pc("rpc") = "off",
         UNCHANGED <<listing, frame, fetch_count, engine_fetch_index, count, requested_more>>
  PROVE  Frames' /\ Requested' /\ FirstBatch' /\ Listings'
  <1>1. ~Idle
    BY DEF Idle, NothingUnderWay
  <1>2. listing' = "done"
    BY <1>1 DEF IInv, Listings
  <1>3. Pc("rpc")' = Pc("rpc") /\ Pc("gui")' = Pc("gui")
    BY DEF Pc
  <1>4. Frames'
    BY DEF IInv, Frames, Pc
  <1>5. Requested'
    BY <1>1, <1>3 DEF IInv, Requested
  <1> QED
    BY <1>2, <1>3, <1>4, <1>5 DEF FirstBatch, Listings

\* The threads that handle what is waiting find the RPC thread's call over.
LEMMA TaskAfterCall ==
  ASSUME IInv, failing # {} \/ tasks # {}
  PROVE  Waiting # {} /\ Pc("rpc") = "off"
  BY WaitingEmpty DEF IInv, FirstBatch

\* The applications of a set of items or tasks to which one is added.
LEMMA AddIndex ==
  ASSUME NEW T, NEW x
  PROVE  {task.index : task \in T \cup {x}} = {task.index : task \in T} \cup {x.index}
  OBVIOUS

\* Tasks of distinct applications stay so when one of a new application joins.
LEMMA AddDistinct ==
  ASSUME NEW T, NEW x, \A a, b \in T : a.index = b.index => a = b,
         x.index \notin {task.index : task \in T}
  PROVE  \A a, b \in T \cup {x} : a.index = b.index => a = b
  OBVIOUS

\* The invariant is kept when an answered fetch is handed to the pool.
LEMMA RpcAnswerStep == IInv /\ RpcAnswer => IInv'
  <1> SUFFICES ASSUME IInv, NEW i \in inflight, FetchAnswered(i), UNCHANGED modelVars,
                      tasks' = tasks \cup {[index |-> i, count |-> fetch_count,
                                            ok |-> TRUE, flags |-> flags[i]]}
               PROVE  IInv'
    BY DEF RpcAnswer
  <1> DEFINE new == [index |-> i, count |-> fetch_count, ok |-> TRUE, flags |-> flags[i]]
  <1>1. /\ inflight' = inflight \ {i}
        /\ UNCHANGED <<listing, size, flags, status, model_index, fetch_count, frame, failing,
                       thrown, push_item_dq, push_item_count, engine_fetch_index, new_items,
                       in_slot, pop_item_dq, item_dq, count, request_more_index,
                       requested_more>>
        /\ Pc("rpc") = "off"
    BY DEF FetchAnswered, RpcIdle, Pc, listVars, appVars, modelVars
  <1>2. Waiting # {} /\ Collecting
    BY PhaseOf, WaitingEmpty
  <1>3. TypeOK'
    <2>1. i \in AppIdx /\ flags[i] \in SUBSET FlagE /\ fetch_count \in Nat
      BY DEF IInv, TypeOK, EngineTypes
    <2>2. new \in Task
      BY <2>1 DEF Task
    <2>3. tasks' \subseteq Task
      BY <2>2 DEF IInv, TypeOK
    <2>4. EngineTypes'
      BY <1>1 DEF IInv, TypeOK, EngineTypes
    <2> QED
      BY <1>1, <2>3, <2>4 DEF IInv, TypeOK, ModelTypes, FlagTypes
  <1>4. TaskIdx' = TaskIdx \cup {i}
    <2>1. tasks' = tasks \cup {new} /\ new.index = i
      OBVIOUS
    <2> HIDE DEF new
    <2> QED
      BY <2>1, AddIndex DEF TaskIdx
  <1>5. Waiting' = Waiting
    BY <1>1, <1>4 DEF Waiting
  <1>6. Top' = Top /\ \A t \in Threads : Pc(t)' = Pc(t)
    <2>1. \A t : Pc(t)' = Pc(t)
      BY <1>1 DEF Pc
    <2> QED
      BY <1>1, <2>1 DEF Top
  <1>7. WaitingStatus'
    <2>1. status[i] = "NotFetched" /\ i \notin TaskIdx /\ i \notin failing
      BY <1>2 DEF Collecting, WaitingStatus
    <2>2. ASSUME NEW task \in tasks'
          PROVE  /\ status'[task.index] = (IF task.ok THEN "NotFetched" ELSE "Errored")
                 /\ task.count = fetch_count'
      <3>1. CASE task \in tasks
        BY <1>1, <1>2, <3>1 DEF Collecting, WaitingStatus
      <3>2. CASE task = new
        BY <1>1, <2>1, <3>2
      <3> QED
        BY <3>1, <3>2
    <2>3. \A a, b \in tasks' : a.index = b.index => a = b
      <3>1. tasks' = tasks \cup {new} /\ new.index = i
        OBVIOUS
      <3>2. \A a, b \in tasks : a.index = b.index => a = b
        BY <1>2 DEF Collecting, WaitingStatus
      <3>3. new.index \notin {task.index : task \in tasks}
        BY <2>1, <3>1 DEF TaskIdx
      <3> HIDE DEF new
      <3> QED
        BY <3>1, <3>2, <3>3, AddDistinct
    <2> QED
      BY <1>1, <1>2, <1>4, <2>1, <2>2, <2>3 DEF Collecting, WaitingStatus
  <1>8. Collecting'
    BY <1>1, <1>2, <1>5, <1>6, <1>7
       DEF Collecting, NothingLanded, SettledBefore, UntouchedFrom, Indices
  <1> QED
    BY <1>1, <1>2, <1>3, <1>8, CollectingRest DEF IInv, Phases, FiniteBatches, OneFailure

\* A failure being handled becomes a task without an item: what is waiting,
\* and for which window, stays the same.
LEMMA RpcReportStep == IInv /\ RpcReport => IInv'
  <1> SUFFICES ASSUME IInv, NEW i \in failing, FailureReported(i), UNCHANGED modelVars,
                      tasks' = tasks \cup {[index |-> i, count |-> fetch_count,
                                            ok |-> FALSE, flags |-> {}]}
               PROVE  IInv'
    BY DEF RpcReport
  <1> DEFINE new == [index |-> i, count |-> fetch_count, ok |-> FALSE, flags |-> {}]
  <1>1. /\ failing' = {}
        /\ UNCHANGED <<listing, size, flags, status, model_index, fetch_count, frame, inflight,
                       thrown, push_item_dq, push_item_count, engine_fetch_index, new_items,
                       in_slot, pop_item_dq, item_dq, count, request_more_index,
                       requested_more>>
        /\ Pc("rpc") = "off" /\ Waiting # {} /\ Collecting
    BY TaskAfterCall, PhaseOf DEF FailureReported, listVars, appVars, modelVars
  <1>2. failing = {i}
    BY DEF IInv, OneFailure
  <1>3. TypeOK'
    <2>1. i \in AppIdx /\ fetch_count \in Nat
      BY DEF IInv, TypeOK, EngineTypes
    <2>2. new \in Task
      BY <2>1 DEF Task
    <2>3. tasks' \subseteq Task
      BY <2>2 DEF IInv, TypeOK
    <2>4. EngineTypes'
      BY <1>1 DEF IInv, TypeOK, EngineTypes
    <2> QED
      BY <1>1, <2>3, <2>4 DEF IInv, TypeOK, ModelTypes, FlagTypes
  <1>4. tasks' = tasks \cup {new} /\ new.index = i
    OBVIOUS
  <1>5. TaskIdx' = TaskIdx \cup {i}
    <2> HIDE DEF new
    <2> QED
      BY <1>4, AddIndex DEF TaskIdx
  <1>6. Waiting' = Waiting
    BY <1>1, <1>2, <1>5 DEF Waiting
  <1>7. Top' = Top /\ \A t \in Threads : Pc(t)' = Pc(t)
    <2>1. \A t : Pc(t)' = Pc(t)
      BY <1>1 DEF Pc
    <2> QED
      BY <1>1, <2>1 DEF Top
  <1>8. WaitingStatus'
    <2>1. status[i] = "Errored" /\ i \notin TaskIdx /\ i \notin inflight
      BY <1>1 DEF Collecting, WaitingStatus
    <2>2. ASSUME NEW task \in tasks'
          PROVE  /\ status'[task.index] = (IF task.ok THEN "NotFetched" ELSE "Errored")
                 /\ task.count = fetch_count'
      <3>1. CASE task \in tasks
        BY <1>1, <3>1 DEF Collecting, WaitingStatus
      <3>2. CASE task = new
        BY <1>1, <2>1, <3>2
      <3> QED
        BY <3>1, <3>2
    <2>3. \A a, b \in tasks' : a.index = b.index => a = b
      <3>1. \A a, b \in tasks : a.index = b.index => a = b
        BY <1>1 DEF Collecting, WaitingStatus
      <3>2. new.index \notin {task.index : task \in tasks}
        BY <2>1, <1>4 DEF TaskIdx
      <3> HIDE DEF new
      <3> QED
        BY <1>4, <3>1, <3>2, AddDistinct
    <2> QED
      BY <1>1, <1>5, <2>1, <2>2, <2>3 DEF Collecting, WaitingStatus
  <1>9. Collecting'
    BY <1>1, <1>6, <1>7, <1>8
       DEF Collecting, NothingLanded, SettledBefore, UntouchedFrom, Indices
  <1>10. OneFailure'
    BY <1>1 DEF OneFailure
  <1> QED
    BY <1>1, <1>3, <1>9, <1>10, CollectingRest DEF IInv, Phases, FiniteBatches

\* A failed request stays with the RPC thread until it is reported.
LEMMA RpcFailureStep == IInv /\ RpcFailure => IInv'
  <1> SUFFICES ASSUME IInv, NEW i \in inflight, FetchFailed(i), UNCHANGED <<modelVars, tasks>>
               PROVE  IInv'
    BY DEF RpcFailure
  <1>1. /\ inflight' = inflight \ {i}
        /\ status' = [status EXCEPT ![i] = "Errored"]
        /\ failing = {} /\ failing' = {i}
        /\ UNCHANGED <<listing, size, flags, model_index, fetch_count, frame,
                       thrown, push_item_dq, push_item_count, engine_fetch_index, new_items,
                       in_slot, pop_item_dq, item_dq, count, request_more_index,
                       requested_more, tasks>>
        /\ Pc("rpc") = "off" /\ Waiting # {} /\ Collecting
    BY PhaseOf, WaitingEmpty DEF FetchFailed, RpcIdle, Pc, listVars, modelVars
  <1>2. /\ i \in AppIdx /\ i \in engine_fetch_index .. Top - 1
        /\ i \notin TaskIdx /\ i \in Waiting
    BY <1>1 DEF Collecting, WaitingStatus, Waiting, IInv, TypeOK, EngineTypes
  <1>3. TypeOK'
    <2>1. status' \in [AppIdx -> StatusE]
      BY <1>1 DEF IInv, TypeOK, EngineTypes, StatusE
    <2>2. EngineTypes'
      BY <1>1, <1>2, <2>1 DEF IInv, TypeOK, EngineTypes
    <2> QED
      BY <1>1, <2>2 DEF IInv, TypeOK, ModelTypes, FlagTypes
  <1>4. TaskIdx' = TaskIdx
    BY <1>1 DEF TaskIdx
  <1>5. Waiting' = Waiting
    BY <1>1, <1>4 DEF Waiting
  <1>6. Top' = Top /\ \A t \in Threads : Pc(t)' = Pc(t)
    <2>1. \A t : Pc(t)' = Pc(t)
      BY <1>1 DEF Pc
    <2> QED
      BY <1>1, <2>1 DEF Top
  <1>7. \A j \in AppIdx : status'[j] = IF j = i THEN "Errored" ELSE status[j]
    BY <1>1 DEF IInv, TypeOK, EngineTypes
  <1>8. WaitingStatus'
    <2>1. inflight \subseteq AppIdx
      BY DEF IInv, TypeOK, EngineTypes
    <2>2. ASSUME NEW task \in tasks'
          PROVE  /\ status'[task.index] = (IF task.ok THEN "NotFetched" ELSE "Errored")
                 /\ task.count = fetch_count'
      <3>1. task.index # i
        BY <1>1, <1>2 DEF TaskIdx
      <3>2. status'[task.index] = status[task.index]
        BY <1>1, <3>1 DEF IInv, TypeOK, EngineTypes
      <3> QED
        BY <1>1, <3>2 DEF Collecting, WaitingStatus
    <2>3. /\ \A j \in inflight' : status'[j] = "NotFetched"
          /\ \A j \in failing' : status'[j] = "Errored"
      BY <1>1, <1>2, <1>7, <2>1 DEF Collecting, WaitingStatus
    <2>4. \A a, b \in tasks' : a.index = b.index => a = b
      BY <1>1 DEF Collecting, WaitingStatus
    <2> QED
      BY <1>1, <1>2, <1>4, <2>2, <2>3, <2>4 DEF Collecting, WaitingStatus
  <1>9. Collecting'
    <2>1. \A j \in engine_fetch_index .. Top - 1 : j \notin Waiting =>
             /\ status'[j] # "Fetched"
             /\ status'[j] = "NotFetched" <=> j \in Indices(push_item_dq)
      <3>1. \A j : j # i => status'[j] = status[j]
        BY <1>1 DEF IInv, TypeOK, EngineTypes
      <3> QED
        BY <1>1, <1>2, <3>1 DEF Collecting
    <2>2. SettledBefore(engine_fetch_index)'
      BY <1>1, <1>2, <1>7 DEF Collecting, SettledBefore
    <2>3. UntouchedFrom(Top)'
      <3>1. Top \in Nat
        BY TopType DEF IInv
      <3>2. \A j \in AppIdx : j >= Top => j # i
        BY <1>2, <3>1 DEF AppIdx
      <3> QED
        BY <1>1, <1>6, <1>7, <3>2 DEF Collecting, UntouchedFrom
    <2>4. Indices(push_item_dq)' = Indices(push_item_dq)
      BY <1>1 DEF Indices
    <2> QED
      BY <1>1, <1>5, <1>6, <1>8, <2>1, <2>2, <2>3, <2>4 DEF Collecting, NothingLanded
  <1>10. OneFailure'
    BY <1>1 DEF OneFailure
  <1> QED
    BY <1>1, <1>3, <1>9, <1>10, CollectingRest DEF IInv, Phases, FiniteBatches

-----------------------------------------------------------------------------
(* The calls of requestMore.                                               *)

\* Under the lock the call of an idle feed finds the end of the catalogue, or
\* opens the next window, nothing of which has been requested.
LEMMA ClampStep ==
  ASSUME IInv, NEW t \in Threads, Clamp(t), UNCHANGED <<modelVars, tasks>>
  PROVE  IInv'
  <1> DEFINE last  == IF frame[t].last > size THEN size ELSE frame[t].last
             empty == frame[t].next >= last
  <1>1. /\ fetch_count' = fetch_count - (frame[t].last - last)
        /\ frame' = [frame EXCEPT ![t].last = last,
                                  ![t].pc = IF empty THEN "returned" ELSE "send"]
        /\ Pc(t) = "clamp"
        /\ UNCHANGED <<listing, size, flags, status, model_index, inflight, failing, thrown,
                       push_item_dq, push_item_count, engine_fetch_index, new_items,
                       in_slot, pop_item_dq, item_dq, count, request_more_index,
                       requested_more, tasks>>
    BY DEF Clamp, Pc, listVars, appVars, modelVars
  <1>2. /\ Idle
        /\ frame[t].next = engine_fetch_index
        /\ frame[t].last = engine_fetch_index + fetch_count
        /\ \A u \in Threads : u # t => Pc(u) = "off"
    BY <1>1, PhaseOf DEF IInv, Frames, Threads
  <1>3. /\ engine_fetch_index \in Nat /\ fetch_count \in Nat /\ size \in Nat
        /\ engine_fetch_index <= size
    BY <1>2, TopType DEF IInv, Idle
  <1>4. /\ last \in Nat /\ last <= size /\ fetch_count' = last - engine_fetch_index
        /\ fetch_count' \in Nat
        /\ empty <=> fetch_count' = 0
    BY <1>1, <1>2, <1>3
  <1> HIDE DEF last, empty
  <1>5. /\ frame' \in [Threads -> Frame]
        /\ frame'[t].pc = (IF empty THEN "returned" ELSE "send")
        /\ frame'[t].next = engine_fetch_index
        /\ frame'[t].last = engine_fetch_index + fetch_count'
        /\ \A u \in Threads : u # t => frame'[u] = frame[u]
    <2>1. frame[t] \in Frame /\ frame \in [Threads -> Frame]
      BY DEF IInv, TypeOK, EngineTypes
    <2> DEFINE new == [frame[t] EXCEPT !.last = last,
                                       !.pc = IF empty THEN "returned" ELSE "send"]
    <2>2. frame' = [frame EXCEPT ![t] = new]
      BY <1>1, <2>1 DEF Frame
    <2>3. new \in Frame /\ new.pc = (IF empty THEN "returned" ELSE "send")
          /\ new.next = engine_fetch_index /\ new.last = last
      BY <1>2, <1>4, <2>1 DEF Frame
    <2> HIDE DEF new
    <2>4. last = engine_fetch_index + fetch_count'
      BY <1>3, <1>4
    <2> QED
      BY <2>1, <2>2, <2>3, <2>4
  <1>6. TypeOK'
    <2>1. EngineTypes'
      BY <1>1, <1>4, <1>5 DEF IInv, TypeOK, EngineTypes
    <2> QED
      BY <1>1, <2>1 DEF IInv, TypeOK, ModelTypes, FlagTypes
  <1>7. /\ Pc(t)' = (IF empty THEN "returned" ELSE "send")
        /\ \A u \in Threads : u # t => Pc(u)' = "off"
    BY <1>2, <1>5 DEF Pc
  <1>8. (Waiting = {})'
    BY <1>1, <1>2 DEF Idle, NothingUnderWay, Waiting, TaskIdx
  <1>9. FirstBatch'
    <2>1. Pc("rpc")' # "off" => Pc("rpc") # "off"
      BY <1>1, <1>7, ThreadCases DEF Threads
    <2>2. NothingLanded' = NothingLanded
      BY <1>1 DEF NothingLanded
    <2> QED
      BY <1>1, <2>1, <2>2 DEF IInv, FirstBatch
  <1>10. /\ count' = 0 \/ Pc("gui")' # "off"
         /\ Pc("gui")' = "returned" => empty
         /\ listing' = "done"
         /\ Pc("rpc")' = "off" \/ Pc("gui")' = "off"
    <2>1. t = "rpc" => count = 0
      BY <1>1 DEF IInv, FirstBatch
    <2>2. listing = "done"
      BY <1>1 DEF IInv, Listings
    <2>3. t = "gui" => Pc("gui")' # "off"
      BY <1>7
    <2>4. Pc("gui")' = "returned" => empty
      BY <1>7, ThreadCases DEF Threads
    <2>5. Pc("rpc")' = "off" \/ Pc("gui")' = "off"
      BY <1>7, ThreadCases DEF Threads
    <2> QED
      BY <1>1, <2>1, <2>2, <2>3, <2>4, <2>5, ThreadCases
  <1>11. CASE empty
    <2>1. Idle'
      BY <1>1, <1>2, <1>7, <1>8, <1>11
         DEF Idle, NothingUnderWay, NothingLanded, SettledBefore, UntouchedFrom
    <2>2. \A u \in Threads : Pc(u)' # "clamp" /\ Pc(u)' # "send"
      BY <1>7, <1>11
    <2>3. Frames'
      BY <1>10, <2>2 DEF Frames
    <2>4. Requested' /\ Listings'
      BY <1>10, <2>1 DEF Requested, Listings
    <2> QED
      BY <1>1, <1>6, <1>9, <2>1, <2>3, <2>4 DEF IInv, Phases, FiniteBatches, OneFailure
  <1>12. CASE ~empty
    <2>1. Top' = engine_fetch_index
      BY <1>1, <1>5, <1>7, <1>12, ThreadCases DEF Top, Threads
    <2>2. Collecting'
      <3>1. Cardinality(Waiting') = 0
        BY <1>8, FS_EmptySet
      <3>2. /\ inflight' = {} /\ failing' = {} /\ tasks' = {} /\ (TaskIdx = {})'
        BY <1>8 DEF Waiting, TaskIdx
      <3>3. WaitingStatus'
        BY <3>2 DEF WaitingStatus
      <3>4. \A u \in Threads : Pc(u)' # "clamp"
        BY <1>7, <1>12
      <3>5. push_item_count' = 0 /\ push_item_dq' = {} /\ NothingLanded'
        BY <1>1, <1>2 DEF Idle, NothingUnderWay, NothingLanded
      <3>6. SettledBefore(engine_fetch_index)' /\ UntouchedFrom(Top)'
        BY <1>1, <1>2, <2>1 DEF Idle, SettledBefore, UntouchedFrom
      <3>7. 0 < fetch_count' /\ engine_fetch_index + fetch_count' <= size
        BY <1>3, <1>4, <1>12
      <3>8. engine_fetch_index .. Top' - 1 = {}
        BY <1>3, <2>1
      <3> QED
        BY <1>1, <1>3, <1>4, <1>8, <2>1, <3>1, <3>3, <3>4, <3>5, <3>6, <3>7, <3>8
           DEF Collecting
    <2>3. Frames'
      BY <1>1, <1>3, <1>4, <1>5, <1>7, <1>12, ThreadCases DEF Frames, Threads
    <2>4. Requested' /\ Listings'
      BY <1>10, <1>12 DEF Requested, Listings
    <2> QED
      BY <1>1, <1>6, <1>9, <2>2, <2>3, <2>4 DEF IInv, Phases, FiniteBatches, OneFailure
  <1> QED
    BY <1>11, <1>12

\* Sending one request extends the requested part of the window by one.
LEMMA SendFetchStep ==
  ASSUME IInv, NEW t \in Threads, SendFetch(t), UNCHANGED <<modelVars, tasks>>
  PROVE  IInv'
  <1> DEFINE i    == frame[t].next
             done == i + 1 = frame[t].last
  <1>1. /\ inflight' = inflight \cup {i}
        /\ frame' = [frame EXCEPT ![t] =
                        [pc |-> IF done THEN "returned" ELSE "send", next |-> i + 1,
                         last |-> frame[t].last, more |-> done]]
        /\ Pc(t) = "send"
        /\ UNCHANGED <<listing, size, flags, status, model_index, fetch_count, failing, thrown,
                       push_item_dq, push_item_count, engine_fetch_index, new_items,
                       in_slot, pop_item_dq, item_dq, count, request_more_index,
                       requested_more, tasks>>
    BY DEF SendFetch, Pc, listVars, appVars, modelVars
  <1>2. /\ Collecting
        /\ engine_fetch_index <= i
        /\ i < frame[t].last
        /\ frame[t].last = engine_fetch_index + fetch_count
        /\ \A u \in Threads : u # t => Pc(u) = "off"
    BY <1>1, PhaseOf DEF IInv, Frames, Threads
  <1>3. /\ engine_fetch_index \in Nat /\ fetch_count \in Nat /\ size \in 0 .. MaxApps
        /\ i \in Nat
        /\ engine_fetch_index + fetch_count <= size
    BY <1>2, TopType DEF IInv, Collecting, TypeOK, EngineTypes, Frame
  <1>4. Top = i
    BY <1>1, <1>2, ThreadCases DEF Top, Threads
  <1>5. i \in AppIdx
    BY <1>2, <1>3, StoreEngineAssumption DEF AppIdx
  <1>6. /\ frame' \in [Threads -> Frame]
        /\ frame'[t].pc = (IF done THEN "returned" ELSE "send")
        /\ frame'[t].next = i + 1
        /\ frame'[t].last = frame[t].last
        /\ done => frame'[t].more
        /\ \A u \in Threads : u # t => frame'[u] = frame[u]
    <2>1. frame[t] \in Frame /\ frame \in [Threads -> Frame]
      BY DEF IInv, TypeOK, EngineTypes
    <2> DEFINE new == [pc |-> IF done THEN "returned" ELSE "send", next |-> i + 1,
                       last |-> frame[t].last, more |-> done]
    <2>2. frame' = [frame EXCEPT ![t] = new]
      BY <1>1
    <2>3. new \in Frame
      BY <1>3, <2>1 DEF Frame
    <2>4. /\ new.pc = (IF done THEN "returned" ELSE "send")
          /\ new.next = i + 1 /\ new.last = frame[t].last
          /\ done => new.more
      OBVIOUS
    <2> HIDE DEF new
    <2> QED
      BY <2>1, <2>2, <2>3, <2>4
  <1> HIDE DEF i
  <1>7. TypeOK'
    <2>1. EngineTypes'
      BY <1>1, <1>5, <1>6 DEF IInv, TypeOK, EngineTypes
    <2> QED
      BY <1>1, <2>1 DEF IInv, TypeOK, ModelTypes, FlagTypes
  <1>8. /\ Pc(t)' = (IF done THEN "returned" ELSE "send")
        /\ \A u \in Threads : u # t => Pc(u)' = "off"
    BY <1>2, <1>6 DEF Pc
  <1>9. Top' = i + 1
    <2>1. CASE done
      <3>1. \A u \in Threads : Pc(u)' # "send"
        BY <1>8, <2>1
      <3>2. Top' = engine_fetch_index + fetch_count
        BY <1>1, <3>1 DEF Top, Threads
      <3> QED
        BY <1>2, <2>1, <3>2
    <2>2. CASE ~done
      BY <1>6, <1>8, <2>2, ThreadCases DEF Top, Threads
    <2> QED
      BY <2>1, <2>2
  <1>10. i \notin Waiting /\ IsFiniteSet(Waiting)
    <2>1. Waiting \subseteq engine_fetch_index .. i - 1
      BY <1>2, <1>4 DEF Collecting
    <2>2. engine_fetch_index \in Int /\ i - 1 \in Int
      BY <1>3
    <2>3. IsFiniteSet(engine_fetch_index .. i - 1)
      BY <2>2, FS_Interval
    <2>4. i \notin Waiting
      BY <1>3, <2>1
    <2> QED
      BY <2>1, <2>3, <2>4, FS_Subset
  <1>11. TaskIdx' = TaskIdx /\ Waiting' = Waiting \cup {i}
    <2>1. TaskIdx' = TaskIdx
      BY <1>1 DEF TaskIdx
    <2> QED
      BY <1>1, <2>1 DEF Waiting
  <1>12. Cardinality(Waiting)' = Cardinality(Waiting) + 1 /\ Cardinality(Waiting) \in Nat
    BY <1>10, <1>11, FS_AddElement, FS_CardinalityType
  <1>13. status[i] = "NotFetched"
    BY <1>2, <1>3, <1>4, <1>5 DEF Collecting, UntouchedFrom
  <1>14. WaitingStatus'
    <2>1. i \notin failing /\ i \notin TaskIdx
      BY <1>10 DEF Waiting
    <2> QED
      BY <1>1, <1>2, <1>11, <1>13, <2>1 DEF Collecting, WaitingStatus
  <1>15. Collecting'
    <2>1. NothingLanded' /\ \A u \in Threads : Pc(u)' # "clamp"
      BY <1>1, <1>2, <1>8 DEF Collecting, NothingLanded
    <2>2. Waiting' \subseteq engine_fetch_index .. Top' - 1
      BY <1>2, <1>3, <1>4, <1>9, <1>11 DEF Collecting
    <2>3. Cardinality(Waiting)' + push_item_count' = Top' - engine_fetch_index'
      BY <1>1, <1>2, <1>3, <1>4, <1>9, <1>12 DEF Collecting, IInv, TypeOK, ModelTypes
    <2>4. \A item \in push_item_dq' :
            item.index \in engine_fetch_index .. Top' - 1 /\ item.index \notin Waiting'
      BY <1>1, <1>2, <1>3, <1>4, <1>9, <1>11 DEF Collecting
    <2>5. Indices(push_item_dq)' = Indices(push_item_dq)
      BY <1>1 DEF Indices
    <2>6. \A j \in engine_fetch_index .. Top' - 1 : j \notin Waiting' =>
            /\ status[j] # "Fetched"
            /\ status[j] = "NotFetched" <=> j \in Indices(push_item_dq)
      <3>1. \A j \in engine_fetch_index .. Top' - 1 : j \notin Waiting' =>
              j \in engine_fetch_index .. Top - 1 /\ j \notin Waiting
        BY <1>3, <1>4, <1>9, <1>11
      <3> QED
        BY <1>2, <3>1 DEF Collecting
    <2>7. SettledBefore(engine_fetch_index)'
      BY <1>1, <1>2 DEF Collecting, SettledBefore
    <2>8. UntouchedFrom(Top)'
      BY <1>1, <1>2, <1>3, <1>4, <1>9 DEF Collecting, UntouchedFrom, AppIdx
    <2> QED
      BY <1>1, <1>2, <1>14, <2>1, <2>2, <2>3, <2>4, <2>5, <2>6, <2>7, <2>8 DEF Collecting
  <1>16. FirstBatch'
    <2>1. Pc("rpc")' # "off" => Pc("rpc") # "off"
      BY <1>1, <1>8, ThreadCases DEF Threads
    <2>2. NothingLanded' = NothingLanded
      BY <1>1 DEF NothingLanded
    <2> QED
      BY <1>1, <2>1, <2>2 DEF IInv, FirstBatch
  <1>17. /\ listing' = "done"
         /\ Pc("rpc")' = "off" \/ Pc("gui")' = "off"
         /\ count' = 0 \/ Pc("gui")' # "off"
    <2>1. t = "rpc" => count = 0
      BY <1>1 DEF IInv, FirstBatch
    <2> QED
      BY <1>1, <1>8, <2>1, ThreadCases DEF IInv, Listings, Threads
  <1>18. Requested'
    <2>1. Pc("gui")' = "returned" => t = "gui" /\ done
      BY <1>8, ThreadCases DEF Threads
    <2>2. Pc("gui")' = "returned" => frame'["gui"].more
      BY <1>6, <2>1
    <2> QED
      BY <1>17, <2>2 DEF Requested
  <1>19. Frames'
    <2>1. ASSUME NEW u \in Threads
          PROVE  /\ Pc(u)' # "clamp"
                 /\ Pc(u)' = "send" => /\ engine_fetch_index <= frame'[u].next
                                       /\ frame'[u].next < frame'[u].last
                                       /\ frame'[u].last = engine_fetch_index + fetch_count
      BY <1>2, <1>3, <1>6, <1>8
    <2> QED
      BY <1>1, <1>17, <2>1 DEF Frames
  <1> QED
    BY <1>1, <1>7, <1>15, <1>16, <1>17, <1>18, <1>19
       DEF IInv, Phases, FiniteBatches, OneFailure, Listings

\* A call that returns changes nothing that the phase of the feed depends on.
LEMMA ReturnedPhase ==
  ASSUME IInv, NEW t \in Threads, Returned(t),
         UNCHANGED <<size, status, fetch_count, inflight, failing, tasks, push_item_dq,
                     push_item_count, engine_fetch_index, new_items, in_slot, pop_item_dq>>
  PROVE  /\ Phases' /\ Frames' /\ (Idle => Idle')
         /\ frame' \in [Threads -> Frame]
         /\ Pc(t) = "returned" /\ Pc(t)' = "off"
         /\ \A u \in Threads : u # t => Pc(u) = "off" /\ Pc(u)' = "off"
  <1>1. /\ Pc(t) = "returned" /\ Pc(t)' = "off" /\ frame' \in [Threads -> Frame]
        /\ \A u \in Threads : u # t => frame'[u] = frame[u]
    <2>1. NoFrame \in Frame /\ NoFrame.pc = "off"
      BY DEF NoFrame, Frame
    <2> QED
      BY <2>1 DEF Returned, Pc, IInv, TypeOK, EngineTypes
  <1>2. \A u \in Threads : u # t => Pc(u) = "off" /\ Pc(u)' = "off"
    BY <1>1, ThreadCases DEF IInv, Frames, Pc, Threads
  <1>3. \A u \in Threads : Pc(u) \notin {"clamp", "send"} /\ Pc(u)' \notin {"clamp", "send"}
    BY <1>1, <1>2
  <1>4. Top' = Top
    BY <1>3 DEF Top, Threads
  <1>5. (Waiting = Waiting') /\ (TaskIdx = TaskIdx')
        /\ Indices(push_item_dq)' = Indices(push_item_dq)
        /\ Indices(pop_item_dq)' = Indices(pop_item_dq)
        /\ NothingLanded' = NothingLanded /\ NothingUnderWay' = NothingUnderWay
    BY DEF Waiting, TaskIdx, Indices, NothingLanded, NothingUnderWay
  <1>6. Idle => Idle'
    BY <1>3, <1>5 DEF Idle, SettledBefore, UntouchedFrom
  <1>7. Collecting => Collecting'
    <2>1. WaitingStatus' = WaitingStatus
      BY <1>5 DEF WaitingStatus
    <2> QED
      BY <1>3, <1>4, <1>5, <2>1 DEF Collecting, SettledBefore, UntouchedFrom
  <1>8. (Ready => Ready') /\ (Inserting => Inserting')
    BY <1>3, <1>5 DEF Ready, Inserting, Complete, SettledBefore, UntouchedFrom
  <1>9. Phases'
    BY <1>6, <1>7, <1>8 DEF IInv, Phases
  <1>10. Frames'
    BY <1>1, <1>2, <1>3, ThreadCases DEF Frames, Threads
  <1> QED
    BY <1>1, <1>2, <1>6, <1>9, <1>10

\* The invariant is kept when the RPC thread returns from the requestMore
\* of the first batch.
LEMMA FirstBatchSentStep ==
  ASSUME IInv, FirstBatchSent, UNCHANGED <<modelVars, tasks>>
  PROVE  IInv'
  <1>1. /\ Returned("rpc") /\ "rpc" \in Threads /\ "gui" \in Threads
        /\ UNCHANGED <<listing, size, flags, status, model_index, fetch_count, inflight,
                       failing, thrown, push_item_dq, push_item_count, engine_fetch_index,
                       new_items, in_slot, pop_item_dq, item_dq, count, request_more_index,
                       requested_more, tasks>>
    BY DEF FirstBatchSent, listVars, appVars, modelVars, Threads
  <1>2. /\ Phases' /\ Frames' /\ frame' \in [Threads -> Frame] /\ Pc("rpc") = "returned"
        /\ Pc("rpc")' = "off" /\ Pc("gui")' = "off"
    BY <1>1, ReturnedPhase
  <1>3. count = 0 /\ listing = "done"
    BY <1>1, <1>2 DEF IInv, FirstBatch, Listings
  <1>4. TypeOK'
    BY <1>1, <1>2 DEF IInv, TypeOK, EngineTypes, ModelTypes, FlagTypes
  <1> QED
    BY <1>1, <1>2, <1>3, <1>4
       DEF IInv, FiniteBatches, OneFailure, Requested, FirstBatch, Listings

\* The invariant is kept when the GUI thread returns from requestMore.
LEMMA GuiReturnedStep == IInv /\ GuiReturned => IInv'
  <1> SUFFICES ASSUME IInv, GuiReturned PROVE IInv'
    OBVIOUS
  <1>1. /\ Returned("gui") /\ "rpc" \in Threads /\ "gui" \in Threads
        /\ requested_more' = frame["gui"].more
        /\ UNCHANGED <<listing, size, flags, status, model_index, fetch_count, inflight,
                       failing, thrown, push_item_dq, push_item_count, engine_fetch_index,
                       new_items, in_slot, pop_item_dq, item_dq, count, request_more_index,
                       tasks>>
    BY DEF GuiReturned, listVars, appVars, pushVars, rowVars, Threads
  <1>2. /\ Phases' /\ Frames' /\ frame' \in [Threads -> Frame] /\ Pc("gui") = "returned"
        /\ Pc("rpc")' = "off" /\ Pc("gui")' = "off" /\ (Idle => Idle')
    BY <1>1, ReturnedPhase
  <1>3. listing = "done"
    BY <1>1, <1>2 DEF IInv, Listings
  <1>4. Idle' \/ requested_more'
    BY <1>1, <1>2 DEF IInv, Requested
  <1>5. TypeOK'
    <2>1. frame["gui"].more \in BOOLEAN
      BY <1>1 DEF IInv, TypeOK, EngineTypes, Frame
    <2>2. FlagTypes'
      BY <1>1, <2>1 DEF IInv, TypeOK, FlagTypes
    <2> QED
      BY <1>1, <1>2, <2>2 DEF IInv, TypeOK, EngineTypes, ModelTypes
  <1>6. Requested' /\ FirstBatch' /\ Listings'
    BY <1>1, <1>2, <1>3, <1>4 DEF Requested, FirstBatch, Listings
  <1> QED
    BY <1>1, <1>2, <1>5, <1>6 DEF IInv, FiniteBatches, OneFailure

-----------------------------------------------------------------------------
(* The GUI thread asks for a batch.                                        *)

\* A call of requestMore made on the GUI thread while the feed is idle.
LEMMA GuiCall ==
  ASSUME IInv, Idle', Pc("rpc") = "off", listing = "done",
         RequestMore("gui", engine_fetch_index, FetchCount),
         in_slot' \in BOOLEAN,
         UNCHANGED <<listing, listVars, appVars, inflight, failing, thrown, pushVars, rowVars,
                     requested_more, tasks>>
  PROVE  IInv'
  <1>1. /\ fetch_count' = FetchCount
        /\ frame' = [frame EXCEPT !["gui"] =
              [pc |-> "clamp", next |-> engine_fetch_index,
               last |-> engine_fetch_index + FetchCount, more |-> FALSE]]
        /\ UNCHANGED <<listing, size, flags, status, model_index, inflight, failing, thrown,
                       push_item_dq, push_item_count, engine_fetch_index, new_items,
                       pop_item_dq, item_dq, count, request_more_index, requested_more, tasks>>
    BY DEF RequestMore, listVars, appVars, pushVars, rowVars
  <1>2. frame \in [Threads -> Frame] /\ engine_fetch_index \in Nat
    BY DEF IInv, TypeOK, EngineTypes, ModelTypes
  <1>3. /\ frame' \in [Threads -> Frame]
        /\ frame'["gui"].pc = "clamp"
        /\ frame'["gui"].next = engine_fetch_index
        /\ frame'["gui"].last = engine_fetch_index + FetchCount
        /\ frame'["rpc"] = frame["rpc"]
    <2> DEFINE new == [pc |-> "clamp", next |-> engine_fetch_index,
                       last |-> engine_fetch_index + FetchCount, more |-> FALSE]
    <2>1. new \in Frame
      BY <1>2, ListModelAssumption DEF Frame
    <2>2. /\ new.pc = "clamp" /\ new.next = engine_fetch_index
          /\ new.last = engine_fetch_index + FetchCount
          /\ frame' = [frame EXCEPT !["gui"] = new]
      BY <1>1
    <2> HIDE DEF new
    <2> QED
      BY <1>2, <2>1, <2>2 DEF Threads
  <1>4. Pc("gui")' = "clamp" /\ Pc("rpc")' = "off"
    BY <1>3 DEF Pc
  <1>5. TypeOK'
    <2>1. EngineTypes'
      BY <1>1, <1>3, ListModelAssumption DEF IInv, TypeOK, EngineTypes
    <2>2. FlagTypes'
      BY <1>1 DEF IInv, TypeOK, FlagTypes
    <2> QED
      BY <1>1, <2>1, <2>2 DEF IInv, TypeOK, ModelTypes
  <1>6. Frames'
    <2>1. ASSUME NEW t \in Threads
          PROVE  /\ Pc(t)' # "send"
                 /\ Pc(t)' = "clamp" => /\ frame'[t].next = engine_fetch_index'
                                       /\ frame'[t].last = engine_fetch_index' + fetch_count'
      BY <1>1, <1>3, <1>4, ThreadCases
    <2> QED
      BY <1>4, <2>1 DEF Frames
  <1>7. Requested' /\ FirstBatch' /\ Listings'
    BY <1>1, <1>4 DEF Requested, FirstBatch, Listings
  <1> QED
    BY <1>1, <1>5, <1>6, <1>7 DEF IInv, Phases, FiniteBatches, OneFailure

\* The invariant is kept when newItemsSlot finds a batch of failures only
\* and asks for the next one.
LEMMA GuiSkipBatchStep == IInv /\ GuiSkipBatch => IInv'
  <1> SUFFICES ASSUME IInv, GuiSkipBatch PROVE IInv'
    OBVIOUS
  <1>1. /\ in_slot /\ pop_item_dq = {} /\ Pc("gui") = "off"
        /\ RequestMore("gui", engine_fetch_index, FetchCount)
        /\ in_slot' = FALSE
        /\ UNCHANGED <<listing, listVars, appVars, inflight, failing, thrown, pushVars, rowVars,
                       requested_more, tasks>>
    BY DEF GuiSkipBatch, GuiFree, Pc
  <1>2. Inserting
    BY <1>1, PhaseOf
  <1>3. Pc("rpc") = "off" /\ listing = "done"
    BY <1>1 DEF IInv, FirstBatch, Listings, Idle, NothingLanded
  <1>4. Pc("gui")' = "clamp" /\ Pc("rpc")' = "off"
    BY <1>1, <1>3 DEF RequestMore, Pc, IInv, TypeOK, EngineTypes, Threads
  <1>5. Idle'
    <2>1. NothingUnderWay' /\ NothingLanded' /\ push_item_dq' = {}
      BY <1>1, <1>2 DEF Inserting, Complete, NothingUnderWay, NothingLanded, Waiting, TaskIdx,
         pushVars, rowVars
    <2>2. \A t \in Threads : Pc(t)' # "send"
      BY <1>4, ThreadCases
    <2>3. Indices(pop_item_dq) = {}
      BY <1>1 DEF Indices
    <2>4. SettledBefore(engine_fetch_index)
      BY <1>2, <2>3, TopType DEF IInv, Inserting, Complete, SettledBefore, AppIdx
    <2> QED
      BY <1>1, <1>2, <2>1, <2>2, <2>4
         DEF Idle, Inserting, Complete, SettledBefore, UntouchedFrom, appVars, listVars, pushVars
  <1> QED
    BY <1>1, <1>3, <1>5, GuiCall

\* The invariant is kept when painting a row asks for the next batch.
LEMMA GuiDataStep == IInv /\ GuiData => IInv'
  <1> SUFFICES ASSUME IInv, GuiData PROVE IInv'
    OBVIOUS
  <1>1. /\ ~in_slot /\ Pc("gui") = "off" /\ count # 0 /\ ~requested_more
        /\ RequestMore("gui", engine_fetch_index, FetchCount)
        /\ UNCHANGED <<in_slot, listing, listVars, appVars, inflight, failing, thrown, pushVars,
                       rowVars, requested_more, tasks>>
    <2>1. PICK row \in 0 .. count - 1 : AsksMore(row)
      BY DEF GuiData
    <2>2. count # 0
      BY <2>1
    <2> QED
      BY <2>1, <2>2 DEF GuiData, GuiFree, Pc, AsksMore, modelVars, pushVars, rowVars
  <1>2. Idle
    BY <1>1 DEF IInv, Requested
  <1>3. Pc("rpc") = "off" /\ listing = "done"
    BY <1>1 DEF IInv, FirstBatch, Listings
  <1>4. Pc("gui")' = "clamp" /\ Pc("rpc")' = "off"
    BY <1>1, <1>3 DEF RequestMore, Pc, IInv, TypeOK, EngineTypes, Threads
  <1>5. Idle'
    <2>1. NothingUnderWay' /\ NothingLanded' /\ push_item_dq' = {}
      BY <1>1, <1>2 DEF Idle, NothingUnderWay, NothingLanded, Waiting, TaskIdx, pushVars, rowVars
    <2>2. \A t \in Threads : Pc(t)' # "send"
      BY <1>4, ThreadCases
    <2> QED
      BY <1>1, <1>2, <2>1, <2>2
         DEF Idle, SettledBefore, UntouchedFrom, appVars, listVars, pushVars
  <1>6. in_slot' \in BOOLEAN
    BY <1>1 DEF IInv, TypeOK, FlagTypes
  <1> QED
    BY <1>1, <1>3, <1>5, <1>6, GuiCall

\* newItemsSlot takes the batch that is ready.
LEMMA GuiSwapStep == IInv /\ GuiSwap => IInv'
  <1> SUFFICES ASSUME IInv, GuiSwap PROVE IInv'
    OBVIOUS
  <1>1. /\ new_items > 0 /\ new_items' = new_items - 1 /\ in_slot' = TRUE
        /\ push_item_dq' = pop_item_dq /\ pop_item_dq' = push_item_dq
        /\ Pc("gui") = "off"
        /\ UNCHANGED <<listing, size, flags, status, model_index, fetch_count, frame, inflight,
                       failing, thrown, push_item_count, engine_fetch_index, item_dq, count,
                       request_more_index, requested_more, tasks>>
    BY DEF GuiSwap, GuiFree, SwapDeques, Pc, engineVars
  <1>2. Ready
    BY <1>1, PhaseOf
  <1>3. ~Idle
    BY <1>2 DEF Ready, Idle, NothingLanded
  <1>4. Pc("rpc") = "off" /\ listing = "done"
    BY <1>2, <1>3 DEF Ready, IInv, FirstBatch, Listings, NothingLanded
  <1>5. \A t : Pc(t)' = Pc(t)
    BY <1>1 DEF Pc
  <1>6. Inserting'
    <2>1. Waiting' = Waiting /\ NothingUnderWay' = NothingUnderWay
      BY <1>1 DEF NothingUnderWay, Waiting, TaskIdx
    <2>2. Complete(pop_item_dq)'
      BY <1>1, <1>2, <1>5, <2>1
         DEF Ready, Complete, SettledBefore, UntouchedFrom, Indices
    <2>3. new_items' = 0 /\ push_item_dq' = {}
      BY <1>1, <1>2 DEF Ready
    <2> QED
      BY <1>1, <2>2, <2>3 DEF Inserting
  <1>7. TypeOK'
    <2>1. EngineTypes'
      BY <1>1 DEF IInv, TypeOK, EngineTypes
    <2>2. FlagTypes'
      BY <1>1 DEF IInv, TypeOK, FlagTypes
    <2>3. ModelTypes'
      BY <1>1 DEF IInv, TypeOK, ModelTypes
    <2> QED
      BY <1>1, <2>1, <2>2, <2>3 DEF IInv, TypeOK
  <1>8. Frames'
    BY <1>1, <1>5 DEF IInv, Frames
  <1>9. Requested' /\ FirstBatch' /\ Listings'
    BY <1>1, <1>3, <1>4, <1>5 DEF IInv, Requested, FirstBatch, Listings
  <1> QED
    BY <1>1, <1>6, <1>7, <1>8, <1>9 DEF IInv, Phases, FiniteBatches, OneFailure

-----------------------------------------------------------------------------
(* The worker pool.                                                        *)

\* A worker takes a task: it was the last of its batch when no other
\* application of the window is waiting.
LEMMA PoolRunStep == IInv /\ PoolRun => IInv'
  <1> SUFFICES ASSUME IInv, NEW task \in tasks, tasks' = tasks \ {task},
                      PrepareAndPush(TaskItems(task), task.count), UNCHANGED engineVars
               PROVE  IInv'
    BY DEF PoolRun
  <1> DEFINE i     == task.index
             items == TaskItems(task)
             lo    == engine_fetch_index
  <1>1. /\ UNCHANGED <<listing, size, flags, status, model_index, fetch_count, frame, inflight,
                       failing, thrown, in_slot, pop_item_dq, item_dq, count,
                       request_more_index, requested_more>>
        /\ push_item_dq' = push_item_dq \cup items
        /\ \/ /\ push_item_count + 1 = task.count
              /\ engine_fetch_index' = lo + task.count
              /\ push_item_count' = 0
              /\ new_items' = new_items + 1
           \/ /\ push_item_count + 1 # task.count
              /\ push_item_count' = push_item_count + 1
              /\ UNCHANGED <<engine_fetch_index, new_items>>
    BY DEF PrepareAndPush, engineVars, rowVars
  <1>2. Waiting # {} /\ Pc("rpc") = "off" /\ Collecting
    BY TaskAfterCall, PhaseOf
  <1>3. /\ task.count = fetch_count
        /\ status[i] = (IF task.ok THEN "NotFetched" ELSE "Errored")
        /\ i \notin inflight /\ i \notin failing
        /\ \A other \in tasks : other.index = i => other = task
        /\ i \in TaskIdx
    <2>1. i \in TaskIdx
      BY DEF TaskIdx
    <2> QED
      BY <1>2, <2>1 DEF Collecting, WaitingStatus
  <1>4. task \in Task
    BY DEF IInv, TypeOK
  <1>5. /\ lo \in Nat /\ fetch_count \in Nat /\ size \in Nat /\ Top \in Nat
        /\ push_item_count \in Nat
        /\ lo + fetch_count <= size /\ push_item_count < fetch_count
        /\ Top <= lo + fetch_count
        /\ (\E t \in Threads : Pc(t) = "send") => Top < lo + fetch_count
    <2>1. /\ lo \in Nat /\ fetch_count \in Nat /\ size \in Nat /\ Top \in Nat
          /\ push_item_count \in Nat
      BY TopType DEF IInv, TypeOK, ModelTypes
    <2>2. lo + fetch_count <= size /\ push_item_count < fetch_count
      BY <1>2 DEF Collecting
    <2>3. \A t \in Threads : frame[t].next \in Nat /\ frame[t].last \in Nat
      BY DEF IInv, TypeOK, EngineTypes, Frame
    <2>4. \A t \in Threads : Pc(t) = "send" => frame[t].next < lo + fetch_count
      BY <2>1, <2>3 DEF IInv, Frames
    <2>5. /\ Top <= lo + fetch_count
          /\ (\E t \in Threads : Pc(t) = "send") => Top < lo + fetch_count
      BY <2>1, <2>3, <2>4, ThreadCases DEF Top, Threads
    <2> QED
      BY <2>1, <2>2, <2>5
  <1>6. /\ items \subseteq Item /\ IsFiniteSet(items)
        /\ \A item \in items : item.index = i
        /\ Indices(items) = (IF task.ok THEN {i} ELSE {})
    <2> DEFINE only == [index |-> i, flags |-> task.flags]
    <2>1. only \in Item /\ only.index = i
      BY <1>4 DEF Task, Item
    <2>2. items = IF task.ok THEN {only} ELSE {}
      BY DEF TaskItems
    <2> HIDE DEF only, items
    <2>3. CASE task.ok
      BY <2>1, <2>2, <2>3, FS_Singleton DEF Indices
    <2>4. CASE ~task.ok
      BY <2>1, <2>2, <2>4, FS_EmptySet DEF Indices
    <2> QED
      BY <2>3, <2>4
  <1> HIDE DEF items
  <1>8. TypeOK' /\ FiniteBatches'
    <2>1. tasks' \subseteq Task /\ push_item_dq' \subseteq Item
      BY <1>1, <1>6 DEF IInv, TypeOK, ModelTypes
    <2>2. push_item_count' \in Nat /\ engine_fetch_index' \in Nat /\ new_items' \in Nat
      BY <1>1, <1>3, <1>5 DEF IInv, TypeOK, ModelTypes
    <2>3. EngineTypes'
      BY <1>1 DEF IInv, TypeOK, EngineTypes
    <2>4. FlagTypes'
      BY <1>1 DEF IInv, TypeOK, FlagTypes
    <2>5. ModelTypes'
      BY <1>1, <2>1, <2>2 DEF IInv, TypeOK, ModelTypes
    <2>6. FiniteBatches'
      BY <1>1, <1>6, FS_Union DEF IInv, FiniteBatches
    <2> QED
      BY <2>1, <2>3, <2>4, <2>5, <2>6 DEF TypeOK
  <1>9. TaskIdx' = TaskIdx \ {i} /\ Waiting' = Waiting \ {i} /\ i \in Waiting
    <2>1. \A x : x \in TaskIdx' <=> \E other \in tasks : other # task /\ other.index = x
      BY DEF TaskIdx
    <2>2. \A x : x \in TaskIdx <=> \E other \in tasks : other.index = x
      BY DEF TaskIdx
    <2>3. TaskIdx' = TaskIdx \ {i}
      BY <1>3, <2>1, <2>2
    <2> QED
      BY <1>1, <1>3, <2>3 DEF Waiting
  <1>10. i \in lo .. Top - 1 /\ IsFiniteSet(Waiting)
    <2>1. Waiting \subseteq lo .. Top - 1
      BY <1>2 DEF Collecting
    <2>2. lo \in Int /\ Top - 1 \in Int
      BY <1>5
    <2> QED
      BY <1>9, <2>1, <2>2, FS_Interval, FS_Subset
  <1>11. /\ Cardinality(Waiting) \in Nat
         /\ Cardinality(Waiting') = Cardinality(Waiting) - 1
         /\ Cardinality(Waiting) + push_item_count = Top - lo
    BY <1>2, <1>9, <1>10, FS_CardinalityType, FS_RemoveElement DEF Collecting
  <1>12. \A t : Pc(t)' = Pc(t)
    BY <1>1 DEF Pc
  <1>13. \A item \in push_item_dq' : item.index \in lo .. Top - 1 /\ item.index \notin Waiting'
    BY <1>1, <1>2, <1>6, <1>9, <1>10 DEF Collecting
  <1>14. \A j \in lo .. Top - 1 : j \notin Waiting' =>
           /\ status[j] # "Fetched"
           /\ status[j] = "NotFetched" <=> j \in Indices(push_item_dq)'
    <2>1. Indices(push_item_dq)' = Indices(push_item_dq) \cup Indices(items)
      BY <1>1 DEF Indices
    <2>2. i \notin Indices(push_item_dq)
      BY <1>2, <1>9 DEF Collecting, Indices
    <2>3. ASSUME NEW j \in lo .. Top - 1, j \notin Waiting', j # i
          PROVE  /\ status[j] # "Fetched"
                 /\ status[j] = "NotFetched" <=> j \in Indices(push_item_dq)'
      <3>1. j \notin Waiting /\ (j \in Indices(push_item_dq)' <=> j \in Indices(push_item_dq))
        BY <1>6, <1>9, <2>1, <2>3
      <3> QED
        BY <1>2, <3>1 DEF Collecting
    <2>4. /\ status[i] # "Fetched"
          /\ status[i] = "NotFetched" <=> i \in Indices(push_item_dq)'
      BY <1>3, <1>6, <2>1, <2>2
    <2> QED
      BY <2>3, <2>4
  <1>15. NothingLanded /\ SettledBefore(lo) /\ UntouchedFrom(Top) /\ ~Idle
    BY <1>2 DEF Collecting, Idle, NothingUnderWay
  <1>16. CASE push_item_count + 1 # task.count
    <2>1. /\ push_item_count' = push_item_count + 1 /\ push_item_count' < fetch_count
          /\ UNCHANGED <<engine_fetch_index, new_items>>
      BY <1>1, <1>3, <1>5, <1>16
    <2>2. Top' = Top
      BY <1>1, <1>12, <2>1 DEF Top
    <2>3. WaitingStatus'
      <3>1. tasks' \subseteq tasks
        OBVIOUS
      <3>2. inflight \cap TaskIdx' = {} /\ failing \cap TaskIdx' = {}
        BY <1>2, <1>9 DEF Collecting, WaitingStatus
      <3> QED
        BY <1>1, <1>2, <3>1, <3>2 DEF Collecting, WaitingStatus
    <2>4. Collecting'
      <3>1. NothingLanded' /\ SettledBefore(lo)' /\ UntouchedFrom(Top)'
        BY <1>1, <1>15, <2>1, <2>2 DEF NothingLanded, SettledBefore, UntouchedFrom
      <3>2. \A t \in Threads : Pc(t)' # "clamp"
        BY <1>2, <1>12 DEF Collecting
      <3>3. Waiting' \subseteq lo .. Top - 1
        BY <1>2, <1>9 DEF Collecting
      <3>4. Cardinality(Waiting') + push_item_count' = Top - lo
        BY <1>5, <1>11, <2>1
      <3> QED
        BY <1>1, <1>5, <1>13, <1>14, <2>1, <2>2, <2>3, <3>1, <3>2, <3>3, <3>4 DEF Collecting
    <2> QED
      BY <1>1, <1>2, <1>8, <1>9, <2>1, <2>4, CollectingRest DEF IInv, Phases, OneFailure
  <1>17. CASE push_item_count + 1 = task.count
    <2>1. /\ push_item_count' = 0 /\ new_items' = new_items + 1
          /\ engine_fetch_index' = lo + fetch_count
      BY <1>1, <1>3, <1>17
    <2>2. Top = lo + fetch_count /\ Cardinality(Waiting') = 0
      <3>1. IsFiniteSet(Waiting')
        BY <1>9, <1>10, FS_RemoveElement
      <3>2. Cardinality(Waiting') \in Nat
        BY <3>1, FS_CardinalityType
      <3> QED
        BY <1>3, <1>5, <1>11, <1>17, <3>2
    <2>3. Waiting' = {}
      BY <1>9, <1>10, <2>2, FS_RemoveElement, FS_EmptySet
    <2>4. \A t \in Threads : Pc(t)' \notin {"clamp", "send"}
      BY <1>2, <1>5, <1>12, <2>2 DEF Collecting
    <2>5. Complete(push_item_dq)'
      <3>1. NothingUnderWay'
        BY <2>1, <2>3 DEF NothingUnderWay
      <3>2. /\ engine_fetch_index' - fetch_count = lo
            /\ engine_fetch_index' - 1 = Top - 1
        BY <1>5, <2>1, <2>2
      <3>3. SettledBefore(engine_fetch_index - fetch_count)'
        BY <1>1, <1>15, <3>2 DEF SettledBefore
      <3>4. UntouchedFrom(engine_fetch_index)'
        BY <1>1, <1>15, <2>1, <2>2 DEF UntouchedFrom
      <3>5. fetch_count > 0 /\ fetch_count <= engine_fetch_index' /\ engine_fetch_index' <= size
        BY <1>5, <2>1
      <3> QED
        BY <1>1, <1>13, <1>14, <2>3, <2>4, <3>1, <3>2, <3>3, <3>4, <3>5 DEF Complete
    <2>6. Ready'
      BY <1>1, <1>15, <2>1, <2>5 DEF Ready, NothingLanded
    <2>7. listing = "done"
      BY <1>15 DEF IInv, Listings
    <2>8. Frames'
      BY <1>2, <1>12, <2>4 DEF Frames
    <2>9. Requested' /\ FirstBatch' /\ Listings'
      BY <1>1, <1>2, <1>12, <1>15, <2>7 DEF IInv, Requested, FirstBatch, Listings
    <2> QED
      BY <1>1, <1>8, <2>6, <2>8, <2>9 DEF IInv, Phases, OneFailure
  <1> QED
    BY <1>16, <1>17

-----------------------------------------------------------------------------
(* newItemsSlot inserts a batch.                                           *)

\* A batch has at least as many items as applications, and as many when its
\* items are of distinct applications.
LEMMA IndicesCount ==
  ASSUME NEW S, IsFiniteSet(S)
  PROVE  /\ IsFiniteSet(Indices(S)) /\ Cardinality(Indices(S)) <= Cardinality(S)
         /\ (\A a, b \in S : a.index = b.index => a = b) =>
              Cardinality(Indices(S)) = Cardinality(S)
  <1> DEFINE f == [item \in S |-> item.index]
  <1>1. f \in Surjection(S, Indices(S))
    BY DEF Surjection, Indices
  <1>2. ASSUME \A a, b \in S : a.index = b.index => a = b
        PROVE  f \in Injection(S, Indices(S))
    BY <1>2 DEF Injection, IsInjective, Indices
  <1> QED
    BY <1>1, <1>2, FS_Surjection

\* The position of a member of a finite set of indices is below its size.
LEMMA RankBound ==
  ASSUME NEW S, IsFiniteSet(S), S \subseteq Int, NEW i
  PROVE  /\ Rank(i, S) \in Nat /\ Rank(i, S) <= Cardinality(S)
         /\ i \in S => Rank(i, S) < Cardinality(S)
  <1> DEFINE below == {j \in S : j < i}
  <1>1. IsFiniteSet(below) /\ Cardinality(below) <= Cardinality(S)
    BY FS_Subset
  <1>2. Cardinality(below) \in Nat /\ Cardinality(S) \in Nat
    BY <1>1, FS_CardinalityType
  <1>3. ASSUME i \in S PROVE Cardinality(below) < Cardinality(S)
    <2>1. below \subseteq S \ {i}
      BY <1>3
    <2>2. IsFiniteSet(S \ {i}) /\ Cardinality(S \ {i}) = Cardinality(S) - 1
      BY <1>3, FS_RemoveElement
    <2>3. Cardinality(below) <= Cardinality(S \ {i})
      BY <2>1, <2>2, FS_Subset
    <2> QED
      BY <1>2, <2>2, <2>3
  <1> QED
    BY <1>1, <1>2, <1>3 DEF Rank

\* The applications onModelFetchedItems finds in its window that are not
\* fetched yet are those of the batch being inserted; it marks all of them and
\* throws on none.
LEMMA InsertMarks ==
  ASSUME IInv, GuiInsert
  PROVE  LET fresh == Fresh(engine_fetch_index - fetch_count, engine_fetch_index) IN
         /\ fresh = Indices(pop_item_dq) /\ IsFiniteSet(fresh) /\ fresh \subseteq AppIdx
         /\ fresh = {i \in AppIdx : status[i] = "NotFetched" /\ i < engine_fetch_index}
         /\ status' = [i \in AppIdx |-> IF i \in fresh THEN "Fetched" ELSE status[i]]
         /\ model_index' = [i \in AppIdx |-> IF i \in fresh THEN count + Rank(i, fresh)
                                                           ELSE model_index[i]]
         /\ thrown' = FALSE
  <1> DEFINE start   == engine_fetch_index - fetch_count
             cur     == engine_fetch_index
             cnt     == Cardinality(pop_item_dq)
             fresh   == Fresh(start, cur)
             visited == {i \in start .. cur - 1 : Rank(i, fresh) < cnt}
             throws  == \/ start < 0 \/ start >= size
                        \/ \E i \in visited : status[i] = "Fetched"
  <1>1. /\ thrown' = throws
        /\ \/ throws /\ UNCHANGED appVars
           \/ /\ ~throws
              /\ status' = [i \in AppIdx |->
                    IF i \in fresh \cap visited THEN "Fetched" ELSE status[i]]
              /\ model_index' = [i \in AppIdx |->
                    IF i \in fresh \cap visited THEN count + Rank(i, fresh)
                                                ELSE model_index[i]]
    BY DEF GuiInsert, OnModelFetchedItems
  <1>2. Inserting
    BY PhaseOf DEF GuiInsert
  <1>3. /\ cur \in Nat /\ fetch_count \in Nat /\ size \in 0 .. MaxApps
        /\ fetch_count > 0 /\ fetch_count <= cur /\ cur <= size
    BY <1>2, TopType DEF IInv, Inserting, Complete, TypeOK, EngineTypes
  <1>4. start .. cur - 1 \subseteq AppIdx
    BY <1>3, StoreEngineAssumption DEF AppIdx
  <1>5. fresh = Indices(pop_item_dq)
    BY <1>2 DEF Inserting, Complete, Fresh, Indices
  <1>6. IsFiniteSet(fresh) /\ Cardinality(fresh) <= cnt /\ cnt \in Nat /\ Cardinality(fresh) \in Nat
    BY <1>5, IndicesCount, FS_CardinalityType DEF IInv, FiniteBatches
  <1>7. fresh \subseteq start .. cur - 1
    BY DEF Fresh
  <1>8. fresh \subseteq visited
    <2>1. fresh \subseteq Int
      BY <1>3, <1>7
    <2>2. \A i \in fresh : Rank(i, fresh) \in Nat /\ Rank(i, fresh) < Cardinality(fresh)
      BY <1>6, <2>1, RankBound
    <2> HIDE DEF fresh, cnt
    <2> QED
      BY <1>6, <1>7, <2>2
  <1>9. throws = FALSE
    <2>1. \A i \in start .. cur - 1 : status[i] # "Fetched"
      BY <1>2 DEF Inserting, Complete
    <2>2. ~(start < 0) /\ ~(start >= size)
      BY <1>3
    <2> QED
      BY <2>1, <2>2
  <1>10. fresh = {i \in AppIdx : status[i] = "NotFetched" /\ i < cur}
    BY <1>2, <1>3, <1>4 DEF Fresh, Inserting, Complete, SettledBefore, AppIdx
  <1>11. fresh \cap visited = fresh
    BY <1>8
  <1> HIDE DEF fresh, visited, throws
  <1> QED
    BY <1>1, <1>4, <1>5, <1>6, <1>7, <1>9, <1>10, <1>11 DEF fresh

\* The invariant is kept when newItemsSlot appends a batch and tells the
\* engine, whose checks do not fire.
LEMMA GuiInsertStep == IInv /\ GuiInsert => IInv'
  <1> SUFFICES ASSUME IInv, GuiInsert PROVE IInv'
    OBVIOUS
  <1> DEFINE fresh == Fresh(engine_fetch_index - fetch_count, engine_fetch_index)
             cnt   == Cardinality(pop_item_dq)
  <1>1. /\ in_slot /\ pop_item_dq # {} /\ Pc("gui") = "off"
        /\ in_slot' = FALSE /\ requested_more' = FALSE /\ pop_item_dq' = {}
        /\ count' = count + cnt /\ request_more_index' = count + cnt \div 2
        /\ item_dq' = item_dq \cup
             {[row |-> RowOf(item, pop_item_dq), index |-> item.index, flags |-> item.flags] :
                 item \in pop_item_dq}
        /\ UNCHANGED <<listing, size, flags, fetch_count, frame, inflight, failing, tasks,
                       push_item_dq, push_item_count, engine_fetch_index, new_items>>
    BY DEF GuiInsert, GuiFree, AppendRows, Pc, listVars, pushVars
  <1>2. Inserting
    BY <1>1, PhaseOf
  <1>3. /\ fresh = {i \in AppIdx : status[i] = "NotFetched" /\ i < engine_fetch_index}
        /\ status' = [i \in AppIdx |-> IF i \in fresh THEN "Fetched" ELSE status[i]]
        /\ model_index' = [i \in AppIdx |-> IF i \in fresh THEN count + Rank(i, fresh)
                                                          ELSE model_index[i]]
        /\ thrown' = FALSE /\ IsFiniteSet(fresh) /\ fresh \subseteq AppIdx
    BY InsertMarks
  <1> HIDE DEF fresh
  <1>4. cnt \in Nat /\ count \in Nat /\ engine_fetch_index \in Nat /\ fetch_count \in Nat
    BY FS_CardinalityType, TopType DEF IInv, FiniteBatches, TypeOK, ModelTypes
  <1>5. TypeOK'
    <2>1. status' \in [AppIdx -> StatusE]
      BY <1>3 DEF IInv, TypeOK, EngineTypes, StatusE
    <2>2. model_index' \in [AppIdx -> Nat]
      <3>1. fresh \subseteq Int
        BY <1>3 DEF AppIdx
      <3>2. \A i : Rank(i, fresh) \in Nat
        BY <1>3, <3>1, RankBound
      <3>3. \A i \in AppIdx : count + Rank(i, fresh) \in Nat /\ model_index[i] \in Nat
        BY <1>4, <3>2 DEF IInv, TypeOK, EngineTypes
      <3> QED
        BY <1>3, <3>3
    <2>3. item_dq' \subseteq [row : Nat, index : AppIdx, flags : SUBSET FlagE]
      <3>1. ASSUME NEW item \in pop_item_dq
            PROVE  [row |-> RowOf(item, pop_item_dq), index |-> item.index,
                    flags |-> item.flags] \in [row : Nat, index : AppIdx, flags : SUBSET FlagE]
        <4>1. item \in Item
          BY DEF IInv, TypeOK, ModelTypes
        <4>2. IsFiniteSet({other \in pop_item_dq : other.index < item.index})
          BY FS_Subset DEF IInv, FiniteBatches
        <4>3. RowOf(item, pop_item_dq) \in Nat
          BY <1>4, <4>2, FS_CardinalityType DEF RowOf
        <4> QED
          BY <4>1, <4>3 DEF Item
      <3>2. item_dq \subseteq [row : Nat, index : AppIdx, flags : SUBSET FlagE]
        BY DEF IInv, TypeOK, ModelTypes
      <3> QED
        BY <1>1, <3>1, <3>2
    <2>4. EngineTypes'
      BY <1>1, <2>1, <2>2 DEF IInv, TypeOK, EngineTypes
    <2>5. FlagTypes'
      BY <1>1, <1>3 DEF FlagTypes
    <2>6. count' \in Nat /\ request_more_index' \in Nat
      BY <1>1, <1>4
    <2>7. ModelTypes'
      BY <1>1, <2>3, <2>6 DEF IInv, TypeOK, ModelTypes
    <2> QED
      BY <1>1, <2>4, <2>5, <2>7 DEF IInv, TypeOK
  <1>6. \A t : Pc(t)' = Pc(t)
    BY <1>1 DEF Pc
  <1>7. Pc("rpc") = "off" /\ listing = "done"
    BY <1>1 DEF IInv, FirstBatch, Listings, Idle, NothingLanded
  <1>8. Idle'
    <2>1. NothingUnderWay' /\ NothingLanded' /\ push_item_dq' = {}
      BY <1>1, <1>2 DEF Inserting, Complete, NothingUnderWay, NothingLanded, Waiting, TaskIdx
    <2>2. \A t \in Threads : Pc(t)' # "send"
      BY <1>2, <1>6 DEF Inserting, Complete
    <2>3. \A i \in AppIdx : status'[i] = IF i \in fresh THEN "Fetched" ELSE status[i]
      BY <1>3
    <2>4. SettledBefore(engine_fetch_index)'
      BY <1>1, <1>3, <2>3 DEF SettledBefore
    <2>5. UntouchedFrom(engine_fetch_index)'
      BY <1>1, <1>2, <1>3, <1>4, <2>3 DEF Inserting, Complete, UntouchedFrom, AppIdx
    <2> QED
      BY <1>1, <1>2, <2>1, <2>2, <2>4, <2>5 DEF Idle, Inserting, Complete
  <1>9. Frames'
    BY <1>1, <1>6 DEF IInv, Frames
  <1>10. Requested' /\ FirstBatch' /\ Listings'
    BY <1>1, <1>6, <1>7, <1>8 DEF Requested, FirstBatch, Listings
  <1>11. FiniteBatches' /\ OneFailure' /\ ~thrown'
    BY <1>1, <1>3, FS_EmptySet DEF IInv, FiniteBatches, OneFailure
  <1> QED
    BY <1>5, <1>8, <1>9, <1>10, <1>11 DEF IInv, Phases

-----------------------------------------------------------------------------
(* The invariant.                                                          *)

\* The invariant is kept by a step that changes nothing.
LEMMA StutterIInv == IInv /\ UNCHANGED vars => IInv'
  <1> SUFFICES ASSUME IInv, UNCHANGED vars PROVE IInv'
    OBVIOUS
  <1>1. UNCHANGED <<listing, size, flags, status, model_index, fetch_count, frame, inflight,
                    failing, thrown, push_item_dq, push_item_count, engine_fetch_index,
                    new_items, in_slot, pop_item_dq, item_dq, count, request_more_index,
                    requested_more, tasks>>
    BY DEF vars, engineVars, modelVars
  <1>2. \A t : Pc(t)' = Pc(t)
    BY <1>1 DEF Pc
  <1>3. /\ Waiting' = Waiting /\ TaskIdx' = TaskIdx /\ Top' = Top
        /\ NothingLanded' = NothingLanded
        /\ Indices(push_item_dq)' = Indices(push_item_dq)
        /\ Indices(pop_item_dq)' = Indices(pop_item_dq)
    BY <1>1, <1>2 DEF Waiting, TaskIdx, Top, NothingLanded, Indices
  <1>4. NothingUnderWay' = NothingUnderWay
    BY <1>1, <1>3 DEF NothingUnderWay
  <1>5. Idle' = Idle
    BY <1>1, <1>2, <1>3, <1>4 DEF Idle, SettledBefore, UntouchedFrom
  <1>6. WaitingStatus' = WaitingStatus
    BY <1>1, <1>3 DEF WaitingStatus
  <1>7. Collecting => Collecting'
    BY <1>1, <1>2, <1>3, <1>6 DEF Collecting, SettledBefore, UntouchedFrom
  <1>8. (Ready => Ready') /\ (Inserting => Inserting')
    BY <1>1, <1>2, <1>3, <1>4 DEF Ready, Inserting, Complete, SettledBefore, UntouchedFrom
  <1>9. Phases'
    BY <1>5, <1>7, <1>8 DEF IInv, Phases
  <1>10. TypeOK'
    BY <1>1 DEF IInv, TypeOK, EngineTypes, ModelTypes, FlagTypes
  <1>11. Frames'
    BY <1>1, <1>2 DEF IInv, Frames
  <1>12. Requested'
    BY <1>1, <1>2, <1>5 DEF IInv, Requested
  <1>13. FirstBatch'
    BY <1>1, <1>2, <1>3 DEF IInv, FirstBatch
  <1>14. Listings'
    BY <1>1, <1>2, <1>5 DEF IInv, Listings
  <1> QED
    BY <1>1, <1>9, <1>10, <1>11, <1>12, <1>13, <1>14 DEF IInv, FiniteBatches, OneFailure

\* The invariant is kept by every step of the feed.
LEMMA StepIInv == IInv /\ [Next]_vars => IInv'
  <1> SUFFICES ASSUME IInv, [Next]_vars PROVE IInv'
    OBVIOUS
  <1>1. CASE RpcRequest
    <2>1. "rpc" \in Threads
      BY DEF Threads
    <2> QED
      BY <1>1, <2>1, ClampStep, SendFetchStep, FirstBatchSentStep DEF RpcRequest
  <1>2. CASE GuiRequest
    <2>1. "gui" \in Threads
      BY DEF Threads
    <2> QED
      BY <1>2, <2>1, ClampStep, SendFetchStep DEF GuiRequest
  <1>3. CASE UNCHANGED vars
    BY <1>3, StutterIInv
  <1>4. CASE List \/ RpcAnswer \/ RpcFailure \/ RpcReport \/ PoolRun
    BY <1>4, ListStep, RpcAnswerStep, RpcFailureStep, RpcReportStep, PoolRunStep
  <1>5. CASE GuiSwap \/ GuiSkipBatch \/ GuiInsert \/ GuiReturned \/ GuiData
    BY <1>5, GuiSwapStep, GuiSkipBatchStep, GuiInsertStep, GuiReturnedStep, GuiDataStep
  <1> QED
    BY <1>1, <1>2, <1>3, <1>4, <1>5 DEF Next, Rpc, Gui

\* The feed is always in one of its four phases.
THEOREM FeedInvariant == Spec => []IInv
  BY InitIInv, StepIInv, PTL DEF Spec

\* Type correctness; in particular the size_t computations of requestMore and
\* newItemsSlot never go below zero.
THEOREM FeedTypes == Spec => []TypeOK
  <1>1. IInv => TypeOK
    BY DEF IInv
  <1> QED
    BY <1>1, FeedInvariant, PTL

\* The solid_check and the solid_throw of onModelFetchedItems never fire,
\* however the threads interleave with the unlocked fetch_count_.
THEOREM EngineChecks == Spec => []EngineChecksHold
  <1>1. IInv => EngineChecksHold
    BY DEF IInv, EngineChecksHold
  <1> QED
    BY <1>1, FeedInvariant, PTL

\* No thread writes fetch_count_ while a request of a batch is unanswered.
THEOREM FeedCountStable == Spec => CountStable
  <1>1. IInv /\ [Next]_vars => [Waiting # {} => fetch_count' = fetch_count]_vars
    <2> SUFFICES ASSUME IInv, Next, Waiting # {} PROVE fetch_count' = fetch_count
      OBVIOUS
    <2>1. Collecting /\ listing = "done" /\ ~in_slot
      BY PhaseOf DEF IInv, Listings, Idle, NothingUnderWay, Collecting, NothingLanded
    <2>2. \A t \in Threads : ~Clamp(t)
      BY <2>1 DEF Clamp, Collecting, Pc
    <2>3. ~GuiData
      <3>1. ASSUME NEW row \in 0 .. count - 1, AsksMore(row), GuiFree PROVE FALSE
        <4>1. count # 0 /\ ~requested_more /\ Pc("gui") = "off"
          BY <3>1 DEF AsksMore, GuiFree, Pc
        <4> QED
          BY <4>1 DEF IInv, Requested, Idle, NothingUnderWay
      <3> QED
        BY <3>1 DEF GuiData
    <2>4. CASE List
      BY <2>1, <2>4 DEF List, ListingFails, ListAll, ListAquired, ListDefault
    <2>5. CASE RpcAnswer \/ RpcFailure \/ RpcReport
      BY <2>5 DEF RpcAnswer, RpcFailure, RpcReport, FetchAnswered, FetchFailed, FailureReported
    <2>6. CASE RpcRequest \/ GuiRequest
      BY <2>2, <2>6 DEF RpcRequest, GuiRequest, SendFetch, FirstBatchSent, Threads
    <2>7. CASE PoolRun
      BY <2>7 DEF PoolRun, engineVars
    <2>8. CASE GuiSwap \/ GuiSkipBatch \/ GuiInsert \/ GuiReturned
      BY <2>1, <2>8 DEF GuiSwap, GuiSkipBatch, GuiInsert, GuiReturned, engineVars
    <2> QED
      BY <2>3, <2>4, <2>5, <2>6, <2>7, <2>8 DEF Next, Rpc, Gui
  <1> QED
    BY <1>1, FeedInvariant, PTL DEF Spec, CountStable

-----------------------------------------------------------------------------
(***************************************************************************)
(* What the list shows: the rows of the model agree with the row numbers   *)
(* the engine keeps, no application is requested twice, and the flags an   *)
(* item carries are those of the complete listing.                         *)
(*                                                                         *)
(* This rests on the phases above; the invariant added here says that the  *)
(* items of a batch are of distinct applications and carry the flags of    *)
(* their application.                                                      *)
(***************************************************************************)

DistinctItems(batch) == \A a, b \in batch : a.index = b.index => a = b

TaskFlags == \A task \in tasks : task.ok => task.flags = flags[task.index]

\* RowsMatchEngine, with what it needs of the batches.
RowsInv ==
    /\ IsFiniteSet(item_dq)
    /\ RowsMatchEngine
    /\ DistinctItems(push_item_dq) /\ DistinctItems(pop_item_dq)

FlagsInv == FlagsComplete /\ TaskFlags

-----------------------------------------------------------------------------
(* The rows.                                                               *)

\* The list is empty when the program starts.
LEMMA InitRows == Init => RowsInv
  BY FS_EmptySet DEF Init, EngineInit, ModelInit, RowsInv, RowsMatchEngine, DistinctItems

\* Of two members of a finite set of indices the smaller comes first.
LEMMA RankMono ==
  ASSUME NEW S, IsFiniteSet(S), S \subseteq Int, NEW i \in S, NEW j \in S
  PROVE  Rank(i, S) < Rank(j, S) <=> i < j
  <1>1. ASSUME NEW a \in S, NEW b \in S, a < b
        PROVE  Rank(a, S) < Rank(b, S)
    <2> DEFINE A == {k \in S : k < a}
               B == {k \in S : k < b}
    <2>1. IsFiniteSet(B) /\ A \subseteq B \ {a} /\ a \in B
      <3>1. IsFiniteSet(B)
        BY FS_Subset
      <3>2. a \in Int /\ b \in Int
        OBVIOUS
      <3>3. \A k \in Int : k < a => k < b /\ k # a
        BY <1>1, <3>2
      <3> QED
        BY <1>1, <3>1, <3>3
    <2>2. Cardinality(B \ {a}) = Cardinality(B) - 1 /\ IsFiniteSet(B \ {a})
      BY <2>1, FS_RemoveElement
    <2>3. Cardinality(A) <= Cardinality(B) - 1 /\ IsFiniteSet(A)
      BY <2>1, <2>2, FS_Subset
    <2>4. Cardinality(A) \in Nat /\ Cardinality(B) \in Nat
      BY <2>1, <2>3, FS_CardinalityType
    <2> QED
      BY <2>3, <2>4 DEF Rank
  <1>2. Rank(i, S) \in Nat /\ Rank(j, S) \in Nat
    BY RankBound
  <1>3. i \in Int /\ j \in Int
    OBVIOUS
  <1>4. i < j => Rank(i, S) < Rank(j, S)
    BY <1>1
  <1>5. j < i => Rank(j, S) < Rank(i, S)
    BY <1>1
  <1> QED
    BY <1>2, <1>3, <1>4, <1>5

\* The row newItemsSlot gives an item is the row onModelFetchedItems computes
\* for its application, although one counts items and the other applications.
LEMMA RowIsRank ==
  ASSUME NEW batch, IsFiniteSet(batch), DistinctItems(batch), NEW item \in batch
  PROVE  RowOf(item, batch) = count + Rank(item.index, Indices(batch))
  <1> DEFINE before == {other \in batch : other.index < item.index}
  <1>1. IsFiniteSet(before)
    BY FS_Subset
  <1>2. \A a, b \in before : a.index = b.index => a = b
    BY DEF DistinctItems
  <1>3. Cardinality(Indices(before)) = Cardinality(before)
    BY <1>1, <1>2, IndicesCount
  <1>4. Indices(before) = {j \in Indices(batch) : j < item.index}
    BY DEF Indices
  <1> QED
    BY <1>3, <1>4 DEF RowOf, Rank

\* Inserting a batch keeps the two sides in agreement.
LEMMA InsertRows == IInv /\ RowsInv /\ GuiInsert => RowsInv'
  <1> SUFFICES ASSUME IInv, RowsInv, GuiInsert PROVE RowsInv'
    OBVIOUS
  <1> DEFINE fresh  == Fresh(engine_fetch_index - fetch_count, engine_fetch_index)
             cnt    == Cardinality(pop_item_dq)
             row(x) == [row |-> RowOf(x, pop_item_dq), index |-> x.index, flags |-> x.flags]
             added  == {row(x) : x \in pop_item_dq}
  <1>1. /\ pop_item_dq' = {} /\ push_item_dq' = push_item_dq
        /\ count' = count + cnt
        /\ item_dq' = item_dq \cup added
    BY DEF GuiInsert, AppendRows, pushVars
  <1>2. /\ fresh = Indices(pop_item_dq) /\ IsFiniteSet(fresh) /\ fresh \subseteq AppIdx
        /\ fresh = {i \in AppIdx : status[i] = "NotFetched" /\ i < engine_fetch_index}
        /\ status' = [i \in AppIdx |-> IF i \in fresh THEN "Fetched" ELSE status[i]]
        /\ model_index' = [i \in AppIdx |-> IF i \in fresh THEN count + Rank(i, fresh)
                                                          ELSE model_index[i]]
    BY InsertMarks
  <1> HIDE DEF fresh
  <1>3. /\ IsFiniteSet(pop_item_dq) /\ IsFiniteSet(item_dq) /\ DistinctItems(pop_item_dq)
        /\ RowsMatchEngine
    BY DEF IInv, FiniteBatches, RowsInv
  <1>4. cnt = Cardinality(fresh) /\ cnt \in Nat /\ count \in Nat
    BY <1>2, <1>3, IndicesCount, FS_CardinalityType
       DEF DistinctItems, IInv, TypeOK, ModelTypes
  <1>5. fresh \subseteq Int
    BY <1>2 DEF AppIdx
  <1>6. \A i \in fresh : Rank(i, fresh) \in Nat /\ Rank(i, fresh) < cnt
    BY <1>2, <1>4, <1>5, RankBound
  <1>7. ASSUME NEW x \in pop_item_dq
        PROVE  /\ x.index \in fresh
               /\ row(x).row = count + Rank(x.index, fresh)
               /\ row(x).index = x.index
    BY <1>2, <1>3, RowIsRank DEF Indices
  <1>8. ASSUME NEW r \in item_dq
        PROVE  /\ r.row \in Nat /\ r.index \in AppIdx /\ r.row < count
               /\ r.index \notin fresh
               /\ status[r.index] = "Fetched" /\ model_index[r.index] = r.row
    <2>1. r \in [row : Nat, index : AppIdx, flags : SUBSET FlagE]
      BY DEF IInv, TypeOK, ModelTypes
    <2> QED
      BY <1>2, <1>3, <2>1 DEF RowsMatchEngine
  <1>9. ASSUME NEW r \in item_dq, NEW i \in fresh
        PROVE  r.index < i
    <2>1. Inserting
      BY PhaseOf DEF GuiInsert
    <2> DEFINE lo == engine_fetch_index - fetch_count
    <2>2. lo \in Int /\ engine_fetch_index \in Nat /\ r.index \in Int /\ i \in Int
      BY <1>5, <1>8, TopType DEF IInv, AppIdx
    <2>3. r.index < engine_fetch_index
      BY <1>8, <2>1, <2>2 DEF Inserting, Complete, UntouchedFrom
    <2>4. r.index < lo
      BY <1>8, <2>1, <2>2, <2>3 DEF Inserting, Complete
    <2>5. i \in lo .. engine_fetch_index - 1
      BY DEF fresh, Fresh
    <2> QED
      BY <2>2, <2>4, <2>5
  <1>10. ASSUME NEW r \in item_dq'
         PROVE  r.row < count' /\ status'[r.index] = "Fetched" /\ model_index'[r.index] = r.row
    <2>1. CASE r \in item_dq
      BY <1>1, <1>2, <1>4, <1>8, <2>1
    <2>2. ASSUME NEW x \in pop_item_dq, r = row(x)
          PROVE  r.row < count' /\ status'[r.index] = "Fetched" /\ model_index'[r.index] = r.row
      <3>1. r.row = count + Rank(x.index, fresh) /\ r.index = x.index /\ x.index \in fresh
        BY <1>7, <2>2
      <3> QED
        BY <1>1, <1>2, <1>4, <1>6, <3>1
    <2> QED
      BY <1>1, <2>1, <2>2
  <1>11. IsFiniteSet(item_dq') /\ Cardinality(item_dq') = count'
    <2> DEFINE f == [x \in pop_item_dq |-> row(x)]
    <2> HIDE DEF row
    <2>1. f \in Surjection(pop_item_dq, added)
      BY DEF Surjection
    <2>2. ASSUME NEW a \in pop_item_dq, NEW b \in pop_item_dq, row(a) = row(b)
          PROVE  a = b
      <3>1. a.index = b.index
        BY <1>7, <2>2
      <3> QED
        BY <1>3, <3>1 DEF DistinctItems
    <2>3. f \in Injection(pop_item_dq, added)
      BY <2>2 DEF Injection, IsInjective
    <2>4. IsFiniteSet(added) /\ Cardinality(added) = cnt
      BY <1>3, <2>1, <2>3, FS_Surjection
    <2>5. item_dq \cap added = {}
      BY <1>7, <1>8
    <2>6. Cardinality(item_dq) = count
      BY <1>3 DEF RowsMatchEngine
    <2> HIDE DEF added
    <2>7. /\ IsFiniteSet(item_dq \cup added)
          /\ Cardinality(item_dq \cup added) =
               Cardinality(item_dq) + Cardinality(added) - Cardinality({})
      BY <1>3, <2>4, <2>5, FS_Union
    <2>8. Cardinality({}) = 0
      BY FS_EmptySet
    <2> QED
      BY <1>1, <1>4, <2>4, <2>6, <2>7, <2>8
  <1>12. ASSUME NEW r \in item_dq', NEW s \in item_dq'
         PROVE  r.row < s.row <=> r.index < s.index
    <2>1. CASE r \in item_dq /\ s \in item_dq
      BY <1>3, <2>1 DEF RowsMatchEngine
    <2>2. ASSUME NEW a \in item_dq, NEW x \in pop_item_dq
          PROVE  /\ a.row < row(x).row /\ a.index < row(x).index
                 /\ ~(row(x).row < a.row) /\ ~(row(x).index < a.index)
      <3>1. a.index < x.index /\ a.index \in Int /\ x.index \in Int
        <4>1. x.index \in fresh /\ x.index \in Int
          BY <1>5, <1>7
        <4>2. a.index \in Int
          BY <1>8 DEF AppIdx
        <4> HIDE DEF row
        <4> QED
          BY <1>9, <4>1, <4>2
      <3>2. Rank(x.index, fresh) \in Nat
        BY <1>6, <1>7
      <3>3. a.row \in Nat /\ a.row < count
        BY <1>8
      <3>4. row(x).row = count + Rank(x.index, fresh) /\ row(x).index = x.index
        BY <1>7
      <3> HIDE DEF row
      <3> QED
        BY <1>4, <3>1, <3>2, <3>3, <3>4
    <2>3. ASSUME NEW x \in pop_item_dq, NEW y \in pop_item_dq
          PROVE  row(x).row < row(y).row <=> row(x).index < row(y).index
      <3>1. Rank(x.index, fresh) < Rank(y.index, fresh) <=> x.index < y.index
        BY <1>2, <1>5, <1>7, RankMono
      <3>2. Rank(x.index, fresh) \in Nat /\ Rank(y.index, fresh) \in Nat
        BY <1>6, <1>7
      <3> QED
        BY <1>4, <1>7, <3>1, <3>2
    <2> HIDE DEF row
    <2> QED
      BY <1>1, <2>1, <2>2, <2>3
  <1>13. DistinctItems(push_item_dq)' /\ DistinctItems(pop_item_dq)'
    BY <1>1 DEF RowsInv, DistinctItems
  <1> QED
    BY <1>10, <1>11, <1>12, <1>13 DEF RowsInv, RowsMatchEngine

\* An application whose fetch fails has no row.
LEMMA FailureRows == IInv /\ RowsInv /\ RpcFailure => RowsInv'
  <1> SUFFICES ASSUME IInv, RowsInv, NEW i \in inflight, FetchFailed(i),
                      UNCHANGED <<modelVars, tasks>>
               PROVE  RowsInv'
    BY DEF RpcFailure
  <1>1. /\ status' = [status EXCEPT ![i] = "Errored"]
        /\ UNCHANGED <<model_index, push_item_dq, pop_item_dq, item_dq, count>>
    BY DEF FetchFailed, modelVars
  <1>2. status[i] = "NotFetched"
    BY PhaseOf, WaitingEmpty DEF Collecting, WaitingStatus
  <1>3. \A j : j # i => status'[j] = status[j]
    BY <1>1 DEF IInv, TypeOK, EngineTypes
  <1>4. RowsMatchEngine'
    BY <1>1, <1>2, <1>3 DEF RowsInv, RowsMatchEngine
  <1> QED
    BY <1>1, <1>4 DEF RowsInv, DistinctItems

\* The item a worker pushes is of an application no pushed item is of.
LEMMA PoolRows == IInv /\ RowsInv /\ PoolRun => RowsInv'
  <1> SUFFICES ASSUME IInv, RowsInv, NEW task \in tasks,
                      PrepareAndPush(TaskItems(task), task.count), UNCHANGED engineVars
               PROVE  RowsInv'
    BY DEF PoolRun
  <1>1. /\ push_item_dq' = push_item_dq \cup TaskItems(task)
        /\ UNCHANGED <<status, model_index, pop_item_dq, item_dq, count>>
    BY DEF PrepareAndPush, engineVars, rowVars
  <1>2. task.index \in Waiting /\ Collecting
    BY TaskAfterCall, PhaseOf DEF Waiting, TaskIdx
  <1>3. \A item \in push_item_dq : item.index # task.index
    BY <1>2 DEF Collecting
  <1>4. DistinctItems(push_item_dq)'
    BY <1>1, <1>3 DEF RowsInv, DistinctItems, TaskItems
  <1>5. RowsMatchEngine'
    BY <1>1 DEF RowsInv, RowsMatchEngine
  <1> QED
    BY <1>1, <1>4, <1>5 DEF RowsInv, DistinctItems

\* The steps that touch neither the rows nor the items of a batch.
LEMMA OtherRows ==
  ASSUME RowsInv, UNCHANGED <<status, model_index, item_dq, count>>,
         \/ UNCHANGED <<push_item_dq, pop_item_dq>>
         \/ push_item_dq' = pop_item_dq /\ pop_item_dq' = push_item_dq
  PROVE  RowsInv'
  <1>1. RowsMatchEngine'
    BY DEF RowsInv, RowsMatchEngine
  <1>2. DistinctItems(push_item_dq)' /\ DistinctItems(pop_item_dq)'
    BY DEF RowsInv, DistinctItems
  <1> QED
    BY <1>1, <1>2 DEF RowsInv

\* Every step of the feed keeps the rows in agreement with the engine.
LEMMA StepRows == IInv /\ RowsInv /\ [Next]_vars => RowsInv'
  <1> SUFFICES ASSUME IInv, RowsInv, [Next]_vars PROVE RowsInv'
    OBVIOUS
  <1>1. CASE List \/ RpcAnswer \/ RpcReport \/ RpcRequest \/ GuiRequest \/ UNCHANGED vars
    <2>1. UNCHANGED <<status, model_index, item_dq, count, push_item_dq, pop_item_dq>>
      BY <1>1 DEF List, ListingFails, ListAll, ListAquired, ListDefault, RpcAnswer,
         FetchAnswered, RpcReport, FailureReported, RpcRequest, GuiRequest, Clamp, SendFetch,
         FirstBatchSent, appVars, modelVars, engineVars, vars
    <2> QED
      BY <2>1, OtherRows
  <1>2. CASE GuiSwap \/ GuiSkipBatch \/ GuiReturned \/ GuiData
    <2>1. /\ UNCHANGED <<status, model_index, item_dq, count>>
          /\ \/ UNCHANGED <<push_item_dq, pop_item_dq>>
             \/ push_item_dq' = pop_item_dq /\ pop_item_dq' = push_item_dq
      BY <1>2 DEF GuiSwap, SwapDeques, GuiSkipBatch, GuiReturned, GuiData, engineVars, appVars,
         modelVars, rowVars, pushVars
    <2> QED
      BY <2>1, OtherRows
  <1> QED
    BY <1>1, <1>2, InsertRows, FailureRows, PoolRows DEF Next, Rpc, Gui

\* Both invariants hold in every behaviour of the feed.
LEMMA RowsInvariant == Spec => [](IInv /\ RowsInv)
  <1>1. Init => IInv /\ RowsInv
    BY InitIInv, InitRows
  <1>2. IInv /\ RowsInv /\ [Next]_vars => (IInv /\ RowsInv)'
    BY StepIInv, StepRows
  <1> QED
    BY <1>1, <1>2, PTL DEF Spec

\* The row an application is shown in is the model_index_ the engine keeps
\* for it, whatever the batch sizes and the order the answers come in.
THEOREM FeedRows == Spec => []RowsMatchEngine
  <1>1. RowsInv => RowsMatchEngine
    BY DEF RowsInv
  <1> QED
    BY <1>1, RowsInvariant, PTL

\* requestMore sends no request for an application that was requested before.
THEOREM FeedNoDuplicate == Spec => []NoDuplicateFetch
  <1>1. IInv /\ RowsInv => NoDuplicateFetch
    <2> SUFFICES ASSUME IInv, RowsInv, NEW t \in Threads, Pc(t) = "send"
                 PROVE  /\ frame[t].next \notin Waiting
                        /\ frame[t].next \notin Indices(push_item_dq \cup pop_item_dq \cup item_dq)
                        /\ status[frame[t].next] = "NotFetched"
      BY DEF NoDuplicateFetch, Pc
    <2> DEFINE i == frame[t].next
    <2>1. Collecting /\ Top = i
      BY PhaseOf, ThreadCases DEF IInv, Frames, Top, Threads
    <2>2. /\ engine_fetch_index <= i /\ i < engine_fetch_index + fetch_count
          /\ engine_fetch_index + fetch_count <= size /\ size \in 0 .. MaxApps
          /\ engine_fetch_index \in Nat /\ fetch_count \in Nat /\ i \in Nat
      <3>1. i \in Nat
        BY DEF IInv, TypeOK, EngineTypes, Frame
      <3> QED
        BY <2>1, <3>1, TopType DEF IInv, Frames, Collecting, TypeOK, EngineTypes
    <2>3. i \in AppIdx
      BY <2>2, StoreEngineAssumption DEF AppIdx
    <2> HIDE DEF i
    <2>4. status[i] = "NotFetched"
      BY <2>1, <2>2, <2>3 DEF Collecting, UntouchedFrom
    <2>5. i \notin Waiting
      BY <2>1, <2>2 DEF Collecting
    <2>6. \A item \in push_item_dq : item.index # i
      BY <2>1, <2>2 DEF Collecting
    <2>7. pop_item_dq = {} /\ \A r \in item_dq : r.index # i
      BY <2>1, <2>4 DEF Collecting, NothingLanded, RowsInv, RowsMatchEngine
    <2> QED
      BY <2>4, <2>5, <2>6, <2>7 DEF Indices, i
  <1> QED
    BY <1>1, RowsInvariant, PTL

-----------------------------------------------------------------------------
(* The flags.                                                              *)

\* No item has been built when the program starts.
LEMMA InitFlags == Init => FlagsInv
  BY DEF Init, EngineInit, ModelInit, FlagsInv, FlagsComplete, TaskFlags

\* A listing changes flags only while there is no item and no task.
LEMMA ListFlags == IInv /\ RowsInv /\ List => FlagsInv'
  <1> SUFFICES ASSUME IInv, RowsInv, List PROVE FlagsInv'
    OBVIOUS
  <1>1. listing # "done" /\ UNCHANGED <<push_item_dq, pop_item_dq, item_dq, tasks>>
    BY DEF List, ListingFails, ListAll, ListAquired, ListDefault, modelVars
  <1>2. Idle /\ count = 0
    BY <1>1 DEF IInv, Listings
  <1>3. push_item_dq = {} /\ pop_item_dq = {} /\ tasks = {}
    BY <1>2, WaitingEmpty DEF Idle, NothingUnderWay, NothingLanded
  <1>4. item_dq = {}
    BY <1>2, FS_EmptySet DEF RowsInv, RowsMatchEngine
  <1> QED
    BY <1>1, <1>3, <1>4 DEF FlagsInv, FlagsComplete, TaskFlags

\* Every step of the feed keeps the flags of the items complete.
LEMMA StepFlags == IInv /\ RowsInv /\ FlagsInv /\ [Next]_vars => FlagsInv'
  <1> SUFFICES ASSUME IInv, RowsInv, FlagsInv, [Next]_vars PROVE FlagsInv'
    OBVIOUS
  <1> USE DEF FlagsInv, FlagsComplete, TaskFlags
  <1>1. CASE List
    BY <1>1, ListFlags
  <1>2. CASE RpcAnswer \/ RpcReport
    <2>1. UNCHANGED <<flags, push_item_dq, pop_item_dq, item_dq>>
      BY <1>2 DEF RpcAnswer, RpcReport, FetchAnswered, FailureReported, listVars, modelVars
    <2>2. ASSUME NEW task \in tasks', task.ok
          PROVE  task.flags = flags[task.index]
      <3>1. CASE RpcAnswer
        <4>1. PICK i \in inflight :
                tasks' = tasks \cup {[index |-> i, count |-> fetch_count, ok |-> TRUE,
                                     flags |-> flags[i]]}
          BY <3>1 DEF RpcAnswer
        <4> QED
          BY <2>2, <4>1
      <3>2. CASE RpcReport
        <4>1. PICK i \in failing :
                tasks' = tasks \cup {[index |-> i, count |-> fetch_count, ok |-> FALSE,
                                     flags |-> {}]}
          BY <3>2 DEF RpcReport
        <4> QED
          BY <2>2, <4>1
      <3> QED
        BY <1>2, <3>1, <3>2
    <2> QED
      BY <2>1, <2>2
  <1>3. CASE RpcFailure \/ RpcRequest \/ GuiRequest \/ GuiSkipBatch \/ GuiReturned
              \/ GuiData \/ UNCHANGED vars
    <2>1. UNCHANGED <<flags, push_item_dq, pop_item_dq, item_dq, tasks>>
      BY <1>3 DEF RpcFailure, FetchFailed, RpcRequest, GuiRequest, Clamp, SendFetch,
         FirstBatchSent, GuiSkipBatch, GuiReturned, GuiData, listVars, engineVars, modelVars,
         pushVars, rowVars, vars
    <2> QED
      BY <2>1
  <1>4. CASE PoolRun
    <2>1. PICK task \in tasks : /\ tasks' = tasks \ {task}
                                /\ push_item_dq' = push_item_dq \cup TaskItems(task)
      BY <1>4 DEF PoolRun, PrepareAndPush
    <2>2. UNCHANGED <<flags, pop_item_dq, item_dq>>
      BY <1>4 DEF PoolRun, PrepareAndPush, engineVars, listVars, rowVars
    <2>3. \A item \in TaskItems(task) : item.flags = flags[item.index]
      BY DEF TaskItems
    <2> QED
      BY <2>1, <2>2, <2>3
  <1>5. CASE GuiSwap
    BY <1>5 DEF GuiSwap, SwapDeques, engineVars, listVars
  <1>6. CASE GuiInsert
    <2>1. /\ pop_item_dq' = {} /\ UNCHANGED <<flags, push_item_dq, tasks>>
          /\ item_dq' = item_dq \cup
               {[row |-> RowOf(x, pop_item_dq), index |-> x.index, flags |-> x.flags] :
                   x \in pop_item_dq}
      BY <1>6 DEF GuiInsert, AppendRows, listVars, pushVars
    <2>2. \A r \in item_dq' : r.flags = flags[r.index]
      BY <2>1
    <2> QED
      BY <2>1, <2>2
  <1> QED
    BY <1>1, <1>2, <1>3, <1>4, <1>5, <1>6 DEF Next, Rpc, Gui

\* An item carries for ever the flags its application has when all three
\* listings are complete.
THEOREM FeedFlags == Spec => []FlagsComplete
  <1>1. FlagsInv => FlagsComplete
    BY DEF FlagsInv
  <1> QED
    BY <1>1, InitFlags, StepFlags, RowsInvariant, PTL DEF Spec

-----------------------------------------------------------------------------
(* The queue of the worker pool.                                           *)

\* A pool that has room for a batch of either kind.
PoolHoldsBatch == StartFetchCount <= PoolCapacity /\ FetchCount <= PoolCapacity

CountBounded == fetch_count <= PoolCapacity

\* Every step of the feed keeps the pool's tasks within one batch.
LEMMA StepBounded ==
  ASSUME PoolHoldsBatch, IInv, CountBounded, [Next]_vars
  PROVE  CountBounded'
  <1>1. fetch_count \in Nat /\ size \in Nat
    BY TopType DEF IInv
  <1>2. ASSUME NEW t \in Threads, Clamp(t) PROVE fetch_count' <= fetch_count
    <2>1. frame[t].last \in Nat
      BY DEF IInv, TypeOK, EngineTypes, Frame
    <2> QED
      BY <1>1, <1>2, <2>1 DEF Clamp
  <1>3. fetch_count' <= fetch_count \/ fetch_count' \in {StartFetchCount, FetchCount}
    <2>1. CASE List
      BY <1>1, <2>1 DEF List, ListingFails, ListAll, ListAquired, ListDefault, RequestMore
    <2>2. CASE RpcAnswer \/ RpcFailure \/ RpcReport
      BY <1>1, <2>2 DEF RpcAnswer, RpcFailure, RpcReport, FetchAnswered, FetchFailed,
         FailureReported
    <2>3. CASE RpcRequest \/ GuiRequest
      BY <1>1, <1>2, <2>3 DEF RpcRequest, GuiRequest, SendFetch, FirstBatchSent, Threads
    <2>4. CASE GuiSkipBatch \/ GuiData
      BY <2>4 DEF GuiSkipBatch, GuiData, RequestMore
    <2>5. CASE PoolRun \/ GuiSwap \/ GuiInsert \/ GuiReturned \/ UNCHANGED vars
      BY <1>1, <2>5 DEF PoolRun, GuiSwap, GuiInsert, GuiReturned, engineVars, vars
    <2> QED
      BY <2>1, <2>2, <2>3, <2>4, <2>5 DEF Next, Rpc, Gui
  <1>4. fetch_count' \in Nat
    BY StepIInv DEF IInv, TypeOK, EngineTypes
  <1> QED
    BY <1>1, <1>3, <1>4, StoreEngineAssumption, ListModelAssumption, StoreFeedAssumption
       DEF CountBounded, PoolHoldsBatch

\* The RPC thread never blocks on a full pool queue, if the queue has room
\* for one batch: the next batch is requested after the last one is inserted.
THEOREM FeedPoolNeverFull ==
  ASSUME PoolHoldsBatch
  PROVE  Spec => []PoolNeverFull
  <1>1. Init => CountBounded
    BY DEF Init, EngineInit, CountBounded, PoolHoldsBatch
  <1>2. IInv /\ CountBounded /\ [Next]_vars => CountBounded'
    BY StepBounded
  <1>3. IInv /\ CountBounded => PoolNeverFull
    <2> SUFFICES ASSUME IInv, CountBounded PROVE Cardinality(tasks) <= PoolCapacity
      BY DEF PoolNeverFull
    <2>1. CASE tasks = {}
      BY <2>1, FS_EmptySet, StoreFeedAssumption
    <2>2. CASE tasks # {}
      <3>1. Collecting /\ Pc("rpc") = "off"
        BY <2>2, TaskAfterCall, PhaseOf
      <3>2. /\ engine_fetch_index \in Nat /\ fetch_count \in Nat /\ Top \in Nat
            /\ push_item_count \in Nat
        BY TopType DEF IInv, TypeOK, ModelTypes
      <3>3. \A t \in Threads : frame[t].next \in Nat /\ frame[t].last \in Nat
        BY DEF IInv, TypeOK, EngineTypes, Frame
      <3>4. Top <= engine_fetch_index + fetch_count
        BY <3>2, <3>3, ThreadCases DEF Top, Threads, IInv, Frames
      <3>5. Waiting \subseteq engine_fetch_index .. Top - 1
        BY <3>1 DEF Collecting
      <3>6. IsFiniteSet(Waiting) /\ Cardinality(Waiting) <= fetch_count
        <4>1. IsFiniteSet(engine_fetch_index .. Top - 1)
          BY <3>2, FS_Interval
        <4>2. IsFiniteSet(Waiting)
          BY <3>5, <4>1, FS_Subset
        <4>3. Cardinality(Waiting) \in Nat
          BY <4>2, FS_CardinalityType
        <4>4. Cardinality(Waiting) + push_item_count = Top - engine_fetch_index
          BY <3>1 DEF Collecting
        <4> QED
          BY <3>2, <3>4, <4>2, <4>3, <4>4
      <3>7. IsFiniteSet(TaskIdx) /\ Cardinality(TaskIdx) <= Cardinality(Waiting)
        BY <3>6, FS_Subset DEF Waiting
      <3>8. IsFiniteSet(tasks) /\ Cardinality(tasks) <= Cardinality(TaskIdx)
        <4> DEFINE f == [task \in tasks |-> task.index]
        <4>1. f \in Injection(tasks, TaskIdx)
          BY <3>1 DEF Injection, IsInjective, TaskIdx, Collecting, WaitingStatus
        <4> QED
          BY <3>7, <4>1, FS_Injection
      <3>9. Cardinality(tasks) \in Nat /\ Cardinality(TaskIdx) \in Nat
            /\ Cardinality(Waiting) \in Nat
        BY <3>6, <3>7, <3>8, FS_CardinalityType
      <3> QED
        BY <3>2, <3>6, <3>7, <3>8, <3>9, StoreFeedAssumption DEF CountBounded
    <2> QED
      BY <2>1, <2>2
  <1> QED
    BY <1>1, <1>2, <1>3, FeedInvariant, PTL DEF Spec

-----------------------------------------------------------------------------
(***************************************************************************)
(* The feed implements Catalog: a failed fetch is a Refuse step, the       *)
(* insertion of a batch is an Extend step with the applications that batch *)
(* marks as fetched, and every other step leaves the page as it is.        *)
(***************************************************************************)

\* An application the engine has marked as fetched has its row.
FetchedShown == \A i \in AppIdx : status[i] = "Fetched" => \E r \in item_dq : r.index = i

PageInv == IInv /\ RowsInv /\ FlagsInv /\ FetchedShown

AbstractRows    == {[row |-> r.row, index |-> r.index] : r \in item_dq}
AbstractRefused == {i \in AppIdx : status[i] = "Errored"}

-----------------------------------------------------------------------------
\* The page is empty when the program starts.
LEMMA InitPage == Init => PageInv
  <1>1. Init => FetchedShown
    BY DEF Init, EngineInit, FetchedShown
  <1> QED
    BY <1>1, InitIInv, InitRows, InitFlags DEF PageInv

\* Only the two kinds of step that change the page touch the statuses.
LEMMA QuietStep ==
  ASSUME [Next]_vars, ~GuiInsert, ~RpcFailure
  PROVE  UNCHANGED <<status, item_dq>>
  <1>1. CASE List \/ RpcAnswer \/ RpcReport \/ RpcRequest \/ GuiRequest \/ UNCHANGED vars
    BY <1>1 DEF List, ListingFails, ListAll, ListAquired, ListDefault, RpcAnswer,
       FetchAnswered, RpcReport, FailureReported, RpcRequest, GuiRequest, Clamp, SendFetch,
       FirstBatchSent, appVars, modelVars, engineVars, vars
  <1>2. CASE PoolRun \/ GuiSwap \/ GuiSkipBatch \/ GuiReturned \/ GuiData
    BY <1>2 DEF PoolRun, PrepareAndPush, GuiSwap, SwapDeques, GuiSkipBatch, GuiReturned,
       GuiData, engineVars, appVars, modelVars, rowVars, pushVars
  <1> QED
    BY <1>1, <1>2 DEF Next, Rpc, Gui

\* Every step of the feed keeps the page's own invariant.
LEMMA StepPage == PageInv /\ [Next]_vars => PageInv'
  <1> SUFFICES ASSUME PageInv, [Next]_vars PROVE FetchedShown'
    BY StepIInv, StepRows, StepFlags DEF PageInv
  <1>1. CASE GuiInsert
    <2> DEFINE fresh == Fresh(engine_fetch_index - fetch_count, engine_fetch_index)
    <2>1. /\ fresh = Indices(pop_item_dq)
          /\ status' = [i \in AppIdx |-> IF i \in fresh THEN "Fetched" ELSE status[i]]
      BY <1>1, InsertMarks DEF PageInv
    <2> HIDE DEF fresh
    <2>2. item_dq' = item_dq \cup
            {[row |-> RowOf(x, pop_item_dq), index |-> x.index, flags |-> x.flags] :
                x \in pop_item_dq}
      BY <1>1 DEF GuiInsert, AppendRows
    <2>3. \A i \in fresh : \E r \in item_dq' : r.index = i
      <3> DEFINE row(x) == [row |-> RowOf(x, pop_item_dq), index |-> x.index,
                            flags |-> x.flags]
      <3>1. \A x \in pop_item_dq : row(x) \in item_dq' /\ row(x).index = x.index
        BY <2>2
      <3> HIDE DEF row
      <3> QED
        BY <2>1, <3>1 DEF Indices
    <2>4. \A i \in AppIdx : status'[i] = "Fetched" => i \in fresh \/ status[i] = "Fetched"
      BY <2>1
    <2> QED
      BY <2>2, <2>3, <2>4 DEF PageInv, FetchedShown
  <1>2. CASE RpcFailure
    <2>1. PICK i \in inflight : status' = [status EXCEPT ![i] = "Errored"] /\ item_dq' = item_dq
      BY <1>2 DEF RpcFailure, FetchFailed, modelVars
    <2>2. \A j \in AppIdx : status'[j] = "Fetched" => status[j] = "Fetched"
      BY <2>1 DEF PageInv, IInv, TypeOK, EngineTypes
    <2> QED
      BY <2>1, <2>2 DEF PageInv, FetchedShown
  <1>3. CASE ~GuiInsert /\ ~RpcFailure
    BY <1>3, QuietStep DEF PageInv, FetchedShown
  <1> QED
    BY <1>1, <1>2, <1>3

\* The applications with a row are the fetched ones.
LEMMA ListedFetched ==
  ASSUME PageInv
  PROVE  Shown!Listed = {i \in AppIdx : status[i] = "Fetched"}
  <1>1. \A r \in item_dq : r.index \in AppIdx /\ status[r.index] = "Fetched"
    BY DEF PageInv, IInv, TypeOK, ModelTypes, RowsInv, RowsMatchEngine
  <1>2. Shown!Listed = {r.index : r \in item_dq}
    <2> DEFINE pair(r) == [row |-> r.row, index |-> r.index]
    <2>1. \A r : pair(r).index = r.index
      OBVIOUS
    <2>2. Shown!Listed = {r.index : r \in {pair(s) : s \in item_dq}}
      BY DEF Shown!Listed
    <2> HIDE DEF pair
    <2> QED
      BY <2>1, <2>2
  <1> QED
    BY <1>1, <1>2 DEF PageInv, FetchedShown

\* The page has as many rows as the model.
LEMMA RowsCount ==
  ASSUME PageInv
  PROVE  Cardinality(AbstractRows) = count
  <1> DEFINE pair(r) == [row |-> r.row, index |-> r.index]
             f       == [r \in item_dq |-> pair(r)]
  <1>1. f \in Surjection(item_dq, AbstractRows)
    BY DEF Surjection, AbstractRows
  <1>2. ASSUME NEW a \in item_dq, NEW b \in item_dq, pair(a) = pair(b)
        PROVE  a = b
    <2>1. a.row = b.row /\ a.index = b.index
      BY <1>2
    <2>2. a.flags = flags[a.index] /\ b.flags = flags[b.index]
      BY DEF PageInv, FlagsInv, FlagsComplete
    <2>3. /\ a \in [row : Nat, index : AppIdx, flags : SUBSET FlagE]
          /\ b \in [row : Nat, index : AppIdx, flags : SUBSET FlagE]
      BY DEF PageInv, IInv, TypeOK, ModelTypes
    <2> QED
      BY <2>1, <2>2, <2>3
  <1> HIDE DEF pair
  <1>3. f \in Injection(item_dq, AbstractRows)
    BY <1>1, <1>2 DEF Injection, IsInjective, Surjection
  <1>4. Cardinality(AbstractRows) = Cardinality(item_dq)
    BY <1>1, <1>3, FS_Surjection DEF PageInv, RowsInv
  <1> QED
    BY <1>4 DEF PageInv, RowsInv, RowsMatchEngine

\* Catalog counts as the feed does.
LEMMA SameCardinality == \A S : Shown!Cardinality(S) = Cardinality(S)
  BY DEF Shown!Cardinality, Cardinality

\* Extend, in terms of the page of the feed.
LEMMA ExtendBy ==
  ASSUME NEW new \in SUBSET (AppIdx \ (Shown!Listed \cup AbstractRefused)), new # {},
         \A i \in new, j \in AppIdx : j < i => j \in Shown!Listed \cup new \cup AbstractRefused,
         \A i \in new, j \in Shown!Listed : j < i,
         AbstractRows' = AbstractRows \cup
           {[row |-> Cardinality(AbstractRows) + Cardinality({j \in new : j < i}), index |-> i] :
               i \in new},
         AbstractRefused' = AbstractRefused
  PROVE  Shown!Extend
  <1>1. AbstractRows' = AbstractRows \cup
          {[row |-> Shown!Cardinality(AbstractRows) + Shown!Cardinality({j \in new : j < i}),
            index |-> i] : i \in new}
    BY SameCardinality
  <1> QED
    BY <1>1, Zenon DEF Shown!Extend, AbstractRows, AbstractRefused

\* The insertion of a batch extends the page.
LEMMA InsertExtends == PageInv /\ GuiInsert => Shown!Extend
  <1> SUFFICES ASSUME PageInv, GuiInsert PROVE Shown!Extend
    OBVIOUS
  <1> DEFINE fresh == Fresh(engine_fetch_index - fetch_count, engine_fetch_index)
             lo    == engine_fetch_index - fetch_count
  <1>1. /\ fresh = Indices(pop_item_dq) /\ fresh \subseteq AppIdx
        /\ fresh = {i \in AppIdx : status[i] = "NotFetched" /\ i < engine_fetch_index}
        /\ status' = [i \in AppIdx |-> IF i \in fresh THEN "Fetched" ELSE status[i]]
    BY InsertMarks DEF PageInv
  <1> HIDE DEF fresh
  <1>2. /\ pop_item_dq # {} /\ Inserting
        /\ item_dq' = item_dq \cup
             {[row |-> RowOf(x, pop_item_dq), index |-> x.index, flags |-> x.flags] :
                 x \in pop_item_dq}
    BY PhaseOf DEF PageInv, GuiInsert, AppendRows
  <1>3. fresh # {}
    BY <1>1, <1>2 DEF Indices
  <1>4. Shown!Listed = {i \in AppIdx : status[i] = "Fetched"}
    BY ListedFetched
  <1>5. fresh \in SUBSET (AppIdx \ (Shown!Listed \cup AbstractRefused))
    BY <1>1, <1>4 DEF AbstractRefused
  <1>6. ASSUME NEW i \in fresh, NEW j \in AppIdx, j < i
        PROVE  j \in Shown!Listed \cup fresh \cup AbstractRefused
    <2>1. i \in Int /\ j \in Int /\ engine_fetch_index \in Int /\ i < engine_fetch_index
      BY <1>1, TopType DEF AppIdx, PageInv, IInv
    <2>2. j < engine_fetch_index
      BY <1>6, <2>1
    <2>3. status[j] \in StatusE
      BY DEF PageInv, IInv, TypeOK, EngineTypes
    <2> QED
      BY <1>1, <1>4, <2>2, <2>3 DEF StatusE, AbstractRefused
  <1>7. ASSUME NEW i \in fresh, NEW j \in Shown!Listed
        PROVE  j < i
    <2>1. j \in AppIdx /\ status[j] = "Fetched"
      BY <1>4
    <2>2. lo \in Int /\ engine_fetch_index \in Nat /\ j \in Int /\ i \in Int
      BY <1>1, <2>1, TopType DEF PageInv, IInv, AppIdx
    <2>3. j < engine_fetch_index
      BY <1>2, <2>1, <2>2 DEF Inserting, Complete, UntouchedFrom
    <2>4. j < lo
      BY <1>2, <2>1, <2>2, <2>3 DEF Inserting, Complete
    <2>5. i \in lo .. engine_fetch_index - 1
      BY DEF fresh, Fresh
    <2> QED
      BY <2>2, <2>4, <2>5
  <1>8. AbstractRefused' = AbstractRefused
    <2>1. \A i \in AppIdx : status'[i] = "Errored" <=> status[i] = "Errored"
      BY <1>1
    <2> QED
      BY <2>1 DEF AbstractRefused
  <1>9. AbstractRows' = AbstractRows \cup
          {[row |-> Cardinality(AbstractRows) + Cardinality({j \in fresh : j < i}),
            index |-> i] : i \in fresh}
    <2>1. Cardinality(AbstractRows) = count
      BY RowsCount
    <2>2. \A x \in pop_item_dq : RowOf(x, pop_item_dq) = count + Rank(x.index, fresh)
      BY <1>1, RowIsRank DEF PageInv, IInv, FiniteBatches, RowsInv
    <2>3. AbstractRows' = AbstractRows \cup
            {[row |-> RowOf(x, pop_item_dq), index |-> x.index] : x \in pop_item_dq}
      <3> DEFINE pair(r) == [row |-> r.row, index |-> r.index]
                 row(x)  == [row |-> RowOf(x, pop_item_dq), index |-> x.index,
                             flags |-> x.flags]
                 at(x)   == [row |-> RowOf(x, pop_item_dq), index |-> x.index]
      <3>1. \A x : pair(row(x)) = at(x)
        OBVIOUS
      <3>2. /\ item_dq' = item_dq \cup {row(x) : x \in pop_item_dq}
            /\ AbstractRows = {pair(r) : r \in item_dq}
            /\ AbstractRows' = {pair(r) : r \in item_dq'}
        BY <1>2 DEF AbstractRows
      <3> HIDE DEF pair, row, at
      <3>3. AbstractRows' = AbstractRows \cup {at(x) : x \in pop_item_dq}
        BY <3>1, <3>2
      <3> QED
        BY <3>3 DEF at
    <2> DEFINE at(i) == [row |-> count + Rank(i, fresh), index |-> i]
    <2>4. {[row |-> RowOf(x, pop_item_dq), index |-> x.index] : x \in pop_item_dq} =
            {at(x.index) : x \in pop_item_dq}
      BY <2>2
    <2> HIDE DEF at
    <2>5. {at(x.index) : x \in pop_item_dq} = {at(i) : i \in fresh}
      BY <1>1 DEF Indices
    <2> QED
      BY <2>1, <2>3, <2>4, <2>5 DEF at, Rank
  <1>10. /\ \A i \in fresh, j \in AppIdx : j < i =>
                j \in Shown!Listed \cup fresh \cup AbstractRefused
         /\ \A i \in fresh, j \in Shown!Listed : j < i
    BY <1>6, <1>7
  <1> QED
    BY <1>3, <1>5, <1>8, <1>9, <1>10, ExtendBy

\* A failed fetch is refused by the page.
LEMMA FailureRefuses == PageInv /\ RpcFailure => Shown!Refuse
  <1> SUFFICES ASSUME PageInv, NEW i \in inflight, FetchFailed(i), UNCHANGED <<modelVars, tasks>>
               PROVE  Shown!Refuse
    BY DEF RpcFailure
  <1>1. status' = [status EXCEPT ![i] = "Errored"] /\ item_dq' = item_dq
    BY DEF FetchFailed, modelVars
  <1>2. i \in AppIdx /\ status \in [AppIdx -> StatusE]
    BY DEF PageInv, IInv, TypeOK, EngineTypes
  <1>3. status[i] = "NotFetched"
    BY PhaseOf, WaitingEmpty DEF PageInv, Collecting, WaitingStatus
  <1>4. i \in AppIdx \ (Shown!Listed \cup AbstractRefused)
    BY <1>2, <1>3, ListedFetched DEF AbstractRefused
  <1>5. AbstractRefused' = AbstractRefused \cup {i} /\ AbstractRows' = AbstractRows
    BY <1>1, <1>2 DEF AbstractRefused, AbstractRows
  <1> QED
    BY <1>4, <1>5 DEF Shown!Refuse, AbstractRows, AbstractRefused

\* What the user sees is, at every moment and for every schedule of the
\* threads, a page that Catalog allows.
THEOREM FeedImplementsCatalog == Spec => ImplementsCatalog
  <1>1. Init => Shown!Init
    BY DEF Init, EngineInit, ModelInit, Shown!Init
  <1>2. PageInv /\ [Next]_vars => [Shown!Next]_(Shown!vars)
    <2> SUFFICES ASSUME PageInv, [Next]_vars PROVE [Shown!Next]_(Shown!vars)
      OBVIOUS
    <2>1. CASE GuiInsert
      BY <2>1, InsertExtends DEF Shown!Next
    <2>2. CASE RpcFailure
      BY <2>2, FailureRefuses DEF Shown!Next
    <2>3. CASE ~GuiInsert /\ ~RpcFailure
      BY <2>3, QuietStep DEF Shown!vars
    <2> QED
      BY <2>1, <2>2, <2>3
  <1> QED
    BY <1>1, <1>2, InitPage, StepPage, PTL DEF Spec, ImplementsCatalog, Shown!Spec

=============================================================================
