----------------------------- MODULE StoreFeed -----------------------------
(***************************************************************************)
(* The catalogue feed: the engine, the list model, and the worker pool     *)
(* between them.  Three threads run it.                                    *)
(*                                                                         *)
(*   rpc   the one thread of the RPC scheduler: listing and fetch          *)
(*         completions, the first requestMore                              *)
(*   pool  runs prepareAndPushItem for each completed fetch                *)
(*   gui   newItemsSlot, and data() for the rows being painted, which call *)
(*         requestMore for every batch but the first                       *)
(*                                                                         *)
(* The pool's tasks are a set: each task is one critical section, so with  *)
(* any number of workers, in any order, they are steps of some behaviour.  *)
(***************************************************************************)
EXTENDS StoreEngine, ListModel

CONSTANT PoolCapacity   \* the job queue of the worker pool

ASSUME StoreFeedAssumption == PoolCapacity \in Nat

VARIABLE tasks          \* prepareAndPushItem calls waiting for a worker

vars == <<engineVars, modelVars, tasks>>

Init == EngineInit /\ ModelInit /\ tasks = {}

\* The items a task pushes: one, or none when the fetch failed.
TaskItems(task) ==
    IF task.ok THEN {[index |-> task.index, flags |-> task.flags]} ELSE {}

-----------------------------------------------------------------------------
(* RPC thread.                                                             *)

List ==
    /\ ListingFails \/ ListAll \/ ListAquired \/ ListDefault
    /\ UNCHANGED <<modelVars, tasks>>

\* on_fetch_fnc_ pushes a pool task that carries the index, the count and
\* the flags read in the callback.
RpcAnswer ==
    \E i \in inflight :
      /\ FetchAnswered(i)
      /\ tasks' = tasks \cup
           {[index |-> i, count |-> fetch_count, ok |-> TRUE, flags |-> flags[i]]}
      /\ UNCHANGED modelVars

RpcFailure ==
    \E i \in inflight : FetchFailed(i) /\ UNCHANGED <<modelVars, tasks>>

\* on_fetch_error_fnc_ pushes a task with no item.
RpcReport ==
    \E i \in failing :
      /\ FailureReported(i)
      /\ tasks' = tasks \cup
           {[index |-> i, count |-> fetch_count, ok |-> FALSE, flags |-> {}]}
      /\ UNCHANGED modelVars

RpcRequest ==
    /\ Clamp("rpc") \/ SendFetch("rpc") \/ FirstBatchSent
    /\ UNCHANGED <<modelVars, tasks>>

-----------------------------------------------------------------------------
(* Worker pool.                                                            *)

PoolRun ==
    \E task \in tasks :
      /\ tasks' = tasks \ {task}
      /\ PrepareAndPush(TaskItems(task), task.count)
      /\ UNCHANGED engineVars

-----------------------------------------------------------------------------
(* GUI thread: one event at a time; a requestMore call is part of one.     *)

GuiFree == frame["gui"].pc = "off"

GuiSwap == GuiFree /\ SwapDeques /\ UNCHANGED <<engineVars, tasks>>

\* Mutant of GuiSkipBatch: an empty batch is taken for the end.
GuiSkipBatchStops ==
    /\ GuiFree /\ in_slot /\ pop_item_dq = {}
    /\ in_slot' = FALSE
    /\ UNCHANGED <<engineVars, pushVars, rowVars, requested_more, tasks>>

\* newItemsSlot with an empty batch: every fetch of it failed, the next one
\* is requested at once.
GuiSkipBatch ==
    /\ GuiFree /\ in_slot /\ pop_item_dq = {}
    /\ RequestMore("gui", engine_fetch_index, FetchCount)
    /\ in_slot' = FALSE
    /\ UNCHANGED <<listing, listVars, appVars, inflight, failing, thrown,
                   pushVars, rowVars, requested_more, tasks>>

GuiInsert ==
    /\ GuiFree /\ in_slot /\ pop_item_dq # {}
    /\ OnModelFetchedItems(count, engine_fetch_index, Cardinality(pop_item_dq))
    /\ AppendRows
    /\ UNCHANGED <<listing, listVars, fetch_count, frame, inflight, failing, tasks>>

\* The view paints a row.
GuiData ==
    /\ GuiFree /\ ~in_slot
    /\ \E row \in 0 .. count - 1 : AsksMore(row)
    /\ RequestMore("gui", engine_fetch_index, FetchCount)
    /\ UNCHANGED <<listing, listVars, appVars, inflight, failing, thrown,
                   modelVars, tasks>>

GuiRequest ==
    /\ Clamp("gui") \/ SendFetch("gui")
    /\ UNCHANGED <<modelVars, tasks>>

\* Mutant of GuiReturned: the result is kept the wrong way round.
GuiReturnedInverted ==
    /\ Returned("gui")
    /\ requested_more' = ~frame["gui"].more
    /\ UNCHANGED <<listing, listVars, appVars, fetch_count, inflight, failing, thrown,
                   pushVars, rowVars, in_slot, tasks>>

\* requestMore has returned to data() or newItemsSlot.
GuiReturned ==
    /\ Returned("gui")
    /\ requested_more' = frame["gui"].more
    /\ UNCHANGED <<listing, listVars, appVars, fetch_count, inflight, failing, thrown,
                   pushVars, rowVars, in_slot, tasks>>

-----------------------------------------------------------------------------
Rpc  == List \/ RpcAnswer \/ RpcFailure \/ RpcReport \/ RpcRequest
Gui  == GuiSwap \/ GuiSkipBatch \/ GuiInsert \/ GuiRequest \/ GuiReturned

\* An exception that leaves a slot ends the program.
Next == ~thrown /\ (Rpc \/ PoolRun \/ Gui \/ GuiData)

Spec == Init /\ [][Next]_vars

\* Threads that have something to run, run.  The service answers or the
\* connection fails, either of which completes a request.
ThreadFairness ==
    /\ WF_vars(~thrown /\ Rpc)
    /\ WF_vars(~thrown /\ PoolRun)
    /\ WF_vars(~thrown /\ Gui)

FairSpec == Spec /\ ThreadFairness

\* A reader keeps scrolling: the last row is painted again and again.
ReaderScrolls == WF_vars(~thrown /\ GuiData)

-----------------------------------------------------------------------------
(* Properties.                                                             *)

Item == [index : AppIdx, flags : SUBSET FlagE]
Task == [index : AppIdx, count : Nat, ok : BOOLEAN, flags : SUBSET FlagE]

Frame == [pc : {"off", "clamp", "send", "returned"}, next : Nat, last : Nat,
          more : BOOLEAN]

EngineTypes ==
    /\ listing \in {"A", "a", "d", "done", "failed"}
    /\ size \in 0 .. MaxApps
    /\ flags \in [AppIdx -> SUBSET FlagE]
    /\ status \in [AppIdx -> StatusE]
    /\ model_index \in [AppIdx -> Nat]
    /\ fetch_count \in Nat
    /\ frame \in [Threads -> Frame]
    /\ inflight \subseteq AppIdx
    /\ failing \subseteq AppIdx

ModelTypes ==
    /\ push_item_dq \subseteq Item
    /\ push_item_count \in Nat
    /\ engine_fetch_index \in Nat
    /\ new_items \in Nat
    /\ pop_item_dq \subseteq Item
    /\ item_dq \subseteq [row : Nat, index : AppIdx, flags : SUBSET FlagE]
    /\ count \in Nat
    /\ request_more_index \in Nat

FlagTypes == thrown \in BOOLEAN /\ in_slot \in BOOLEAN /\ requested_more \in BOOLEAN

\* Types; fetch_count_ is a size_t, so a negative value would be a wrap.
TypeOK == EngineTypes /\ ModelTypes /\ FlagTypes /\ tasks \subseteq Task

TaskIdx == {task.index : task \in tasks}
Waiting == inflight \cup failing \cup TaskIdx
Indices(items) == {item.index : item \in items}

\* Neither the solid_check of onModelFetchedItems (the window computed from
\* the unlocked fetch_count_ lies in the catalogue) nor its solid_throw (an
\* application of the window was fetched before) ever fires.
EngineChecksHold == ~thrown

\* No application is requested twice: whenever requestMore is about to send
\* a request, that application has not been requested, answered or inserted.
NoDuplicateFetch ==
    \A t \in Threads : frame[t].pc = "send" =>
      /\ frame[t].next \notin Waiting
      /\ frame[t].next \notin Indices(push_item_dq \cup pop_item_dq \cup item_dq)
      /\ status[frame[t].next] = "NotFetched"

\* The engine and the model agree on where an application is shown, although
\* each computes it on its own: the row of an item is the model_index_ the
\* engine recorded for its engine index, and each row holds one item.
RowsMatchEngine ==
    /\ \A r \in item_dq : /\ r.row < count
                          /\ status[r.index] = "Fetched"
                          /\ model_index[r.index] = r.row
    /\ Cardinality(item_dq) = count
    /\ \A r, s \in item_dq : r.row < s.row <=> r.index < s.index

\* The flags an item was queued with are the flags of its application for
\* ever: no item is built between the listings, when they are incomplete.
FlagsComplete ==
    \A item \in push_item_dq \cup pop_item_dq \cup item_dq :
        item.flags = flags[item.index]

\* The pool's queue never fills, so the RPC thread is never blocked in
\* pushOne.
PoolNeverFull == Cardinality(tasks) <= PoolCapacity

\* The fetch_count_ every callback of a batch reads is the one its
\* requestMore computed: nobody writes it while a fetch is under way.
CountStable == [][Waiting # {} => fetch_count' = fetch_count]_vars

\* Every request that was sent ends in a row of the list or in an error.
FetchSettles ==
    \A i \in AppIdx : (i \in inflight) ~> (status[i] # "NotFetched")

\* With a reader who scrolls on, every listed application is shown unless
\* its fetch failed: no batch boundary, and no batch of failures, ends the
\* feed early.
CatalogueCompletes ==
    ReaderScrolls => \A i \in AppIdx : (listing = "done" /\ i < size) ~>
        (status[i] = "Errored" \/ \E r \in item_dq : r.index = i)

-----------------------------------------------------------------------------
\* The feed implements the catalogue: what the user sees is a prefix of the
\* listing in its order, without the applications that could not be fetched.
Shown == INSTANCE Catalog WITH
    Apps    <- AppIdx,
    rows    <- {[row |-> r.row, index |-> r.index] : r \in item_dq},
    refused <- {i \in AppIdx : status[i] = "Errored"}

ImplementsCatalog == Shown!Spec
=============================================================================
