----------------------------- MODULE ListModel -----------------------------
(***************************************************************************)
(* The list model behind the home page (ListModel of                       *)
(* store_main_window.cpp): prepareAndPushItem, called by the worker pool,  *)
(* collects a batch under mutex_ and emits newItemSignal when it is        *)
(* complete; newItemsSlot runs on the GUI thread for each queued signal    *)
(* and appends the batch, sorted by engine index, to the rows.             *)
(*                                                                         *)
(* A batch is a set of items with distinct engine indices; the rows are a  *)
(* set of records, an item being in row `row` of item_dq_.                 *)
(***************************************************************************)
EXTENDS Integers, FiniteSets

CONSTANT FetchCount    \* ListModel::fetch_count_, the size of a batch

ASSUME ListModelAssumption == FetchCount \in Nat \ {0}

VARIABLES
    push_item_dq,        \* items of the batch being collected
    push_item_count,     \* push_item_count_: items and failures of it
    engine_fetch_index,  \* engine_fetch_index_: the next index to request
    new_items,           \* queued newItemSignal events
    in_slot,             \* newItemsSlot has swapped the deques
    pop_item_dq,         \* the batch newItemsSlot is inserting
    item_dq,             \* the rows
    count,               \* count_
    request_more_index,  \* request_more_index_
    requested_more       \* requested_more_

modelVars == <<push_item_dq, push_item_count, engine_fetch_index, new_items,
               in_slot, pop_item_dq, item_dq, count, request_more_index,
               requested_more>>
pushVars  == <<push_item_dq, push_item_count, engine_fetch_index, new_items>>
rowVars   == <<pop_item_dq, item_dq, count, request_more_index>>

ModelInit ==
    /\ push_item_dq = {}
    /\ push_item_count = 0
    /\ engine_fetch_index = 0
    /\ new_items = 0
    /\ in_slot = FALSE
    /\ pop_item_dq = {}
    /\ item_dq = {}
    /\ count = 0
    /\ request_more_index = 0
    /\ requested_more = FALSE

\* Mutant of PrepareAndPush: the next index to request counts the items of
\* the batch, not its failures.
PrepareAndPushByItems(items, cnt) ==
    /\ push_item_dq' = push_item_dq \cup items
    /\ \/ /\ push_item_count + 1 = cnt
          /\ engine_fetch_index' = engine_fetch_index + Cardinality(push_item_dq')
          /\ push_item_count' = 0
          /\ new_items' = new_items + 1
       \/ /\ push_item_count + 1 # cnt
          /\ push_item_count' = push_item_count + 1
          /\ UNCHANGED <<engine_fetch_index, new_items>>
    /\ UNCHANGED <<in_slot, rowVars, requested_more>>

\* Mutant of PrepareAndPush: a failed fetch does not count towards the batch.
PrepareAndPushIgnoresFailures(items, cnt) ==
    /\ push_item_dq' = push_item_dq \cup items
    /\ \/ /\ push_item_count + Cardinality(items) = cnt
          /\ engine_fetch_index' = engine_fetch_index + cnt
          /\ push_item_count' = 0
          /\ new_items' = new_items + 1
       \/ /\ push_item_count + Cardinality(items) # cnt
          /\ push_item_count' = push_item_count + Cardinality(items)
          /\ UNCHANGED <<engine_fetch_index, new_items>>
    /\ UNCHANGED <<in_slot, rowVars, requested_more>>

\* prepareAndPushItem on a pool thread, one critical section: the batch is
\* complete when as many items and failures have arrived as cnt says.
PrepareAndPush(items, cnt) ==
    /\ push_item_dq' = push_item_dq \cup items
    /\ \/ /\ push_item_count + 1 = cnt
          /\ engine_fetch_index' = engine_fetch_index + cnt
          /\ push_item_count' = 0
          /\ new_items' = new_items + 1
       \/ /\ push_item_count + 1 # cnt
          /\ push_item_count' = push_item_count + 1
          /\ UNCHANGED <<engine_fetch_index, new_items>>
    /\ UNCHANGED <<in_slot, rowVars, requested_more>>

\* newItemsSlot starts: the deques are swapped under mutex_.
SwapDeques ==
    /\ ~in_slot
    /\ new_items > 0
    /\ new_items' = new_items - 1
    /\ push_item_dq' = pop_item_dq
    /\ pop_item_dq' = push_item_dq
    /\ in_slot' = TRUE
    /\ UNCHANGED <<push_item_count, engine_fetch_index, item_dq, count,
                   request_more_index, requested_more>>

\* The row an item of the sorted batch is appended in.
RowOf(item, batch) ==
    count + Cardinality({other \in batch : other.index < item.index})

\* newItemsSlot ends: the batch is appended in engine order.
AppendRows ==
    /\ item_dq' = item_dq \cup
         {[row |-> RowOf(item, pop_item_dq), index |-> item.index, flags |-> item.flags] :
             item \in pop_item_dq}
    /\ request_more_index' = count + Cardinality(pop_item_dq) \div 2
    /\ requested_more' = FALSE
    /\ count' = count + Cardinality(pop_item_dq)
    /\ pop_item_dq' = {}
    /\ in_slot' = FALSE
    /\ UNCHANGED pushVars

\* Mutant of AsksMore: requested_more_ is not looked at.
AsksMoreAlways(row) == row >= request_more_index

\* data(): painting this row asks for the next batch.
AsksMore(row) == ~requested_more /\ row >= request_more_index

=============================================================================
