---------------------------- MODULE StoreEngine ----------------------------
(***************************************************************************)
(* The catalogue half of the store engine (store_engine.cpp): the chain of *)
(* the three ListApps requests that fills app_dq_, the batches of          *)
(* FetchBuildConfiguration requests requestMore sends, the completion of   *)
(* each request on the RPC thread and the bookkeeping call                 *)
(* onModelFetchedItems.                                                    *)
(*                                                                         *)
(* This module has the engine's state and operations.  StoreFeed composes  *)
(* them with the list model that calls them from the GUI thread and with   *)
(* the worker pool that carries items from the RPC thread to the model.    *)
(*                                                                         *)
(* requestMore writes fetch_count_ before it takes mutex_ and sends its    *)
(* requests one at a time, so a call of it is a frame of its thread with a *)
(* program counter: any other thread can run between two of its steps.     *)
(***************************************************************************)
EXTENDS Integers, FiniteSets

CONSTANTS
    MaxApps,          \* the most applications the front service lists
    StartFetchCount,  \* Configuration::start_fetch_count_
    Flaggable         \* the applications that may carry flags (bounds a run)

AppIdx  == 0 .. MaxApps - 1
Threads == {"rpc", "gui"}           \* the threads that call requestMore
FlagE   == {"Aquired", "Owned", "ReviewRequest", "Default"}
StatusE == {"NotFetched", "Fetched", "Errored"}

ASSUME StoreEngineAssumption ==
    /\ MaxApps \in Nat
    /\ StartFetchCount \in Nat \ {0}
    /\ Flaggable \subseteq AppIdx

VARIABLES
    listing,      \* the ListApps request in flight, or how the chain ended
    size,         \* app_dq_.size()
    flags,        \* app_dq_[i].flags_
    status,       \* app_dq_[i].status_
    model_index,  \* app_dq_[i].model_index_
    fetch_count,  \* fetch_count_, shared by the threads without a lock
    frame,        \* the requestMore call each thread is in
    inflight,     \* fetch requests sent and not yet answered
    failing,      \* the index whose failure the RPC thread is handling
    thrown        \* a solid_check or solid_throw of the engine has fired

engineVars == <<listing, size, flags, status, model_index, fetch_count,
                frame, inflight, failing, thrown>>
listVars   == <<size, flags>>
appVars    == <<status, model_index>>

NoFrame == [pc |-> "off", next |-> 0, last |-> 0, more |-> FALSE]

EngineInit ==
    /\ listing = "A"
    /\ size = 0
    /\ flags = [i \in AppIdx |-> {}]
    /\ status = [i \in AppIdx |-> "NotFetched"]
    /\ model_index = [i \in AppIdx |-> 0]
    /\ fetch_count = StartFetchCount
    /\ frame = [t \in Threads |-> NoFrame]
    /\ inflight = {}
    /\ failing = {}
    /\ thrown = FALSE

-----------------------------------------------------------------------------
(* requestMore(_index, _count_hint), on thread t.                          *)

\* The unlocked assignment of fetch_count_ and the computation of last_index.
RequestMore(t, index, hint) ==
    /\ frame[t].pc = "off"
    /\ fetch_count' = hint
    /\ frame' = [frame EXCEPT ![t] =
            [pc |-> "clamp", next |-> index, last |-> index + hint, more |-> FALSE]]

\* Under mutex_: last_index and fetch_count_ are cut to the catalogue; an
\* empty range returns false.
Clamp(t) ==
    /\ frame[t].pc = "clamp"
    /\ LET last  == IF frame[t].last > size THEN size ELSE frame[t].last
           empty == frame[t].next >= last
       IN  /\ fetch_count' = fetch_count - (frame[t].last - last)
           /\ frame' = [frame EXCEPT ![t].last = last,
                            ![t].pc = IF empty THEN "returned" ELSE "send"]
    /\ UNCHANGED <<listing, listVars, appVars, inflight, failing, thrown>>

\* Mutant of SendFetch: the loop runs up to and including last_index.
SendFetchPastEnd(t) ==
    /\ frame[t].pc = "send"
    /\ inflight' = inflight \cup {frame[t].next}
    /\ LET done == frame[t].next = frame[t].last
       IN  frame' = [frame EXCEPT ![t] =
                       [pc   |-> IF done THEN "returned" ELSE "send",
                        next |-> frame[t].next + 1,
                        last |-> frame[t].last,
                        more |-> done]]
    /\ UNCHANGED <<listing, listVars, appVars, fetch_count, failing, thrown>>

\* One iteration of the loop: the request of one application is sent.
SendFetch(t) ==
    /\ frame[t].pc = "send"
    /\ inflight' = inflight \cup {frame[t].next}
    /\ LET done == frame[t].next + 1 = frame[t].last
       IN  frame' = [frame EXCEPT ![t] =
                       [pc   |-> IF done THEN "returned" ELSE "send",
                        next |-> frame[t].next + 1,
                        last |-> frame[t].last,
                        more |-> done]]
    /\ UNCHANGED <<listing, listVars, appVars, fetch_count, failing, thrown>>

\* The caller has its result and goes on.
Returned(t) ==
    /\ frame[t].pc = "returned"
    /\ frame' = [frame EXCEPT ![t] = NoFrame]

-----------------------------------------------------------------------------
(* The RPC thread: one thread runs every completion, one at a time.        *)

RpcIdle == frame["rpc"].pc = "off" /\ failing = {}

\* A listing is answered with an error, or not at all: the chain stops and
\* nothing asks again.
ListingFails ==
    /\ RpcIdle
    /\ listing \in {"A", "a", "d"}
    /\ listing' = "failed"
    /\ UNCHANGED <<listVars, appVars, fetch_count, frame, inflight, failing, thrown>>

\* All applications: app_dq_ is filled, with the flags of the listing.
ListAll ==
    /\ RpcIdle
    /\ listing = "A"
    /\ \E n \in 0 .. MaxApps :
         /\ size' = n
         /\ \E f \in [{i \in Flaggable : i < n} -> SUBSET {"Owned", "ReviewRequest"}] :
              flags' = [i \in AppIdx |-> IF i \in DOMAIN f THEN f[i] ELSE {}]
    /\ listing' = "a"
    /\ UNCHANGED <<appVars, fetch_count, frame, inflight, failing, thrown>>

\* The flag is added to the listed applications the engine knows.
AddFlag(flag, listed) ==
    flags' = [i \in AppIdx |->
                IF i \in listed /\ i < size THEN flags[i] \cup {flag} ELSE flags[i]]

\* Mutant of ListAquired: the first batch is requested before the default
\* applications are known.
ListAquiredRequests ==
    /\ RpcIdle
    /\ listing = "a"
    /\ \E listed \in SUBSET Flaggable : AddFlag("Aquired", listed)
    /\ listing' = "d"
    /\ RequestMore("rpc", 0, StartFetchCount)
    /\ UNCHANGED <<size, appVars, inflight, failing, thrown>>

\* Acquired applications; one the engine does not know is skipped.
ListAquired ==
    /\ RpcIdle
    /\ listing = "a"
    /\ \E listed \in SUBSET Flaggable : AddFlag("Aquired", listed)
    /\ listing' = "d"
    /\ UNCHANGED <<size, appVars, fetch_count, frame, inflight, failing, thrown>>

\* Default applications; the same callback then calls requestMore for the
\* first batch.
ListDefault ==
    /\ RpcIdle
    /\ listing = "d"
    /\ \E listed \in SUBSET Flaggable : AddFlag("Default", listed)
    /\ listing' = "done"
    /\ RequestMore("rpc", 0, StartFetchCount)
    /\ UNCHANGED <<size, appVars, inflight, failing, thrown>>

\* The first batch has been sent: the RPC thread leaves the callback.
FirstBatchSent ==
    /\ Returned("rpc")
    /\ UNCHANGED <<listing, listVars, appVars, fetch_count, inflight, failing, thrown>>

\* The request of i is answered: on_fetch_fnc_ is called with the flags and
\* with the fetch_count_ of this moment.
FetchAnswered(i) ==
    /\ RpcIdle
    /\ i \in inflight
    /\ inflight' = inflight \ {i}
    /\ UNCHANGED <<listing, listVars, appVars, fetch_count, frame, failing, thrown>>

\* Mutant of FetchFailed: the failure is reported but not kept.
FetchFailedForgotten(i) ==
    /\ RpcIdle
    /\ i \in inflight
    /\ inflight' = inflight \ {i}
    /\ failing' = {i}
    /\ UNCHANGED <<listing, listVars, appVars, fetch_count, frame, thrown>>

\* It fails: the status is set under mutex_ ...
FetchFailed(i) ==
    /\ RpcIdle
    /\ i \in inflight
    /\ inflight' = inflight \ {i}
    /\ status' = [status EXCEPT ![i] = "Errored"]
    /\ failing' = {i}
    /\ UNCHANGED <<listing, listVars, model_index, fetch_count, frame, thrown>>

\* ... and after the unlock on_fetch_error_fnc_ is called with the
\* fetch_count_ of that later moment.
FailureReported(i) ==
    /\ i \in failing
    /\ failing' = {}
    /\ UNCHANGED <<listing, listVars, appVars, fetch_count, frame, inflight, thrown>>

-----------------------------------------------------------------------------
(* onModelFetchedItems(_model_index, _engine_current_index, _count): the   *)
(* loop marks the first cnt applications of the window that are not        *)
(* fetched yet, and stops there; it throws on one that already is.         *)

Fresh(start, cur) == {i \in start .. cur - 1 : status[i] = "NotFetched"}

\* The position of i among the indices of S (S need not contain i).
Rank(i, S) == Cardinality({j \in S : j < i})

\* Mutant: rows are counted by position, failed applications included.
OnModelFetchedItemsByPosition(mi, cur, cnt) ==
    LET start   == cur - fetch_count
        fresh   == Fresh(start, cur)
        visited == {i \in start .. cur - 1 : Rank(i, fresh) < cnt}
        throws  == \/ start < 0 \/ start >= size
                   \/ \E i \in visited : status[i] = "Fetched"
    IN  /\ thrown' = throws
        /\ \/ throws /\ UNCHANGED appVars
           \/ /\ ~throws
              /\ status' = [i \in AppIdx |->
                    IF i \in fresh \cap visited THEN "Fetched" ELSE status[i]]
              /\ model_index' = [i \in AppIdx |->
                    IF i \in fresh \cap visited THEN mi + (i - start)
                                                ELSE model_index[i]]

OnModelFetchedItems(mi, cur, cnt) ==
    LET start   == cur - fetch_count
        fresh   == Fresh(start, cur)
        visited == {i \in start .. cur - 1 : Rank(i, fresh) < cnt}
        throws  == \/ start < 0 \/ start >= size
                   \/ \E i \in visited : status[i] = "Fetched"
    IN  /\ thrown' = throws
        /\ \/ throws /\ UNCHANGED appVars
           \/ /\ ~throws
              /\ status' = [i \in AppIdx |->
                    IF i \in fresh \cap visited THEN "Fetched" ELSE status[i]]
              /\ model_index' = [i \in AppIdx |->
                    IF i \in fresh \cap visited THEN mi + Rank(i, fresh)
                                                ELSE model_index[i]]

=============================================================================
