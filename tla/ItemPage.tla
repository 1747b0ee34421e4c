------------------------------ MODULE ItemPage ------------------------------
(***************************************************************************)
(* The item page of the store window (store_main_window.cpp) with the      *)
(* engine calls it makes (store_engine.cpp): showing an item, acquiring    *)
(* and releasing it, choosing its build, reviewing a build, and the slots  *)
(* that take the service's answers on the GUI thread.                      *)
(*                                                                         *)
(* A call is in `calls` until the service has answered it and the RPC      *)
(* thread has run its completion, which queues an event for the GUI        *)
(* thread in `events`.  Qt widgets signal their changes synchronously:     *)
(* setChecked runs onAquireButtonToggled and setCurrentIndex runs          *)
(* buildChangedSlot before the handler that called them goes on.           *)
(*                                                                         *)
(* The rows of the list are all present (StoreFeed is about how they get   *)
(* there); an item stands for its row and for its application.             *)
(***************************************************************************)
EXTENDS Integers, Sequences, FiniteSets, SequencesExt

CONSTANTS
    Items,      \* rows of the list
    Owned,      \* those with the flag Owned
    Default,    \* those with the flag Default
    Builds,     \* the builds each item has at the service
    States,     \* states the service may move a build to on its own account
    Picks,      \* combo box indices the user chooses (bounds a run)
    MaxCalls,   \* calls and events under way when the user acts (bounds a run)
    Fails       \* calls may be refused or lost

None  == "none"         \* no current item, or no data
Latest == ""            \* an empty build id
FixedIds == <<Latest, "public_release", "public_beta", "public_alpha", "invalid">>
PrivateAlpha == "private_alpha"

Offered == {o \in Items \X UNION {Builds[i] : i \in Items} : o[2] \in Builds[o[1]]}

\* AppItemStateE, in the order review states are compared in.
ReviewStates == {"ReviewRequest", "ReviewStarted", "ReviewAccepted", "ReviewRejected"}
StateE == {"Invalid", "Trash", "PrivateAlpha", "PublicAlpha", "PublicBeta",
           "PublicRelease"} \cup ReviewStates

ASSUME ItemPageAssumption ==
    /\ Owned \subseteq Items /\ Default \subseteq Items
    /\ \A i \in Items : IsFiniteSet(Builds[i])
    /\ States \subseteq StateE /\ Picks \subseteq Nat
    /\ Fails \in BOOLEAN /\ MaxCalls \in Nat

VARIABLES
    current,       \* current_item_
    aquired,       \* the items whose flags_ have Aquired
    build_id,      \* build_id_ of each item
    data,          \* data_ptr_: the build id whose data the item has, or None
    app_list,      \* app_list_file_, as stored on disk
    button,        \* acquire_button is checked
    enabled,       \* comboBox and the review buttons are enabled
    combo,         \* the entries of comboBox
    combo_of,      \* history: the item whose entries they are
    combo_index,   \* its current index, -1 for none
    review_shown,  \* the review buttons are shown
    calls,         \* calls not answered yet
    events,        \* queued events of the GUI thread
    svc_aquired,   \* service: the items the user has acquired
    svc_state,     \* service: the state of each build of each item
    orderly,       \* history: no call has failed or been answered out of turn
    crashed        \* a completion has dereferenced a missing response

pageVars  == <<current, button, enabled>>
comboVars == <<combo, combo_of, combo_index>>
buildVars == <<build_id, data, app_list, review_shown>>
svcVars   == <<svc_aquired, svc_state>>
vars == <<pageVars, aquired, buildVars, comboVars, calls, events, svcVars, orderly, crashed>>

AcquireCall(i, acquire) == [kind |-> "acquire", item |-> i, acquire |-> acquire]
EntriesCall(i)          == [kind |-> "entries", item |-> i]
DataCall(i, id)         == [kind |-> "data", item |-> i, build |-> id]
StateCall(i, name, new) == [kind |-> "state", item |-> i, name |-> name, new |-> new]
EntriesEvent(i, builds) == [kind |-> "entries", item |-> i, builds |-> builds]

Init ==
    /\ current = None
    /\ aquired \in SUBSET Items
    /\ build_id = [i \in Items |-> Latest]
    /\ data = [i \in Items |-> None]
    /\ app_list = build_id
    /\ button = FALSE /\ enabled = TRUE
    /\ combo = <<>> /\ combo_of = None /\ combo_index = -1
    /\ review_shown = FALSE
    /\ calls = <<>> /\ events = <<>>
    /\ svc_aquired = aquired
    /\ svc_state \in [Offered -> States]
    /\ orderly = TRUE
    /\ crashed = FALSE

-----------------------------------------------------------------------------
(* The build combo box.                                                    *)

Entry(text, state) == [text |-> text, state |-> state]

\* The entries of an item: the fixed ones, the owner's, and its builds that
\* are not in the trash.
Listed(builds) == {b \in DOMAIN builds : builds[b] # "Trash"}
ComboFor(i, builds) ==
    [k \in 1 .. 5 |-> Entry(FixedIds[k], "Invalid")]
      \o (IF i \in Owned THEN <<Entry("Private Alpha", "Invalid")>> ELSE <<>>)
      \o [k \in 1 .. Cardinality(Listed(builds)) |->
            LET b == SetToSeq(Listed(builds))[k] IN Entry(b, builds[b])]

\* The build id index k (from 0) means for item i.
BuildAt(cmb, i, k) ==
    IF k <= 4 THEN FixedIds[k + 1]
    ELSE IF k = 5 /\ i \in Owned THEN PrivateAlpha
    ELSE cmb[k + 1].text

\* The index itemEntriesSlot selects for the build of item i; one that is
\* not listed any more falls back to the latest.
IndexFor(cmb, i) ==
    LET found == {k \in 0 .. Len(cmb) - 1 : BuildAt(cmb, i, k) = build_id[i]}
    IN  IF found = {} THEN 0 ELSE CHOOSE k \in found : \A l \in found : k <= l

UnderReview(cmb, i, k) == i \notin Owned /\ cmb[k + 1].state \in ReviewStates

\* buildChangedSlot(k) for the current item: a new choice is kept in the
\* item and in the stored application list, its data is fetched, and
\* choosing a build whose review is requested starts the review.
BuildChanged(cmb, k, shown, pending) ==
    LET i       == current
        id      == BuildAt(cmb, i, k)
        changes == id # build_id[i]
        starts  == changes /\ UnderReview(cmb, i, k) /\ cmb[k + 1].state = "ReviewRequest"
        fetches == changes \/ data[i] = None
        asked   == IF id = "invalid" THEN Latest ELSE id
    IN  /\ build_id' = [build_id EXCEPT ![i] = id]
        /\ app_list' = IF changes THEN [app_list EXCEPT ![i] = id] ELSE app_list
        /\ data' = IF changes THEN [data EXCEPT ![i] = None] ELSE data
        /\ review_shown' = IF changes THEN UnderReview(cmb, i, k) ELSE shown
        /\ calls' = pending
             \o (IF starts THEN <<StateCall(i, id, "ReviewStarted")>> ELSE <<>>)
             \o (IF fetches THEN <<DataCall(i, asked)>> ELSE <<>>)

\* setChecked: a change runs onAquireButtonToggled, which asks the service.
Toggle(i, checked, pending) ==
    IF checked # button /\ i \notin Default
      THEN Append(pending, AcquireCall(i, checked)) ELSE pending

-----------------------------------------------------------------------------
(* The user.                                                               *)

UserActs == Len(calls) + Len(events) < MaxCalls

\* showItem: the button takes the item's flag, which toggles it when the
\* page shown before had another; the entries are asked for.
ShowItem(i) ==
    /\ UserActs
    /\ current # i
    /\ current' = i
    /\ button' = (i \in aquired)
    /\ enabled' = (i \in aquired \cup Default)
    /\ calls' = Append(Toggle(i, i \in aquired, calls), EntriesCall(i))
    /\ UNCHANGED <<aquired, buildVars, comboVars, events, svcVars, crashed>>

\* The user clicks the acquire button, which is disabled for a default item.
ClickAcquire ==
    /\ UserActs
    /\ current \in Items \ Default
    /\ button' = ~button
    /\ calls' = Toggle(current, ~button, calls)
    /\ UNCHANGED <<current, enabled, aquired, buildVars, comboVars, events, svcVars,
                   crashed>>

\* The user chooses an entry of the combo box.
ChooseBuild(k) ==
    /\ UserActs
    /\ current \in Items /\ enabled
    /\ k < Len(combo) /\ k # combo_index
    /\ combo_index' = k
    /\ BuildChanged(combo, k, review_shown, calls)
    /\ UNCHANGED <<pageVars, aquired, combo, combo_of, events, svcVars, crashed>>

\* onReviewAcceptButtonClicked and onReviewRejectButtonClicked: the verdict
\* is on whatever build the combo box shows.
Review ==
    /\ UserActs
    /\ review_shown /\ enabled
    /\ \E verdict \in {"ReviewAccepted", "ReviewRejected"} :
         calls' = Append(calls, StateCall(current, combo[combo_index + 1].text, verdict))
    /\ UNCHANGED <<pageVars, aquired, buildVars, comboVars, events, svcVars, crashed>>

-----------------------------------------------------------------------------
(* The service and the completions on the RPC thread.                      *)

\* Call k is answered before an earlier one of its kind about its item.
Overtakes(k) ==
    \E j \in 1 .. k - 1 : calls[j].kind = calls[k].kind /\ calls[j].item = calls[k].item

AcquireAnswered(k) ==
    /\ calls[k].kind = "acquire"
    /\ svc_aquired' = IF calls[k].acquire THEN svc_aquired \cup {calls[k].item}
                                          ELSE svc_aquired \ {calls[k].item}
    /\ events' = Append(events, calls[k])
    /\ calls' = RemoveAt(calls, k)
    /\ UNCHANGED <<svc_state, crashed>>

\* Refused, or the answer is lost with or without the service having acted:
\* acquireItem reports "not acquired" whatever was asked for.
AcquireFails(k) ==
    /\ Fails
    /\ calls[k].kind = "acquire"
    /\ svc_aquired' \in {svc_aquired,
                         IF calls[k].acquire THEN svc_aquired \cup {calls[k].item}
                                             ELSE svc_aquired \ {calls[k].item}}
    /\ events' = Append(events, AcquireCall(calls[k].item, FALSE))
    /\ calls' = RemoveAt(calls, k)
    /\ UNCHANGED <<svc_state, crashed>>

EntriesAnswered(k) ==
    /\ calls[k].kind = "entries"
    /\ LET i == calls[k].item
       IN  events' = Append(events,
                EntriesEvent(i, [b \in Builds[i] |-> svc_state[<<i, b>>]]))
    /\ calls' = RemoveAt(calls, k)
    /\ UNCHANGED <<svcVars, crashed>>

DataAnswered(k) ==
    /\ calls[k].kind = "data"
    /\ events' = Append(events, calls[k])
    /\ calls' = RemoveAt(calls, k)
    /\ UNCHANGED <<svcVars, crashed>>

\* The slots drop a failed answer.
FetchFails(k) ==
    /\ Fails
    /\ calls[k].kind \in {"entries", "data"}
    /\ calls' = RemoveAt(calls, k)
    /\ UNCHANGED <<events, svcVars, crashed>>

\* A change of state is answered, done or refused; the completion asks for
\* the entries again.
StateAnswered(k) ==
    /\ calls[k].kind = "state"
    /\ LET c == calls[k]
       IN  /\ \/ /\ c.name \in Builds[c.item]
                 /\ svc_state' = [svc_state EXCEPT ![<<c.item, c.name>>] = c.new]
              \/ UNCHANGED svc_state
           /\ calls' = Append(RemoveAt(calls, k), EntriesCall(c.item))
    /\ UNCHANGED <<events, svc_aquired, crashed>>

\* Without an answer the completion reads the error of a null response.
StateLost(k) ==
    /\ Fails
    /\ calls[k].kind = "state"
    /\ crashed' = TRUE
    /\ calls' = RemoveAt(calls, k)
    /\ UNCHANGED <<events, svcVars>>

Answer ==
    /\ \E k \in DOMAIN calls :
         \/ /\ AcquireAnswered(k) \/ EntriesAnswered(k) \/ DataAnswered(k) \/ StateAnswered(k)
            /\ orderly' = (orderly /\ ~Overtakes(k))
         \/ /\ AcquireFails(k) \/ FetchFails(k) \/ StateLost(k)
            /\ orderly' = FALSE
    /\ UNCHANGED <<pageVars, aquired, buildVars, comboVars>>

\* The owner or the service moves a build to another state.
ServiceMoves ==
    /\ UserActs
    /\ \E offer \in Offered, s \in States :
         /\ svc_state[offer] # s
         /\ svc_state' = [svc_state EXCEPT ![offer] = s]
    /\ UNCHANGED <<pageVars, aquired, buildVars, comboVars, calls, events, svc_aquired,
                   crashed>>

-----------------------------------------------------------------------------
(* The slots on the GUI thread.                                            *)

\* Mutant of ItemAcquireSlot: the button follows the answer for any item.
ItemAcquireSlotAnyItem ==
    /\ events # <<>> /\ Head(events).kind = "acquire"
    /\ events' = Tail(events)
    /\ LET i == Head(events).item
           acquire == Head(events).acquire
           pending == Toggle(i, acquire, calls)
       IN  /\ aquired' = IF acquire THEN aquired \cup {i} ELSE aquired \ {i}
           /\ button' = acquire
           /\ enabled' = (acquire \/ i \in Default)
           /\ calls' = pending
           /\ UNCHANGED <<combo_index, buildVars>>
    /\ UNCHANGED <<current, combo, combo_of, svcVars, crashed>>

\* Mutant of ItemAcquireSlot: the flag is kept for the current item only.
ItemAcquireSlotShownOnly ==
    /\ events # <<>> /\ Head(events).kind = "acquire"
    /\ events' = Tail(events)
    /\ LET i == Head(events).item
           acquire == Head(events).acquire
           pending == Toggle(i, acquire, calls)
       IN  /\ aquired' = IF i # current THEN aquired
                         ELSE IF acquire THEN aquired \cup {i} ELSE aquired \ {i}
           /\ \/ /\ i # current
                 /\ UNCHANGED <<button, enabled, combo_index, buildVars, calls>>
              \/ /\ i = current
                 /\ button' = acquire
                 /\ enabled' = (acquire \/ i \in Default)
                 /\ \/ /\ combo = <<>> \/ combo_index = 0
                       /\ calls' = pending
                       /\ UNCHANGED <<combo_index, buildVars>>
                    \/ /\ combo # <<>> /\ combo_index # 0
                       /\ combo_index' = 0
                       /\ BuildChanged(combo, 0, review_shown, pending)
    /\ UNCHANGED <<current, combo, combo_of, svcVars, crashed>>

\* Mutant of ItemAcquireSlot: the combo box is reset although it is empty.
ItemAcquireSlotResetsEmpty ==
    /\ events # <<>> /\ Head(events).kind = "acquire"
    /\ events' = Tail(events)
    /\ aquired' = IF Head(events).acquire THEN aquired \cup {Head(events).item}
                                          ELSE aquired \ {Head(events).item}
    /\ IF Head(events).item = current
         THEN /\ button' = Head(events).acquire
              /\ enabled' = (Head(events).acquire \/ current \in Default)
              /\ combo_index' = 0
         ELSE UNCHANGED <<button, enabled, combo_index>>
    /\ UNCHANGED <<current, combo, combo_of, buildVars, calls, svcVars, crashed>>

\* itemAcquireSlot: the flag is kept for any item; on the page of the
\* current one the button follows, and the combo box goes back to the
\* latest build.
ItemAcquireSlot ==
    /\ events # <<>> /\ Head(events).kind = "acquire"
    /\ events' = Tail(events)
    /\ LET i == Head(events).item
           acquire == Head(events).acquire
           pending == Toggle(i, acquire, calls)
       IN  /\ aquired' = IF acquire THEN aquired \cup {i} ELSE aquired \ {i}
           /\ \/ /\ i # current
                 /\ UNCHANGED <<button, enabled, combo_index, buildVars, calls>>
              \/ /\ i = current
                 /\ button' = acquire
                 /\ enabled' = (acquire \/ i \in Default)
                 /\ \/ /\ combo = <<>> \/ combo_index = 0
                       /\ calls' = pending
                       /\ UNCHANGED <<combo_index, buildVars>>
                    \/ /\ combo # <<>> /\ combo_index # 0
                       /\ combo_index' = 0
                       /\ BuildChanged(combo, 0, review_shown, pending)
    /\ UNCHANGED <<current, combo, combo_of, svcVars, crashed>>

\* Mutant of ItemEntriesSlot: the entries are shown whatever item is current.
ItemEntriesSlotAnyItem ==
    /\ events # <<>> /\ Head(events).kind = "entries"
    /\ events' = Tail(events)
    /\ LET i   == Head(events).item
           cmb == ComboFor(i, Head(events).builds)
       IN  /\ combo' = cmb /\ combo_of' = i
           /\ combo_index' = IndexFor(cmb, i)
           /\ review_shown' = UnderReview(cmb, i, IndexFor(cmb, i))
    /\ UNCHANGED <<pageVars, aquired, build_id, data, app_list, calls, svcVars, crashed>>

\* itemEntriesSlot: entries of an item that is not shown any more are
\* dropped; the combo box is filled anew and the item's build selected.
ItemEntriesSlot ==
    /\ events # <<>> /\ Head(events).kind = "entries"
    /\ events' = Tail(events)
    /\ LET i   == Head(events).item
           cmb == ComboFor(i, Head(events).builds)
           any == Listed(Head(events).builds) # {}
           k   == IndexFor(cmb, i)
       IN  \/ /\ i # current
              /\ UNCHANGED <<comboVars, buildVars, calls>>
           \/ /\ i = current
              /\ combo' = cmb /\ combo_of' = i
              /\ \/ /\ any
                    /\ combo_index' = k
                    /\ BuildChanged(cmb, k, k >= 5 /\ UnderReview(cmb, i, k), calls)
                 \/ /\ ~any
                    /\ combo_index' = -1
                    /\ review_shown' = FALSE
                    /\ UNCHANGED <<build_id, data, app_list, calls>>
    /\ UNCHANGED <<pageVars, aquired, svcVars, crashed>>

\* itemDataSlot: the data is kept for whatever item it was asked for.
ItemDataSlot ==
    /\ events # <<>> /\ Head(events).kind = "data"
    /\ events' = Tail(events)
    /\ data' = [data EXCEPT ![Head(events).item] = Head(events).build]
    /\ UNCHANGED <<pageVars, aquired, build_id, app_list, review_shown, comboVars,
                   calls, svcVars, crashed>>

-----------------------------------------------------------------------------
User == \/ \E i \in Items : ShowItem(i)
        \/ ClickAcquire
        \/ \E k \in Picks : ChooseBuild(k)
        \/ Review
Slot == ItemAcquireSlot \/ ItemEntriesSlot \/ ItemDataSlot

Next == /\ ~crashed
        /\ \/ Answer
           \/ (User \/ ServiceMoves \/ Slot) /\ UNCHANGED orderly

Spec == Init /\ [][Next]_vars

-----------------------------------------------------------------------------
(* Properties.                                                             *)

BuildIds == {FixedIds[k] : k \in 1 .. 5} \cup {PrivateAlpha, "Private Alpha"}
              \cup UNION {Builds[i] : i \in Items}
CallE == [kind : {"acquire"}, item : Items, acquire : BOOLEAN]
           \cup [kind : {"entries"}, item : Items]
           \cup [kind : {"data"}, item : Items, build : BuildIds]
           \cup [kind : {"state"}, item : Items, name : BuildIds, new : ReviewStates]

TypeOK ==
    /\ current \in Items \cup {None}
    /\ aquired \subseteq Items
    /\ build_id \in [Items -> BuildIds]
    /\ data \in [Items -> BuildIds \cup {None}]
    /\ app_list \in [Items -> BuildIds]
    /\ button \in BOOLEAN /\ enabled \in BOOLEAN /\ review_shown \in BOOLEAN
    /\ combo_index \in -1 .. Len(combo) - 1
    /\ \A k \in DOMAIN calls : calls[k] \in CallE
    /\ svc_aquired \subseteq Items

Pending(kind, i) ==
    \/ \E k \in DOMAIN calls  : calls[k].kind = kind /\ calls[k].item = i
    \/ \E k \in DOMAIN events : events[k].kind = kind /\ events[k].item = i

\* With no acquisition of it under way the page of an item shows its flag,
\* in the button and in what it enables, whatever answers for it and for
\* other items came, in any order, or failed.
ControlsTrackFlags ==
    current # None =>
      /\ enabled = (current \in aquired \cup Default)
      /\ ~Pending("acquire", current) => button = (current \in aquired)

\* The build an item uses is the one the stored application list names, on
\* every path that changes it: a choice of the user, a fall back because the
\* build is gone, and the reset after an acquisition.  Once the entries of the
\* current item have come the combo box is that item's, shows that build, and
\* offers a review only to a user who does not own the item and of the build
\* that is chosen.
ComboSettles ==
    /\ app_list = build_id
    /\ (current # None /\ ~Pending("entries", current)) =>
         /\ combo_of = current
         /\ combo_index >= 0 => BuildAt(combo, current, combo_index) = build_id[current]
         /\ review_shown => /\ current \notin Owned
                            /\ combo_index >= 5
                            /\ combo[combo_index + 1].state \in ReviewStates

\* With no call of an item under way, and as long as calls of a kind about an
\* item are answered in turn and do not fail, the page and the service agree:
\* on what the user has acquired, and on the build whose data is shown.
AgreesWithService ==
    orderly => \A i \in Items :
      /\ ~Pending("acquire", i) => (i \in aquired <=> i \in svc_aquired)
      /\ (~Pending("data", i) /\ data[i] # None) =>
            data[i] = IF build_id[i] = "invalid" THEN Latest ELSE build_id[i]
=============================================================================
