--------------------------- MODULE ConfigureForm ---------------------------
(***************************************************************************)
(* The configure form of the store window (store_main_window.cpp): the     *)
(* tree of an owned item's builds and media and the combo box that moves   *)
(* the chosen one to another state.                                        *)
(*                                                                         *)
(* Widgets signal synchronously: a change of the tree's current row runs   *)
(* configureItemChangedSlot, which fills the combo box, and each change of *)
(* its index runs configureStateChangedSlot, which may send a call.  An    *)
(* action is the whole cascade.  The form is one of the pages that         *)
(* Navigation shows and hides.                                             *)
(***************************************************************************)
EXTENDS Integers, Sequences, FiniteSets, SequencesExt

CONSTANTS
    Items,          \* rows of the list
    Owned,          \* those with the flag Owned
    Entries,        \* each item's builds and media: pairs <<type, name>>
    MaxCalls,       \* calls and readings under way when the user acts (bounds a run)
    Others,         \* reviewers and other sessions of the owner move entries
    Fails,          \* calls may be lost
    ServiceChecks   \* the service moves an entry only where its flags allow

None    == "none"          \* no current item
NoEntry == <<"none", "">>  \* no current row, an empty name
Row     == <<"row", "">>   \* the tree's current row is "Builds" or "Media"

ASSUME ConfigureFormAssumption ==
    /\ Owned \subseteq Items /\ None \notin Items
    /\ \A i \in Items : Entries[i] \subseteq {"build", "media"} \X STRING
    /\ MaxCalls \in Nat /\ {Others, Fails, ServiceChecks} \subseteq BOOLEAN

VARIABLES
    current,        \* current_item_
    form,           \* the form is "new", "open", or "away" in the history
    tree,           \* the rows of treeWidget: entries with their state and flags
    tree_of,        \* history: the item whose entries they are
    selected,       \* the tree's current row: an entry, Row or NoEntry
    config_current_build,  \* the build selected last, or NoEntry
    config_current_media,  \* the media entry selected last, or NoEntry
    combo,          \* stateComboBox: its states, its index (-1 none), shown
    calls,          \* calls the service has not acted on yet
    readings,       \* entries it has read, in that order, on their way to the slot
    svc,            \* service: each item's entries
    lost,           \* history: items a call about which was lost, until entries come
    outdated,       \* history: items whose last reading that came was late: one
                    \* after it had come before or was lost
    crashed         \* a completion has dereferenced a missing response

formVars == <<form, tree, tree_of, selected, config_current_build,
              config_current_media, combo>>
history == <<lost, outdated>>
vars == <<current, formVars, calls, readings, svc, history, crashed>>

\* A hidden combo box is filled anew before it is shown again: what it held
\* is left out.
Hidden == [states |-> <<>>, index |-> -1, shown |-> FALSE]

EntriesCall(i)       == [kind |-> "entries", item |-> i]
StateCall(i, e, new) == [kind |-> "state", item |-> i, entry |-> e, new |-> new]
Reading(i, entries)  == [item |-> i, entries |-> entries, late |-> FALSE]

-----------------------------------------------------------------------------
(* The states the form offers for an entry.                                *)

Build(e) == e[1] = "build"
AppItem(state, flag) == [state |-> state, flag |-> flag]

AcceptedStates == <<"Trash", "PrivateAlpha", "PublicAlpha", "PublicBeta", "PublicRelease">>
RejectedStates == <<"Trash", "PrivateAlpha">>
DraftStates    == <<"Trash", "PrivateAlpha", "ReviewRequest">>
MediaStates    == <<"Trash", "PublicRelease">>

\* The items of the combo box for entry e with item x.
OfferedStates(e, x) ==
    CASE ~Build(e)              -> MediaStates
      [] x.flag = "Accepted"    -> AcceptedStates
      [] x.flag = "Rejected"    -> RejectedStates
      [] x.flag = "None" /\ x.state = "ReviewStarted" -> <<>>
      [] OTHER                  -> DraftStates

BuildIndex == [Trash |-> 0, PrivateAlpha |-> 1, ReviewRequest |-> 2, PublicAlpha |-> 2,
               PublicBeta |-> 3, PublicRelease |-> 4]
MediaIndex == [Trash |-> 0, PublicRelease |-> 1]

\* Mutant of IndexFor: Qt selects the first item, as it does without a
\* placeholder text.
IndexForNoPlaceholder(e, x) ==
    LET table == IF Build(e) THEN BuildIndex ELSE MediaIndex
        index == IF x.state \in DOMAIN table THEN table[x.state] ELSE 0
    IN  IF index < Len(OfferedStates(e, x)) THEN index ELSE -1

\* The index set for the state of the entry, by position and not by value;
\* Qt takes one past the end for none.
IndexFor(e, x) ==
    LET table == IF Build(e) THEN BuildIndex ELSE MediaIndex
        index == IF x.state \in DOMAIN table THEN table[x.state] ELSE -1
    IN  IF index < Len(OfferedStates(e, x)) THEN index ELSE -1

\* configureStateChangedSlot: the calls it sends when the index becomes k
\* and the tree's current row is entry e with item x.
StateChanged(e, x, states, k) ==
    IF states = <<>> THEN <<>>
    ELSE LET new == IF k < 0 THEN "Invalid" ELSE states[k + 1]
         IN  IF new # x.state THEN <<StateCall(current, e, new)>> ELSE <<>>

\* configureItemChangedSlot for entry e with item x: clearing the combo box
\* signals with nothing in it, selecting the state signals with the entry.
ItemChanged(e, x) ==
    LET states == OfferedStates(e, x)
        k      == IndexFor(e, x)
    IN  /\ selected' = e
        /\ config_current_build' = IF Build(e) THEN e ELSE config_current_build
        /\ config_current_media' = IF Build(e) THEN config_current_media ELSE e
        /\ combo' = [states |-> states, index |-> k, shown |-> TRUE]
        /\ calls' = calls \o (IF combo.index >= 0 THEN StateChanged(e, x, <<>>, -1) ELSE <<>>)
                          \o (IF k >= 0 THEN StateChanged(e, x, states, k) ELSE <<>>)

-----------------------------------------------------------------------------
(* The service.                                                            *)

Reviewing == {"ReviewRequest", "ReviewStarted", "ReviewAccepted", "ReviewRejected"}

\* The items an entry can come to have when the flags follow the verdicts.
AppItems(e) ==
    IF Build(e)
      THEN {AppItem(s, "None") : s \in {"Trash", "PrivateAlpha", "ReviewRequest", "ReviewStarted"}}
             \cup {AppItem(s, "Accepted") : s \in Range(AcceptedStates) \cup {"ReviewAccepted"}}
             \cup {AppItem(s, "Rejected") : s \in Range(RejectedStates) \cup {"ReviewRejected"}}
      ELSE {AppItem(s, "None") : s \in {"Trash", "PublicRelease", "PrivateAlpha"}}

\* The owner moves an entry where its flags allow.
Allowed(e, x, new) == ServiceChecks => new \in Range(OfferedStates(e, x))

\* A reviewer starts or ends a review; the verdict becomes the flag.
Reviewed(x) ==
    CASE x.state = "ReviewRequest" -> {AppItem("ReviewStarted", x.flag)}
      [] x.state \in Reviewing     -> {AppItem("ReviewAccepted", "Accepted"),
                                       AppItem("ReviewRejected", "Rejected")}
      [] OTHER                     -> {}

Init ==
    /\ current = None
    /\ form = "new"
    /\ tree = <<>> /\ tree_of = None /\ selected = NoEntry
    /\ config_current_build = NoEntry /\ config_current_media = NoEntry
    /\ combo = [states |-> <<>>, index |-> -1, shown |-> TRUE]
    /\ calls = <<>> /\ readings = <<>>
    /\ svc \in [Items -> UNION {[Entries[i] -> UNION {AppItems(e) : e \in Entries[i]}] :
                                  i \in Items}]
    /\ \A i \in Items : /\ DOMAIN svc[i] = Entries[i]
                        /\ \A e \in Entries[i] : svc[i][e] \in AppItems(e)
    /\ lost = {} /\ outdated = {} /\ crashed = FALSE

-----------------------------------------------------------------------------
(* The user.                                                               *)

UserActs == Len(calls) + Len(readings) < MaxCalls
OnForm   == UserActs /\ form = "open"

\* showItem: a page opened for another item asks for its entries, and the
\* form forgets what was selected; the tree stays.
ShowItem(i) ==
    /\ UserActs /\ form # "open"
    /\ current # i
    /\ current' = i
    /\ config_current_build' = NoEntry /\ config_current_media' = NoEntry
    /\ calls' = Append(calls, EntriesCall(i))
    /\ UNCHANGED <<form, tree, tree_of, selected, combo, readings, svc, history, crashed>>

\* The configure button, which the page of an owned item has.
OpenForm ==
    /\ form # "open" /\ current \in Owned
    /\ form' = "open"
    /\ UNCHANGED <<current, tree, tree_of, selected, config_current_build,
                   config_current_media, combo, calls, readings, svc, history, crashed>>

\* Home and Back leave the form; Back comes to it again from wherever the
\* user went, and shows it whatever item is current by then.
LeaveForm ==
    /\ form = "open"
    /\ form' = "away"
    /\ UNCHANGED <<current, tree, tree_of, selected, config_current_build,
                   config_current_media, combo, calls, readings, svc, history, crashed>>

ReturnToForm ==
    /\ form = "away"
    /\ form' = "open"
    /\ UNCHANGED <<current, tree, tree_of, selected, config_current_build,
                   config_current_media, combo, calls, readings, svc, history, crashed>>

\* The user clicks an entry of the tree.
SelectEntry ==
    /\ OnForm
    /\ \E e \in DOMAIN tree \ {selected} : ItemChanged(e, tree[e])
    /\ UNCHANGED <<current, form, tree, tree_of, readings, svc, history, crashed>>

\* The user clicks "Builds" or "Media", or the tree takes the focus.
SelectRow ==
    /\ OnForm
    /\ tree_of # None /\ selected # Row
    /\ selected' = Row
    /\ combo' = Hidden
    /\ UNCHANGED <<current, form, tree, tree_of, config_current_build,
                   config_current_media, calls, readings, svc, history, crashed>>

\* The user chooses another item of the combo box.
ChooseState ==
    /\ OnForm
    /\ combo.shown
    /\ \E k \in 0 .. Len(combo.states) - 1 :
         /\ k # combo.index
         /\ combo' = [combo EXCEPT !.index = k]
         /\ calls' = calls \o StateChanged(selected, tree[selected], combo.states, k)
    /\ UNCHANGED <<current, form, tree, tree_of, selected, config_current_build,
                   config_current_media, readings, svc, history, crashed>>

-----------------------------------------------------------------------------
(* The service and the completions on the RPC thread.                      *)

\* The readings of item i before the k-th are late.
Outdated(i, k) ==
    [j \in DOMAIN readings |->
        IF j < k /\ readings[j].item = i THEN [readings[j] EXCEPT !.late = TRUE]
                                         ELSE readings[j]]

\* The service reads the entries of an item.
EntriesRead(k) ==
    /\ calls[k].kind = "entries"
    /\ LET i == calls[k].item
       IN  readings' = Append(readings, Reading(i, svc[i]))
    /\ calls' = RemoveAt(calls, k)
    /\ UNCHANGED <<svc, history, crashed>>

\* A call about item i is lost, and its reading will not come.
Lose(i) ==
    /\ readings' = Outdated(i, Len(readings) + 1)
    /\ lost' = lost \cup {i} /\ outdated' = outdated \cup {i}

\* The slot drops a failed answer.  Reading leaves no trace, so that losing
\* what was read is losing the call.
EntriesFail(k) ==
    /\ Fails
    /\ calls[k].kind = "entries"
    /\ Lose(calls[k].item)
    /\ calls' = RemoveAt(calls, k)
    /\ UNCHANGED <<svc, crashed>>

\* Mutant of StateAnswered: the entries are not asked for again.
StateAnsweredOnly(k) ==
    /\ calls[k].kind = "state"
    /\ LET i == calls[k].item
           e == calls[k].entry
       IN  \/ /\ e \in DOMAIN svc[i] /\ Allowed(e, svc[i][e], calls[k].new)
              /\ svc' = [svc EXCEPT ![i][e].state = calls[k].new]
           \/ UNCHANGED svc
    /\ calls' = RemoveAt(calls, k)
    /\ UNCHANGED <<readings, history, crashed>>

\* A change of state is done or refused, and the completion asks for the
\* item's entries again.  That call may wait as long as the answer may, so
\* the two are one step.
StateAnswered(k) ==
    /\ calls[k].kind = "state"
    /\ LET i == calls[k].item
           e == calls[k].entry
       IN  /\ \/ /\ e \in DOMAIN svc[i] /\ Allowed(e, svc[i][e], calls[k].new)
                 /\ svc' = [svc EXCEPT ![i][e].state = calls[k].new]
              \/ UNCHANGED svc
           /\ calls' = Append(RemoveAt(calls, k), EntriesCall(i))
    /\ UNCHANGED <<readings, history, crashed>>

\* Without an answer the completion reads the error of a null response.
StateLost(k) ==
    /\ Fails
    /\ calls[k].kind = "state"
    /\ crashed' = TRUE
    /\ Lose(calls[k].item)
    /\ calls' = RemoveAt(calls, k)
    /\ UNCHANGED svc

Answer ==
    /\ \E k \in DOMAIN calls :
         EntriesRead(k) \/ EntriesFail(k) \/ StateAnswered(k) \/ StateLost(k)
    /\ UNCHANGED <<current, formVars>>

\* A reviewer, the owner elsewhere, or the service with what is in the
\* trash.
OthersMove ==
    /\ Others /\ UserActs
    /\ \E i \in Items : \E e \in DOMAIN svc[i] :
         LET x == svc[i][e]
         IN  \/ \E y \in IF Build(e) THEN Reviewed(x) ELSE {} : svc' = [svc EXCEPT ![i][e] = y]
             \/ \E new \in Range(OfferedStates(e, x)) \ {x.state} :
                  svc' = [svc EXCEPT ![i][e].state = new]
             \/ /\ x.state = "Trash"
                /\ svc' = [svc EXCEPT ![i] = [f \in DOMAIN svc[i] \ {e} |-> svc[i][f]]]
    /\ UNCHANGED <<current, formVars, calls, readings, history, crashed>>

-----------------------------------------------------------------------------
(* The slot on the GUI thread.                                             *)

\* The entry prepareConfigureForm selects again: the build selected last
\* or, without one, the media entry; NoEntry when it has gone.
Reselected(new) ==
    LET kept == IF config_current_build # NoEntry THEN config_current_build
                                               ELSE config_current_media
    IN  IF kept \in DOMAIN new THEN kept ELSE NoEntry

\* Mutant of PrepareConfigureForm: the name that is not found is kept.
PrepareConfigureFormKeepsName(i, new) ==
    LET e == Reselected(new)
    IN  /\ tree' = new /\ tree_of' = i
        /\ IF e # NoEntry THEN ItemChanged(e, new[e])
           ELSE /\ selected' = IF selected \in DOMAIN tree THEN Row ELSE selected
                /\ combo' = Hidden
                /\ UNCHANGED <<config_current_build, config_current_media, calls>>

\* Mutant of PrepareConfigureForm: the current row stays where it was.
PrepareConfigureFormKeepsRow(i, new) ==
    LET e == Reselected(new)
    IN  /\ tree' = new /\ tree_of' = i
        /\ IF e # NoEntry THEN ItemChanged(e, new[e])
           ELSE /\ combo' = Hidden
                /\ config_current_build' = NoEntry
                /\ UNCHANGED <<selected, config_current_media, calls>>

\* prepareConfigureForm for item i: taking the rows out makes their parent
\* the current row.  A name that is not found clears config_current_build_,
\* also when it is that of a media entry.
PrepareConfigureForm(i, new) ==
    LET e == Reselected(new)
    IN  /\ tree' = new /\ tree_of' = i
        /\ IF e # NoEntry THEN ItemChanged(e, new[e])
           ELSE /\ selected' = IF selected \in DOMAIN tree THEN Row ELSE selected
                /\ combo' = Hidden
                /\ config_current_build' = NoEntry
                /\ UNCHANGED <<config_current_media, calls>>

\* Mutant of ItemEntriesSlot: the form is filled once for each item.
ItemEntriesSlotOnce ==
    \E k \in DOMAIN readings :
      LET i == readings[k].item
      IN  /\ readings' = RemoveAt(Outdated(i, k), k)
          /\ lost' = lost \ {i}
          /\ outdated' = IF readings[k].late THEN outdated \cup {i} ELSE outdated \ {i}
          /\ IF i = current /\ i \in Owned /\ tree_of # i
               THEN PrepareConfigureForm(i, readings[k].entries)
               ELSE UNCHANGED <<tree, tree_of, selected, config_current_build,
                                config_current_media, combo, calls>>
          /\ UNCHANGED <<current, form, svc, crashed>>

\* itemEntriesSlot: entries of an item that is not shown any more are
\* dropped; those of an owned one fill the form.  Readings come in any order,
\* for two calls may be on two connections and carry no number.  The
\* completion only queues a signal, and signals are taken in the order they
\* were queued in, so that the two are one step.
ItemEntriesSlot ==
    \E k \in DOMAIN readings :
      LET i == readings[k].item
      IN  /\ readings' = RemoveAt(Outdated(i, k), k)
          /\ lost' = lost \ {i}
          /\ outdated' = IF readings[k].late THEN outdated \cup {i} ELSE outdated \ {i}
          /\ IF i = current /\ i \in Owned
               THEN PrepareConfigureForm(i, readings[k].entries)
               ELSE UNCHANGED <<tree, tree_of, selected, config_current_build,
                                config_current_media, combo, calls>>
          /\ UNCHANGED <<current, form, svc, crashed>>

-----------------------------------------------------------------------------
User == \/ \E i \in Items : ShowItem(i)
        \/ OpenForm \/ LeaveForm \/ ReturnToForm
        \/ SelectEntry \/ SelectRow \/ ChooseState

Next == ~crashed /\ (User \/ Answer \/ OthersMove \/ ItemEntriesSlot)

Spec == Init /\ [][Next]_vars

-----------------------------------------------------------------------------
(* Properties.                                                             *)

AllEntries == UNION {Entries[i] : i \in Items}
StateE == {"Invalid", "Trash", "PrivateAlpha", "PublicAlpha", "PublicBeta",
           "PublicRelease"} \cup Reviewing
AppItemE == [state : StateE, flag : {"None", "Accepted", "Rejected"}]

TypeOK ==
    /\ current \in Items \cup {None}
    /\ form \in {"new", "open", "away"}
    /\ DOMAIN tree \subseteq AllEntries /\ tree_of \in Owned \cup {None}
    /\ \A e \in DOMAIN tree : tree[e] \in AppItemE
    /\ selected \in DOMAIN tree \cup {Row, NoEntry}
    /\ config_current_build \in AllEntries \cup {NoEntry}
    /\ config_current_media \in AllEntries \cup {NoEntry}
    /\ combo.index \in -1 .. Len(combo.states) - 1 /\ combo.shown \in BOOLEAN
    /\ \A k \in DOMAIN calls : calls[k].kind \in {"entries", "state"}
    /\ lost \subseteq outdated /\ outdated \subseteq Items

\* Nothing is under way for item i, and no call was lost since its entries came.
Settled(i) == /\ i \notin lost
              /\ \A k \in DOMAIN calls  : calls[k].item # i
              /\ \A k \in DOMAIN readings : readings[k].item # i

Sends == \E k \in DOMAIN calls' \ DOMAIN calls : calls'[k].kind = "state"

\* A build changes its state only when the user chooses one: selecting an
\* entry, refreshing the form and coming back to it set the combo box, whose
\* signals run the slot that sends the change, and must never send one.
\* Setting it by an index that means another state would publish or trash a
\* build that was only looked at.
SelectionIsSilent == [][Sends => ChooseState]_vars

\* With nothing under way for the current item, its form is its own, and the
\* combo box is on an entry, at that entry's state or at none if the state is
\* not offered: a choice that was refused, undone or made twice while the call
\* was under way does not stay in the form.
FormSettles ==
    (current \in Owned /\ Settled(current)) =>
      /\ tree_of = current
      /\ (combo.shown /\ combo.states # <<>>) =>
            /\ selected \in DOMAIN tree
            /\ IF combo.index >= 0
                 THEN combo.states[combo.index + 1] = tree[selected].state
                 ELSE tree[selected].state \notin Range(combo.states)

\* With nothing under way for the current item and no one else at work, the
\* form shows the entries as the service has them: every change of a state is
\* followed by a reading of its own.  Readings on two connections may cross,
\* and then the form is left with the older one until another comes.
AgreesWithService ==
    (current \in Owned /\ Settled(current) /\ current \notin outdated) => tree = svc[current]

\* A refresh of the settled form with the same entries keeps the selection,
\* which is found again by name, unless that is a media entry and a build was
\* selected before it: then it selects that build.
RefreshSelects ==
    (current \in Owned /\ Settled(current) /\ selected \in DOMAIN tree) =>
      Reselected(tree) = IF Build(selected) \/ config_current_build = NoEntry
                           THEN selected ELSE config_current_build
=============================================================================
