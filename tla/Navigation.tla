----------------------------- MODULE Navigation -----------------------------
(***************************************************************************)
(* The pages of the store window (store_main_window.cpp) and the history   *)
(* behind the Back button: a stack of closures, each of which shows a page *)
(* again.  A closure carries what it captured when the page was opened and *)
(* reads the rest - the current item, the item's data - when it runs.      *)
(*                                                                         *)
(* Of the item page (ItemPage) only what pictures depend on is kept: the   *)
(* item shown, its build, the data of the build, the row of thumbnails.    *)
(***************************************************************************)
EXTENDS Integers, Sequences, FiniteSets, SequencesExt

CONSTANTS
    Items,         \* rows of the list
    Owned,         \* those with the flag Owned
    Builds,        \* what build_id_ may be
    Latest,        \* the first entry of comboBox: the latest build available
    Media,         \* the number of pictures of each build of each item
    MaxHistory,    \* entries in the history when the user opens a page (bounds a run)
    LateData,      \* data may come when its item is not shown any more
    LoadsFail      \* a picture's file may be gone

None == "none"

ASSUME NavigationAssumption ==
    /\ Owned \subseteq Items /\ None \notin Items
    /\ \A i \in Items, b \in Builds : Media[i][b] \in Nat
    /\ Latest \in Builds /\ MaxHistory \in Nat
    /\ {LateData, LoadsFail} \subseteq BOOLEAN

VARIABLES
    history,       \* history_, bottom first
    page,          \* the widget showWidget has shown last
    current,       \* current_item_
    picture,       \* the picture in imageWidget: its item and number
    build,         \* build_id_ of each item
    data,          \* data_ptr_: the build it is of, or None
    thumbs,        \* media_list_widget: the pictures that can be clicked
    fetching,      \* data asked for: item and build
    changed,       \* history: items whose build has changed
    crashed        \* a closure has read data that is not there

pageVars == <<page, current, picture, thumbs>>
itemVars == <<build, data, fetching, changed>>
vars == <<history, pageVars, itemVars, crashed>>

\* An entry of the history: the widget it is known by, and its closure as
\* the page it shows with the item and picture captured.
Entry(widget, p, i, n) == [widget |-> widget, page |-> p, item |-> i, number |-> n]
HomeEntry      == Entry("list", "list", None, 0)
AboutEntry     == Entry("about", "about", None, 0)
ItemEntry(i)   == Entry(None, "item", i, 0)
ConfigureEntry == Entry(None, "configure", None, 0)
ImageEntry(i, n) == Entry(None, "image", i, n)

NoThumbs == 0 .. -1

Init ==
    /\ history = <<HomeEntry>>
    /\ page = "list" /\ current = None /\ picture = <<None, 0>>
    /\ build \in [Items -> Builds]
    /\ data = [i \in Items |-> None]
    /\ thumbs = NoThumbs
    /\ fetching = {} /\ changed = {}
    /\ crashed = FALSE

-----------------------------------------------------------------------------
(* The history.                                                            *)

\* Mutant of HistoryPush: entries without a widget replace each other.
HistoryPushMerging(e) ==
    IF Last(history).widget # e.widget
      THEN Append(history, e) ELSE Append(Front(history), e)

\* historyPush: pushing the widget on top again replaces its closure.
HistoryPush(e) ==
    IF e.widget = None \/ Last(history).widget # e.widget
      THEN Append(history, e) ELSE Append(Front(history), e)

\* showItem, of an item that is not the current one: its thumbnails come
\* with its entries and data.
RunItem(i) ==
    /\ page' = "item" /\ current' = i
    /\ thumbs' = IF current = i THEN thumbs ELSE NoThumbs
    /\ UNCHANGED <<picture, crashed>>

\* The picture's closure: the data of the item it captured is read now.
\* A file that cannot be loaded leaves the page as it is.
RunImage(e) ==
    LET i == e.item
        found == data[i] # None /\ e.number < Media[i][data[i]]
    IN  /\ crashed' = ~found
        /\ \/ /\ found
              /\ page' = "image" /\ picture' = <<i, e.number>>
           \/ /\ LoadsFail \/ ~found
              /\ UNCHANGED <<page, picture>>
        /\ UNCHANGED <<current, thumbs>>

\* The closure of entry e.
Run(e) ==
    CASE e.page = "item"  -> RunItem(e.item)
      [] e.page = "image" -> RunImage(e)
      [] OTHER -> page' = e.page /\ UNCHANGED <<current, picture, thumbs, crashed>>

\* The history of a program that has ended is of no interest.
Keep(h) == history' = IF crashed' THEN history ELSE h

Open(e) ==
    /\ Len(history) < MaxHistory
    /\ Run(e)
    /\ Keep(HistoryPush(e))
    /\ UNCHANGED itemVars

-----------------------------------------------------------------------------
(* The build.                                                              *)

\* showMediaThumbnails of item i with the data of build b.
Thumbs(i, b) == 0 .. Media[i][b] - 1

\* Mutant of BuildChanged: the data is dropped whether or not the build has
\* changed.
BuildChangedAnew(b) ==
    LET new == b # build[current]
    IN  /\ build' = [build EXCEPT ![current] = b]
        /\ data' = [data EXCEPT ![current] = None]
        /\ changed' = IF new THEN changed \cup {current} ELSE changed
        /\ fetching' = fetching \cup {<<current, b>>}
        /\ UNCHANGED <<history, pageVars, crashed>>

\* buildChangedSlot for the current item, with the entry of build b: the
\* data of another build is dropped, and the thumbnails stay until the data
\* asked for comes; with the data at hand they are shown.
BuildChanged(b) ==
    LET new == b # build[current]
    IN  /\ build' = [build EXCEPT ![current] = b]
        /\ data' = IF new THEN [data EXCEPT ![current] = None] ELSE data
        /\ changed' = IF new THEN changed \cup {current} ELSE changed
        /\ IF new \/ data[current] = None
             THEN fetching' = fetching \cup {<<current, b>>} /\ UNCHANGED thumbs
             ELSE thumbs' = Thumbs(current, data[current]) /\ UNCHANGED fetching
        /\ UNCHANGED <<history, page, current, picture, crashed>>

-----------------------------------------------------------------------------
(* The user.                                                               *)

GoHome  == Open(HomeEntry)
GoAbout == Open(AboutEntry)

\* onItemDoubleClicked
OpenItem == page = "list" /\ \E i \in Items : Open(ItemEntry(i))

\* onConfigureButtonClicked, which the page of an owned item has.
OpenConfigure == page = "item" /\ current \in Owned /\ Open(ConfigureEntry)

\* imageDoubleClicked
OpenImage == page = "item" /\ \E n \in thumbs : Open(ImageEntry(current, n))

\* Mutant of GoBack: the last entry is popped too.
GoBackPopsLast ==
    /\ LET left == Front(history)
       IN  IF left = <<>> THEN history' = left /\ UNCHANGED <<pageVars, crashed>>
                          ELSE Run(Last(left)) /\ Keep(left)
    /\ UNCHANGED itemVars

\* goBackSlot
GoBack ==
    /\ LET left == IF Len(history) > 1 THEN Front(history) ELSE history
       IN  Run(Last(left)) /\ Keep(left)
    /\ UNCHANGED itemVars

\* The user chooses another entry of comboBox.
ChooseBuild == page = "item" /\ \E b \in Builds : BuildChanged(b)

-----------------------------------------------------------------------------
(* Answers.                                                                *)

\* itemEntriesSlot of the current item: comboBox is filled anew and put on
\* its build, or on the latest if the build is not listed any more.
EntriesShown ==
    /\ current # None
    /\ \E b \in {build[current], Latest} : BuildChanged(b)

\* itemAcquireSlot of the current item, whatever page is shown: comboBox goes
\* back to its first entry.
AcquireAnswered == current # None /\ BuildChanged(Latest)

\* itemDataSlot: the thumbnails are replaced whatever item is shown.
DataShown ==
    /\ \E f \in fetching :
         /\ LateData \/ f[1] = current
         /\ fetching' = fetching \ {f}
         /\ data' = [data EXCEPT ![f[1]] = f[2]]
         /\ thumbs' = Thumbs(f[1], f[2])
    /\ UNCHANGED <<history, page, current, picture, build, changed, crashed>>

-----------------------------------------------------------------------------
User == GoHome \/ GoAbout \/ OpenItem \/ OpenConfigure \/ OpenImage \/ GoBack \/ ChooseBuild

Next == ~crashed /\ (User \/ EntriesShown \/ AcquireAnswered \/ DataShown)

Spec == Init /\ [][Next]_vars

-----------------------------------------------------------------------------
(* Properties.                                                             *)

TypeOK ==
    /\ Len(history) \in 1 .. MaxHistory + 1
    /\ history[1] = HomeEntry
    /\ \A k \in DOMAIN history : history[k].page \in {"list", "about", "item", "configure", "image"}
    /\ current \in Items \cup {None}
    /\ (page \in {"item", "configure"}) => current # None
    /\ picture \in (Items \cup {None}) \X Nat
    /\ data \in [Items -> Builds \cup {None}]
    /\ fetching \subseteq Items \X Builds /\ changed \subseteq Items

\* A picture in the history can be shown again: the item it was opened from,
\* if its build has never changed - because the user chose another, an answer
\* about acquiring it came, or the build went to the trash - still has the
\* data its closure reads, with as many pictures, wherever the user has gone
\* since and whatever was asked for again.
PicturesHaveData ==
    \A k \in DOMAIN history :
      LET e == history[k]
      IN  (e.page = "image" /\ e.item \notin changed) =>
                              /\ data[e.item] # None
                              /\ e.number < Media[e.item][data[e.item]]

\* What is shown, and what an entry shows.  The form is shown for whatever
\* item is current: its closure captures none.
View(p, i, n) == <<p, i, n>>
Shown == CASE page = "item"  -> View(page, current, 0)
           [] page = "image" -> View(page, picture[1], picture[2])
           [] OTHER          -> View(page, None, 0)
ViewOf(e) == View(e.page, e.item, e.number)
Views == {"list", "about", "configure", "item", "image"} \X (Items \cup {None}) \X Nat

\* The pages behave like a browser: Back returns to what was shown before,
\* whatever was opened, fetched or chosen in between, if the files of the
\* pictures are there.
B == INSTANCE Browser WITH
       Home  <- View("list", None, 0),
       Views <- Views,
       trail <- [k \in DOMAIN history |-> IF k = Len(history) THEN Shown
                                          ELSE ViewOf(history[k])]
ImplementsBrowser == B!Spec
=============================================================================
