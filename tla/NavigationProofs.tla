-------------------------- MODULE NavigationProofs --------------------------
(***************************************************************************)
(* Proofs about Navigation, for any items, builds, pictures and length of  *)
(* the history, with data that comes late and files that are gone.         *)
(*                                                                         *)
(* Why a picture in the history can be shown again: its entry is pushed    *)
(* only when it has been found, and while the build of the item does not   *)
(* change, whatever data is under way for it is of that build, so that the *)
(* data found then is never dropped or replaced by other data.             *)
(***************************************************************************)
EXTENDS Navigation, SequenceTheorems, TLAPS

Pages == {"list", "about", "item", "configure", "image"}
HistoryEntry == {HomeEntry, AboutEntry, ConfigureEntry}
                  \cup {ItemEntry(i) : i \in Items}
                  \cup {ImageEntry(i, n) : i \in Items, n \in Nat}

\* The configure form has a current item to show.
HasItem(e) == (e.page = "configure") => current \in Items

\* A picture that can be shown.
Found(e) == /\ data[e.item] # None
            /\ e.number < Media[e.item][data[e.item]]
Shows(e) == (e.page = "image" /\ e.item \notin changed) => Found(e)

\* The data that is there or under way for an item is of its build.
OneBuild ==
    \A i \in Items \ changed :
      /\ data[i] \in {None, build[i]}
      /\ \A b \in Builds : <<i, b>> \in fetching => b = build[i]

HistoryOK == /\ history \in Seq(HistoryEntry) /\ Len(history) >= 1
             /\ Len(history) <= MaxHistory + 1
             /\ history[1] = HomeEntry
             /\ \A k \in 1 .. Len(history) : HasItem(history[k])

Types ==
    /\ page \in Pages /\ current \in Items \cup {None}
    /\ (page \in {"item", "configure"}) => current \in Items
    /\ picture \in (Items \cup {None}) \X Nat
    /\ build \in [Items -> Builds] /\ data \in [Items -> Builds \cup {None}]
    /\ thumbs \subseteq Nat /\ fetching \subseteq Items \X Builds /\ changed \subseteq Items

IInv == /\ Types /\ HistoryOK /\ OneBuild
        /\ \A k \in 1 .. Len(history) : Shows(history[k])

-----------------------------------------------------------------------------
(* The history.                                                            *)

\* The entries by their pages, and by their widgets.
LEMMA EntryShape ==
    ASSUME NEW e \in HistoryEntry
    PROVE  /\ e.page \in Pages /\ e.item \in Items \cup {None} /\ e.number \in Nat
           /\ (e.page \in {"item", "image"}) => e.item \in Items
           /\ (e.page = "item") => e.number = 0
           /\ (e.page \notin {"item", "image"}) => e.item = None /\ e.number = 0
           /\ (e.page = "list" \/ e.widget = "list") => e = HomeEntry
           /\ (e.page = "about" \/ e.widget = "about") => e = AboutEntry
           /\ e.widget \in {"list", "about", None}
<1> USE DEF Entry, HomeEntry, AboutEntry, ConfigureEntry, ItemEntry, ImageEntry, Pages, None
<1>1. CASE e \in {HomeEntry, AboutEntry, ConfigureEntry}
  BY <1>1
<1>2. ASSUME NEW i \in Items, e = ItemEntry(i)
      PROVE  e.page = "item" /\ e.item \in Items /\ e.number = 0 /\ e.widget = None
  BY <1>2
<1>3. ASSUME NEW i \in Items, NEW n \in Nat, e = ImageEntry(i, n)
      PROVE  e.page = "image" /\ e.item \in Items /\ e.number \in Nat /\ e.widget = None
  BY <1>3
<1> QED
  BY <1>1, <1>2, <1>3 DEF HistoryEntry

\* Without the last entry the others stay as they are.
LEMMA FrontProperties ==
    ASSUME HistoryOK, Len(history) > 1
    PROVE  /\ Front(history) \in Seq(HistoryEntry)
           /\ Len(Front(history)) = Len(history) - 1
           /\ \A k \in 1 .. Len(history) - 1 : Front(history)[k] = history[k]
<1>1. /\ Len(history) \in Nat
      /\ \A k \in 1 .. Len(history) - 1 : history[k] \in HistoryEntry
  BY LenProperties DEF HistoryOK
<1>2. Front(history) = SubSeq(history, 1, Len(history) - 1)
  BY DEF Front
<1> QED
  BY <1>1, <1>2, SubSeqProperties

\* What a push leaves in the history: the entry and what was there.
LEMMA PushProperties ==
    ASSUME HistoryOK, NEW e \in HistoryEntry, HasItem(e),
           Len(history) < MaxHistory, MaxHistory \in Nat
    PROVE  LET h == HistoryPush(e)
           IN  /\ h \in Seq(HistoryEntry) /\ Len(h) \in 1 .. MaxHistory
               /\ h[1] = HomeEntry
               /\ \A k \in 1 .. Len(h) : h[k] = e \/ \E j \in 1 .. Len(history) : h[k] = history[j]
<1> DEFINE h == HistoryPush(e)
<1>1. Len(history) \in Nat /\ Len(history) >= 1
  BY LenProperties DEF HistoryOK
<1>2. CASE h = Append(history, e)
  <2> HIDE DEF h
  <2>1. /\ h \in Seq(HistoryEntry) /\ Len(h) = Len(history) + 1
        /\ h[Len(history) + 1] = e
        /\ \A k \in 1 .. Len(history) : h[k] = history[k]
    BY <1>2, AppendProperties DEF HistoryOK
  <2> QED
    BY <1>1, <2>1 DEF HistoryOK, h
<1>3. CASE Last(history).widget = e.widget /\ e.widget # None /\ h = Append(Front(history), e)
  <2>1. Last(history) = history[Len(history)]
    BY DEF Last
  <2>2. CASE Len(history) = 1
    <3>1. e = HomeEntry
      BY <1>3, <2>1, <2>2, EntryShape DEF HistoryOK, HomeEntry, Entry
    <3>2. Front(history) = <<>>
      BY <2>2, SubSeqEmpty DEF Front
    <3>3. h = <<e>>
      BY <1>3, <3>2
    <3>4. h \in Seq(HistoryEntry) /\ Len(h) = 1 /\ h[1] = e
      <4> HIDE DEF h
      <4> QED
        BY <1>3, <3>2, EmptySeq, AppendProperties DEF h
    <3> HIDE DEF h
    <3> QED
      BY <1>1, <2>2, <3>1, <3>4 DEF h
  <2>3. CASE Len(history) > 1
    <3>1. /\ Front(history) \in Seq(HistoryEntry)
          /\ Len(Front(history)) = Len(history) - 1
          /\ \A k \in 1 .. Len(history) - 1 : Front(history)[k] = history[k]
      BY <2>3, FrontProperties
    <3> HIDE DEF h
    <3>2. /\ h \in Seq(HistoryEntry) /\ Len(h) = Len(history)
          /\ h[Len(history)] = e
          /\ \A k \in 1 .. Len(history) - 1 : h[k] = history[k]
      BY <1>1, <1>3, <3>1, AppendProperties DEF h
    <3> QED
      BY <1>1, <2>3, <3>2 DEF HistoryOK, h
  <2>4. Len(history) = 1 \/ Len(history) > 1
    <3>1. \A n \in Nat : n >= 1 => n = 1 \/ n > 1
      OBVIOUS
    <3> QED
      BY <1>1, <3>1
  <2> QED
    BY <2>2, <2>3, <2>4
<1> QED
  BY <1>2, <1>3 DEF HistoryPush

-----------------------------------------------------------------------------
(* The steps.                                                              *)

\* Running a closure keeps the types of what is shown.
LEMMA RunTypes ==
    ASSUME Types, NEW e \in HistoryEntry, HasItem(e), Run(e)
    PROVE  /\ page' \in Pages /\ current' \in Items \cup {None}
           /\ (page' \in {"item", "configure"}) => current' \in Items
           /\ current \in Items => current' \in Items
           /\ picture' \in (Items \cup {None}) \X Nat /\ thumbs' \subseteq Nat
<1>1. CASE e.page = "item"
  BY <1>1, EntryShape DEF Run, RunItem, Types, NoThumbs, Pages
<1>2. CASE e.page = "image"
  BY <1>2, EntryShape DEF Run, RunImage, Types, Pages
<1>3. CASE e.page \notin {"item", "image"}
  BY <1>3, EntryShape DEF Run, Types, HasItem, Pages
<1> QED
  BY <1>1, <1>2, <1>3

\* A closure that has run to its end has found its picture.
LEMMA RunFinds ==
    ASSUME NEW e \in HistoryEntry, Run(e), ~crashed', e.page = "image"
    PROVE  Found(e)
BY DEF Run, RunImage, Found

\* Opening a page: its entry is pushed, when it could be shown.
LEMMA OpenStep ==
    ASSUME IInv, ~crashed, NEW e \in HistoryEntry, HasItem(e), Open(e)
    PROVE  IInv'
<1>1. Run(e) /\ Keep(HistoryPush(e)) /\ UNCHANGED <<build, data, fetching, changed>>
  BY DEF Open, itemVars
<1>2. Types' /\ (current \in Items => current' \in Items)
  BY <1>1, RunTypes DEF Types, IInv
<1>3. OneBuild'
  BY <1>1 DEF OneBuild, IInv
<1>4. CASE history' = history
  BY <1>1, <1>2, <1>3, <1>4 DEF IInv, HistoryOK, HasItem, Shows, Found
<1>5. CASE ~crashed' /\ history' = HistoryPush(e)
  <2>1. /\ history' \in Seq(HistoryEntry) /\ Len(history') \in 1 .. MaxHistory
        /\ history'[1] = HomeEntry
        /\ \A k \in 1 .. Len(history') :
             history'[k] = e \/ \E j \in 1 .. Len(history) : history'[k] = history[j]
    BY <1>5, PushProperties, NavigationAssumption DEF IInv, Open
  <2>2. Shows(e)
    BY <1>1, <1>5, RunFinds DEF Shows
  <2>3. \A k \in 1 .. Len(history') :
          HasItem(history'[k]) /\ Shows(history'[k])
    BY <2>1, <2>2 DEF IInv, HistoryOK
  <2>4. HistoryOK'
    <3>1. (\A k \in 1 .. Len(history) : HasItem(history[k]))'
      BY <1>2, <2>3 DEF HasItem
    <3> QED
      BY <2>1, <3>1, NavigationAssumption DEF HistoryOK
  <2>5. (\A k \in 1 .. Len(history) : Shows(history[k]))'
    BY <1>1, <2>3 DEF Shows, Found
  <2> QED
    BY <1>2, <1>3, <2>4, <2>5 DEF IInv
<1> QED
  BY <1>1, <1>4, <1>5 DEF Keep

\* Back.
LEMMA BackStep ==
    ASSUME IInv, ~crashed, GoBack
    PROVE  IInv'
<1> DEFINE left == IF Len(history) > 1 THEN Front(history) ELSE history
<1>1. /\ left \in Seq(HistoryEntry) /\ Len(left) \in 1 .. Len(history)
      /\ \A k \in 1 .. Len(left) : left[k] = history[k]
      /\ Len(history) \in Nat
  BY FrontProperties, LenProperties DEF IInv, HistoryOK
<1>2. Run(Last(left)) /\ Keep(left) /\ UNCHANGED <<build, data, fetching, changed>>
  BY DEF GoBack, itemVars
<1> HIDE DEF left
<1>3. \E k \in 1 .. Len(history) : Last(left) = history[k]
  BY <1>1 DEF Last
<1>4. Last(left) \in HistoryEntry /\ HasItem(Last(left))
  BY <1>3, LenProperties DEF IInv, HistoryOK
<1>5. Types' /\ (current \in Items => current' \in Items)
  BY <1>2, <1>4, RunTypes DEF Types, IInv
<1>6. OneBuild'
  BY <1>2 DEF OneBuild, IInv
<1>7. /\ history' \in Seq(HistoryEntry) /\ Len(history') \in 1 .. Len(history)
      /\ \A k \in 1 .. Len(history') : history'[k] = history[k]
  BY <1>1, <1>2 DEF Keep, IInv, HistoryOK
<1>8. HistoryOK'
  <2>1. (\A k \in 1 .. Len(history) : HasItem(history[k]))'
    BY <1>1, <1>5, <1>7 DEF HasItem, IInv, HistoryOK
  <2> QED
    BY <1>1, <1>7, <2>1, NavigationAssumption DEF IInv, HistoryOK
<1>9. (\A k \in 1 .. Len(history) : Shows(history[k]))'
  BY <1>1, <1>2, <1>7 DEF Shows, Found, IInv
<1> QED
  BY <1>5, <1>6, <1>8, <1>9 DEF IInv

\* The combo box is put on the entry of a build: that of another build means
\* that the item's pictures are promised no more.
LEMMA BuildStep ==
    ASSUME IInv, current \in Items, NEW b \in Builds, BuildChanged(b)
    PROVE  IInv' /\ UNCHANGED <<history, page, current, picture>>
<1>1. UNCHANGED <<history, page, current, picture>>
  BY DEF BuildChanged, pageVars
<1>2. thumbs' \subseteq Nat
  <2>1. data[current] # None => Media[current][data[current]] \in Nat
    BY NavigationAssumption DEF IInv, Types
  <2>2. \A m \in Nat : 0 .. m - 1 \subseteq Nat
    OBVIOUS
  <2>3. data[current] # None => Thumbs(current, data[current]) \subseteq Nat
    BY <2>1, <2>2 DEF Thumbs
  <2> QED
    BY <2>3 DEF BuildChanged, IInv, Types
<1>3. /\ build' = [build EXCEPT ![current] = b]
      /\ fetching' \in {fetching, fetching \cup {<<current, b>>}}
      /\ IF b # build[current]
           THEN data' = [data EXCEPT ![current] = None] /\ changed' = changed \cup {current}
           ELSE data' = data /\ changed' = changed
  BY DEF BuildChanged
<1>4. Types'
  BY <1>1, <1>2, <1>3 DEF IInv, Types
<1>5. OneBuild'
  BY <1>3 DEF IInv, OneBuild, Types
<1>6. HistoryOK'
  BY <1>1 DEF IInv, HistoryOK, HasItem
<1>7. \A i \in Items \ changed' : i \notin changed /\ data'[i] = data[i]
  BY <1>3 DEF IInv, Types
<1>8. \A k \in 1 .. Len(history) : history[k].page = "image" => history[k].item \in Items
  <2>1. \A k \in 1 .. Len(history) : history[k] \in HistoryEntry
    BY LenProperties DEF IInv, HistoryOK
  <2> QED
    BY <2>1, EntryShape
<1>9. (\A k \in 1 .. Len(history) : Shows(history[k]))'
  BY <1>1, <1>7, <1>8 DEF IInv, Shows, Found
<1> QED
  BY <1>1, <1>4, <1>5, <1>6, <1>9 DEF IInv

\* The user chooses a build, or an answer puts the combo box on one.
LEMMA ComboStep ==
    ASSUME IInv, ChooseBuild \/ EntriesShown \/ AcquireAnswered
    PROVE  IInv' /\ UNCHANGED <<history, page, current, picture>>
<1>1. current \in Items
  BY DEF ChooseBuild, EntriesShown, AcquireAnswered, IInv, Types
<1>2. \E b \in Builds : BuildChanged(b)
  BY <1>1, NavigationAssumption DEF ChooseBuild, EntriesShown, AcquireAnswered, IInv, Types
<1> QED
  BY <1>1, <1>2, BuildStep

\* Data comes.  While its build does not change, the data of an item is
\* replaced only by data of the same build.
LEMMA DataStep ==
    ASSUME IInv, DataShown
    PROVE  IInv'
<1>1. PICK f \in fetching :
         /\ fetching' = fetching \ {f}
         /\ data' = [data EXCEPT ![f[1]] = f[2]]
         /\ thumbs' = Thumbs(f[1], f[2])
  BY DEF DataShown
<1>2. UNCHANGED <<history, page, current, picture, build, changed>>
  BY DEF DataShown
<1>3. f = <<f[1], f[2]>> /\ f[1] \in Items /\ f[2] \in Builds
  BY DEF IInv, Types
<1>4. Types'
  BY <1>1, <1>2, <1>3 DEF IInv, Types, Thumbs
<1>5. f[1] \notin changed => f[2] = build[f[1]]
  BY <1>3 DEF IInv, OneBuild
<1>6. OneBuild'
  BY <1>1, <1>2, <1>3, <1>5 DEF IInv, OneBuild, Types
<1>7. \A i \in Items \ changed : data[i] # None => data'[i] = data[i]
  BY <1>1, <1>3, <1>5 DEF IInv, OneBuild, Types
<1>8. \A k \in 1 .. Len(history) : history[k] \in HistoryEntry
  BY LenProperties DEF IInv, HistoryOK
<1>9. \A k \in 1 .. Len(history) : history[k].page = "image" => history[k].item \in Items
  BY <1>8, EntryShape
<1>10. (\A k \in 1 .. Len(history) : Shows(history[k]))'
  BY <1>2, <1>7, <1>9 DEF IInv, Shows, Found
<1> QED
  BY <1>2, <1>4, <1>6, <1>10 DEF IInv, HistoryOK, HasItem

-----------------------------------------------------------------------------
(* The theorems.                                                           *)

LEMMA InitIInv == Init => IInv
<1> SUFFICES ASSUME Init PROVE IInv
  OBVIOUS
<1>1. HomeEntry \in HistoryEntry
  BY DEF HomeEntry, Entry, HistoryEntry, Pages
<1>2. history \in Seq(HistoryEntry) /\ Len(history) = 1 /\ history[1] = HomeEntry
  BY <1>1 DEF Init
<1>3. HistoryOK
  BY <1>2, NavigationAssumption DEF HistoryOK, HasItem, HomeEntry, Entry
<1>4. \A k \in 1 .. Len(history) : Shows(history[k])
  BY <1>2 DEF Shows, HomeEntry, Entry
<1>5. Types /\ OneBuild
  BY DEF Init, Types, OneBuild, Pages, NoThumbs
<1> QED
  BY <1>3, <1>4, <1>5 DEF IInv

\* Opening any page.
LEMMA UserStep ==
    ASSUME IInv, ~crashed, User
    PROVE  IInv'
<1> USE DEF HistoryEntry, HasItem, Entry
<1>1. CASE GoHome
  <2>1. HomeEntry \in HistoryEntry /\ HasItem(HomeEntry)
    BY DEF HomeEntry
  <2> QED
    BY <1>1, <2>1, OpenStep DEF GoHome
<1>2. CASE GoAbout
  <2>1. AboutEntry \in HistoryEntry /\ HasItem(AboutEntry)
    BY DEF AboutEntry
  <2> QED
    BY <1>2, <2>1, OpenStep DEF GoAbout
<1>3. CASE OpenItem
  <2>1. PICK i \in Items : Open(ItemEntry(i))
    BY <1>3 DEF OpenItem
  <2>2. ItemEntry(i) \in HistoryEntry /\ HasItem(ItemEntry(i))
    BY DEF ItemEntry, None
  <2> QED
    BY <2>1, <2>2, OpenStep
<1>4. CASE OpenConfigure
  <2>1. current \in Items /\ Open(ConfigureEntry)
    BY <1>4 DEF OpenConfigure, IInv, Types
  <2>2. ConfigureEntry \in HistoryEntry /\ HasItem(ConfigureEntry)
    BY <2>1 DEF ConfigureEntry, None
  <2> QED
    BY <2>1, <2>2, OpenStep
<1>5. CASE OpenImage
  <2>1. PICK n \in thumbs : Open(ImageEntry(current, n))
    BY <1>5 DEF OpenImage
  <2>2. current \in Items /\ n \in Nat
    BY <1>5 DEF OpenImage, IInv, Types
  <2>3. /\ ImageEntry(current, n) \in HistoryEntry
        /\ HasItem(ImageEntry(current, n))
    BY <2>2 DEF ImageEntry, None
  <2> QED
    BY <2>1, <2>3, OpenStep
<1> QED
  BY <1>1, <1>2, <1>3, <1>4, <1>5, BackStep, ComboStep DEF User

LEMMA StepIInv == IInv /\ [Next]_vars => IInv'
<1> SUFFICES ASSUME IInv, [Next]_vars PROVE IInv'
  OBVIOUS
<1>1. CASE Next
  BY <1>1, UserStep, ComboStep, DataStep DEF Next
<1>2. CASE UNCHANGED vars
  BY <1>2 DEF vars, pageVars, itemVars, IInv, Types, HistoryOK, HasItem,
              OneBuild, Shows, Found
<1> QED
  BY <1>1, <1>2

LEMMA Invariance == Spec => []IInv
<1> QED
  BY InitIInv, StepIInv, PTL DEF Spec

\* Type correctness: in particular the history is never empty and always
\* has the home page at its bottom, so that Back always leads somewhere.
THEOREM NavigationTypes == Spec => []TypeOK
<1>1. IInv => TypeOK
  <2> SUFFICES ASSUME IInv PROVE TypeOK
    OBVIOUS
  <2>1. /\ Len(history) \in Nat /\ DOMAIN history = 1 .. Len(history)
        /\ \A k \in 1 .. Len(history) : history[k] \in HistoryEntry
    BY LenProperties DEF IInv, HistoryOK
  <2>2. \A k \in DOMAIN history : history[k].page \in Pages
    BY <2>1, EntryShape
  <2> QED
    BY <2>1, <2>2, NavigationAssumption DEF IInv, HistoryOK, Types, Pages, TypeOK, None
<1> QED
  BY <1>1, Invariance, PTL

\* Wherever the user has gone and whatever has come since, the data that the
\* closure of a picture in the history reads is there, for every item whose
\* build has not changed: neither by the user, nor by an answer about
\* acquiring the item, nor because it was not listed any more.
THEOREM PicturesCanBeShown == Spec => []PicturesHaveData
<1>1. IInv => PicturesHaveData
  <2> SUFFICES ASSUME IInv PROVE PicturesHaveData
    OBVIOUS
  <2>1. DOMAIN history = 1 .. Len(history)
    BY LenProperties DEF IInv, HistoryOK
  <2> QED
    BY <2>1 DEF IInv, Shows, Found, PicturesHaveData
<1> QED
  BY <1>1, Invariance, PTL

-----------------------------------------------------------------------------
(* The pages behave like a browser.                                        *)

\* What is shown is what the last entry of the history shows.
TopShown == Shown = ViewOf(history[Len(history)])

\* A history h as the views gone through, the last one being s.
TrailOf(h, s) == [k \in DOMAIN h |-> IF k = Len(h) THEN s ELSE ViewOf(h[k])]
Trail == TrailOf(history, Shown)

\* It is the history, seen.
LEMMA TrailIsHistory ==
    ASSUME NEW h \in Seq(HistoryEntry), Len(h) >= 1, NEW s, s = ViewOf(h[Len(h)])
    PROVE  /\ TrailOf(h, s) \in Seq(Views) /\ Len(TrailOf(h, s)) = Len(h)
           /\ Len(h) \in Nat
           /\ \A k \in 1 .. Len(h) : TrailOf(h, s)[k] = ViewOf(h[k])
           /\ Last(TrailOf(h, s)) = s
<1> DEFINE t == TrailOf(h, s)
<1>1. /\ Len(h) \in Nat /\ DOMAIN h = 1 .. Len(h)
      /\ \A k \in 1 .. Len(h) : h[k] \in HistoryEntry
  BY LenProperties
<1>2. \A k \in 1 .. Len(h) : t[k] = ViewOf(h[k])
  BY <1>1 DEF TrailOf
<1>3. \A e \in HistoryEntry : ViewOf(e) \in Views
  BY EntryShape DEF ViewOf, View, Views, Pages
<1>4. t = [k \in 1 .. Len(h) |-> t[k]] /\ \A k \in 1 .. Len(h) : t[k] \in Views
  BY <1>1, <1>2, <1>3 DEF TrailOf
<1> HIDE DEF t
<1>5. t \in [1 .. Len(h) -> Views]
  BY <1>4
<1>6. t \in Seq(Views) /\ Len(t) = Len(h)
  BY <1>1, <1>5
<1>7. Last(t) = s
  BY <1>1, <1>2, <1>6 DEF Last
<1> QED
  BY <1>1, <1>2, <1>6, <1>7 DEF t

\* Pushing an entry goes to its view.
LEMMA TrailPushed ==
    ASSUME NEW h \in Seq(HistoryEntry), Len(h) >= 1, NEW s, s = ViewOf(h[Len(h)]),
           NEW e \in HistoryEntry
    PROVE  TrailOf(Append(h, e), ViewOf(e)) = Append(TrailOf(h, s), ViewOf(e))
<1> DEFINE g == Append(h, e)
           t == TrailOf(h, s)
           u == TrailOf(g, ViewOf(e))
<1>1. /\ t \in Seq(Views) /\ Len(t) = Len(h) /\ Len(h) \in Nat
      /\ \A k \in 1 .. Len(h) : t[k] = ViewOf(h[k])
  BY TrailIsHistory
<1>2. /\ g \in Seq(HistoryEntry) /\ Len(g) = Len(h) + 1 /\ g[Len(h) + 1] = e
      /\ \A k \in 1 .. Len(h) : g[k] = h[k]
  BY AppendProperties
<1>3. ViewOf(e) = ViewOf(g[Len(g)]) /\ Len(g) >= 1
  BY <1>1, <1>2
<1> HIDE DEF g
<1>4. /\ u \in Seq(Views) /\ Len(u) = Len(g) /\ \A k \in 1 .. Len(g) : u[k] = ViewOf(g[k])
  BY <1>2, <1>3, TrailIsHistory
<1>5. ViewOf(e) \in Views
  BY EntryShape DEF ViewOf, View, Views, Pages
<1> HIDE DEF t, u
<1> DEFINE v == Append(t, ViewOf(e))
<1>6. /\ v \in Seq(Views) /\ Len(v) = Len(h) + 1 /\ v[Len(h) + 1] = ViewOf(e)
      /\ \A k \in 1 .. Len(h) : v[k] = t[k]
  BY <1>1, <1>5, AppendProperties
<1> HIDE DEF v
<1>7. \A k \in 1 .. Len(u) : u[k] = v[k]
  BY <1>1, <1>2, <1>4, <1>6
<1>8. u = v
  BY <1>2, <1>4, <1>6, <1>7, SeqEqual
<1> QED
  BY <1>8 DEF u, v, t, g

\* Popping one goes back to the view before.
LEMMA TrailPopped ==
    ASSUME NEW h \in Seq(HistoryEntry), Len(h) > 1, NEW s, s = ViewOf(h[Len(h)])
    PROVE  TrailOf(Front(h), ViewOf(Last(Front(h)))) = Front(TrailOf(h, s))
<1> DEFINE g == Front(h)
           t == TrailOf(h, s)
           u == TrailOf(g, ViewOf(Last(g)))
           v == Front(t)
<1>1. /\ t \in Seq(Views) /\ Len(t) = Len(h) /\ Len(h) \in Nat
      /\ \A k \in 1 .. Len(h) : t[k] = ViewOf(h[k])
  BY TrailIsHistory
<1>2. \A k \in 1 .. Len(h) : h[k] \in HistoryEntry
  BY LenProperties
<1>3. /\ g \in Seq(HistoryEntry) /\ Len(g) = Len(h) - 1
      /\ \A k \in 1 .. Len(h) - 1 : g[k] = h[k]
  BY <1>1, <1>2, SubSeqProperties DEF Front
<1> HIDE DEF g
<1>4. /\ u \in Seq(Views) /\ Len(u) = Len(g) /\ \A k \in 1 .. Len(g) : u[k] = ViewOf(g[k])
  BY <1>1, <1>3, TrailIsHistory DEF Last
<1> HIDE DEF t, u
<1>5. \A k \in 1 .. Len(t) : t[k] \in Views
  BY <1>1, LenProperties
<1>6. /\ v \in Seq(Views) /\ Len(v) = Len(h) - 1
      /\ \A k \in 1 .. Len(h) - 1 : v[k] = t[k]
  BY <1>1, <1>5, SubSeqProperties DEF Front
<1> HIDE DEF v
<1>7. \A k \in 1 .. Len(u) : u[k] = v[k]
  BY <1>1, <1>3, <1>4, <1>6
<1>8. u = v
  BY <1>3, <1>4, <1>6, <1>7, SeqEqual
<1> QED
  BY <1>8 DEF u, v, t, g

\* Pushing the last entry again leaves the history as it is.
LEMMA LastPushed ==
    ASSUME NEW h \in Seq(HistoryEntry), Len(h) >= 1
    PROVE  Append(Front(h), Last(h)) = h
<1> DEFINE g == Front(h)
           v == Append(g, Last(h))
<1>1. Len(h) \in Nat /\ \A k \in 1 .. Len(h) : h[k] \in HistoryEntry
  BY LenProperties
<1>2. /\ g \in Seq(HistoryEntry) /\ Len(g) = Len(h) - 1
      /\ \A k \in 1 .. Len(h) - 1 : g[k] = h[k]
  <2>1. \A k \in 1 .. Len(h) - 1 : h[k] \in HistoryEntry
    BY <1>1
  <2>2. Len(h) - 1 \in Int /\ (~(1 <= Len(h) - 1) => Len(h) - 1 = 0)
    <3>1. \A n \in Nat : n >= 1 => n - 1 \in Int /\ (~(1 <= n - 1) => n - 1 = 0)
      OBVIOUS
    <3> QED
      BY <1>1, <3>1
  <2>3. g = SubSeq(h, 1, Len(h) - 1)
    BY DEF Front
  <2> HIDE DEF g
  <2> QED
    BY <1>1, <2>1, <2>2, <2>3, SubSeqProperties
<1>3. Last(h) = h[Len(h)] /\ Last(h) \in HistoryEntry
  BY <1>1 DEF Last
<1> HIDE DEF g
<1>4. /\ v \in Seq(HistoryEntry) /\ Len(v) = Len(h) /\ v[Len(h)] = h[Len(h)]
      /\ \A k \in 1 .. Len(h) - 1 : v[k] = h[k]
  BY <1>1, <1>2, <1>3, AppendProperties
<1> HIDE DEF v
<1>5. \A k \in 1 .. Len(v) : v[k] = h[k]
  BY <1>1, <1>4
<1> QED
  BY <1>4, <1>5, SeqEqual DEF v, g

\* Running a closure shows what its entry shows, if files are there.
LEMMA RunShows ==
    ASSUME ~LoadsFail, NEW e \in HistoryEntry, Run(e), ~crashed'
    PROVE  Shown' = ViewOf(e)
<1>1. CASE e.page = "item"
  BY <1>1, EntryShape DEF Run, RunItem, Shown, ViewOf, View
<1>2. CASE e.page = "image"
  <2>1. Found(e)
    BY <1>2, RunFinds
  <2>2. page' = "image" /\ picture' = <<e.item, e.number>>
    BY <1>2, <2>1 DEF Run, RunImage, Found
  <2> QED
    BY <1>2, <2>2 DEF Shown, ViewOf, View
<1>3. CASE e.page \notin {"item", "image"}
  BY <1>3, EntryShape DEF Run, Shown, ViewOf, View
<1> QED
  BY <1>1, <1>2, <1>3

\* An entry's view is its page's: the list and the about page have one each.
LEMMA OneEntryEach ==
    ASSUME NEW e \in HistoryEntry, NEW f \in HistoryEntry
    PROVE  /\ (e.widget # None /\ e.widget = f.widget) => e = f
           /\ (e.widget # None /\ ViewOf(e) = ViewOf(f)) => e.widget = f.widget
<1>1. e.widget # None => e \in {HomeEntry, AboutEntry} /\ e.page \in {"list", "about"}
  BY EntryShape DEF HomeEntry, AboutEntry, Entry
<1>2. (e.widget # None /\ e.widget = f.widget) => e = f
  BY EntryShape
<1>3. (e.widget # None /\ ViewOf(e) = ViewOf(f)) => e.widget = f.widget
  <2>1. ViewOf(e) = ViewOf(f) => e.page = f.page
    BY DEF ViewOf, View
  <2> QED
    BY <1>1, <2>1, EntryShape DEF HomeEntry, AboutEntry, Entry
<1> QED
  BY <1>2, <1>3

\* A closure that finds no data ends the program and shows nothing.
LEMMA CrashShowsNothing ==
    ASSUME ~crashed, NEW e \in HistoryEntry, Run(e), crashed'
    PROVE  Shown' = Shown
<1>1. CASE e.page = "image"
  <2>1. UNCHANGED <<page, current, picture>>
    BY <1>1 DEF Run, RunImage
  <2> QED
    BY <2>1 DEF Shown
<1>2. CASE e.page # "image"
  BY <1>2 DEF Run, RunItem
<1> QED
  BY <1>1, <1>2

\* Opening a page goes to it, or stays on the one that is shown.
LEMMA OpenIsOpen ==
    ASSUME ~LoadsFail, IInv, ~crashed, TopShown, NEW e \in HistoryEntry, Open(e),
           e.widget = None => ViewOf(e) # Shown
    PROVE  TopShown' /\ (B!Open \/ Trail' = Trail)
<1>1. Run(e) /\ Keep(HistoryPush(e))
  BY DEF Open
<1>2. history \in Seq(HistoryEntry) /\ Len(history) >= 1 /\ Len(history) \in Nat
  BY LenProperties DEF IInv, HistoryOK
<1>3. Last(history) = history[Len(history)] /\ Last(history) \in HistoryEntry
  BY <1>2, LenProperties DEF Last
<1>4. CASE crashed'
  <2>1. history' = history /\ Shown' = Shown
    BY <1>1, <1>4, CrashShowsNothing DEF Keep
  <2> QED
    BY <2>1 DEF TopShown, Trail
<1>5. CASE ~crashed' /\ (e.widget = None \/ Last(history).widget # e.widget)
  <2>1. history' = Append(history, e) /\ Shown' = ViewOf(e)
    BY <1>1, <1>5, RunShows DEF Keep, HistoryPush
  <2>2. Len(history') = Len(history) + 1 /\ history'[Len(history')] = e
    BY <1>2, <2>1, AppendProperties
  <2>3. TopShown'
    BY <2>1, <2>2 DEF TopShown
  <2>4. Trail' = Append(Trail, Shown')
    BY <1>2, <2>1, TrailPushed DEF Trail, TopShown
  <2>5. Trail \in Seq(Views) /\ Last(Trail) = Shown
    BY <1>2, TrailIsHistory DEF Trail, TopShown
  <2>6. Shown' \in Views /\ Shown' # Shown
    <3>1. ViewOf(e) \in Views
      BY EntryShape DEF ViewOf, View, Views, Pages
    <3>2. ViewOf(e) # Shown
      BY <1>3, <1>5, OneEntryEach DEF TopShown
    <3> QED
      BY <2>1, <3>1, <3>2
  <2>7. Last(Trail') = Shown'
    BY <2>4, <2>5, <2>6, AppendProperties DEF Last
  <2>8. B!Open
    BY <2>4, <2>5, <2>6, <2>7 DEF B!Open, B!Last, Last, Trail, TrailOf
  <2> QED
    BY <2>3, <2>8
<1>6. CASE ~crashed' /\ e.widget # None /\ Last(history).widget = e.widget
  <2>1. e = Last(history)
    BY <1>3, <1>6, OneEntryEach
  <2>2. history' = history
    BY <1>1, <1>2, <1>6, <2>1, LastPushed DEF Keep, HistoryPush
  <2>3. Shown' = Shown
    BY <1>1, <1>3, <1>6, <2>1, RunShows DEF TopShown
  <2> QED
    BY <2>2, <2>3 DEF TopShown, Trail
<1> QED
  BY <1>4, <1>5, <1>6

\* Back goes back, except from the home page.
LEMMA BackIsBack ==
    ASSUME ~LoadsFail, IInv, ~crashed, TopShown, GoBack
    PROVE  TopShown' /\ (B!Back \/ Trail' = Trail)
<1> DEFINE left == IF Len(history) > 1 THEN Front(history) ELSE history
<1>1. Run(Last(left)) /\ Keep(left)
  BY DEF GoBack
<1>2. history \in Seq(HistoryEntry) /\ Len(history) >= 1 /\ Len(history) \in Nat
  BY LenProperties DEF IInv, HistoryOK
<1>3. left \in Seq(HistoryEntry) /\ Len(left) >= 1 /\ Len(left) \in Nat
  BY <1>2, FrontProperties DEF IInv
<1>4. Last(left) = left[Len(left)] /\ Last(left) \in HistoryEntry
  BY <1>3, LenProperties DEF Last
<1>5. CASE crashed'
  <2>1. history' = history /\ Shown' = Shown
    BY <1>1, <1>4, <1>5, CrashShowsNothing DEF Keep
  <2> QED
    BY <2>1 DEF TopShown, Trail
<1>6. CASE ~crashed'
  <2>1. history' = left /\ Shown' = ViewOf(Last(left))
    BY <1>1, <1>4, <1>6, RunShows DEF Keep
  <2>2. TopShown'
    BY <1>4, <2>1 DEF TopShown
  <2>3. CASE Len(history) > 1
    <3>1. Trail' = Front(Trail)
      BY <1>2, <2>1, <2>3, TrailPopped DEF Trail, TopShown
    <3>2. Len(Trail) > 1
      BY <1>2, <2>3, TrailIsHistory DEF Trail, TopShown
    <3>3. B!Back
      BY <3>1, <3>2 DEF B!Back, B!Front, Front, Trail, TrailOf
    <3> QED
      BY <2>2, <3>3
  <2>4. CASE ~(Len(history) > 1)
    <3>1. history' = history
      BY <2>1, <2>4
    <3>2. Shown' = Shown
      BY <1>4, <2>1, <2>4 DEF TopShown
    <3> QED
      BY <2>2, <3>1, <3>2 DEF Trail
  <2> QED
    BY <2>3, <2>4
<1> QED
  BY <1>5, <1>6

\* Every step of the window is one of the browser, or shows nothing new.
LEMMA StepBrowses ==
    ASSUME ~LoadsFail, IInv, TopShown, [Next]_vars
    PROVE  TopShown' /\ (B!Next \/ Trail' = Trail)
<1> USE DEF B!Next
<1>1. CASE \/ ~crashed /\ (ChooseBuild \/ EntriesShown \/ AcquireAnswered \/ DataShown)
           \/ UNCHANGED vars
  <2>1. UNCHANGED <<history, page, current, picture>>
    BY <1>1, ComboStep DEF DataShown, vars, pageVars
  <2>2. Shown' = Shown
    BY <2>1 DEF Shown
  <2> QED
    BY <2>1, <2>2 DEF TopShown, Trail
<1>2. CASE ~crashed /\ GoBack
  BY <1>2, BackIsBack
<1>3. CASE ~crashed /\ (GoHome \/ GoAbout \/ OpenItem \/ OpenConfigure \/ OpenImage)
  <2>1. \E e \in HistoryEntry : Open(e) /\ (e.widget = None => ViewOf(e) # Shown)
    <3>1. CASE GoHome
      BY <3>1 DEF GoHome, HistoryEntry, HomeEntry, Entry, None
    <3>2. CASE GoAbout
      BY <3>2 DEF GoAbout, HistoryEntry, AboutEntry, Entry, None
    <3>3. CASE OpenItem
      BY <3>3 DEF OpenItem, HistoryEntry, ItemEntry, Entry, ViewOf, View, Shown
    <3>4. CASE OpenConfigure
      BY <3>4 DEF OpenConfigure, HistoryEntry, ConfigureEntry, Entry, ViewOf, View, Shown
    <3>5. CASE OpenImage
      <4>1. PICK n \in thumbs : Open(ImageEntry(current, n))
        BY <3>5 DEF OpenImage
      <4>2. page = "item" /\ current \in Items /\ n \in Nat
        BY <3>5 DEF OpenImage, IInv, Types
      <4>3. ImageEntry(current, n) \in HistoryEntry
        BY <4>2 DEF HistoryEntry
      <4>4. ViewOf(ImageEntry(current, n)) # Shown
        BY <4>2 DEF ImageEntry, Entry, ViewOf, View, Shown
      <4> QED
        BY <4>1, <4>3, <4>4
    <3> QED
      BY <1>3, <3>1, <3>2, <3>3, <3>4, <3>5
  <2> QED
    BY <1>3, <2>1, OpenIsOpen
<1> QED
  BY <1>1, <1>2, <1>3 DEF Next, User

LEMMA InitBrowses == Init => TopShown /\ B!Init
<1> SUFFICES ASSUME Init PROVE TopShown /\ B!Init
  OBVIOUS
<1>1. history = <<HomeEntry>> /\ Len(history) = 1 /\ history[1] = HomeEntry /\ DOMAIN history = 1 .. 1
  BY DEF Init
<1>2. Shown = View("list", None, 0)
  BY DEF Init, Shown
<1>3. TopShown
  BY <1>1, <1>2 DEF TopShown, ViewOf, View, HomeEntry, Entry
<1>4. Trail = [k \in 1 .. 1 |-> Shown]
  BY <1>1 DEF Trail, TrailOf
<1>5. B!Init
  BY <1>2, <1>4 DEF B!Init, Trail, TrailOf
<1> QED
  BY <1>3, <1>5

\* If the files of the pictures are there, Back leads through the views that
\* were gone through, in the opposite order, whatever was chosen, fetched or
\* opened in between and whatever item is current by then.
THEOREM NavigationImplementsBrowser == ASSUME ~LoadsFail PROVE Spec => ImplementsBrowser
<1>1. Init => TopShown /\ B!Init
  BY InitBrowses
<1>2. IInv /\ TopShown /\ [Next]_vars => TopShown' /\ [B!Next]_Trail
  BY StepBrowses
<1> QED
  BY <1>1, <1>2, Invariance, PTL DEF Spec, ImplementsBrowser, B!Spec, Trail, TrailOf
=============================================================================
