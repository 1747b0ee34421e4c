------------------------ MODULE ConfigureFormProofs ------------------------
(***************************************************************************)
(* Proofs about ConfigureForm, for any items and entries, any number of    *)
(* calls under way, and calls that are lost, if the service moves an entry *)
(* only where its flags allow (ServiceChecks).                             *)
(*                                                                         *)
(* The slots set the combo box by an index that is fixed per state, while  *)
(* the states it lists depend on the flags.  The two agree only for the    *)
(* pairs of state and flag that an entry can come to have, so IInv says    *)
(* that every entry - of the service, of a reading under way, of the tree  *)
(* - is such a pair (AppItems).  FInv is about the form itself: what it    *)
(* holds with nothing under way about the current item.  Follows is about  *)
(* what is under way: with no call about an item left, the last reading of *)
(* it lists what the service has, unless it is late.                       *)
(***************************************************************************)
EXTENDS ConfigureForm, SequenceTheorems, TLAPS

\* Any row of the tree, or none.
Rows == (UNION {Entries[i] : i \in Items}) \cup {Row, NoEntry}

\* What the service can have of item i.
ItemEntries(i) ==
    {f \in UNION {[D -> UNION {AppItems(e) : e \in D}] : D \in SUBSET Entries[i]} :
        \A e \in DOMAIN f : f[e] \in AppItems(e)}

Offers == {<<>>, MediaStates, AcceptedStates, RejectedStates, DraftStates}
Combo  == [states : Offers, index : Int, shown : BOOLEAN]
Call   == [kind : {"entries"}, item : Items]
            \cup [kind : {"state"}, item : Items, entry : Rows, new : StateE]
Reads  == {r \in [item : Items, entries : UNION {ItemEntries(i) : i \in Items}, late : BOOLEAN] :
             r.entries \in ItemEntries(r.item)}

TreeOK == /\ DOMAIN tree \subseteq Rows
          /\ \A e \in DOMAIN tree : tree[e] \in AppItems(e)

IInv ==
    /\ current \in Items \cup {None} /\ form \in {"new", "open", "away"}
    /\ (form # "new") => current \in Items
    /\ TreeOK
    /\ selected \in Rows
    /\ combo \in Combo
    /\ calls \in Seq(Call) /\ readings \in Seq(Reads)
    /\ DOMAIN svc = Items /\ \A i \in Items : svc[i] \in ItemEntries(i)

-----------------------------------------------------------------------------
(* The states of an entry.                                                 *)

\* For the pairs an entry can have, the index of its state in the list that
\* its flag offers is that of the state.
LEMMA IndexMatches ==
    ASSUME NEW e, NEW x \in AppItems(e),
           NEW k, k = IndexFor(e, x), k >= 0
    PROVE  /\ OfferedStates(e, x) # <<>>
           /\ OfferedStates(e, x)[k + 1] = x.state
<1> USE DEF AppItem, IndexFor, OfferedStates, BuildIndex, MediaIndex, Range,
            AcceptedStates, RejectedStates, DraftStates, MediaStates
<1>1. CASE ~Build(e)
  BY <1>1 DEF AppItems
<1>2. CASE Build(e) /\ x.flag = "None"
  BY <1>2 DEF AppItems
<1>3. CASE Build(e) /\ x.flag = "Accepted"
  BY <1>3 DEF AppItems
<1>4. CASE Build(e) /\ x.flag = "Rejected"
  BY <1>4 DEF AppItems
<1>5. Build(e) => x.flag \in {"None", "Accepted", "Rejected"}
  BY DEF AppItems
<1> QED
  BY <1>1, <1>2, <1>3, <1>4, <1>5

\* What is offered and indexed has its type, for any item.
LEMMA OfferedTypes ==
    ASSUME NEW e, NEW x
    PROVE  OfferedStates(e, x) \in Offers /\ IndexFor(e, x) \in Int
<1>1. OfferedStates(e, x) \in Offers
  BY DEF OfferedStates, Offers
<1>2. /\ \A s \in DOMAIN BuildIndex : BuildIndex[s] \in Int
      /\ \A s \in DOMAIN MediaIndex : MediaIndex[s] \in Int
  BY DEF BuildIndex, MediaIndex
<1>3. IndexFor(e, x) \in Int
  <2> DEFINE table == IF Build(e) THEN BuildIndex ELSE MediaIndex
             index == IF x.state \in DOMAIN table THEN table[x.state] ELSE -1
  <2>1. index \in Int
    BY <1>2
  <2>2. IndexFor(e, x) = IF index < Len(OfferedStates(e, x)) THEN index ELSE -1
    BY DEF IndexFor
  <2> HIDE DEF index
  <2> QED
    BY <2>1, <2>2
<1> QED
  BY <1>1, <1>3

\* A list that is offered holds states.
LEMMA OffersAreStates ==
    ASSUME NEW states \in Offers, NEW k \in 0 .. Len(states) - 1
    PROVE  states[k + 1] \in StateE
<1>1. CASE states = <<>>
  BY <1>1
<1>2. CASE states = MediaStates
  BY <1>2 DEF MediaStates, StateE
<1>3. CASE states = AcceptedStates
  BY <1>3 DEF AcceptedStates, StateE
<1>4. CASE states = RejectedStates
  BY <1>4 DEF RejectedStates, StateE
<1>5. CASE states = DraftStates
  BY <1>5 DEF DraftStates, StateE, Reviewing
<1> QED
  BY <1>1, <1>2, <1>3, <1>4, <1>5 DEF Offers

\* A move to an offered state leads to a pair an entry can have.
LEMMA MovesStay ==
    ASSUME NEW e, NEW x \in AppItems(e), NEW new \in Range(OfferedStates(e, x))
    PROVE  [x EXCEPT !.state = new] \in AppItems(e)
<1> USE DEF AppItem, OfferedStates, Range,
            AcceptedStates, RejectedStates, DraftStates, MediaStates
<1>1. CASE ~Build(e)
  BY <1>1 DEF AppItems
<1>2. CASE Build(e) /\ x.flag = "None"
  BY <1>2 DEF AppItems
<1>3. CASE Build(e) /\ x.flag = "Accepted"
  BY <1>3 DEF AppItems
<1>4. CASE Build(e) /\ x.flag = "Rejected"
  BY <1>4 DEF AppItems
<1>5. Build(e) => x.flag \in {"None", "Accepted", "Rejected"}
  BY DEF AppItems
<1> QED
  BY <1>1, <1>2, <1>3, <1>4, <1>5

\* So does a step of a review.
LEMMA ReviewsStay ==
    ASSUME NEW e, Build(e), NEW x \in AppItems(e), NEW y \in Reviewed(x)
    PROVE  y \in AppItems(e)
BY DEF AppItems, AppItem, Reviewed, Reviewing, Range, AcceptedStates, RejectedStates

\* The entries of an item stay entries of it when one changes or goes.
LEMMA EntryChanged ==
    ASSUME NEW i, NEW f \in ItemEntries(i), NEW e \in DOMAIN f, NEW y \in AppItems(e)
    PROVE  [f EXCEPT ![e] = y] \in ItemEntries(i)
<1> DEFINE D == DOMAIN f
           g == [f EXCEPT ![e] = y]
<1>1. D \in SUBSET Entries[i] /\ \A h \in D : f[h] \in AppItems(h)
  BY DEF ItemEntries
<1>2. DOMAIN g = D /\ \A h \in D : g[h] \in AppItems(h)
  BY <1>1
<1>3. g \in [D -> UNION {AppItems(h) : h \in D}]
  BY <1>2
<1> QED
  BY <1>1, <1>2, <1>3 DEF ItemEntries

LEMMA EntryGone ==
    ASSUME NEW i, NEW f \in ItemEntries(i), NEW e
    PROVE  [h \in DOMAIN f \ {e} |-> f[h]] \in ItemEntries(i)
<1> DEFINE D == DOMAIN f \ {e}
           g == [h \in D |-> f[h]]
<1>1. D \in SUBSET Entries[i] /\ \A h \in D : f[h] \in AppItems(h)
  BY DEF ItemEntries
<1>2. g \in [D -> UNION {AppItems(h) : h \in D}]
  BY <1>1
<1> QED
  BY <1>1, <1>2 DEF ItemEntries

-----------------------------------------------------------------------------
(* The combo box.                                                          *)

\* The slot that fills the combo box for an entry sends nothing.
LEMMA ItemChangedSilent ==
    ASSUME calls \in Seq(Call), NEW e \in Rows, NEW x \in AppItems(e), ItemChanged(e, x)
    PROVE  calls' = calls /\ selected' \in Rows /\ combo' \in Combo
<1> DEFINE states == OfferedStates(e, x)
           k      == IndexFor(e, x)
<1>1. StateChanged(e, x, <<>>, -1) = <<>>
  BY DEF StateChanged
<1>2. k >= 0 => StateChanged(e, x, states, k) = <<>>
  <2>1. k >= 0 => states # <<>> /\ states[k + 1] = x.state
    BY IndexMatches
  <2>2. k \in Int
    BY OfferedTypes
  <2> HIDE DEF states, k
  <2> QED
    BY <2>1, <2>2 DEF StateChanged
<1>3. calls' = (calls \o <<>>) \o <<>>
  BY <1>1, <1>2 DEF ItemChanged
<1>4. calls' = calls
  BY <1>3, ConcatEmptySeq
<1>5. combo' = [states |-> states, index |-> k, shown |-> TRUE] /\ selected' = e
  BY DEF ItemChanged
<1>6. combo' \in Combo
  BY <1>5, OfferedTypes DEF Combo
<1> QED
  BY <1>4, <1>5, <1>6

\* Nor does refreshing the form.
LEMMA PrepareSilent ==
    ASSUME calls \in Seq(Call), selected \in Rows,
           NEW i \in Items, NEW new \in ItemEntries(i),
           PrepareConfigureForm(i, new)
    PROVE  calls' = calls /\ selected' \in Rows /\ combo' \in Combo /\ TreeOK'
<1> DEFINE e == Reselected(new)
<1>1. tree' = new
  BY DEF PrepareConfigureForm
<1>2. DOMAIN new \subseteq Entries[i] /\ \A h \in DOMAIN new : new[h] \in AppItems(h)
  BY DEF ItemEntries
<1>3. TreeOK'
  BY <1>1, <1>2 DEF TreeOK, Rows
<1>4. CASE e # NoEntry
  <2>1. e \in DOMAIN new
    BY <1>4 DEF Reselected
  <2>2. e \in Rows /\ new[e] \in AppItems(e)
    BY <1>2, <2>1 DEF Rows
  <2>3. ItemChanged(e, new[e])
    BY <1>4 DEF PrepareConfigureForm
  <2> QED
    BY <1>3, <2>2, <2>3, ItemChangedSilent
<1>5. CASE e = NoEntry
  <2>1. calls' = calls /\ combo' = Hidden /\ selected' \in {Row, selected}
    BY <1>5 DEF PrepareConfigureForm
  <2>2. combo' \in Combo
    BY <2>1 DEF Hidden, Combo, Offers
  <2>3. Row \in Rows
    BY DEF Rows
  <2> QED
    BY <1>3, <2>1, <2>2, <2>3
<1> QED
  BY <1>4, <1>5

-----------------------------------------------------------------------------
(* The calls.                                                              *)

\* Taking one element leaves the others.
LEMMA OneRemoved ==
    ASSUME NEW S, NEW s \in Seq(S), NEW k \in DOMAIN s
    PROVE  /\ RemoveAt(s, k) \in Seq(S)
           /\ Len(RemoveAt(s, k)) = Len(s) - 1
           /\ \A j \in 1 .. Len(s) - 1 :
                RemoveAt(s, k)[j] = IF j < k THEN s[j] ELSE s[j + 1]
<1>1. /\ Len(s) \in Nat /\ k \in 1 .. Len(s) /\ DOMAIN s = 1 .. Len(s)
      /\ \A j \in 1 .. Len(s) : s[j] \in S
  BY LenProperties
<1> DEFINE a == SubSeq(s, 1, k - 1)
           b == SubSeq(s, k + 1, Len(s))
<1>2. a \in Seq(S) /\ Len(a) = k - 1 /\ \A j \in 1 .. k - 1 : a[j] = s[j]
  <2>1. \A j \in 1 .. k - 1 : s[j] \in S
    BY <1>1
  <2>2. \A j \in 1 .. (k - 1) - 1 + 1 : a[j] = s[1 + j - 1]
    BY <1>1, <2>1, SubSeqProperties
  <2> HIDE DEF a
  <2>3. \A j \in 1 .. k - 1 : a[j] = s[j]
    BY <1>1, <2>2
  <2> USE DEF a
  <2> QED
    BY <1>1, <2>1, <2>3, SubSeqProperties
<1>3. /\ b \in Seq(S) /\ Len(b) = Len(s) - k
      /\ \A j \in 1 .. Len(s) - k : b[j] = s[k + j]
  <2>1. \A j \in k + 1 .. Len(s) : s[j] \in S
    BY <1>1
  <2>2. \A j \in 1 .. Len(s) - (k + 1) + 1 : b[j] = s[(k + 1) + j - 1]
    BY <1>1, <2>1, SubSeqProperties
  <2> HIDE DEF b
  <2>3. \A j \in 1 .. Len(s) - k : b[j] = s[k + j]
    BY <1>1, <2>2
  <2> USE DEF b
  <2> QED
    BY <1>1, <2>1, <2>3, SubSeqProperties
<1>4. RemoveAt(s, k) = a \o b
  BY DEF RemoveAt
<1> HIDE DEF a, b
<1>5. /\ a \o b \in Seq(S) /\ Len(a \o b) = Len(a) + Len(b)
      /\ \A j \in 1 .. Len(a) + Len(b) :
           (a \o b)[j] = IF j <= Len(a) THEN a[j] ELSE b[j - Len(a)]
  BY <1>2, <1>3, ConcatProperties
<1>6. ASSUME NEW j \in 1 .. Len(s) - 1
      PROVE  (a \o b)[j] = IF j < k THEN s[j] ELSE s[j + 1]
  <2>1. CASE j < k
    BY <1>1, <1>2, <1>3, <1>5, <2>1
  <2>2. CASE ~(j < k)
    <3>1. (a \o b)[j] = b[j - (k - 1)]
      BY <1>1, <1>2, <1>3, <1>5, <2>2
    <3>2. j - (k - 1) \in 1 .. Len(s) - k /\ k + (j - (k - 1)) = j + 1
      BY <1>1, <2>2
    <3> QED
      BY <1>3, <2>2, <3>1, <3>2
  <2> QED
    BY <2>1, <2>2
<1>7. Len(a \o b) = Len(s) - 1
  BY <1>1, <1>2, <1>3, <1>5
<1> QED
  BY <1>4, <1>5, <1>6, <1>7

\* A state is sent only when the calls grow by one that changes a state.
LEMMA NoneSent ==
    ASSUME calls \in Seq(Call), calls' \in Seq(Call),
           \/ Len(calls') <= Len(calls)
           \/ \E i \in Items : calls' = Append(calls, EntriesCall(i))
    PROVE  ~Sends
<1>1. DOMAIN calls = 1 .. Len(calls) /\ DOMAIN calls' = 1 .. Len(calls')
      /\ Len(calls) \in Nat /\ Len(calls') \in Nat
  BY LenProperties
<1>2. CASE Len(calls') <= Len(calls)
  <2>1. \A m, n \in Nat : m <= n => 1 .. m \subseteq 1 .. n
    OBVIOUS
  <2>2. DOMAIN calls' \subseteq DOMAIN calls
    BY <1>1, <1>2, <2>1
  <2> QED
    BY <2>2 DEF Sends
<1>3. ASSUME NEW i \in Items, calls' = Append(calls, EntriesCall(i)) PROVE ~Sends
  <2>1. EntriesCall(i) \in Call
    BY DEF EntriesCall, Call
  <2>2. Len(calls') = Len(calls) + 1 /\ calls'[Len(calls) + 1] = EntriesCall(i)
    BY <1>3, <2>1, AppendProperties
  <2>3. \A k \in DOMAIN calls' \ DOMAIN calls : k = Len(calls) + 1
    BY <1>1, <2>2
  <2> QED
    BY <2>2, <2>3 DEF Sends, EntriesCall
<1> QED
  BY <1>2, <1>3

-----------------------------------------------------------------------------
(* What is under way about an item.                                        *)

\* Some element of s is about item i.
About(s, i) == \E k \in DOMAIN s : s[k].item = i

\* The last reading of item i in s, if there is one and it is not late, lists
\* entries f.
LastLists(s, i, f) ==
    \A k \in DOMAIN s :
      (s[k].item = i /\ ~s[k].late /\ \A l \in DOMAIN s : l > k => s[l].item # i)
        => s[k].entries = f

LEMMA AboutRemoved ==
    ASSUME NEW S, NEW s \in Seq(S), NEW k \in DOMAIN s, NEW i, About(s, i)
    PROVE  s[k].item = i \/ About(RemoveAt(s, k), i)
<1> DEFINE r == RemoveAt(s, k)
<1>1. /\ r \in Seq(S) /\ Len(r) = Len(s) - 1
      /\ \A j \in 1 .. Len(s) - 1 : r[j] = IF j < k THEN s[j] ELSE s[j + 1]
  BY OneRemoved
<1> HIDE DEF r
<1>2. /\ Len(s) \in Nat /\ DOMAIN s = 1 .. Len(s)
      /\ DOMAIN r = 1 .. Len(s) - 1
  BY <1>1, LenProperties
<1>3. ASSUME NEW j \in DOMAIN s, j # k PROVE \E l \in DOMAIN r : r[l] = s[j]
  <2>1. CASE j < k
    BY <1>1, <1>2, <2>1
  <2>2. CASE ~(j < k)
    <3>1. j - 1 \in 1 .. Len(s) - 1 /\ ~(j - 1 < k) /\ (j - 1) + 1 = j
      BY <1>2, <1>3, <2>2
    <3> QED
      BY <1>1, <1>2, <3>1
  <2> QED
    BY <2>1, <2>2
<1>4. s[k].item = i \/ About(r, i)
  BY <1>3 DEF About
<1> QED
  BY <1>4 DEF r

LEMMA AboutAppended ==
    ASSUME NEW S, NEW s \in Seq(S), NEW e \in S, NEW i
    PROVE  About(Append(s, e), i) <=> About(s, i) \/ e.item = i
<1> DEFINE t == Append(s, e)
<1>1. /\ t \in Seq(S) /\ Len(t) = Len(s) + 1 /\ t[Len(s) + 1] = e
      /\ \A j \in 1 .. Len(s) : t[j] = s[j]
  BY AppendProperties
<1> HIDE DEF t
<1>2. /\ Len(s) \in Nat /\ DOMAIN s = 1 .. Len(s) /\ DOMAIN t = 1 .. Len(s) + 1
  BY <1>1, LenProperties
<1>3. \A j \in DOMAIN t : j \in DOMAIN s \/ j = Len(s) + 1
  BY <1>2
<1>4. DOMAIN s \subseteq DOMAIN t /\ Len(s) + 1 \in DOMAIN t
  BY <1>2
<1>5. About(t, i) <=> About(s, i) \/ e.item = i
  BY <1>1, <1>2, <1>3, <1>4 DEF About
<1> QED
  BY <1>5 DEF t

\* Appending a reading of item i makes it the last of i and leaves the last
\* of others.
LEMMA LastAppended ==
    ASSUME NEW S, NEW s \in Seq(S), NEW e \in S, NEW i, NEW f,
           IF e.item = i THEN e.entries = f ELSE LastLists(s, i, f)
    PROVE  LastLists(Append(s, e), i, f)
<1> DEFINE t == Append(s, e)
<1>1. /\ t \in Seq(S) /\ Len(t) = Len(s) + 1 /\ t[Len(s) + 1] = e
      /\ \A j \in 1 .. Len(s) : t[j] = s[j]
  BY AppendProperties
<1> HIDE DEF t
<1>2. /\ Len(s) \in Nat /\ DOMAIN s = 1 .. Len(s) /\ DOMAIN t = 1 .. Len(s) + 1
  BY <1>1, LenProperties
<1>3. ASSUME NEW k \in DOMAIN t, t[k].item = i, ~t[k].late,
             \A l \in DOMAIN t : l > k => t[l].item # i
      PROVE  t[k].entries = f
  <2>1. CASE k = Len(s) + 1
    BY <1>1, <1>3, <2>1
  <2>2. CASE k # Len(s) + 1
    <3>1. k \in DOMAIN s /\ Len(s) + 1 > k /\ Len(s) + 1 \in DOMAIN t
      BY <1>2, <2>2
    <3>2. e.item # i
      BY <1>1, <1>3, <3>1
    <3>3. \A l \in DOMAIN s : l \in DOMAIN t /\ t[l] = s[l]
      BY <1>1, <1>2
    <3> QED
      BY <1>3, <3>1, <3>2, <3>3 DEF LastLists
  <2> QED
    BY <2>1, <2>2
<1>4. LastLists(t, i, f)
  BY <1>3 DEF LastLists
<1> QED
  BY <1>4 DEF t

\* Marking readings late changes nothing else in them.
LEMMA Marked ==
    ASSUME readings \in Seq(Reads), NEW i, NEW n
    PROVE  /\ Outdated(i, n) \in Seq(Reads)
           /\ DOMAIN Outdated(i, n) = DOMAIN readings
           /\ \A j \in DOMAIN readings :
                /\ Outdated(i, n)[j].item = readings[j].item
                /\ Outdated(i, n)[j].entries = readings[j].entries
                /\ Outdated(i, n)[j].late <=>
                     readings[j].late \/ (j < n /\ readings[j].item = i)
<1> DEFINE o == Outdated(i, n)
<1>1. Len(readings) \in Nat /\ DOMAIN readings = 1 .. Len(readings)
  BY LenProperties
<1>2. \A j \in DOMAIN readings : readings[j] \in Reads
  BY LenProperties
<1>3. /\ DOMAIN o = DOMAIN readings
      /\ \A j \in DOMAIN readings :
           o[j] = IF j < n /\ readings[j].item = i
                    THEN [readings[j] EXCEPT !.late = TRUE] ELSE readings[j]
  BY DEF Outdated
<1> HIDE DEF o
<1>4. ASSUME NEW j \in DOMAIN readings
      PROVE  /\ o[j] \in Reads
             /\ o[j].item = readings[j].item /\ o[j].entries = readings[j].entries
             /\ o[j].late <=> readings[j].late \/ (j < n /\ readings[j].item = i)
  <2>1. readings[j] \in Reads
    BY <1>2
  <2>2. CASE j < n /\ readings[j].item = i
    <3>1. o[j] = [readings[j] EXCEPT !.late = TRUE]
      BY <1>3, <2>2
    <3> QED
      BY <2>1, <2>2, <3>1 DEF Reads
  <2>3. CASE ~(j < n /\ readings[j].item = i)
    <3>1. o[j] = readings[j]
      BY <1>3, <2>3
    <3> QED
      BY <2>1, <2>3, <3>1
  <2> QED
    BY <2>2, <2>3
<1>5. \A j \in 1 .. Len(readings) : o[j] \in Reads
  BY <1>1, <1>4
<1>6. o = [j \in 1 .. Len(readings) |-> o[j]]
  BY <1>1, <1>3 DEF o, Outdated
<1>7. o \in Seq(Reads)
  BY <1>1, <1>5, <1>6, SeqDef
<1> QED
  BY <1>3, <1>4, <1>7 DEF o

\* Marking all readings of item i leaves none of i that is not late.
LEMMA AllMarked ==
    ASSUME readings \in Seq(Reads), NEW i, NEW j, NEW f
    PROVE  /\ About(readings, j) => About(Outdated(i, Len(readings) + 1), j)
           /\ LastLists(readings, j, f) => LastLists(Outdated(i, Len(readings) + 1), j, f)
           /\ LastLists(Outdated(i, Len(readings) + 1), i, f)
<1> DEFINE n == Len(readings) + 1
           o == Outdated(i, n)
<1>1. /\ DOMAIN o = DOMAIN readings
      /\ \A l \in DOMAIN readings :
           /\ o[l].item = readings[l].item /\ o[l].entries = readings[l].entries
           /\ o[l].late <=> readings[l].late \/ (l < n /\ readings[l].item = i)
  BY Marked
<1>2. \A l \in DOMAIN readings : l < n
  BY LenProperties
<1> HIDE DEF o, n
<1>3. About(readings, j) => About(o, j)
  BY <1>1 DEF About
<1>4. LastLists(readings, j, f) => LastLists(o, j, f)
  BY <1>1 DEF LastLists
<1>5. LastLists(o, i, f)
  BY <1>1, <1>2 DEF LastLists
<1> QED
  BY <1>3, <1>4, <1>5 DEF o, n

\* Taking the k-th reading leaves those of other items, and the last of each
\* item that is not late; if none of its own item is left and it was not
\* late, it was the last.
LEMMA ReadingTaken ==
    ASSUME readings \in Seq(Reads), NEW k \in DOMAIN readings,
           NEW i, i = readings[k].item,
           NEW r, r = RemoveAt(Outdated(i, k), k)
    PROVE  /\ r \in Seq(Reads)
           /\ \A j : About(readings, j) => j = i \/ About(r, j)
           /\ \A j, f : LastLists(readings, j, f) => LastLists(r, j, f)
           /\ \A f : LastLists(readings, i, f) /\ ~readings[k].late /\ ~About(r, i)
                        => readings[k].entries = f
<1> DEFINE o == Outdated(i, k)
<1>1. /\ o \in Seq(Reads) /\ DOMAIN o = DOMAIN readings
      /\ \A j \in DOMAIN readings :
           /\ o[j].item = readings[j].item /\ o[j].entries = readings[j].entries
           /\ o[j].late <=> readings[j].late \/ (j < k /\ readings[j].item = i)
  BY Marked
<1> HIDE DEF o
<1>2. /\ r \in Seq(Reads) /\ Len(r) = Len(o) - 1
      /\ \A j \in 1 .. Len(o) - 1 : r[j] = IF j < k THEN o[j] ELSE o[j + 1]
  BY <1>1, OneRemoved DEF o
<1>3. /\ Len(o) \in Nat /\ k \in 1 .. Len(o)
      /\ DOMAIN readings = 1 .. Len(o) /\ DOMAIN r = 1 .. Len(o) - 1
  BY <1>1, <1>2, LenProperties
<1>4. ASSUME NEW l \in DOMAIN readings, l # k
      PROVE  LET p == IF l < k THEN l ELSE l - 1 IN p \in DOMAIN r /\ r[p] = o[l]
  <2>1. CASE l < k
    BY <1>2, <1>3, <2>1
  <2>2. CASE ~(l < k)
    <3>1. l - 1 \in 1 .. Len(o) - 1 /\ ~(l - 1 < k) /\ (l - 1) + 1 = l
      BY <1>3, <1>4, <2>2
    <3> QED
      BY <1>2, <1>3, <2>2, <3>1
  <2> QED
    BY <2>1, <2>2
<1>5. ASSUME NEW j, About(readings, j) PROVE j = i \/ About(r, j)
  <2>1. PICK l \in DOMAIN readings : readings[l].item = j
    BY <1>5 DEF About
  <2>2. CASE l = k
    BY <2>1, <2>2
  <2>3. CASE l # k
    <3>1. \E p \in DOMAIN r : r[p] = o[l]
      BY <1>4, <2>3
    <3> QED
      BY <1>1, <2>1, <3>1 DEF About
  <2> QED
    BY <2>2, <2>3
<1>6. ASSUME NEW j, NEW f, LastLists(readings, j, f),
             NEW q \in DOMAIN r, r[q].item = j, ~r[q].late,
             \A l \in DOMAIN r : l > q => r[l].item # j
      PROVE  r[q].entries = f
  <2> DEFINE p == IF q < k THEN q ELSE q + 1
  <2>1. p \in DOMAIN readings /\ r[q] = o[p] /\ p # k /\ (p < k <=> q < k)
    BY <1>2, <1>3
  <2>2. /\ readings[p].item = j /\ readings[p].entries = r[q].entries
        /\ ~readings[p].late /\ ~(p < k /\ readings[p].item = i)
    BY <1>1, <1>6, <2>1
  <2>3. ASSUME NEW l \in DOMAIN readings, l > p PROVE readings[l].item # j
    <3>1. CASE l = k
      BY <2>2, <2>3, <3>1
    <3>2. CASE l # k
      <4> DEFINE m == IF l < k THEN l ELSE l - 1
      <4>1. m \in DOMAIN r /\ r[m] = o[l]
        BY <1>4, <3>2
      <4>2. m > q
        BY <1>3, <2>3, <3>2
      <4> QED
        BY <1>1, <1>6, <4>1, <4>2
    <3> QED
      BY <3>1, <3>2
  <2> HIDE DEF p
  <2> QED
    BY <1>6, <2>1, <2>2, <2>3 DEF LastLists
<1>7. ASSUME NEW f, LastLists(readings, i, f), ~readings[k].late, ~About(r, i)
      PROVE  readings[k].entries = f
  <2>1. \A l \in DOMAIN readings : l > k => readings[l].item # i
    <3> SUFFICES ASSUME NEW l \in DOMAIN readings, l > k PROVE readings[l].item # i
      OBVIOUS
    <3>1. \E p \in DOMAIN r : r[p] = o[l]
      BY <1>3, <1>4
    <3> QED
      BY <1>1, <1>7, <3>1 DEF About
  <2> QED
    BY <1>7, <2>1 DEF LastLists
<1>8. ASSUME NEW j, NEW f, LastLists(readings, j, f) PROVE LastLists(r, j, f)
  <2>1. ASSUME NEW q \in DOMAIN r, r[q].item = j, ~r[q].late,
               \A l \in DOMAIN r : l > q => r[l].item # j
        PROVE  r[q].entries = f
    BY <1>6, <1>8, <2>1
  <2> QED
    BY <2>1 DEF LastLists
<1> QED
  BY <1>2, <1>5, <1>7, <1>8

-----------------------------------------------------------------------------
(* The steps: each keeps the invariant and, ChooseState apart, sends        *)
(* nothing.                                                                *)

\* The form is opened, left or shown again, or another page is shown.
LEMMA PageStep ==
    ASSUME IInv, (\E i \in Items : ShowItem(i)) \/ OpenForm \/ LeaveForm \/ ReturnToForm
    PROVE  IInv' /\ ~Sends
<1>1. ASSUME NEW i \in Items, ShowItem(i) PROVE IInv' /\ ~Sends
  <2>1. EntriesCall(i) \in Call
    BY DEF EntriesCall, Call
  <2>2. calls' = Append(calls, EntriesCall(i)) /\ calls' \in Seq(Call)
    BY <1>1, <2>1, AppendProperties DEF ShowItem, IInv
  <2>3. ~Sends
    BY <2>2, NoneSent DEF IInv
  <2> QED
    BY <1>1, <2>2, <2>3 DEF ShowItem, IInv, TreeOK
<1>2. ASSUME OpenForm \/ LeaveForm \/ ReturnToForm PROVE IInv' /\ ~Sends
  <2>1. calls' = calls
    BY <1>2 DEF OpenForm, LeaveForm, ReturnToForm
  <2>2. ~Sends
    BY <2>1 DEF Sends
  <2>3. IInv'
    BY <1>2, ConfigureFormAssumption DEF OpenForm, LeaveForm, ReturnToForm, IInv, TreeOK
  <2> QED
    BY <2>2, <2>3
<1> QED
  BY <1>1, <1>2

\* The user clicks in the tree.
LEMMA SelectStep ==
    ASSUME IInv, SelectEntry \/ SelectRow
    PROVE  IInv' /\ ~Sends
<1>1. CASE SelectEntry
  <2>1. PICK e \in DOMAIN tree : ItemChanged(e, tree[e])
    BY <1>1 DEF SelectEntry
  <2>2. e \in Rows /\ tree[e] \in AppItems(e)
    BY DEF IInv, TreeOK
  <2>3. calls' = calls /\ selected' \in Rows /\ combo' \in Combo
    BY <2>1, <2>2, ItemChangedSilent DEF IInv
  <2> QED
    BY <1>1, <2>3 DEF SelectEntry, IInv, TreeOK, Sends
<1>2. CASE SelectRow
  <2>1. selected' = Row /\ combo' = Hidden /\ calls' = calls
    BY <1>2 DEF SelectRow
  <2>2. selected' \in Rows /\ combo' \in Combo
    BY <2>1 DEF Rows, Hidden, Combo, Offers
  <2> QED
    BY <1>2, <2>1, <2>2 DEF SelectRow, IInv, TreeOK, Sends
<1> QED
  BY <1>1, <1>2

\* Choosing a state that is not the entry's sends it.
LEMMA ChooseMoves ==
    ASSUME IInv, ChooseState
    PROVE  \E k \in 0 .. Len(combo.states) - 1 :
             LET new  == combo.states[k + 1]
                 call == StateCall(current, selected, new)
             IN  /\ combo' = [combo EXCEPT !.index = k]
                 /\ call \in Call
                 /\ calls' = IF new = tree[selected].state THEN calls ELSE Append(calls, call)
<1>1. PICK k \in 0 .. Len(combo.states) - 1 :
         /\ combo' = [combo EXCEPT !.index = k]
         /\ calls' = calls \o StateChanged(selected, tree[selected], combo.states, k)
  BY DEF ChooseState
<1> DEFINE new  == combo.states[k + 1]
           call == StateCall(current, selected, new)
           sent == StateChanged(selected, tree[selected], combo.states, k)
<1>2. new \in StateE /\ ~(k < 0) /\ combo.states # <<>>
  BY EmptySeq, OffersAreStates DEF IInv, Combo
<1>3. call \in Call
  BY <1>2 DEF ChooseState, OnForm, IInv, StateCall, Call
<1>4. sent = IF new = tree[selected].state THEN <<>> ELSE <<call>>
  BY <1>2 DEF StateChanged
<1> HIDE DEF sent, call, new
<1>5. calls' = calls \o (IF new = tree[selected].state THEN <<>> ELSE <<call>>)
  BY <1>1, <1>4 DEF sent
<1>6. calls' = IF new = tree[selected].state THEN calls ELSE Append(calls, call)
  BY <1>3, <1>5, ConcatEmptySeq, AppendIsConcat DEF IInv
<1> QED
  BY <1>1, <1>3, <1>6 DEF new, call

\* The user chooses a state: the only step that may send one.
LEMMA ChooseStep ==
    ASSUME IInv, ChooseState
    PROVE  IInv'
<1>1. PICK k \in 0 .. Len(combo.states) - 1 :
         LET new  == combo.states[k + 1]
             call == StateCall(current, selected, new)
         IN  /\ combo' = [combo EXCEPT !.index = k]
             /\ call \in Call
             /\ calls' = IF new = tree[selected].state THEN calls ELSE Append(calls, call)
  BY ChooseMoves
<1>2. combo' \in Combo
  BY <1>1 DEF IInv, Combo
<1>3. calls' \in Seq(Call)
  BY <1>1, AppendProperties DEF IInv
<1> QED
  BY <1>2, <1>3 DEF ChooseState, IInv, TreeOK

\* The service answers.
LEMMA AnswerStep ==
    ASSUME IInv, ServiceChecks, Answer
    PROVE  IInv' /\ ~Sends
<1>1. PICK k \in DOMAIN calls :
         EntriesRead(k) \/ EntriesFail(k) \/ StateAnswered(k) \/ StateLost(k)
  BY DEF Answer
<1>2. UNCHANGED <<current, form, tree, selected, combo>>
  BY DEF Answer, formVars
<1> DEFINE rest == RemoveAt(calls, k)
           i    == calls[k].item
<1>3. rest \in Seq(Call) /\ Len(rest) = Len(calls) - 1 /\ Len(calls) \in Nat
  BY OneRemoved, LenProperties DEF IInv
<1>4. calls[k] \in Call /\ i \in Items
  BY LenProperties DEF IInv, Call
<1>5. CASE EntriesRead(k)
  <2>1. Reading(i, svc[i]) \in Reads
    BY <1>4 DEF IInv, Reading, Reads
  <2>2. readings' \in Seq(Reads)
    BY <1>5, <2>1, AppendProperties DEF EntriesRead, IInv
  <2>3. calls' = rest /\ svc' = svc
    BY <1>5 DEF EntriesRead
  <2>4. ~Sends
    BY <1>3, <2>3, NoneSent DEF IInv
  <2> QED
    BY <1>2, <1>3, <2>2, <2>3, <2>4 DEF IInv, TreeOK
<1>6. CASE EntriesFail(k) \/ StateLost(k)
  <2>1. calls' = rest /\ svc' = svc /\ readings' = Outdated(i, Len(readings) + 1)
    BY <1>6 DEF EntriesFail, StateLost, Lose
  <2>2. readings' \in Seq(Reads)
    BY <2>1, Marked DEF IInv
  <2>3. ~Sends
    BY <1>3, <2>1, NoneSent DEF IInv
  <2> QED
    BY <1>2, <1>3, <2>1, <2>2, <2>3 DEF IInv, TreeOK
<1>7. CASE StateAnswered(k)
  <2> DEFINE e   == calls[k].entry
             new == calls[k].new
  <2>1. EntriesCall(i) \in Call
    BY <1>4 DEF EntriesCall, Call
  <2>2. calls' = Append(rest, EntriesCall(i)) /\ readings' = readings
    BY <1>7 DEF StateAnswered
  <2>3. calls' \in Seq(Call) /\ Len(calls') = Len(calls)
    BY <1>3, <2>1, <2>2, AppendProperties
  <2>4. ~Sends
    BY <1>3, <2>3, NoneSent DEF IInv
  <2>5. DOMAIN svc' = Items /\ \A j \in Items : svc'[j] \in ItemEntries(j)
    <3>1. CASE svc' = svc
      BY <3>1 DEF IInv
    <3>2. CASE /\ e \in DOMAIN svc[i] /\ Allowed(e, svc[i][e], new)
               /\ svc' = [svc EXCEPT ![i][e].state = new]
      <4>1. svc[i] \in ItemEntries(i) /\ svc[i][e] \in AppItems(e)
        BY <1>4, <3>2 DEF IInv, ItemEntries
      <4>2. [svc[i][e] EXCEPT !.state = new] \in AppItems(e)
        BY <3>2, <4>1, MovesStay DEF Allowed
      <4>3. [svc[i] EXCEPT ![e] = [svc[i][e] EXCEPT !.state = new]] \in ItemEntries(i)
        BY <3>2, <4>1, <4>2, EntryChanged
      <4>4. svc' = [svc EXCEPT ![i] = [svc[i] EXCEPT ![e] = [svc[i][e] EXCEPT !.state = new]]]
        BY <3>2
      <4> QED
        BY <1>4, <4>3, <4>4 DEF IInv
    <3> QED
      BY <1>7, <3>1, <3>2 DEF StateAnswered
  <2> QED
    BY <1>2, <2>2, <2>3, <2>4, <2>5 DEF IInv, TreeOK
<1> QED
  BY <1>1, <1>5, <1>6, <1>7

\* Reviewers and other sessions of the owner.
LEMMA OthersStep ==
    ASSUME IInv, OthersMove
    PROVE  IInv' /\ ~Sends
<1>0. PICK i \in Items : \E e \in DOMAIN svc[i] :
         \/ \E y \in IF Build(e) THEN Reviewed(svc[i][e]) ELSE {} :
               svc' = [svc EXCEPT ![i][e] = y]
         \/ \E new \in Range(OfferedStates(e, svc[i][e])) :
               svc' = [svc EXCEPT ![i][e].state = new]
         \/ svc' = [svc EXCEPT ![i] = [f \in DOMAIN svc[i] \ {e} |-> svc[i][f]]]
  BY DEF OthersMove
<1>1. PICK e \in DOMAIN svc[i] :
         \/ \E y \in IF Build(e) THEN Reviewed(svc[i][e]) ELSE {} :
               svc' = [svc EXCEPT ![i][e] = y]
         \/ \E new \in Range(OfferedStates(e, svc[i][e])) :
               svc' = [svc EXCEPT ![i][e].state = new]
         \/ svc' = [svc EXCEPT ![i] = [f \in DOMAIN svc[i] \ {e} |-> svc[i][f]]]
  BY <1>0
<1>2. svc[i] \in ItemEntries(i) /\ svc[i][e] \in AppItems(e)
  BY DEF IInv, ItemEntries
<1>3. \E f \in ItemEntries(i) : svc' = [svc EXCEPT ![i] = f]
  <2>1. CASE svc' = [svc EXCEPT ![i] = [f \in DOMAIN svc[i] \ {e} |-> svc[i][f]]]
    BY <1>2, <2>1, EntryGone
  <2>2. ASSUME NEW y \in AppItems(e), svc' = [svc EXCEPT ![i] = [svc[i] EXCEPT ![e] = y]]
        PROVE  \E f \in ItemEntries(i) : svc' = [svc EXCEPT ![i] = f]
    BY <1>2, <2>2, EntryChanged
  <2>3. ASSUME Build(e), NEW y \in Reviewed(svc[i][e]), svc' = [svc EXCEPT ![i][e] = y]
        PROVE  \E f \in ItemEntries(i) : svc' = [svc EXCEPT ![i] = f]
    BY <1>2, <2>2, <2>3, ReviewsStay
  <2>4. ASSUME NEW new \in Range(OfferedStates(e, svc[i][e])),
               svc' = [svc EXCEPT ![i][e].state = new]
        PROVE  \E f \in ItemEntries(i) : svc' = [svc EXCEPT ![i] = f]
    <3>1. [svc[i][e] EXCEPT !.state = new] \in AppItems(e)
      BY <1>2, MovesStay
    <3>2. svc' = [svc EXCEPT ![i] = [svc[i] EXCEPT ![e] = [svc[i][e] EXCEPT !.state = new]]]
      BY <2>4
    <3> QED
      BY <2>2, <3>1, <3>2
  <2> QED
    BY <1>1, <2>1, <2>3, <2>4
<1>4. DOMAIN svc' = Items /\ \A j \in Items : svc'[j] \in ItemEntries(j)
  BY <1>3 DEF IInv
<1> QED
  BY <1>4 DEF OthersMove, formVars, IInv, TreeOK, Sends

\* The slot takes one reading; only a refresh changes the tree.
LEMMA SlotMoves ==
    ASSUME IInv, ItemEntriesSlot
    PROVE  \E k \in DOMAIN readings :
             LET i == readings[k].item
             IN  /\ readings' = RemoveAt(Outdated(i, k), k)
                 /\ i \in Items /\ calls' = calls /\ UNCHANGED <<current, form, svc>>
                 /\ lost' = lost \ {i}
                 /\ outdated' = IF readings[k].late THEN outdated \cup {i} ELSE outdated \ {i}
                 /\ IF i = current /\ current \in Owned
                      THEN /\ readings[k].entries \in ItemEntries(current)
                           /\ PrepareConfigureForm(current, readings[k].entries)
                      ELSE UNCHANGED <<tree, tree_of, selected, config_current_build,
                                       config_current_media, combo>>
<1>1. PICK k \in DOMAIN readings :
         LET i == readings[k].item
         IN  /\ readings' = RemoveAt(Outdated(i, k), k)
             /\ lost' = lost \ {i}
             /\ outdated' = IF readings[k].late THEN outdated \cup {i} ELSE outdated \ {i}
             /\ IF i = current /\ i \in Owned
                  THEN PrepareConfigureForm(i, readings[k].entries)
                  ELSE UNCHANGED <<tree, tree_of, selected, config_current_build,
                                   config_current_media, combo, calls>>
             /\ UNCHANGED <<current, form, svc, crashed>>
  BY DEF ItemEntriesSlot
<1> DEFINE i   == readings[k].item
           new == readings[k].entries
<1>2. i \in Items /\ new \in ItemEntries(i)
  BY LenProperties DEF IInv, Reads
<1>3. CASE i = current /\ i \in Owned
  <2>1. PrepareConfigureForm(i, new)
    BY <1>1, <1>3
  <2>2. calls' = calls
    BY <1>2, <2>1, PrepareSilent DEF IInv
  <2> QED
    BY <1>1, <1>2, <1>3, <2>1, <2>2
<1>4. CASE ~(i = current /\ i \in Owned)
  BY <1>1, <1>2, <1>4
<1> QED
  BY <1>3, <1>4

LEMMA SlotStep ==
    ASSUME IInv, ItemEntriesSlot
    PROVE  IInv' /\ ~Sends
<1>1. PICK k \in DOMAIN readings :
         LET i == readings[k].item
         IN  /\ readings' = RemoveAt(Outdated(i, k), k)
             /\ i \in Items /\ calls' = calls /\ UNCHANGED <<current, form, svc>>
             /\ IF i = current /\ current \in Owned
                  THEN /\ readings[k].entries \in ItemEntries(current)
                       /\ PrepareConfigureForm(current, readings[k].entries)
                  ELSE UNCHANGED <<tree, tree_of, selected, config_current_build,
                                   config_current_media, combo>>
  BY SlotMoves
<1>2. readings' \in Seq(Reads)
  BY <1>1, ReadingTaken DEF IInv
<1>3. CASE readings[k].item = current /\ current \in Owned
  <2>1. selected' \in Rows /\ combo' \in Combo /\ TreeOK'
    BY <1>1, <1>3, PrepareSilent DEF IInv
  <2> QED
    BY <1>1, <1>2, <2>1 DEF IInv, Sends
<1>4. CASE ~(readings[k].item = current /\ current \in Owned)
  BY <1>1, <1>2, <1>4 DEF IInv, TreeOK, Sends
<1> QED
  BY <1>3, <1>4

-----------------------------------------------------------------------------
(* The form.                                                               *)

FormTypes ==
    /\ tree_of \in Owned \cup {None} /\ DOMAIN tree \subseteq AllEntries
    /\ selected \in DOMAIN tree \cup {Row, NoEntry}
    /\ config_current_build \in {e \in DOMAIN tree : Build(e)} \cup {NoEntry}
    /\ config_current_media \in {e \in AllEntries : ~Build(e)} \cup {NoEntry}
    /\ combo.index \in -1 .. Len(combo.states) - 1
    /\ lost \subseteq outdated /\ outdated \subseteq Items

\* The combo box is on an entry, at its state or at none.
ComboSays ==
    (combo.shown /\ combo.states # <<>>) =>
      /\ selected \in DOMAIN tree
      /\ IF combo.index >= 0
           THEN combo.states[combo.index + 1] = tree[selected].state
           ELSE tree[selected].state \notin Range(combo.states)

\* The entry selected is the one selected last among those of its kind.
NameKept ==
    selected \in DOMAIN tree =>
      selected = IF Build(selected) THEN config_current_build ELSE config_current_media

FInv == /\ FormTypes
        /\ (current \in Owned /\ Settled(current)) => tree_of = current /\ ComboSays /\ NameKept

\* With nothing under way but readings, the last of an item that is not late
\* lists what the service has, and so does the form when none is left and
\* the last that came was not late.
Follows ==
    \A i \in Items : ~About(calls, i) =>
      /\ LastLists(readings, i, svc[i])
      /\ (i \in Owned /\ current = i /\ i \notin outdated /\ ~About(readings, i)) =>
            tree = svc[i]

LEMMA NoRowIsEntry == Row \notin AllEntries /\ NoEntry \notin AllEntries
<1>1. \A e \in AllEntries : e[1] \in {"build", "media"}
  BY ConfigureFormAssumption DEF AllEntries
<1>2. Row[1] = "row" /\ NoEntry[1] = "none"
  BY DEF Row, NoEntry
<1> QED
  BY <1>1, <1>2

\* The index is one of the combo box; without one the state is not offered.
LEMMA IndexNone ==
    ASSUME NEW e, NEW x \in AppItems(e)
    PROVE  /\ IndexFor(e, x) \in -1 .. Len(OfferedStates(e, x)) - 1
           /\ ~(IndexFor(e, x) >= 0) => x.state \notin Range(OfferedStates(e, x))
<1> USE DEF AppItem, IndexFor, OfferedStates, BuildIndex, MediaIndex, Range,
            AcceptedStates, RejectedStates, DraftStates, MediaStates
<1>1. CASE ~Build(e)
  BY <1>1 DEF AppItems
<1>2. CASE Build(e) /\ x.flag = "None"
  BY <1>2 DEF AppItems
<1>3. CASE Build(e) /\ x.flag = "Accepted"
  BY <1>3 DEF AppItems
<1>4. CASE Build(e) /\ x.flag = "Rejected"
  BY <1>4 DEF AppItems
<1>5. Build(e) => x.flag \in {"None", "Accepted", "Rejected"}
  BY DEF AppItems
<1> QED
  BY <1>1, <1>2, <1>3, <1>4, <1>5

\* The slot puts the form on the entry.
LEMMA ItemChangedForm ==
    ASSUME NEW t, tree' = t, DOMAIN t \subseteq AllEntries,
           NEW e \in DOMAIN t, t[e] \in AppItems(e), ItemChanged(e, t[e]),
           Build(e) \/ config_current_build \in {h \in DOMAIN t : Build(h)} \cup {NoEntry},
           config_current_media \in {h \in AllEntries : ~Build(h)} \cup {NoEntry},
           tree_of' \in Owned \cup {None}, lost' \subseteq outdated', outdated' \subseteq Items
    PROVE  FormTypes' /\ ComboSays' /\ NameKept'
<1> DEFINE states == OfferedStates(e, t[e])
           k      == IndexFor(e, t[e])
<1>1. /\ selected' = e
      /\ config_current_build' = IF Build(e) THEN e ELSE config_current_build
      /\ config_current_media' = IF Build(e) THEN config_current_media ELSE e
      /\ combo' = [states |-> states, index |-> k, shown |-> TRUE]
  BY DEF ItemChanged
<1>2. /\ k \in -1 .. Len(states) - 1
      /\ k >= 0 => states[k + 1] = t[e].state
      /\ ~(k >= 0) => t[e].state \notin Range(states)
  BY IndexMatches, IndexNone
<1> HIDE DEF states, k
<1>3. ComboSays'
  BY <1>1, <1>2 DEF ComboSays
<1>4. NameKept'
  BY <1>1 DEF NameKept
<1>5. FormTypes'
  BY <1>1, <1>2 DEF FormTypes
<1> QED
  BY <1>3, <1>4, <1>5

\* So does a refresh, or it leaves the form on a row that is none.
LEMMA PrepareForm ==
    ASSUME FormTypes, NEW i \in Owned, NEW new \in ItemEntries(i),
           PrepareConfigureForm(i, new), lost' \subseteq outdated', outdated' \subseteq Items
    PROVE  FormTypes' /\ tree_of' = i /\ ComboSays' /\ NameKept'
<1> DEFINE e == Reselected(new)
<1>1. tree' = new /\ tree_of' = i /\ i \in Items
  BY ConfigureFormAssumption DEF PrepareConfigureForm
<1>2. DOMAIN new \subseteq AllEntries /\ \A h \in DOMAIN new : new[h] \in AppItems(h)
  BY <1>1 DEF ItemEntries, AllEntries
<1>3. CASE e # NoEntry
  <2>1. e \in DOMAIN new /\ ItemChanged(e, new[e])
    BY <1>3 DEF Reselected, PrepareConfigureForm
  <2>2. Build(e) \/ config_current_build = NoEntry
    <3>1. CASE config_current_build # NoEntry
      <4>1. e = config_current_build
        BY <1>3, <3>1 DEF Reselected
      <4> QED
        BY <3>1, <4>1 DEF FormTypes
    <3> QED
      BY <3>1
  <2> HIDE DEF e
  <2> QED
    BY <1>1, <1>2, <2>1, <2>2, ItemChangedForm DEF FormTypes
<1>4. CASE e = NoEntry
  <2>1. /\ selected' = IF selected \in DOMAIN tree THEN Row ELSE selected
        /\ combo' = Hidden
        /\ config_current_build' = NoEntry /\ config_current_media' = config_current_media
    BY <1>4 DEF PrepareConfigureForm
  <2>2. selected' \in {Row, NoEntry}
    BY <2>1 DEF FormTypes
  <2>3. combo'.states = <<>> /\ combo'.index = -1 /\ Len(combo'.states) = 0
    BY <2>1, EmptySeq DEF Hidden
  <2>4. -1 \in -1 .. 0 - 1
    OBVIOUS
  <2>5. FormTypes'
    BY <1>1, <1>2, <2>1, <2>2, <2>3, <2>4 DEF FormTypes
  <2>6. ComboSays' /\ NameKept'
    BY <1>1, <1>2, <2>2, <2>3, NoRowIsEntry DEF ComboSays, NameKept
  <2> QED
    BY <1>1, <2>5, <2>6
<1> QED
  BY <1>3, <1>4

-----------------------------------------------------------------------------
(* The form settles.                                                       *)

\* What the form holds stays, and what was under way about the current item
\* still is.
LEMMA FormStays ==
    ASSUME FInv, lost' \subseteq outdated', outdated' \subseteq Items,
           UNCHANGED <<current, tree, tree_of, selected, config_current_build,
                       config_current_media, combo>>,
           Settled(current)' => Settled(current)
    PROVE  FInv'
BY DEF FInv, FormTypes, ComboSays, NameKept

LEMMA FormPage ==
    ASSUME IInv, FInv, (\E i \in Items : ShowItem(i)) \/ OpenForm \/ LeaveForm \/ ReturnToForm
    PROVE  FInv'
<1>1. ASSUME NEW i \in Items, ShowItem(i) PROVE FInv'
  <2>1. EntriesCall(i) \in Call /\ EntriesCall(i).item = i
    BY DEF EntriesCall, Call
  <2>2. About(Append(calls, EntriesCall(i)), i)
    BY <2>1, AboutAppended DEF IInv
  <2>3. current' = i /\ About(calls', i)
    BY <1>1, <2>2 DEF ShowItem
  <2>4. ~Settled(current)'
    BY <2>3 DEF Settled, About
  <2>5. FormTypes'
    BY <1>1 DEF ShowItem, history, FInv, FormTypes
  <2> QED
    BY <2>4, <2>5 DEF FInv
<1>2. ASSUME OpenForm \/ LeaveForm \/ ReturnToForm PROVE FInv'
  <2>1. UNCHANGED <<current, tree, tree_of, selected, config_current_build,
                    config_current_media, combo, calls, readings, lost, outdated>>
    BY <1>2 DEF OpenForm, LeaveForm, ReturnToForm, history
  <2>2. Settled(current)' => Settled(current)
    BY <2>1 DEF Settled
  <2> QED
    BY <2>1, <2>2, FormStays DEF FInv, FormTypes
<1> QED
  BY <1>1, <1>2

LEMMA FormSelect ==
    ASSUME IInv, FInv, SelectEntry \/ SelectRow
    PROVE  FInv'
<1>1. UNCHANGED <<current, tree, tree_of, readings, lost, outdated>>
  BY DEF SelectEntry, SelectRow, history
<1>2. CASE SelectEntry
  <2>1. PICK e \in DOMAIN tree : ItemChanged(e, tree[e])
    BY <1>2 DEF SelectEntry
  <2>2. e \in Rows /\ tree[e] \in AppItems(e)
    BY DEF IInv, TreeOK
  <2>3. calls' = calls
    BY <2>1, <2>2, ItemChangedSilent DEF IInv
  <2>4. FormTypes' /\ ComboSays' /\ NameKept'
    BY <1>1, <2>1, <2>2, ItemChangedForm DEF FInv, FormTypes
  <2> QED
    BY <1>1, <2>3, <2>4 DEF FInv, Settled
<1>3. CASE SelectRow
  <2>1. /\ selected' = Row /\ combo' = Hidden /\ calls' = calls
        /\ UNCHANGED <<config_current_build, config_current_media>>
    BY <1>3 DEF SelectRow
  <2>2. combo'.states = <<>> /\ combo'.index = -1 /\ Len(combo'.states) = 0
    BY <2>1, EmptySeq DEF Hidden
  <2>3. -1 \in -1 .. 0 - 1
    OBVIOUS
  <2>4. FormTypes'
    BY <1>1, <2>1, <2>2, <2>3 DEF FInv, FormTypes
  <2>5. ComboSays' /\ NameKept'
    BY <1>1, <2>1, <2>2, NoRowIsEntry DEF FInv, FormTypes, ComboSays, NameKept
  <2> QED
    BY <1>1, <2>1, <2>4, <2>5 DEF FInv, Settled
<1> QED
  BY <1>2, <1>3

\* A state chosen is the entry's, or a call about the item is under way.
LEMMA FormChoose ==
    ASSUME IInv, FInv, ChooseState
    PROVE  FInv'
<1>1. PICK k \in 0 .. Len(combo.states) - 1 :
         LET new  == combo.states[k + 1]
             call == StateCall(current, selected, new)
         IN  /\ combo' = [combo EXCEPT !.index = k]
             /\ call \in Call
             /\ calls' = IF new = tree[selected].state THEN calls ELSE Append(calls, call)
  BY ChooseMoves
<1> DEFINE call == StateCall(current, selected, combo.states[k + 1])
<1>2. UNCHANGED <<current, tree, tree_of, selected, config_current_build,
                  config_current_media, readings, lost, outdated>>
  BY DEF ChooseState, history
<1>3. /\ combo'.states = combo.states /\ combo'.shown = combo.shown /\ combo'.index = k
      /\ combo.shown /\ combo.states # <<>> /\ k >= 0
  <2>1. combo \in Combo /\ combo.shown
    BY DEF ChooseState, IInv
  <2>2. combo.states # <<>> /\ k >= 0
    BY EmptySeq
  <2> QED
    BY <1>1, <2>1, <2>2 DEF Combo
<1>4. FormTypes' /\ (NameKept => NameKept')
  <2>1. k \in -1 .. Len(combo.states) - 1
    OBVIOUS
  <2> QED
    BY <1>2, <1>3, <2>1 DEF FInv, FormTypes, NameKept
<1>5. CASE combo.states[k + 1] = tree[selected].state
  <2>1. calls' = calls
    BY <1>1, <1>5
  <2>2. Settled(current)' => Settled(current)
    BY <1>2, <2>1 DEF Settled
  <2>3. ComboSays => ComboSays'
    BY <1>2, <1>3, <1>5 DEF ComboSays
  <2> QED
    BY <1>2, <1>4, <2>2, <2>3 DEF FInv
<1>6. CASE combo.states[k + 1] # tree[selected].state
  <2>1. call.item = current
    BY DEF StateCall
  <2>2. calls' = Append(calls, call) /\ call \in Call
    BY <1>1, <1>6
  <2> HIDE DEF call
  <2>3. About(calls', current)
    BY <2>1, <2>2, AboutAppended DEF IInv
  <2> QED
    BY <1>2, <1>4, <2>3 DEF FInv, Settled, About
<1> QED
  BY <1>5, <1>6

\* An answer leaves what is under way about other items; about its own there
\* is a reading or a call, or it counts as lost.  If no call about it is left,
\* the last reading that is not late, if any, lists what the service has.
LEMMA AnswerMoves ==
    ASSUME IInv, Answer
    PROVE  \E i \in Items :
             /\ \A j : j # i => /\ About(calls, j) => About(calls', j)
                                /\ About(readings, j) => About(readings', j)
                                /\ j \in lost => j \in lost'
                                /\ j \in outdated => j \in outdated'
                                /\ \A f : LastLists(readings, j, f) => LastLists(readings', j, f)
             /\ About(calls', i) \/ About(readings', i) \/ i \in lost'
             /\ lost \subseteq outdated => lost' \subseteq outdated'
             /\ outdated' \subseteq outdated \cup {i}
             /\ \/ About(calls', i)
                \/ /\ svc' = svc /\ LastLists(readings', i, svc[i])
                   /\ About(readings', i) \/ i \in outdated'
             /\ \A j \in Items : j # i => svc'[j] = svc[j]
<1>1. PICK k \in DOMAIN calls :
         EntriesRead(k) \/ EntriesFail(k) \/ StateAnswered(k) \/ StateLost(k)
  BY DEF Answer
<1> DEFINE rest == RemoveAt(calls, k)
           i    == calls[k].item
<1>2. rest \in Seq(Call)
  BY OneRemoved DEF IInv
<1>3. calls[k] \in Call /\ i \in Items
  BY LenProperties DEF IInv, Call
<1>4. \A j : j # i /\ About(calls, j) => About(rest, j)
  BY AboutRemoved DEF IInv
<1>5. EntriesCall(i) \in Call /\ EntriesCall(i).item = i
  BY <1>3 DEF EntriesCall, Call
<1>6. /\ Reading(i, svc[i]) \in Reads
      /\ Reading(i, svc[i]).item = i /\ Reading(i, svc[i]).entries = svc[i]
  BY <1>3 DEF IInv, Reading, Reads
<1> HIDE DEF i, rest
<1>7. CASE EntriesRead(k)
  <2>1. /\ readings' = Append(readings, Reading(i, svc[i])) /\ calls' = rest
        /\ UNCHANGED <<svc, lost, outdated>>
    BY <1>7 DEF EntriesRead, i, rest, history
  <2>2. About(readings', i) /\ \A j : About(readings, j) => About(readings', j)
    BY <1>6, <2>1, AboutAppended DEF IInv
  <2>3. LastLists(readings', i, svc[i])
    BY <1>6, <2>1, LastAppended DEF IInv
  <2>4. \A j, f : j # i /\ LastLists(readings, j, f) => LastLists(readings', j, f)
    BY <1>6, <2>1, LastAppended DEF IInv
  <2> QED
    BY <1>3, <1>4, <2>1, <2>2, <2>3, <2>4
<1>8. CASE EntriesFail(k) \/ StateLost(k)
  <2>1. /\ readings' = Outdated(i, Len(readings) + 1) /\ calls' = rest /\ svc' = svc
        /\ lost' = lost \cup {i} /\ outdated' = outdated \cup {i}
    BY <1>8 DEF EntriesFail, StateLost, Lose, i, rest
  <2>2. LastLists(readings', i, svc[i])
    BY <2>1, AllMarked DEF IInv
  <2>3. \A j : About(readings, j) => About(readings', j)
    BY <2>1, AllMarked DEF IInv
  <2>4. \A j, f : LastLists(readings, j, f) => LastLists(readings', j, f)
    BY <2>1, AllMarked DEF IInv
  <2> QED
    BY <1>3, <1>4, <2>1, <2>2, <2>3, <2>4
<1>9. CASE StateAnswered(k)
  <2>1. /\ calls' = Append(rest, EntriesCall(i))
        /\ UNCHANGED <<readings, lost, outdated>>
    BY <1>9 DEF StateAnswered, i, rest, history
  <2>2. About(calls', i) /\ \A j : About(rest, j) => About(calls', j)
    BY <1>2, <1>5, <2>1, AboutAppended
  <2>3. \A j \in Items : j # i => svc'[j] = svc[j]
    BY <1>9 DEF StateAnswered, i, IInv
  <2> QED
    BY <1>3, <1>4, <2>1, <2>2, <2>3
<1> QED
  BY <1>1, <1>7, <1>8, <1>9

LEMMA FormAnswer ==
    ASSUME IInv, FInv, Answer
    PROVE  FInv'
<1>1. UNCHANGED <<current, tree, tree_of, selected, config_current_build,
                  config_current_media, combo>>
  BY DEF Answer, formVars
<1>2. PICK i \in Items :
         /\ \A j : j # i => /\ About(calls, j) => About(calls', j)
                            /\ About(readings, j) => About(readings', j)
                            /\ j \in lost => j \in lost'
         /\ About(calls', i) \/ About(readings', i) \/ i \in lost'
         /\ lost \subseteq outdated => lost' \subseteq outdated'
         /\ outdated' \subseteq outdated \cup {i}
  BY AnswerMoves
<1>3. CASE current = i
  BY <1>1, <1>2, <1>3, FormStays DEF FInv, FormTypes, Settled, About
<1>4. CASE current # i
  <2>1. Settled(current)' => Settled(current)
    BY <1>1, <1>2, <1>4 DEF Settled, About
  <2> QED
    BY <1>1, <1>2, <2>1, FormStays DEF FInv, FormTypes
<1> QED
  BY <1>3, <1>4

LEMMA FormSlot ==
    ASSUME IInv, FInv, ItemEntriesSlot
    PROVE  FInv'
<1>1. PICK k \in DOMAIN readings :
         LET i == readings[k].item
         IN  /\ readings' = RemoveAt(Outdated(i, k), k)
             /\ i \in Items /\ calls' = calls /\ current' = current
             /\ lost' = lost \ {i}
             /\ outdated' = IF readings[k].late THEN outdated \cup {i} ELSE outdated \ {i}
             /\ IF i = current /\ current \in Owned
                  THEN /\ readings[k].entries \in ItemEntries(current)
                       /\ PrepareConfigureForm(current, readings[k].entries)
                  ELSE UNCHANGED <<tree, tree_of, selected, config_current_build,
                                   config_current_media, combo>>
  BY SlotMoves
<1> DEFINE i == readings[k].item
<1>2. lost' \subseteq outdated' /\ outdated' \subseteq Items
  BY <1>1 DEF FInv, FormTypes
<1>3. CASE i = current /\ current \in Owned
  <2>1. FormTypes' /\ tree_of' = current /\ ComboSays' /\ NameKept'
    BY <1>1, <1>2, <1>3, PrepareForm DEF FInv
  <2> QED
    BY <1>1, <2>1 DEF FInv
<1>4. CASE ~(i = current /\ current \in Owned)
  <2>1. UNCHANGED <<tree, tree_of, selected, config_current_build,
                    config_current_media, combo>>
    BY <1>1, <1>4
  <2>2. current \in Owned /\ About(readings, current) => About(readings', current)
    BY <1>1, <1>4, ReadingTaken DEF IInv
  <2>3. current \in Owned /\ Settled(current)' => Settled(current)
    BY <1>1, <1>4, <2>2 DEF Settled, About
  <2> QED
    BY <1>1, <1>2, <2>1, <2>3 DEF FInv, FormTypes, ComboSays, NameKept
<1> QED
  BY <1>3, <1>4

LEMMA FormStep ==
    ASSUME IInv, FInv, [Next]_vars
    PROVE  FInv'
<1>1. CASE UNCHANGED vars
  BY <1>1, FormStays DEF vars, formVars, history, FInv, FormTypes, Settled
<1>2. CASE OthersMove
  BY <1>2, FormStays DEF OthersMove, formVars, history, FInv, FormTypes, Settled
<1> QED
  BY <1>1, <1>2, FormPage, FormSelect, FormChoose, FormAnswer, FormSlot DEF Next, User

-----------------------------------------------------------------------------
(* The form follows the service.                                           *)

\* A step that leaves the readings, the service and the tree, and calls that
\* were under way.
LEMMA FollowsStays ==
    ASSUME Follows, UNCHANGED <<current, tree, readings, svc, outdated>>,
           \A i \in Items : About(calls, i) => About(calls', i)
    PROVE  Follows'
BY DEF Follows

LEMMA FollowsUser ==
    ASSUME IInv, Follows, User
    PROVE  Follows'
<1>1. ASSUME NEW i \in Items, ShowItem(i) PROVE Follows'
  <2>1. EntriesCall(i) \in Call /\ EntriesCall(i).item = i
    BY DEF EntriesCall, Call
  <2>2. \A j : About(calls', j) <=> About(calls, j) \/ i = j
    BY <1>1, <2>1, AboutAppended DEF IInv, ShowItem
  <2>3. current' = i /\ UNCHANGED <<tree, readings, svc>>
    BY <1>1 DEF ShowItem
  <2> QED
    BY <2>2, <2>3 DEF Follows
<1>2. CASE OpenForm \/ LeaveForm \/ ReturnToForm \/ SelectRow
  BY <1>2, FollowsStays DEF OpenForm, LeaveForm, ReturnToForm, SelectRow, history
<1>3. CASE SelectEntry
  <2>1. PICK e \in DOMAIN tree : ItemChanged(e, tree[e])
    BY <1>3 DEF SelectEntry
  <2>2. calls' = calls
    BY <2>1, ItemChangedSilent DEF IInv, TreeOK
  <2> QED
    BY <1>3, <2>2, FollowsStays DEF SelectEntry, history
<1>4. CASE ChooseState
  <2>1. calls' = calls \/ \E call \in Call : calls' = Append(calls, call)
    BY <1>4, ChooseMoves
  <2>2. \A i \in Items : \A call \in Call :
          About(calls, i) => About(Append(calls, call), i)
    BY AboutAppended DEF IInv
  <2>3. \A i \in Items : About(calls, i) => About(calls', i)
    BY <2>1, <2>2
  <2> QED
    BY <1>4, <2>3, FollowsStays DEF ChooseState, history
<1> QED
  BY <1>1, <1>2, <1>3, <1>4 DEF User

LEMMA FollowsAnswer ==
    ASSUME IInv, Follows, Answer
    PROVE  Follows'
<1>1. PICK i \in Items :
         /\ \A j : j # i => /\ About(calls, j) => About(calls', j)
                            /\ About(readings, j) => About(readings', j)
                            /\ j \in outdated => j \in outdated'
                            /\ \A f : LastLists(readings, j, f) => LastLists(readings', j, f)
         /\ \/ About(calls', i)
            \/ /\ svc' = svc /\ LastLists(readings', i, svc[i])
               /\ About(readings', i) \/ i \in outdated'
         /\ \A j \in Items : j # i => svc'[j] = svc[j]
  BY AnswerMoves
<1>2. UNCHANGED <<current, tree>>
  BY DEF Answer, formVars
<1>3. ASSUME NEW j \in Items, ~About(calls', j)
      PROVE  /\ LastLists(readings', j, svc'[j])
             /\ (j \in Owned /\ current' = j /\ j \notin outdated' /\ ~About(readings', j))
                  => tree' = svc'[j]
  <2>1. CASE j # i
    <3>1. /\ LastLists(readings, j, svc[j]) /\ svc'[j] = svc[j]
          /\ (j \in Owned /\ current = j /\ j \notin outdated /\ ~About(readings, j))
               => tree = svc[j]
      BY <1>1, <1>3, <2>1 DEF Follows
    <3> QED
      BY <1>1, <1>2, <2>1, <3>1
  <2>2. CASE j = i
    BY <1>1, <1>3, <2>2
  <2> QED
    BY <2>1, <2>2
<1> QED
  BY <1>3 DEF Follows

LEMMA FollowsSlot ==
    ASSUME IInv, Follows, ItemEntriesSlot
    PROVE  Follows'
<1>1. PICK k \in DOMAIN readings :
         LET i == readings[k].item
         IN  /\ readings' = RemoveAt(Outdated(i, k), k)
             /\ i \in Items /\ calls' = calls /\ UNCHANGED <<current, svc>>
             /\ outdated' = IF readings[k].late THEN outdated \cup {i} ELSE outdated \ {i}
             /\ IF i = current /\ current \in Owned
                  THEN PrepareConfigureForm(current, readings[k].entries)
                  ELSE tree' = tree
  BY SlotMoves
<1> DEFINE i == readings[k].item
<1>2. /\ \A j : About(readings, j) => j = i \/ About(readings', j)
      /\ \A j, f : LastLists(readings, j, f) => LastLists(readings', j, f)
      /\ \A f : LastLists(readings, i, f) /\ ~readings[k].late /\ ~About(readings', i)
                   => readings[k].entries = f
  <2>1. readings \in Seq(Reads) /\ readings' = RemoveAt(Outdated(i, k), k)
    BY <1>1 DEF IInv
  <2> HIDE DEF i
  <2>2. i = readings[k].item
    BY DEF i
  <2> QED
    BY <2>1, <2>2, ReadingTaken
<1>3. ASSUME NEW j \in Items, ~About(calls', j)
      PROVE  /\ LastLists(readings', j, svc'[j])
             /\ (j \in Owned /\ current' = j /\ j \notin outdated' /\ ~About(readings', j))
                  => tree' = svc'[j]
  <2>1. /\ LastLists(readings, j, svc[j])
        /\ (j \in Owned /\ current = j /\ j \notin outdated /\ ~About(readings, j))
             => tree = svc[j]
    BY <1>1, <1>3 DEF Follows
  <2>2. LastLists(readings', j, svc'[j])
    BY <1>1, <1>2, <2>1
  <2>3. ASSUME j \in Owned, current = j, j \notin outdated', ~About(readings', j)
        PROVE  tree' = svc[j]
    <3>1. CASE i = j
      <4>1. ~readings[k].late
        BY <1>1, <2>3, <3>1
      <4>2. readings[k].entries = svc[j]
        BY <1>2, <2>1, <2>3, <3>1, <4>1
      <4>3. PrepareConfigureForm(current, readings[k].entries)
        BY <1>1, <2>3, <3>1
      <4> QED
        BY <4>2, <4>3 DEF PrepareConfigureForm
    <3>2. CASE i # j
      <4>1. tree' = tree /\ j \notin outdated /\ ~About(readings, j)
        BY <1>1, <1>2, <2>3, <3>2
      <4> QED
        BY <2>1, <2>3, <4>1
    <3> QED
      BY <3>1, <3>2
  <2> QED
    BY <1>1, <2>2, <2>3
<1> QED
  BY <1>3 DEF Follows

LEMMA FollowsStep ==
    ASSUME ~Others, IInv, Follows, [Next]_vars
    PROVE  Follows'
<1>1. CASE UNCHANGED vars
  BY <1>1, FollowsStays DEF vars, formVars, history
<1>2. ~OthersMove
  BY DEF OthersMove
<1> QED
  BY <1>1, <1>2, FollowsUser, FollowsAnswer, FollowsSlot DEF Next

-----------------------------------------------------------------------------
(* The theorems.                                                           *)

LEMMA InitIInv == Init => IInv
<1> SUFFICES ASSUME Init PROVE IInv
  OBVIOUS
<1>1. \A i \in Items : svc[i] \in ItemEntries(i)
  <2> TAKE i \in Items
  <2>1. DOMAIN svc[i] = Entries[i] /\ \A e \in Entries[i] : svc[i][e] \in AppItems(e)
    BY DEF Init
  <2>2. \E j \in Items : svc[i] \in [Entries[j] -> UNION {AppItems(e) : e \in Entries[j]}]
    BY DEF Init
  <2>3. svc[i] \in [Entries[i] -> UNION {AppItems(e) : e \in Entries[i]}]
    BY <2>1, <2>2
  <2> QED
    BY <2>1, <2>3 DEF ItemEntries
<1>2. DOMAIN svc = Items
  BY DEF Init
<1>3. combo \in Combo /\ selected \in Rows /\ TreeOK
  BY DEF Init, Combo, Offers, Rows, TreeOK
<1>4. calls \in Seq(Call) /\ readings \in Seq(Reads)
  BY DEF Init
<1> QED
  BY <1>1, <1>2, <1>3, <1>4 DEF Init, IInv

LEMMA Step ==
    ASSUME ServiceChecks, IInv, [Next]_vars
    PROVE  IInv' /\ (Sends => ChooseState)
<1>1. CASE UNCHANGED vars
  BY <1>1 DEF vars, formVars, IInv, TreeOK, Sends
<1>2. CASE Next
  BY <1>2, PageStep, SelectStep, ChooseStep, AnswerStep, OthersStep, SlotStep
     DEF Next, User
<1> QED
  BY <1>1, <1>2

\* With a service that moves an entry only where its flags allow, selecting,
\* refreshing, and coming back to the form never send a change of state,
\* whatever reviewers and other sessions do and whichever calls are lost.
THEOREM SelectionSilent == ASSUME ServiceChecks PROVE Spec => SelectionIsSilent
<1>1. IInv /\ [Next]_vars => IInv' /\ [Sends => ChooseState]_vars
  BY Step
<1> QED
  BY <1>1, InitIInv, PTL DEF Spec, SelectionIsSilent

LEMMA InitForm == Init => FInv /\ Follows
<1> SUFFICES ASSUME Init PROVE FInv /\ Follows
  OBVIOUS
<1>1. /\ tree = <<>> /\ tree_of = None /\ selected = NoEntry
      /\ config_current_build = NoEntry /\ config_current_media = NoEntry
      /\ combo.states = <<>> /\ combo.index = -1 /\ lost = {} /\ outdated = {}
      /\ readings = <<>>
      /\ current = None
  BY DEF Init
<1>2. Len(combo.states) = 0 /\ -1 \in -1 .. 0 - 1 /\ DOMAIN tree = {} /\ DOMAIN readings = {}
  BY <1>1, EmptySeq
<1>3. FormTypes
  BY <1>1, <1>2 DEF FormTypes
<1>4. ComboSays /\ NameKept
  BY <1>1, <1>2 DEF ComboSays, NameKept
<1>5. Follows
  BY <1>1, <1>2, ConfigureFormAssumption DEF Follows, LastLists
<1> QED
  BY <1>1, <1>3, <1>4, <1>5 DEF FInv

LEMMA ItemTypes ==
    ASSUME NEW e, NEW x \in AppItems(e)
    PROVE  x \in AppItemE
<1> USE DEF AppItem, AppItemE, StateE, Reviewing, Range, AcceptedStates, RejectedStates
<1>1. CASE ~Build(e)
  BY <1>1 DEF AppItems
<1>2. CASE Build(e)
  BY <1>2 DEF AppItems
<1> QED
  BY <1>1, <1>2

LEMMA FInvImplies ==
    ASSUME IInv, FInv
    PROVE  TypeOK /\ FormSettles /\ RefreshSelects
<1>1. TypeOK
  <2>1. \A e \in DOMAIN tree : tree[e] \in AppItemE
    BY ItemTypes DEF IInv, TreeOK
  <2>2. combo.shown \in BOOLEAN
    BY DEF IInv, Combo
  <2>3. \A k \in DOMAIN calls : calls[k].kind \in {"entries", "state"}
    <3>1. \A k \in DOMAIN calls : calls[k] \in Call
      BY LenProperties DEF IInv
    <3> QED
      BY <3>1 DEF Call
  <2> QED
    BY <2>1, <2>2, <2>3 DEF IInv, FInv, FormTypes, TypeOK
<1>2. FormSettles
  BY DEF FInv, ComboSays, FormSettles
<1>3. ASSUME current \in Owned, Settled(current), selected \in DOMAIN tree
      PROVE  Reselected(tree) = IF Build(selected) \/ config_current_build = NoEntry
                                  THEN selected ELSE config_current_build
  <2>1. /\ selected = IF Build(selected) THEN config_current_build ELSE config_current_media
        /\ config_current_build \in DOMAIN tree \cup {NoEntry}
    BY <1>3 DEF FInv, FormTypes, NameKept
  <2>2. selected # NoEntry
    BY <1>3, NoRowIsEntry DEF FInv, FormTypes
  <2> QED
    BY <1>3, <2>1, <2>2 DEF Reselected
<1> QED
  BY <1>1, <1>2, <1>3 DEF RefreshSelects

\* The form holds entries of the items, and names of entries of the kind
\* each name is for.
THEOREM FormHasTypes == ASSUME ServiceChecks PROVE Spec => []TypeOK
<1>1. IInv /\ FInv /\ [Next]_vars => IInv' /\ FInv'
  BY Step, FormStep
<1> QED
  BY <1>1, InitIInv, InitForm, FInvImplies, PTL DEF Spec

\* Whatever the user does while calls are under way, and whatever others do,
\* with nothing under way the form is that of the current item and the combo
\* box is at the state of the entry it is on.
THEOREM FormComesToRest == ASSUME ServiceChecks PROVE Spec => []FormSettles
<1>1. IInv /\ FInv /\ [Next]_vars => IInv' /\ FInv'
  BY Step, FormStep
<1> QED
  BY <1>1, InitIInv, InitForm, FInvImplies, PTL DEF Spec

\* The name of a build that a refresh looks for is in the tree, so that with
\* nothing under way it selects what was selected, or the build that was
\* selected before a media entry.
THEOREM RefreshReselects == ASSUME ServiceChecks PROVE Spec => []RefreshSelects
<1>1. IInv /\ FInv /\ [Next]_vars => IInv' /\ FInv'
  BY Step, FormStep
<1> QED
  BY <1>1, InitIInv, InitForm, FInvImplies, PTL DEF Spec

\* With no one else at work, and nothing under way for an owned item that is
\* current, its form lists what the service has, unless the last reading that
\* came was late: on two connections the readings of an item may cross, and
\* nothing but another one that is in time brings the form up to date.
THEOREM FormFollowsService ==
    ASSUME ServiceChecks, ~Others PROVE Spec => []AgreesWithService
<1>1. IInv /\ Follows /\ [Next]_vars => IInv' /\ Follows'
  BY Step, FollowsStep
<1>2. Follows => AgreesWithService
  BY ConfigureFormAssumption DEF Follows, AgreesWithService, Settled, About
<1> QED
  BY <1>1, <1>2, InitIInv, InitForm, PTL DEF Spec
=============================================================================
