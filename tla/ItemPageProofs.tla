--------------------------- MODULE ItemPageProofs ---------------------------
(***************************************************************************)
(* Proofs about ItemPage, for any items, owners, builds and number of      *)
(* calls and events under way.                                             *)
(*                                                                         *)
(* PInv is the first invariant: types, the stored list, and the controls,  *)
(* which follow the flag unless an acquisition of the item is under way.   *)
(* Agreeing is about queues: of those calls or events that are alike (of   *)
(* one kind and about one item) the last one says what the item is to end  *)
(* with, and taking an element that no other like it precedes keeps that   *)
(* so.  Settled is about the combo box: once the entries of the item shown *)
(* have come no two of them stand for one build, so that choosing another  *)
(* entry chooses another build.                                            *)
(***************************************************************************)
EXTENDS ItemPage, SequenceTheorems, FiniteSetTheorems, TLAPS

-----------------------------------------------------------------------------
(* Calls and events as sequences.                                          *)

\* Some element of s is of the kind and about item i.
Has(s, kind, i) == \E k \in DOMAIN s : s[k].kind = kind /\ s[k].item = i

\* Elements c and d are of one kind and about one item.
Alike(c, d) == c.kind = d.kind /\ c.item = d.item

\* If s has elements like c, the last of them is c.
Newest(s, c) ==
    \A k \in DOMAIN s :
      (Alike(s[k], c) /\ \A l \in DOMAIN s : l > k => ~Alike(s[l], c)) => s[k] = c

\* What RemoveAt leaves, and where.
LEMMA Removed ==
    ASSUME NEW S, NEW s \in Seq(S), NEW k \in DOMAIN s
    PROVE  /\ RemoveAt(s, k) \in Seq(S)
           /\ Len(RemoveAt(s, k)) = Len(s) - 1
           /\ \A j \in 1 .. Len(s) - 1 :
                RemoveAt(s, k)[j] = IF j < k THEN s[j] ELSE s[j + 1]
<1>1. /\ Len(s) \in Nat /\ k \in 1 .. Len(s) /\ DOMAIN s = 1 .. Len(s)
      /\ \A j \in 1 .. Len(s) : s[j] \in S
  BY LenProperties
<1> DEFINE a == SubSeq(s, 1, k - 1)
           b == SubSeq(s, k + 1, Len(s))
<1>2. a \in Seq(S) /\ Len(a) = k - 1 /\ \A j \in 1 .. k - 1 : a[j] = s[j]
  <2>1. \A j \in 1 .. k - 1 : s[j] \in S
    BY <1>1
  <2>2. \A j \in 1 .. (k - 1) - 1 + 1 : a[j] = s[1 + j - 1]
    BY <1>1, <2>1, SubSeqProperties
  <2> HIDE DEF a
  <2>3. \A j \in 1 .. k - 1 : a[j] = s[j]
    BY <1>1, <2>2
  <2> USE DEF a
  <2> QED
    BY <1>1, <2>1, <2>3, SubSeqProperties
<1>3. /\ b \in Seq(S) /\ Len(b) = Len(s) - k
      /\ \A j \in 1 .. Len(s) - k : b[j] = s[k + j]
  <2>1. \A j \in k + 1 .. Len(s) : s[j] \in S
    BY <1>1
  <2>2. \A j \in 1 .. Len(s) - (k + 1) + 1 : b[j] = s[(k + 1) + j - 1]
    BY <1>1, <2>1, SubSeqProperties
  <2> HIDE DEF b
  <2>3. \A j \in 1 .. Len(s) - k : b[j] = s[k + j]
    BY <1>1, <2>2
  <2> USE DEF b
  <2> QED
    BY <1>1, <2>1, <2>3, SubSeqProperties
<1>4. RemoveAt(s, k) = a \o b
  BY DEF RemoveAt
<1> HIDE DEF a, b
<1>5. /\ a \o b \in Seq(S) /\ Len(a \o b) = Len(a) + Len(b)
      /\ \A j \in 1 .. Len(a) + Len(b) :
           (a \o b)[j] = IF j <= Len(a) THEN a[j] ELSE b[j - Len(a)]
  BY <1>2, <1>3, ConcatProperties
<1>6. ASSUME NEW j \in 1 .. Len(s) - 1
      PROVE  (a \o b)[j] = IF j < k THEN s[j] ELSE s[j + 1]
  <2>1. CASE j < k
    BY <1>1, <1>2, <1>3, <1>5, <2>1
  <2>2. CASE ~(j < k)
    <3>1. (a \o b)[j] = b[j - (k - 1)]
      BY <1>1, <1>2, <1>3, <1>5, <2>2
    <3>2. j - (k - 1) \in 1 .. Len(s) - k /\ k + (j - (k - 1)) = j + 1
      BY <1>1, <2>2
    <3> QED
      BY <1>3, <2>2, <3>1, <3>2
  <2> QED
    BY <2>1, <2>2
<1> QED
  BY <1>1, <1>2, <1>3, <1>4, <1>5, <1>6

\* What has been removed, and what was there is there still.
LEMMA HasRemoved ==
    ASSUME NEW S, NEW s \in Seq(S), NEW k \in DOMAIN s, NEW kind, NEW i
    PROVE  Has(s, kind, i) <=> \/ s[k].kind = kind /\ s[k].item = i
                               \/ Has(RemoveAt(s, k), kind, i)
<1> DEFINE r == RemoveAt(s, k)
<1>1. /\ r \in Seq(S) /\ Len(r) = Len(s) - 1
      /\ \A j \in 1 .. Len(s) - 1 : r[j] = IF j < k THEN s[j] ELSE s[j + 1]
  BY Removed
<1> HIDE DEF r
<1>2. /\ Len(s) \in Nat /\ DOMAIN s = 1 .. Len(s) /\ DOMAIN r = 1 .. Len(s) - 1
  BY <1>1, LenProperties
<1>3. ASSUME NEW j \in DOMAIN s, j # k PROVE \E l \in DOMAIN r : r[l] = s[j]
  <2>1. CASE j < k
    BY <1>1, <1>2, <2>1
  <2>2. CASE ~(j < k)
    <3>1. j - 1 \in 1 .. Len(s) - 1 /\ ~(j - 1 < k) /\ (j - 1) + 1 = j
      BY <1>2, <1>3, <2>2
    <3> QED
      BY <1>1, <1>2, <3>1
  <2> QED
    BY <2>1, <2>2
<1>4. ASSUME NEW l \in DOMAIN r PROVE \E j \in DOMAIN s : r[l] = s[j]
  BY <1>1, <1>2
<1>5. CASE Has(s, kind, i)
  BY <1>3, <1>5 DEF Has, r
<1>6. CASE Has(r, kind, i)
  BY <1>4, <1>6 DEF Has, r
<1>7. s[k].kind = kind /\ s[k].item = i => Has(s, kind, i)
  BY DEF Has
<1> QED
  BY <1>5, <1>6, <1>7 DEF r

LEMMA HasAppended ==
    ASSUME NEW S, NEW s \in Seq(S), NEW e \in S, NEW kind, NEW i
    PROVE  Has(Append(s, e), kind, i) <=> Has(s, kind, i) \/ (e.kind = kind /\ e.item = i)
<1> DEFINE t == Append(s, e)
<1>1. /\ t \in Seq(S) /\ Len(t) = Len(s) + 1 /\ t[Len(s) + 1] = e
      /\ \A j \in 1 .. Len(s) : t[j] = s[j]
  BY AppendProperties
<1> HIDE DEF t
<1>2. /\ Len(s) \in Nat /\ DOMAIN s = 1 .. Len(s) /\ DOMAIN t = 1 .. Len(s) + 1
  BY <1>1, LenProperties
<1>3. \A j \in DOMAIN t : j \in DOMAIN s \/ j = Len(s) + 1
  BY <1>2
<1>4. DOMAIN s \subseteq DOMAIN t /\ Len(s) + 1 \in DOMAIN t
  BY <1>2
<1>5. Has(t, kind, i) <=> Has(s, kind, i) \/ (e.kind = kind /\ e.item = i)
  BY <1>1, <1>2, <1>3, <1>4 DEF Has
<1> QED
  BY <1>5 DEF t

LEMMA HasTail ==
    ASSUME NEW S, NEW s \in Seq(S), s # <<>>, NEW kind, NEW i
    PROVE  Has(s, kind, i) <=> \/ Head(s).kind = kind /\ Head(s).item = i
                               \/ Has(Tail(s), kind, i)
<1> DEFINE t == Tail(s)
<1>1. /\ t \in Seq(S) /\ Len(t) = Len(s) - 1 /\ Head(s) = s[1]
      /\ \A j \in 1 .. Len(t) : t[j] = s[j + 1]
  BY HeadTailProperties
<1> HIDE DEF t
<1>2. /\ Len(s) \in Nat \ {0} /\ DOMAIN s = 1 .. Len(s) /\ DOMAIN t = 1 .. Len(s) - 1
  BY <1>1, LenProperties, EmptySeq
<1>3. ASSUME NEW j \in DOMAIN s, j # 1 PROVE \E l \in DOMAIN t : t[l] = s[j]
  <2>1. j - 1 \in 1 .. Len(s) - 1 /\ (j - 1) + 1 = j
    BY <1>2, <1>3
  <2> QED
    BY <1>1, <1>2, <2>1
<1>4. ASSUME NEW l \in DOMAIN t PROVE \E j \in DOMAIN s : t[l] = s[j]
  BY <1>1, <1>2
<1>5. 1 \in DOMAIN s
  BY <1>2
<1>6. Has(s, kind, i) <=> (Head(s).kind = kind /\ Head(s).item = i) \/ Has(t, kind, i)
  BY <1>1, <1>3, <1>4, <1>5 DEF Has
<1> QED
  BY <1>6 DEF t

-----------------------------------------------------------------------------
(* The last of those alike.                                                *)

LEMMA NewestAppended ==
    ASSUME NEW S, NEW s \in Seq(S), NEW e \in S, NEW c,
           Alike(e, c) => e = c,
           ~Alike(e, c) => Newest(s, c)
    PROVE  Newest(Append(s, e), c)
<1> DEFINE t == Append(s, e)
<1>1. /\ t \in Seq(S) /\ Len(t) = Len(s) + 1 /\ t[Len(s) + 1] = e
      /\ \A j \in 1 .. Len(s) : t[j] = s[j]
  BY AppendProperties
<1> HIDE DEF t
<1>2. /\ Len(s) \in Nat /\ DOMAIN s = 1 .. Len(s) /\ DOMAIN t = 1 .. Len(s) + 1
  BY <1>1, LenProperties
<1>3. ASSUME NEW k \in DOMAIN t, Alike(t[k], c),
             \A l \in DOMAIN t : l > k => ~Alike(t[l], c)
      PROVE  t[k] = c
  <2>1. CASE k = Len(s) + 1
    BY <1>1, <1>3, <2>1
  <2>2. CASE k # Len(s) + 1
    <3>1. k \in DOMAIN s /\ Len(s) + 1 > k /\ Len(s) + 1 \in DOMAIN t
      BY <1>2, <2>2
    <3>2. ~Alike(e, c)
      BY <1>1, <1>3, <3>1
    <3>3. \A l \in DOMAIN s : l \in DOMAIN t /\ t[l] = s[l]
      BY <1>1, <1>2
    <3> QED
      BY <1>3, <3>1, <3>2, <3>3 DEF Newest
  <2> QED
    BY <2>1, <2>2
<1>4. Newest(t, c)
  BY <1>3 DEF Newest
<1> QED
  BY <1>4 DEF t

\* Taking the first one leaves the last; with none left, it was the last.
LEMMA NewestTail ==
    ASSUME NEW S, NEW s \in Seq(S), s # <<>>, NEW c, Newest(s, c)
    PROVE  /\ Newest(Tail(s), c)
           /\ (Alike(Head(s), c) /\ ~Has(Tail(s), c.kind, c.item)) => Head(s) = c
<1> DEFINE t == Tail(s)
<1>1. /\ t \in Seq(S) /\ Len(t) = Len(s) - 1 /\ Head(s) = s[1]
      /\ \A j \in 1 .. Len(t) : t[j] = s[j + 1]
  BY HeadTailProperties
<1> HIDE DEF t
<1>2. /\ Len(s) \in Nat \ {0} /\ DOMAIN s = 1 .. Len(s) /\ DOMAIN t = 1 .. Len(s) - 1
  BY <1>1, LenProperties, EmptySeq
<1>3. \A j \in DOMAIN s : j # 1 => j - 1 \in DOMAIN t /\ t[j - 1] = s[j]
  <2> TAKE j \in DOMAIN s
  <2> HAVE j # 1
  <2>1. j - 1 \in 1 .. Len(s) - 1 /\ (j - 1) + 1 = j
    BY <1>2
  <2> QED
    BY <1>1, <1>2, <2>1
<1>4. ASSUME NEW k \in DOMAIN t, Alike(t[k], c),
             \A l \in DOMAIN t : l > k => ~Alike(t[l], c)
      PROVE  t[k] = c
  <2>1. k + 1 \in DOMAIN s /\ t[k] = s[k + 1]
    BY <1>1, <1>2
  <2>2. ASSUME NEW l \in DOMAIN s, l > k + 1 PROVE ~Alike(s[l], c)
    <3>1. l # 1 /\ l - 1 > k
      BY <1>2, <2>2
    <3> QED
      BY <1>3, <1>4, <3>1
  <2> QED
    BY <1>4, <2>1, <2>2 DEF Newest
<1>5. Newest(t, c)
  BY <1>4 DEF Newest
<1>6. ASSUME Alike(Head(s), c), ~Has(t, c.kind, c.item) PROVE Head(s) = c
  <2>1. \A l \in DOMAIN s : l > 1 => ~Alike(s[l], c)
    <3> SUFFICES ASSUME NEW l \in DOMAIN s, l > 1 PROVE ~Alike(s[l], c)
      OBVIOUS
    <3>1. l - 1 \in DOMAIN t /\ t[l - 1] = s[l]
      BY <1>2, <1>3
    <3> QED
      BY <1>6, <3>1 DEF Has, Alike
  <2>2. 1 \in DOMAIN s
    BY <1>2
  <2> QED
    BY <1>1, <1>6, <2>1, <2>2 DEF Newest
<1> QED
  BY <1>5, <1>6 DEF t

\* So does removing one that is the first of its kind about its item.
LEMMA NewestRemoved ==
    ASSUME NEW S, NEW s \in Seq(S), NEW k \in DOMAIN s, NEW c, Newest(s, c),
           \A j \in 1 .. k - 1 : ~Alike(s[j], s[k])
    PROVE  /\ Newest(RemoveAt(s, k), c)
           /\ (Alike(s[k], c) /\ ~Has(RemoveAt(s, k), c.kind, c.item)) => s[k] = c
<1> DEFINE r == RemoveAt(s, k)
<1>1. /\ r \in Seq(S) /\ Len(r) = Len(s) - 1
      /\ \A j \in 1 .. Len(s) - 1 : r[j] = IF j < k THEN s[j] ELSE s[j + 1]
  BY Removed
<1> HIDE DEF r
<1>2. /\ Len(s) \in Nat /\ DOMAIN s = 1 .. Len(s) /\ DOMAIN r = 1 .. Len(s) - 1
  BY <1>1, LenProperties
<1>3. ASSUME NEW j \in DOMAIN s, j > k PROVE j - 1 \in DOMAIN r /\ r[j - 1] = s[j]
  <2>1. j - 1 \in 1 .. Len(s) - 1 /\ ~(j - 1 < k) /\ (j - 1) + 1 = j
    BY <1>2, <1>3
  <2> QED
    BY <1>1, <1>2, <2>1
<1>4. ASSUME NEW j \in DOMAIN s, j < k PROVE j \in DOMAIN r /\ r[j] = s[j]
  BY <1>1, <1>2, <1>4
<1>5. ASSUME NEW p \in DOMAIN r, Alike(r[p], c),
             \A l \in DOMAIN r : l > p => ~Alike(r[l], c)
      PROVE  r[p] = c
  <2>1. CASE p < k
    <3>1. p \in DOMAIN s /\ r[p] = s[p]
      BY <1>1, <1>2, <2>1
    <3>2. ~Alike(s[k], c)
      <4>1. p \in 1 .. k - 1
        BY <1>2, <2>1
      <4> QED
        BY <1>5, <3>1, <4>1 DEF Alike
    <3>3. ASSUME NEW l \in DOMAIN s, l > p PROVE ~Alike(s[l], c)
      <4>1. CASE l < k
        BY <1>4, <1>5, <3>3, <4>1
      <4>2. CASE l = k
        BY <3>2, <4>2
      <4>3. CASE l > k
        <5>1. l - 1 > p
          BY <1>2, <2>1, <4>3
        <5> QED
          BY <1>3, <1>5, <4>3, <5>1
      <4> QED
        BY <1>2, <4>1, <4>2, <4>3
    <3> QED
      BY <1>5, <3>1, <3>3 DEF Newest
  <2>2. CASE ~(p < k)
    <3>1. p + 1 \in DOMAIN s /\ r[p] = s[p + 1]
      BY <1>1, <1>2, <2>2
    <3>2. ASSUME NEW l \in DOMAIN s, l > p + 1 PROVE ~Alike(s[l], c)
      <4>1. l > k /\ l - 1 > p
        BY <1>2, <2>2, <3>2
      <4> QED
        BY <1>3, <1>5, <4>1
    <3> QED
      BY <1>5, <3>1, <3>2 DEF Newest
  <2> QED
    BY <2>1, <2>2
<1>6. Newest(r, c)
  BY <1>5 DEF Newest
<1>7. ASSUME Alike(s[k], c), ~Has(r, c.kind, c.item) PROVE s[k] = c
  <2>1. ASSUME NEW l \in DOMAIN s, l > k PROVE ~Alike(s[l], c)
    BY <1>3, <1>7, <2>1 DEF Has, Alike
  <2> QED
    BY <1>7, <2>1 DEF Newest
<1> QED
  BY <1>6, <1>7 DEF r

-----------------------------------------------------------------------------
(* The types.                                                              *)

EntryE  == [text : BuildIds, state : StateE]
Fetched == UNION {[Builds[i] -> StateE] : i \in Items}
EventE  == [kind : {"acquire"}, item : Items, acquire : BOOLEAN]
             \cup [kind : {"entries"}, item : Items, builds : Fetched]
             \cup [kind : {"data"}, item : Items, build : BuildIds]

\* An empty combo box, or the fixed entries and more.
Combos == {s \in Seq(EntryE) :
             s # <<>> => /\ Len(s) >= 5
                         /\ \A k \in 1 .. 5 : s[k].state = "Invalid"}

Types ==
    /\ current \in Items \cup {None} /\ aquired \subseteq Items
    /\ build_id \in [Items -> BuildIds]
    /\ data \in [Items -> BuildIds \cup {None}]
    /\ app_list \in [Items -> BuildIds]
    /\ button \in BOOLEAN /\ enabled \in BOOLEAN /\ review_shown \in BOOLEAN
    /\ combo \in Combos /\ combo_index \in -1 .. Len(combo) - 1
    /\ review_shown => current \in Items /\ combo_index >= 0
    /\ calls \in Seq(CallE) /\ events \in Seq(EventE)
    /\ svc_aquired \subseteq Items /\ svc_state \in [Offered -> StateE]

LEMMA FixedTypes ==
    /\ \A k \in 1 .. 5 : FixedIds[k] \in BuildIds
    /\ {Latest, PrivateAlpha, "Private Alpha"} \subseteq BuildIds
    /\ \A i \in Items : Builds[i] \subseteq BuildIds
    /\ ReviewStates \subseteq StateE /\ {"Invalid", "Trash"} \subseteq StateE
<1>1. FixedIds[1] = Latest
  BY DEF FixedIds
<1>2. \A k \in 1 .. 5 : FixedIds[k] \in BuildIds
  BY DEF BuildIds
<1>3. Latest \in BuildIds
  BY <1>1, <1>2
<1>4. \A i \in Items : Builds[i] \subseteq BuildIds
  BY DEF BuildIds
<1> QED
  BY <1>2, <1>3, <1>4 DEF BuildIds, StateE

\* What the four kinds of calls are made of.
LEMMA CallTypes ==
    ASSUME NEW c \in CallE
    PROVE  /\ c.item \in Items /\ c.kind \in {"acquire", "entries", "data", "state"}
           /\ c.kind = "acquire" => c \in [kind : {"acquire"}, item : Items, acquire : BOOLEAN]
           /\ c.kind = "data" => c \in [kind : {"data"}, item : Items, build : BuildIds]
           /\ c.kind = "state" => c.name \in BuildIds /\ c.new \in ReviewStates
<1>1. CASE c \in [kind : {"acquire"}, item : Items, acquire : BOOLEAN]
  BY <1>1
<1>2. CASE c \in [kind : {"entries"}, item : Items]
  BY <1>2
<1>3. CASE c \in [kind : {"data"}, item : Items, build : BuildIds]
  BY <1>3
<1>4. CASE c \in [kind : {"state"}, item : Items, name : BuildIds, new : ReviewStates]
  BY <1>4
<1> QED
  BY <1>1, <1>2, <1>3, <1>4 DEF CallE

LEMMA EventTypes ==
    ASSUME NEW e \in EventE
    PROVE  /\ e.item \in Items /\ e.kind \in {"acquire", "entries", "data"}
           /\ e.kind = "acquire" => e.acquire \in BOOLEAN
           /\ e.kind = "entries" => e.builds \in Fetched
           /\ e.kind = "data" => e.build \in BuildIds
<1>1. CASE e \in [kind : {"acquire"}, item : Items, acquire : BOOLEAN]
  BY <1>1
<1>2. CASE e \in [kind : {"entries"}, item : Items, builds : Fetched]
  BY <1>2
<1>3. CASE e \in [kind : {"data"}, item : Items, build : BuildIds]
  BY <1>3
<1> QED
  BY <1>1, <1>2, <1>3 DEF EventE

\* The calls of item i, each with what Has and Alike see of it.
LEMMA MadeCalls ==
    ASSUME NEW i \in Items
    PROVE  /\ \A b \in BOOLEAN : /\ AcquireCall(i, b) \in CallE
                                 /\ AcquireCall(i, b).kind = "acquire"
                                 /\ AcquireCall(i, b).item = i
                                 /\ AcquireCall(i, b).acquire = b
           /\ EntriesCall(i) \in CallE /\ EntriesCall(i).kind = "entries" /\ EntriesCall(i).item = i
           /\ \A id \in BuildIds : /\ DataCall(i, id) \in CallE
                                   /\ DataCall(i, id).kind = "data" /\ DataCall(i, id).item = i
                                   /\ DataCall(i, id).build = id
           /\ \A id \in BuildIds, new \in ReviewStates :
                /\ StateCall(i, id, new) \in CallE
                /\ StateCall(i, id, new).kind = "state" /\ StateCall(i, id, new).item = i
BY DEF AcquireCall, EntriesCall, DataCall, StateCall, CallE

-----------------------------------------------------------------------------
(* The combo box.                                                          *)

LEMMA BuildAtType ==
    ASSUME NEW cmb \in Combos, NEW i, NEW k \in 0 .. Len(cmb) - 1
    PROVE  BuildAt(cmb, i, k) \in BuildIds
<1>1. cmb \in Seq(EntryE) /\ Len(cmb) \in Nat
  BY LenProperties DEF Combos
<1>2. k + 1 \in 1 .. Len(cmb)
  BY <1>1
<1>3. cmb[k + 1] \in EntryE
  BY <1>1, <1>2, ElementOfSeq
<1>4. k <= 4 => k + 1 \in 1 .. 5
  BY <1>1
<1> QED
  BY <1>3, <1>4, FixedTypes DEF BuildAt, EntryE

\* The fixed entries are under no review.
LEMMA FixedUnreviewed ==
    ASSUME NEW cmb \in Combos, NEW i, NEW k \in 0 .. Len(cmb) - 1, k <= 4
    PROVE  ~UnderReview(cmb, i, k)
<1>1. cmb \in Seq(EntryE) /\ Len(cmb) \in Nat
  BY LenProperties DEF Combos
<1>2. cmb # <<>> /\ k + 1 \in 1 .. 5
  BY <1>1, EmptySeq
<1>3. cmb[k + 1].state = "Invalid"
  BY <1>2 DEF Combos
<1> QED
  BY <1>3 DEF UnderReview, ReviewStates

\* The data asked for when item i uses build id.
Asked(id) == IF id = "invalid" THEN Latest ELSE id

\* buildChangedSlot: item and stored list take the id chosen; what is called
\* for is a review and the data, which is asked for whenever it is missing.
LEMMA BuildIsChanged ==
    ASSUME Types, NEW i \in Items, current = i,
           NEW cmb \in Combos, NEW k \in 0 .. Len(cmb) - 1,
           NEW shown \in BOOLEAN, NEW pending \in Seq(CallE),
           BuildChanged(cmb, k, shown, pending)
    PROVE  LET id == BuildAt(cmb, i, k)
               changes == id # build_id[i]
               asks == changes \/ data[i] = None
               before == IF changes /\ UnderReview(cmb, i, k) /\ cmb[k + 1].state = "ReviewRequest"
                           THEN Append(pending, StateCall(i, id, "ReviewStarted")) ELSE pending
           IN  /\ id \in BuildIds
               /\ build_id' = [build_id EXCEPT ![i] = id]
               /\ app_list' = IF changes THEN [app_list EXCEPT ![i] = id] ELSE app_list
               /\ data' = IF changes THEN [data EXCEPT ![i] = None] ELSE data
               /\ review_shown' = IF changes THEN UnderReview(cmb, i, k) ELSE shown
               /\ before \in Seq(CallE)
               /\ calls' = IF asks THEN Append(before, DataCall(i, Asked(id))) ELSE before
               /\ calls' \in Seq(CallE)
<1> DEFINE id == BuildAt(cmb, i, k)
           changes == id # build_id[i]
           starts == changes /\ UnderReview(cmb, i, k) /\ cmb[k + 1].state = "ReviewRequest"
           asks == changes \/ data[i] = None
           start == StateCall(i, id, "ReviewStarted")
           fetch == DataCall(i, Asked(id))
           before == IF starts THEN Append(pending, start) ELSE pending
<1>1. id \in BuildIds
  BY BuildAtType
<1>2. Asked(id) \in BuildIds
  BY <1>1, FixedTypes DEF Asked
<1>3. start \in CallE /\ fetch \in CallE
  BY <1>1, <1>2, MadeCalls DEF ReviewStates
<1>4. /\ build_id' = [build_id EXCEPT ![i] = id]
      /\ app_list' = IF changes THEN [app_list EXCEPT ![i] = id] ELSE app_list
      /\ data' = IF changes THEN [data EXCEPT ![i] = None] ELSE data
      /\ review_shown' = IF changes THEN UnderReview(cmb, i, k) ELSE shown
      /\ calls' = pending \o (IF starts THEN <<start>> ELSE <<>>)
                          \o (IF asks THEN <<fetch>> ELSE <<>>)
  BY DEF BuildChanged, Asked
<1> HIDE DEF id, start, fetch, starts, asks
<1>5. pending \o (IF starts THEN <<start>> ELSE <<>>) = before /\ before \in Seq(CallE)
  BY <1>3, ConcatEmptySeq, AppendIsConcat, AppendProperties
<1> HIDE DEF before
<1>6. /\ before \o (IF asks THEN <<fetch>> ELSE <<>>) = IF asks THEN Append(before, fetch) ELSE before
      /\ (IF asks THEN Append(before, fetch) ELSE before) \in Seq(CallE)
  BY <1>3, <1>5, ConcatEmptySeq, AppendIsConcat, AppendProperties
<1>7. calls' = IF asks THEN Append(before, fetch) ELSE before
  BY <1>4, <1>5, <1>6
<1> USE DEF id, start, fetch, starts, asks, before
<1> QED
  BY <1>1, <1>4, <1>5, <1>6, <1>7

\* The parts of the combo box of item i.
FixedPart == [k \in 1 .. 5 |-> Entry(FixedIds[k], "Invalid")]
OwnerPart(i) == IF i \in Owned THEN <<Entry("Private Alpha", "Invalid")>> ELSE <<>>
BuildPart(builds) ==
    [k \in 1 .. Cardinality(Listed(builds)) |->
       LET b == SetToSeq(Listed(builds))[k] IN Entry(b, builds[b])]

\* A finite set has a listing without repetitions.
LEMMA ListedOnce ==
    ASSUME NEW S, IsFiniteSet(S)
    PROVE  /\ Cardinality(S) \in Nat
           /\ SetToSeq(S) \in [1 .. Cardinality(S) -> S]
           /\ \A a, b \in 1 .. Cardinality(S) : SetToSeq(S)[a] = SetToSeq(S)[b] => a = b
<1>1. Cardinality(S) \in Nat /\ ExistsBijection(1 .. Cardinality(S), S)
  BY FS_CardinalityType
<1>2. \E f \in [1 .. Cardinality(S) -> S] : IsInjective(f)
  BY <1>1 DEF ExistsBijection, Bijection, Injection, Surjection
<1>3. SetToSeq(S) \in [1 .. Cardinality(S) -> S] /\ IsInjective(SetToSeq(S))
  BY <1>2 DEF SetToSeq
<1> QED
  BY <1>1, <1>3 DEF IsInjective

\* Their lengths, and what is at each place.
LEMMA ComboParts ==
    ASSUME NEW i \in Items, NEW builds \in Fetched
    PROVE  LET cmb  == ComboFor(i, builds)
               own  == IF i \in Owned THEN 1 ELSE 0
               list == SetToSeq(Listed(builds))
               n    == Cardinality(Listed(builds))
           IN  /\ n \in Nat /\ cmb \in Seq(EntryE) /\ Len(cmb) = 5 + own + n
               /\ \A k \in 1 .. 5 : cmb[k] = Entry(FixedIds[k], "Invalid")
               /\ i \in Owned => cmb[6] = Entry("Private Alpha", "Invalid")
               /\ \A k \in 1 .. n : cmb[5 + own + k] = Entry(list[k], builds[list[k]])
               /\ \A k \in 1 .. n : list[k] \in DOMAIN builds
               /\ \A k, l \in 1 .. n : list[k] = list[l] => k = l
<1> DEFINE own  == IF i \in Owned THEN 1 ELSE 0
           list == SetToSeq(Listed(builds))
           n    == Cardinality(Listed(builds))
           a == FixedPart
           b == OwnerPart(i)
           c == BuildPart(builds)
<1>1. PICK j \in Items : builds \in [Builds[j] -> StateE]
  BY DEF Fetched
<1>2. Listed(builds) \subseteq Builds[j] /\ IsFiniteSet(Listed(builds))
  <2>1. Listed(builds) \subseteq Builds[j]
    BY <1>1 DEF Listed
  <2> QED
    BY <2>1, FS_Subset, ItemPageAssumption DEF ItemPageAssumption
<1>3. /\ n \in Nat /\ list \in [1 .. n -> Listed(builds)]
      /\ \A k, l \in 1 .. n : list[k] = list[l] => k = l
  BY <1>2, ListedOnce
<1>4. \A k \in 1 .. n : list[k] \in DOMAIN builds /\ Entry(list[k], builds[list[k]]) \in EntryE
  <2>1. \A x \in Listed(builds) : x \in DOMAIN builds /\ x \in BuildIds /\ builds[x] \in StateE
    BY <1>1, <1>2, FixedTypes
  <2> QED
    BY <1>3, <2>1 DEF Entry, EntryE
<1>5. a \in Seq(EntryE) /\ Len(a) = 5 /\ \A k \in 1 .. 5 : a[k] = Entry(FixedIds[k], "Invalid")
  <2>1. \A k \in 1 .. 5 : Entry(FixedIds[k], "Invalid") \in EntryE
    BY FixedTypes DEF Entry, EntryE
  <2>2. a \in [1 .. 5 -> EntryE]
    BY <2>1 DEF FixedPart
  <2> QED
    BY <2>2, SeqDef DEF FixedPart
<1>6. /\ b \in Seq(EntryE) /\ Len(b) = own
      /\ i \in Owned => b[1] = Entry("Private Alpha", "Invalid")
  <2> DEFINE e == Entry("Private Alpha", "Invalid")
  <2>1. e \in EntryE
    BY FixedTypes DEF Entry, EntryE
  <2> HIDE DEF e
  <2>2. CASE i \in Owned
    <3>1. b = <<e>>
      BY <2>2 DEF OwnerPart, e
    <3>2. <<e>> \in Seq(EntryE) /\ Len(<<e>>) = 1 /\ <<e>>[1] = e
      BY <2>1
    <3> HIDE DEF b
    <3> QED
      BY <2>2, <3>1, <3>2 DEF e
  <2>3. CASE i \notin Owned
    <3>1. b = <<>>
      BY <2>3 DEF OwnerPart
    <3> HIDE DEF b
    <3> QED
      BY <2>3, <3>1, EmptySeq
  <2> QED
    BY <2>2, <2>3
<1>7. /\ c \in Seq(EntryE) /\ Len(c) = n
      /\ \A k \in 1 .. n : c[k] = Entry(list[k], builds[list[k]])
  <2>1. c = [k \in 1 .. n |-> Entry(list[k], builds[list[k]])]
    BY DEF BuildPart
  <2> HIDE DEF n, list, c
  <2>2. c \in [1 .. n -> EntryE]
    BY <1>4, <2>1
  <2> QED
    BY <1>3, <2>1, <2>2, SeqDef
<1>8. ComboFor(i, builds) = a \o b \o c
  BY DEF ComboFor, FixedPart, OwnerPart, BuildPart
<1>9. own \in {0, 1} /\ (i \in Owned => own = 1)
  OBVIOUS
<1> HIDE DEF own, list, n, a, b, c
<1> DEFINE ab  == a \o b
           abc == ab \o c
<1>10. /\ ab \in Seq(EntryE) /\ Len(ab) = 5 + own
       /\ \A k \in 1 .. 5 + own : ab[k] = IF k <= 5 THEN a[k] ELSE b[k - 5]
  <2>1. /\ ab \in Seq(EntryE) /\ Len(ab) = Len(a) + Len(b)
        /\ \A k \in 1 .. Len(a) + Len(b) :
             ab[k] = IF k <= Len(a) THEN a[k] ELSE b[k - Len(a)]
    BY <1>5, <1>6, ConcatProperties
  <2> HIDE DEF ab
  <2> QED
    BY <1>5, <1>6, <2>1
<1> HIDE DEF ab
<1>11. /\ abc \in Seq(EntryE) /\ Len(abc) = 5 + own + n
       /\ \A k \in 1 .. 5 + own + n :
            abc[k] = IF k <= 5 + own THEN ab[k] ELSE c[k - (5 + own)]
  <2>1. /\ abc \in Seq(EntryE) /\ Len(abc) = Len(ab) + Len(c)
        /\ \A k \in 1 .. Len(ab) + Len(c) :
             abc[k] = IF k <= Len(ab) THEN ab[k] ELSE c[k - Len(ab)]
    BY <1>7, <1>10, ConcatProperties
  <2> HIDE DEF abc
  <2> QED
    BY <1>7, <1>10, <2>1
<1> HIDE DEF abc
<1>12. \A k \in 1 .. 5 : abc[k] = Entry(FixedIds[k], "Invalid")
  BY <1>3, <1>5, <1>9, <1>10, <1>11
<1>13. ASSUME i \in Owned PROVE abc[6] = Entry("Private Alpha", "Invalid")
  <2>1. own = 1
    BY <1>9, <1>13
  <2>2. abc[6] = ab[6]
    BY <1>3, <1>11, <2>1
  <2>3. ab[6] = b[1]
    BY <1>10, <2>1
  <2> QED
    BY <1>6, <1>13, <2>2, <2>3
<1>14. \A k \in 1 .. n : abc[5 + own + k] = Entry(list[k], builds[list[k]])
  <2> TAKE k \in 1 .. n
  <2>1. /\ 5 + own + k \in 1 .. 5 + own + n /\ ~(5 + own + k <= 5 + own)
        /\ (5 + own + k) - (5 + own) = k
    BY <1>3, <1>9
  <2> QED
    BY <1>7, <1>11, <2>1
<1>15. ComboFor(i, builds) = abc
  BY <1>8 DEF ab, abc
<1>16. \A k \in 1 .. n : list[k] \in DOMAIN builds
  BY <1>4
<1> QED
  <2>1. /\ n \in Nat /\ abc \in Seq(EntryE) /\ Len(abc) = 5 + own + n
        /\ \A k \in 1 .. 5 : abc[k] = Entry(FixedIds[k], "Invalid")
        /\ i \in Owned => abc[6] = Entry("Private Alpha", "Invalid")
        /\ \A k \in 1 .. n : abc[5 + own + k] = Entry(list[k], builds[list[k]])
        /\ \A k \in 1 .. n : list[k] \in DOMAIN builds
        /\ \A k, l \in 1 .. n : list[k] = list[l] => k = l
    BY <1>3, <1>11, <1>12, <1>13, <1>14, <1>16
  <2> QED
    BY <1>15, <2>1 DEF own, list, n

\* A set of numbers has a least one.
LEMMA HasLeast ==
    ASSUME NEW T, T \subseteq Nat, T # {}
    PROVE  \E k \in T : \A l \in T : k <= l
<1> DEFINE R == {p \in Nat \X Nat : p[1] < p[2]}
<1>1. IsWellFoundedOn(R, Nat)
  BY NatLessThanWellFounded DEF OpToRel
<1> HIDE DEF R
<1>2. PICK k \in T : \A l \in T : ~(<<l, k>> \in R)
  BY <1>1, WFMin
<1>3. \A l \in T : ~(l < k)
  BY <1>2 DEF R
<1> QED
  BY <1>3

\* itemEntriesSlot fills the combo box, and selects one of its entries: that
\* of the item's build if it is listed.
LEMMA ComboFilled ==
    ASSUME Types, NEW i \in Items, NEW builds \in Fetched
    PROVE  LET cmb == ComboFor(i, builds)
               k   == IndexFor(cmb, i)
           IN  /\ cmb \in Combos /\ Len(cmb) >= 5
               /\ k \in 0 .. Len(cmb) - 1
               /\ k # 0 => BuildAt(cmb, i, k) = build_id[i]
<1> DEFINE cmb == ComboFor(i, builds)
           found == {k \in 0 .. Len(cmb) - 1 : BuildAt(cmb, i, k) = build_id[i]}
<1>1. /\ cmb \in Seq(EntryE) /\ Len(cmb) \in Nat /\ Len(cmb) >= 5
      /\ \A k \in 1 .. 5 : cmb[k] = Entry(FixedIds[k], "Invalid")
  <2>1. Len(cmb) = 5 + (IF i \in Owned THEN 1 ELSE 0) + Cardinality(Listed(builds))
        /\ Cardinality(Listed(builds)) \in Nat
    BY ComboParts
  <2>2. Len(cmb) \in Nat /\ Len(cmb) >= 5
    BY <2>1
  <2> QED
    BY <2>2, ComboParts
<1>2. cmb \in Combos
  BY <1>1 DEF Combos, Entry
<1>3. IndexFor(cmb, i) = IF found = {} THEN 0 ELSE CHOOSE k \in found : \A l \in found : k <= l
  BY DEF IndexFor
<1> HIDE DEF cmb
<1>4. found # {} => \E k \in found : \A l \in found : k <= l
  <2>1. found \subseteq Nat
    BY <1>1
  <2> QED
    BY <2>1, HasLeast
<1>5. CASE found = {}
  BY <1>1, <1>2, <1>3, <1>5 DEF cmb
<1>6. CASE found # {}
  <2> DEFINE k == IndexFor(cmb, i)
  <2>1. k \in found
    BY <1>3, <1>4, <1>6
  <2> QED
    BY <1>1, <1>2, <2>1 DEF cmb
<1> QED
  BY <1>5, <1>6

-----------------------------------------------------------------------------
(* The first invariant: types, the stored list, and the controls.          *)

Controls ==
    current # None =>
      /\ enabled <=> current \in aquired \cup Default
      /\ (~Has(calls, "acquire", current) /\ ~Has(events, "acquire", current))
            => (button <=> current \in aquired)

PInv == Types /\ app_list = build_id /\ Controls

\* setChecked sends at most one call, and one whenever the button changes.
LEMMA Toggled ==
    ASSUME NEW i \in Items, NEW checked \in BOOLEAN, NEW pending \in Seq(CallE)
    PROVE  /\ Toggle(i, checked, pending) \in Seq(CallE)
           /\ IF checked # button /\ i \notin Default
                THEN Toggle(i, checked, pending) = Append(pending, AcquireCall(i, checked))
                ELSE Toggle(i, checked, pending) = pending
<1>1. AcquireCall(i, checked) \in CallE
  BY MadeCalls
<1>2. Append(pending, AcquireCall(i, checked)) \in Seq(CallE)
  BY <1>1, AppendProperties
<1> QED
  BY <1>2 DEF Toggle

LEMMA ShowItemStep ==
    ASSUME PInv, NEW i \in Items, ShowItem(i)
    PROVE  /\ PInv'
           /\ calls' = Append(Toggle(i, i \in aquired, calls), EntriesCall(i))
<1> DEFINE has == i \in aquired
           can == i \in aquired \cup Default
           t   == Toggle(i, has, calls)
<1>0. has \in BOOLEAN /\ can \in BOOLEAN
  OBVIOUS
<1>1. t \in Seq(CallE)
  <2> HIDE DEF has
  <2> QED
    BY <1>0, Toggled DEF PInv, Types
<1>2. calls' = Append(t, EntriesCall(i))
  BY DEF ShowItem
<1> HIDE DEF t
<1>3. calls' \in Seq(CallE)
  BY <1>1, <1>2, MadeCalls, AppendProperties
<1>4. UNCHANGED <<aquired, build_id, data, app_list, review_shown, combo, combo_index,
                  events, svc_aquired, svc_state>>
  BY DEF ShowItem, buildVars, comboVars, svcVars
<1>5. /\ current' = i
      /\ button' \in BOOLEAN /\ (button' <=> i \in aquired)
      /\ enabled' \in BOOLEAN /\ (enabled' <=> i \in aquired \cup Default)
  <2>1. current' = i /\ button' = has /\ enabled' = can
    BY DEF ShowItem
  <2> QED
    BY <1>0, <2>1
<1>6. Types'
  BY <1>3, <1>4, <1>5 DEF PInv, Types
<1>7. Controls'
  BY <1>4, <1>5 DEF Controls
<1> QED
  BY <1>2, <1>4, <1>6, <1>7 DEF PInv, t

LEMMA ClickAcquireStep ==
    ASSUME PInv, ClickAcquire
    PROVE  /\ PInv' /\ current \in Items /\ current' = current
           /\ calls' = Append(calls, AcquireCall(current, ~button))
<1>1. /\ current \in Items \ Default /\ button \in BOOLEAN /\ calls \in Seq(CallE)
      /\ current' = current
  BY DEF ClickAcquire, PInv, Types
<1>2. calls' = Append(calls, AcquireCall(current, ~button))
  <2> DEFINE other == ~button
  <2>1. other \in BOOLEAN
    OBVIOUS
  <2>2. other # button
    <3>1. CASE button = TRUE
      BY <3>1
    <3>2. CASE button = FALSE
      BY <3>2
    <3> QED
      BY <1>1, <3>1, <3>2
  <2>3. calls' = Toggle(current, other, calls)
    BY DEF ClickAcquire
  <2> HIDE DEF other
  <2>4. calls' = Append(calls, AcquireCall(current, other))
    BY <1>1, <2>1, <2>2, <2>3, Toggled
  <2> QED
    BY <2>4 DEF other
<1>3. AcquireCall(current, ~button) \in CallE
  BY <1>1, MadeCalls
<1>4. calls' \in Seq(CallE)
  BY <1>1, <1>2, <1>3, AppendProperties
<1>5. UNCHANGED <<enabled, aquired, build_id, data, app_list, review_shown, combo,
                  combo_index, events, svc_aquired, svc_state>>
  BY DEF ClickAcquire, buildVars, comboVars, svcVars
<1>6. button' \in BOOLEAN
  BY DEF ClickAcquire
<1>7. Types'
  BY <1>1, <1>4, <1>5, <1>6 DEF PInv, Types
<1>8. Has(calls', "acquire", current)
  BY <1>1, <1>2, <1>3, HasAppended, MadeCalls
<1>9. Controls'
  BY <1>1, <1>5, <1>8 DEF Controls, PInv
<1> QED
  BY <1>1, <1>2, <1>5, <1>7, <1>9 DEF PInv

\* What buildChangedSlot keeps: types, the stored list, and which items have
\* acquisitions or entries under way.
LEMMA BuildKept ==
    ASSUME Types, app_list = build_id, NEW i \in Items, current = i,
           NEW cmb \in Combos, NEW k \in 0 .. Len(cmb) - 1,
           NEW shown \in BOOLEAN, NEW pending \in Seq(CallE),
           BuildChanged(cmb, k, shown, pending)
    PROVE  /\ build_id' \in [Items -> BuildIds]
           /\ data' \in [Items -> BuildIds \cup {None}]
           /\ app_list' = build_id' /\ app_list' \in [Items -> BuildIds]
           /\ review_shown' \in BOOLEAN
           /\ calls' \in Seq(CallE)
           /\ \A kind \in {"acquire", "entries"}, j \in Items :
                Has(calls', kind, j) <=> Has(pending, kind, j)
<1> DEFINE id      == BuildAt(cmb, i, k)
           changes == id # build_id[i]
           asks    == changes \/ data[i] = None
           starts  == changes /\ UnderReview(cmb, i, k) /\ cmb[k + 1].state = "ReviewRequest"
           start   == StateCall(i, id, "ReviewStarted")
           fetch   == DataCall(i, Asked(id))
           before  == IF starts THEN Append(pending, start) ELSE pending
<1>1. /\ id \in BuildIds
      /\ build_id' = [build_id EXCEPT ![i] = id]
      /\ app_list' = IF changes THEN [app_list EXCEPT ![i] = id] ELSE app_list
      /\ data' = IF changes THEN [data EXCEPT ![i] = None] ELSE data
      /\ review_shown' = IF changes THEN UnderReview(cmb, i, k) ELSE shown
      /\ before \in Seq(CallE)
      /\ calls' = IF asks THEN Append(before, fetch) ELSE before
      /\ calls' \in Seq(CallE)
  BY BuildIsChanged
<1>2. start \in CallE /\ start.kind = "state" /\ fetch \in CallE /\ fetch.kind = "data"
  <2>1. Asked(id) \in BuildIds
    BY <1>1, FixedTypes DEF Asked
  <2> QED
    BY <1>1, <2>1, MadeCalls DEF ReviewStates
<1> HIDE DEF id, asks, starts, start, fetch, before
<1>3. build_id' \in [Items -> BuildIds] /\ data' \in [Items -> BuildIds \cup {None}]
  BY <1>1 DEF Types
<1>4. app_list' = build_id'
  BY <1>1 DEF Types
<1>5. review_shown' \in BOOLEAN
  <2>1. CASE changes
    <3>1. review_shown' = UnderReview(cmb, i, k)
      BY <1>1, <2>1
    <3>2. UnderReview(cmb, i, k) \in BOOLEAN
      BY DEF UnderReview
    <3> QED
      BY <3>1, <3>2
  <2>2. CASE ~changes
    BY <1>1, <2>2
  <2> QED
    BY <2>1, <2>2
<1>6. ASSUME NEW kind \in {"acquire", "entries"}, NEW j \in Items
      PROVE  Has(calls', kind, j) <=> Has(pending, kind, j)
  <2>1. Has(before, kind, j) <=> Has(pending, kind, j)
    BY <1>2, HasAppended DEF before
  <2>2. Has(calls', kind, j) <=> Has(before, kind, j)
    BY <1>1, <1>2, HasAppended
  <2> QED
    BY <2>1, <2>2
<1> QED
  BY <1>1, <1>3, <1>4, <1>5, <1>6

LEMMA ChooseBuildStep ==
    ASSUME PInv, NEW k \in Picks, ChooseBuild(k)
    PROVE  /\ PInv' /\ current \in Items /\ k \in 0 .. Len(combo) - 1
           /\ \A j \in Items : Has(calls', "entries", j) <=> Has(calls, "entries", j)
<1>1. /\ current \in Items /\ combo \in Combos /\ k \in 0 .. Len(combo) - 1
      /\ review_shown \in BOOLEAN /\ calls \in Seq(CallE)
  <2>1. k \in Nat /\ k < Len(combo)
    BY ItemPageAssumption DEF ItemPageAssumption, ChooseBuild
  <2>2. combo \in Combos /\ Len(combo) \in Nat
    BY LenProperties DEF PInv, Types, Combos
  <2> QED
    BY <2>1, <2>2 DEF ChooseBuild, PInv, Types
<1>2. BuildChanged(combo, k, review_shown, calls) /\ combo_index' = k
  BY DEF ChooseBuild
<1>3. UNCHANGED <<current, button, enabled, aquired, combo, events, svc_aquired, svc_state>>
  BY DEF ChooseBuild, pageVars, svcVars
<1>4. /\ build_id' \in [Items -> BuildIds]
      /\ data' \in [Items -> BuildIds \cup {None}]
      /\ app_list' = build_id' /\ app_list' \in [Items -> BuildIds]
      /\ review_shown' \in BOOLEAN
      /\ calls' \in Seq(CallE)
      /\ \A kind \in {"acquire", "entries"}, j \in Items :
           Has(calls', kind, j) <=> Has(calls, kind, j)
  BY <1>1, <1>2, BuildKept DEF PInv
<1>5. Types'
  <2>1. combo_index' \in -1 .. Len(combo') - 1
    BY <1>1, <1>2, <1>3
  <2>2. current' \in Items /\ combo_index' >= 0
    BY <1>1, <1>2, <1>3
  <2> QED
    BY <1>3, <1>4, <2>1, <2>2 DEF PInv, Types
<1>6. Controls'
  BY <1>1, <1>3, <1>4 DEF PInv, Controls
<1> QED
  BY <1>1, <1>4, <1>5, <1>6 DEF PInv


LEMMA ReviewStep ==
    ASSUME PInv, Review
    PROVE  /\ PInv'
           /\ \E c \in CallE : c.kind = "state" /\ calls' = Append(calls, c)
<1>1. /\ current \in Items /\ combo \in Seq(EntryE) /\ combo_index + 1 \in 1 .. Len(combo)
  <2>1. combo \in Seq(EntryE) /\ Len(combo) \in Nat
    BY LenProperties DEF PInv, Types, Combos
  <2> QED
    BY <2>1 DEF Review, PInv, Types
<1> DEFINE name == combo[combo_index + 1].text
<1>2. name \in BuildIds
  <2>1. combo[combo_index + 1] \in EntryE
    BY <1>1, ElementOfSeq
  <2> QED
    BY <2>1 DEF EntryE
<1>3. PICK verdict \in {"ReviewAccepted", "ReviewRejected"} :
        calls' = Append(calls, StateCall(current, name, verdict))
  BY DEF Review
<1> HIDE DEF name
<1>4. verdict \in ReviewStates
  BY DEF ReviewStates
<1> DEFINE c == StateCall(current, name, verdict)
<1>5. c \in CallE /\ c.kind = "state" /\ calls' = Append(calls, c)
  BY <1>1, <1>2, <1>3, <1>4, MadeCalls
<1> HIDE DEF c
<1>6. calls \in Seq(CallE) /\ calls' \in Seq(CallE)
  BY <1>5, AppendProperties DEF PInv, Types
<1>7. UNCHANGED <<current, button, enabled, aquired, build_id, data, app_list, review_shown,
                  combo, combo_index, events, svc_aquired, svc_state>>
  BY DEF Review, pageVars, buildVars, comboVars, svcVars
<1>8. Types'
  BY <1>6, <1>7 DEF PInv, Types
<1>9. Has(calls', "acquire", current) <=> Has(calls, "acquire", current)
  BY <1>5, <1>6, HasAppended
<1>10. Controls'
  BY <1>7, <1>9 DEF PInv, Controls
<1> QED
  BY <1>5, <1>7, <1>8, <1>10 DEF PInv

LEMMA ServiceMovesStep ==
    ASSUME PInv, ServiceMoves
    PROVE  PInv'
<1>1. UNCHANGED <<current, button, enabled, aquired, build_id, data, app_list, review_shown,
                  combo, combo_index, calls, events, svc_aquired>>
  BY DEF ServiceMoves, pageVars, buildVars, comboVars
<1>2. svc_state' \in [Offered -> StateE]
  BY ItemPageAssumption DEF ItemPageAssumption, ServiceMoves, PInv, Types
<1> QED
  BY <1>1, <1>2 DEF PInv, Types, Controls

-----------------------------------------------------------------------------
(* The answers.                                                            *)

\* Call k is answered with event e, or with none.
Answered(k, e) ==
    /\ calls' = RemoveAt(calls, k)
    /\ events' = Append(events, e)
Dropped(k) ==
    /\ calls' = RemoveAt(calls, k)
    /\ events' = events

\* Each answer is one of these four.
LEMMA AnswerCases ==
    ASSUME PInv, NEW k \in DOMAIN calls,
           \/ AcquireAnswered(k) \/ EntriesAnswered(k) \/ DataAnswered(k) \/ StateAnswered(k)
           \/ AcquireFails(k) \/ FetchFails(k) \/ StateLost(k)
    PROVE  /\ calls[k] \in CallE
           /\ svc_aquired' \subseteq Items /\ svc_state' \in [Offered -> StateE]
           /\ \/ \E e \in EventE : Answered(k, e) /\ Alike(e, calls[k])
              \/ calls[k].kind \in {"entries", "data"} /\ Fails /\ Dropped(k)
              \/ calls[k].kind = "state" /\ Fails /\ Dropped(k)
              \/ /\ calls[k].kind = "state"
                 /\ calls' = Append(RemoveAt(calls, k), EntriesCall(calls[k].item))
                 /\ events' = events
<1> DEFINE c == calls[k]
<1>1. c \in CallE
  BY LenProperties DEF PInv, Types
<1>2. c.item \in Items
  BY <1>1, CallTypes
<1>3. svc_aquired \subseteq Items /\ svc_state \in [Offered -> StateE]
  BY DEF PInv, Types
<1>4. CASE AcquireAnswered(k)
  <2>1. c \in EventE
    BY <1>1, <1>4, CallTypes DEF AcquireAnswered, EventE
  <2>2. svc_aquired' \subseteq Items /\ svc_state' = svc_state
    BY <1>2, <1>3, <1>4 DEF AcquireAnswered
  <2> QED
    BY <1>1, <1>3, <1>4, <2>1, <2>2 DEF AcquireAnswered, Answered, Alike
<1>5. CASE AcquireFails(k)
  <2>1. FALSE \in BOOLEAN
    OBVIOUS
  <2>2. AcquireCall(c.item, FALSE) \in EventE /\ Alike(AcquireCall(c.item, FALSE), c)
    BY <1>2, <1>5, <2>1 DEF AcquireFails, AcquireCall, EventE, Alike
  <2>3. svc_aquired' \subseteq Items /\ svc_state' = svc_state
    BY <1>2, <1>3, <1>5 DEF AcquireFails
  <2> QED
    BY <1>1, <1>3, <1>5, <2>2, <2>3 DEF AcquireFails, Answered
<1>6. CASE EntriesAnswered(k)
  <2> DEFINE i == c.item
             builds == [b \in Builds[i] |-> svc_state[<<i, b>>]]
  <2>1. builds \in [Builds[i] -> StateE]
    <3>1. \A b \in Builds[i] : <<i, b>> \in Offered
      BY <1>2 DEF Offered
    <3> QED
      BY <1>3, <3>1
  <2>2. builds \in Fetched
    BY <1>2, <2>1 DEF Fetched
  <2> HIDE DEF builds
  <2>3. EntriesEvent(i, builds) \in EventE /\ EntriesEvent(i, builds).kind = "entries"
        /\ EntriesEvent(i, builds).item = i
    BY <1>2, <2>2 DEF EntriesEvent, EventE
  <2>4. UNCHANGED <<svc_aquired, svc_state>> /\ Answered(k, EntriesEvent(i, builds))
        /\ c.kind = "entries"
    BY <1>6 DEF EntriesAnswered, svcVars, Answered, builds
  <2> QED
    BY <1>1, <1>3, <2>3, <2>4 DEF Alike
<1>7. CASE DataAnswered(k)
  <2>1. c \in EventE
    BY <1>1, <1>7, CallTypes DEF DataAnswered, EventE
  <2> QED
    BY <1>1, <1>3, <1>7, <2>1 DEF DataAnswered, Answered, Alike, svcVars
<1>8. CASE StateAnswered(k)
  <2>1. c.kind = "state"
    BY <1>8 DEF StateAnswered
  <2>2. c.name \in BuildIds /\ c.new \in StateE
    BY <1>1, <2>1, CallTypes, FixedTypes
  <2>3. svc_state' \in [Offered -> StateE]
    BY <1>3, <1>8, <2>2 DEF StateAnswered
  <2> QED
    BY <1>1, <1>3, <1>8, <2>1, <2>3 DEF StateAnswered
<1>9. CASE FetchFails(k) \/ StateLost(k)
  BY <1>1, <1>3, <1>9 DEF FetchFails, StateLost, Dropped, svcVars
<1> QED
  BY <1>4, <1>5, <1>6, <1>7, <1>8, <1>9

\* Answers move what is under way from the calls to the events.
LEMMA AnswerStep ==
    ASSUME PInv, NEW k \in DOMAIN calls,
           \/ AcquireAnswered(k) \/ EntriesAnswered(k) \/ DataAnswered(k) \/ StateAnswered(k)
           \/ AcquireFails(k) \/ FetchFails(k) \/ StateLost(k),
           UNCHANGED <<pageVars, aquired, buildVars, comboVars>>
    PROVE  /\ PInv'
           /\ \A i \in Items :
                /\ Has(calls, "acquire", i) => Has(calls', "acquire", i) \/ Has(events', "acquire", i)
                /\ (~Fails /\ Has(calls, "entries", i)) =>
                      Has(calls', "entries", i) \/ Has(events', "entries", i)
                /\ \A kind \in {"acquire", "entries"} :
                      Has(events, kind, i) => Has(events', kind, i)
<1> DEFINE c == calls[k]
           r == RemoveAt(calls, k)
<1>1. /\ c \in CallE
      /\ svc_aquired' \subseteq Items /\ svc_state' \in [Offered -> StateE]
      /\ \/ \E e \in EventE : Answered(k, e) /\ Alike(e, c)
         \/ c.kind \in {"entries", "data"} /\ Fails /\ Dropped(k)
         \/ c.kind = "state" /\ Fails /\ Dropped(k)
         \/ /\ c.kind = "state"
            /\ calls' = Append(r, EntriesCall(c.item))
            /\ events' = events
  BY AnswerCases
<1>2. \/ \E e \in EventE : calls' = r /\ events' = Append(events, e) /\ Alike(e, c)
      \/ c.kind \in {"entries", "data", "state"} /\ Fails /\ calls' = r /\ events' = events
      \/ /\ c.kind = "state" /\ events' = events
         /\ calls' = Append(r, EntriesCall(c.item))
  BY <1>1 DEF Answered, Dropped
<1>3. /\ calls \in Seq(CallE) /\ events \in Seq(EventE) /\ r \in Seq(CallE)
      /\ \A kind, i : Has(calls, kind, i) <=> (c.kind = kind /\ c.item = i) \/ Has(r, kind, i)
  BY Removed, HasRemoved DEF PInv, Types
<1>4. c.item \in Items
  BY <1>1, CallTypes
<1>5. UNCHANGED <<current, button, enabled, aquired, build_id, data, app_list, review_shown,
                  combo, combo_index>>
  BY DEF pageVars, buildVars, comboVars
<1> HIDE DEF c, r
<1> DEFINE Moved ==
      /\ calls' \in Seq(CallE) /\ events' \in Seq(EventE)
      /\ \A i \in Items :
           /\ Has(calls, "acquire", i) => Has(calls', "acquire", i) \/ Has(events', "acquire", i)
           /\ (~Fails /\ Has(calls, "entries", i)) =>
                 Has(calls', "entries", i) \/ Has(events', "entries", i)
           /\ \A kind \in {"acquire", "entries"} : Has(events, kind, i) => Has(events', kind, i)
<1>6. Moved
  <2>1. ASSUME NEW e \in EventE, calls' = r, events' = Append(events, e), Alike(e, c)
        PROVE  Moved
    <3>1. events' \in Seq(EventE)
      BY <1>3, <2>1, AppendProperties
    <3>2. \A kind, i : Has(events', kind, i) <=>
                          Has(events, kind, i) \/ (e.kind = kind /\ e.item = i)
      BY <1>3, <2>1, HasAppended
    <3> QED
      BY <1>3, <2>1, <3>1, <3>2 DEF Alike
  <2>2. ASSUME c.kind \in {"entries", "data", "state"}, Fails, calls' = r, events' = events
        PROVE  Moved
    BY <1>3, <2>2
  <2>3. ASSUME c.kind = "state", events' = events, calls' = Append(r, EntriesCall(c.item))
        PROVE  Moved
    <3>1. EntriesCall(c.item) \in CallE
      BY <1>4, MadeCalls
    <3>2. /\ calls' \in Seq(CallE)
          /\ \A kind, i : Has(r, kind, i) => Has(calls', kind, i)
      BY <1>3, <2>3, <3>1, AppendProperties, HasAppended
    <3> QED
      BY <1>3, <2>3, <3>2
  <2> HIDE DEF Moved
  <2> QED
    BY <1>2, <2>1, <2>2, <2>3
<1>7. Types'
  BY <1>1, <1>5, <1>6 DEF PInv, Types
<1>8. Controls'
  BY <1>5, <1>6 DEF PInv, Types, Controls
<1> QED
  BY <1>5, <1>6, <1>7, <1>8 DEF PInv
-----------------------------------------------------------------------------
(* The slots.                                                              *)

\* The event taken, and what is left.
LEMMA Taken ==
    ASSUME Types, events # <<>>
    PROVE  /\ Head(events) \in EventE /\ Tail(events) \in Seq(EventE)
           /\ \A kind, i : Has(events, kind, i) <=>
                \/ Head(events).kind = kind /\ Head(events).item = i
                \/ Has(Tail(events), kind, i)
BY HeadTailProperties, HasTail DEF Types

LEMMA AcquireSlotStep ==
    ASSUME PInv, ItemAcquireSlot
    PROVE  /\ PInv'
           /\ \A j \in Items : Has(calls', "entries", j) <=> Has(calls, "entries", j)
<1> DEFINE e == Head(events)
           i == e.item
           acquire == e.acquire
           can == acquire \/ i \in Default
           pending == Toggle(i, acquire, calls)
<1>1. /\ e \in EventE /\ events' = Tail(events) /\ events' \in Seq(EventE) /\ e.kind = "acquire"
      /\ \A kind, j : Has(events, kind, j) <=> (e.kind = kind /\ e.item = j) \/ Has(events', kind, j)
  BY Taken DEF ItemAcquireSlot, PInv
<1>2. i \in Items /\ acquire \in BOOLEAN
  BY <1>1, EventTypes
<1>3. /\ UNCHANGED <<current, combo, svc_aquired, svc_state>>
      /\ aquired' = IF acquire THEN aquired \cup {i} ELSE aquired \ {i}
      /\ \/ /\ i # current
            /\ UNCHANGED <<button, enabled, combo_index, build_id, data, app_list,
                           review_shown, calls>>
         \/ /\ i = current /\ button' = acquire /\ enabled' = can
            /\ \/ UNCHANGED <<combo_index, build_id, data, app_list, review_shown>>
                  /\ calls' = pending
               \/ /\ combo # <<>> /\ combo_index' = 0
                  /\ BuildChanged(combo, 0, review_shown, pending)
  BY DEF ItemAcquireSlot, svcVars, buildVars
<1>4. can \in BOOLEAN
  OBVIOUS
<1>5. \A j : j \in aquired' <=> IF j = i THEN acquire = TRUE ELSE j \in aquired
  <2>1. CASE acquire = TRUE
    BY <1>3, <2>1
  <2>2. CASE acquire = FALSE
    BY <1>3, <2>2
  <2> QED
    BY <1>2, <2>1, <2>2
<1>6. aquired' \subseteq Items
  BY <1>2, <1>5 DEF PInv, Types
<1> HIDE DEF e, acquire, can
<1>7. /\ pending \in Seq(CallE)
      /\ \A j \in Items : Has(pending, "entries", j) <=> Has(calls, "entries", j)
  <2>1. calls \in Seq(CallE) /\ AcquireCall(i, acquire) \in CallE
        /\ AcquireCall(i, acquire).kind = "acquire"
    BY <1>2, MadeCalls DEF PInv, Types
  <2> DEFINE a == AcquireCall(i, acquire)
  <2>2. pending \in Seq(CallE) /\ (pending = Append(calls, a) \/ pending = calls)
    BY <1>2, <2>1, Toggled
  <2> HIDE DEF pending, a
  <2>3. \A j \in Items : Has(Append(calls, a), "entries", j) <=> Has(calls, "entries", j)
    BY <2>1, HasAppended DEF a
  <2> QED
    BY <2>2, <2>3
<1> HIDE DEF pending, i
<1>8. CASE i # current
  <2>1. UNCHANGED <<button, enabled, combo_index, build_id, data, app_list,
                    review_shown, calls>>
    BY <1>3, <1>8
  <2>2. Types'
    BY <1>1, <1>3, <1>6, <2>1 DEF PInv, Types
  <2>3. Has(events', "acquire", current) <=> Has(events, "acquire", current)
    BY <1>1, <1>8 DEF i
  <2>4. Controls'
    BY <1>3, <1>5, <1>8, <2>1, <2>3 DEF PInv, Controls
  <2> QED
    BY <2>1, <2>2, <2>4 DEF PInv
<1>9. CASE i = current
  <2>1. button' \in BOOLEAN /\ (button' <=> acquire = TRUE)
    BY <1>2, <1>3, <1>9
  <2>2. enabled' \in BOOLEAN /\ (enabled' <=> acquire = TRUE \/ i \in Default)
    <3>1. enabled' = can
      BY <1>3, <1>9
    <3>2. can <=> acquire = TRUE \/ i \in Default
      BY <1>2 DEF can
    <3> QED
      BY <1>4, <3>1, <3>2
  <2>3. Controls'
    BY <1>3, <1>5, <1>9, <2>1, <2>2 DEF Controls
  <2>4. CASE UNCHANGED <<combo_index, build_id, data, app_list, review_shown>> /\ calls' = pending
    <3>1. Types'
      BY <1>1, <1>3, <1>6, <1>7, <2>1, <2>2, <2>4 DEF PInv, Types
    <3> QED
      BY <1>7, <2>3, <2>4, <3>1 DEF PInv
  <2>5. CASE /\ combo # <<>> /\ combo_index' = 0
             /\ BuildChanged(combo, 0, review_shown, pending)
    <3>1. combo \in Combos /\ 0 \in 0 .. Len(combo) - 1 /\ 0 \in -1 .. Len(combo) - 1
      <4>1. combo \in Combos /\ Len(combo) \in Nat \ {0}
        BY <2>5, EmptySeq DEF PInv, Types, Combos
      <4> QED
        BY <4>1
    <3>2. /\ build_id' \in [Items -> BuildIds]
          /\ data' \in [Items -> BuildIds \cup {None}]
          /\ app_list' = build_id' /\ app_list' \in [Items -> BuildIds]
          /\ review_shown' \in BOOLEAN
          /\ calls' \in Seq(CallE)
          /\ \A kind \in {"acquire", "entries"}, j \in Items :
               Has(calls', kind, j) <=> Has(pending, kind, j)
      <4>1. review_shown \in BOOLEAN
        BY DEF PInv, Types
      <4> QED
        BY <1>2, <1>7, <1>9, <2>5, <3>1, <4>1, BuildKept DEF PInv
    <3>3. current' \in Items /\ combo_index' >= 0 /\ combo_index' \in -1 .. Len(combo') - 1
      BY <1>2, <1>3, <1>9, <2>5, <3>1
    <3>4. Types'
      BY <1>1, <1>3, <1>6, <2>1, <2>2, <3>2, <3>3 DEF PInv, Types
    <3> QED
      BY <1>7, <2>3, <3>2, <3>4 DEF PInv
  <2> QED
    BY <1>3, <1>9, <2>4, <2>5
<1> QED
  BY <1>8, <1>9

LEMMA DataSlotStep ==
    ASSUME PInv, ItemDataSlot
    PROVE  /\ PInv'
           /\ \A j : \A kind \in {"acquire", "entries"} : Has(events', kind, j) <=> Has(events, kind, j)
<1> DEFINE e == Head(events)
<1>1. /\ e \in EventE /\ events' = Tail(events) /\ events' \in Seq(EventE) /\ e.kind = "data"
      /\ \A kind, j : Has(events, kind, j) <=> (e.kind = kind /\ e.item = j) \/ Has(events', kind, j)
  BY Taken DEF ItemDataSlot, PInv
<1>2. e.item \in Items /\ e.build \in BuildIds
  BY <1>1, EventTypes
<1>3. /\ UNCHANGED <<current, button, enabled, aquired, build_id, app_list, review_shown,
                     combo, combo_index, calls, svc_aquired, svc_state>>
      /\ data' = [data EXCEPT ![e.item] = e.build]
  BY DEF ItemDataSlot, pageVars, comboVars, svcVars
<1>4. data' \in [Items -> BuildIds \cup {None}]
  BY <1>2, <1>3 DEF PInv, Types
<1>5. \A j : \A kind \in {"acquire", "entries"} : Has(events', kind, j) <=> Has(events, kind, j)
  BY <1>1
<1>6. Types'
  BY <1>1, <1>3, <1>4 DEF PInv, Types
<1>7. Controls'
  BY <1>3, <1>5 DEF PInv, Controls
<1> QED
  BY <1>3, <1>5, <1>6, <1>7 DEF PInv

LEMMA EntriesSlotStep ==
    ASSUME PInv, ItemEntriesSlot
    PROVE  /\ PInv'
           /\ \A j \in Items : Has(calls', "entries", j) <=> Has(calls, "entries", j)
<1> DEFINE e == Head(events)
           i == e.item
           cmb == ComboFor(i, e.builds)
           k == IndexFor(cmb, i)
           shown == k >= 5 /\ UnderReview(cmb, i, k)
<1>1. /\ e \in EventE /\ events' = Tail(events) /\ events' \in Seq(EventE) /\ e.kind = "entries"
      /\ \A kind, j : Has(events, kind, j) <=> (e.kind = kind /\ e.item = j) \/ Has(events', kind, j)
  BY Taken DEF ItemEntriesSlot, PInv
<1>2. i \in Items /\ e.builds \in Fetched
  BY <1>1, EventTypes
<1>3. /\ cmb \in Combos /\ Len(cmb) >= 5 /\ Len(cmb) \in Nat
      /\ k \in 0 .. Len(cmb) - 1
  BY <1>2, ComboFilled, LenProperties DEF PInv, Combos
<1>4. /\ UNCHANGED <<current, button, enabled, aquired, svc_aquired, svc_state>>
      /\ \/ UNCHANGED <<combo, combo_index, build_id, data, app_list, review_shown, calls>>
         \/ /\ i = current /\ combo' = cmb /\ combo_index' = k
            /\ BuildChanged(cmb, k, shown, calls)
         \/ /\ i = current /\ combo' = cmb /\ combo_index' = -1 /\ review_shown' = FALSE
            /\ UNCHANGED <<build_id, data, app_list, calls>>
  BY DEF ItemEntriesSlot, pageVars, svcVars, comboVars, buildVars
<1>5. shown \in BOOLEAN
  OBVIOUS
<1>6. Has(events', "acquire", current) <=> Has(events, "acquire", current)
  BY <1>1
<1> HIDE DEF e, i, cmb, k, shown
<1>7. CASE UNCHANGED <<combo, combo_index, build_id, data, app_list, review_shown, calls>>
  <2>1. Types'
    BY <1>1, <1>4, <1>7 DEF PInv, Types
  <2>2. Controls'
    BY <1>4, <1>6, <1>7 DEF PInv, Controls
  <2> QED
    BY <1>7, <2>1, <2>2 DEF PInv
<1>8. CASE /\ i = current /\ combo' = cmb /\ combo_index' = k
           /\ BuildChanged(cmb, k, shown, calls)
  <2>1. /\ build_id' \in [Items -> BuildIds]
        /\ data' \in [Items -> BuildIds \cup {None}]
        /\ app_list' = build_id' /\ app_list' \in [Items -> BuildIds]
        /\ review_shown' \in BOOLEAN
        /\ calls' \in Seq(CallE)
        /\ \A kind \in {"acquire", "entries"}, j \in Items :
             Has(calls', kind, j) <=> Has(calls, kind, j)
    <3>1. calls \in Seq(CallE)
      BY DEF PInv, Types
    <3> QED
      BY <1>2, <1>3, <1>5, <1>8, <3>1, BuildKept DEF PInv
  <2>2. current' \in Items /\ combo_index' >= 0 /\ combo_index' \in -1 .. Len(combo') - 1
    BY <1>2, <1>3, <1>4, <1>8
  <2>3. Types'
    BY <1>1, <1>3, <1>4, <1>8, <2>1, <2>2 DEF PInv, Types
  <2>4. Controls'
    BY <1>2, <1>4, <1>6, <1>8, <2>1 DEF PInv, Controls
  <2> QED
    BY <2>1, <2>3, <2>4 DEF PInv
<1>9. CASE /\ i = current /\ combo' = cmb /\ combo_index' = -1 /\ review_shown' = FALSE
           /\ UNCHANGED <<build_id, data, app_list, calls>>
  <2>0. review_shown' \in BOOLEAN
    BY <1>9
  <2>1. combo_index' \in -1 .. Len(combo') - 1
    <3>1. \A n \in Nat : -1 \in -1 .. n - 1
      OBVIOUS
    <3> QED
      BY <1>3, <1>9, <3>1
  <2>2. Types'
    BY <1>1, <1>3, <1>4, <1>9, <2>0, <2>1 DEF PInv, Types
  <2>3. Controls'
    BY <1>4, <1>6, <1>9 DEF PInv, Controls
  <2> QED
    BY <1>9, <2>2, <2>3 DEF PInv
<1> QED
  BY <1>4, <1>7, <1>8, <1>9

-----------------------------------------------------------------------------
(* The first theorems.                                                     *)

LEMMA InitPInv == Init => PInv
<1> SUFFICES ASSUME Init PROVE PInv
  OBVIOUS
<1>1. /\ current = None /\ aquired \subseteq Items
      /\ build_id = [i \in Items |-> Latest] /\ data = [i \in Items |-> None]
      /\ app_list = build_id
      /\ combo = <<>> /\ combo_index = -1
      /\ calls = <<>> /\ events = <<>> /\ svc_aquired = aquired
      /\ svc_state \in [Offered -> States]
  BY DEF Init
<1>2. button \in BOOLEAN /\ enabled \in BOOLEAN /\ review_shown = FALSE
  BY DEF Init
<1>3. svc_state \in [Offered -> StateE]
  BY <1>1, ItemPageAssumption DEF ItemPageAssumption
<1>4. build_id \in [Items -> BuildIds] /\ data \in [Items -> BuildIds \cup {None}]
  BY <1>1, FixedTypes
<1>5. combo \in Combos /\ combo_index \in -1 .. Len(combo) - 1
  BY <1>1, EmptySeq DEF Combos
<1>6. calls \in Seq(CallE) /\ events \in Seq(EventE)
  BY <1>1, EmptySeq
<1>7. Types
  <2>1. review_shown \in BOOLEAN
    BY <1>2
  <2> QED
    BY <1>1, <1>2, <1>3, <1>4, <1>5, <1>6, <2>1 DEF Types
<1> QED
  BY <1>1, <1>7 DEF PInv, Controls

LEMMA StepPInv == PInv /\ [Next]_vars => PInv'
<1> SUFFICES ASSUME PInv, [Next]_vars PROVE PInv'
  OBVIOUS
<1>1. CASE UNCHANGED vars
  BY <1>1 DEF vars, pageVars, comboVars, buildVars, svcVars, PInv, Types, Controls
<1>2. CASE Answer
  <2>1. PICK k \in DOMAIN calls :
          \/ AcquireAnswered(k) \/ EntriesAnswered(k) \/ DataAnswered(k) \/ StateAnswered(k)
          \/ AcquireFails(k) \/ FetchFails(k) \/ StateLost(k)
    BY <1>2 DEF Answer
  <2>2. UNCHANGED <<pageVars, aquired, buildVars, comboVars>>
    BY <1>2 DEF Answer
  <2> QED
    BY <2>1, <2>2, AnswerStep
<1>3. CASE User
  BY <1>3, ShowItemStep, ClickAcquireStep, ChooseBuildStep, ReviewStep DEF User
<1>4. CASE Slot
  BY <1>4, AcquireSlotStep, EntriesSlotStep, DataSlotStep DEF Slot
<1> QED
  BY <1>1, <1>2, <1>3, <1>4, ServiceMovesStep DEF Next

LEMMA PageInvariant == Spec => []PInv
  BY InitPInv, StepPInv, PTL DEF Spec

\* Types, for any items, builds and number of calls under way.
THEOREM PageTypes == Spec => []TypeOK
<1>1. PInv => TypeOK
  <2> SUFFICES ASSUME PInv PROVE TypeOK
    OBVIOUS
  <2>1. \A k \in DOMAIN calls : calls[k] \in CallE
    BY LenProperties DEF PInv, Types
  <2> QED
    BY <2>1 DEF PInv, Types, TypeOK
<1> QED
  BY <1>1, PageInvariant, PTL

\* The application list on disk names the build each item uses, also when
\* calls fail and builds are named like the fixed entries of the combo box.
THEOREM PageBuildPersisted == Spec => [](app_list = build_id)
<1>1. PInv => app_list = build_id
  BY DEF PInv
<1> QED
  BY <1>1, PageInvariant, PTL

\* The controls follow the flag of the item shown, however many answers for
\* it and for other items come, in whatever order, or fail.
THEOREM PageControls == Spec => []ControlsTrackFlags
<1>1. PInv => ControlsTrackFlags
  <2> SUFFICES ASSUME PInv, current # None PROVE
         /\ enabled = (current \in aquired \cup Default)
         /\ ~Pending("acquire", current) => button = (current \in aquired)
    BY DEF ControlsTrackFlags
  <2>1. button \in BOOLEAN /\ enabled \in BOOLEAN
    BY DEF PInv, Types
  <2>2. enabled <=> current \in aquired \cup Default
    BY DEF PInv, Controls
  <2>3. ~Pending("acquire", current) => (button <=> current \in aquired)
    BY DEF PInv, Controls, Pending, Has
  <2>4. enabled = (current \in aquired \cup Default)
    BY <2>1, <2>2
  <2>5. ~Pending("acquire", current) => button = (current \in aquired)
    BY <2>1, <2>3
  <2> QED
    BY <2>4, <2>5
<1> QED
  BY <1>1, PageInvariant, PTL

-----------------------------------------------------------------------------
(* Agreement with the service.                                             *)

\* The last acquisition in the queue says what the service has; with none
\* queued the flag does.
AcquireHolds(i, flags, svc, es) ==
    /\ \A b \in BOOLEAN : (b <=> i \in svc) => Newest(es, AcquireCall(i, b))
    /\ ~Has(es, "acquire", i) => (i \in flags <=> i \in svc)

\* The data of build id is on its way to item i, which has data d: the last
\* call asks for it or, with none left, the last event brings it, or it is there.
DataHolds(i, id, d, cs, es) ==
    LET c == DataCall(i, Asked(id))
    IN  /\ Newest(cs, c)
        /\ ~Has(cs, "data", i) => Newest(es, c)
        /\ (~Has(cs, "data", i) /\ ~Has(es, "data", i) /\ d # None) => d = Asked(id)

Agreeing ==
    orderly => \A i \in Items :
      /\ AcquireHolds(i, aquired, svc_aquired, events)
      /\ DataHolds(i, build_id[i], data[i], calls, events)

\* A call that asks for no data leaves it all as it is.
LEMMA DataOtherCall ==
    ASSUME NEW i \in Items, NEW id \in BuildIds, NEW d, NEW cs \in Seq(CallE), NEW es,
           NEW c \in CallE, c.kind # "data" \/ c.item # i,
           DataHolds(i, id, d, cs, es)
    PROVE  DataHolds(i, id, d, Append(cs, c), es)
<1> DEFINE wanted == DataCall(i, Asked(id))
<1>1. wanted.kind = "data" /\ wanted.item = i
  BY DEF DataCall
<1> HIDE DEF wanted
<1>2. ~Alike(c, wanted)
  BY <1>1 DEF Alike
<1>3. Newest(Append(cs, c), wanted)
  BY <1>2, NewestAppended DEF DataHolds, wanted
<1>4. Has(Append(cs, c), "data", i) <=> Has(cs, "data", i)
  BY HasAppended
<1> QED
  BY <1>3, <1>4 DEF DataHolds, wanted

\* A choice of a build asks for its data last.
LEMMA DataChanged ==
    ASSUME Types, NEW i \in Items, current = i,
           NEW cmb \in Combos, NEW k \in 0 .. Len(cmb) - 1,
           NEW shown \in BOOLEAN, NEW pending \in Seq(CallE),
           BuildChanged(cmb, k, shown, pending),
           NEW j \in Items, NEW es,
           DataHolds(j, build_id[j], data[j], pending, es)
    PROVE  DataHolds(j, build_id'[j], data'[j], calls', es)
<1> DEFINE id      == BuildAt(cmb, i, k)
           changes == id # build_id[i]
           asks    == changes \/ data[i] = None
           starts  == changes /\ UnderReview(cmb, i, k) /\ cmb[k + 1].state = "ReviewRequest"
           start   == StateCall(i, id, "ReviewStarted")
           fetch   == DataCall(i, Asked(id))
           before  == IF starts THEN Append(pending, start) ELSE pending
<1>1. /\ id \in BuildIds
      /\ build_id' = [build_id EXCEPT ![i] = id]
      /\ app_list' = IF changes THEN [app_list EXCEPT ![i] = id] ELSE app_list
      /\ data' = IF changes THEN [data EXCEPT ![i] = None] ELSE data
      /\ review_shown' = IF changes THEN UnderReview(cmb, i, k) ELSE shown
      /\ before \in Seq(CallE)
      /\ calls' = IF asks THEN Append(before, fetch) ELSE before
      /\ calls' \in Seq(CallE)
  BY BuildIsChanged
<1>2. /\ start \in CallE /\ start.kind = "state"
      /\ fetch \in CallE /\ fetch.kind = "data" /\ fetch.item = i
  <2>1. Asked(id) \in BuildIds
    BY <1>1, FixedTypes DEF Asked
  <2> QED
    BY <1>1, <2>1, MadeCalls DEF ReviewStates
<1>3. build_id \in [Items -> BuildIds] /\ data \in [Items -> BuildIds \cup {None}]
  BY DEF Types
<1>4. starts => asks
  OBVIOUS
<1> HIDE DEF id, asks, starts, start, fetch
<1>5. DataHolds(j, build_id[j], data[j], before, es)
  BY <1>2, <1>3, DataOtherCall DEF before
<1> HIDE DEF before
<1>6. CASE j # i
  <2>1. build_id'[j] = build_id[j] /\ data'[j] = data[j]
    BY <1>1, <1>3, <1>6
  <2>2. DataHolds(j, build_id[j], data[j], calls', es)
    <3>1. CASE asks
      BY <1>1, <1>2, <1>3, <1>5, <1>6, <3>1, DataOtherCall
    <3>2. CASE ~asks
      BY <1>1, <1>5, <3>2
    <3> QED
      BY <3>1, <3>2
  <2> QED
    BY <2>1, <2>2
<1>7. CASE j = i /\ ~asks
  <2>1. build_id'[j] = build_id[j] /\ data'[j] = data[j] /\ calls' = before
    BY <1>1, <1>3, <1>7 DEF asks
  <2> QED
    BY <1>5, <2>1
<1>8. CASE j = i /\ asks
  <2>1. build_id'[j] = id /\ calls' = Append(before, fetch)
    BY <1>1, <1>3, <1>8
  <2>2. Newest(calls', fetch)
    BY <1>1, <1>2, <2>1, NewestAppended DEF Alike
  <2>3. Has(calls', "data", i)
    BY <1>1, <1>2, <2>1, HasAppended
  <2>4. DataCall(j, Asked(id)) = fetch
    BY <1>8 DEF fetch
  <2>5. DataHolds(j, id, data'[j], calls', es)
    BY <1>8, <2>2, <2>3, <2>4 DEF DataHolds
  <2> QED
    BY <2>1, <2>5
<1> QED
  BY <1>6, <1>7, <1>8

\* The first event is taken: the data it brings is kept.
LEMMA DataTaken ==
    ASSUME NEW i \in Items, NEW id \in BuildIds, NEW d, NEW cs,
           NEW es \in Seq(EventE), es # <<>>,
           DataHolds(i, id, d, cs, es)
    PROVE  DataHolds(i, id,
                     IF Head(es).kind = "data" /\ Head(es).item = i THEN Head(es).build ELSE d,
                     cs, Tail(es))
<1> DEFINE e == Head(es)
           wanted == DataCall(i, Asked(id))
           this == e.kind = "data" /\ e.item = i
<1>1. wanted.kind = "data" /\ wanted.item = i /\ wanted.build = Asked(id)
  BY DEF DataCall
<1> HIDE DEF wanted
<1>2. ~Has(cs, "data", i) =>
        /\ Newest(Tail(es), wanted)
        /\ (Alike(e, wanted) /\ ~Has(Tail(es), "data", i)) => e = wanted
  BY <1>1, NewestTail DEF DataHolds, wanted
<1>3. Has(es, "data", i) <=> this \/ Has(Tail(es), "data", i)
  BY HasTail
<1> HIDE DEF e
<1>4. CASE this
  <2>1. Alike(e, wanted)
    BY <1>1, <1>4 DEF Alike
  <2>2. (~Has(cs, "data", i) /\ ~Has(Tail(es), "data", i)) => e.build = Asked(id)
    BY <1>1, <1>2, <2>1
  <2>3. DataHolds(i, id, e.build, cs, Tail(es))
    BY <1>2, <2>2 DEF DataHolds, wanted
  <2> QED
    BY <1>4, <2>3 DEF e
<1>5. CASE ~this
  <2>1. DataHolds(i, id, d, cs, Tail(es))
    BY <1>2, <1>3, <1>5 DEF DataHolds, wanted
  <2> QED
    BY <1>5, <2>1 DEF e
<1> QED
  BY <1>4, <1>5

\* Call k is answered in turn, if it asked for data by bringing that.
LEMMA DataAnswers ==
    ASSUME NEW i \in Items, NEW id \in BuildIds, NEW d,
           NEW cs \in Seq(CallE), NEW es \in Seq(EventE), NEW k \in DOMAIN cs,
           \A j \in 1 .. k - 1 : ~Alike(cs[j], cs[k]),
           DataHolds(i, id, d, cs, es)
    PROVE  /\ \A e \in EventE : e.kind = cs[k].kind /\ e.item = cs[k].item
                                  /\ (e.kind = "data" => e = cs[k])
                => DataHolds(i, id, d, RemoveAt(cs, k), Append(es, e))
           /\ cs[k].kind # "data" => DataHolds(i, id, d, RemoveAt(cs, k), es)
<1> DEFINE r == RemoveAt(cs, k)
           wanted == DataCall(i, Asked(id))
           c == cs[k]
           this == c.kind = "data" /\ c.item = i
<1>1. wanted.kind = "data" /\ wanted.item = i
  BY DEF DataCall
<1> HIDE DEF wanted
<1>2. /\ Newest(r, wanted)
      /\ (Alike(c, wanted) /\ ~Has(r, "data", i)) => c = wanted
  BY <1>1, NewestRemoved DEF DataHolds, wanted
<1>3. Has(cs, "data", i) <=> this \/ Has(r, "data", i)
  BY HasRemoved
<1>4. Alike(c, wanted) <=> this
  BY <1>1 DEF Alike
<1> HIDE DEF r, c
<1>5. c.kind # "data" => DataHolds(i, id, d, r, es)
  BY <1>2, <1>3 DEF DataHolds, wanted
<1>6. ASSUME NEW e \in EventE, e.kind = c.kind, e.item = c.item, e.kind = "data" => e = c
      PROVE  DataHolds(i, id, d, r, Append(es, e))
  <2>1. Has(Append(es, e), "data", i) <=> Has(es, "data", i) \/ this
    BY <1>6, HasAppended
  <2>2. ASSUME ~Has(r, "data", i) PROVE Newest(Append(es, e), wanted)
    <3>1. CASE this
      <4>1. e = wanted
        BY <1>2, <1>4, <1>6, <2>2, <3>1
      <4> QED
        BY <4>1, NewestAppended DEF Alike
    <3>2. CASE ~this
      <4>1. Newest(es, wanted)
        BY <1>3, <2>2, <3>2 DEF DataHolds, wanted
      <4>2. ~Alike(e, wanted)
        BY <1>1, <1>6, <3>2 DEF Alike
      <4> QED
        BY <4>1, <4>2, NewestAppended
    <3> QED
      BY <3>1, <3>2
  <2> QED
    BY <1>2, <1>3, <2>1, <2>2 DEF DataHolds, wanted
<1> QED
  BY <1>5, <1>6 DEF r, c

\* An event of an acquisition is the call.
LEMMA AcquireEvents ==
    ASSUME NEW e \in EventE, e.kind = "acquire", NEW i, e.item = i, NEW b, e.acquire = b
    PROVE  e = AcquireCall(i, b)
BY DEF EventE, AcquireCall

\* The first event is taken, and the flag follows it.
LEMMA AcquireTaken ==
    ASSUME NEW i \in Items, NEW flags, NEW svc, NEW es \in Seq(EventE), es # <<>>,
           AcquireHolds(i, flags, svc, es), NEW new,
           i \in new <=> IF Head(es).kind = "acquire" /\ Head(es).item = i
                           THEN Head(es).acquire = TRUE ELSE i \in flags
    PROVE  AcquireHolds(i, new, svc, Tail(es))
<1> DEFINE e == Head(es)
           this == e.kind = "acquire" /\ e.item = i
<1>1. ASSUME NEW b \in BOOLEAN, b <=> i \in svc
      PROVE  /\ Newest(Tail(es), AcquireCall(i, b))
             /\ (this /\ ~Has(Tail(es), "acquire", i)) => e.acquire = b
  <2> DEFINE c == AcquireCall(i, b)
  <2>1. c.kind = "acquire" /\ c.item = i /\ c.acquire = b
    BY <1>1 DEF AcquireCall
  <2> HIDE DEF c
  <2>2. Newest(es, c)
    BY <1>1 DEF AcquireHolds, c
  <2>3. /\ Newest(Tail(es), c)
        /\ (Alike(e, c) /\ ~Has(Tail(es), "acquire", i)) => e = c
    BY <2>1, <2>2, NewestTail
  <2>4. this => Alike(e, c)
    BY <2>1 DEF Alike
  <2> QED
    BY <2>1, <2>3, <2>4 DEF c
<1>2. Has(es, "acquire", i) <=> this \/ Has(Tail(es), "acquire", i)
  BY HasTail
<1> HIDE DEF e
<1>3. ASSUME ~Has(Tail(es), "acquire", i) PROVE i \in new <=> i \in svc
  <2>1. CASE ~this
    BY <1>2, <1>3, <2>1 DEF AcquireHolds, e
  <2>2. CASE this
    <3>1. i \in new <=> e.acquire = TRUE
      BY <2>2 DEF e
    <3>2. CASE i \in svc
      <4>1. e.acquire = TRUE
        BY <1>1, <1>3, <2>2, <3>2
      <4> QED
        BY <3>1, <3>2, <4>1
    <3>3. CASE i \notin svc
      <4>1. e.acquire = FALSE
        BY <1>1, <1>3, <2>2, <3>3
      <4> QED
        BY <3>1, <3>3, <4>1
    <3> QED
      BY <3>2, <3>3
  <2> QED
    BY <2>1, <2>2
<1> QED
  BY <1>1, <1>3 DEF AcquireHolds

\* An event is queued, and the service has what it says.
LEMMA AcquireQueued ==
    ASSUME NEW i \in Items, NEW flags, NEW svc, NEW es \in Seq(EventE), NEW e \in EventE,
           AcquireHolds(i, flags, svc, es), NEW new,
           i \in new <=> IF e.kind = "acquire" /\ e.item = i
                           THEN e.acquire = TRUE ELSE i \in svc
    PROVE  AcquireHolds(i, flags, new, Append(es, e))
<1> DEFINE this == e.kind = "acquire" /\ e.item = i
<1>1. Has(Append(es, e), "acquire", i) <=> Has(es, "acquire", i) \/ this
  BY HasAppended
<1>2. ASSUME NEW b \in BOOLEAN, b <=> i \in new
      PROVE  Newest(Append(es, e), AcquireCall(i, b))
  <2> DEFINE c == AcquireCall(i, b)
  <2>1. c.kind = "acquire" /\ c.item = i
    BY DEF AcquireCall
  <2>2. CASE this
    <3>1. e.acquire \in BOOLEAN
      BY <2>2, EventTypes
    <3>2. e.acquire = b
      <4>1. CASE b = TRUE
        BY <1>2, <2>2, <4>1
      <4>2. CASE b = FALSE
        BY <1>2, <2>2, <3>1, <4>2
      <4> QED
        BY <1>2, <4>1, <4>2
    <3>3. e = c
      BY <2>2, <3>2, AcquireEvents
    <3> QED
      BY <3>3, NewestAppended DEF Alike
  <2>3. CASE ~this
    <3>1. Newest(es, c)
      BY <1>2, <2>3 DEF AcquireHolds
    <3>2. ~Alike(e, c)
      BY <2>1, <2>3 DEF Alike
    <3> HIDE DEF c
    <3>3. Newest(Append(es, e), c)
      BY <3>1, <3>2, NewestAppended
    <3> QED
      BY <3>3 DEF c
  <2> QED
    BY <2>2, <2>3
<1>3. ~Has(Append(es, e), "acquire", i) => (i \in flags <=> i \in new)
  BY <1>1 DEF AcquireHolds
<1> QED
  BY <1>2, <1>3 DEF AcquireHolds

\* The user asks for something else, or for data last.
LEMMA UserAgrees ==
    ASSUME PInv, User, NEW i \in Items,
           DataHolds(i, build_id[i], data[i], calls, events)
    PROVE  /\ UNCHANGED <<aquired, svc_aquired, events>>
           /\ DataHolds(i, build_id'[i], data'[i], calls', events)
<1>1. /\ calls \in Seq(CallE) /\ build_id[i] \in BuildIds
      /\ review_shown \in BOOLEAN /\ combo \in Combos
  BY DEF PInv, Types
<1>2. ASSUME NEW j \in Items, ShowItem(j)
      PROVE  DataHolds(i, build_id[i], data[i], calls', events)
  <2> DEFINE has == j \in aquired
             t   == Toggle(j, has, calls)
  <2>1. has \in BOOLEAN
    OBVIOUS
  <2>2. calls' = Append(t, EntriesCall(j))
    BY <1>2, ShowItemStep
  <2> HIDE DEF has
  <2>3. AcquireCall(j, has) \in CallE /\ AcquireCall(j, has).kind = "acquire"
    BY <2>1, MadeCalls
  <2>4. t \in Seq(CallE) /\ (t = calls \/ t = Append(calls, AcquireCall(j, has)))
    BY <1>1, <2>1, Toggled
  <2> HIDE DEF t
  <2>5. DataHolds(i, build_id[i], data[i], t, events)
    BY <1>1, <2>3, <2>4, DataOtherCall
  <2>6. EntriesCall(j) \in CallE /\ EntriesCall(j).kind = "entries"
    BY MadeCalls
  <2> QED
    BY <1>1, <2>2, <2>4, <2>5, <2>6, DataOtherCall
<1>3. ASSUME ClickAcquire
      PROVE  DataHolds(i, build_id[i], data[i], calls', events)
  <2> DEFINE other == ~button
  <2>1. other \in BOOLEAN
    OBVIOUS
  <2>2. current \in Items /\ calls' = Append(calls, AcquireCall(current, other))
    BY <1>3, ClickAcquireStep
  <2> HIDE DEF other
  <2>3. /\ AcquireCall(current, other) \in CallE
        /\ AcquireCall(current, other).kind = "acquire"
    BY <2>1, <2>2, MadeCalls
  <2> QED
    BY <1>1, <2>2, <2>3, DataOtherCall
<1>4. ASSUME NEW k \in Picks, ChooseBuild(k)
      PROVE  DataHolds(i, build_id'[i], data'[i], calls', events)
  <2>1. current \in Items /\ k \in 0 .. Len(combo) - 1
    BY <1>4, ChooseBuildStep
  <2>2. BuildChanged(combo, k, review_shown, calls)
    BY <1>4 DEF ChooseBuild
  <2> QED
    BY <1>1, <2>1, <2>2, DataChanged DEF PInv
<1>5. ASSUME Review
      PROVE  DataHolds(i, build_id[i], data[i], calls', events)
  <2>1. PICK c \in CallE : c.kind = "state" /\ calls' = Append(calls, c)
    BY <1>5, ReviewStep
  <2> QED
    BY <1>1, <2>1, DataOtherCall
<1>6. UNCHANGED <<aquired, svc_aquired, events>>
  BY DEF User, ShowItem, ClickAcquire, ChooseBuild, Review, svcVars
<1>7. (~\E k \in Picks : ChooseBuild(k)) => UNCHANGED <<build_id, data>>
  BY DEF User, ShowItem, ClickAcquire, Review, buildVars
<1> QED
  BY <1>2, <1>3, <1>4, <1>5, <1>6, <1>7 DEF User

\* The slots take the first event.
LEMMA SlotAgrees ==
    ASSUME PInv, Slot, NEW i \in Items,
           AcquireHolds(i, aquired, svc_aquired, events),
           DataHolds(i, build_id[i], data[i], calls, events)
    PROVE  /\ AcquireHolds(i, aquired', svc_aquired', events')
           /\ DataHolds(i, build_id'[i], data'[i], calls', events')
<1> DEFINE e == Head(events)
           j == e.item
<1>1. /\ calls \in Seq(CallE) /\ build_id[i] \in BuildIds /\ events \in Seq(EventE)
      /\ review_shown \in BOOLEAN /\ combo \in Combos
      /\ data \in [Items -> BuildIds \cup {None}]
  BY DEF PInv, Types
<1>2. events # <<>> /\ events' = Tail(events) /\ svc_aquired' = svc_aquired
  BY DEF Slot, ItemAcquireSlot, ItemEntriesSlot, ItemDataSlot, svcVars
<1>3. e \in EventE /\ j \in Items
  BY <1>2, Taken, EventTypes DEF PInv
<1>4. DataHolds(i, build_id[i],
                IF e.kind = "data" /\ j = i THEN e.build ELSE data[i], calls, events')
  BY <1>1, <1>2, DataTaken
<1>5. i \in aquired' <=> IF e.kind = "acquire" /\ j = i THEN e.acquire = TRUE
                                                       ELSE i \in aquired
  <2>1. CASE ItemAcquireSlot
    <3>1. /\ e.kind = "acquire"
          /\ aquired' = IF e.acquire THEN aquired \cup {j} ELSE aquired \ {j}
      BY <2>1 DEF ItemAcquireSlot
    <3>2. e.acquire \in BOOLEAN
      BY <1>3, <3>1, EventTypes
    <3> HIDE DEF e
    <3>3. CASE e.acquire = TRUE
      BY <3>1, <3>3
    <3>4. CASE e.acquire = FALSE
      BY <3>1, <3>4
    <3> QED
      BY <3>2, <3>3, <3>4
  <2>2. CASE ItemEntriesSlot \/ ItemDataSlot
    BY <2>2 DEF ItemEntriesSlot, ItemDataSlot
  <2> QED
    BY <2>1, <2>2 DEF Slot
<1>6. AcquireHolds(i, aquired', svc_aquired', events')
  BY <1>1, <1>2, <1>5, AcquireTaken
<1>7. CASE ItemDataSlot
  <2>1. /\ e.kind = "data" /\ UNCHANGED <<build_id, calls>>
        /\ data' = [data EXCEPT ![j] = e.build]
    BY <1>7 DEF ItemDataSlot
  <2>2. data'[i] = IF j = i THEN e.build ELSE data[i]
    BY <1>1, <2>1
  <2> QED
    BY <1>4, <1>6, <2>1, <2>2
<1>8. CASE ItemEntriesSlot
  <2> DEFINE cmb == ComboFor(j, e.builds)
             k == IndexFor(cmb, j)
             shown == k >= 5 /\ UnderReview(cmb, j, k)
  <2>1. e.kind = "entries"
    BY <1>8 DEF ItemEntriesSlot
  <2>2. e.builds \in Fetched
    BY <1>3, <2>1, EventTypes
  <2>3. cmb \in Combos /\ k \in 0 .. Len(cmb) - 1
    BY <1>3, <2>2, ComboFilled DEF PInv
  <2>4. shown \in BOOLEAN
    OBVIOUS
  <2>5. \/ UNCHANGED <<build_id, data, calls>>
        \/ j = current /\ BuildChanged(cmb, k, shown, calls)
    BY <1>8 DEF ItemEntriesSlot, buildVars
  <2>6. DataHolds(i, build_id[i], data[i], calls, events')
    BY <1>4, <2>1
  <2> HIDE DEF e, j, cmb, k, shown
  <2>7. CASE j = current /\ BuildChanged(cmb, k, shown, calls)
    BY <1>1, <1>3, <1>6, <2>3, <2>4, <2>6, <2>7, DataChanged DEF PInv
  <2> QED
    BY <1>6, <2>5, <2>6, <2>7
<1>9. CASE ItemAcquireSlot
  <2> DEFINE acquire == e.acquire
             pending == Toggle(j, acquire, calls)
  <2>1. e.kind = "acquire"
    BY <1>9 DEF ItemAcquireSlot
  <2>2. acquire \in BOOLEAN
    BY <1>3, <2>1, EventTypes
  <2>3. \/ UNCHANGED <<build_id, data, calls>>
        \/ calls' = pending /\ UNCHANGED <<build_id, data>>
        \/ j = current /\ combo # <<>> /\ BuildChanged(combo, 0, review_shown, pending)
    BY <1>9 DEF ItemAcquireSlot, buildVars
  <2>4. DataHolds(i, build_id[i], data[i], calls, events')
    BY <1>4, <2>1
  <2> HIDE DEF e, j, acquire
  <2>5. AcquireCall(j, acquire) \in CallE /\ AcquireCall(j, acquire).kind = "acquire"
    BY <1>3, <2>2, MadeCalls
  <2>6. /\ pending \in Seq(CallE)
        /\ pending = calls \/ pending = Append(calls, AcquireCall(j, acquire))
    BY <1>1, <1>3, <2>2, Toggled
  <2> HIDE DEF pending
  <2>7. DataHolds(i, build_id[i], data[i], pending, events')
    BY <1>1, <2>4, <2>5, <2>6, DataOtherCall
  <2>8. CASE j = current /\ combo # <<>> /\ BuildChanged(combo, 0, review_shown, pending)
    <3>1. 0 \in 0 .. Len(combo) - 1
      BY <1>1, <2>8, EmptySeq DEF Combos
    <3> QED
      BY <1>1, <1>3, <1>6, <2>6, <2>7, <2>8, <3>1, DataChanged DEF PInv
  <2> QED
    BY <1>6, <2>3, <2>4, <2>7, <2>8
<1> QED
  BY <1>7, <1>8, <1>9 DEF Slot

\* A call is answered, in turn and not failing.
LEMMA AnswerAgrees ==
    ASSUME PInv, NEW k \in DOMAIN calls, ~Overtakes(k),
           AcquireAnswered(k) \/ EntriesAnswered(k) \/ DataAnswered(k) \/ StateAnswered(k),
           NEW i \in Items,
           AcquireHolds(i, aquired, svc_aquired, events),
           DataHolds(i, build_id[i], data[i], calls, events)
    PROVE  /\ AcquireHolds(i, aquired, svc_aquired', events')
           /\ DataHolds(i, build_id[i], data[i], calls', events')
<1> DEFINE c == calls[k]
           r == RemoveAt(calls, k)
<1>1. /\ calls \in Seq(CallE) /\ build_id[i] \in BuildIds /\ events \in Seq(EventE)
  BY DEF PInv, Types
<1>2. c \in CallE /\ c.item \in Items /\ r \in Seq(CallE)
  BY <1>1, LenProperties, CallTypes, Removed
<1>3. \A j \in 1 .. k - 1 : ~Alike(calls[j], c)
  BY DEF Overtakes, Alike
<1>4. /\ \A e \in EventE : e.kind = c.kind /\ e.item = c.item /\ (e.kind = "data" => e = c)
           => DataHolds(i, build_id[i], data[i], r, Append(events, e))
      /\ c.kind # "data" => DataHolds(i, build_id[i], data[i], r, events)
  BY <1>1, <1>3, DataAnswers
<1>5. CASE AcquireAnswered(k)
  <2>1. /\ c.kind = "acquire" /\ events' = Append(events, c) /\ calls' = r
        /\ svc_aquired' = IF c.acquire THEN svc_aquired \cup {c.item}
                                       ELSE svc_aquired \ {c.item}
    BY <1>5 DEF AcquireAnswered
  <2>2. c \in EventE /\ c.acquire \in BOOLEAN
    BY <1>2, <2>1, CallTypes DEF EventE
  <2> HIDE DEF c, r
  <2>3. i \in svc_aquired' <=> IF c.kind = "acquire" /\ c.item = i
                                 THEN c.acquire = TRUE ELSE i \in svc_aquired
    <3>1. CASE c.acquire = TRUE
      BY <2>1, <3>1
    <3>2. CASE c.acquire = FALSE
      BY <2>1, <3>2
    <3> QED
      BY <2>2, <3>1, <3>2
  <2>4. AcquireHolds(i, aquired, svc_aquired', events')
    BY <1>1, <2>1, <2>2, <2>3, AcquireQueued
  <2> QED
    BY <1>4, <2>1, <2>2, <2>4
<1>6. ASSUME NEW e \in EventE, e.kind = c.kind, e.item = c.item, e.kind # "acquire",
             e.kind = "data" => e = c,
             events' = Append(events, e), calls' = r, svc_aquired' = svc_aquired
      PROVE  /\ AcquireHolds(i, aquired, svc_aquired', events')
             /\ DataHolds(i, build_id[i], data[i], calls', events')
  <2> HIDE DEF c, r
  <2>1. AcquireHolds(i, aquired, svc_aquired', events')
    BY <1>1, <1>6, AcquireQueued
  <2> QED
    BY <1>4, <1>6, <2>1
<1>7. CASE EntriesAnswered(k)
  <2> DEFINE builds == [b \in Builds[c.item] |-> svc_state[<<c.item, b>>]]
             e == EntriesEvent(c.item, builds)
  <2>1. /\ c.kind = "entries" /\ events' = Append(events, e) /\ calls' = r
        /\ svc_aquired' = svc_aquired
    BY <1>7 DEF EntriesAnswered, svcVars
  <2>2. builds \in Fetched
    <3>1. svc_state \in [Offered -> StateE]
      BY DEF PInv, Types
    <3>2. \A b \in Builds[c.item] : <<c.item, b>> \in Offered
      BY <1>2 DEF Offered
    <3>3. builds \in [Builds[c.item] -> StateE]
      BY <3>1, <3>2
    <3> QED
      BY <1>2, <3>3 DEF Fetched
  <2> HIDE DEF builds
  <2>3. e \in EventE /\ e.kind = "entries" /\ e.item = c.item
    BY <1>2, <2>2 DEF EntriesEvent, EventE
  <2> HIDE DEF c, r, e
  <2> QED
    BY <1>6, <2>1, <2>3
<1>8. CASE DataAnswered(k)
  <2>1. /\ c.kind = "data" /\ events' = Append(events, c) /\ calls' = r
        /\ svc_aquired' = svc_aquired
    BY <1>8 DEF DataAnswered, svcVars
  <2>2. c \in EventE
    BY <1>2, <2>1, CallTypes DEF EventE
  <2> HIDE DEF c, r
  <2> QED
    BY <1>6, <2>1, <2>2
<1>9. CASE StateAnswered(k)
  <2>1. /\ c.kind = "state" /\ events' = events /\ calls' = Append(r, EntriesCall(c.item))
        /\ svc_aquired' = svc_aquired
    BY <1>9 DEF StateAnswered
  <2>2. EntriesCall(c.item) \in CallE /\ EntriesCall(c.item).kind = "entries"
    BY <1>2, MadeCalls
  <2> HIDE DEF c, r
  <2>3. DataHolds(i, build_id[i], data[i], Append(r, EntriesCall(c.item)), events)
    BY <1>1, <1>2, <1>4, <2>1, <2>2, DataOtherCall
  <2> QED
    BY <2>1, <2>3
<1> QED
  BY <1>5, <1>7, <1>8, <1>9

LEMMA InitAgreeing == Init => Agreeing
<1> SUFFICES ASSUME Init PROVE Agreeing
  OBVIOUS
<1>1. /\ svc_aquired = aquired /\ calls = <<>> /\ events = <<>>
      /\ data = [i \in Items |-> None]
  BY DEF Init
<1>2. \A c : Newest(<<>>, c)
  BY EmptySeq DEF Newest
<1> QED
  BY <1>1, <1>2 DEF Agreeing, AcquireHolds, DataHolds

LEMMA StepAgreeing == PInv /\ Agreeing /\ [Next]_vars => Agreeing'
<1> SUFFICES ASSUME PInv, Agreeing, [Next]_vars, orderly', NEW i \in Items
    PROVE  /\ AcquireHolds(i, aquired', svc_aquired', events')
           /\ DataHolds(i, build_id'[i], data'[i], calls', events')
  BY DEF Agreeing, AcquireHolds, DataHolds
<1>1. orderly
  BY DEF Next, Answer, vars
<1>2. /\ AcquireHolds(i, aquired, svc_aquired, events)
      /\ DataHolds(i, build_id[i], data[i], calls, events)
  BY <1>1 DEF Agreeing
<1>3. CASE UNCHANGED vars
  BY <1>2, <1>3 DEF vars, buildVars, svcVars
<1>4. CASE Answer
  <2>1. PICK k \in DOMAIN calls :
          /\ AcquireAnswered(k) \/ EntriesAnswered(k) \/ DataAnswered(k) \/ StateAnswered(k)
          /\ ~Overtakes(k)
    BY <1>4 DEF Answer
  <2>2. UNCHANGED <<aquired, build_id, data>>
    BY <1>4 DEF Answer, buildVars
  <2> QED
    BY <1>2, <2>1, <2>2, AnswerAgrees
<1>5. CASE User
  BY <1>2, <1>5, UserAgrees
<1>6. CASE ServiceMoves
  BY <1>2, <1>6 DEF ServiceMoves, buildVars
<1>7. CASE Slot
  BY <1>2, <1>7, SlotAgrees
<1> QED
  BY <1>3, <1>4, <1>5, <1>6, <1>7 DEF Next

\* With no call of an item under way the page and the service agree, for any
\* items, builds and number of calls, as long as none has failed or been
\* answered out of turn.
THEOREM PageAgrees == Spec => []AgreesWithService
<1>1. PInv /\ Agreeing => AgreesWithService
  <2> SUFFICES ASSUME PInv, Agreeing, orderly, NEW i \in Items
      PROVE  /\ ~Pending("acquire", i) => (i \in aquired <=> i \in svc_aquired)
             /\ (~Pending("data", i) /\ data[i] # None) =>
                   data[i] = IF build_id[i] = "invalid" THEN Latest ELSE build_id[i]
    BY DEF AgreesWithService
  <2>1. /\ AcquireHolds(i, aquired, svc_aquired, events)
        /\ DataHolds(i, build_id[i], data[i], calls, events)
    BY DEF Agreeing
  <2> QED
    BY <2>1 DEF AcquireHolds, DataHolds, Pending, Has, Asked
<1> QED
  BY <1>1, InitPInv, StepPInv, InitAgreeing, StepAgreeing, PTL DEF Spec

-----------------------------------------------------------------------------
(* The combo box settles.                                                  *)

\* Builds are not named as the entries that stand for something else.
NamesApart ==
    \A i \in Items : /\ PrivateAlpha \notin Builds[i]
                     /\ \A k \in 1 .. 5 : FixedIds[k] \notin Builds[i]

\* No two entries stand for the same build.
Distinct(cmb, i) ==
    \A k, l \in 0 .. Len(cmb) - 1 : BuildAt(cmb, i, k) = BuildAt(cmb, i, l) => k = l

\* Nor do two of the fixed ones, or a fixed one and the owner's.
LEMMA FixedApart ==
    \A k \in 0 .. 4 : /\ FixedIds[k + 1] # PrivateAlpha
                      /\ \A l \in 0 .. 4 : FixedIds[k + 1] = FixedIds[l + 1] => k = l
<1>1. \A k \in 0 .. 4 : k + 1 \in {1, 2, 3, 4, 5}
  OBVIOUS
<1>2. /\ FixedIds[1] # PrivateAlpha /\ FixedIds[2] # PrivateAlpha /\ FixedIds[3] # PrivateAlpha
      /\ FixedIds[4] # PrivateAlpha /\ FixedIds[5] # PrivateAlpha
      /\ FixedIds[1] # FixedIds[2] /\ FixedIds[1] # FixedIds[3] /\ FixedIds[1] # FixedIds[4]
      /\ FixedIds[1] # FixedIds[5] /\ FixedIds[2] # FixedIds[3] /\ FixedIds[2] # FixedIds[4]
      /\ FixedIds[2] # FixedIds[5] /\ FixedIds[3] # FixedIds[4] /\ FixedIds[3] # FixedIds[5]
      /\ FixedIds[4] # FixedIds[5]
  BY DEF FixedIds, Latest, PrivateAlpha
<1>3. \A m, h \in {1, 2, 3, 4, 5} : FixedIds[m] # PrivateAlpha /\ (FixedIds[m] = FixedIds[h] => m = h)
  BY <1>2
<1>4. \A k, l \in 0 .. 4 : k + 1 = l + 1 => k = l
  OBVIOUS
<1> QED
  BY <1>1, <1>3, <1>4

LEMMA ComboDistinct ==
    ASSUME NamesApart, NEW i \in Items, NEW builds \in Fetched
    PROVE  Distinct(ComboFor(i, builds), i)
<1> DEFINE cmb == ComboFor(i, builds)
           own  == IF i \in Owned THEN 1 ELSE 0
           list == SetToSeq(Listed(builds))
           n    == Cardinality(Listed(builds))
           At(k) == BuildAt(cmb, i, k)
<1>1. /\ n \in Nat /\ Len(cmb) = 5 + own + n
      /\ \A k \in 1 .. n : cmb[5 + own + k] = Entry(list[k], builds[list[k]])
      /\ \A k \in 1 .. n : list[k] \in DOMAIN builds
      /\ \A k, l \in 1 .. n : list[k] = list[l] => k = l
  BY ComboParts
<1>2. PICK j \in Items : builds \in [Builds[j] -> StateE]
  BY DEF Fetched
<1>3. own \in {0, 1} /\ (own = 1 <=> i \in Owned)
  OBVIOUS
<1> HIDE DEF cmb, own, list, n
<1>4. \A k \in 1 .. n : cmb[5 + own + k].text = list[k]
  <2> TAKE k \in 1 .. n
  <2>1. cmb[5 + own + k] = Entry(list[k], builds[list[k]])
    BY <1>1
  <2>2. Entry(list[k], builds[list[k]]).text = list[k]
    BY DEF Entry
  <2> QED
    BY <2>1, <2>2
<1>5. \A k \in 0 .. 4 : At(k) = FixedIds[k + 1]
  BY DEF BuildAt
<1>6. own = 1 => At(5) = PrivateAlpha
  BY <1>3 DEF BuildAt
<1>7. \A k \in 1 .. n : At(4 + own + k) = list[k]
  <2> TAKE k \in 1 .. n
  <2>1. /\ 4 + own + k \in Int /\ ~(4 + own + k <= 4) /\ ~(4 + own + k = 5 /\ i \in Owned)
        /\ (4 + own + k) + 1 = 5 + own + k
    BY <1>1, <1>3
  <2> QED
    BY <1>4, <2>1 DEF BuildAt
<1>8. \A k \in 1 .. n : /\ \A l \in 0 .. 4 : list[k] # FixedIds[l + 1]
                        /\ list[k] # PrivateAlpha
  BY <1>1, <1>2 DEF NamesApart
<1>9. /\ \A k, l \in 0 .. 4 : FixedIds[k + 1] = FixedIds[l + 1] => k = l
      /\ \A k \in 0 .. 4 : FixedIds[k + 1] # PrivateAlpha
  BY FixedApart
<1>10. ASSUME NEW k \in 0 .. Len(cmb) - 1
       PROVE  k \in 0 .. 4 \/ (own = 1 /\ k = 5) \/ \E m \in 1 .. n : k = 4 + own + m
  <2>1. CASE k <= 4
    BY <2>1
  <2>2. CASE ~(k <= 4) /\ ~(own = 1 /\ k = 5)
    <3>1. k - 4 - own \in 1 .. n /\ k = 4 + own + (k - 4 - own)
      BY <1>1, <1>3, <2>2
    <3> QED
      BY <3>1
  <2> QED
    BY <2>1, <2>2
<1> HIDE DEF At
<1>11. ASSUME NEW k \in 0 .. Len(cmb) - 1, NEW l \in 0 .. Len(cmb) - 1, At(k) = At(l)
       PROVE  k = l
  <2>1. CASE k \in 0 .. 4
    <3>1. l \in 0 .. 4
      BY <1>5, <1>6, <1>7, <1>8, <1>9, <1>10, <1>11, <2>1
    <3> QED
      BY <1>5, <1>9, <1>11, <2>1, <3>1
  <2>2. CASE own = 1 /\ k = 5
    <3>1. l = 5
      BY <1>5, <1>6, <1>7, <1>8, <1>9, <1>10, <1>11, <2>2
    <3> QED
      BY <2>2, <3>1
  <2>3. ASSUME NEW m \in 1 .. n, k = 4 + own + m PROVE k = l
    <3>1. PICK h \in 1 .. n : l = 4 + own + h
      BY <1>5, <1>6, <1>7, <1>8, <1>10, <1>11, <2>3
    <3>2. m = h
      BY <1>1, <1>7, <1>11, <2>3, <3>1
    <3> QED
      BY <2>3, <3>1, <3>2
  <2> QED
    BY <1>10, <2>1, <2>2, <2>3
<1> QED
  BY <1>11 DEF Distinct, cmb, At

\* What buildChangedSlot leaves of the item and of the review buttons.
LEMMA ChoiceSettles ==
    ASSUME Types, NEW i \in Items, current = i,
           NEW cmb \in Combos, NEW k \in 0 .. Len(cmb) - 1,
           NEW shown \in BOOLEAN, NEW pending \in Seq(CallE),
           BuildChanged(cmb, k, shown, pending),
           shown /\ BuildAt(cmb, i, k) = build_id[i] => UnderReview(cmb, i, k)
    PROVE  /\ BuildAt(cmb, i, k) = build_id'[i]
           /\ review_shown' => /\ i \notin Owned /\ k >= 5
                               /\ cmb[k + 1].state \in ReviewStates
<1>1. /\ build_id' = [build_id EXCEPT ![i] = BuildAt(cmb, i, k)]
      /\ review_shown' = IF BuildAt(cmb, i, k) # build_id[i] THEN UnderReview(cmb, i, k) ELSE shown
  BY DEF BuildChanged
<1>2. build_id \in [Items -> BuildIds]
  BY DEF Types
<1>3. review_shown' => UnderReview(cmb, i, k)
  BY <1>1
<1>4. UnderReview(cmb, i, k) => k >= 5
  <2>1. k \in Int
    BY LenProperties DEF Combos
  <2> QED
    BY <2>1, FixedUnreviewed
<1> QED
  BY <1>1, <1>2, <1>3, <1>4 DEF UnderReview

Settled ==
    (current # None /\ ~Has(calls, "entries", current) /\ ~Has(events, "entries", current)) =>
      /\ combo_of = current
      /\ Distinct(combo, current)
      /\ combo_index >= 0 => BuildAt(combo, current, combo_index) = build_id[current]
      /\ review_shown => /\ current \notin Owned
                         /\ combo_index >= 5
                         /\ combo[combo_index + 1].state \in ReviewStates

LEMMA UserSettles ==
    ASSUME PInv, Settled, User
    PROVE  Settled'
<1>1. /\ calls \in Seq(CallE) /\ review_shown \in BOOLEAN /\ combo \in Combos
      /\ combo_index \in -1 .. Len(combo) - 1
  BY DEF PInv, Types
<1>2. ASSUME NEW i \in Items, ShowItem(i) PROVE Settled'
  <2> DEFINE has == i \in aquired
             t   == Toggle(i, has, calls)
  <2>1. has \in BOOLEAN
    OBVIOUS
  <2>2. calls' = Append(t, EntriesCall(i)) /\ current' = i
    BY <1>2, ShowItemStep DEF ShowItem
  <2> HIDE DEF has
  <2>3. t \in Seq(CallE)
    BY <1>1, <2>1, Toggled
  <2> HIDE DEF t
  <2>4. Has(calls', "entries", i)
    BY <2>2, <2>3, MadeCalls, HasAppended
  <2> QED
    BY <2>2, <2>4 DEF Settled
<1>3. ASSUME ClickAcquire PROVE Settled'
  <2> DEFINE other == ~button
             c == AcquireCall(current, other)
  <2>1. other \in BOOLEAN
    OBVIOUS
  <2>2. current \in Items /\ calls' = Append(calls, c) /\ current' = current
    BY <1>3, ClickAcquireStep
  <2> HIDE DEF other
  <2>3. c \in CallE /\ c.kind = "acquire"
    BY <2>1, <2>2, MadeCalls
  <2>4. Has(calls', "entries", current) <=> Has(calls, "entries", current)
    BY <1>1, <2>2, <2>3, HasAppended
  <2>5. UNCHANGED <<events, combo, combo_of, combo_index, build_id, review_shown>>
    BY <1>3 DEF ClickAcquire, comboVars, buildVars
  <2> QED
    BY <2>2, <2>4, <2>5 DEF Settled
<1>4. ASSUME Review PROVE Settled'
  <2>1. PICK c \in CallE : c.kind = "state" /\ calls' = Append(calls, c)
    BY <1>4, ReviewStep
  <2>2. Has(calls', "entries", current) <=> Has(calls, "entries", current)
    BY <1>1, <2>1, HasAppended
  <2>3. UNCHANGED <<current, events, combo, combo_of, combo_index, build_id, review_shown>>
    BY <1>4 DEF Review, comboVars, buildVars, pageVars
  <2> QED
    BY <2>2, <2>3 DEF Settled
<1>5. ASSUME NEW k \in Picks, ChooseBuild(k) PROVE Settled'
  <2>1. /\ current \in Items /\ k \in 0 .. Len(combo) - 1
        /\ Has(calls', "entries", current) <=> Has(calls, "entries", current)
    BY <1>5, ChooseBuildStep
  <2>2. /\ BuildChanged(combo, k, review_shown, calls)
        /\ UNCHANGED <<current, combo, combo_of, events>>
        /\ combo_index' = k /\ k # combo_index
    BY <1>5 DEF ChooseBuild, pageVars
  <2>3. SUFFICES ASSUME current # None, ~Has(calls, "entries", current),
                        ~Has(events, "entries", current)
                 PROVE  Settled'
    BY <2>1, <2>2 DEF Settled
  <2>4. /\ combo_of = current /\ Distinct(combo, current)
        /\ combo_index >= 0 => BuildAt(combo, current, combo_index) = build_id[current]
        /\ review_shown => combo_index >= 5
    BY <2>1, <2>3 DEF Settled
  <2>5. review_shown => BuildAt(combo, current, k) # build_id[current]
    <3>1. Len(combo) \in Nat
      BY <1>1, LenProperties DEF Combos
    <3>2. review_shown => combo_index \in 0 .. Len(combo) - 1
      BY <1>1, <2>4, <3>1
    <3> QED
      BY <2>1, <2>2, <2>4, <3>2 DEF Distinct
  <2>6. /\ BuildAt(combo, current, k) = build_id'[current]
        /\ review_shown' => /\ current \notin Owned /\ k >= 5
                            /\ combo[k + 1].state \in ReviewStates
    BY <1>1, <2>1, <2>2, <2>5, ChoiceSettles DEF PInv
  <2> QED
    BY <2>2, <2>4, <2>6 DEF Settled
<1> QED
  BY <1>2, <1>3, <1>4, <1>5 DEF User

LEMMA AcquireSlotSettles ==
    ASSUME PInv, Settled, ItemAcquireSlot
    PROVE  Settled'
<1> DEFINE e == Head(events)
           pending == Toggle(e.item, e.acquire, calls)
<1>1. /\ e \in EventE /\ e.kind = "acquire" /\ events' = Tail(events)
      /\ \A kind, j : Has(events, kind, j) <=> (e.kind = kind /\ e.item = j) \/ Has(events', kind, j)
  BY Taken DEF ItemAcquireSlot, PInv
<1>2. /\ UNCHANGED <<current, combo, combo_of>>
      /\ \/ UNCHANGED <<combo_index, build_id, review_shown>>
         \/ /\ e.item = current /\ combo # <<>> /\ combo_index # 0 /\ combo_index' = 0
            /\ BuildChanged(combo, 0, review_shown, pending)
  BY DEF ItemAcquireSlot, buildVars
<1>3. \A j \in Items : Has(calls', "entries", j) <=> Has(calls, "entries", j)
  BY AcquireSlotStep
<1>4. e.item \in Items /\ e.acquire \in BOOLEAN
  BY <1>1, EventTypes
<1>5. /\ calls \in Seq(CallE) /\ review_shown \in BOOLEAN /\ combo \in Combos
      /\ combo_index \in -1 .. Len(combo) - 1 /\ (review_shown => combo_index >= 0)
      /\ current \in Items \cup {None}
  BY DEF PInv, Types
<1>6. Has(events', "entries", current) <=> Has(events, "entries", current)
  BY <1>1
<1> HIDE DEF e
<1>7. pending \in Seq(CallE)
  BY <1>4, <1>5, Toggled
<1> HIDE DEF pending
<1>8. CASE UNCHANGED <<combo_index, build_id, review_shown>>
  BY <1>2, <1>3, <1>5, <1>6, <1>8 DEF Settled
<1>9. CASE /\ e.item = current /\ combo # <<>> /\ combo_index # 0 /\ combo_index' = 0
           /\ BuildChanged(combo, 0, review_shown, pending)
  <2>1. Len(combo) \in Nat /\ 0 \in 0 .. Len(combo) - 1
    BY <1>5, <1>9, EmptySeq DEF Combos
  <2>2. SUFFICES ASSUME current # None, ~Has(calls, "entries", current),
                        ~Has(events, "entries", current)
                 PROVE  Settled'
    BY <1>2, <1>3, <1>4, <1>6, <1>9 DEF Settled
  <2>3. /\ combo_of = current /\ Distinct(combo, current)
        /\ combo_index >= 0 => BuildAt(combo, current, combo_index) = build_id[current]
    BY <2>2 DEF Settled
  <2>4. review_shown => BuildAt(combo, current, 0) # build_id[current]
    <3>1. review_shown => combo_index \in 0 .. Len(combo) - 1
      BY <1>5, <2>1
    <3> QED
      BY <1>9, <2>1, <2>3, <3>1 DEF Distinct
  <2>5. /\ BuildAt(combo, current, 0) = build_id'[current]
        /\ review_shown' => /\ current \notin Owned /\ 0 >= 5
                            /\ combo[0 + 1].state \in ReviewStates
    BY <1>4, <1>5, <1>7, <1>9, <2>1, <2>4, ChoiceSettles DEF PInv
  <2> QED
    BY <1>2, <1>9, <2>3, <2>5 DEF Settled
<1> QED
  BY <1>2, <1>8, <1>9

LEMMA EntriesSlotSettles ==
    ASSUME NamesApart, PInv, Settled, ItemEntriesSlot
    PROVE  Settled'
<1> DEFINE e == Head(events)
           i == e.item
           cmb == ComboFor(i, e.builds)
           k == IndexFor(cmb, i)
           shown == k >= 5 /\ UnderReview(cmb, i, k)
<1>1. /\ e \in EventE /\ e.kind = "entries" /\ events' = Tail(events)
      /\ \A kind, j : Has(events, kind, j) <=> (e.kind = kind /\ e.item = j) \/ Has(events', kind, j)
  BY Taken DEF ItemEntriesSlot, PInv
<1>2. i \in Items /\ e.builds \in Fetched
  BY <1>1, EventTypes
<1>3. /\ cmb \in Combos /\ Len(cmb) \in Nat /\ k \in 0 .. Len(cmb) - 1
      /\ Distinct(cmb, i)
  BY <1>2, ComboFilled, ComboDistinct, LenProperties DEF PInv, Combos
<1>4. /\ current' = current
      /\ \/ i # current /\ UNCHANGED <<combo, combo_of, combo_index, build_id, review_shown>>
         \/ /\ i = current /\ combo' = cmb /\ combo_of' = i /\ combo_index' = k
            /\ BuildChanged(cmb, k, shown, calls)
         \/ /\ i = current /\ combo' = cmb /\ combo_of' = i /\ combo_index' = -1
            /\ review_shown' = FALSE
  BY DEF ItemEntriesSlot, pageVars, comboVars, buildVars
<1>5. shown \in BOOLEAN /\ (shown => UnderReview(cmb, i, k))
  OBVIOUS
<1>6. \A j \in Items : Has(calls', "entries", j) <=> Has(calls, "entries", j)
  BY EntriesSlotStep
<1>7. current \in Items \cup {None} /\ calls \in Seq(CallE)
  BY DEF PInv, Types
<1> HIDE DEF e, i, cmb, k, shown
<1>8. CASE i # current /\ UNCHANGED <<combo, combo_of, combo_index, build_id, review_shown>>
  <2>1. Has(events', "entries", current) <=> Has(events, "entries", current)
    BY <1>1, <1>8 DEF i
  <2> QED
    BY <1>4, <1>6, <1>7, <1>8, <2>1 DEF Settled
<1>9. CASE /\ i = current /\ combo' = cmb /\ combo_of' = i /\ combo_index' = k
           /\ BuildChanged(cmb, k, shown, calls)
  <2>1. /\ BuildAt(cmb, i, k) = build_id'[i]
        /\ review_shown' => /\ i \notin Owned /\ k >= 5
                            /\ cmb[k + 1].state \in ReviewStates
    BY <1>2, <1>3, <1>5, <1>7, <1>9, ChoiceSettles DEF PInv
  <2> QED
    BY <1>3, <1>4, <1>9, <2>1 DEF Settled
<1>10. CASE /\ i = current /\ combo' = cmb /\ combo_of' = i /\ combo_index' = -1
            /\ review_shown' = FALSE
  <2>1. ~(combo_index' >= 0) /\ ~review_shown'
    BY <1>10
  <2> QED
    BY <1>3, <1>4, <1>10, <2>1 DEF Settled
<1> QED
  BY <1>4, <1>8, <1>9, <1>10

LEMMA StepSettled ==
    ASSUME ~Fails, NamesApart
    PROVE  PInv /\ Settled /\ [Next]_vars => Settled'
<1> SUFFICES ASSUME PInv, Settled, [Next]_vars PROVE Settled'
  OBVIOUS
<1>1. CASE UNCHANGED vars
  BY <1>1 DEF vars, pageVars, comboVars, buildVars, Settled
<1>2. CASE Answer
  <2>1. PICK k \in DOMAIN calls :
          \/ AcquireAnswered(k) \/ EntriesAnswered(k) \/ DataAnswered(k) \/ StateAnswered(k)
          \/ AcquireFails(k) \/ FetchFails(k) \/ StateLost(k)
    BY <1>2 DEF Answer
  <2>2. UNCHANGED <<pageVars, aquired, buildVars, comboVars>>
    BY <1>2 DEF Answer
  <2>3. \A i \in Items :
          /\ Has(calls, "entries", i) => Has(calls', "entries", i) \/ Has(events', "entries", i)
          /\ Has(events, "entries", i) => Has(events', "entries", i)
    BY <2>1, <2>2, AnswerStep
  <2>4. current \in Items \cup {None}
    BY DEF PInv, Types
  <2>5. UNCHANGED <<current, combo, combo_of, combo_index, build_id, review_shown>>
    BY <2>2 DEF pageVars, buildVars, comboVars
  <2> QED
    BY <2>3, <2>4, <2>5 DEF Settled
<1>3. CASE User
  BY <1>3, UserSettles
<1>4. CASE ServiceMoves
  BY <1>4 DEF ServiceMoves, pageVars, buildVars, comboVars, Settled
<1>5. CASE ItemDataSlot
  <2>1. Has(events', "entries", current) <=> Has(events, "entries", current)
    BY <1>5, DataSlotStep
  <2>2. UNCHANGED <<current, combo, combo_of, combo_index, build_id, review_shown, calls>>
    BY <1>5 DEF ItemDataSlot, pageVars, comboVars
  <2> QED
    BY <2>1, <2>2 DEF Settled
<1> QED
  BY <1>1, <1>2, <1>3, <1>4, <1>5, AcquireSlotSettles, EntriesSlotSettles DEF Next, Slot

\* If no call fails, and the builds have names of their own, the combo box of
\* the item shown ends as that item's, with the build it uses chosen, and
\* offers a review only of that build and only to who does not own the item.
THEOREM PageComboSettles == ASSUME ~Fails, NamesApart PROVE Spec => []ComboSettles
<1>1. Init => Settled
  BY DEF Init, Settled
<1>2. PInv /\ Settled => ComboSettles
  <2>1. PInv => app_list = build_id
    BY DEF PInv
  <2> QED
    BY <2>1 DEF Settled, ComboSettles, Pending, Has
<1> QED
  BY <1>1, <1>2, InitPInv, StepPInv, StepSettled, PTL DEF Spec
=============================================================================
