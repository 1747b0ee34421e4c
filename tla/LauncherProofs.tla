--------------------------- MODULE LauncherProofs ---------------------------
(***************************************************************************)
(* Proofs about Launcher, for any texts that Path and the other constants  *)
(* hold, of any length.                                                    *)
(*                                                                         *)
(* The texts are computed by recursion on their length, so the first part  *)
(* proves what that needs: induction over the natural numbers in the form  *)
(* of a set that holds 0 and the successor of each of its members, and the *)
(* existence of a function defined by recursion.                           *)
(***************************************************************************)
EXTENDS Launcher, SequenceTheorems, WellFoundedInduction, TLAPS

LEMMA SetInduction ==
    ASSUME NEW S, 0 \in S, \A n \in Nat : n \in S => n + 1 \in S
    PROVE  Nat \subseteq S
<1> DEFINE R == {ss \in Nat \X Nat : ss[1] < ss[2]}
           T == Nat \ S
<1>1. IsWellFoundedOn(R, Nat)
  BY NatLessThanWellFounded DEF OpToRel
<1> SUFFICES ASSUME T # {} PROVE FALSE
  OBVIOUS
<1>2. PICK x \in T : \A y \in T : ~(<<y, x>> \in R)
  <2>1. T \subseteq Nat
    OBVIOUS
  <2> HIDE DEF T, R
  <2> QED
    BY <1>1, <2>1, WFMin
<1>3. x \in Nat /\ x # 0
  OBVIOUS
<1>4. x - 1 \in Nat /\ <<x - 1, x>> \in R
  BY <1>3
<1>5. x - 1 \in S
  BY <1>2, <1>4
<1> QED
  BY <1>3, <1>4, <1>5

\* The values a step of a loop gives one after the other.
Follows(f, base, step, n) == f[0] = base /\ \A k \in 1 .. n : f[k] = step[<<f[k - 1], k>>]

LEMMA LoopExists ==
    ASSUME NEW n \in Nat, NEW D, NEW base \in D, NEW step \in [D \X (1 .. n) -> D]
    PROVE  \E f \in [0 .. n -> D] : Follows(f, base, step, n)
<1> DEFINE S == {m \in Nat : m <= n => \E f \in [0 .. m -> D] : Follows(f, base, step, m)}
<1>1. 0 \in S
  <2>1. [k \in 0 .. 0 |-> base] \in [0 .. 0 -> D]
    OBVIOUS
  <2>2. Follows([k \in 0 .. 0 |-> base], base, step, 0)
    BY DEF Follows
  <2> QED
    BY <2>1, <2>2
<1>2. ASSUME NEW m \in Nat, m \in S PROVE m + 1 \in S
  <2> SUFFICES ASSUME m + 1 <= n
               PROVE  \E f \in [0 .. m + 1 -> D] : Follows(f, base, step, m + 1)
    OBVIOUS
  <2>1. PICK f \in [0 .. m -> D] : Follows(f, base, step, m)
    BY <1>2
  <2> DEFINE next == step[<<f[m], m + 1>>]
             g    == [k \in 0 .. m + 1 |-> IF k = m + 1 THEN next ELSE f[k]]
  <2>2. next \in D
    OBVIOUS
  <2> HIDE DEF next
  <2>3. g \in [0 .. m + 1 -> D]
    BY <2>2
  <2>4. g[0] = base
    BY <2>1 DEF Follows
  <2>5. ASSUME NEW k \in 1 .. m + 1 PROVE g[k] = step[<<g[k - 1], k>>]
    <3>1. CASE k = m + 1
      <4>1. k - 1 = m /\ m \in 0 .. m + 1 /\ m # m + 1
        BY <3>1
      <4>2. g[k - 1] = f[m] /\ g[k] = next
        BY <3>1, <4>1
      <4> HIDE DEF g
      <4> QED
        BY <3>1, <4>2 DEF next
    <3>2. CASE k # m + 1
      <4>1. k \in 1 .. m
        BY <3>2
      <4>2. g[k] = f[k] /\ g[k - 1] = f[k - 1]
        BY <4>1
      <4> QED
        BY <2>1, <4>1, <4>2 DEF Follows
    <3> QED
      BY <3>1, <3>2
  <2> HIDE DEF g
  <2> QED
    BY <2>3, <2>4, <2>5 DEF Follows
<1> HIDE DEF S
<1>3. n \in S
  BY <1>1, <1>2, SetInduction
<1> QED
  BY <1>3 DEF S

LEMMA LoopsAgree ==
    ASSUME NEW n \in Nat, NEW base, NEW step, NEW f, NEW g,
           Follows(f, base, step, n), Follows(g, base, step, n)
    PROVE  \A k \in 0 .. n : f[k] = g[k]
<1> DEFINE S == {m \in Nat : m <= n => f[m] = g[m]}
<1>1. 0 \in S
  BY DEF Follows
<1>2. ASSUME NEW m \in Nat, m \in S PROVE m + 1 \in S
  <2> SUFFICES ASSUME m + 1 <= n PROVE f[m + 1] = g[m + 1]
    OBVIOUS
  <2>1. m + 1 \in 1 .. n /\ (m + 1) - 1 = m /\ f[m] = g[m]
    BY <1>2
  <2> QED
    BY <2>1 DEF Follows
<1> HIDE DEF S
<1>3. Nat \subseteq S
  BY <1>1, <1>2, SetInduction
<1> QED
  BY <1>3 DEF S

-----------------------------------------------------------------------------
(* The texts, and the ones without a semicolon.                            *)

Chars == {Backslash, Semicolon}
           \cup UNION {Range(s) : s \in {BinPath, Certs} \cup PathTexts \cup QtEnvs}
Text  == Seq(Chars)
Plain == Seq(Chars \ {Semicolon})
Cuts  == Seq(Plain) \ {<<>>}

LEMMA TextTypes ==
    /\ BinPath \in Text /\ Certs \in Text /\ PathTexts \subseteq Text
    /\ QtEnvs \subseteq Plain /\ Plain \subseteq Text
    /\ Empty \in Plain /\ <<Backslash>> \in Plain /\ <<Semicolon>> \in Text
<1>1. ASSUME NEW s \in {BinPath, Certs} \cup PathTexts \cup QtEnvs PROVE s \in Text
  <2>1. s \in Seq(Range(s)) /\ Range(s) \subseteq Chars
    BY LauncherAssumption DEF Chars
  <2> QED
    BY <2>1, SeqMonotonic DEF Text
<1>2. ASSUME NEW s \in QtEnvs PROVE s \in Plain
  <2>1. s \in Seq(Range(s)) /\ Range(s) \subseteq Chars \ {Semicolon}
    BY LauncherAssumption DEF Chars
  <2> QED
    BY <2>1, SeqMonotonic DEF Plain
<1>3. Plain \subseteq Text
  BY SeqMonotonic DEF Plain, Text
<1>4. Backslash \in Chars \ {Semicolon} /\ Semicolon \in Chars
  BY DEF Chars, Backslash, Semicolon
<1> QED
  BY <1>1, <1>2, <1>3, <1>4 DEF Empty, Plain, Text

-----------------------------------------------------------------------------
(* The entries of a text.                                                  *)

LEMMA CutType ==
    ASSUME NEW es \in Cuts, NEW c \in Chars
    PROVE  Cut(es, c) \in Cuts
<1>1. es \in Seq(Plain) /\ es # <<>> /\ Len(es) \in 1 .. Len(es)
  BY DEF Cuts
<1>2. CASE c = Semicolon
  <2>1. Append(es, Empty) \in Seq(Plain) /\ Append(es, Empty) # <<>>
    BY <1>1, TextTypes, AppendProperties
  <2> QED
    BY <1>2, <2>1 DEF Cut, Cuts
<1>3. CASE c # Semicolon
  <2>1. Append(es[Len(es)], c) \in Plain
    BY <1>1, <1>3 DEF Plain
  <2>2. [es EXCEPT ![Len(es)] = Append(@, c)] \in Seq(Plain)
        /\ Len([es EXCEPT ![Len(es)] = Append(@, c)]) = Len(es)
    BY <1>1, <2>1, ExceptSeq
  <2>3. Len(es) # 0
    BY <1>1
  <2>4. [es EXCEPT ![Len(es)] = Append(@, c)] # <<>>
    BY <2>2, <2>3
  <2> QED
    BY <1>3, <2>2, <2>4 DEF Cut, Cuts
<1> QED
  BY <1>2, <1>3

CutStep(t) == [x \in Cuts \X (1 .. Len(t)) |-> Cut(x[1], t[x[2]])]

LEMMA ScanFollows ==
    ASSUME NEW t \in Text
    PROVE  /\ Scan(t) \in [0 .. Len(t) -> Cuts]
           /\ Follows(Scan(t), <<Empty>>, CutStep(t), Len(t))
           /\ \A k \in 1 .. Len(t) : Scan(t)[k] = Cut(Scan(t)[k - 1], t[k])
<1> DEFINE IsScan(f) ==
             f = [k \in 0 .. Len(t) |-> IF k = 0 THEN <<Empty>> ELSE Cut(f[k - 1], t[k])]
<1>1. Len(t) \in Nat /\ \A k \in 1 .. Len(t) : t[k] \in Chars
  BY DEF Text
<1>2. <<Empty>> \in Cuts
  BY TextTypes DEF Cuts
<1>3. CutStep(t) \in [Cuts \X (1 .. Len(t)) -> Cuts]
  BY <1>1, CutType DEF CutStep
<1>4. PICK f \in [0 .. Len(t) -> Cuts] : Follows(f, <<Empty>>, CutStep(t), Len(t))
  BY <1>1, <1>2, <1>3, LoopExists
<1>5. \A k \in 1 .. Len(t) : f[k] = Cut(f[k - 1], t[k])
  <2> TAKE k \in 1 .. Len(t)
  <2>1. <<f[k - 1], k>> \in Cuts \X (1 .. Len(t))
    BY <1>1
  <2> QED
    BY <1>4, <2>1 DEF Follows, CutStep
<1>6. IsScan(f)
  <2>1. f = [k \in 0 .. Len(t) |-> f[k]]
    BY <1>4
  <2>2. \A k \in 0 .. Len(t) : f[k] = IF k = 0 THEN <<Empty>> ELSE Cut(f[k - 1], t[k])
    <3>1. f[0] = <<Empty>>
      BY <1>4 DEF Follows
    <3>2. \A k \in 0 .. Len(t) : k = 0 \/ k \in 1 .. Len(t)
      BY <1>1
    <3> QED
      BY <1>5, <3>1, <3>2
  <2> QED
    BY <2>1, <2>2
<1>7. Scan(t) = CHOOSE g : IsScan(g)
  BY DEF Scan
<1>8. IsScan(Scan(t))
  BY <1>6, <1>7
<1>9. /\ Scan(t)[0] = <<Empty>>
      /\ \A k \in 1 .. Len(t) : Scan(t)[k] = Cut(Scan(t)[k - 1], t[k])
  BY <1>1, <1>8
<1>10. Scan(t) \in [0 .. Len(t) -> Cuts]
  <2> DEFINE S == {m \in Nat : m <= Len(t) => Scan(t)[m] \in Cuts}
  <2>1. 0 \in S
    BY <1>2, <1>9
  <2>2. ASSUME NEW m \in Nat, m \in S PROVE m + 1 \in S
    <3> SUFFICES ASSUME m + 1 <= Len(t) PROVE Scan(t)[m + 1] \in Cuts
      OBVIOUS
    <3>1. m + 1 \in 1 .. Len(t) /\ (m + 1) - 1 = m /\ Scan(t)[m] \in Cuts
      BY <1>1, <2>2
    <3>2. Scan(t)[m + 1] = Cut(Scan(t)[m], t[m + 1]) /\ t[m + 1] \in Chars
      BY <1>1, <1>9, <3>1
    <3> QED
      BY <3>1, <3>2, CutType
  <2> HIDE DEF S
  <2>3. Nat \subseteq S
    BY <2>1, <2>2, SetInduction
  <2>4. \A k \in 0 .. Len(t) : Scan(t)[k] \in Cuts
    BY <1>1, <2>3 DEF S
  <2>5. Scan(t) = [k \in 0 .. Len(t) |-> IF k = 0 THEN <<Empty>>
                                         ELSE Cut(Scan(t)[k - 1], t[k])]
    BY <1>8
  <2> QED
    BY <2>4, <2>5
<1>11. Follows(Scan(t), <<Empty>>, CutStep(t), Len(t))
  <2>1. ASSUME NEW k \in 1 .. Len(t)
        PROVE  Scan(t)[k] = CutStep(t)[<<Scan(t)[k - 1], k>>]
    <3>1. <<Scan(t)[k - 1], k>> \in Cuts \X (1 .. Len(t))
      BY <1>1, <1>10
    <3> QED
      BY <1>9, <3>1 DEF CutStep
  <2> QED
    BY <1>9, <2>1 DEF Follows
<1> QED
  BY <1>9, <1>10, <1>11

\* One more character, and the text of one.
LEMMA EntriesAppend ==
    ASSUME NEW t \in Text, NEW c \in Chars
    PROVE  /\ Entries(Empty) = <<Empty>>
           /\ Entries(t) \in Cuts
           /\ Entries(Append(t, c)) = Cut(Entries(t), c)
<1>1. Len(t) \in Nat /\ Append(t, c) \in Text /\ Len(Append(t, c)) = Len(t) + 1
      /\ Append(t, c)[Len(t) + 1] = c /\ \A k \in 1 .. Len(t) : Append(t, c)[k] = t[k]
  BY DEF Text
<1>2. Empty \in Text /\ Len(Empty) = 0
  BY DEF Empty, Text
<1>3. Entries(Empty) = <<Empty>>
  BY <1>2, ScanFollows DEF Entries, Follows
<1>4. Entries(t) \in Cuts
  BY <1>1, ScanFollows DEF Entries
<1> DEFINE u == Append(t, c)
<1> HIDE DEF u
<1>5. Follows(Scan(u), <<Empty>>, CutStep(t), Len(t))
  <2>1. Follows(Scan(u), <<Empty>>, CutStep(u), Len(u)) /\ Scan(u) \in [0 .. Len(u) -> Cuts]
    BY <1>1, ScanFollows DEF u
  <2>2. ASSUME NEW k \in 1 .. Len(t) PROVE Scan(u)[k] = CutStep(t)[<<Scan(u)[k - 1], k>>]
    <3>1. k \in 1 .. Len(u) /\ k - 1 \in 0 .. Len(u) /\ u[k] = t[k]
      BY <1>1 DEF u
    <3>2. Scan(u)[k] = CutStep(u)[<<Scan(u)[k - 1], k>>] /\ Scan(u)[k - 1] \in Cuts
      BY <2>1, <3>1 DEF Follows
    <3> QED
      BY <3>1, <3>2 DEF CutStep
  <2> QED
    BY <2>1, <2>2 DEF Follows
<1>6. Scan(u)[Len(t)] = Scan(t)[Len(t)]
  BY <1>1, <1>5, ScanFollows, LoopsAgree
<1>7. Scan(u)[Len(t) + 1] = Cut(Scan(u)[Len(t)], c)
  <2>1. Len(t) + 1 \in 1 .. Len(u) /\ (Len(t) + 1) - 1 = Len(t) /\ u \in Text
        /\ u[Len(t) + 1] = c
    BY <1>1 DEF u
  <2> QED
    BY <2>1, ScanFollows
<1>8. Entries(u) = Cut(Entries(t), c)
  BY <1>1, <1>6, <1>7 DEF Entries, u
<1> QED
  BY <1>3, <1>4, <1>8 DEF u

LEMMA PrefixGrows ==
    ASSUME NEW S, NEW p \in Seq(S), NEW k \in Nat, k + 1 <= Len(p)
    PROVE  /\ SubSeq(p, 1, k) \in Seq(S) /\ p[k + 1] \in S
           /\ SubSeq(p, 1, k + 1) = Append(SubSeq(p, 1, k), p[k + 1])
<1>1. Len(p) \in Nat /\ \A i \in 1 .. k + 1 : p[i] \in S
  OBVIOUS
<1>2. /\ SubSeq(p, 1, k) \in Seq(S) /\ Len(SubSeq(p, 1, k)) = k
      /\ \A i \in 1 .. k : SubSeq(p, 1, k)[i] = p[i]
  BY <1>1, SubSeqProperties
<1>3. /\ SubSeq(p, 1, k + 1) \in Seq(S) /\ Len(SubSeq(p, 1, k + 1)) = k + 1
      /\ \A i \in 1 .. k + 1 : SubSeq(p, 1, k + 1)[i] = p[i]
  BY <1>1, SubSeqProperties
<1> DEFINE q == SubSeq(p, 1, k)
           r == SubSeq(p, 1, k + 1)
           c == p[k + 1]
<1>4. c \in S
  BY <1>1
<1> HIDE DEF q, r, c
<1>5. /\ Append(q, c) \in Seq(S) /\ Len(Append(q, c)) = k + 1
      /\ \A i \in 1 .. k + 1 : Append(q, c)[i] = r[i]
  <2>1. q \in Seq(S) /\ Len(q) = k /\ \A i \in 1 .. k : q[i] = r[i]
    BY <1>2, <1>3 DEF q, r
  <2>2. r[k + 1] = c
    BY <1>3 DEF r, c
  <2> QED
    BY <1>4, <2>1, <2>2, AppendProperties
<1>6. r = Append(q, c)
  BY <1>3, <1>5, SeqEqual DEF r
<1> QED
  BY <1>2, <1>4, <1>6 DEF q, r, c

LEMMA AppendAfter ==
    ASSUME NEW S, NEW s \in Seq(S), NEW t \in Seq(S), NEW c \in S
    PROVE  s \o Append(t, c) = Append(s \o t, c)
<1>1. <<c>> \in Seq(S) /\ s \o t \in Seq(S)
  BY ConcatProperties
<1> QED
  BY <1>1, AppendIsConcat, ConcatAssociative

\* Characters that are not semicolons belong to the last entry.
LEMMA EntriesExtended ==
    ASSUME NEW t \in Text, NEW p \in Plain
    PROVE  Entries(t \o p) = [Entries(t) EXCEPT ![Len(Entries(t))] = @ \o p]
<1> DEFINE es   == Entries(t)
           n    == Len(es)
           E(q) == [es EXCEPT ![n] = @ \o q]
           S    == {k \in Nat : k <= Len(p) => Entries(t \o SubSeq(p, 1, k)) = E(SubSeq(p, 1, k))}
<1>1. es \in Seq(Plain) /\ n \in 1 .. n /\ n \in Nat /\ es[n] \in Plain
  <2>1. Semicolon \in Chars
    BY DEF Chars
  <2>2. es \in Seq(Plain) /\ es # <<>>
    BY <2>1, EntriesAppend DEF Cuts
  <2>3. n \in Nat /\ n # 0
    BY <2>2
  <2> HIDE DEF n, es
  <2>4. n \in 1 .. n
    BY <2>3
  <2> QED
    BY <2>2, <2>3, <2>4 DEF n
<1> HIDE DEF es
<1>2. Len(p) \in Nat /\ p \in Text
  BY TextTypes DEF Plain
<1>3. 0 \in S
  <2>1. SubSeq(p, 1, 0) = <<>>
    BY SubSeqEmpty
  <2>2. t \o <<>> = t /\ es[n] \o <<>> = es[n]
    BY <1>1, ConcatEmptySeq DEF Text, Plain
  <2>3. E(<<>>) = es
    BY <1>1, <2>2
  <2> QED
    BY <2>1, <2>2, <2>3 DEF es
<1>4. ASSUME NEW k \in Nat, k \in S PROVE k + 1 \in S
  <2> SUFFICES ASSUME k + 1 <= Len(p)
               PROVE  Entries(t \o SubSeq(p, 1, k + 1)) = E(SubSeq(p, 1, k + 1))
    OBVIOUS
  <2> DEFINE q == SubSeq(p, 1, k)
             c == p[k + 1]
  <2>1. q \in Plain /\ c \in Chars \ {Semicolon} /\ SubSeq(p, 1, k + 1) = Append(q, c)
    BY PrefixGrows DEF Plain
  <2>2. Entries(t \o q) = E(q)
    BY <1>2, <1>4
  <2> HIDE DEF q, c, S
  <2>3. t \o Append(q, c) = Append(t \o q, c) /\ t \o q \in Text
    BY <2>1, TextTypes, AppendAfter, ConcatProperties DEF Text
  <2>4. es[n] \o Append(q, c) = Append(es[n] \o q, c) /\ es[n] \o q \in Plain
    <3> DEFINE last == es[n]
    <3>1. last \in Plain
      BY <1>1
    <3> HIDE DEF last
    <3>2. last \o Append(q, c) = Append(last \o q, c) /\ last \o q \in Plain
      BY <2>1, <3>1, AppendAfter, ConcatProperties DEF Plain
    <3> QED
      BY <3>2 DEF last
  <2>5. Entries(Append(t \o q, c)) = Cut(E(q), c)
    BY <2>1, <2>2, <2>3, EntriesAppend
  <2>6. E(q) \in Seq(Plain) /\ Len(E(q)) = n /\ E(q)[n] = es[n] \o q
    BY <1>1, <2>4, ExceptSeq
  <2>7. Cut(E(q), c) = [E(q) EXCEPT ![n] = Append(es[n] \o q, c)]
    BY <2>1, <2>6 DEF Cut
  <2>8. [E(q) EXCEPT ![n] = Append(es[n] \o q, c)] = E(Append(q, c))
    BY <1>1, <2>4
  <2> QED
    BY <2>1, <2>3, <2>5, <2>7, <2>8
<1> HIDE DEF S
<1>5. Len(p) \in S
  BY <1>2, <1>3, <1>4, SetInduction
<1>6. SubSeq(p, 1, Len(p)) = p
  BY SubSeqFull DEF Plain
<1>7. Entries(t \o SubSeq(p, 1, Len(p))) = E(SubSeq(p, 1, Len(p)))
  BY <1>2, <1>5 DEF S
<1> QED
  BY <1>6, <1>7 DEF es

\* An entry behind a semicolon, and a text of one entry.
LEMMA EntryAdded ==
    ASSUME NEW t \in Text, NEW p \in Plain
    PROVE  /\ Entries(p) = <<p>>
           /\ Entries(t \o <<Semicolon>> \o p) = Append(Entries(t), p)
<1>1. p \in Text /\ Empty \in Text /\ Empty \in Plain
  BY TextTypes
<1>2. Empty \o p = p
  BY ConcatEmptySeq DEF Empty, Plain
<1>3. Entries(p) = <<p>>
  <2>1. Entries(Empty) = <<Empty>>
    BY <1>1, TextTypes, EntriesAppend DEF Chars
  <2>2. Entries(Empty \o p) = [<<Empty>> EXCEPT ![1] = @ \o p]
    BY <1>1, <2>1, EntriesExtended
  <2>3. [<<Empty>> EXCEPT ![1] = @ \o p] = <<Empty \o p>>
    OBVIOUS
  <2> QED
    BY <1>2, <2>2, <2>3
<1>4. Entries(t \o <<Semicolon>> \o p) = Append(Entries(t), p)
  <2>1. Semicolon \in Chars
    BY DEF Chars
  <2>2. t \o <<Semicolon>> = Append(t, Semicolon) /\ Append(t, Semicolon) \in Text
    BY <2>1, AppendIsConcat, AppendProperties DEF Text
  <2> DEFINE es == Entries(t)
             n  == Len(es)
  <2>3. Entries(Append(t, Semicolon)) = Append(es, Empty)
    BY <2>1, EntriesAppend DEF Cut
  <2>4. es \in Seq(Plain)
    BY <2>1, EntriesAppend DEF Cuts
  <2> HIDE DEF es
  <2>5. Append(es, Empty) \in Seq(Plain) /\ Len(Append(es, Empty)) = n + 1
        /\ Append(es, Empty)[n + 1] = Empty
    BY <1>1, <2>4, AppendProperties
  <2>6. Entries(Append(t, Semicolon) \o p)
          = [Append(es, Empty) EXCEPT ![n + 1] = Append(es, Empty)[n + 1] \o p]
    BY <2>2, <2>3, <2>5, EntriesExtended
  <2>7. [Append(es, Empty) EXCEPT ![n + 1] = p] = Append(es, p)
    <3> DEFINE a == Append(es, Empty)
               b == [a EXCEPT ![n + 1] = p]
    <3>1. a \in Seq(Plain) /\ Len(a) = n + 1 /\ n \in Nat /\ n + 1 \in 1 .. Len(a)
      BY <2>4, <2>5
    <3>2. \A i \in 1 .. n : a[i] = es[i]
      BY <1>1, <2>4, AppendProperties
    <3> HIDE DEF a
    <3>3. b \in Seq(Plain) /\ Len(b) = n + 1
          /\ \A i \in 1 .. n + 1 : b[i] = IF i = n + 1 THEN p ELSE a[i]
      BY <3>1, ExceptSeq
    <3> HIDE DEF b
    <3>4. /\ Append(es, p) \in Seq(Plain) /\ Len(Append(es, p)) = n + 1
          /\ Append(es, p)[n + 1] = p /\ \A i \in 1 .. n : Append(es, p)[i] = es[i]
      BY <2>4, AppendProperties
    <3>5. \A i \in 1 .. n + 1 : b[i] = Append(es, p)[i]
      <4> TAKE i \in 1 .. n + 1
      <4>1. CASE i = n + 1
        BY <3>3, <3>4, <4>1
      <4>2. CASE i # n + 1
        <5>1. i \in 1 .. n
          BY <3>1, <4>2
        <5> QED
          BY <3>2, <3>3, <3>4, <5>1
      <4> QED
        BY <4>1, <4>2
    <3>6. b = Append(es, p)
      BY <3>3, <3>4, <3>5, SeqEqual
    <3> QED
      BY <3>6 DEF b, a
  <2> QED
    BY <1>2, <2>2, <2>5, <2>6, <2>7 DEF es
<1> QED
  BY <1>3, <1>4

-----------------------------------------------------------------------------
(* Sequences put one after the other.                                      *)

JoinStep(S, ss) == [x \in Seq(S) \X (1 .. Len(ss)) |-> x[1] \o ss[x[2]]]

LEMMA JoinExists ==
    ASSUME NEW S, NEW ss \in Seq(Seq(S))
    PROVE  \E h \in [0 .. Len(ss) -> Seq(S)] :
             /\ h[0] = <<>>
             /\ \A k \in 1 .. Len(ss) : h[k] = h[k - 1] \o ss[k]
<1>1. Len(ss) \in Nat /\ <<>> \in Seq(S) /\ \A k \in 1 .. Len(ss) : ss[k] \in Seq(S)
  OBVIOUS
<1>2. JoinStep(S, ss) \in [Seq(S) \X (1 .. Len(ss)) -> Seq(S)]
  <2>1. \A x \in Seq(S) \X (1 .. Len(ss)) : x[1] \o ss[x[2]] \in Seq(S)
    BY <1>1, ConcatProperties
  <2> QED
    BY <2>1 DEF JoinStep
<1>3. PICK h \in [0 .. Len(ss) -> Seq(S)] : Follows(h, <<>>, JoinStep(S, ss), Len(ss))
  BY <1>1, <1>2, LoopExists
<1>4. \A k \in 1 .. Len(ss) : h[k] = h[k - 1] \o ss[k]
  <2> TAKE k \in 1 .. Len(ss)
  <2>1. k - 1 \in 0 .. Len(ss)
    BY <1>1
  <2>2. h[k - 1] \in Seq(S)
    BY <1>3, <2>1
  <2> QED
    BY <1>3, <2>2 DEF Follows, JoinStep
<1> QED
  BY <1>3, <1>4 DEF Follows

LEMMA FlattenIs ==
    ASSUME NEW S, NEW ss \in Seq(Seq(S)), NEW h \in [0 .. Len(ss) -> Seq(S)], h[0] = <<>>,
           \A k \in 1 .. Len(ss) : h[k] = h[k - 1] \o ss[k]
    PROVE  FlattenSeq(ss) = h[Len(ss)]
<1> DEFINE n == Len(ss)
           IsFlat(f) == f = [i \in 1 .. n |-> IF i = 1 THEN ss[i] ELSE f[i - 1] \o ss[i]]
           F == CHOOSE f : IsFlat(f)
<1>1. n \in Nat /\ \A k \in 1 .. n : ss[k] \in Seq(S)
  OBVIOUS
<1>2. CASE n = 0
  BY <1>2 DEF FlattenSeq
<1>3. CASE n # 0
  <2>1. FlattenSeq(ss) = F[n]
    BY <1>3 DEF FlattenSeq
  <2>2. 1 \in 1 .. n /\ n \in 1 .. n
    BY <1>1, <1>3
  <2>3. h[1] = ss[1]
    <3>1. ss[1] \in Seq(S)
      BY <1>1, <2>2
    <3>2. h[1] = h[0] \o ss[1]
      <4>1. 1 \in 1 .. Len(ss)
        BY <2>2
      <4>2. h[1] = h[1 - 1] \o ss[1]
        BY <4>1
      <4> QED
        BY <4>2
    <3> QED
      BY <3>1, <3>2, ConcatEmptySeq
  <2> DEFINE g == [i \in 1 .. n |-> h[i]]
  <2>4. IsFlat(g)
    <3>1. \A i \in 1 .. n : g[i] = IF i = 1 THEN ss[i] ELSE g[i - 1] \o ss[i]
      <4> TAKE i \in 1 .. n
      <4>1. CASE i = 1
        BY <2>2, <2>3, <4>1
      <4>2. CASE i # 1
        <5>1. i - 1 \in 1 .. n
          BY <1>1, <4>2
        <5>2. g[i] = h[i] /\ g[i - 1] = h[i - 1]
          BY <5>1
        <5> QED
          BY <4>2, <5>2
      <4> QED
        BY <4>1, <4>2
    <3> QED
      BY <3>1
  <2> HIDE DEF g
  <2>5. IsFlat(F)
    BY <2>4
  <2>6. \A i \in 1 .. n : F[i] = IF i = 1 THEN ss[i] ELSE F[i - 1] \o ss[i]
    BY <2>5
  <2> HIDE DEF F
  <2> DEFINE T == {m \in Nat : m + 1 <= n => F[m + 1] = h[m + 1]}
  <2>7. 0 \in T
    BY <2>2, <2>3, <2>6
  <2>8. ASSUME NEW m \in Nat, m \in T PROVE m + 1 \in T
    <3> SUFFICES ASSUME m + 2 <= n PROVE F[m + 2] = h[m + 2]
      OBVIOUS
    <3>1. m + 2 \in 1 .. n /\ m + 2 # 1 /\ (m + 2) - 1 = m + 1 /\ F[m + 1] = h[m + 1]
      BY <1>1, <2>8
    <3>2. F[m + 2] = F[m + 1] \o ss[m + 2]
      BY <2>6, <3>1
    <3>3. h[m + 2] = h[m + 1] \o ss[m + 2]
      BY <3>1
    <3> QED
      BY <3>1, <3>2, <3>3
  <2> HIDE DEF T
  <2>9. Nat \subseteq T
    BY <2>7, <2>8, SetInduction
  <2> HIDE DEF n
  <2>10. n - 1 \in Nat /\ (n - 1) + 1 = n
    BY <1>1, <1>3
  <2>11. n - 1 \in T
    BY <2>9, <2>10
  <2>12. F[(n - 1) + 1] = h[(n - 1) + 1]
    BY <2>10, <2>11 DEF T
  <2>13. F[n] = h[n]
    BY <2>10, <2>12
  <2> QED
    BY <2>1, <2>13 DEF n
<1> QED
  BY <1>2, <1>3

LEMMA FlattenAppend ==
    ASSUME NEW S, NEW ss \in Seq(Seq(S)), NEW x \in Seq(S)
    PROVE  /\ FlattenSeq(ss) \in Seq(S)
           /\ FlattenSeq(Append(ss, x)) = FlattenSeq(ss) \o x
<1> DEFINE tt == Append(ss, x)
<1>1. /\ tt \in Seq(Seq(S)) /\ Len(tt) = Len(ss) + 1 /\ tt[Len(ss) + 1] = x
      /\ Len(ss) \in Nat /\ \A k \in 1 .. Len(ss) : tt[k] = ss[k]
  BY AppendProperties
<1> HIDE DEF tt
<1>2. PICK h \in [0 .. Len(tt) -> Seq(S)] :
        h[0] = <<>> /\ \A k \in 1 .. Len(tt) : h[k] = h[k - 1] \o tt[k]
  BY <1>1, JoinExists
<1>3. FlattenSeq(tt) = h[Len(tt)]
  BY <1>1, <1>2, FlattenIs
<1> DEFINE g == [k \in 0 .. Len(ss) |-> h[k]]
<1>4. g \in [0 .. Len(ss) -> Seq(S)] /\ g[0] = <<>>
  BY <1>1, <1>2
<1>5. \A k \in 1 .. Len(ss) : g[k] = g[k - 1] \o ss[k]
  <2> TAKE k \in 1 .. Len(ss)
  <2>1. k \in 1 .. Len(tt) /\ k \in 0 .. Len(ss) /\ k - 1 \in 0 .. Len(ss) /\ tt[k] = ss[k]
    BY <1>1
  <2>2. g[k] = h[k] /\ g[k - 1] = h[k - 1]
    BY <2>1
  <2> QED
    BY <1>2, <2>1, <2>2
<1>6. g[Len(ss)] = h[Len(ss)]
  BY <1>1
<1> HIDE DEF g
<1>7. FlattenSeq(ss) = g[Len(ss)]
  BY <1>4, <1>5, FlattenIs
<1>8. h[Len(tt)] = h[Len(ss)] \o x
  <2>1. Len(tt) \in 1 .. Len(tt) /\ Len(tt) - 1 = Len(ss)
    BY <1>1
  <2> QED
    BY <1>1, <1>2, <2>1
<1>9. FlattenSeq(ss) \in Seq(S)
  <2>1. Len(ss) \in 0 .. Len(ss)
    BY <1>1
  <2> QED
    BY <1>4, <1>7, <2>1
<1> QED
  BY <1>3, <1>6, <1>7, <1>8, <1>9 DEF tt

-----------------------------------------------------------------------------
(* The entries that a loader goes through.                                 *)

LEMMA WithQtType ==
    ASSUME NEW p \in Plain, NEW qt \in Plain PROVE WithQt(p, qt) \in Seq(Plain)
BY DEF WithQt

LEMMA ListedAppend ==
    ASSUME NEW es \in Seq(Plain), NEW p \in Plain, NEW qt \in Plain
    PROVE  /\ Listed(<<>>, qt) = <<>>
           /\ Listed(es, qt) \in Seq(Plain)
           /\ Listed(Append(es, p), qt) = Listed(es, qt) \o WithQt(p, qt)
<1> DEFINE W(s) == [k \in 1 .. Len(s) |-> WithQt(s[k], qt)]
<1>1. Listed(<<>>, qt) = <<>>
  BY DEF Listed, FlattenSeq
<1>2. W(es) \in Seq(Seq(Plain))
  <2>1. Len(es) \in Nat /\ \A k \in 1 .. Len(es) : es[k] \in Plain
    OBVIOUS
  <2>2. \A k \in 1 .. Len(es) : WithQt(es[k], qt) \in Seq(Plain)
    BY <2>1, WithQtType
  <2> QED
    BY <2>1, <2>2
<1>3. WithQt(p, qt) \in Seq(Plain)
  BY WithQtType
<1>4. W(Append(es, p)) = Append(W(es), WithQt(p, qt))
  <2>1. Len(Append(es, p)) = Len(es) + 1 /\ Len(es) \in Nat
        /\ \A k \in 1 .. Len(es) + 1 : Append(es, p)[k] = IF k = Len(es) + 1 THEN p ELSE es[k]
    BY AppendProperties
  <2>2. Len(W(es)) = Len(es)
    BY <2>1
  <2> QED
    BY <2>1, <2>2
<1> QED
  BY <1>1, <1>2, <1>3, <1>4, FlattenAppend DEF Listed

\* A directory put behind a text is listed after what the text lists.
LEMMA ListingAdded ==
    ASSUME NEW t \in Text, NEW p \in Plain
    PROVE  /\ Listing(t) \in Seq(Plain) /\ EnvAppend(t, p) \in Text
           /\ Listing(EnvAppend(t, p)) = Listing(t) \o WithQt(p, Empty)
<1>1. /\ Empty \in Plain /\ Empty \in Text /\ p \in Text /\ Semicolon \in Chars
      /\ <<Semicolon>> \in Text
  BY TextTypes DEF Chars
<1>2. Entries(t) \in Seq(Plain) /\ Entries(Empty) = <<Empty>>
  BY <1>1, EntriesAppend DEF Cuts
<1>3. Listing(t) \in Seq(Plain)
  BY <1>1, <1>2, ListedAppend DEF Listing
<1>4. CASE t = Empty
  <2>1. ASSUME NEW q \in Plain PROVE Listed(<<q>>, Empty) = WithQt(q, Empty)
    <3>1. <<q>> = Append(<<>>, q) /\ <<>> \in Seq(Plain)
      OBVIOUS
    <3>2. Listed(Append(<<>>, q), Empty) = Listed(<<>>, Empty) \o WithQt(q, Empty)
      BY <1>1, <3>1, ListedAppend
    <3>3. Listed(<<>>, Empty) = <<>>
      BY <1>1, <3>1, ListedAppend
    <3>4. <<>> \o WithQt(q, Empty) = WithQt(q, Empty)
      BY <1>1, WithQtType, ConcatEmptySeq
    <3> QED
      BY <3>1, <3>2, <3>3, <3>4
  <2>2. Listing(t) = <<>>
    BY <1>1, <1>2, <1>4, <2>1 DEF Listing, WithQt
  <2>3. Listing(p) = WithQt(p, Empty)
    BY <1>1, <2>1, EntryAdded DEF Listing
  <2>4. <<>> \o WithQt(p, Empty) = WithQt(p, Empty)
    BY <1>1, WithQtType, ConcatEmptySeq
  <2> QED
    BY <1>1, <1>3, <1>4, <2>2, <2>3, <2>4 DEF EnvAppend
<1>5. CASE t # Empty
  <2>1. EnvAppend(t, p) = t \o <<Semicolon>> \o p
    BY <1>5 DEF EnvAppend
  <2>2. t \o <<Semicolon>> \o p \in Text
    BY <1>1, ConcatProperties DEF Text
  <2>3. Entries(t \o <<Semicolon>> \o p) = Append(Entries(t), p)
    BY EntryAdded
  <2> QED
    <3> DEFINE es == Entries(t)
    <3> HIDE DEF es
    <3>1. es \in Seq(Plain)
      BY <1>2 DEF es
    <3>2. Listed(Append(es, p), Empty) = Listed(es, Empty) \o WithQt(p, Empty)
      BY <1>1, <3>1, ListedAppend
    <3> QED
      BY <1>3, <2>1, <2>2, <2>3, <3>2 DEF Listing, es
<1> QED
  BY <1>4, <1>5

\* An entry that is not empty is listed.
LEMMA EntryListed ==
    ASSUME NEW es \in Seq(Plain), NEW qt \in Plain, NEW i \in 1 .. Len(es), es[i] # Empty
    PROVE  es[i] \in Range(Listed(es, qt))
<1> DEFINE Sub(m) == SubSeq(es, 1, m)
           S == {m \in Nat : i <= m /\ m <= Len(es) => es[i] \in Range(Listed(Sub(m), qt))}
<1>1. Len(es) \in Nat /\ i \in Nat /\ i # 0 /\ i <= Len(es)
  OBVIOUS
<1>2. 0 \in S
  BY <1>1
<1>3. ASSUME NEW m \in Nat, m \in S PROVE m + 1 \in S
  <2> SUFFICES ASSUME i <= m + 1, m + 1 <= Len(es)
               PROVE  es[i] \in Range(Listed(Sub(m + 1), qt))
    OBVIOUS
  <2>1. Sub(m) \in Seq(Plain) /\ es[m + 1] \in Plain /\ Sub(m + 1) = Append(Sub(m), es[m + 1])
    BY PrefixGrows
  <2>2. Listed(Sub(m + 1), qt) = Listed(Sub(m), qt) \o WithQt(es[m + 1], qt)
        /\ Listed(Sub(m), qt) \in Seq(Plain) /\ WithQt(es[m + 1], qt) \in Seq(Plain)
    <3> DEFINE q == Sub(m)
               e == es[m + 1]
    <3> HIDE DEF q, e
    <3>1. q \in Seq(Plain) /\ e \in Plain
      BY <2>1 DEF q, e
    <3>2. /\ Listed(Append(q, e), qt) = Listed(q, qt) \o WithQt(e, qt)
          /\ Listed(q, qt) \in Seq(Plain) /\ WithQt(e, qt) \in Seq(Plain)
      BY <3>1, ListedAppend, WithQtType
    <3> QED
      BY <2>1, <3>2 DEF q, e
  <2>3. Range(Listed(Sub(m + 1), qt))
          = Range(Listed(Sub(m), qt)) \cup Range(WithQt(es[m + 1], qt))
    BY <2>2, RangeConcatenation
  <2>4. CASE i = m + 1
    <3>1. es[m + 1] \in Range(WithQt(es[m + 1], qt))
      BY <2>4 DEF WithQt, Range
    <3> QED
      BY <2>3, <2>4, <3>1
  <2>5. CASE i # m + 1
    <3>1. i <= m /\ m <= Len(es)
      BY <1>1, <2>5
    <3> QED
      BY <1>3, <2>3, <3>1
  <2> QED
    BY <2>4, <2>5
<1> HIDE DEF S
<1>4. Nat \subseteq S
  BY <1>2, <1>3, SetInduction
<1>5. es[i] \in Range(Listed(Sub(Len(es)), qt))
  BY <1>1, <1>4 DEF S
<1>6. Sub(Len(es)) = es
  BY SubSeqFull
<1> QED
  BY <1>5, <1>6

-----------------------------------------------------------------------------
(* Occurrences of a pattern.                                               *)

\* The pattern b is in s behind the first k characters.
Occurs(b, s, k) == k + Len(b) <= Len(s) /\ \A i \in 1 .. Len(b) : s[k + i] = b[i]

LEMMA SubSeqIs ==
    ASSUME NEW S, NEW b \in Seq(S), NEW s \in Seq(S), NEW k \in Nat, k + Len(b) <= Len(s)
    PROVE  SubSeq(s, k + 1, k + Len(b)) = b <=> Occurs(b, s, k)
<1> DEFINE l == Len(b)
           r == SubSeq(s, k + 1, k + l)
<1>1. l \in Nat /\ Len(s) \in Nat /\ \A i \in k + 1 .. k + l : s[i] \in S
  OBVIOUS
<1>2. r \in Seq(S) /\ Len(r) = l /\ \A i \in 1 .. l : r[i] = s[k + i]
  <2>1. /\ r \in Seq(S) /\ Len(r) = IF k + 1 <= k + l THEN (k + l) - (k + 1) + 1 ELSE 0
        /\ \A i \in 1 .. (k + l) - (k + 1) + 1 : r[i] = s[(k + 1) + i - 1]
    BY <1>1, SubSeqProperties
  <2> HIDE DEF r, l
  <2> QED
    BY <1>1, <2>1
<1> HIDE DEF r
<1>3. r = b <=> \A i \in 1 .. l : r[i] = b[i]
  BY <1>2, SeqEqual
<1>4. (\A i \in 1 .. l : r[i] = b[i]) <=> (\A i \in 1 .. l : s[k + i] = b[i])
  BY <1>2
<1> QED
  BY <1>3, <1>4 DEF Occurs, r

LEMMA SuffixIs ==
    ASSUME NEW S, NEW b \in Seq(S), NEW s \in Seq(S)
    PROVE  IsSuffix(b, s) <=> Len(b) <= Len(s) /\ Occurs(b, s, Len(s) - Len(b))
<1> DEFINE l == Len(b)
           n == Len(s)
           c == Reverse(b)
           t == Reverse(s)
<1>1. l \in Nat /\ n \in Nat /\ (\A i \in 1 .. l : b[i] \in S) /\ \A i \in 1 .. n : s[i] \in S
  OBVIOUS
<1>2. c \in Seq(S) /\ Len(c) = l /\ \A i \in 1 .. l : c[i] = b[(l - i) + 1]
  BY <1>1 DEF Reverse
<1>3. t \in Seq(S) /\ Len(t) = n /\ \A i \in 1 .. n : t[i] = s[(n - i) + 1]
  BY <1>1 DEF Reverse
<1> HIDE DEF c, t
<1>4. IsSuffix(b, s) <=> l <= n /\ SubSeq(t, 1, l) = c
  <2>1. SubSeq(c, 1, l) = c
    BY <1>2, SubSeqFull
  <2> QED
    BY <1>2, <1>3, <2>1 DEF IsSuffix, IsPrefix, c, t
<1>5. ASSUME l <= n PROVE SubSeq(t, 1, l) = c <=> Occurs(b, s, n - l)
  <2>1. SubSeq(t, 0 + 1, 0 + Len(c)) = c <=> Occurs(c, t, 0)
    BY <1>1, <1>2, <1>3, <1>5, SubSeqIs
  <2>2. SubSeq(t, 1, l) = c <=> Occurs(c, t, 0)
    BY <1>1, <1>2, <2>1
  <2>3. Occurs(c, t, 0) <=> \A i \in 1 .. l : s[(n - i) + 1] = b[(l - i) + 1]
    <3>1. Occurs(c, t, 0) <=> \A i \in 1 .. l : t[i] = c[i]
      BY <1>1, <1>2, <1>3, <1>5 DEF Occurs
    <3>2. \A i \in 1 .. l : t[i] = s[(n - i) + 1] /\ c[i] = b[(l - i) + 1]
      BY <1>1, <1>2, <1>3, <1>5
    <3> HIDE DEF l, n
    <3> QED
      BY <3>1, <3>2
  <2>4. Occurs(b, s, n - l) <=> \A j \in 1 .. l : s[(n - l) + j] = b[j]
    BY <1>1 DEF Occurs
  <2>5. ASSUME \A i \in 1 .. l : s[(n - i) + 1] = b[(l - i) + 1], NEW j \in 1 .. l
        PROVE  s[(n - l) + j] = b[j]
    <3> DEFINE i == (l - j) + 1
    <3>1. i \in 1 .. l /\ (n - i) + 1 = (n - l) + j /\ (l - i) + 1 = j
      BY <1>1
    <3> HIDE DEF i
    <3>2. s[(n - i) + 1] = b[(l - i) + 1]
      BY <2>5, <3>1
    <3> QED
      BY <3>1, <3>2
  <2>6. ASSUME \A j \in 1 .. l : s[(n - l) + j] = b[j], NEW i \in 1 .. l
        PROVE  s[(n - i) + 1] = b[(l - i) + 1]
    <3> DEFINE j == (l - i) + 1
    <3>1. j \in 1 .. l /\ (n - l) + j = (n - i) + 1
      BY <1>1
    <3> HIDE DEF j
    <3>2. s[(n - l) + j] = b[j]
      BY <2>6, <3>1
    <3> QED
      BY <3>1, <3>2 DEF j
  <2> QED
    BY <2>2, <2>3, <2>4, <2>5, <2>6
<1> QED
  BY <1>4, <1>5

LEMMA MaxExists ==
    ASSUME NEW n \in Nat, NEW A \in SUBSET (0 .. n), A # {}
    PROVE  \E k \in A : \A l \in A : l <= k
<1> DEFINE S == {m \in Nat : \A B \in SUBSET (0 .. m) :
                               B # {} => \E k \in B : \A l \in B : l <= k}
<1>1. 0 \in S
  <2>1. ASSUME NEW B \in SUBSET (0 .. 0), B # {} PROVE 0 \in B /\ \A l \in B : l <= 0
    <3>1. \A l \in B : l = 0
      OBVIOUS
    <3>2. PICK l \in B : TRUE
      BY <2>1
    <3>3. 0 \in B
      BY <3>1, <3>2
    <3>4. \A k \in B : k <= 0
      BY <3>1
    <3> QED
      BY <3>3, <3>4
  <2> QED
    BY <2>1
<1>2. ASSUME NEW m \in Nat, m \in S PROVE m + 1 \in S
  <2> SUFFICES ASSUME NEW B \in SUBSET (0 .. m + 1), B # {}
               PROVE  \E k \in B : \A l \in B : l <= k
    OBVIOUS
  <2>1. CASE m + 1 \in B
    <3>1. \A l \in B : l <= m + 1
      OBVIOUS
    <3> QED
      BY <2>1, <3>1
  <2>2. CASE m + 1 \notin B
    <3>1. B \in SUBSET (0 .. m)
      <4>1. \A l \in B : l \in 0 .. m + 1 /\ l # m + 1
        BY <2>2
      <4> QED
        BY <4>1
    <3> QED
      BY <1>2, <3>1
  <2> QED
    BY <2>1, <2>2
<1> HIDE DEF S
<1>3. n \in S
  BY <1>1, <1>2, SetInduction
<1> QED
  BY <1>3 DEF S

\* rfind finds the last occurrence, if there is one.
LEMMA RFindIs ==
    ASSUME NEW S, NEW b \in Seq(S), NEW s \in Seq(S)
    PROVE  /\ RFind(s, b) = -1 => \A k \in Nat : ~Occurs(b, s, k)
           /\ RFind(s, b) # -1 =>
                /\ RFind(s, b) \in Nat /\ Occurs(b, s, RFind(s, b))
                /\ \A k \in Nat : Occurs(b, s, k) => k <= RFind(s, b)
<1> DEFINE at == {k \in 0 .. Len(s) - Len(b) : SubSeq(s, k + 1, k + Len(b)) = b}
           top == CHOOSE k \in at : \A l \in at : l <= k
<1>1. Len(s) \in Nat /\ Len(b) \in Nat
  OBVIOUS
<1>2. \A k : k \in at <=> k \in Nat /\ Occurs(b, s, k)
  <2> TAKE k
  <2>1. ASSUME k \in Nat, k + Len(b) <= Len(s) PROVE k \in at <=> Occurs(b, s, k)
    <3>1. k \in 0 .. Len(s) - Len(b)
      BY <1>1, <2>1
    <3>2. SubSeq(s, k + 1, k + Len(b)) = b <=> Occurs(b, s, k)
      BY <2>1, SubSeqIs
    <3> QED
      BY <3>1, <3>2
  <2>2. k \in at => k \in Nat /\ k + Len(b) <= Len(s)
    BY <1>1
  <2>3. Occurs(b, s, k) => k + Len(b) <= Len(s)
    BY DEF Occurs
  <2> HIDE DEF at
  <2> QED
    BY <2>1, <2>2, <2>3
<1>3. RFind(s, b) = IF at = {} THEN -1 ELSE top
  BY DEF RFind
<1>4. at \in SUBSET (0 .. Len(s))
  BY <1>1
<1> HIDE DEF at
<1>5. CASE at = {}
  BY <1>2, <1>3, <1>5
<1>6. CASE at # {}
  <2>1. \E k \in at : \A l \in at : l <= k
    BY <1>1, <1>4, <1>6, MaxExists
  <2>2. top \in at /\ \A l \in at : l <= top
    BY <2>1
  <2> QED
    BY <1>2, <1>3, <1>6, <2>2
<1> QED
  BY <1>5, <1>6

\* matches accepts the MyApps directories in either spelling, and nothing else.
LEMMA MatchesIs ==
    ASSUME NEW p \in Text
    PROVE  /\ matches(p, BinPath) <=> IsBin(p)
           /\ IsBin(p) => p # Empty
<1> DEFINE L == Len(p)
           b == BinPath
           l == Len(b)
           w == Append(b, Backslash)
           off == RFind(p, b)
<1>1. b \in Seq(Chars) /\ p \in Seq(Chars) /\ Backslash \in Chars
  BY TextTypes DEF Text, Chars
<1>2. L \in Nat /\ l \in Nat /\ l # 0 /\ b[l] # Backslash
  BY <1>1, LauncherAssumption DEF Last, Empty
<1>3. /\ w \in Seq(Chars) /\ Len(w) = l + 1 /\ w[l + 1] = Backslash
      /\ \A i \in 1 .. l : w[i] = b[i]
  BY <1>1, AppendProperties
<1> HIDE DEF w, l, L, b
<1>4. IsBin(p) <=> (l <= L /\ Occurs(b, p, L - l)) \/ (l + 1 <= L /\ Occurs(w, p, L - (l + 1)))
  BY <1>1, <1>3, SuffixIs DEF IsBin, w, b, l, L
<1>5. ASSUME l <= L, Occurs(b, p, L - l) PROVE p[L] # Backslash
  <2>1. l \in 1 .. l
    BY <1>2
  <2>2. p[(L - l) + l] = b[l] /\ (L - l) + l = L
    BY <1>2, <1>5, <2>1 DEF Occurs, l
  <2> QED
    BY <1>2, <2>2
<1>6. ASSUME l + 1 <= L
      PROVE  Occurs(w, p, L - (l + 1)) <=> Occurs(b, p, (L - 1) - l) /\ p[L] = Backslash
  <2> DEFINE k == (L - 1) - l
  <2>1. k \in Nat /\ k = L - (l + 1) /\ k + (l + 1) = L /\ k + l <= L
    BY <1>2, <1>6
  <2> HIDE DEF k
  <2>2. Occurs(w, p, k) <=> \A i \in 1 .. l + 1 : p[k + i] = w[i]
    BY <1>2, <1>3, <2>1 DEF Occurs, L
  <2>3. Occurs(b, p, k) <=> \A i \in 1 .. l : p[k + i] = b[i]
    BY <1>2, <2>1 DEF Occurs, L, l
  <2>4. (\A i \in 1 .. l + 1 : p[k + i] = w[i])
          <=> (\A i \in 1 .. l : p[k + i] = w[i]) /\ p[k + (l + 1)] = w[l + 1]
    BY <1>2
  <2> QED
    BY <1>3, <2>1, <2>2, <2>3, <2>4 DEF k
<1>7. off # -1 => off \in Nat /\ off + l <= L /\ Occurs(b, p, off)
  BY <1>1, RFindIs DEF Occurs, L, l
<1>8. \A k \in Nat : Occurs(b, p, k) => off # -1 /\ k <= off
  BY <1>1, RFindIs
<1> HIDE DEF off
<1>9. matches(p, b) <=> off # -1 /\ off = IF p[L] = Backslash THEN (L - 1) - l ELSE L - l
  BY DEF matches, off, L, l, Last
<1>10. ASSUME matches(p, b) PROVE IsBin(p)
  <2>1. off \in Nat /\ off + l <= L /\ Occurs(b, p, off)
    BY <1>7, <1>9, <1>10
  <2>2. CASE p[L] = Backslash
    <3>1. off = (L - 1) - l /\ l + 1 <= L
      BY <1>2, <1>9, <1>10, <2>1, <2>2
    <3> QED
      BY <1>4, <1>6, <2>1, <2>2, <3>1
  <2>3. CASE p[L] # Backslash
    <3>1. off = L - l /\ l <= L
      BY <1>2, <1>9, <1>10, <2>1, <2>3
    <3> QED
      BY <1>4, <2>1, <3>1
  <2> QED
    BY <2>2, <2>3
<1>11. ASSUME l <= L, Occurs(b, p, L - l) PROVE matches(p, b)
  <2>1. L - l \in Nat
    BY <1>2, <1>11
  <2>2. off # -1 /\ L - l <= off
    BY <1>8, <1>11, <2>1
  <2>3. off \in Nat /\ off + l <= L
    BY <1>7, <2>2
  <2>4. off = L - l
    BY <1>2, <2>2, <2>3
  <2> QED
    BY <1>5, <1>9, <1>11, <2>2, <2>4
<1>12. ASSUME l + 1 <= L, Occurs(w, p, L - (l + 1)) PROVE matches(p, b)
  <2>1. Occurs(b, p, (L - 1) - l) /\ p[L] = Backslash /\ (L - 1) - l \in Nat
    BY <1>2, <1>6, <1>12
  <2>2. off # -1 /\ (L - 1) - l <= off
    BY <1>8, <2>1
  <2>3. off \in Nat /\ off + l <= L /\ Occurs(b, p, off)
    BY <1>7, <2>2
  <2>4. off # L - l
    BY <1>2, <1>5, <1>12, <2>1, <2>3
  <2>5. off = (L - 1) - l
    BY <1>2, <2>2, <2>3, <2>4
  <2> QED
    BY <1>9, <2>1, <2>2, <2>5
<1>13. matches(p, b) <=> IsBin(p)
  BY <1>4, <1>10, <1>11, <1>12
<1>14. IsBin(p) => L # 0
  BY <1>2, <1>4
<1>15. p = Empty => L = 0
  BY DEF Empty, L
<1> QED
  BY <1>13, <1>14, <1>15 DEF b

-----------------------------------------------------------------------------
(* The loop over the entries.                                              *)

News == [text : Text, bin : Plain]

\* One entry: what it adds to the text, and the directory that is remembered.
LEMMA AddEntryIs ==
    ASSUME NEW acc \in News, NEW p \in Plain, NEW qt \in Plain
    PROVE  /\ AddEntry(acc, p, qt) \in News
           /\ Listing(AddEntry(acc, p, qt).text) = Listing(acc.text) \o WithQt(p, qt)
           /\ AddEntry(acc, p, qt).bin = IF IsBin(p) THEN p ELSE acc.bin
<1> DEFINE t   == acc.text
           sep == IF t # Empty THEN <<Semicolon>> ELSE Empty
           new == AddEntry(acc, p, qt)
<1>1. /\ t \in Text /\ p \in Text /\ qt \in Text /\ sep \in Text /\ acc.bin \in Plain
      /\ <<Semicolon>> \in Text /\ Semicolon \in Chars /\ Empty \in Plain /\ Empty \in Text
  BY TextTypes DEF News, Chars
<1>2. (matches(p, BinPath) <=> IsBin(p)) /\ (IsBin(p) => p # Empty)
  BY <1>1, MatchesIs
<1>3. Listing(t) \in Seq(Plain) /\ WithQt(p, Empty) \in Seq(Plain)
      /\ WithQt(qt, Empty) \in Seq(Plain)
  BY <1>1, ListingAdded, WithQtType
<1>4. \A q \in Text : EnvAppend(t, q) = t \o sep \o q
  <2> TAKE q \in Text
  <2>1. CASE t = Empty
    <3>1. Empty \o Empty \o q = q
      BY <1>1, ConcatEmptySeq DEF Empty, Text
    <3> QED
      BY <2>1, <3>1 DEF EnvAppend
  <2>2. CASE t # Empty
    BY <2>2 DEF EnvAppend
  <2> QED
    BY <2>1, <2>2
<1>5. ASSUME new = [acc EXCEPT !.text = EnvAppend(t, p)] \/ new = [text |-> EnvAppend(t, p), bin |-> p],
             WithQt(p, qt) = WithQt(p, Empty)
      PROVE  new \in News /\ Listing(new.text) = Listing(acc.text) \o WithQt(p, qt)
  <2>1. new.text = EnvAppend(t, p)
    BY <1>5 DEF News
  <2>2. EnvAppend(t, p) \in Text /\ Listing(EnvAppend(t, p)) = Listing(t) \o WithQt(p, Empty)
    BY <1>1, ListingAdded
  <2>3. new \in News
    BY <1>5, <2>2 DEF News
  <2> QED
    BY <1>5, <2>1, <2>2, <2>3
<1>6. CASE IsBin(p) /\ qt # Empty
  <2> DEFINE u == EnvAppend(t, qt)
  <2>1. new = [text |-> t \o sep \o Append(qt, Semicolon) \o p, bin |-> p]
    BY <1>2, <1>6 DEF AddEntry
  <2> HIDE DEF new, sep, t, u
  <2>2. u \in Text /\ Listing(u) = Listing(t) \o WithQt(qt, Empty) /\ u = (t \o sep) \o qt
    BY <1>1, <1>4, ListingAdded DEF u
  <2>3. t \o sep \o Append(qt, Semicolon) = u \o <<Semicolon>>
    <3>1. t \o sep \in Text
      BY <1>1, ConcatProperties DEF Text
    <3>2. (t \o sep) \o Append(qt, Semicolon) = Append((t \o sep) \o qt, Semicolon)
      BY <1>1, <3>1, AppendAfter DEF Text
    <3>3. Append(u, Semicolon) = u \o <<Semicolon>>
      BY <1>1, <2>2, AppendIsConcat DEF Text
    <3> QED
      BY <2>2, <3>2, <3>3
  <2>4. u # Empty
    <3>1. Len(u) # 0
      <4>1. t \o sep \in Text /\ Len(t \o sep) \in Nat
        <5>1. t \o sep \in Text
          BY <1>1, ConcatProperties DEF Text
        <5> QED
          BY <5>1, LenProperties DEF Text
      <4>2. Len(u) = Len(t \o sep) + Len(qt)
        BY <1>1, <2>2, <4>1, ConcatProperties DEF Text
      <4>3. Len(qt) \in Nat /\ Len(qt) # 0
        BY <1>1, <1>6 DEF Text, Empty
      <4> QED
        BY <4>1, <4>2, <4>3
    <3> QED
      BY <3>1 DEF Empty
  <2>5. new.text = EnvAppend(u, p)
    BY <2>1, <2>3, <2>4 DEF EnvAppend
  <2>6. EnvAppend(u, p) \in Text /\ Listing(EnvAppend(u, p)) = Listing(u) \o WithQt(p, Empty)
    BY <2>2, ListingAdded
  <2>7. (Listing(t) \o WithQt(qt, Empty)) \o WithQt(p, Empty)
          = Listing(t) \o (WithQt(qt, Empty) \o WithQt(p, Empty))
    BY <1>3, ConcatAssociative
  <2>8. WithQt(qt, Empty) \o WithQt(p, Empty) = WithQt(p, qt)
    <3>1. WithQt(qt, Empty) = <<qt>> /\ WithQt(p, Empty) = <<p>> /\ WithQt(p, qt) = <<qt, p>>
      BY <1>2, <1>6 DEF WithQt
    <3>2. <<qt>> \o <<p>> = <<qt, p>>
      <4>1. <<qt>> \in Seq(Plain)
        OBVIOUS
      <4>2. <<p>> \in Seq(Plain) /\ <<qt, p>> \in Seq(Plain)
        OBVIOUS
      <4> DEFINE a == <<qt>> \o <<p>>
                 b == <<qt, p>>
      <4>3. /\ Len(<<qt>>) = 1 /\ Len(<<p>>) = 1 /\ <<qt>>[1] = qt /\ <<p>>[1] = p
            /\ Len(b) = 2 /\ b[1] = qt /\ b[2] = p
        OBVIOUS
      <4>4. a \in Seq(Plain) /\ Len(a) = 2 /\ a[1] = qt /\ a[2] = p
        BY <4>1, <4>2, <4>3, ConcatProperties
      <4>5. \A i \in 1 .. 2 : i = 1 \/ i = 2
        OBVIOUS
      <4> HIDE DEF a, b
      <4>6. a = b
        BY <4>2, <4>3, <4>4, <4>5, SeqEqual DEF b
      <4> QED
        BY <4>6 DEF a, b
    <3> QED
      BY <3>1, <3>2
  <2>9. new \in News /\ new.bin = p
    <3>1. new = [text |-> new.text, bin |-> p]
      BY <2>1
    <3> QED
      BY <2>5, <2>6, <3>1 DEF News
  <2> QED
    BY <1>6, <2>2, <2>5, <2>6, <2>7, <2>8, <2>9 DEF new, t
<1>7. CASE IsBin(p) /\ qt = Empty
  <2>1. t \o sep \in Text
    BY <1>1, ConcatProperties DEF Text
  <2>2. t \o sep \o Empty \o p = t \o sep \o p
    BY <2>1, ConcatEmptySeq DEF Empty, Text
  <2>3. new = [text |-> EnvAppend(t, p), bin |-> p]
    BY <1>1, <1>2, <1>4, <1>7, <2>2 DEF AddEntry
  <2> QED
    BY <1>5, <1>7, <2>3
<1>8. CASE ~IsBin(p) /\ p # Empty
  <2>1. new = [acc EXCEPT !.text = EnvAppend(t, p)]
    BY <1>1, <1>2, <1>4, <1>8 DEF AddEntry
  <2>2. WithQt(p, qt) = WithQt(p, Empty)
    BY <1>8 DEF WithQt
  <2>3. new.bin = acc.bin
    BY <2>1 DEF News
  <2> QED
    BY <1>5, <1>8, <2>1, <2>2, <2>3
<1>9. CASE p = Empty
  <2>1. new = acc /\ WithQt(p, qt) = <<>>
    BY <1>2, <1>9 DEF AddEntry, WithQt
  <2>2. Listing(t) \o <<>> = Listing(t)
    BY <1>3, ConcatEmptySeq
  <2> QED
    BY <1>2, <1>9, <2>1, <2>2
<1> QED
  BY <1>6, <1>7, <1>8, <1>9

LoopStep(es, qt) == [x \in News \X (1 .. Len(es)) |-> AddEntry(x[1], es[x[2]], qt)]

LEMMA LoopFollows ==
    ASSUME NEW es \in Seq(Plain), NEW qt \in Plain
    PROVE  /\ Loop(es, qt)[0] = [text |-> Empty, bin |-> Empty]
           /\ \A k \in 1 .. Len(es) :
                Loop(es, qt)[k] = AddEntry(Loop(es, qt)[k - 1], es[k], qt)
<1> DEFINE base == [text |-> Empty, bin |-> Empty]
           IsLoop(f) == f = [k \in 0 .. Len(es) |->
                               IF k = 0 THEN base ELSE AddEntry(f[k - 1], es[k], qt)]
<1>1. Len(es) \in Nat /\ \A k \in 1 .. Len(es) : es[k] \in Plain
  OBVIOUS
<1>2. base \in News
  BY TextTypes DEF News
<1>3. LoopStep(es, qt) \in [News \X (1 .. Len(es)) -> News]
  <2>1. \A x \in News \X (1 .. Len(es)) : AddEntry(x[1], es[x[2]], qt) \in News
    BY <1>1, AddEntryIs
  <2> QED
    BY <2>1 DEF LoopStep
<1> HIDE DEF base
<1>4. PICK f \in [0 .. Len(es) -> News] : Follows(f, base, LoopStep(es, qt), Len(es))
  BY <1>1, <1>2, <1>3, LoopExists
<1>5. \A k \in 1 .. Len(es) : f[k] = AddEntry(f[k - 1], es[k], qt)
  <2> TAKE k \in 1 .. Len(es)
  <2>1. k - 1 \in 0 .. Len(es)
    BY <1>1
  <2>2. <<f[k - 1], k>> \in News \X (1 .. Len(es))
    BY <1>4, <2>1
  <2> QED
    BY <1>4, <2>2 DEF Follows, LoopStep
<1>6. IsLoop(f)
  <2>1. f = [k \in 0 .. Len(es) |-> f[k]]
    BY <1>4
  <2>2. \A k \in 0 .. Len(es) : f[k] = IF k = 0 THEN base ELSE AddEntry(f[k - 1], es[k], qt)
    <3>1. f[0] = base
      BY <1>4 DEF Follows
    <3>2. \A k \in 0 .. Len(es) : k = 0 \/ k \in 1 .. Len(es)
      BY <1>1
    <3> QED
      BY <1>5, <3>1, <3>2
  <2> QED
    BY <2>1, <2>2
<1>7. Loop(es, qt) = CHOOSE g : IsLoop(g)
  BY DEF Loop, base
<1>8. IsLoop(Loop(es, qt))
  BY <1>6, <1>7
<1>9. 0 \in 0 .. Len(es) /\ \A k \in 1 .. Len(es) : k \in 0 .. Len(es) /\ k # 0
  BY <1>1
<1> QED
  BY <1>8, <1>9 DEF base

\* What the loop leaves: a Path that lists the entries with the Qt directory
\* before each MyApps directory, and one of the MyApps directories.
LEMMA LoopIs ==
    ASSUME NEW es \in Seq(Plain), NEW qt \in Plain
    PROVE  LET new == Loop(es, qt)[Len(es)]
           IN  /\ new \in News
               /\ Listing(new.text) = Listed(es, qt)
               /\ new.bin = Empty => ~\E i \in 1 .. Len(es) : IsBin(es[i])
               /\ new.bin # Empty =>
                    IsBin(new.bin) /\ \E i \in 1 .. Len(es) : new.bin = es[i]
<1> DEFINE L == Loop(es, qt)
           Sub(k) == SubSeq(es, 1, k)
           Bins(k) == /\ L[k].bin = Empty => ~\E i \in 1 .. k : IsBin(es[i])
                      /\ L[k].bin # Empty =>
                           IsBin(L[k].bin) /\ \E i \in 1 .. k : L[k].bin = es[i]
           S == {k \in Nat : k <= Len(es) =>
                   L[k] \in News /\ Listing(L[k].text) = Listed(Sub(k), qt) /\ Bins(k)}
<1>1. Len(es) \in Nat /\ \A k \in 1 .. Len(es) : es[k] \in Plain
  OBVIOUS
<1>2. /\ L[0] = [text |-> Empty, bin |-> Empty]
      /\ \A k \in 1 .. Len(es) : L[k] = AddEntry(L[k - 1], es[k], qt)
  BY LoopFollows
<1> HIDE DEF L
<1>3. 0 \in S
  <2>1. L[0] \in News /\ L[0].text = Empty /\ L[0].bin = Empty
    BY <1>2, TextTypes DEF News
  <2>2. Listing(Empty) = <<>>
    <3>1. Empty \in Plain /\ Empty \in Text
      BY TextTypes
    <3>2. Entries(Empty) = <<Empty>>
      BY <3>1, EntryAdded
    <3>3. <<Empty>> = Append(<<>>, Empty) /\ <<>> \in Seq(Plain)
      OBVIOUS
    <3>4. /\ Listed(Append(<<>>, Empty), Empty) = Listed(<<>>, Empty) \o WithQt(Empty, Empty)
          /\ Listed(<<>>, Empty) = <<>>
      BY <3>1, <3>3, ListedAppend
    <3>5. WithQt(Empty, Empty) = <<>>
      BY DEF WithQt
    <3>6. <<>> \o <<>> = <<>>
      BY <3>3, ConcatEmptySeq
    <3> QED
      BY <3>2, <3>3, <3>4, <3>5, <3>6 DEF Listing
  <2>3. Sub(0) = <<>>
    BY SubSeqEmpty
  <2>4. Listed(<<>>, qt) = <<>>
    <3>1. <<>> \in Seq(Plain) /\ Empty \in Plain
      BY TextTypes
    <3> QED
      BY <3>1, ListedAppend
  <2>5. Bins(0)
    BY <2>1
  <2> HIDE DEF Sub, Bins
  <2> QED
    BY <2>1, <2>2, <2>3, <2>4, <2>5
<1>4. ASSUME NEW k \in Nat, k \in S PROVE k + 1 \in S
  <2> SUFFICES ASSUME k + 1 <= Len(es)
               PROVE  /\ L[k + 1] \in News /\ Bins(k + 1)
                      /\ Listing(L[k + 1].text) = Listed(Sub(k + 1), qt)
    OBVIOUS
  <2> DEFINE p == es[k + 1]
  <2>1. k + 1 \in 1 .. Len(es) /\ (k + 1) - 1 = k /\ k <= Len(es)
    BY <1>1
  <2>2. L[k] \in News /\ Listing(L[k].text) = Listed(Sub(k), qt) /\ Bins(k)
    BY <1>4, <2>1
  <2>3. L[k + 1] = AddEntry(L[k], p, qt) /\ p \in Plain
    BY <1>1, <1>2, <2>1
  <2>4. Sub(k) \in Seq(Plain) /\ Sub(k + 1) = Append(Sub(k), p)
    BY PrefixGrows
  <2> HIDE DEF p, Sub
  <2>5. /\ L[k + 1] \in News
        /\ Listing(L[k + 1].text) = Listing(L[k].text) \o WithQt(p, qt)
        /\ L[k + 1].bin = IF IsBin(p) THEN p ELSE L[k].bin
    <3> DEFINE prev == L[k]
    <3> HIDE DEF prev
    <3>1. prev \in News /\ p \in Plain
      BY <2>2, <2>3 DEF prev
    <3>2. /\ AddEntry(prev, p, qt) \in News
          /\ Listing(AddEntry(prev, p, qt).text) = Listing(prev.text) \o WithQt(p, qt)
          /\ AddEntry(prev, p, qt).bin = IF IsBin(p) THEN p ELSE prev.bin
      BY <3>1, AddEntryIs
    <3> QED
      BY <2>3, <3>2 DEF prev
  <2>6. Listed(Sub(k + 1), qt) = Listed(Sub(k), qt) \o WithQt(p, qt)
    <3> DEFINE q == Sub(k)
    <3> HIDE DEF q
    <3>1. q \in Seq(Plain)
      BY <2>4 DEF q
    <3>2. Listed(Append(q, p), qt) = Listed(q, qt) \o WithQt(p, qt)
      BY <2>3, <3>1, ListedAppend
    <3> QED
      BY <2>4, <3>2 DEF q
  <2>7. Bins(k + 1)
    <3>1. IsBin(p) => p # Empty
      BY <2>3, TextTypes, MatchesIs
    <3>2. \A i : i \in 1 .. k + 1 <=> i \in 1 .. k \/ i = k + 1
      OBVIOUS
    <3>3. CASE IsBin(p)
      <4>1. L[k + 1].bin = es[k + 1] /\ L[k + 1].bin = p
        BY <2>5, <3>3 DEF p
      <4> QED
        BY <3>1, <3>2, <3>3, <4>1
    <3>4. CASE ~IsBin(p)
      <4>1. L[k + 1].bin = L[k].bin
        BY <2>5, <3>4
      <4>2. ~IsBin(es[k + 1])
        BY <3>4 DEF p
      <4> QED
        BY <2>2, <3>2, <4>1, <4>2
    <3> QED
      BY <3>3, <3>4
  <2> QED
    BY <2>2, <2>5, <2>6, <2>7
<1> HIDE DEF S
<1>5. Len(es) \in S
  BY <1>1, <1>3, <1>4, SetInduction
<1>6. /\ L[Len(es)] \in News /\ Bins(Len(es))
      /\ Listing(L[Len(es)].text) = Listed(Sub(Len(es)), qt)
  BY <1>1, <1>5 DEF S
<1>7. Sub(Len(es)) = es
  BY SubSeqFull
<1> QED
  BY <1>6, <1>7 DEF L

-----------------------------------------------------------------------------
(* The steps.                                                              *)

LEMMA EntriesTyped ==
    ASSUME NEW t \in Text
    PROVE  Entries(t) \in Seq(Plain) /\ Range(Entries(t)) = {Entries(t)[i] : i \in 1 .. Len(Entries(t))}
<1>1. Semicolon \in Chars
  BY DEF Chars
<1>2. Entries(t) \in Seq(Plain)
  BY <1>1, EntriesAppend DEF Cuts
<1> QED
  BY <1>2, RangeEquality

\* The Path that the store gets, from the one there was.
NewPath(t, qt) ==
    LET new == Loop(Entries(t), qt)[Len(Entries(t))]
    IN  IF new.bin = Empty THEN EnvAppend(t, qt)
        ELSE IF qt # Empty THEN new.text
        ELSE t

LEMMA NewPathLists ==
    ASSUME NEW t \in Text, NEW qt \in Plain
    PROVE  Listing(NewPath(t, qt)) =
             IF qt # Empty /\ ~\E p \in Range(Entries(t)) : IsBin(p)
               THEN Append(Listing(t), qt)
               ELSE Listed(Entries(t), qt)
<1> DEFINE es  == Entries(t)
           new == Loop(es, qt)[Len(es)]
<1>1. es \in Seq(Plain) /\ Range(es) = {es[i] : i \in 1 .. Len(es)}
  BY EntriesTyped
<1> HIDE DEF es
<1>2. /\ Listing(new.text) = Listed(es, qt)
      /\ new.bin = Empty => ~\E i \in 1 .. Len(es) : IsBin(es[i])
      /\ new.bin # Empty => IsBin(new.bin) /\ \E i \in 1 .. Len(es) : new.bin = es[i]
  BY <1>1, LoopIs
<1>3. new.bin = Empty <=> ~\E p \in Range(es) : IsBin(p)
  BY <1>1, <1>2
<1>4. Listing(t) = Listed(es, Empty)
  BY DEF Listing, es
<1> HIDE DEF new
<1>5. NewPath(t, qt) = IF new.bin = Empty THEN EnvAppend(t, qt)
                       ELSE IF qt # Empty THEN new.text ELSE t
  BY DEF NewPath, new, es
<1>6. CASE new.bin = Empty
  <2>1. Listing(t) \in Seq(Plain)
        /\ Listing(EnvAppend(t, qt)) = Listing(t) \o WithQt(qt, Empty)
    BY ListingAdded
  <2>2. CASE qt = Empty
    <3>1. WithQt(qt, Empty) = <<>>
      BY <2>2 DEF WithQt
    <3>2. Listing(t) \o <<>> = Listing(t)
      BY <2>1, ConcatEmptySeq
    <3> QED
      BY <1>4, <1>5, <1>6, <2>1, <2>2, <3>1, <3>2 DEF es
  <2>3. CASE qt # Empty
    <3>1. WithQt(qt, Empty) = <<qt>>
      BY <2>3 DEF WithQt
    <3>2. Listing(t) \o <<qt>> = Append(Listing(t), qt)
      BY <2>1, AppendIsConcat
    <3> QED
      BY <1>3, <1>5, <1>6, <2>1, <2>3, <3>1, <3>2 DEF es
  <2> QED
    BY <2>2, <2>3
<1>7. CASE new.bin # Empty
  BY <1>2, <1>3, <1>4, <1>5, <1>7 DEF es
<1> QED
  BY <1>6, <1>7

LEMMA SuffixConcat ==
    ASSUME NEW S, NEW b \in Seq(S), NEW s \in Seq(S), NEW t \in Seq(S), IsSuffix(b, s)
    PROVE  IsSuffix(b \o t, s \o t)
<1> DEFINE l == Len(b)
           n == Len(s)
           m == Len(t)
<1>1. l \in Nat /\ n \in Nat /\ m \in Nat
  OBVIOUS
<1>2. l <= n /\ \A i \in 1 .. l : s[(n - l) + i] = b[i]
  BY SuffixIs DEF Occurs
<1>3. /\ b \o t \in Seq(S) /\ Len(b \o t) = l + m
      /\ \A i \in 1 .. l + m : (b \o t)[i] = IF i <= l THEN b[i] ELSE t[i - l]
  BY ConcatProperties
<1>4. /\ s \o t \in Seq(S) /\ Len(s \o t) = n + m
      /\ \A i \in 1 .. n + m : (s \o t)[i] = IF i <= n THEN s[i] ELSE t[i - n]
  BY ConcatProperties
<1> HIDE DEF l, n, m
<1>5. \A i \in 1 .. l + m : (s \o t)[(n - l) + i] = (b \o t)[i]
  <2> TAKE i \in 1 .. l + m
  <2>1. (n - l) + i \in 1 .. n + m
    BY <1>1, <1>2
  <2>2. CASE i <= l
    <3>1. i \in 1 .. l /\ (n - l) + i <= n
      BY <1>1, <2>2
    <3> QED
      BY <1>2, <1>3, <1>4, <2>1, <2>2, <3>1
  <2>3. CASE ~(i <= l)
    <3>1. ~((n - l) + i <= n) /\ ((n - l) + i) - n = i - l
      BY <1>1, <2>3
    <3> QED
      BY <1>3, <1>4, <2>1, <2>3, <3>1
  <2> QED
    BY <2>2, <2>3
<1>6. (n + m) - (l + m) = n - l /\ l + m <= n + m /\ (n - l) + (l + m) <= n + m
  BY <1>1, <1>2
<1>7. Occurs(b \o t, s \o t, Len(s \o t) - Len(b \o t))
  BY <1>3, <1>4, <1>5, <1>6 DEF Occurs
<1> QED
  BY <1>3, <1>4, <1>6, <1>7, SuffixIs

LEMMA PrefixConcat ==
    ASSUME NEW S, NEW s \in Seq(S), NEW t \in Seq(S)
    PROVE  IsPrefix(s, s \o t) /\ IsSuffix(t, s \o t)
<1>1. Len(s) \in Nat /\ Len(t) \in Nat
  OBVIOUS
<1>2. /\ s \o t \in Seq(S) /\ Len(s \o t) = Len(s) + Len(t)
      /\ \A i \in 1 .. Len(s) + Len(t) : (s \o t)[i] = IF i <= Len(s) THEN s[i] ELSE t[i - Len(s)]
  BY ConcatProperties
<1> DEFINE u == s \o t
<1> HIDE DEF u
<1>3. Occurs(s, u, 0)
  BY <1>1, <1>2 DEF Occurs, u
<1>4. SubSeq(u, 0 + 1, 0 + Len(s)) = s
  BY <1>1, <1>2, <1>3, SubSeqIs DEF u
<1>5. SubSeq(s, 1, Len(s)) = s
  BY SubSeqFull
<1>6. IsPrefix(s, u)
  BY <1>1, <1>2, <1>4, <1>5 DEF IsPrefix, u
<1>7. Occurs(t, u, Len(u) - Len(t))
  <2>1. Len(u) - Len(t) = Len(s) /\ Len(s) + Len(t) <= Len(u)
    BY <1>1, <1>2 DEF u
  <2>2. \A i \in 1 .. Len(t) : u[Len(s) + i] = t[i]
    BY <1>1, <1>2 DEF u
  <2> QED
    BY <2>1, <2>2 DEF Occurs
<1>8. IsSuffix(t, u)
  <2>1. u \in Seq(S) /\ Len(t) <= Len(u)
    BY <1>1, <1>2 DEF u
  <2> QED
    BY <1>7, <2>1, SuffixIs
<1> QED
  BY <1>6, <1>8 DEF u

\* The certificates are beside the directory, however it is spelt.
LEMMA CertsBeside ==
    ASSUME NEW p \in Text, IsBin(p)
    PROVE  /\ IsSuffix(BinPath \o <<Backslash>> \o Certs, CertsOf(p))
           /\ IsPrefix(p, CertsOf(p)) /\ CertsOf(p) \in Text
<1> DEFINE L    == Len(p)
           b    == BinPath
           l    == Len(b)
           w    == Append(b, Backslash)
           core == IF p[L] = Backslash THEN SubSeq(p, 1, L - 1) ELSE p
           bs   == <<Backslash>>
<1>1. /\ b \in Seq(Chars) /\ p \in Seq(Chars) /\ Backslash \in Chars
      /\ bs \in Seq(Chars) /\ Certs \in Seq(Chars)
  BY TextTypes DEF Text, Chars
<1>2. L \in Nat /\ l \in Nat /\ l # 0 /\ b[l] # Backslash
  BY <1>1, LauncherAssumption DEF Last, Empty
<1>3. /\ w \in Seq(Chars) /\ Len(w) = l + 1 /\ w[l + 1] = Backslash
      /\ \A i \in 1 .. l : w[i] = b[i]
  BY <1>1, AppendProperties
<1>4. CertsOf(p) = core \o bs \o Certs
  BY DEF CertsOf, Last, Front
<1> HIDE DEF L, l, w, bs, b
<1>5. \/ l <= L /\ \A i \in 1 .. l : p[(L - l) + i] = b[i]
      \/ l + 1 <= L /\ \A i \in 1 .. l + 1 : p[(L - (l + 1)) + i] = w[i]
  <2>1. IsSuffix(b, p) \/ IsSuffix(w, p)
    BY DEF IsBin, w, b
  <2>2. IsSuffix(b, p) => l <= L /\ Occurs(b, p, L - l)
    BY <1>1, SuffixIs DEF l, L
  <2>3. IsSuffix(w, p) => l + 1 <= L /\ Occurs(w, p, L - (l + 1))
    BY <1>1, <1>3, SuffixIs DEF L
  <2>4. Occurs(b, p, L - l) => \A i \in 1 .. l : p[(L - l) + i] = b[i]
    BY DEF Occurs, l
  <2>5. Occurs(w, p, L - (l + 1)) => \A i \in 1 .. l + 1 : p[(L - (l + 1)) + i] = w[i]
    BY <1>3 DEF Occurs
  <2> QED
    BY <2>1, <2>2, <2>3, <2>4, <2>5
<1>6. CASE p[L] = Backslash
  <2>1. l + 1 <= L /\ \A i \in 1 .. l : p[(L - (l + 1)) + i] = b[i]
    <3>1. CASE l <= L /\ \A i \in 1 .. l : p[(L - l) + i] = b[i]
      <4>1. l \in 1 .. l /\ (L - l) + l = L
        BY <1>2
      <4> QED
        BY <1>2, <1>6, <3>1, <4>1
    <3>2. CASE l + 1 <= L /\ \A i \in 1 .. l + 1 : p[(L - (l + 1)) + i] = w[i]
      <4>1. \A i \in 1 .. l : i \in 1 .. l + 1
        BY <1>2
      <4> QED
        BY <1>3, <3>2, <4>1
    <3> QED
      BY <1>5, <3>1, <3>2
  <2>2. /\ core \in Seq(Chars) /\ Len(core) = L - 1 /\ \A i \in 1 .. L - 1 : core[i] = p[i]
        /\ p = core \o bs
    <3>1. L - 1 \in Nat /\ (L - 1) + 1 = L
      BY <1>2, <2>1
    <3>2. /\ SubSeq(p, 1, L - 1) \in Seq(Chars)
          /\ SubSeq(p, 1, (L - 1) + 1) = Append(SubSeq(p, 1, L - 1), p[(L - 1) + 1])
      BY <1>1, <3>1, PrefixGrows DEF L
    <3>3. SubSeq(p, 1, L) = p
      BY <1>1, SubSeqFull DEF L
    <3>4. core = SubSeq(p, 1, L - 1)
      BY <1>6
    <3>5. p = Append(core, Backslash)
      BY <1>6, <3>1, <3>2, <3>3, <3>4
    <3>6. p = core \o bs
      BY <1>1, <3>2, <3>4, <3>5, AppendIsConcat DEF bs
    <3>7. \A i \in 1 .. L - 1 : p[i] \in Chars
      BY <1>1, <3>1 DEF L
    <3>8. Len(SubSeq(p, 1, L - 1)) = L - 1 /\ \A i \in 1 .. L - 1 : SubSeq(p, 1, L - 1)[i] = p[i]
      BY <3>1, <3>7, SubSeqProperties
    <3> QED
      BY <3>2, <3>4, <3>6, <3>8
  <2> HIDE DEF core
  <2>3. IsSuffix(b, core)
    <3>1. (L - 1) - l = L - (l + 1) /\ l <= L - 1 /\ (L - (l + 1)) + l <= L - 1
      BY <1>2, <2>1
    <3>2. \A i \in 1 .. l : core[(L - (l + 1)) + i] = b[i]
      <4> TAKE i \in 1 .. l
      <4>1. (L - (l + 1)) + i \in 1 .. L - 1
        BY <1>2, <2>1
      <4> QED
        BY <2>1, <2>2, <4>1
    <3>3. Occurs(b, core, Len(core) - Len(b)) /\ Len(b) <= Len(core)
      BY <2>2, <3>1, <3>2 DEF Occurs, l
    <3> QED
      BY <1>1, <2>2, <3>3, SuffixIs
  <2>4. IsSuffix(b \o bs, core \o bs) /\ b \o bs \in Seq(Chars) /\ core \o bs \in Seq(Chars)
    BY <1>1, <2>2, <2>3, SuffixConcat, ConcatProperties
  <2>5. IsSuffix((b \o bs) \o Certs, (core \o bs) \o Certs)
    BY <1>1, <2>4, SuffixConcat
  <2>6. IsPrefix(core \o bs, (core \o bs) \o Certs) /\ (core \o bs) \o Certs \in Seq(Chars)
    BY <1>1, <2>4, PrefixConcat, ConcatProperties
  <2> QED
    BY <1>4, <2>2, <2>5, <2>6 DEF bs, b, Text
<1>7. CASE p[L] # Backslash
  <2>1. core = p
    BY <1>7
  <2>2. l <= L /\ \A i \in 1 .. l : p[(L - l) + i] = b[i]
    <3>1. ASSUME l + 1 <= L, \A i \in 1 .. l + 1 : p[(L - (l + 1)) + i] = w[i] PROVE FALSE
      <4>1. l + 1 \in 1 .. l + 1 /\ (L - (l + 1)) + (l + 1) = L
        BY <1>2
      <4>2. p[(L - (l + 1)) + (l + 1)] = w[l + 1]
        BY <3>1, <4>1
      <4> QED
        BY <1>3, <1>7, <4>1, <4>2
    <3> QED
      BY <1>5, <3>1
  <2>3. IsSuffix(b, p)
    <3>1. Occurs(b, p, Len(p) - Len(b)) /\ Len(b) <= Len(p)
      <4>1. (L - l) + l <= L
        BY <1>2
      <4> QED
        BY <2>2, <4>1 DEF Occurs, l, L
    <3> QED
      BY <1>1, <3>1, SuffixIs
  <2>4. IsSuffix(b \o bs, p \o bs) /\ b \o bs \in Seq(Chars) /\ p \o bs \in Seq(Chars)
        /\ bs \o Certs \in Seq(Chars)
    BY <1>1, <2>3, SuffixConcat, ConcatProperties
  <2>5. IsSuffix((b \o bs) \o Certs, (p \o bs) \o Certs)
    BY <1>1, <2>4, SuffixConcat
  <2>6. IsPrefix(p, p \o (bs \o Certs)) /\ p \o (bs \o Certs) \in Seq(Chars)
    BY <1>1, <2>4, PrefixConcat, ConcatProperties
  <2>7. p \o (bs \o Certs) = (p \o bs) \o Certs
    BY <1>1, ConcatAssociative
  <2> QED
    BY <1>4, <2>1, <2>5, <2>6, <2>7 DEF bs, b, Text
<1> QED
  BY <1>6, <1>7

-----------------------------------------------------------------------------
(* The invariant: what the properties say, with the types they rest on.    *)

LInv ==
    /\ path \in Text /\ qt_path \in Plain /\ given \in UserArgs
    /\ PathFindsQt
    /\ args # Unset => env_path # Unset /\ CertsInBin

LEMMA InitLInv == Init => LInv
BY TextTypes DEF Init, LInv, PathFindsQt

LEMMA SetEnvironmentLInv == ASSUME LInv, SetEnvironment PROVE LInv'
<1>1. path' = path /\ qt_path' = qt_path /\ given' = given /\ args' = args /\ env_path = Unset
  BY DEF SetEnvironment
<1>2. args' = Unset
  BY <1>1 DEF LInv
<1>3. env_path' = NewPath(path, qt_path)
  BY DEF SetEnvironment, NewPath, NewPaths, path_vec
<1>4. path \in Text /\ qt_path \in Plain
  BY DEF LInv
<1>5. Listing(env_path') = IF qt_path # Empty /\ ~\E p \in Range(Entries(path)) : IsBin(p)
                             THEN Append(Listing(path), qt_path)
                             ELSE Listed(Entries(path), qt_path)
  BY <1>3, <1>4, NewPathLists
<1>6. PathFindsQt'
  BY <1>1, <1>5 DEF PathFindsQt, path_vec
<1> QED
  BY <1>1, <1>2, <1>6 DEF LInv

LEMMA SpawnLInv == ASSUME LInv, Spawn PROVE LInv'
<1>1. /\ path' = path /\ qt_path' = qt_path /\ given' = given /\ env_path' = env_path
      /\ env_path # Unset
  BY DEF Spawn
<1> DEFINE es  == path_vec
           bin == NewPaths.bin
           C   == CertsOf(bin)
           sp  == "--secure-prefix"
<1>2. es \in Seq(Plain) /\ Range(es) = {es[i] : i \in 1 .. Len(es)} /\ es' = es
  BY <1>1, EntriesTyped DEF LInv, path_vec
<1>3. /\ bin \in Plain
      /\ bin = Empty => ~\E i \in 1 .. Len(es) : IsBin(es[i])
      /\ bin # Empty => IsBin(bin) /\ \E i \in 1 .. Len(es) : bin = es[i]
  BY <1>2, LoopIs DEF LInv, NewPaths, News
<1>4. given \in Seq(Range(given))
  BY LauncherAssumption DEF LInv
<1>5. args' = (IF bin # Empty THEN <<sp, C>> ELSE <<>>) \o given
  BY DEF Spawn
<1> HIDE DEF es, bin
<1>6. CertsInBin'
  <2>1. CASE bin = Empty
    <3>1. args' = given
      BY <1>4, <1>5, <2>1, ConcatEmptySeq
    <3>2. ~\E p \in Range(es) : IsBin(p)
      BY <1>2, <1>3, <2>1
    <3>3. ~(Len(given) > Len(given))
      BY <1>4
    <3> QED
      BY <1>1, <1>2, <3>1, <3>2, <3>3 DEF CertsInBin, es
  <2>2. CASE bin # Empty
    <3>1. bin \in Text /\ IsBin(bin) /\ bin \in Range(es)
      BY <1>2, <1>3, <2>2, TextTypes
    <3>2. /\ IsSuffix(BinPath \o <<Backslash>> \o Certs, C)
          /\ IsPrefix(bin, C)
      BY <3>1, CertsBeside
    <3> HIDE DEF C, sp
    <3>3. bin \in Range(Listing(env_path))
      <4>1. Listing(env_path) = Listed(es, qt_path)
        BY <1>1, <3>1 DEF LInv, PathFindsQt, es
      <4>2. PICK i \in 1 .. Len(es) : bin = es[i]
        BY <1>3, <2>2
      <4>3. bin \in Range(Listed(es, qt_path))
        BY <1>2, <2>2, <4>2, EntryListed DEF LInv
      <4> QED
        BY <4>1, <4>3
    <3> DEFINE S == Range(given) \cup {sp, C}
               a == <<sp, C>>
    <3>4. given \in Seq(S)
      BY <1>4, SeqMonotonic
    <3>5. a \in Seq(S) /\ Len(a) = 2 /\ a[2] = C
      OBVIOUS
    <3> HIDE DEF S, a
    <3>6. args' = a \o given
      BY <1>5, <2>2 DEF a
    <3>7. Len(a \o given) > Len(given) /\ (a \o given)[2] = C
      <4>1. Len(given) \in Nat
        BY <3>4
      <4>2. Len(a \o given) = 2 + Len(given) /\ 2 \in 1 .. 2 + Len(given)
        <5>1. Len(a \o given) = Len(a) + Len(given)
          BY <3>4, <3>5, ConcatProperties
        <5> QED
          BY <3>5, <4>1, <5>1
      <4>3. (a \o given)[2] = a[2]
        BY <3>4, <3>5, <4>1, <4>2, ConcatProperties
      <4> QED
        BY <3>5, <4>1, <4>2, <4>3
    <3>8. IsSuffix(given, a \o given)
      BY <3>4, <3>5, PrefixConcat
    <3> QED
      BY <1>1, <3>1, <3>2, <3>3, <3>6, <3>7, <3>8 DEF CertsInBin
  <2> QED
    BY <2>1, <2>2
<1>7. PathFindsQt'
  BY <1>1, <1>2 DEF LInv, PathFindsQt, es
<1> QED
  BY <1>1, <1>6, <1>7 DEF LInv

\* Every state of the launcher satisfies the invariant.
THEOREM LauncherInvariant == Spec => []LInv
<1>1. LInv /\ [Next]_vars => LInv'
  <2> SUFFICES ASSUME LInv, [Next]_vars PROVE LInv'
    OBVIOUS
  <2>1. CASE SetEnvironment
    BY <2>1, SetEnvironmentLInv
  <2>2. CASE Spawn
    BY <2>2, SpawnLInv
  <2>3. CASE UNCHANGED vars
    BY <2>3 DEF LInv, PathFindsQt, CertsInBin, path_vec, vars
  <2> QED
    BY <2>1, <2>2, <2>3 DEF Next
<1> QED
  BY <1>1, InitLInv, PTL DEF Spec

\* WinMain's loop over the entries of Path: for every Path, the store's lists
\* the same directories in the same order, and the Qt directory, if one was
\* found, before each MyApps directory in either spelling, or last.
THEOREM PathAlwaysFindsQt == Spec => []PathFindsQt
<1>1. LInv => PathFindsQt
  BY DEF LInv
<1> QED
  BY <1>1, LauncherInvariant, PTL

\* bin_path and the arguments of the store: for every Path and every command
\* line, the certificates are beside a MyApps directory that the new Path
\* lists, and the user's arguments follow.
THEOREM CertsAlwaysInBin == Spec => []CertsInBin
<1>1. LInv => CertsInBin
  BY DEF LInv, CertsInBin
<1> QED
  BY <1>1, LauncherInvariant, PTL
=============================================================================
