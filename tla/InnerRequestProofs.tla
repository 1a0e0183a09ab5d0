------------------------- MODULE InnerRequestProofs -------------------------
(***************************************************************************)
(* Theorems about InnerRequest: for any streams, keys and sizes of reads.   *)
(*                                                                         *)
(* What a recursive definition of the model computes is shown by induction  *)
(* over sets: a set of numbers with 0 and with every successor is Nat, a    *)
(* set of sequences with <<>> and with every Append is Seq(Token).          *)
(***************************************************************************)
EXTENDS InnerRequest, SequenceTheorems, WellFoundedInduction, TLAPS

-----------------------------------------------------------------------------
(* Numbers and positions *)

\* Every set of numbers that is not empty has a least member.
LEMMA LeastNumber ==
    ASSUME NEW S \in SUBSET Nat, S # {}
    PROVE  \E m \in S : \A k \in S : m <= k
<1> DEFINE R == OpToRel(<, Nat)
<1>1. PICK m \in S : \A k \in S : <<k, m>> \notin R
  <2> HIDE DEF R
  <2>1. IsWellFoundedOn(R, Nat)
      BY NatLessThanWellFounded DEF R
  <2> QED BY <2>1, WFMin
<1>2. ASSUME NEW k \in S PROVE m <= k
  <2>1. <<k, m>> \notin R
      BY <1>1
  <2>2. ~ (k < m)
      BY <2>1 DEF OpToRel
  <2> QED BY <2>2
<1> QED BY <1>2

\* Induction over the numbers, without an operator as a parameter.
LEMMA NatSets ==
    ASSUME NEW N \in SUBSET Nat, 0 \in N, \A n \in N : n + 1 \in N
    PROVE  N = Nat
<1> SUFFICES ASSUME Nat \ N # {} PROVE FALSE
    OBVIOUS
<1>1. PICK m \in Nat \ N : \A k \in Nat \ N : m <= k
    BY LeastNumber
<1>2. m # 0 /\ m - 1 \in Nat \ N
    OBVIOUS
<1> QED BY <1>1, <1>2

\* What Min of the community modules returns, which First is built from.
LEMMA MinIs ==
    ASSUME NEW S \in SUBSET Nat, S # {}
    PROVE  Min(S) \in S /\ \A k \in S : Min(S) <= k
BY LeastNumber DEF Min

\* Max of positions is one of them: the last Content-Length is there.
LEMMA MaxIs ==
    ASSUME NEW n \in Nat, NEW S \in SUBSET (1 .. n), S # {}
    PROVE  Max(S) \in S
<1> DEFINE T == {n - i : i \in S}
<1>1. \A i \in S : n - i \in Nat /\ n - i \in T
    OBVIOUS
<1>2. PICK m \in T : \A k \in T : m <= k
  <2>1. T \in SUBSET Nat
      BY <1>1
  <2>2. T # {}
      BY <1>1
  <2> HIDE DEF T
  <2> QED BY <2>1, <2>2, LeastNumber
<1>3. n - m \in S /\ \A i \in S : n - m >= i
  <2>1. PICK i \in S : m = n - i
      BY <1>2
  <2>2. ASSUME NEW j \in S PROVE n - m >= j
      BY <1>2, <2>1
  <2> QED BY <2>1, <2>2
<1> QED BY <1>3 DEF Max

\* First finds the first token of some kinds, or returns 0 if there is none.
LEMMA FirstIs ==
    ASSUME NEW s \in Seq(Token), NEW kinds, NEW from \in Nat \ {0}
    PROVE  LET p == First(s, kinds, from) IN
           \/ p = 0 /\ \A i \in from .. Len(s) : s[i].kind \notin kinds
           \/ /\ p \in from .. Len(s) /\ s[p].kind \in kinds
              /\ \A i \in from .. p - 1 : s[i].kind \notin kinds
<1> DEFINE I == {i \in from .. Len(s) : s[i].kind \in kinds}
<1>1. First(s, kinds, from) = IF I # {} THEN Min(I) ELSE 0
    BY DEF First, SelectInSubSeq
<1>2. I \in SUBSET Nat
    OBVIOUS
<1>3. CASE I = {}
    BY <1>1, <1>3
<1>4. CASE I # {}
  <2>1. Min(I) \in I /\ \A k \in I : Min(I) <= k
      BY <1>2, <1>4, MinIs
  <2>2. \A i \in from .. Min(I) - 1 : s[i].kind \notin kinds
      BY <2>1
  <2> QED BY <1>1, <1>4, <2>1, <2>2
<1> QED BY <1>3, <1>4

\* A Content-Length is a number, whichever line is the last to give one.
LEMMA ContentLengthIs ==
    ASSUME NEW s \in Seq(Token)
    PROVE  ContentLength(s) \in Nat
<1> DEFINE h == HeadersOf(s)
           I == {i \in 1 .. Len(h) : h[i].kind = "length"}
           at == SelectLastInSeq(h, LAMBDA t : t.kind = "length")
<1>1. HeaderEnd(s) \in 0 .. Len(s)
    BY FirstIs DEF HeaderEnd
<1>2. h \in Seq(Token) /\ Len(h) = HeaderEnd(s) /\ \A i \in 1 .. Len(h) : h[i] = s[i]
    BY <1>1 DEF HeadersOf
<1>3. at = IF I # {} THEN Max(I) ELSE 0
    BY DEF SelectLastInSeq
<1>4. CASE I # {}
  <2>1. Max(I) \in I
      BY <1>2, <1>4, MaxIs, Len(h) \in Nat
  <2>2. at \in 1 .. Len(s) /\ s[at].kind = "length"
      BY <1>1, <1>2, <1>3, <1>4, <2>1
  <2>3. s[at] \in Token
      BY <2>2
  <2>4. s[at].n \in Nat
      BY <2>2, <2>3 DEF Token
  <2> QED BY <2>2, <2>4 DEF ContentLength
<1>5. CASE I = {}
    BY <1>3, <1>5 DEF ContentLength
<1> QED BY <1>4, <1>5

-----------------------------------------------------------------------------
(* Only *)

\* Induction over the tokens of a sequence.
LEMMA SeqSets ==
    ASSUME NEW S \in SUBSET Seq(Token), <<>> \in S,
           \A s \in S, t \in Token : Append(s, t) \in S
    PROVE  S = Seq(Token)
<1> DEFINE N == {n \in Nat : \A s \in Seq(Token) : Len(s) = n => s \in S}
<1>1. 0 \in N
    OBVIOUS
<1>2. ASSUME NEW n \in N PROVE n + 1 \in N
  <2> SUFFICES ASSUME NEW s \in Seq(Token), Len(s) = n + 1 PROVE s \in S
      OBVIOUS
  <2> DEFINE front == SubSeq(s, 1, n)
  <2>1. front \in Seq(Token) /\ Len(front) = n /\ s[n + 1] \in Token
      OBVIOUS
  <2>2. s = Append(front, s[n + 1])
    <3>0. n \in Nat /\ n <= Len(s)
        OBVIOUS
    <3> HIDE DEF N
    <3> DEFINE whole == Append(front, s[n + 1])
    <3>1. \A i \in 1 .. n : front[i] = s[i]
        BY <3>0
    <3> HIDE DEF front
    <3>2. /\ whole \in Seq(Token) /\ Len(whole) = n + 1
          /\ \A i \in 1 .. n : whole[i] = front[i]
          /\ whole[n + 1] = s[n + 1]
        BY <2>1, AppendProperties
    <3> HIDE DEF whole
    <3>3. \A i \in 1 .. n + 1 : i \in 1 .. n \/ i = n + 1
        BY <3>0
    <3>4. \A i \in 1 .. n + 1 : s[i] = whole[i]
        BY <3>1, <3>2, <3>3
    <3>5. s = whole
        BY <3>2, <3>4, SeqEqual
    <3> QED BY <3>5 DEF whole
  <2> QED BY <2>1, <2>2
<1>3. N = Nat
  <2> HIDE DEF N
  <2>1. N \in SUBSET Nat
      BY DEF N
  <2> QED BY <1>1, <1>2, <2>1, NatSets
<1>4. ASSUME NEW s \in Seq(Token) PROVE s \in S
  <2>1. Len(s) \in N
      BY <1>3, LenProperties
  <2> QED BY <2>1
<1> QED BY <1>4

\* The functions that Only chooses from, up to the first n tokens.
IsKept(f, s, kinds, n) ==
    f = [m \in 0 .. n |->
            IF m = 0 THEN <<>>
            ELSE IF s[m].kind \in kinds THEN Append(f[m - 1], s[m])
            ELSE f[m - 1]]

\* The function by which Only goes through a sequence exists.
LEMMA KeptExists ==
    ASSUME NEW s \in Seq(Token), NEW kinds, NEW n \in Nat
    PROVE  \E f : IsKept(f, s, kinds, n)
<1> DEFINE N == {k \in Nat : \E f : IsKept(f, s, kinds, k)}
<1>1. 0 \in N
  <2> DEFINE f == [m \in 0 .. 0 |-> <<>>]
  <2>1. IsKept(f, s, kinds, 0)
      BY DEF IsKept
  <2> QED BY <2>1
<1>2. ASSUME NEW k \in N PROVE k + 1 \in N
  <2>1. PICK f : IsKept(f, s, kinds, k)
      OBVIOUS
  <2> DEFINE Step(g, m) == IF m = 0 THEN <<>>
                           ELSE IF s[m].kind \in kinds THEN Append(g[m - 1], s[m])
                           ELSE g[m - 1]
             g == [m \in 0 .. k + 1 |-> IF m = k + 1 THEN Step(f, m) ELSE f[m]]
  <2>2. \A m \in 0 .. k : f[m] = Step(f, m)
      BY <2>1 DEF IsKept
  <2>3. \A m \in 0 .. k + 1 : Step(g, m) = Step(f, m)
      OBVIOUS
  <2>4. \A m \in 0 .. k + 1 : g[m] = Step(g, m)
      BY <2>2, <2>3
  <2>5. g = [m \in 0 .. k + 1 |-> g[m]]
      OBVIOUS
  <2>6. g = [m \in 0 .. k + 1 |-> Step(g, m)]
    <3> HIDE DEF g, Step
    <3> QED BY <2>4, <2>5
  <2>7. IsKept(g, s, kinds, k + 1)
    <3> HIDE DEF g
    <3> QED BY <2>6 DEF IsKept
  <2> QED BY <2>7
<1>3. N = Nat
  <2> HIDE DEF N
  <2>1. N \in SUBSET Nat
      BY DEF N
  <2> QED BY <1>1, <1>2, <2>1, NatSets
<1> QED BY <1>3

\* f[n] has what Only takes of the first n tokens.
Keeps(f, s, kinds) ==
    /\ f[0] = <<>>
    /\ \A n \in 1 .. Len(s) :
         f[n] = IF s[n].kind \in kinds THEN Append(f[n - 1], s[n]) ELSE f[n - 1]

\* Only takes the tokens of a sequence one by one.
LEMMA OnlyIs ==
    ASSUME NEW s \in Seq(Token), NEW kinds
    PROVE  \E f : Keeps(f, s, kinds) /\ Only(s, kinds) = f[Len(s)]
<1> DEFINE kept == CHOOSE f : IsKept(f, s, kinds, Len(s))
<1>1. Only(s, kinds) = kept[Len(s)]
    BY DEF Only, IsKept
<1>2. IsKept(kept, s, kinds, Len(s))
    BY KeptExists, LenProperties
<1> HIDE DEF kept
<1>3. Keeps(kept, s, kinds)
  <2>1. kept[0] = <<>>
      BY <1>2 DEF IsKept
  <2>2. ASSUME NEW n \in 1 .. Len(s)
        PROVE  kept[n] = IF s[n].kind \in kinds THEN Append(kept[n - 1], s[n])
                                                ELSE kept[n - 1]
    <3>1. n \in 0 .. Len(s) /\ n # 0
        OBVIOUS
    <3> QED BY <1>2, <3>1 DEF IsKept
  <2> QED BY <2>1, <2>2 DEF Keeps
<1> QED BY <1>1, <1>3

\* Whatever takes the tokens one by one in the way of Only returns the same.
LEMMA OnlyUnique ==
    ASSUME NEW s \in Seq(Token), NEW kinds, NEW g, Keeps(g, s, kinds)
    PROVE  Only(s, kinds) = g[Len(s)]
<1>1. PICK f : Keeps(f, s, kinds) /\ Only(s, kinds) = f[Len(s)]
    BY OnlyIs
<1> DEFINE N == {n \in Nat : n <= Len(s) => f[n] = g[n]}
<1>2. 0 \in N
    BY <1>1 DEF Keeps
<1>3. ASSUME NEW n \in N PROVE n + 1 \in N
  <2> SUFFICES ASSUME n + 1 <= Len(s) PROVE f[n + 1] = g[n + 1]
      OBVIOUS
  <2>1. n + 1 \in 1 .. Len(s) /\ (n + 1) - 1 = n /\ f[n] = g[n]
      OBVIOUS
  <2> QED BY <1>1, <2>1 DEF Keeps
<1>4. N = Nat
  <2> HIDE DEF N
  <2>1. N \in SUBSET Nat
      BY DEF N
  <2> QED BY <1>2, <1>3, <2>1, NatSets
<1> QED BY <1>1, <1>4

\* Of nothing, Only takes nothing.
LEMMA OnlyEmpty ==
    ASSUME NEW kinds
    PROVE  Only(<<>>, kinds) = <<>>
<1>1. <<>> \in Seq(Token) /\ Len(<<>>) = 0
    OBVIOUS
<1> DEFINE s == <<>>
<1> HIDE DEF s
<1>2. s \in Seq(Token) /\ Len(s) = 0
    BY <1>1 DEF s
<1>3. Only(s, kinds) = <<>>
  <2>1. PICK f : Keeps(f, s, kinds) /\ Only(s, kinds) = f[Len(s)]
      BY <1>2, OnlyIs
  <2> QED BY <1>2, <2>1 DEF Keeps
<1> QED BY <1>3 DEF s

\* A token at the end is taken if it is of the kinds.
LEMMA OnlyAppend ==
    ASSUME NEW s \in Seq(Token), NEW t \in Token, NEW kinds
    PROVE  Only(Append(s, t), kinds) =
               IF t.kind \in kinds THEN Append(Only(s, kinds), t) ELSE Only(s, kinds)
<1>1. PICK f : Keeps(f, s, kinds) /\ Only(s, kinds) = f[Len(s)]
    BY OnlyIs
<1> DEFINE last == IF t.kind \in kinds THEN Append(f[Len(s)], t) ELSE f[Len(s)]
           g == [n \in 0 .. Len(s) + 1 |-> IF n = Len(s) + 1 THEN last ELSE f[n]]
           st == Append(s, t)
<1>2. st \in Seq(Token) /\ Len(st) = Len(s) + 1 /\ st[Len(s) + 1] = t
      /\ \A n \in 1 .. Len(s) : st[n] = s[n]
    OBVIOUS
<1>3. g[0] = <<>> /\ g[Len(s) + 1] = last /\ \A n \in 0 .. Len(s) : g[n] = f[n]
    BY <1>1 DEF Keeps
<1> HIDE DEF g, st
<1>4. ASSUME NEW n \in 1 .. Len(st)
      PROVE  g[n] = IF st[n].kind \in kinds THEN Append(g[n - 1], st[n]) ELSE g[n - 1]
  <2>1. CASE n = Len(s) + 1
    <3>1. n - 1 = Len(s) /\ n - 1 \in 0 .. Len(s)
        BY <2>1
    <3> QED BY <1>2, <1>3, <2>1, <3>1
  <2>2. CASE n \in 1 .. Len(s)
    <3>1. n \in 0 .. Len(s) /\ n - 1 \in 0 .. Len(s)
        BY <2>2
    <3> HIDE DEF last
    <3> QED BY <1>1, <1>2, <1>3, <2>2, <3>1 DEF Keeps
  <2> QED BY <1>2, <2>1, <2>2
<1>5. Only(st, kinds) = g[Len(s) + 1]
  <2>1. Keeps(g, st, kinds)
      BY <1>3, <1>4 DEF Keeps
  <2> QED BY <1>2, <2>1, OnlyUnique
<1> QED BY <1>1, <1>3, <1>5 DEF st

\* Only returns tokens, and of the kinds asked for.
LEMMA OnlyType ==
    ASSUME NEW s \in Seq(Token), NEW kinds
    PROVE  /\ Only(s, kinds) \in Seq(Token)
           /\ \A i \in 1 .. Len(Only(s, kinds)) : Only(s, kinds)[i].kind \in kinds
<1> DEFINE Kept(u) == /\ u \in Seq(Token)
                      /\ \A i \in 1 .. Len(u) : u[i].kind \in kinds
           S == {u \in Seq(Token) : Kept(Only(u, kinds))}
<1>1. <<>> \in S
  <2>1. <<>> \in Seq(Token) /\ Kept(<<>>)
      OBVIOUS
  <2> HIDE DEF Kept
  <2> QED BY <2>1, OnlyEmpty
<1>2. ASSUME NEW u \in S, NEW t \in Token PROVE Append(u, t) \in S
  <2>1. Append(u, t) \in Seq(Token)
      OBVIOUS
  <2>2. t.kind \in kinds => Kept(Append(Only(u, kinds), t))
      OBVIOUS
  <2>3. Kept(Only(u, kinds)) /\ u \in Seq(Token)
      OBVIOUS
  <2> HIDE DEF Kept
  <2> QED BY <2>1, <2>2, <2>3, OnlyAppend
<1>3. S = Seq(Token)
  <2> HIDE DEF S
  <2>1. S \in SUBSET Seq(Token)
      BY DEF S
  <2> QED BY <1>1, <1>2, <2>1, SeqSets
<1> QED BY <1>3

\* To append a token to the second of two sequences is to append it to both.
LEMMA AppendConcat ==
    ASSUME NEW s \in Seq(Token), NEW u \in Seq(Token), NEW t \in Token
    PROVE  s \o Append(u, t) = Append(s \o u, t)
<1>1. s \o Append(u, t) \in Seq(Token) /\ Append(s \o u, t) \in Seq(Token)
    OBVIOUS
<1>2. /\ Len(s \o Append(u, t)) = Len(s) + Len(u) + 1
      /\ Len(Append(s \o u, t)) = Len(s) + Len(u) + 1
    OBVIOUS
<1>3. \A i \in 1 .. Len(s) + Len(u) + 1 : (s \o Append(u, t))[i] = Append(s \o u, t)[i]
    OBVIOUS
<1> QED BY <1>1, <1>2, <1>3, SeqEqual

\* Only of two pieces of a stream is Only of each: so reads can be cut anywhere.
LEMMA OnlyConcat ==
    ASSUME NEW s \in Seq(Token), NEW t \in Seq(Token), NEW kinds
    PROVE  Only(s \o t, kinds) = Only(s, kinds) \o Only(t, kinds)
<1> DEFINE S == {u \in Seq(Token) :
                    Only(s \o u, kinds) = Only(s, kinds) \o Only(u, kinds)}
<1>1. <<>> \in S
  <2>1. s \o <<>> = s /\ Only(s, kinds) \o <<>> = Only(s, kinds)
      BY OnlyType, ConcatEmptySeq
  <2>2. <<>> \in Seq(Token)
      OBVIOUS
  <2> QED BY <2>1, <2>2, OnlyEmpty
<1>2. ASSUME NEW u \in S, NEW x \in Token PROVE Append(u, x) \in S
  <2> SUFFICES Only(s \o Append(u, x), kinds) = Only(s, kinds) \o Only(Append(u, x), kinds)
      OBVIOUS
  <2>1. s \o u \in Seq(Token) /\ s \o Append(u, x) = Append(s \o u, x)
      BY AppendConcat
  <2>2. Only(s, kinds) \in Seq(Token) /\ Only(u, kinds) \in Seq(Token)
      BY OnlyType
  <2>3. CASE x.kind \in kinds
    <3>1. Only(s \o Append(u, x), kinds) = Append(Only(s, kinds) \o Only(u, kinds), x)
        BY <2>1, <2>3, OnlyAppend
    <3>2. Only(Append(u, x), kinds) = Append(Only(u, kinds), x)
        BY <2>3, OnlyAppend
    <3> QED BY <2>2, <3>1, <3>2, AppendConcat
  <2>4. CASE x.kind \notin kinds
    <3>1. Only(Append(s \o u, x), kinds) = Only(s \o u, kinds)
        BY <2>1, <2>4, OnlyAppend
    <3>2. Only(Append(u, x), kinds) = Only(u, kinds)
        BY <2>4, OnlyAppend
    <3> QED BY <2>1, <3>1, <3>2
  <2> QED BY <2>3, <2>4
<1>3. S = Seq(Token)
  <2> HIDE DEF S
  <2>1. S \in SUBSET Seq(Token)
      BY DEF S
  <2> QED BY <1>1, <1>2, <2>1, SeqSets
<1> QED BY <1>3

\* So what is not rewritten of two pieces is that of each.
LEMMA OthersConcat ==
    ASSUME NEW s \in Seq(Token), NEW t \in Seq(Token)
    PROVE  Others(s \o t) = Others(s) \o Others(t)
<1> DEFINE Kept == Kinds \ (Authorization \union Hosts)
<1>1. \A u : Others(u) = Only(u, Kept)
    BY DEF Others
<1> HIDE DEF Kept
<1>2. Only(s \o t, Kept) = Only(s, Kept) \o Only(t, Kept)
    BY OnlyConcat
<1> QED BY <1>1, <1>2

\* Only of a single line is the line or nothing.
LEMMA OnlyOne ==
    ASSUME NEW t \in Token, NEW kinds
    PROVE  Only(<<t>>, kinds) = IF t.kind \in kinds THEN <<t>> ELSE <<>>
<1>1. <<t>> = Append(<<>>, t)
    OBVIOUS
<1>2. <<>> \in Seq(Token)
    OBVIOUS
<1>3. Only(Append(<<>>, t), kinds) =
          IF t.kind \in kinds THEN Append(<<>>, t) ELSE <<>>
    BY <1>2, OnlyEmpty, OnlyAppend
<1> QED BY <1>1, <1>3

\* Taking twice is taking once, if the second time asks for less.
LEMMA OnlyTwice ==
    ASSUME NEW s \in Seq(Token), NEW all, NEW some, some \subseteq all
    PROVE  Only(Only(s, all), some) = Only(s, some)
<1> DEFINE S == {u \in Seq(Token) : Only(Only(u, all), some) = Only(u, some)}
<1>1. <<>> \in S
    BY OnlyEmpty
<1>2. ASSUME NEW u \in S, NEW x \in Token PROVE Append(u, x) \in S
  <2> SUFFICES Only(Only(Append(u, x), all), some) = Only(Append(u, x), some)
      OBVIOUS
  <2>1. Only(u, all) \in Seq(Token)
      BY OnlyType
  <2>2. CASE x.kind \in all
    <3>1. Only(Append(u, x), all) = Append(Only(u, all), x)
        BY <2>2, OnlyAppend
    <3>2. Only(Append(Only(u, all), x), some) =
              IF x.kind \in some THEN Append(Only(u, some), x) ELSE Only(u, some)
        BY <2>1, OnlyAppend
    <3>3. Only(Append(u, x), some) =
              IF x.kind \in some THEN Append(Only(u, some), x) ELSE Only(u, some)
        BY OnlyAppend
    <3> QED BY <3>1, <3>2, <3>3
  <2>3. CASE x.kind \notin all
      BY <2>3, OnlyAppend
  <2> QED BY <2>2, <2>3
<1>3. S = Seq(Token)
  <2> HIDE DEF S
  <2>1. S \in SUBSET Seq(Token)
      BY DEF S
  <2> QED BY <1>1, <1>2, <2>1, SeqSets
<1> QED BY <1>3

\* Without a token of the kinds, nothing is taken.
LEMMA OnlyNone ==
    ASSUME NEW s \in Seq(Token), NEW kinds, \A i \in 1 .. Len(s) : s[i].kind \notin kinds
    PROVE  Only(s, kinds) = <<>>
<1>1. PICK f : Keeps(f, s, kinds) /\ Only(s, kinds) = f[Len(s)]
    BY OnlyIs
<1> DEFINE N == {n \in Nat : n <= Len(s) => f[n] = <<>>}
<1>2. 0 \in N
    BY <1>1 DEF Keeps
<1>3. ASSUME NEW n \in N PROVE n + 1 \in N
  <2> SUFFICES ASSUME n + 1 <= Len(s) PROVE f[n + 1] = <<>>
      OBVIOUS
  <2>1. n + 1 \in 1 .. Len(s) /\ (n + 1) - 1 = n /\ f[n] = <<>>
      OBVIOUS
  <2> QED BY <1>1, <2>1 DEF Keeps
<1>4. N = Nat
  <2> HIDE DEF N
  <2>1. N \in SUBSET Nat
      BY DEF N
  <2> QED BY <1>2, <1>3, <2>1, NatSets
<1> QED BY <1>1, <1>4

\* A kind that is taken is there afterwards.
LEMMA OnlyHas ==
    ASSUME NEW s \in Seq(Token), NEW kinds, NEW kind \in kinds, Has(s, kind)
    PROVE  Has(Only(s, kinds), kind)
<1> DEFINE S == {u \in Seq(Token) : Has(u, kind) => Has(Only(u, kinds), kind)}
<1>1. <<>> \in S
    BY DEF Has
<1>2. ASSUME NEW u \in S, NEW x \in Token PROVE Append(u, x) \in S
  <2> SUFFICES ASSUME Has(Append(u, x), kind)
               PROVE  Has(Only(Append(u, x), kinds), kind)
      OBVIOUS
  <2>1. Only(u, kinds) \in Seq(Token)
      BY OnlyType
  <2>2. CASE Has(u, kind)
    <3> DEFINE o == Only(u, kinds)
    <3>0. Only(Append(u, x), kinds) \in {o, Append(o, x)}
        BY OnlyAppend
    <3>1. PICK i \in 1 .. Len(Only(u, kinds)) : Only(u, kinds)[i].kind = kind
        BY <2>1, <2>2 DEF Has
    <3>2. Only(Append(u, x), kinds) \in Seq(Token)
          /\ i \in 1 .. Len(Only(Append(u, x), kinds))
          /\ Only(Append(u, x), kinds)[i] = Only(u, kinds)[i]
      <4>1. o \in Seq(Token) /\ i \in 1 .. Len(o)
          BY <2>1, <3>1
      <4> HIDE DEF o
      <4>2. /\ Append(o, x) \in Seq(Token) /\ i \in 1 .. Len(Append(o, x))
            /\ Append(o, x)[i] = o[i]
          BY <4>1
      <4>3. CASE Only(Append(u, x), kinds) = o
          BY <4>1, <4>3 DEF o
      <4>4. CASE Only(Append(u, x), kinds) = Append(o, x)
          BY <4>2, <4>4 DEF o
      <4> QED BY <3>0, <4>3, <4>4
    <3> QED BY <3>1, <3>2 DEF Has
  <2>3. CASE ~ Has(u, kind)
    <3>1. x.kind = kind
        BY <2>3 DEF Has
    <3>2. Only(Append(u, x), kinds) = Append(Only(u, kinds), x)
        BY <3>1, OnlyAppend
    <3> QED BY <2>1, <3>1, <3>2 DEF Has
  <2> QED BY <2>2, <2>3
<1>3. S = Seq(Token)
  <2> HIDE DEF S
  <2>1. S \in SUBSET Seq(Token)
      BY DEF S
  <2> QED BY <1>1, <1>2, <2>1, SeqSets
<1> QED BY <1>3

\* All lines as rewrite_request writes them.
Lines(s) == [i \in DOMAIN s |-> Renamed(s[i])]

\* A line is renamed to a line, a Host to a Host, and no other but what is not text.
LEMMA RenamedIs ==
    ASSUME NEW t \in Token
    PROVE  /\ Renamed(t) \in Token
           /\ t.kind \in Hosts => Renamed(t).kind \in Hosts
           /\ t.kind \notin Hosts \union {"binary"} => Renamed(t) = t
           /\ Renamed(t).kind \in Authorization <=> t.kind \in Authorization
           /\ Renamed(t).kind = "blank" <=> t.kind = "blank"
BY DEF Renamed, Token, Tok, Kinds, Hosts, Authorization

\* Renaming Host and nothing else changes no other line.
LEMMA OnlyRenamed ==
    ASSUME NEW s \in Seq(Token), NEW kinds, kinds \intersect Hosts = {}, ~ Has(s, "binary")
    PROVE  Only(Lines(s), kinds) = Only(s, kinds)
<1> DEFINE S == {u \in Seq(Token) :
                    ~ Has(u, "binary") => Only(Lines(u), kinds) = Only(u, kinds)}
<1>1. <<>> \in S
  <2>1. Lines(<<>>) = <<>>
      BY DEF Lines
  <2> QED BY <2>1
<1>2. ASSUME NEW u \in S, NEW x \in Token PROVE Append(u, x) \in S
  <2> SUFFICES ASSUME ~ Has(Append(u, x), "binary")
               PROVE  Only(Lines(Append(u, x)), kinds) = Only(Append(u, x), kinds)
      OBVIOUS
  <2>1. ~ Has(u, "binary") /\ x.kind # "binary"
    <3>1. u \in Seq(Token) /\ Len(Append(u, x)) = Len(u) + 1
          /\ \A i \in 1 .. Len(u) : Append(u, x)[i] = u[i]
          /\ Append(u, x)[Len(u) + 1] = x
        OBVIOUS
    <3>2. \A i \in 1 .. Len(u) + 1 : Append(u, x)[i].kind # "binary"
        BY <3>1 DEF Has
    <3> QED BY <3>1, <3>2 DEF Has
  <2>2. Lines(u) \in Seq(Token) /\ Renamed(x) \in Token
      BY RenamedIs DEF Lines
  <2>3. Lines(Append(u, x)) = Append(Lines(u), Renamed(x))
      BY <2>2 DEF Lines
  <2>4. Only(Lines(u), kinds) = Only(u, kinds)
      BY <2>1
  <2>5. CASE x.kind \in Hosts
    <3>1. x.kind \notin kinds /\ Renamed(x).kind \notin kinds
        BY <2>5, RenamedIs
    <3>2. Only(Append(Lines(u), Renamed(x)), kinds) = Only(Lines(u), kinds)
        BY <2>2, <3>1, OnlyAppend
    <3>3. Only(Append(u, x), kinds) = Only(u, kinds)
        BY <3>1, OnlyAppend
    <3> QED BY <2>3, <2>4, <3>2, <3>3
  <2>6. CASE x.kind \notin Hosts
    <3>1. Renamed(x) = x
        BY <2>1, <2>6, RenamedIs
    <3>2. Only(Append(Lines(u), x), kinds) =
              IF x.kind \in kinds THEN Append(Only(u, kinds), x) ELSE Only(u, kinds)
        BY <2>2, <2>4, OnlyAppend
    <3>3. Only(Append(u, x), kinds) =
              IF x.kind \in kinds THEN Append(Only(u, kinds), x) ELSE Only(u, kinds)
        BY OnlyAppend
    <3> QED BY <2>3, <3>1, <3>2, <3>3
  <2> QED BY <2>5, <2>6
<1>3. S = Seq(Token)
  <2> HIDE DEF S
  <2>1. S \in SUBSET Seq(Token)
      BY DEF S
  <2> QED BY <1>1, <1>2, <2>1, SeqSets
<1> QED BY <1>3

-----------------------------------------------------------------------------
(* Beginnings of a stream *)

\* What First finds in the beginning of a stream it finds in the whole.
LEMMA FirstOfPrefix ==
    ASSUME NEW s \in Seq(Token), NEW m \in 0 .. Len(s), NEW kinds, NEW from \in Nat \ {0}
    PROVE  First(SubSeq(s, 1, m), kinds, from) =
               IF First(s, kinds, from) \in 1 .. m THEN First(s, kinds, from) ELSE 0
<1> DEFINE u == SubSeq(s, 1, m)
           p == First(s, kinds, from)
           q == First(u, kinds, from)
<1>1. u \in Seq(Token) /\ Len(u) = m /\ \A i \in 1 .. m : u[i] = s[i]
    OBVIOUS
<1>2. \/ p = 0 /\ \A i \in from .. Len(s) : s[i].kind \notin kinds
      \/ /\ p \in from .. Len(s) /\ s[p].kind \in kinds
         /\ \A i \in from .. p - 1 : s[i].kind \notin kinds
    BY FirstIs
<1> HIDE DEF u
<1>3. \/ q = 0 /\ \A i \in from .. m : u[i].kind \notin kinds
      \/ /\ q \in from .. m /\ u[q].kind \in kinds
         /\ \A i \in from .. q - 1 : u[i].kind \notin kinds
    BY <1>1, FirstIs
<1> HIDE DEF p, q
<1>4. q = IF p \in 1 .. m THEN p ELSE 0
  <2>1. CASE q = 0
      BY <1>1, <1>2, <1>3, <2>1
  <2>2. CASE q # 0
    <3>1. q \in from .. m /\ s[q].kind \in kinds
          /\ \A i \in from .. q - 1 : s[i].kind \notin kinds
      <4>1. q \in from .. m /\ u[q].kind \in kinds
            /\ \A i \in from .. q - 1 : u[i].kind \notin kinds
          BY <1>3, <2>2
      <4>2. ASSUME NEW i \in from .. q PROVE u[i] = s[i]
          BY <1>1, <4>1
      <4>3. ASSUME NEW i \in from .. q - 1 PROVE s[i].kind \notin kinds
          BY <4>1, <4>2
      <4> QED BY <4>1, <4>2, <4>3
    <3>2. p # 0
        BY <1>2, <3>1
    <3>3. p \in from .. Len(s) /\ ~ (p < q) /\ ~ (q < p)
        BY <1>2, <3>1, <3>2
    <3> QED BY <3>1, <3>3
  <2> QED BY <2>1, <2>2
<1> QED BY <1>4 DEF u, p, q

\* find_header_end returns the first empty line, or nothing if there is none.
LEMMA HeaderEndIs ==
    ASSUME NEW s \in Seq(Token)
    PROVE  /\ HeaderEnd(s) \in 0 .. Len(s)
           /\ HeaderEnd(s) # 0 => s[HeaderEnd(s)].kind = "blank"
           /\ HeaderEnd(s) = 0 <=> ~ Has(s, "blank")
           /\ \A i \in 1 .. Len(s) : s[i].kind = "blank" => HeaderEnd(s) <= i
           /\ HeadersOf(s) \in Seq(Token) /\ Len(HeadersOf(s)) = HeaderEnd(s)
<1>1. \/ HeaderEnd(s) = 0 /\ \A i \in 1 .. Len(s) : s[i].kind \notin {"blank"}
      \/ /\ HeaderEnd(s) \in 1 .. Len(s) /\ s[HeaderEnd(s)].kind \in {"blank"}
         /\ \A i \in 1 .. HeaderEnd(s) - 1 : s[i].kind \notin {"blank"}
    BY FirstIs DEF HeaderEnd
<1> QED BY <1>1 DEF HeadersOf, Has

\* An upstream that has got nothing has answered nothing.
LEMMA RequestsOfNothing == Requests(<<>>) = <<>>
<1> DEFINE Step(f, i) == LET n == RequestLength(SubSeq(<<>>, i + 1, Len(<<>>)))
                         IN  IF n = 0 THEN <<>>
                             ELSE <<SubSeq(<<>>, i + 1, i + n)>> \o f[i + n]
           after == CHOOSE f : f = [i \in 0 .. Len(<<>>) |-> Step(f, i)]
<1>1. Requests(<<>>) = after[0]
    BY DEF Requests
<1>2. RequestLength(<<>>) = 0
  <2>1. \A s \in Seq(Token) : Len(s) = 0 => HeaderEnd(s) = 0
    <3> SUFFICES ASSUME NEW s \in Seq(Token), Len(s) = 0 PROVE HeaderEnd(s) = 0
        OBVIOUS
    <3>1. HeaderEnd(s) \in 0 .. Len(s)
        BY HeaderEndIs
    <3> QED BY <3>1
  <2>2. <<>> \in Seq(Token) /\ Len(<<>>) = 0
      OBVIOUS
  <2>3. HeaderEnd(<<>>) = 0
      BY <2>1, <2>2
  <2> QED BY <2>3 DEF RequestLength
<1>3. SubSeq(<<>>, 0 + 1, Len(<<>>)) = <<>> /\ 0 .. Len(<<>>) = {0}
    OBVIOUS
<1>4. \A f : Step(f, 0) = <<>>
    BY <1>2, <1>3
<1>5. \A f : [i \in 0 .. Len(<<>>) |-> Step(f, i)] = [i \in {0} |-> <<>>]
  <2> HIDE DEF Step
  <2> QED BY <1>3, <1>4
<1>6. after = [i \in {0} |-> <<>>]
  <2> HIDE DEF Step
  <2> QED BY <1>5
<1> HIDE DEF after
<1> QED BY <1>1, <1>6

\* Headers that are all there are those of the whole stream.
LEMMA HeadersOfPrefix ==
    ASSUME NEW s \in Seq(Token), NEW m \in 0 .. Len(s)
    PROVE  LET u == SubSeq(s, 1, m) IN
           /\ HeaderEnd(u) = IF HeaderEnd(s) \in 1 .. m THEN HeaderEnd(s) ELSE 0
           /\ HeaderEnd(u) # 0 => HeadersOf(u) = HeadersOf(s)
<1> DEFINE u == SubSeq(s, 1, m)
<1>1. HeaderEnd(u) = IF HeaderEnd(s) \in 1 .. m THEN HeaderEnd(s) ELSE 0
    BY FirstOfPrefix DEF HeaderEnd
<1>2. HeaderEnd(s) \in 1 .. m => SubSeq(u, 1, HeaderEnd(s)) = SubSeq(s, 1, HeaderEnd(s))
    OBVIOUS
<1> QED BY <1>1, <1>2 DEF HeadersOf

\* The beginnings of a stream, and what one of them has more than another.
LEMMA PrefixIs ==
    ASSUME NEW s \in Seq(Token), NEW m \in 0 .. Len(s), NEW n \in m .. Len(s)
    PROVE  /\ SubSeq(s, 1, m) \in Seq(Token) /\ Len(SubSeq(s, 1, m)) = m
           /\ SubSeq(SubSeq(s, 1, n), 1, m) = SubSeq(s, 1, m)
           /\ SubSeq(s, 1, m) \o SubSeq(s, m + 1, n) = SubSeq(s, 1, n)
<1>1. SubSeq(s, 1, m) \in Seq(Token) /\ Len(SubSeq(s, 1, m)) = m
    OBVIOUS
<1>2. SubSeq(SubSeq(s, 1, n), 1, m) = SubSeq(s, 1, m)
    OBVIOUS
<1>3. SubSeq(s, 1, m) \o SubSeq(s, m + 1, n) = SubSeq(s, 1, n)
    BY ConcatAdjacentSubSeq
<1> QED BY <1>1, <1>2, <1>3

\* What every client's stream is like.
LEMMA Streams ==
    ASSUME conversation \in Conversations
    PROVE  /\ Stream \in Seq(Token) /\ conversation.ends[1] \in 1 .. Len(Stream)
           /\ FirstRequest \in Seq(Token)
           /\ Stream[1].kind = "request" /\ HeaderEnd(Stream) # 0
           /\ HeaderEnd(FirstRequest) = HeaderEnd(Stream)
           /\ HeadersOf(FirstRequest) = HeadersOf(Stream)
<1> DEFINE ends == conversation.ends
<1>1. /\ Stream \in Seq(Token) /\ ends \in Seq(Nat) /\ Len(ends) \in Nat \ {0}
      /\ ends[Len(ends)] = Len(Stream)
      /\ \A j, k \in 1 .. Len(ends) : j < k => ends[j] < ends[k]
      /\ ends[1] > 0 /\ Stream[1].kind = "request"
      /\ \E i \in 1 .. ends[1] : Stream[i].kind = "blank"
    BY ConversationsAssumption DEF Stream
<1> HIDE DEF ends
<1>2. ends[1] \in 1 .. Len(Stream)
  <2>1. 1 \in 1 .. Len(ends) /\ Len(ends) \in 1 .. Len(ends) /\ ends[1] \in Nat
      BY <1>1
  <2>2. ASSUME NEW k \in 1 .. Len(ends), k # 1 PROVE ends[1] < ends[k]
    <3>1. 1 < k
        BY <2>2
    <3> QED BY <1>1, <2>1, <3>1
  <2> QED BY <1>1, <2>1, <2>2
<1>3. FirstRequest = SubSeq(Stream, 1, ends[1])
    BY DEF FirstRequest, ends
<1>4. FirstRequest \in Seq(Token)
    BY <1>1, <1>2, <1>3
<1>5. HeaderEnd(Stream) \in 1 .. ends[1]
  <2>1. PICK i \in 1 .. ends[1] : Stream[i].kind = "blank"
      BY <1>1
  <2>2. i \in 1 .. Len(Stream)
      BY <1>2
  <2>3. HeaderEnd(Stream) # 0 /\ HeaderEnd(Stream) <= i
      BY <1>1, <2>1, <2>2, HeaderEndIs DEF Has
  <2> QED BY <1>1, <1>2, <2>3, HeaderEndIs
<1>6. HeaderEnd(FirstRequest) = HeaderEnd(Stream)
      /\ HeadersOf(FirstRequest) = HeadersOf(Stream)
    BY <1>1, <1>2, <1>3, <1>5, HeadersOfPrefix
<1> QED BY <1>1, <1>2, <1>4, <1>5, <1>6 DEF ends

-----------------------------------------------------------------------------
(* Lengths, keys and rewrite_request *)

\* A whole request has its headers and lies within the stream.
LEMMA RequestLengthIs ==
    ASSUME NEW s \in Seq(Token)
    PROVE  /\ RequestLength(s) \in 0 .. Len(s)
           /\ RequestLength(s) # 0 => HeaderEnd(s) # 0 /\ HeaderEnd(s) <= RequestLength(s)
<1> DEFINE end == First(s, {"last", "trailers"}, HeaderEnd(s) + 1)
<1>1. HeaderEnd(s) \in 0 .. Len(s) /\ ContentLength(s) \in Nat
    BY HeaderEndIs, ContentLengthIs
<1>2. end = 0 \/ end \in HeaderEnd(s) + 1 .. Len(s)
  <2>1. HeaderEnd(s) + 1 \in Nat \ {0}
      BY <1>1
  <2> QED BY <2>1, FirstIs
<1> HIDE DEF end
<1>3. CASE HeaderEnd(s) = 0
    BY <1>1, <1>3 DEF RequestLength
<1>4. CASE HeaderEnd(s) # 0 /\ IsChunked(s)
  <2>1. RequestLength(s) = end
      BY <1>4 DEF RequestLength, end
  <2> QED BY <1>1, <1>2, <1>4, <2>1
<1>5. CASE HeaderEnd(s) # 0 /\ ~ IsChunked(s)
  <2>1. RequestLength(s) = IF Complete(s) THEN HeaderEnd(s) + ContentLength(s) ELSE 0
      BY <1>5 DEF RequestLength
  <2> QED BY <1>1, <1>5, <2>1 DEF Complete
<1> QED BY <1>3, <1>4, <1>5

\* The first placeholder of a stream is that of any beginning that has it.
LEMMA NamedKeyOfPrefix ==
    ASSUME NEW s \in Seq(Token), NEW m \in 0 .. Len(s), First(s, {"bearer"}, 1) \in 1 .. m
    PROVE  NamedKey(SubSeq(s, 1, m)) = NamedKey(s)
<1>1. First(SubSeq(s, 1, m), {"bearer"}, 1) = First(s, {"bearer"}, 1)
    BY FirstOfPrefix
<1>2. \A i \in 1 .. m : SubSeq(s, 1, m)[i] = s[i]
    OBVIOUS
<1> QED BY <1>1, <1>2 DEF NamedKey

\* The line that carries a key is a token and a credential.
LEMMA BearerIs ==
    ASSUME NEW key \in Keys
    PROVE  Bearer(key) \in Token /\ Bearer(key).kind \in Authorization
BY DEF Bearer, Token, Authorization

\* What stripping leaves of a request: its first line, its empty line, no credential.
LEMMA StripIs ==
    ASSUME NEW s \in Seq(Token), Len(s) > 0, s[1].kind = "request", HeaderEnd(s) # 0
    PROVE  /\ Strip(s) \in Seq(Token) /\ Len(Strip(s)) > 0
           /\ \A i \in 1 .. Len(Strip(s)) : Strip(s)[i].kind \notin Authorization
           /\ Strip(s)[1] = s[1]
           /\ Has(Strip(s), "blank")
           /\ Has(Strip(s), "binary") => Has(s, "binary")
<1> DEFINE Kept == Kinds \ Authorization
           rest == SubSeq(s, 2, Len(s))
<1>1. Strip(s) = Only(s, Kept) /\ {"request", "blank", "binary"} \subseteq Kept
    BY DEF Strip, Kinds, Authorization
<1>2. \A i \in 1 .. Len(Strip(s)) : Strip(s)[i].kind \notin Authorization
    BY <1>1, OnlyType
<1> HIDE DEF Kept
<1>3. Strip(s) \in Seq(Token)
    BY <1>1, OnlyType
<1>4. Strip(s) = <<s[1]>> \o Only(rest, Kept)
  <2>1. s[1] \in Token /\ <<s[1]>> \in Seq(Token) /\ rest \in Seq(Token)
      OBVIOUS
  <2>2. s = <<s[1]>> \o rest
    <3>1. Len(s) \in Nat /\ 1 \in 1 .. Len(s) /\ Len(s) \in 1 .. Len(s)
        OBVIOUS
    <3> QED BY <3>1, SubSeqRecursiveFirst, SubSeqFull
  <2>3. Only(<<s[1]>>, Kept) = <<s[1]>>
      BY <1>1, <2>1, OnlyOne
  <2> HIDE DEF rest
  <2>4. Only(<<s[1]>> \o rest, Kept) = Only(<<s[1]>>, Kept) \o Only(rest, Kept)
    <3> DEFINE one == <<s[1]>>
    <3>1. one \in Seq(Token) /\ rest \in Seq(Token)
        BY <2>1
    <3> HIDE DEF one
    <3>2. Only(one \o rest, Kept) = Only(one, Kept) \o Only(rest, Kept)
        BY <3>1, OnlyConcat
    <3> QED BY <3>2 DEF one
  <2> QED BY <1>1, <2>2, <2>3, <2>4
<1>5. Len(Strip(s)) > 0 /\ Strip(s)[1] = s[1]
  <2>1. rest \in Seq(Token) /\ s[1] \in Token
      OBVIOUS
  <2> HIDE DEF rest
  <2>2. Only(rest, Kept) \in Seq(Token)
      BY <2>1, OnlyType
  <2> QED BY <1>4, <2>1, <2>2
<1>6. Has(Strip(s), "blank")
    BY <1>1, HeaderEndIs, OnlyHas
<1>7. ASSUME Has(Strip(s), "binary"), ~ Has(s, "binary") PROVE FALSE
  <2>1. Only(Strip(s), {"binary"}) = Only(s, {"binary"})
      BY <1>1, OnlyTwice
  <2>2. Only(s, {"binary"}) = <<>>
      BY <1>7, OnlyNone DEF Has
  <2>3. Has(Only(Strip(s), {"binary"}), "binary")
      BY <1>3, <1>7, OnlyHas
  <2> QED BY <2>1, <2>2, <2>3 DEF Has
<1> QED BY <1>2, <1>3, <1>5, <1>6, <1>7

\* The request line, the real key, and all the rest without a credential.
LEMMA RewrittenIs ==
    ASSUME NEW s \in Seq(Token), Len(s) > 0, s[1].kind = "request", HeaderEnd(s) # 0,
           NamedKey(s) \in DOMAIN KeyMap
    PROVE  LET r == Rewritten(s)
               k == Bearer(KeyMap[NamedKey(s)])
           IN  /\ r \in Seq(Token) /\ Len(r) >= 2
               /\ r[1].kind = "request" /\ r[2] = k
               /\ \A i \in 1 .. Len(r) : i # 2 => r[i].kind \notin Authorization
               /\ HeaderEnd(r) # 0
               /\ ~ Has(s, "binary") => Others(r) = Others(s)
<1> DEFINE kept  == Strip(s)
           lines == Lines(kept)
           r == Rewritten(s)
           k == Bearer(KeyMap[NamedKey(s)])
           top  == SubSeq(lines, 1, 1)
           rest == SubSeq(lines, 2, Len(lines))
<1>1. k \in Token /\ k.kind \in Authorization
    BY KeysAssumption, BearerIs
<1>2. /\ kept \in Seq(Token) /\ Len(kept) > 0
      /\ \A i \in 1 .. Len(kept) : kept[i].kind \notin Authorization
      /\ kept[1] = s[1]
      /\ Has(kept, "blank")
      /\ Has(kept, "binary") => Has(s, "binary")
    BY StripIs
<1>3. r = top \o <<k>> \o rest
    BY DEF Rewritten, InsertAt, Lines
<1> HIDE DEF kept, k, r
<1>4. /\ lines \in Seq(Token) /\ Len(lines) = Len(kept)
      /\ \A i \in 1 .. Len(kept) : lines[i] = Renamed(kept[i])
    BY <1>2, RenamedIs DEF Lines
<1>5. \A i \in 1 .. Len(lines) : lines[i].kind \notin Authorization
    BY <1>2, <1>4, RenamedIs
<1>6. lines[1].kind = "request"
  <2>1. kept[1] \in Token /\ kept[1].kind \notin Hosts \union {"binary"}
      BY <1>2 DEF Hosts
  <2> QED BY <1>2, <1>4, <2>1, RenamedIs
<1>7. \E i \in 1 .. Len(lines) : lines[i].kind = "blank"
    BY <1>2, <1>4, RenamedIs DEF Has
<1>8. Has(s, "binary") \/ Others(lines) = Others(s)
  <2> DEFINE Kept == Kinds \ (Authorization \union Hosts)
  <2>1. Kept \subseteq Kinds \ Authorization /\ Kept \intersect Hosts = {}
      OBVIOUS
  <2> HIDE DEF Kept
  <2>2. Only(kept, Kept) = Only(s, Kept)
      BY <2>1, OnlyTwice DEF kept, Strip
  <2>3. ~ Has(s, "binary") => Only(lines, Kept) = Only(kept, Kept)
      BY <1>2, <2>1, OnlyRenamed
  <2> QED BY <2>2, <2>3 DEF Others, Kept
<1> HIDE DEF lines
<1>9. /\ r \in Seq(Token) /\ Len(r) = Len(lines) + 1
      /\ r[1] = lines[1] /\ r[2] = k
      /\ \A i \in 3 .. Len(r) : r[i] = lines[i - 1]
    BY <1>1, <1>2, <1>3, <1>4
<1>10. \A i \in 1 .. Len(r) : i # 2 => r[i].kind \notin Authorization
  <2> TAKE i \in 1 .. Len(r)
  <2>1. CASE i = 1
      BY <1>2, <1>4, <1>5, <1>9, <2>1
  <2>2. CASE i \in 3 .. Len(r)
    <3>1. i - 1 \in 1 .. Len(lines) /\ r[i] = lines[i - 1]
        BY <1>4, <1>9, <2>2
    <3> QED BY <1>5, <3>1
  <2> QED BY <1>4, <1>9, <2>1, <2>2
<1>11. HeaderEnd(r) # 0
  <2>1. PICK i \in 1 .. Len(lines) : lines[i].kind = "blank"
      BY <1>7
  <2>2. i # 1 /\ i + 1 \in 3 .. Len(r) /\ (i + 1) - 1 = i
      BY <1>4, <1>6, <1>9, <2>1
  <2>3. r[i + 1].kind = "blank"
      BY <1>9, <2>1, <2>2
  <2> QED BY <1>9, <2>2, <2>3, HeaderEndIs DEF Has
<1>12. Others(r) = Others(lines)
  <2> DEFINE Kept == Kinds \ (Authorization \union Hosts)
  <2>1. k.kind \notin Kept
      BY <1>1
  <2> HIDE DEF Kept
  <2>2. top \in Seq(Token) /\ rest \in Seq(Token) /\ <<k>> \in Seq(Token)
        /\ top \o <<k>> \in Seq(Token) /\ lines = top \o rest
    <3>1. lines = top \o rest
        BY <1>2, <1>4, ConcatAdjacentSubSeq, SubSeqFull
    <3> QED BY <1>1, <1>2, <1>4, <3>1
  <2> HIDE DEF top, rest
  <2>3. Only(<<k>>, Kept) = <<>>
      BY <1>1, <2>1, OnlyOne
  <2>4. Only(r, Kept) = Only(top, Kept) \o <<>> \o Only(rest, Kept)
    <3>1. Only(r, Kept) = Only(top \o <<k>>, Kept) \o Only(rest, Kept)
      <4> DEFINE begin == top \o <<k>>
      <4>1. begin \in Seq(Token) /\ rest \in Seq(Token)
          BY <2>2
      <4> HIDE DEF begin
      <4>2. Only(begin \o rest, Kept) = Only(begin, Kept) \o Only(rest, Kept)
          BY <4>1, OnlyConcat
      <4> QED BY <1>3, <4>2 DEF begin
    <3>2. Only(top \o <<k>>, Kept) = Only(top, Kept) \o Only(<<k>>, Kept)
      <4> DEFINE one == <<k>>
      <4>1. top \in Seq(Token) /\ one \in Seq(Token)
          BY <2>2
      <4> HIDE DEF one
      <4>2. Only(top \o one, Kept) = Only(top, Kept) \o Only(one, Kept)
          BY <4>1, OnlyConcat
      <4> QED BY <4>2 DEF one
    <3> QED BY <2>3, <3>1, <3>2
  <2>5. Only(lines, Kept) = Only(top, Kept) \o Only(rest, Kept)
      BY <2>2, OnlyConcat
  <2>6. Only(top, Kept) \o <<>> = Only(top, Kept)
      BY <2>2, OnlyType, ConcatEmptySeq
  <2> QED BY <2>4, <2>5, <2>6 DEF Others, Kept
<1> QED BY <1>4, <1>2, <1>6, <1>8, <1>9, <1>10, <1>11, <1>12 DEF r, k
-----------------------------------------------------------------------------
(* The inductive invariant *)

\* What the proxy has in hand is what the stream begins with; while it still
\* reads, it has all that it has read.
BufIsPrefix ==
    /\ buf = SubSeq(Stream, 1, Len(buf))
    /\ Reading => Len(buf) = read

\* A request is decided upon, and its body read, only after its headers.
HeadersAreRead ==
    /\ phase \in {"chunked", "length", "decide", "copy"} => HeaderEnd(buf) # 0
    /\ phase = "chunked" => IsChunked(buf)

\* Before anything is answered, a client that waits has sent nothing of a
\* second request.
SentInTurn ==
    Reading \/ phase = "decide" =>
        /\ out = <<>>
        /\ conversation.waits # "no" => Begun(sent) \subseteq {1}

\* Nothing was read that the request in hand does not have.
NothingCutOff ==
    phase = "decide" /\ ~ PatternInBody /\ ~ FollowedAtOnce => Len(buf) = read

\* What the upstream has begins with the rewritten request.
BeginsRewritten ==
    phase = "copy" /\ ~ IsWebsocketUpgrade(buf) =>
        /\ NamedKey(buf) \in DOMAIN KeyMap
        /\ Len(Rewritten(buf)) <= Len(out)
        /\ Rewritten(buf) = SubSeq(out, 1, Len(Rewritten(buf)))

IInv ==
    /\ TypeOK /\ BufIsPrefix /\ HeadersAreRead /\ SentInTurn /\ NothingCutOff
    /\ PassedOnWhole /\ BeginsRewritten

\* Only a chunk that looks like the last, or a request sent on before the answer,
\* has the proxy cut something off: otherwise what it takes for the end of
\* the body is the last that it has read.
LEMMA TerminatorIsLast ==
    ASSUME conversation \in Conversations, NEW m \in 1 .. Len(Stream), m <= sent, sent \in Nat,
           HeaderEnd(SubSeq(Stream, 1, m)) # 0, IsChunked(SubSeq(Stream, 1, m)),
           Terminator(SubSeq(Stream, 1, m)) # 0,
           conversation.waits # "no" => Begun(sent) \subseteq {1},
           ~ PatternInBody, ~ FollowedAtOnce
    PROVE  Terminator(SubSeq(Stream, 1, m)) = m
<1> DEFINE s == SubSeq(Stream, 1, m)
           T == Terminator(s)
           ends == conversation.ends
<1>1. /\ Stream \in Seq(Token)
      /\ s \in Seq(Token) /\ Len(s) = m /\ \A i \in 1 .. m : s[i] = Stream[i]
      /\ HeadersOf(s) = HeadersOf(FirstRequest)
    BY Streams, HeadersOfPrefix
<1> HIDE DEF s
<1>2. T \in 1 .. m /\ s[T].kind \in {"last", "zero"}
  <2>1. HeaderEnd(s) + 1 \in Nat \ {0}
      BY <1>1, HeaderEndIs
  <2> DEFINE from == HeaderEnd(s) + 1
  <2>2. T = First(s, {"last", "zero"}, from) /\ T # 0
      BY DEF Terminator, s
  <2> HIDE DEF T, from
  <2>3. from \in Nat \ {0}
      BY <2>1 DEF from
  <2>4. T \in from .. Len(s) /\ s[T].kind \in {"last", "zero"}
      BY <1>1, <2>2, <2>3, FirstIs
  <2> QED BY <1>1, <2>3, <2>4
<1> HIDE DEF T
<1>3. Stream[T].kind = "last" /\ T \in DOMAIN Stream
    BY <1>1, <1>2 DEF PatternInBody, Has
<1>4. PICK k \in DOMAIN ends : T = ends[k]
    BY <1>3, ConversationsAssumption DEF Stream
<1>5. /\ ends \in Seq(Nat) /\ Len(ends) \in Nat
      /\ ends[Len(ends)] = Len(Stream)
    BY ConversationsAssumption DEF Stream
<1> SUFFICES ASSUME T < m PROVE FALSE
    BY <1>2 DEF T, s
<1>6. k \in 1 .. Len(ends) /\ k # Len(ends)
    BY <1>1, <1>2, <1>4, <1>5
<1>7. k + 1 \in 1 .. Len(ends) /\ k + 1 # 1 /\ Len(ends) > 1
    BY <1>5, <1>6
<1>8. k + 1 \in Begun(sent)
  <2>1. ends[(k + 1) - 1] < sent
      BY <1>2, <1>4, <1>6
  <2> QED BY <1>5, <1>7, <2>1 DEF Begun
<1>9. conversation.waits = "no"
    BY <1>7, <1>8
<1>10. IsChunked(FirstRequest)
    BY <1>1 DEF IsChunked, s
<1> QED BY <1>7, <1>9, <1>10 DEF FollowedAtOnce

-----------------------------------------------------------------------------
(* The steps of the proxy and of the client *)

\* What is said of a conversation stays while it does.
LEMMA SameConversation ==
    ASSUME UNCHANGED conversation
    PROVE  /\ Stream' = Stream /\ FirstRequest' = FirstRequest
           /\ PatternInBody' = PatternInBody /\ FollowedAtOnce' = FollowedAtOnce
           /\ sent' = sent => Begun(sent)' = Begun(sent)
BY DEF Stream, FirstRequest, PatternInBody, FollowedAtOnce, Begun

\* A tunnel begins with nothing read.
LEMMA InitIInv == Init => IInv
<1> SUFFICES ASSUME Init PROVE IInv
    OBVIOUS
<1> USE DEF Init
<1>1. Stream \in Seq(Token) /\ Len(Stream) \in Nat
    BY Streams
<1>2. buf \in Seq(Token) /\ Len(buf) = 0 /\ out \in Seq(Token) /\ out = <<>>
    OBVIOUS
<1>3. TypeOK
  <2>1. sent \in 0 .. Len(Stream) /\ read \in 0 .. sent /\ Len(buf) <= read
      BY <1>1, <1>2
  <2>2. ended \in BOOLEAN /\ impatient \in BOOLEAN /\ phase \in Phases
        /\ conversation \in Conversations
      BY DEF Phases
  <2> QED BY <1>2, <2>1, <2>2 DEF TypeOK
<1>4. BufIsPrefix
    BY <1>1, <1>2 DEF BufIsPrefix
<1>5. SentInTurn
  <2>1. conversation.ends \in Seq(Nat)
      BY ConversationsAssumption
  <2>2. \A k \in DOMAIN conversation.ends : k # 1 => ~ (conversation.ends[k - 1] < 0)
      BY <2>1
  <2> QED BY <1>2, <2>2 DEF SentInTurn, Begun
<1>6. HeadersAreRead /\ NothingCutOff /\ PassedOnWhole /\ BeginsRewritten
    BY DEF HeadersAreRead, NothingCutOff, PassedOnWhole, BeginsRewritten
<1> QED BY <1>3, <1>4, <1>5, <1>6 DEF IInv

\* The read that appends what has arrived.
LEMMA Arrived ==
    ASSUME TypeOK, BufIsPrefix, Reading, NEW n \in Nat \ {0}, read + n <= sent
    PROVE  /\ read + n \in 1 .. Len(Stream)
           /\ buf \o Arriving(n) = SubSeq(Stream, 1, read + n)
<1>1. Stream \in Seq(Token) /\ read \in 0 .. Len(Stream) /\ read + n \in read .. Len(Stream)
    BY Streams DEF TypeOK
<1>2. buf = SubSeq(Stream, 1, read)
    BY DEF BufIsPrefix
<1> QED BY <1>1, <1>2, PrefixIs DEF Arriving

\* Any step of read_http_request that keeps the first l of the m tokens read.
LEMMA TakenStep ==
    ASSUME IInv, Reading, UNCHANGED <<client, out>>,
           NEW m \in 0 .. sent, read' = m, NEW l \in 0 .. m,
           buf' = SubSeq(Stream, 1, l),
           phase' \in {"headers", "chunked", "length", "decide", "failed"},
           phase' \in {"headers", "chunked", "length"} => l = m,
           phase' \in {"chunked", "length", "decide"} => HeaderEnd(buf') # 0,
           phase' = "chunked" => IsChunked(buf'),
           phase' = "decide" /\ ~ PatternInBody /\ ~ FollowedAtOnce => l = m
    PROVE  IInv'
<1>1. /\ UNCHANGED <<conversation, sent, out>>
      /\ Stream' = Stream /\ FirstRequest' = FirstRequest
      /\ PatternInBody' = PatternInBody /\ FollowedAtOnce' = FollowedAtOnce
      /\ Begun(sent)' = Begun(sent)
    BY SameConversation DEF client
<1>2. /\ Stream \in Seq(Token) /\ l \in 0 .. Len(Stream)
      /\ buf' \in Seq(Token) /\ Len(buf') = l
    BY Streams, PrefixIs DEF IInv, TypeOK
<1>3. TypeOK'
    BY <1>1, <1>2 DEF IInv, TypeOK, Phases, client
<1>4. BufIsPrefix'
    BY <1>1, <1>2 DEF BufIsPrefix, Reading
<1>5. HeadersAreRead'
    BY DEF HeadersAreRead
<1>6. SentInTurn'
    BY <1>1 DEF IInv, SentInTurn, Reading
<1>7. NothingCutOff'
    BY <1>1, <1>2 DEF NothingCutOff
<1>8. PassedOnWhole' /\ BeginsRewritten'
    BY DEF PassedOnWhole, BeginsRewritten
<1> QED BY <1>3, <1>4, <1>5, <1>6, <1>7, <1>8 DEF IInv

\* A scan for the last chunk leaves all that was read, or cuts after the chunk.
LEMMA ScanChunksStep ==
    ASSUME IInv, Reading, UNCHANGED <<client, out>>,
           NEW m \in 1 .. Len(Stream), m <= sent, read' = m,
           HeaderEnd(SubSeq(Stream, 1, m)) # 0, IsChunked(SubSeq(Stream, 1, m)),
           ScanChunks(SubSeq(Stream, 1, m))
    PROVE  IInv'
<1> DEFINE s == SubSeq(Stream, 1, m)
           T == Terminator(s)
<1>1. /\ Stream \in Seq(Token) /\ sent \in Nat /\ m \in 0 .. sent /\ m \in 0 .. m
      /\ s \in Seq(Token) /\ Len(s) = m /\ conversation \in Conversations
    BY Streams, PrefixIs DEF IInv, TypeOK
<1>2. HeaderEnd(s) \in 1 .. m
  <2>1. HeaderEnd(s) # 0
      OBVIOUS
  <2> HIDE DEF s
  <2> QED BY <1>1, <2>1, HeaderEndIs
<1>3. CASE T = 0
  <2>1. buf' = s /\ phase' = "chunked"
      BY <1>3 DEF ScanChunks, Becomes
  <2> QED BY <1>1, <2>1, TakenStep
<1>4. CASE T # 0
  <2>1. buf' = SubSeq(s, 1, T) /\ phase' = "decide"
      BY <1>4 DEF ScanChunks, Becomes
  <2>2. T \in HeaderEnd(s) .. m
    <3> DEFINE from == HeaderEnd(s) + 1
    <3> HIDE DEF s
    <3>1. from \in Nat \ {0} /\ HeaderEnd(s) \in Nat
        BY <1>2
    <3>2. T = First(s, {"last", "zero"}, from)
        BY DEF Terminator
    <3> HIDE DEF T
    <3>3. T \in from .. m
      <4> HIDE DEF from
      <4> QED BY <1>1, <1>4, <3>1, <3>2, FirstIs
    <3> QED BY <3>1, <3>3
  <2>3. T \in 0 .. m
      BY <1>2, <2>2
  <2>4. buf' = SubSeq(Stream, 1, T)
      BY <1>1, <2>1, <2>3, PrefixIs
  <2>5. HeaderEnd(buf') # 0
    <3> HIDE DEF s, T
    <3>1. HeaderEnd(SubSeq(s, 1, T)) =
              IF HeaderEnd(s) \in 1 .. T THEN HeaderEnd(s) ELSE 0
        BY <1>1, <2>3, HeadersOfPrefix
    <3> QED BY <1>2, <2>1, <2>2, <3>1
  <2>6. ~ PatternInBody /\ ~ FollowedAtOnce => T = m
    <3>1. conversation.waits # "no" => Begun(sent) \subseteq {1}
        BY DEF IInv, SentInTurn
    <3> QED BY <1>1, <1>4, <3>1, TerminatorIsLast
  <2> HIDE DEF T
  <2> QED BY <1>1, <2>1, <2>3, <2>4, <2>5, <2>6, TakenStep
<1> QED BY <1>3, <1>4

\* A read up to the Content-Length leaves all that was read.
LEMMA ScanLengthStep ==
    ASSUME IInv, Reading, UNCHANGED <<client, out>>,
           NEW m \in 1 .. Len(Stream), m <= sent, read' = m,
           HeaderEnd(SubSeq(Stream, 1, m)) # 0,
           ScanLength(SubSeq(Stream, 1, m))
    PROVE  IInv'
<1>1. m \in 0 .. sent /\ m \in 0 .. m
    BY DEF IInv, TypeOK
<1>2. buf' = SubSeq(Stream, 1, m) /\ phase' \in {"decide", "length"}
    BY DEF ScanLength, Becomes
<1> QED BY <1>1, <1>2, TakenStep

\* A read in search of the end of the headers, with all that follows from finding it.
LEMMA ReadHeadersStep == IInv /\ ReadHeaders => IInv'
<1> SUFFICES ASSUME IInv, ReadHeaders PROVE IInv'
    OBVIOUS
<1>1. Reading
    BY DEF ReadHeaders, Reading
<1>2. PICK n \in 1 .. ReadSize :
         /\ read + n <= sent /\ ScanHeaders(buf \o Arriving(n)) /\ read' = read + n
    BY DEF ReadHeaders, Read
<1>3. UNCHANGED <<client, out>>
    BY DEF ReadHeaders, Read
<1> DEFINE m == read + n
           s == SubSeq(Stream, 1, m)
<1>4. m \in 1 .. Len(Stream) /\ buf \o Arriving(n) = s
    BY <1>1, <1>2, ReadSizeAssumption, Arrived DEF IInv
<1>5. m \in 0 .. sent /\ m \in 0 .. m /\ m <= sent /\ read' = m
    BY <1>2, <1>4 DEF IInv, TypeOK
<1>6. ScanHeaders(s)
    BY <1>2, <1>4
<1> HIDE DEF m
<1>7. CASE HeaderEnd(s) = 0
  <2>1. buf' = s /\ phase' = "headers"
      BY <1>6, <1>7 DEF ScanHeaders, Becomes
  <2> QED BY <1>1, <1>3, <1>5, <2>1, TakenStep
<1>8. CASE HeaderEnd(s) # 0 /\ Malformed(s)
  <2>1. buf' = s /\ phase' = "failed"
      BY <1>6, <1>8 DEF ScanHeaders, Becomes
  <2> QED BY <1>1, <1>3, <1>5, <2>1, TakenStep
<1>9. CASE HeaderEnd(s) # 0 /\ ~ Malformed(s) /\ IsChunked(s)
  <2>1. ScanChunks(s)
      BY <1>6, <1>9 DEF ScanHeaders
  <2> QED BY <1>1, <1>3, <1>4, <1>5, <1>9, <2>1, ScanChunksStep
<1>10. CASE HeaderEnd(s) # 0 /\ ~ Malformed(s) /\ ~ IsChunked(s)
  <2>1. ScanLength(s)
      BY <1>6, <1>10 DEF ScanHeaders
  <2> QED BY <1>1, <1>3, <1>4, <1>5, <1>10, <2>1, ScanLengthStep
<1> QED BY <1>7, <1>8, <1>9, <1>10

\* The headers are still those of the first read that had them all.
LEMMA HeadersStay ==
    ASSUME TypeOK, BufIsPrefix, HeaderEnd(buf) # 0, NEW m \in Len(buf) .. Len(Stream)
    PROVE  /\ HeaderEnd(SubSeq(Stream, 1, m)) # 0
           /\ HeadersOf(SubSeq(Stream, 1, m)) = HeadersOf(buf)
<1> DEFINE u == SubSeq(Stream, 1, m)
           l == Len(buf)
<1>1. u \in Seq(Token) /\ Len(u) = m /\ l \in 0 .. m /\ m \in l .. Len(Stream)
    BY Streams, PrefixIs DEF TypeOK
<1>2. buf = SubSeq(Stream, 1, l) /\ l \in 0 .. Len(Stream)
    BY <1>1 DEF BufIsPrefix
<1> HIDE DEF l
<1>3. buf = SubSeq(u, 1, l)
    BY <1>1, <1>2, Streams, PrefixIs DEF TypeOK
<1> HIDE DEF u
<1>4. /\ HeaderEnd(buf) = IF HeaderEnd(u) \in 1 .. l THEN HeaderEnd(u) ELSE 0
      /\ HeadersOf(buf) = HeadersOf(u)
    BY <1>1, <1>3, HeadersOfPrefix
<1> QED BY <1>4 DEF u

\* A read of a chunked body.
LEMMA ReadChunkedStep == IInv /\ ReadChunked => IInv'
<1> SUFFICES ASSUME IInv, ReadChunked PROVE IInv'
    OBVIOUS
<1>1. Reading /\ HeaderEnd(buf) # 0 /\ IsChunked(buf)
    BY DEF ReadChunked, Reading, IInv, HeadersAreRead
<1>2. PICK n \in 1 .. ReadSize :
         /\ read + n <= sent /\ ScanChunks(buf \o Arriving(n)) /\ read' = read + n
    BY DEF ReadChunked, Read
<1>3. UNCHANGED <<client, out>>
    BY DEF ReadChunked, Read
<1> DEFINE m == read + n
<1>4. m \in 1 .. Len(Stream) /\ buf \o Arriving(n) = SubSeq(Stream, 1, m)
    BY <1>1, <1>2, ReadSizeAssumption, Arrived DEF IInv
<1>5. m <= sent /\ read' = m /\ m \in Len(buf) .. Len(Stream)
    BY <1>1, <1>2, <1>4 DEF IInv, TypeOK, BufIsPrefix
<1>6. ScanChunks(SubSeq(Stream, 1, m))
    BY <1>2, <1>4
<1> HIDE DEF m
<1>7. HeaderEnd(SubSeq(Stream, 1, m)) # 0 /\ IsChunked(SubSeq(Stream, 1, m))
    BY <1>1, <1>5, HeadersStay DEF IInv, IsChunked
<1> QED BY <1>1, <1>3, <1>4, <1>5, <1>6, <1>7, ScanChunksStep

\* A read of a body of known length.
LEMMA ReadLengthStep == IInv /\ ReadLength => IInv'
<1> SUFFICES ASSUME IInv, ReadLength PROVE IInv'
    OBVIOUS
<1>1. Reading /\ HeaderEnd(buf) # 0
    BY DEF ReadLength, Reading, IInv, HeadersAreRead
<1>2. PICK n \in 1 .. Remaining(buf) :
         /\ read + n <= sent /\ ScanLength(buf \o Arriving(n)) /\ read' = read + n
    BY DEF ReadLength, Read
<1>3. UNCHANGED <<client, out>>
    BY DEF ReadLength, Read
<1> DEFINE m == read + n
<1>4. n \in Nat \ {0}
  <2>1. buf \in Seq(Token)
      BY DEF IInv, TypeOK
  <2>2. Remaining(buf) \in Int
      BY <2>1, HeaderEndIs, ContentLengthIs DEF Remaining
  <2> QED BY <2>2
<1>5. m \in 1 .. Len(Stream) /\ buf \o Arriving(n) = SubSeq(Stream, 1, m)
    BY <1>1, <1>2, <1>4, Arrived DEF IInv
<1>6. m <= sent /\ read' = m /\ m \in Len(buf) .. Len(Stream)
    BY <1>1, <1>2, <1>4, <1>5 DEF IInv, TypeOK, BufIsPrefix
<1>7. ScanLength(SubSeq(Stream, 1, m))
    BY <1>2, <1>5
<1> HIDE DEF m
<1>8. HeaderEnd(SubSeq(Stream, 1, m)) # 0
    BY <1>1, <1>6, HeadersStay DEF IInv
<1> QED BY <1>1, <1>3, <1>5, <1>6, <1>7, <1>8, ScanLengthStep

\* The end of the stream, in the headers or in the body.
LEMMA EndOfStreamStep == IInv /\ EndOfStream => IInv'
<1> SUFFICES ASSUME IInv, EndOfStream PROVE IInv'
    OBVIOUS
<1>1. Reading /\ UNCHANGED <<client, out>> /\ read' = read /\ buf' = buf
    BY DEF EndOfStream, Reading
<1>2. read \in 0 .. sent /\ read \in 0 .. read /\ buf = SubSeq(Stream, 1, read)
    BY <1>1 DEF IInv, TypeOK, BufIsPrefix
<1>3. phase' \in {"decide", "failed"} /\ (phase' = "decide" => HeaderEnd(buf') # 0)
    BY <1>1 DEF EndOfStream, IInv, HeadersAreRead
<1> QED BY <1>1, <1>2, <1>3, TakenStep

\* A request with its headers begins with the first line of the stream.
LEMMA BufBegins ==
    ASSUME IInv, HeaderEnd(buf) # 0
    PROVE  buf \in Seq(Token) /\ Len(buf) > 0 /\ buf[1].kind = "request"
<1>1. buf \in Seq(Token) /\ HeaderEnd(buf) \in 0 .. Len(buf)
    BY HeaderEndIs DEF IInv, TypeOK
<1>2. Stream \in Seq(Token) /\ Stream[1].kind = "request" /\ Len(buf) \in 0 .. Len(Stream)
    BY <1>1, Streams DEF IInv, TypeOK
<1> DEFINE l == Len(buf)
<1>3. buf = SubSeq(Stream, 1, l) /\ l \in 1 .. Len(Stream)
    BY <1>1, <1>2 DEF IInv, BufIsPrefix
<1> HIDE DEF l
<1>4. SubSeq(Stream, 1, l)[1] = Stream[1]
    BY <1>2, <1>3
<1> QED BY <1>1, <1>2, <1>3, <1>4 DEF l

\* Forwarding as it is, rewriting, or the 403.
LEMMA DecideStep == IInv /\ Decide => IInv'
<1> SUFFICES ASSUME IInv, Decide PROVE IInv'
    OBVIOUS
<1>1. /\ phase = "decide" /\ UNCHANGED <<client, read, buf>>
      /\ UNCHANGED <<conversation, sent, ended, impatient>>
      /\ HeaderEnd(buf) # 0 /\ phase' \in {"copy", "refused"}
    BY DEF Decide, Forward, Refuse, client, IInv, HeadersAreRead
<1>2. Stream' = Stream /\ PatternInBody' = PatternInBody /\ FollowedAtOnce' = FollowedAtOnce
    BY <1>1, SameConversation
<1>3. buf \in Seq(Token) /\ Len(buf) > 0 /\ buf[1].kind = "request"
    BY <1>1, BufBegins
<1>4. ~ PatternInBody /\ ~ FollowedAtOnce => buf = SubSeq(Stream, 1, read)
    BY <1>1 DEF IInv, NothingCutOff, BufIsPrefix
<1>5. BufIsPrefix' /\ HeadersAreRead' /\ SentInTurn' /\ NothingCutOff'
  <2>1. BufIsPrefix'
      BY <1>1, <1>2 DEF IInv, BufIsPrefix, Reading
  <2>2. HeadersAreRead' /\ SentInTurn' /\ NothingCutOff'
      BY <1>1 DEF HeadersAreRead, SentInTurn, Reading, NothingCutOff
  <2> QED BY <2>1, <2>2
<1>6. out' \in Seq(Token) => TypeOK'
    BY <1>1, <1>2 DEF IInv, TypeOK, Phases
<1>7. CASE IsWebsocketUpgrade(buf)
  <2>1. out' = buf /\ phase' = "copy"
      BY <1>7 DEF Decide, Forward
  <2>2. PassedOnWhole'
      BY <1>1, <1>2, <1>4, <2>1 DEF PassedOnWhole
  <2>3. BeginsRewritten'
      BY <1>1, <1>7 DEF BeginsRewritten
  <2> QED BY <1>3, <1>5, <1>6, <2>1, <2>2, <2>3 DEF IInv
<1>8. CASE ~ IsWebsocketUpgrade(buf) /\ NamedKey(buf) \in DOMAIN KeyMap
  <2> DEFINE r == Rewritten(buf)
  <2>1. out' = r /\ phase' = "copy"
      BY <1>8 DEF Decide, Forward
  <2>2. r \in Seq(Token) /\ (~ Has(buf, "binary") => Others(r) = Others(buf))
      BY <1>1, <1>3, <1>8, RewrittenIs
  <2> HIDE DEF r
  <2>3. PassedOnWhole'
      BY <1>1, <1>2, <1>4, <1>8, <2>1, <2>2 DEF PassedOnWhole
  <2>4. BeginsRewritten'
    <3>1. Len(r) <= Len(r) /\ r = SubSeq(r, 1, Len(r))
        BY <2>2, SubSeqFull
    <3> QED BY <1>1, <1>8, <2>1, <3>1 DEF BeginsRewritten, r
  <2> QED BY <1>5, <1>6, <2>1, <2>2, <2>3, <2>4 DEF IInv
<1>9. CASE ~ IsWebsocketUpgrade(buf) /\ NamedKey(buf) \notin DOMAIN KeyMap
  <2>1. out' = <<Tok("forbidden")>> /\ phase' = "refused"
      BY <1>9 DEF Decide, Refuse
  <2>2. out' \in Seq(Token)
    <3>1. Tok("forbidden") \in Token
        BY DEF Tok, Token, Kinds
    <3> QED BY <2>1, <3>1
  <2>3. PassedOnWhole' /\ BeginsRewritten'
      BY <2>1 DEF PassedOnWhole, BeginsRewritten
  <2> QED BY <1>5, <1>6, <2>2, <2>3 DEF IInv
<1> QED BY <1>7, <1>8, <1>9

\* The copy loop adds what has arrived to what was passed on.
LEMMA CopyStep == IInv /\ Copy => IInv'
<1> SUFFICES ASSUME IInv, Copy PROVE IInv'
    OBVIOUS
<1>1. /\ phase = "copy" /\ phase' = "copy" /\ buf' = buf
      /\ UNCHANGED <<conversation, sent, ended, impatient>>
    BY DEF Copy, client
<1>2. PICK n \in 1 .. ReadSize :
         read + n <= sent /\ out' = out \o Arriving(n) /\ read' = read + n
    BY DEF Copy
<1>3. Stream' = Stream /\ PatternInBody' = PatternInBody /\ FollowedAtOnce' = FollowedAtOnce
    BY <1>1, SameConversation
<1>4. /\ Stream \in Seq(Token) /\ read \in 0 .. Len(Stream)
      /\ read + n \in read .. Len(Stream) /\ read + n \in 0 .. sent
      /\ out \in Seq(Token) /\ buf \in Seq(Token) /\ Len(buf) <= read + n
  <2>1. /\ Stream \in Seq(Token) /\ sent \in 0 .. Len(Stream) /\ read \in 0 .. sent
        /\ out \in Seq(Token) /\ buf \in Seq(Token) /\ Len(buf) <= read
      BY Streams DEF IInv, TypeOK
  <2>2. n \in Nat
      BY ReadSizeAssumption
  <2> QED BY <1>2, <2>1, <2>2
<1> DEFINE done == SubSeq(Stream, 1, read)
           more == Arriving(n)
<1>5. /\ done \in Seq(Token) /\ more \in Seq(Token)
      /\ done \o more = SubSeq(Stream, 1, read + n)
  <2>1. more \in Seq(Token)
      BY <1>4 DEF Arriving
  <2> QED BY <1>4, <2>1, PrefixIs DEF Arriving
<1> HIDE DEF done, more
<1>6. out' \in Seq(Token) /\ Len(out') >= Len(out)
    BY <1>2, <1>4, <1>5 DEF more
<1>7. TypeOK'
    BY <1>1, <1>2, <1>3, <1>4, <1>6 DEF IInv, TypeOK
<1>8. BufIsPrefix' /\ HeadersAreRead' /\ SentInTurn' /\ NothingCutOff'
  <2>1. BufIsPrefix'
      BY <1>1, <1>3 DEF IInv, BufIsPrefix, Reading
  <2>2. HeadersAreRead' /\ SentInTurn' /\ NothingCutOff'
      BY <1>1 DEF IInv, HeadersAreRead, SentInTurn, Reading, NothingCutOff
  <2> QED BY <2>1, <2>2
<1>9. PassedOnWhole'
  <2> SUFFICES ASSUME ~ PatternInBody, ~ FollowedAtOnce,
                      Has(buf, "binary") => IsWebsocketUpgrade(buf)
               PROVE  Others(out') = Others(SubSeq(Stream, 1, read + n))
      BY <1>1, <1>2, <1>3 DEF PassedOnWhole
  <2>1. Others(out) = Others(done)
      BY <1>1 DEF IInv, PassedOnWhole, done
  <2>2. Others(out \o more) = Others(out) \o Others(more)
    <3>1. out \in Seq(Token) /\ more \in Seq(Token)
        BY <1>4, <1>5
    <3> QED BY <3>1, OthersConcat
  <2>3. Others(done \o more) = Others(done) \o Others(more)
      BY <1>5, OthersConcat
  <2> QED BY <1>2, <1>5, <2>1, <2>2, <2>3 DEF more
<1>10. BeginsRewritten'
  <2> SUFFICES ASSUME ~ IsWebsocketUpgrade(buf)
               PROVE  /\ NamedKey(buf) \in DOMAIN KeyMap
                      /\ Len(Rewritten(buf)) <= Len(out')
                      /\ Rewritten(buf) = SubSeq(out', 1, Len(Rewritten(buf)))
      BY <1>1 DEF BeginsRewritten
  <2> DEFINE r == Rewritten(buf)
             l == Len(r)
  <2>1. NamedKey(buf) \in DOMAIN KeyMap /\ l <= Len(out) /\ r = SubSeq(out, 1, l)
      BY <1>1 DEF IInv, BeginsRewritten
  <2>2. r \in Seq(Token) /\ l >= 2
      BY <1>1, <2>1, BufBegins, RewrittenIs DEF IInv, HeadersAreRead
  <2>3. l \in 1 .. Len(out) /\ 1 \in 1 .. Len(out)
      BY <1>4, <2>1, <2>2
  <2> HIDE DEF r, l
  <2>4. SubSeq(out \o more, 1, l) = SubSeq(out, 1, l)
      BY <1>4, <1>5, <2>3, SubSeqOfConcat1
  <2>5. l <= Len(out')
      BY <1>4, <1>6, <2>3
  <2> QED BY <1>2, <2>1, <2>4, <2>5 DEF r, l, more
<1> QED BY <1>7, <1>8, <1>9, <1>10 DEF IInv

\* A client that waits sends nothing of a second request before the answer.
LEMMA ClientSendsStep == IInv /\ ClientSends => IInv'
<1> SUFFICES ASSUME IInv, ClientSends PROVE IInv'
    OBVIOUS
<1>1. /\ sent < Len(Stream) /\ MaySend(sent + 1) /\ sent' = sent + 1
      /\ UNCHANGED <<conversation, ended, impatient, read, buf, phase, out>>
    BY DEF ClientSends
<1>2. /\ Stream' = Stream /\ FirstRequest' = FirstRequest
      /\ PatternInBody' = PatternInBody /\ FollowedAtOnce' = FollowedAtOnce
    BY <1>1, SameConversation
<1>3. TypeOK'
    BY <1>1, <1>2, Streams DEF IInv, TypeOK
<1>4. SentInTurn'
  <2> SUFFICES ASSUME Reading \/ phase = "decide", conversation.waits # "no",
                      NEW k \in Begun(sent + 1)
               PROVE  k = 1
    <3>1. Begun(sent)' = Begun(sent + 1)
        BY <1>1 DEF Begun
    <3> QED BY <1>1, <3>1 DEF IInv, SentInTurn, Reading
  <2>1. out = <<>>
      BY DEF IInv, SentInTurn
  <2>2. Len(Requests(out)) >= k - 1
      BY <1>1 DEF MaySend
  <2>3. Len(Requests(out)) = 0
      BY <2>1, RequestsOfNothing
  <2>4. k \in Nat \ {0}
    <3>1. conversation.ends \in Seq(Nat)
        BY ConversationsAssumption DEF IInv, TypeOK
    <3> QED BY <3>1 DEF Begun
  <2> QED BY <2>2, <2>3, <2>4
<1>5. BufIsPrefix' /\ HeadersAreRead' /\ NothingCutOff'
    BY <1>1, <1>2 DEF IInv, BufIsPrefix, HeadersAreRead, NothingCutOff, Reading
<1>6. PassedOnWhole' /\ BeginsRewritten'
    BY <1>1, <1>2 DEF IInv, PassedOnWhole, BeginsRewritten
<1> QED BY <1>3, <1>4, <1>5, <1>6 DEF IInv

\* Steps that neither send nor read nor write.
LEMMA NoMoreSentStep ==
    ASSUME IInv, UNCHANGED <<conversation, sent, read, buf, out>>,
           ended' \in BOOLEAN, impatient' \in BOOLEAN, phase' \in {phase, "failed"}
    PROVE  IInv'
<1>1. /\ Stream' = Stream /\ FirstRequest' = FirstRequest
      /\ PatternInBody' = PatternInBody /\ FollowedAtOnce' = FollowedAtOnce
      /\ Begun(sent)' = Begun(sent)
    BY SameConversation
<1>2. TypeOK'
    BY <1>1 DEF IInv, TypeOK, Phases
<1>3. BufIsPrefix' /\ HeadersAreRead' /\ NothingCutOff'
    BY <1>1 DEF IInv, BufIsPrefix, HeadersAreRead, NothingCutOff, Reading
<1>4. SentInTurn'
    BY <1>1 DEF IInv, SentInTurn, Reading
<1>5. PassedOnWhole' /\ BeginsRewritten'
    BY <1>1 DEF IInv, PassedOnWhole, BeginsRewritten
<1> QED BY <1>2, <1>3, <1>4, <1>5 DEF IInv

\* Every step of client and proxy keeps the invariant.
LEMMA NextIInv == IInv /\ [Next]_vars => IInv'
<1> SUFFICES ASSUME IInv, [Next]_vars PROVE IInv'
    OBVIOUS
<1>1. ended \in BOOLEAN /\ impatient \in BOOLEAN
    BY DEF IInv, TypeOK
<1>2. CASE ReadHeaders \/ ReadChunked \/ ReadLength
    BY <1>2, ReadHeadersStep, ReadChunkedStep, ReadLengthStep
<1>3. CASE EndOfStream
    BY <1>3, EndOfStreamStep
<1>4. CASE Decide
    BY <1>4, DecideStep
<1>5. CASE Copy
    BY <1>5, CopyStep
<1>6. CASE ReadFails \/ WriteFails
    BY <1>1, <1>6, NoMoreSentStep DEF ReadFails, WriteFails, client
<1>7. CASE ClientSends
    BY <1>7, ClientSendsStep
<1>8. CASE ClientEnds
    BY <1>1, <1>8, NoMoreSentStep DEF ClientEnds
<1>9. CASE LosesPatience
    BY <1>1, <1>9, NoMoreSentStep DEF LosesPatience
<1>10. CASE UNCHANGED vars
    BY <1>1, <1>10, NoMoreSentStep DEF vars, client
<1> QED BY <1>2, <1>3, <1>4, <1>5, <1>6, <1>7, <1>8, <1>9, <1>10 DEF Next, Task, Client

-----------------------------------------------------------------------------
(* Theorems *)

\* The invariant holds in every behaviour, with fairness or without.
THEOREM Inductive == Spec => []IInv
BY InitIInv, NextIInv, PTL DEF Spec

\* Every variable keeps its type: what the proxy has in hand and what it has written
\* are sequences of tokens, for any conversation, session and size of reads.
THEOREM TypeCorrect == Spec => []TypeOK
<1>1. IInv => TypeOK
    BY DEF IInv
<1> QED BY Inductive, <1>1, PTL

\* However read_http_request finds the stream cut into reads, and wherever the client
\* stops: apart from the lines Authorization and Host, the upstream gets exactly what
\* was read, in order, unless a chunk looks like the last in the middle of a read or
\* the body is not text.
THEOREM ReadIsPassedOn == Spec => []PassedOnWhole
<1>1. IInv => PassedOnWhole
    BY DEF IInv
<1> QED BY Inductive, <1>1, PTL

\* The headers that the upstream reads are those of the rewritten request: its line,
\* the real key, and lines that are no credentials.
LEMMA KeyedOnce ==
    ASSUME NEW s \in Seq(Token), Len(s) > 0, s[1].kind = "request", HeaderEnd(s) # 0,
           NamedKey(s) \in DOMAIN KeyMap
    PROVE  Credentials(Rewritten(s)) = <<Bearer(KeyMap[NamedKey(s)])>>
<1> DEFINE r == Rewritten(s)
           k == Bearer(KeyMap[NamedKey(s)])
           h == HeaderEnd(r)
           one == <<r[1]>>
           two == <<k>>
           top == SubSeq(r, 1, h)
           rest == SubSeq(r, 3, h)
<1>1. /\ r \in Seq(Token) /\ Len(r) >= 2
      /\ r[1].kind = "request" /\ r[2] = k
      /\ \A i \in 1 .. Len(r) : i # 2 => r[i].kind \notin Authorization
      /\ h # 0
    BY RewrittenIs
<1>2. k \in Token /\ k.kind \in Authorization
    BY KeysAssumption, BearerIs
<1> HIDE DEF r, k
<1>3. h \in 3 .. Len(r)
  <2>1. h \in 1 .. Len(r) /\ r[h].kind = "blank"
      BY <1>1, HeaderEndIs
  <2>2. h # 1 /\ h # 2
      BY <1>1, <1>2, <2>1 DEF Authorization
  <2> QED BY <2>1, <2>2
<1> HIDE DEF h
<1>4. /\ one \in Seq(Token) /\ two \in Seq(Token) /\ rest \in Seq(Token)
      /\ one \o two \in Seq(Token)
      /\ Len(rest) = h - 2 /\ \A i \in 1 .. h - 2 : rest[i] = r[i + 2]
    BY <1>1, <1>2, <1>3
<1>5. top = one \o two \o rest
  <2>1. top \in Seq(Token) /\ Len(top) = h /\ \A i \in 1 .. h : top[i] = r[i]
      BY <1>1, <1>3
  <2>2. one \o two \o rest \in Seq(Token) /\ Len(one \o two \o rest) = h
      BY <1>3, <1>4
  <2>3. ASSUME NEW i \in 1 .. h PROVE top[i] = (one \o two \o rest)[i]
      BY <1>1, <1>3, <1>4, <2>1
  <2> QED BY <2>1, <2>2, <2>3, SeqEqual
<1>6. Only(one, Authorization) = <<>> /\ Only(two, Authorization) = <<k>>
  <2>1. r[1] \in Token /\ r[1].kind \notin Authorization
      BY <1>1
  <2> QED BY <1>2, <2>1, OnlyOne
<1>7. Only(rest, Authorization) = <<>>
  <2>1. \A i \in 1 .. Len(rest) : rest[i].kind \notin Authorization
      BY <1>1, <1>3, <1>4
  <2> QED BY <1>4, <2>1, OnlyNone
<1> HIDE DEF one, two, rest, top
<1>8. Only(top, Authorization) = <<>> \o <<k>> \o <<>>
  <2>1. Only(one \o two, Authorization) = Only(one, Authorization) \o Only(two, Authorization)
    <3>1. one \in Seq(Token) /\ two \in Seq(Token)
        BY <1>4
    <3> QED BY <3>1, OnlyConcat
  <2>2. Only(top, Authorization) = Only(one \o two, Authorization) \o Only(rest, Authorization)
    <3> DEFINE begin == one \o two
    <3>1. begin \in Seq(Token) /\ rest \in Seq(Token)
        BY <1>4
    <3> HIDE DEF begin
    <3>2. Only(begin \o rest, Authorization)
          = Only(begin, Authorization) \o Only(rest, Authorization)
        BY <3>1, OnlyConcat
    <3> QED BY <1>5, <3>2 DEF begin
  <2> QED BY <1>6, <1>7, <2>1, <2>2
<1>9. Credentials(r) = Only(top, Authorization)
    BY DEF Credentials, HeadersOf, h, top
<1> QED BY <1>2, <1>8, <1>9 DEF r, k

\* What the upstream takes for the headers of the first request is what was rewritten,
\* and the placeholder there is the one that the client's own headers name.
LEMMA KeyedInv == IInv => FirstRequestKeyed
<1> SUFFICES ASSUME IInv, phase = "copy", ~ IsWebsocketUpgrade(buf), RequestLength(out) # 0,
                    NamedKey(HeadersOf(FirstRequest)) # NoKey
             PROVE  Credentials(SubSeq(out, 1, RequestLength(out)))
                    = <<Bearer(KeyMap[NamedKey(FirstRequest)])>>
    BY DEF FirstRequestKeyed
<1> DEFINE r == Rewritten(buf)
           l == Len(r)
           n == RequestLength(out)
<1>1. /\ HeaderEnd(buf) # 0 /\ NamedKey(buf) \in DOMAIN KeyMap
      /\ l <= Len(out) /\ r = SubSeq(out, 1, l)
    BY DEF IInv, HeadersAreRead, BeginsRewritten
<1>2. buf \in Seq(Token) /\ Len(buf) > 0 /\ buf[1].kind = "request"
    BY <1>1, BufBegins
<1>3. r \in Seq(Token) /\ HeaderEnd(r) # 0 /\ out \in Seq(Token)
    BY <1>1, <1>2, RewrittenIs DEF IInv, TypeOK
<1>4. l \in 0 .. Len(out)
    BY <1>1, <1>3
<1>5. Credentials(r) = <<Bearer(KeyMap[NamedKey(buf)])>>
    BY <1>1, <1>2, KeyedOnce
<1> HIDE DEF r, l
<1>6. HeadersOf(r) = HeadersOf(out)
    BY <1>1, <1>3, <1>4, HeadersOfPrefix
<1>7. HeadersOf(SubSeq(out, 1, n)) = HeadersOf(out)
  <2>1. n \in 0 .. Len(out) /\ HeaderEnd(out) # 0 /\ HeaderEnd(out) <= n
      BY <1>3, RequestLengthIs
  <2>2. HeaderEnd(out) \in 1 .. n
      BY <1>3, <2>1, HeaderEndIs
  <2> HIDE DEF n
  <2> QED BY <1>3, <2>1, <2>2, HeadersOfPrefix
<1>8. NamedKey(buf) = NamedKey(FirstRequest)
  <2> DEFINE h == HeaderEnd(Stream)
             m == Len(buf)
             end == conversation.ends[1]
             p == First(Stream, {"bearer"}, 1)
  <2>1. /\ Stream \in Seq(Token) /\ end \in 1 .. Len(Stream) /\ h # 0
        /\ HeaderEnd(FirstRequest) = h /\ HeadersOf(FirstRequest) = HeadersOf(Stream)
        /\ FirstRequest \in Seq(Token)
      BY Streams DEF IInv, TypeOK
  <2>2. m \in 0 .. Len(Stream) /\ buf = SubSeq(Stream, 1, m)
    <3>1. m <= read /\ read \in 0 .. sent /\ sent \in 0 .. Len(Stream) /\ m \in Nat
        BY <1>2 DEF IInv, TypeOK
    <3>2. buf = SubSeq(Stream, 1, m)
        BY DEF IInv, BufIsPrefix
    <3> HIDE DEF m
    <3> QED BY <3>1, <3>2
  <2>3. FirstRequest = SubSeq(Stream, 1, end)
      BY DEF FirstRequest
  <2> HIDE DEF m, end, p
  <2>4. h \in 1 .. m
      BY <1>1, <2>1, <2>2, HeadersOfPrefix
  <2>5. h \in 1 .. end
    <3>1. end \in 0 .. Len(Stream)
        BY <2>1
    <3> QED BY <2>1, <2>3, <3>1, HeadersOfPrefix
  <2>6. p \in 1 .. h
    <3>1. h \in 0 .. Len(Stream) /\ HeadersOf(FirstRequest) = SubSeq(Stream, 1, h)
        BY <2>1, HeaderEndIs DEF HeadersOf
    <3>2. First(SubSeq(Stream, 1, h), {"bearer"}, 1) # 0
        BY <3>1 DEF NamedKey
    <3> HIDE DEF h
    <3> QED BY <2>1, <3>1, <3>2, FirstOfPrefix DEF p
  <2>7. p \in 1 .. m /\ p \in 1 .. end /\ end \in 0 .. Len(Stream)
      BY <2>1, <2>2, <2>4, <2>5, <2>6
  <2> QED BY <2>1, <2>2, <2>3, <2>7, NamedKeyOfPrefix DEF p
<1> QED BY <1>5, <1>6, <1>7, <1>8 DEF Credentials

\* The first request that the upstream gets carries the real key of the placeholder
\* in its headers, and no other credential, whatever comes with it in the same read.
THEOREM FirstRequestIsKeyed == Spec => []FirstRequestKeyed
BY Inductive, KeyedInv, PTL

-----------------------------------------------------------------------------
(* Framing *)

\* The Content-Length stands in the headers: what follows does not change it.
LEMMA ContentLengthOfPrefix ==
    ASSUME NEW s \in Seq(Token), NEW m \in 0 .. Len(s), HeaderEnd(SubSeq(s, 1, m)) # 0
    PROVE  ContentLength(SubSeq(s, 1, m)) = ContentLength(s)
<1> DEFINE u == SubSeq(s, 1, m)
           h == HeadersOf(s)
           I == {i \in 1 .. Len(h) : h[i].kind = "length"}
           at == SelectLastInSeq(h, LAMBDA t : t.kind = "length")
<1>1. /\ HeadersOf(u) = h /\ h \in Seq(Token) /\ HeaderEnd(s) \in 1 .. m
      /\ Len(h) = HeaderEnd(s)
    BY HeadersOfPrefix, HeaderEndIs
<1>2. \A i \in 1 .. m : u[i] = s[i]
    OBVIOUS
<1>3. at = IF I # {} THEN Max(I) ELSE 0
    BY DEF SelectLastInSeq
<1>4. at \in 0 .. m
  <2>1. CASE I # {}
    <3>1. Max(I) \in I
        BY <1>1, <2>1, MaxIs, Len(h) \in Nat
    <3> HIDE DEF h
    <3> QED BY <1>1, <1>3, <2>1, <3>1
  <2>2. CASE I = {}
      BY <1>1, <1>3, <2>2
  <2> QED BY <2>1, <2>2
<1>5. ContentLength(u) = IF at = 0 THEN 0 ELSE u[at].n
    BY <1>1 DEF ContentLength
<1>6. ContentLength(s) = IF at = 0 THEN 0 ELSE s[at].n
    BY DEF ContentLength
<1> HIDE DEF at, u
<1> QED BY <1>2, <1>4, <1>5, <1>6 DEF u

\* A request that is whole stays so, whatever follows it.
LEMMA WholeStays ==
    ASSUME NEW s \in Seq(Token), NEW m \in 0 .. Len(s), RequestLength(SubSeq(s, 1, m)) # 0
    PROVE  RequestLength(s) # 0
<1> DEFINE u == SubSeq(s, 1, m)
           h == HeaderEnd(s)
           kinds == {"last", "trailers"}
<1>1. u \in Seq(Token) /\ Len(u) = m /\ m \in Nat /\ m <= Len(s)
    OBVIOUS
<1>2. HeaderEnd(u) # 0
    BY <1>1, RequestLengthIs
<1>3. HeaderEnd(u) = h /\ h \in 1 .. m /\ HeadersOf(u) = HeadersOf(s)
    BY <1>2, HeadersOfPrefix
<1>4. IsChunked(u) <=> IsChunked(s)
    BY <1>3 DEF IsChunked
<1> HIDE DEF u, h
<1>5. CASE IsChunked(u)
  <2>1. First(u, kinds, h + 1) # 0
      BY <1>2, <1>3, <1>5 DEF RequestLength, u
  <2>2. h + 1 \in Nat \ {0}
      BY <1>1, <1>3
  <2> DEFINE from == h + 1
  <2> HIDE DEF kinds, from
  <2>3. First(u, kinds, from) = IF First(s, kinds, from) \in 1 .. m
                                THEN First(s, kinds, from) ELSE 0
      BY <2>2, FirstOfPrefix DEF u, from
  <2>4. First(s, kinds, from) # 0
      BY <2>1, <2>3 DEF from
  <2> QED BY <1>3, <1>4, <1>5, <2>4 DEF RequestLength, h, kinds, from
<1>6. CASE ~ IsChunked(u)
  <2>1. ContentLength(u) = ContentLength(s) /\ ContentLength(s) \in Nat
      BY <1>2, ContentLengthOfPrefix, ContentLengthIs DEF u
  <2>2. Complete(u)
      BY <1>2, <1>6 DEF RequestLength, u
  <2>3. Len(s) >= h + ContentLength(s) /\ h + ContentLength(s) # 0
      BY <1>1, <1>3, <2>1, <2>2 DEF Complete
  <2>4. Complete(s)
      BY <2>3 DEF Complete, h
  <2> QED BY <1>3, <1>4, <1>6, <2>3, <2>4 DEF RequestLength, h
<1> QED BY <1>5, <1>6

\* What the place of the reader tells of the request in hand: what it still waits for
\* is not there, and what it has taken for whole is.
Framed ==
    /\ phase = "headers" => HeaderEnd(buf) = 0
    /\ phase = "chunked" => Terminator(buf) = 0
    /\ phase = "length" => ~ IsChunked(buf) /\ ~ Complete(buf)
    /\ phase \in {"decide", "copy", "refused"} /\ ~ PatternInBody =>
          RequestLength(buf) # 0 \/ (ended /\ read = sent)

\* A scan for the last chunk stops behind it or does not find it.
LEMMA FramedChunks ==
    ASSUME TypeOK, UNCHANGED client, NEW m \in 1 .. Len(Stream),
           HeaderEnd(SubSeq(Stream, 1, m)) # 0, IsChunked(SubSeq(Stream, 1, m)),
           ScanChunks(SubSeq(Stream, 1, m))
    PROVE  Framed'
<1> DEFINE s == SubSeq(Stream, 1, m)
           T == Terminator(s)
           from == HeaderEnd(s) + 1
<1>1. /\ Stream \in Seq(Token) /\ s \in Seq(Token) /\ Len(s) = m /\ m \in Nat
      /\ \A i \in 1 .. m : s[i] = Stream[i]
    BY Streams DEF TypeOK
<1>2. PatternInBody' = PatternInBody
    BY SameConversation DEF client
<1>3. CASE T = 0
  <2>1. buf' = s /\ phase' = "chunked"
      BY <1>3 DEF ScanChunks, Becomes
  <2> QED BY <1>3, <2>1 DEF Framed
<1>4. CASE T # 0
  <2>1. buf' = SubSeq(s, 1, T) /\ phase' = "decide"
      BY <1>4 DEF ScanChunks, Becomes
  <2>2. HeaderEnd(s) \in 1 .. m
    <3>1. HeaderEnd(s) # 0
        OBVIOUS
    <3> HIDE DEF s
    <3> QED BY <1>1, <3>1, HeaderEndIs
  <2> HIDE DEF s
  <2>3. T = First(s, {"last", "zero"}, from) /\ from \in Nat \ {0} /\ from > 1
      BY <1>1, <2>2 DEF Terminator
  <2> HIDE DEF T
  <2>4. T \in from .. m /\ s[T].kind \in {"last", "zero"}
    <3> HIDE DEF from
    <3> QED BY <1>1, <1>4, <2>3, FirstIs
  <2>5. T \in 0 .. m /\ HeaderEnd(s) \in 1 .. T
      BY <1>1, <2>2, <2>4
  <2> DEFINE b == SubSeq(s, 1, T)
  <2>6. b \in Seq(Token) /\ Len(b) = T /\ b[T] = s[T] /\ from \in 1 .. T
      BY <1>1, <2>2, <2>4
  <2>7. HeaderEnd(b) = HeaderEnd(s) /\ HeadersOf(b) = HeadersOf(s) /\ HeaderEnd(b) # 0
      BY <1>1, <2>5, HeadersOfPrefix
  <2>8. IsChunked(b)
      BY <2>7 DEF IsChunked, s
  <2>9. ~ PatternInBody => b[T].kind = "last"
      BY <1>1, <2>4, <2>6 DEF PatternInBody, Has
  <2> HIDE DEF b
  <2>10. ~ PatternInBody => First(b, {"last", "trailers"}, from) # 0
    <3>1. T \in from .. Len(b)
        BY <2>4, <2>6
    <3> HIDE DEF from
    <3> QED BY <2>3, <2>6, <2>9, <3>1, FirstIs
  <2>11. ~ PatternInBody => RequestLength(b) # 0
      BY <2>7, <2>8, <2>10 DEF RequestLength
  <2> QED BY <1>2, <2>1, <2>11 DEF Framed, b
<1> QED BY <1>3, <1>4

\* A read up to the Content-Length stops when it has that much.
LEMMA FramedLength ==
    ASSUME NEW s \in Seq(Token), HeaderEnd(s) # 0, ~ IsChunked(s), ScanLength(s)
    PROVE  Framed'
<1>1. buf' = s /\ phase' = IF Complete(s) THEN "decide" ELSE "length"
    BY DEF ScanLength, Becomes
<1>2. HeaderEnd(s) \in Nat /\ ContentLength(s) \in Nat
    BY HeaderEndIs, ContentLengthIs
<1>3. Complete(s) => RequestLength(s) # 0
    BY <1>2 DEF RequestLength
<1> QED BY <1>1, <1>3 DEF Framed

\* The three reads, as they find the request.
LEMMA FramedReads ==
    ASSUME IInv, Framed, ReadHeaders \/ ReadChunked \/ ReadLength
    PROVE  Framed'
<1>1. TypeOK /\ BufIsPrefix /\ Reading /\ UNCHANGED client
    BY DEF IInv, Reading, ReadHeaders, ReadChunked, ReadLength, Read
<1>2. ASSUME NEW n \in Nat \ {0}, read + n <= sent
      PROVE  /\ read + n \in 1 .. Len(Stream) /\ read + n \in Len(buf) .. Len(Stream)
             /\ buf \o Arriving(n) = SubSeq(Stream, 1, read + n)
             /\ SubSeq(Stream, 1, read + n) \in Seq(Token)
  <2>1. read + n \in 1 .. Len(Stream) /\ buf \o Arriving(n) = SubSeq(Stream, 1, read + n)
      BY <1>1, <1>2, Arrived
  <2>2. Len(buf) = read /\ read \in Nat
      BY <1>1 DEF BufIsPrefix, TypeOK
  <2>3. Stream \in Seq(Token)
      BY <1>1, Streams DEF TypeOK
  <2> QED BY <2>1, <2>2, <2>3
<1>3. ASSUME ReadHeaders PROVE Framed'
  <2>1. PICK n \in 1 .. ReadSize : read + n <= sent /\ ScanHeaders(buf \o Arriving(n))
      BY <1>3 DEF ReadHeaders, Read
  <2>2. n \in Nat \ {0}
      BY ReadSizeAssumption
  <2> DEFINE m == read + n
             s == SubSeq(Stream, 1, m)
  <2>3. m \in 1 .. Len(Stream) /\ s \in Seq(Token) /\ ScanHeaders(s)
      BY <1>2, <2>1, <2>2
  <2> HIDE DEF m
  <2>4. CASE HeaderEnd(s) = 0
      BY <2>3, <2>4 DEF ScanHeaders, Becomes, Framed
  <2>5. CASE HeaderEnd(s) # 0 /\ Malformed(s)
      BY <2>3, <2>5 DEF ScanHeaders, Becomes, Framed
  <2>6. CASE HeaderEnd(s) # 0 /\ ~ Malformed(s) /\ IsChunked(s)
      BY <1>1, <2>3, <2>6, FramedChunks DEF ScanHeaders
  <2>7. CASE HeaderEnd(s) # 0 /\ ~ Malformed(s) /\ ~ IsChunked(s)
      BY <2>3, <2>7, FramedLength DEF ScanHeaders
  <2> QED BY <2>4, <2>5, <2>6, <2>7
<1>4. ASSUME ReadChunked PROVE Framed'
  <2>1. PICK n \in 1 .. ReadSize : read + n <= sent /\ ScanChunks(buf \o Arriving(n))
      BY <1>4 DEF ReadChunked, Read
  <2>2. n \in Nat \ {0}
      BY ReadSizeAssumption
  <2> DEFINE m == read + n
             s == SubSeq(Stream, 1, m)
  <2>3. m \in 1 .. Len(Stream) /\ m \in Len(buf) .. Len(Stream) /\ ScanChunks(s)
      BY <1>2, <2>1, <2>2
  <2> HIDE DEF m
  <2>4. HeaderEnd(buf) # 0 /\ IsChunked(buf)
      BY <1>4 DEF ReadChunked, IInv, HeadersAreRead
  <2>5. HeaderEnd(s) # 0 /\ IsChunked(s)
      BY <1>1, <2>3, <2>4, HeadersStay DEF IsChunked
  <2> QED BY <1>1, <2>3, <2>5, FramedChunks
<1>5. ASSUME ReadLength PROVE Framed'
  <2>1. PICK n \in 1 .. Remaining(buf) : read + n <= sent /\ ScanLength(buf \o Arriving(n))
      BY <1>5 DEF ReadLength, Read
  <2>2. n \in Nat \ {0}
    <3>1. Remaining(buf) \in Int
        BY <1>1, HeaderEndIs, ContentLengthIs DEF Remaining, TypeOK
    <3> QED BY <3>1
  <2> DEFINE m == read + n
             s == SubSeq(Stream, 1, m)
  <2>3. /\ m \in 1 .. Len(Stream) /\ m \in Len(buf) .. Len(Stream) /\ ScanLength(s)
        /\ s \in Seq(Token)
      BY <1>2, <2>1, <2>2
  <2> HIDE DEF m
  <2>4. HeaderEnd(buf) # 0 /\ ~ IsChunked(buf)
      BY <1>5 DEF ReadLength, IInv, HeadersAreRead, Framed
  <2>5. HeaderEnd(s) # 0 /\ ~ IsChunked(s)
      BY <1>1, <2>3, <2>4, HeadersStay DEF IsChunked
  <2> HIDE DEF s
  <2> QED BY <2>3, <2>5, FramedLength
<1> QED BY <1>3, <1>4, <1>5

\* Every other step leaves the request in hand as it is.
LEMMA FramedStep == IInv /\ Framed /\ [Next]_vars => Framed'
<1> SUFFICES ASSUME IInv, Framed, [Next]_vars PROVE Framed'
    OBVIOUS
<1>1. CASE ReadHeaders \/ ReadChunked \/ ReadLength
    BY <1>1, FramedReads
<1>2. ASSUME ~ (ReadHeaders \/ ReadChunked \/ ReadLength), Next
      PROVE  UNCHANGED <<conversation, buf>> /\ PatternInBody' = PatternInBody
  <2>1. UNCHANGED <<conversation, buf>>
      BY <1>2 DEF Next, Task, Client, EndOfStream, Decide, ReadFails, WriteFails, Copy,
                  ClientSends, ClientEnds, LosesPatience, client
  <2> QED BY <2>1, SameConversation
<1>3. ASSUME ~ (ReadHeaders \/ ReadChunked \/ ReadLength), EndOfStream PROVE Framed'
    BY <1>2, <1>3 DEF Next, Task, EndOfStream, Framed, client
<1>4. ASSUME ~ (ReadHeaders \/ ReadChunked \/ ReadLength), Decide PROVE Framed'
  <2>1. phase = "decide" /\ phase' \in {"copy", "refused"} /\ UNCHANGED <<ended, read, sent>>
      BY <1>4 DEF Decide, Forward, Refuse, client
  <2> QED BY <1>2, <1>4, <2>1 DEF Next, Task, Framed
<1>5. ASSUME ~ (ReadHeaders \/ ReadChunked \/ ReadLength), Copy PROVE Framed'
  <2>1. phase = "copy" /\ phase' = "copy"
      BY <1>5 DEF Copy
  <2>2. read # sent
    <3>1. PICK n \in 1 .. ReadSize : read + n <= sent
        BY <1>5 DEF Copy
    <3>2. n \in Nat \ {0} /\ read \in Nat /\ sent \in Nat
        BY ReadSizeAssumption DEF IInv, TypeOK
    <3> QED BY <3>1, <3>2
  <2> QED BY <1>2, <1>5, <2>1, <2>2 DEF Next, Task, Framed
<1>6. ASSUME ~ (ReadHeaders \/ ReadChunked \/ ReadLength), ReadFails \/ WriteFails
      PROVE  Framed'
    BY <1>6 DEF ReadFails, WriteFails, Framed
<1>7. ASSUME ~ (ReadHeaders \/ ReadChunked \/ ReadLength), Client \/ ClientEnds PROVE Framed'
  <2>1. phase' = phase /\ read' = read /\ (ended => ended' /\ sent' = sent)
      BY <1>7 DEF Client, ClientSends, LosesPatience, ClientEnds
  <2> QED BY <1>2, <1>7, <2>1 DEF Next, Framed
<1>8. CASE UNCHANGED vars
  <2>1. PatternInBody' = PatternInBody /\ UNCHANGED <<phase, buf, ended, read, sent>>
      BY <1>8, SameConversation DEF vars, client
  <2> QED BY <2>1 DEF Framed
<1> QED BY <1>1, <1>3, <1>4, <1>5, <1>6, <1>7, <1>8 DEF Next, Task

LEMMA FramedReadsOne == IInv /\ Framed => ReadsOneRequest
<1> SUFFICES ASSUME IInv, Framed PROVE ReadsOneRequest
    OBVIOUS
<1>1. Stream \in Seq(Token) /\ read \in 0 .. Len(Stream) /\ Seen \in Seq(Token) /\ Len(Seen) = read
    BY Streams, PrefixIs DEF IInv, TypeOK, Seen
<1>2. ASSUME Reading PROVE RequestLength(Seen) = 0 \/ Has(Seen, "trailers")
  <2>1. buf = Seen /\ buf \in Seq(Token)
      BY <1>2 DEF IInv, BufIsPrefix, TypeOK, Seen
  <2>2. CASE phase = "headers"
      BY <2>1, <2>2 DEF Framed, RequestLength
  <2>3. CASE phase = "length"
      BY <2>1, <2>3 DEF Framed, RequestLength
  <2>4. CASE phase = "chunked"
    <3> DEFINE from == HeaderEnd(buf) + 1
               p == First(buf, {"last", "trailers"}, from)
    <3>1. HeaderEnd(buf) # 0 /\ IsChunked(buf)
        BY <2>4 DEF IInv, HeadersAreRead
    <3>2. RequestLength(buf) = p /\ First(buf, {"last", "zero"}, from) = 0
        BY <2>4, <3>1 DEF RequestLength, Framed, Terminator
    <3>3. from \in Nat \ {0}
        BY <2>1, HeaderEndIs
    <3> HIDE DEF from
    <3>4. \A i \in from .. Len(buf) : buf[i].kind \notin {"last", "zero"}
        BY <2>1, <3>2, <3>3, FirstIs
    <3>5. p = First(buf, {"last", "trailers"}, from)
        OBVIOUS
    <3> HIDE DEF p
    <3>6. p # 0 => p \in from .. Len(buf) /\ buf[p].kind \in {"last", "trailers"}
        BY <2>1, <3>3, <3>5, FirstIs
    <3>7. p # 0 => p \in 1 .. Len(buf)
        BY <2>1, <3>3, <3>6
    <3>8. p # 0 => buf[p].kind = "trailers"
        BY <3>4, <3>6
    <3> QED BY <2>1, <3>2, <3>5, <3>7, <3>8 DEF Has
  <2> QED BY <1>2, <2>2, <2>3, <2>4 DEF Reading
<1>3. RequestLength(buf) # 0 => RequestLength(Seen) # 0
  <2> DEFINE l == Len(buf)
  <2>1. buf = SubSeq(Stream, 1, l) /\ l \in Nat /\ l <= read
    <3>1. buf = SubSeq(Stream, 1, l)
        BY DEF IInv, BufIsPrefix
    <3>2. buf \in Seq(Token) /\ l <= read
        BY DEF IInv, TypeOK
    <3>3. l \in Nat
        BY <3>2
    <3> HIDE DEF l
    <3> QED BY <3>1, <3>2, <3>3
  <2>2. l \in 0 .. read /\ l \in 0 .. Len(Stream) /\ read \in l .. Len(Stream)
      BY <1>1, <2>1
  <2> HIDE DEF l
  <2>3. buf = SubSeq(Seen, 1, l)
      BY <1>1, <2>1, <2>2, PrefixIs DEF Seen
  <2> QED BY <1>1, <2>2, <2>3, WholeStays
<1> QED BY <1>2, <1>3 DEF Framed, ReadsOneRequest

\* read_http_request waits for no byte behind the first whole request and hands over
\* nothing less, unless the client ends its stream: for every stream, every cut of
\* it into reads and every way of framing, but the trailers and the chunk that
\* looks like the last, which find_terminator does not tell apart.
THEOREM OneRequestIsRead == Spec => []ReadsOneRequest
<1>1. Init => Framed
  <2> SUFFICES ASSUME Init PROVE Framed
      OBVIOUS
  <2>1. <<>> \in Seq(Token) /\ Len(<<>>) = 0
      OBVIOUS
  <2>2. HeaderEnd(<<>>) = 0
    <3>1. \A s \in Seq(Token) : HeaderEnd(s) \in 0 .. Len(s)
        BY HeaderEndIs
    <3>2. HeaderEnd(<<>>) \in 0 .. Len(<<>>)
        BY <2>1, <3>1
    <3> QED BY <2>1, <3>2
  <2> QED BY <2>2 DEF Init, Framed
<1>2. IInv /\ IInv' /\ Framed /\ [Next]_vars => Framed'
    BY FramedStep
<1> QED BY <1>1, <1>2, Inductive, FramedReadsOne, PTL DEF Spec
=============================================================================
