---------------------------- MODULE RequestsProofs ----------------------------
(***************************************************************************)
(* Proofs about Requests, for any titles, for texts of any length, and for *)
(* any number of requests in a session.                                    *)
(***************************************************************************)
EXTENDS Requests, SequenceTheorems, TLAPS

(***************************************************************************)
(* The encoding: no encoded symbol is a separator, and no two symbols are  *)
(* encoded alike.                                                          *)
(***************************************************************************)

Sent == {"a", "+", "%2B", "%26publisher%3D", "%26extra%3D"}
Separator == {"titleid=", "&name=", "&publisher=", "&extra="}
Item == Sent \cup Separator \cup Title

LEMMA SymbolEncoding ==
  /\ \A c \in Symbol : Encoded(c) \in Sent /\ ConsoleCode[c] = Encoded(c)
  /\ \A c, d \in Symbol : Encoded(c) = Encoded(d) => c = d
BY DEF Symbol, Encoded, ConsoleCode, Sent

LEMMA TextEncoding ==
  ASSUME NEW text \in Seq(Symbol)
  PROVE  /\ EncodedText(text) \in Seq(Sent)
         /\ Len(EncodedText(text)) = Len(text)
         /\ \A i \in 1 .. Len(text) : EncodedText(text)[i] = Encoded(text[i])
         /\ ConsoleText(text) = EncodedText(text)
<1>1. /\ Len(text) \in Nat /\ DOMAIN text = 1 .. Len(text)
      /\ \A i \in 1 .. Len(text) : text[i] \in Symbol
  BY LenProperties, ElementOfSeq
<1>2. EncodedText(text) \in [1 .. Len(text) -> Sent]
  BY <1>1, SymbolEncoding DEF EncodedText
<1>3. EncodedText(text) \in Seq(Sent)
  BY <1>1, <1>2, SeqDef
<1>4. DOMAIN EncodedText(text) = 1 .. Len(EncodedText(text)) /\ Len(EncodedText(text)) \in Nat
  BY <1>3, LenProperties
<1>5. Len(EncodedText(text)) = Len(text)
  BY <1>1, <1>2, <1>4
<1>6. ConsoleText(text) = EncodedText(text)
  BY <1>1, SymbolEncoding DEF ConsoleText, EncodedText
<1> QED BY <1>1, <1>3, <1>5, <1>6 DEF EncodedText

LEMMA EncodingInjective ==
  ASSUME NEW s \in Seq(Symbol), NEW t \in Seq(Symbol), EncodedText(s) = EncodedText(t)
  PROVE  s = t
<1>1. Len(s) = Len(t)
  BY TextEncoding
<1>2. \A i \in 1 .. Len(s) : s[i] \in Symbol /\ t[i] \in Symbol
  BY <1>1, ElementOfSeq
<1>3. \A i \in 1 .. Len(s) : Encoded(s[i]) = Encoded(t[i])
  BY <1>1, TextEncoding
<1>4. \A i \in 1 .. Len(s) : s[i] = t[i]
  BY <1>2, <1>3, SymbolEncoding
<1> QED BY <1>1, <1>4, SeqEqual

(***************************************************************************)
(* The text of a game: where each of its parts stands.                     *)
(***************************************************************************)

\* Two texts one behind the other.
LEMMA Joined ==
  ASSUME NEW s \in Seq(Item), NEW t \in Seq(Item)
  PROVE  /\ s \o t \in Seq(Item) /\ Len(s \o t) = Len(s) + Len(t)
         /\ \A i \in 1 .. Len(s) : (s \o t)[i] = s[i]
         /\ \A i \in 1 .. Len(t) : (s \o t)[Len(s) + i] = t[i]
<1>1. Len(s) \in Nat /\ Len(t) \in Nat
  BY LenProperties
<1>2. /\ s \o t \in Seq(Item) /\ Len(s \o t) = Len(s) + Len(t)
      /\ \A i \in 1 .. Len(s) + Len(t) :
           (s \o t)[i] = IF i <= Len(s) THEN s[i] ELSE t[i - Len(s)]
  BY ConcatProperties
<1>3. \A i \in 1 .. Len(s) : i \in 1 .. Len(s) + Len(t) /\ i <= Len(s)
  BY <1>1
<1>4. \A i \in 1 .. Len(t) : /\ Len(s) + i \in 1 .. Len(s) + Len(t)
                             /\ ~(Len(s) + i <= Len(s)) /\ (Len(s) + i) - Len(s) = i
  BY <1>1
<1> QED BY <1>2, <1>3, <1>4

ExtraPart(f) == IF f.extra = Absent THEN <<>> ELSE <<"&extra=">> \o EncodedText(f.extra)

LEMMA ExtraLayout ==
  ASSUME NEW f \in SetForm
  PROVE  /\ ExtraPart(f) \in Seq(Item)
         /\ f.extra = Absent => Len(ExtraPart(f)) = 0
         /\ f.extra # Absent =>
              /\ f.extra \in Seq(Symbol)
              /\ Len(ExtraPart(f)) = Len(f.extra) + 1
              /\ ExtraPart(f)[1] = "&extra="
              /\ \A i \in 1 .. Len(f.extra) : ExtraPart(f)[i + 1] = EncodedText(f.extra)[i]
<1>1. CASE f.extra = Absent
  BY <1>1, EmptySeq DEF ExtraPart
<1>2. CASE f.extra # Absent
  <2>1. f.extra \in Seq(Symbol)
    BY <1>2, RequestsAssumption DEF SetForm
  <2>2. Len(f.extra) \in Nat
    BY <2>1, LenProperties
  <2>3. <<"&extra=">> \in Seq(Item) /\ Len(<<"&extra=">>) = 1 /\ <<"&extra=">>[1] = "&extra="
    BY DEF Item, Separator
  <2>4. EncodedText(f.extra) \in Seq(Item) /\ Len(EncodedText(f.extra)) = Len(f.extra)
    BY <2>1, TextEncoding, SeqMonotonic DEF Item
  <2>5. ExtraPart(f) = <<"&extra=">> \o EncodedText(f.extra)
    BY <1>2 DEF ExtraPart
  <2>6. /\ ExtraPart(f) \in Seq(Item) /\ Len(ExtraPart(f)) = 1 + Len(f.extra)
        /\ \A i \in 1 .. 1 + Len(f.extra) : ExtraPart(f)[i] =
             IF i <= 1 THEN <<"&extra=">>[i] ELSE EncodedText(f.extra)[i - 1]
    BY <2>3, <2>4, <2>5, ConcatProperties
  <2>7. \A i \in 1 .. Len(f.extra) : i + 1 \in 1 .. 1 + Len(f.extra) /\ ~(i + 1 <= 1) /\ (i + 1) - 1 = i
    BY <2>2
  <2>8. \A i \in 1 .. Len(f.extra) : ExtraPart(f)[i + 1] = EncodedText(f.extra)[i]
    BY <2>6, <2>7
  <2>9. ExtraPart(f)[1] = "&extra="
    BY <2>2, <2>3, <2>6
  <2> QED BY <1>2, <2>1, <2>2, <2>6, <2>8, <2>9
<1> QED BY <1>1, <1>2

\* The title, the name, the publisher and what is extra, each behind its word.
GameParts(f) ==
  <<"titleid=", f.titleid, "&name=">> \o EncodedText(f.name)
  \o <<"&publisher=">> \o EncodedText(f.publisher) \o ExtraPart(f)

LEMMA GameLayout ==
  ASSUME NEW f \in SetForm, GameFields(f)
  PROVE  LET n == Len(f.name)
             p == Len(f.publisher)
             x == Len(ExtraPart(f))
             w == GameParts(f)
         IN /\ f.name \in Seq(Symbol) /\ f.publisher \in Seq(Symbol)
            /\ n \in Nat /\ p \in Nat /\ x \in Nat
            /\ Len(w) = n + p + x + 4
            /\ w[2] = f.titleid
            /\ \A i \in 1 .. n : w[i + 3] = EncodedText(f.name)[i]
            /\ w[n + 4] = "&publisher="
            /\ \A i \in 1 .. p : w[n + 4 + i] = EncodedText(f.publisher)[i]
            /\ \A i \in 1 .. x : w[n + p + 4 + i] = ExtraPart(f)[i]
<1> DEFINE n == Len(f.name)
           p == Len(f.publisher)
           X == ExtraPart(f)
           x == Len(X)
           N == EncodedText(f.name)
           P == EncodedText(f.publisher)
           H == <<"titleid=", f.titleid, "&name=">>
           S == <<"&publisher=">>
           w1 == H \o N
           w2 == w1 \o S
           w3 == w2 \o P
           w == w3 \o X
<1>1. f.name \in Seq(Symbol) /\ f.publisher \in Seq(Symbol) /\ f.titleid \in Title
  BY RequestsAssumption DEF SetForm, GameFields
<1>2. n \in Nat /\ N \in Seq(Item) /\ Len(N) = n
  BY <1>1, TextEncoding, SeqMonotonic, LenProperties DEF Item
<1>3. p \in Nat /\ P \in Seq(Item) /\ Len(P) = p
  BY <1>1, TextEncoding, SeqMonotonic, LenProperties DEF Item
<1>4. X \in Seq(Item) /\ x \in Nat
  BY ExtraLayout, LenProperties
<1>5. H \in Seq(Item) /\ Len(H) = 3 /\ H[2] = f.titleid
  BY <1>1 DEF Item, Separator
<1>6. S \in Seq(Item) /\ Len(S) = 1 /\ S[1] = "&publisher="
  BY DEF Item, Separator
<1>7. GameParts(f) = w
  BY DEF GameParts
<1> HIDE DEF n, p, X, x, N, P, H, S
<1>8. /\ w1 \in Seq(Item) /\ Len(w1) = Len(H) + Len(N)
      /\ \A i \in 1 .. Len(H) : w1[i] = H[i]
      /\ \A i \in 1 .. Len(N) : w1[Len(H) + i] = N[i]
  BY <1>2, <1>5, Joined
<1> HIDE DEF w1
<1>9. /\ w2 \in Seq(Item) /\ Len(w2) = Len(w1) + Len(S)
      /\ \A i \in 1 .. Len(w1) : w2[i] = w1[i]
      /\ \A i \in 1 .. Len(S) : w2[Len(w1) + i] = S[i]
  BY <1>6, <1>8, Joined
<1> HIDE DEF w2
<1>10. /\ w3 \in Seq(Item) /\ Len(w3) = Len(w2) + Len(P)
       /\ \A i \in 1 .. Len(w2) : w3[i] = w2[i]
       /\ \A i \in 1 .. Len(P) : w3[Len(w2) + i] = P[i]
  BY <1>3, <1>9, Joined
<1> HIDE DEF w3
<1>11. /\ Len(w) = Len(w3) + Len(X)
       /\ \A i \in 1 .. Len(w3) : w[i] = w3[i]
       /\ \A i \in 1 .. Len(X) : w[Len(w3) + i] = X[i]
  BY <1>4, <1>10, Joined
<1> HIDE DEF w
<1>12. /\ Len(w1) = n + 3 /\ Len(w2) = n + 4 /\ Len(w3) = n + p + 4
       /\ Len(w) = n + p + x + 4 /\ Len(X) = x
  BY <1>2, <1>3, <1>4, <1>5, <1>6, <1>8, <1>9, <1>10, <1>11 DEF x
<1>13. w[2] = f.titleid
  <2>1. 2 \in 1 .. 3 /\ 2 \in 1 .. n + 3 /\ 2 \in 1 .. n + 4 /\ 2 \in 1 .. n + p + 4
    BY <1>2, <1>3
  <2> QED BY <1>5, <1>8, <1>9, <1>10, <1>11, <1>12, <2>1
<1>14. ASSUME NEW i \in 1 .. n PROVE w[i + 3] = N[i]
  <2>1. /\ i + 3 = 3 + i /\ 3 + i \in 1 .. n + 3 /\ 3 + i \in 1 .. n + 4
        /\ 3 + i \in 1 .. n + p + 4
    BY <1>2, <1>3
  <2> QED BY <1>2, <1>5, <1>8, <1>9, <1>10, <1>11, <1>12, <2>1
<1>15. w[n + 4] = "&publisher="
  <2>1. n + 4 = (n + 3) + 1 /\ n + 4 \in 1 .. n + 4 /\ n + 4 \in 1 .. n + p + 4 /\ 1 \in 1 .. 1
    BY <1>2, <1>3
  <2> QED BY <1>6, <1>9, <1>10, <1>11, <1>12, <2>1
<1>16. ASSUME NEW i \in 1 .. p PROVE w[n + 4 + i] = P[i]
  <2>1. n + 4 + i \in 1 .. n + p + 4
    BY <1>2, <1>3
  <2> QED BY <1>3, <1>10, <1>11, <1>12, <2>1
<1>17. ASSUME NEW i \in 1 .. x PROVE w[n + p + 4 + i] = X[i]
  BY <1>11, <1>12
<1> QED BY <1>1, <1>2, <1>3, <1>4, <1>7, <1>12, <1>13, <1>14, <1>15, <1>16, <1>17
        DEF n, p, X, x, N, P

\* Two games with the same text are one: the separators stand where they stand,
\* as no symbol of a name or a publisher is encoded as one.
LEMMA GameUnique ==
  ASSUME NEW f \in SetForm, NEW g \in SetForm, GameFields(f), GameFields(g),
         GameParts(f) = GameParts(g)
  PROVE  f = g
<1> DEFINE n == Len(f.name)
           m == Len(g.name)
           p == Len(f.publisher)
           q == Len(g.publisher)
           x == Len(ExtraPart(f))
           y == Len(ExtraPart(g))
           w == GameParts(f)
<1>1. /\ n \in Nat /\ p \in Nat /\ x \in Nat
      /\ f.name \in Seq(Symbol) /\ f.publisher \in Seq(Symbol)
      /\ w[2] = f.titleid /\ Len(w) = n + p + x + 4
      /\ \A i \in 1 .. n : w[i + 3] = EncodedText(f.name)[i]
      /\ w[n + 4] = "&publisher="
      /\ \A i \in 1 .. p : w[n + 4 + i] = EncodedText(f.publisher)[i]
      /\ \A i \in 1 .. x : w[n + p + 4 + i] = ExtraPart(f)[i]
  BY GameLayout
<1>2. /\ m \in Nat /\ q \in Nat /\ y \in Nat
      /\ g.name \in Seq(Symbol) /\ g.publisher \in Seq(Symbol)
      /\ w[2] = g.titleid /\ Len(w) = m + q + y + 4
      /\ \A i \in 1 .. m : w[i + 3] = EncodedText(g.name)[i]
      /\ w[m + 4] = "&publisher="
      /\ \A i \in 1 .. q : w[m + 4 + i] = EncodedText(g.publisher)[i]
      /\ \A i \in 1 .. y : w[m + q + 4 + i] = ExtraPart(g)[i]
  <2> DEFINE v == GameParts(g)
  <2>1. w = v
    OBVIOUS
  <2>2. /\ m \in Nat /\ q \in Nat /\ y \in Nat
        /\ g.name \in Seq(Symbol) /\ g.publisher \in Seq(Symbol)
        /\ v[2] = g.titleid /\ Len(v) = m + q + y + 4
        /\ \A i \in 1 .. m : v[i + 3] = EncodedText(g.name)[i]
        /\ v[m + 4] = "&publisher="
        /\ \A i \in 1 .. q : v[m + 4 + i] = EncodedText(g.publisher)[i]
        /\ \A i \in 1 .. y : v[m + q + 4 + i] = ExtraPart(g)[i]
    BY GameLayout
  <2> HIDE DEF v, w, m, q, y
  <2> QED BY <2>1, <2>2
<1>3. /\ \A i \in 1 .. n : EncodedText(f.name)[i] \in Sent
      /\ \A i \in 1 .. m : EncodedText(g.name)[i] \in Sent
      /\ \A i \in 1 .. p : EncodedText(f.publisher)[i] \in Sent
      /\ \A i \in 1 .. q : EncodedText(g.publisher)[i] \in Sent
  BY <1>1, <1>2, TextEncoding, ElementOfSeq, SymbolEncoding
<1>4. "&publisher=" \notin Sent /\ "&extra=" \notin Sent
  BY DEF Sent
<1> HIDE DEF n, m, p, q, x, y, w
<1>5. /\ \A j \in 4 .. n + 3 : w[j] \in Sent
      /\ \A j \in 4 .. m + 3 : w[j] \in Sent
  <2>1. ASSUME NEW j \in 4 .. n + 3 PROVE w[j] \in Sent
    <3>1. j - 3 \in 1 .. n /\ (j - 3) + 3 = j
      BY <1>1
    <3>2. w[(j - 3) + 3] = EncodedText(f.name)[j - 3]
      BY <1>1, <3>1
    <3> QED BY <1>3, <3>1, <3>2
  <2>2. ASSUME NEW j \in 4 .. m + 3 PROVE w[j] \in Sent
    <3>1. j - 3 \in 1 .. m /\ (j - 3) + 3 = j
      BY <1>2
    <3>2. w[(j - 3) + 3] = EncodedText(g.name)[j - 3]
      BY <1>2, <3>1
    <3> QED BY <1>3, <3>1, <3>2
  <2> QED BY <2>1, <2>2
<1>6. n = m
  <2>1. n < m => n + 4 \in 4 .. m + 3
    BY <1>1, <1>2
  <2>2. m < n => m + 4 \in 4 .. n + 3
    BY <1>1, <1>2
  <2>3. w[n + 4] \notin Sent /\ w[m + 4] \notin Sent
    BY <1>1, <1>2, <1>4
  <2>4. ~(n < m) /\ ~(m < n)
    BY <1>5, <2>1, <2>2, <2>3
  <2> QED BY <1>1, <1>2, <2>4
<1>7. f.name = g.name
  <2>1. EncodedText(f.name) = EncodedText(g.name)
    <3>1. \A i \in 1 .. n : EncodedText(f.name)[i] = EncodedText(g.name)[i]
      BY <1>1, <1>2, <1>6
    <3>2. Len(EncodedText(f.name)) = n /\ Len(EncodedText(g.name)) = n
      BY <1>1, <1>2, <1>6, TextEncoding DEF n, m
    <3>3. EncodedText(f.name) \in Seq(Sent) /\ EncodedText(g.name) \in Seq(Sent)
      BY <1>1, <1>2, TextEncoding
    <3> QED BY <3>1, <3>2, <3>3, SeqEqual
  <2> QED BY <1>1, <1>2, <2>1, EncodingInjective
\* Behind the publisher comes nothing or the word of the extra text.
<1>8. /\ x = 0 \/ ExtraPart(f)[1] = "&extra="
      /\ y = 0 \/ ExtraPart(g)[1] = "&extra="
  BY ExtraLayout DEF x, y
<1>9. /\ \A j \in n + 5 .. n + p + 4 : w[j] \in Sent
      /\ \A j \in m + 5 .. m + q + 4 : w[j] \in Sent
  <2>1. ASSUME NEW j \in n + 5 .. n + p + 4 PROVE w[j] \in Sent
    <3> DEFINE i == j - (n + 4)
    <3>1. i \in 1 .. p /\ n + 4 + i = j
      BY <1>1
    <3> HIDE DEF i
    <3>2. w[n + 4 + i] = EncodedText(f.publisher)[i]
      BY <1>1, <3>1
    <3> QED BY <1>3, <3>1, <3>2
  <2>2. ASSUME NEW j \in m + 5 .. m + q + 4 PROVE w[j] \in Sent
    <3> DEFINE i == j - (m + 4)
    <3>1. i \in 1 .. q /\ m + 4 + i = j
      BY <1>2
    <3> HIDE DEF i
    <3>2. w[m + 4 + i] = EncodedText(g.publisher)[i]
      BY <1>2, <3>1
    <3> QED BY <1>3, <3>1, <3>2
  <2> QED BY <2>1, <2>2
<1>10. /\ x # 0 => w[n + p + 4 + 1] \notin Sent
       /\ y # 0 => w[m + q + 4 + 1] \notin Sent
  <2>1. x # 0 => 1 \in 1 .. x
    BY <1>1
  <2>2. y # 0 => 1 \in 1 .. y
    BY <1>2
  <2>3. x # 0 => w[n + p + 4 + 1] = ExtraPart(f)[1]
    BY <1>1, <2>1
  <2>4. y # 0 => w[m + q + 4 + 1] = ExtraPart(g)[1]
    BY <1>2, <2>2
  <2> QED BY <1>4, <1>8, <2>3, <2>4
<1>11. p = q
  <2>1. CASE p < q
    <3>1. n + p + 4 + 1 \in m + 5 .. m + q + 4 /\ x # 0
      BY <1>1, <1>2, <1>6, <2>1
    <3> QED BY <1>9, <1>10, <3>1
  <2>2. CASE q < p
    <3>1. m + q + 4 + 1 \in n + 5 .. n + p + 4 /\ y # 0
      BY <1>1, <1>2, <1>6, <2>2
    <3> QED BY <1>9, <1>10, <3>1
  <2> QED BY <1>1, <1>2, <2>1, <2>2
<1>12. f.publisher = g.publisher
  <2>1. EncodedText(f.publisher) = EncodedText(g.publisher)
    <3>1. \A i \in 1 .. p : EncodedText(f.publisher)[i] = EncodedText(g.publisher)[i]
      BY <1>1, <1>2, <1>6, <1>11
    <3>2. Len(EncodedText(f.publisher)) = p /\ Len(EncodedText(g.publisher)) = p
      BY <1>1, <1>2, <1>11, TextEncoding DEF p, q
    <3>3. EncodedText(f.publisher) \in Seq(Sent) /\ EncodedText(g.publisher) \in Seq(Sent)
      BY <1>1, <1>2, TextEncoding
    <3> QED BY <3>1, <3>2, <3>3, SeqEqual
  <2> QED BY <1>1, <1>2, <2>1, EncodingInjective
<1>13. x = y
  BY <1>1, <1>2, <1>6, <1>11
<1>14. \A i \in 1 .. x : ExtraPart(f)[i] = ExtraPart(g)[i]
  BY <1>1, <1>2, <1>6, <1>11, <1>13
<1>15. f.extra = g.extra
  <2>1. CASE x = 0
    <3>1. f.extra # Absent => x = Len(f.extra) + 1 /\ Len(f.extra) \in Nat
      BY ExtraLayout, LenProperties DEF x
    <3>2. g.extra # Absent => y = Len(g.extra) + 1 /\ Len(g.extra) \in Nat
      BY ExtraLayout, LenProperties DEF y
    <3> QED BY <1>13, <2>1, <3>1, <3>2
  <2>2. CASE x # 0
    <3>1. f.extra # Absent /\ g.extra # Absent
      BY <1>13, <2>2, ExtraLayout DEF x, y
    <3>2. /\ f.extra \in Seq(Symbol) /\ g.extra \in Seq(Symbol)
          /\ x = Len(f.extra) + 1 /\ x = Len(g.extra) + 1
      BY <1>13, <3>1, ExtraLayout DEF x, y
    <3>3. Len(f.extra) \in Nat /\ Len(f.extra) = Len(g.extra)
      BY <3>2, LenProperties
    <3>4. \A i \in 1 .. Len(f.extra) : i + 1 \in 1 .. x
      BY <3>2, <3>3
    <3>5. \A i \in 1 .. Len(f.extra) : EncodedText(f.extra)[i] = EncodedText(g.extra)[i]
      BY <1>14, <3>1, <3>3, <3>4, ExtraLayout
    <3>6. EncodedText(f.extra) = EncodedText(g.extra)
      BY <3>2, <3>3, <3>5, TextEncoding, SeqEqual
    <3> QED BY <3>2, <3>6, EncodingInjective
  <2> QED BY <2>1, <2>2
<1>16. f.titleid = g.titleid
  BY <1>1, <1>2
<1> QED BY <1>7, <1>12, <1>15, <1>16 DEF SetForm

(***************************************************************************)
(* The signed text and the text the server rebuilds.                       *)
(***************************************************************************)

\* What the checks let pass: hexadecimal titles, and a game with all its fields.
LEMMA ValidForms ==
  ASSUME NEW f \in ValidForm
  PROVE  \/ f \in SetForm /\ f.route = "set" /\ GameFields(f)
         \/ f \in SetForm /\ f.route = "set" /\ ~AnyField(f)
         \/ f \in ScriptForm /\ f.route = "script"
         \/ f \in BareForm /\ f.route \in {"heartbeat", "logout"}
<1>1. CASE f \in SetForm
  <2>1. f.route = "set" /\ Failed(f) = {}
    BY <1>1 DEF SetForm, ValidForm, Valid
  <2>2. /\ 7 \in DOMAIN Checks(f)
        /\ Checks(f)[7].passed = (AnyField(f) => GameFields(f))
    BY <2>1 DEF Checks, Check
  <2>3. AnyField(f) => GameFields(f)
    BY <2>1, <2>2 DEF Failed
  <2> QED BY <1>1, <2>1, <2>3
<1>2. CASE f \in ScriptForm
  BY <1>2 DEF ScriptForm
<1>3. CASE f \in BareForm
  BY <1>3 DEF BareForm
<1> QED BY <1>1, <1>2, <1>3 DEF ValidForm, Form

LEMMA GameTexts ==
  ASSUME NEW f \in SetForm, f.route = "set", GameFields(f)
  PROVE  ~Fieldless(f) /\ SignedText(f) = GameParts(f) /\ FieldText(f) = GameParts(f)
<1>1. f.name \in Seq(Symbol) /\ f.publisher \in Seq(Symbol) /\ AnyField(f)
  BY RequestsAssumption DEF SetForm, GameFields, AnyField
<1>2. ~Fieldless(f)
  BY <1>1 DEF Fieldless
<1>3. FieldText(f) = GameParts(f)
  BY DEF FieldText, GameText, ExtraText, GameParts, ExtraPart
<1>4. f.extra # Absent => ConsoleText(f.extra) = EncodedText(f.extra)
  BY TextEncoding, RequestsAssumption DEF SetForm
<1>5. ConsoleText(f.name) = EncodedText(f.name) /\ ConsoleText(f.publisher) = EncodedText(f.publisher)
  BY <1>1, TextEncoding
<1>6. SignedText(f) = GameParts(f)
  BY <1>2, <1>4, <1>5 DEF SignedText, GameParts, ExtraPart
<1> QED BY <1>2, <1>3, <1>6

LEMMA EmptyTexts ==
  ASSUME NEW f \in SetForm, f.route = "set", ~AnyField(f)
  PROVE  Fieldless(f) /\ SignedText(f) = <<>> /\ FieldText(f) = <<>>
<1>1. Fieldless(f) /\ ~GameFields(f) /\ f.extra = Absent
  BY DEF Fieldless, GameFields, AnyField
<1> QED BY <1>1 DEF SignedText, FieldText, GameText, ExtraText

LEMMA BareTexts ==
  /\ \A f \in ScriptForm : /\ SignedText(f) = <<"titleid=", f.titleid>>
                           /\ FieldText(f) = <<"titleid=", f.titleid>>
  /\ \A f \in BareForm : f.route = "logout" =>
       SignedText(f) = <<"logout">> /\ FieldText(f) = <<"logout">>
  /\ \A f \in BareForm : f.route = "heartbeat" =>
       Fieldless(f) /\ SignedText(f) = <<>> /\ FieldText(f) = <<>>
BY DEF ScriptForm, BareForm, SignedText, FieldText, Fieldless

\* The server rebuilds the text that the console signed.
LEMMA SignedIsRebuilt == \A f \in ValidForm : SignedText(f) = FieldText(f)
BY ValidForms, GameTexts, EmptyTexts, BareTexts

\* A form is known by its text, but for the two that have none.
LEMMA FormOfText ==
  ASSUME NEW f \in ValidForm, NEW g \in ValidForm, FieldText(f) = FieldText(g)
  PROVE  f = g \/ (Fieldless(f) /\ Fieldless(g))
<1> DEFINE IsGame(h) == h \in SetForm /\ h.route = "set" /\ GameFields(h)
           IsScript(h) == h \in ScriptForm /\ h.route = "script"
           IsLogout(h) == h \in BareForm /\ h.route = "logout"
<1>1. \A h \in ValidForm : \/ IsGame(h) \/ IsScript(h) \/ IsLogout(h)
                           \/ Fieldless(h) /\ FieldText(h) = <<>>
  BY ValidForms, EmptyTexts, BareTexts
<1>2. ASSUME NEW h, IsGame(h) PROVE Len(FieldText(h)) \in Nat /\ Len(FieldText(h)) >= 4
  <2> DEFINE n == Len(h.name)
             p == Len(h.publisher)
             x == Len(ExtraPart(h))
  <2>1. n \in Nat /\ p \in Nat /\ x \in Nat /\ Len(GameParts(h)) = n + p + x + 4
    BY <1>2, GameLayout
  <2>2. FieldText(h) = GameParts(h)
    BY <1>2, GameTexts
  <2> HIDE DEF n, p, x
  <2> QED BY <2>1, <2>2
<1>3. ASSUME NEW h, IsScript(h) PROVE Len(FieldText(h)) = 2
  BY <1>3, BareTexts
<1>4. ASSUME NEW h, IsLogout(h) PROVE Len(FieldText(h)) = 1
  BY <1>4, BareTexts
<1>5. ASSUME NEW h, FieldText(h) = <<>> PROVE Len(FieldText(h)) = 0
  BY <1>5
<1>6. IsGame(f) /\ IsGame(g) => f = g
  BY GameTexts, GameUnique
<1>7. IsScript(f) /\ IsScript(g) => f = g
  BY BareTexts DEF ScriptForm
<1>8. IsLogout(f) /\ IsLogout(g) => f = g
  BY DEF BareForm
<1> HIDE DEF IsGame, IsScript, IsLogout
<1> DEFINE l == Len(FieldText(f))
<1>9. /\ IsGame(f) => l \in Nat /\ l >= 4
      /\ IsScript(f) => l = 2
      /\ IsLogout(f) => l = 1
      /\ FieldText(f) = <<>> => l = 0
  BY <1>2, <1>3, <1>4, <1>5
<1>10. /\ IsGame(g) => l \in Nat /\ l >= 4
       /\ IsScript(g) => l = 2
       /\ IsLogout(g) => l = 1
       /\ FieldText(g) = <<>> => l = 0
  BY <1>2, <1>3, <1>4, <1>5
<1> HIDE DEF l
<1> QED BY <1>1, <1>6, <1>7, <1>8, <1>9, <1>10

(***************************************************************************)
(* The codes of the checks.                                                *)
(***************************************************************************)

CheckCode == {"invalid_titleid", "missing_name", "invalid_name", "missing_publisher",
              "invalid_publisher", "invalid_extra", "incomplete_fields"}

LEMMA CodesOfChecks ==
  ASSUME NEW f \in Form
  PROVE  /\ DOMAIN Checks(f) \subseteq 1 .. 7
         /\ \A i \in DOMAIN Checks(f) : Checks(f)[i].code \in CheckCode
<1>1. f.route \in {"set", "script", "heartbeat", "logout"}
  BY DEF Form, SetForm, ScriptForm, BareForm
<1>2. CASE f.route = "set"
  BY <1>2 DEF Checks, Check, CheckCode
<1>3. CASE f.route = "script"
  BY <1>3 DEF Checks, Check, CheckCode
<1>4. CASE f.route \in {"heartbeat", "logout"}
  BY <1>4 DEF Checks
<1> QED BY <1>1, <1>2, <1>3, <1>4

\* A set of up to seven checks has a first.
LEMMA FirstOfSeven ==
  ASSUME NEW F \in SUBSET (1 .. 7), F # {}
  PROVE  \E i \in F : \A j \in F : i <= j
<1>1. PICK k \in F : k \in 1 .. 7
  OBVIOUS
<1>2. CASE 1 \in F
  BY <1>2
<1>3. CASE 1 \notin F /\ 2 \in F
  BY <1>3
<1>4. CASE {1, 2} \cap F = {} /\ 3 \in F
  BY <1>4
<1>5. CASE {1, 2, 3} \cap F = {} /\ 4 \in F
  BY <1>5
<1>6. CASE {1, 2, 3, 4} \cap F = {} /\ 5 \in F
  BY <1>6
<1>7. CASE {1, 2, 3, 4, 5} \cap F = {} /\ 6 \in F
  BY <1>7
<1>8. CASE {1, 2, 3, 4, 5, 6} \cap F = {}
  BY <1>1, <1>8
<1> QED BY <1>2, <1>3, <1>4, <1>5, <1>6, <1>7, <1>8

LEMMA FormCodes == FormCode \subseteq CheckCode
<1> SUFFICES ASSUME NEW f \in Form, f \notin ValidForm PROVE FirstFailure(f) \in CheckCode
  BY DEF FormCode
<1>1. Failed(f) \in SUBSET (1 .. 7) /\ Failed(f) # {}
  BY CodesOfChecks DEF ValidForm, Valid, Failed
<1>2. \E i \in Failed(f) : \A j \in Failed(f) : i <= j
  BY <1>1, FirstOfSeven
<1> DEFINE first == CHOOSE i \in Failed(f) : \A j \in Failed(f) : i <= j
<1>3. first \in Failed(f)
  BY <1>2
<1>4. FirstFailure(f) = Checks(f)[first].code
  BY DEF FirstFailure
<1> HIDE DEF first
<1> QED BY <1>3, <1>4, CodesOfChecks DEF Failed

(***************************************************************************)
(* The steps.  Three lemmas say what each kind of step answers and leaves. *)
(***************************************************************************)

\* What a form does that the session accepts.
LEMMA AcceptedStep ==
  ASSUME TypeOK, NEW f \in ValidForm, Handle(f), Accepts(f)
  PROVE  /\ signed' = signed /\ session' \in Session \cup {NoSession}
         /\ \/ /\ reply' \in {"success", "error"}
               /\ session' = NoSession \/ session'.counter = session.counter + 1
            \/ /\ reply' \in {"session_expired", "token_revoked"}
               /\ session' = NoSession \/ session'.client = "invalid"
         /\ acted' = Nothing \/ (acted' = f /\ SignedText(signed.form) = FieldText(f))
<1>1. /\ session \in Session /\ session.counter + 1 \in 0 .. MaxTicks
      /\ signed' = signed /\ SignedText(signed.form) = FieldText(f)
  <2>1. signed \in Signed /\ session \in Session /\ signed.counter = session.counter + 1
    BY DEF Handle, Accepts, VerifyAuth, TypeOK
  <2>2. signed.counter \in 0 .. MaxTicks
    BY <2>1, RequestsAssumption DEF Signed
  <2> QED BY <2>1, <2>2 DEF Handle, Accepts, VerifyAuth
<1>2. /\ Ticked \in Session /\ Ticked.counter = session.counter + 1
      /\ Refreshed \in Session /\ Refreshed.counter = session.counter + 1
  BY <1>1 DEF Ticked, Refreshed, Session
<1>3. LET r == [Refreshed EXCEPT !.client = "invalid"]
      IN r \in Session /\ r.counter = session.counter + 1 /\ r.client = "invalid"
  BY <1>2 DEF Session
<1>4. CASE Refuse(f)
  BY <1>4 DEF Refuse, Accepts
<1>5. CASE SetActivity(f)
  BY <1>1, <1>2, <1>3, <1>5 DEF SetActivity, DeadClient, Success, Answer, CodeOfOther
<1>6. CASE Heartbeat(f)
  BY <1>1, <1>2, <1>6 DEF Heartbeat, DeadClient, Success, Answer
<1>7. CASE GetScript(f) \/ Logout(f)
  BY <1>1, <1>2, <1>7 DEF GetScript, Logout, Success, Answer
<1> QED BY <1>4, <1>5, <1>6, <1>7 DEF Handle

\* What it does that is refused: nothing.
LEMMA RefusedStep ==
  ASSUME NEW f \in ValidForm, Handle(f), ~Accepts(f)
  PROVE  /\ UNCHANGED <<signed, session>> /\ acted' = Nothing
         /\ \/ reply' = "session_expired" /\ session = NoSession
            \/ reply' = "cooldown"
            \/ reply' = "auth_failed" /\ ~VerifyAuth(f)
BY DEF Handle, Refuse, Answer

LEMMA OtherStep ==
  ASSUME TypeOK, [Next]_vars, ~\E f \in ValidForm : Handle(f)
  PROVE  \/ UNCHANGED vars
         \/ reply' \in FormCode /\ acted' = Nothing /\ UNCHANGED <<session, signed>>
         \/ /\ reply' = "none" /\ acted' = Nothing
            /\ session' \in Session \cup {NoSession} /\ signed' \in Signed \cup {Nothing}
<1>1. ASSUME NEW code \in FormCode, Reject(code)
      PROVE  reply' \in FormCode /\ acted' = Nothing /\ UNCHANGED <<session, signed>>
  BY <1>1 DEF Reject, Answer
<1> USE DEF TypeOK, Silent
<1>2. ASSUME NEW r \in Signed, Sign(r)
      PROVE  /\ reply' = "none" /\ acted' = Nothing
             /\ session' \in Session \cup {NoSession} /\ signed' \in Signed \cup {Nothing}
  BY <1>2 DEF Sign
<1>3. ASSUME Login
      PROVE  /\ reply' = "none" /\ acted' = Nothing
             /\ session' \in Session \cup {NoSession} /\ signed' \in Signed \cup {Nothing}
  BY <1>3, RequestsAssumption DEF Login, Session
<1>4. ASSUME CooldownEnds \/ Sweep
      PROVE  /\ reply' = "none" /\ acted' = Nothing
             /\ session' \in Session \cup {NoSession} /\ signed' \in Signed \cup {Nothing}
  BY <1>4 DEF CooldownEnds, Sweep, Session
<1>5. ASSUME NEW status \in {"invalid", "dead"}, ClientFails(status)
      PROVE  /\ reply' = "none" /\ acted' = Nothing
             /\ session' \in Session \cup {NoSession} /\ signed' \in Signed \cup {Nothing}
  BY <1>5 DEF ClientFails, Session
<1> QED BY <1>1, <1>2, <1>3, <1>4, <1>5 DEF Next

(***************************************************************************)
(* The theorems.                                                           *)
(***************************************************************************)

\* No code of a check is one of the codes that the session store answers with.
LEMMA CodesApart ==
  FormCode \cap {"none", "success", "session_expired", "token_revoked",
                 "auth_failed", "cooldown", "error"} = {}
BY FormCodes DEF CheckCode

\* The session, the signed request and the answer are well typed in every reachable
\* state, for forms with texts of any length: every answer has a code that the
\* protocol knows, and the counter of a session never passes its bound.
THEOREM TypeCorrect == Spec => []TypeOK
<1>1. Init => TypeOK
  BY DEF Init, TypeOK, Reply
<1>2. TypeOK /\ [Next]_vars => TypeOK'
  <2> SUFFICES ASSUME TypeOK, [Next]_vars PROVE TypeOK'
    OBVIOUS
  <2>1. ASSUME NEW f \in ValidForm, Handle(f), Accepts(f) PROVE TypeOK'
    <3>1. f \in Form
      BY DEF ValidForm
    <3> QED BY <2>1, <3>1, AcceptedStep DEF TypeOK, Reply
  <2>2. ASSUME NEW f \in ValidForm, Handle(f), ~Accepts(f) PROVE TypeOK'
    BY <2>2, RefusedStep DEF TypeOK, Reply
  <2>3. CASE ~\E f \in ValidForm : Handle(f)
    BY <2>3, OtherStep DEF TypeOK, Reply, vars
  <2> QED BY <2>1, <2>2, <2>3
<1> QED BY <1>1, <1>2, PTL DEF Spec

\* What the server does is what the console signed: the fields are hashed one
\* behind the other, but two forms with one text are the same form, or both have
\* no field at all.  This is so for names and publishers of any length and of any
\* symbols, the words that separate the fields among them.
THEOREM SignedIsDone == Spec => []ActsAsAsked
<1>1. Init => ActsAsAsked
  BY DEF Init, ActsAsAsked
<1>2. TypeOK /\ ActsAsAsked /\ [Next]_vars => ActsAsAsked'
  <2> SUFFICES ASSUME TypeOK, ActsAsAsked, [Next]_vars PROVE ActsAsAsked'
    OBVIOUS
  <2>1. ASSUME NEW f \in ValidForm, Handle(f), Accepts(f) PROVE ActsAsAsked'
    <3>1. signed' = signed /\ signed.form \in ValidForm
      BY <2>1, AcceptedStep DEF Handle, TypeOK, Signed
    <3>2. CASE acted' = Nothing
      BY <3>2 DEF ActsAsAsked
    <3>3. CASE acted' = f /\ SignedText(signed.form) = FieldText(f)
      <4>1. FieldText(signed.form) = FieldText(f)
        BY <3>1, <3>3, SignedIsRebuilt
      <4>2. f = signed.form \/ (Fieldless(f) /\ Fieldless(signed.form))
        BY <3>1, <4>1, FormOfText
      <4> QED BY <3>1, <3>3, <4>2 DEF ActsAsAsked
    <3> QED BY <2>1, <3>2, <3>3, AcceptedStep
  <2>2. ASSUME NEW f \in ValidForm, Handle(f), ~Accepts(f) PROVE ActsAsAsked'
    BY <2>2, RefusedStep DEF ActsAsAsked
  <2>3. CASE ~\E f \in ValidForm : Handle(f)
    BY <2>3, OtherStep DEF ActsAsAsked, vars
  <2> QED BY <2>1, <2>2, <2>3
<1> QED BY <1>1, <1>2, TypeCorrect, PTL DEF Spec

\* A request that comes as it was signed, for the next counter value, is not
\* taken for a forged one: decoding the body and encoding it again gives the text
\* that the console has hashed, whatever symbols the fields hold.
THEOREM UnalteredIsAccepted == Spec => UnalteredPasses
<1> DEFINE Passes == signed # Nothing /\ session # NoSession
                     /\ signed.counter = session.counter + 1 /\ Handle(signed.form)
                     => reply' # "auth_failed"
<1>1. TypeOK /\ [Next]_vars => [Passes]_vars
  <2> SUFFICES ASSUME TypeOK, signed # Nothing, session # NoSession,
                      signed.counter = session.counter + 1, Handle(signed.form)
               PROVE  reply' # "auth_failed"
    OBVIOUS
  <2>1. signed.form \in ValidForm
    BY DEF TypeOK, Signed
  <2>2. VerifyAuth(signed.form)
    BY <2>1, SignedIsRebuilt DEF VerifyAuth
  <2>3. CASE Accepts(signed.form)
    BY <2>1, <2>3, AcceptedStep
  <2>4. CASE ~Accepts(signed.form)
    BY <2>1, <2>2, <2>4, RefusedStep
  <2> QED BY <2>3, <2>4
<1> QED BY <1>1, TypeCorrect, PTL DEF Spec, UnalteredPasses

\* What the code of an answer says of the counter: no check of a form is answered
\* with a code of the store, so a console that counts on after "success" and
\* "error" alone is never out of step with its session.
THEOREM AnswerTellsTick == Spec => ReplyTellsTick
<1> DEFINE Tells ==
      /\ reply' \in FormCode \cup {"auth_failed", "cooldown"} => session' = session
      /\ reply' \in {"success", "error"} =>
           session' = NoSession \/ session'.counter = session.counter + 1
<1>1. TypeOK /\ [Next]_vars => [Tells]_vars
  <2> SUFFICES ASSUME TypeOK, [Next]_vars, ~UNCHANGED vars PROVE Tells
    OBVIOUS
  <2>1. ASSUME NEW f \in ValidForm, Handle(f), Accepts(f) PROVE Tells
    BY <2>1, AcceptedStep, CodesApart
  <2>2. ASSUME NEW f \in ValidForm, Handle(f), ~Accepts(f) PROVE Tells
    BY <2>2, RefusedStep, CodesApart
  <2>3. CASE ~\E f \in ValidForm : Handle(f)
    BY <2>3, OtherStep, CodesApart
  <2> QED BY <2>1, <2>2, <2>3
<1> QED BY <1>1, TypeCorrect, PTL DEF Spec, ReplyTellsTick

\* A console that is told to log in anew has no session that it could still use.
THEOREM AnswerOrdersLogin == Spec => ReloginIsNeeded
<1> DEFINE Needed == reply' \in {"session_expired", "token_revoked"} =>
                       session' = NoSession \/ session'.client = "invalid"
<1>1. TypeOK /\ [Next]_vars => [Needed]_vars
  <2> SUFFICES ASSUME TypeOK, [Next]_vars, ~UNCHANGED vars PROVE Needed
    OBVIOUS
  <2>1. ASSUME NEW f \in ValidForm, Handle(f), Accepts(f) PROVE Needed
    BY <2>1, AcceptedStep
  <2>2. ASSUME NEW f \in ValidForm, Handle(f), ~Accepts(f) PROVE Needed
    BY <2>2, RefusedStep
  <2>3. CASE ~\E f \in ValidForm : Handle(f)
    BY <2>3, OtherStep, CodesApart
  <2> QED BY <2>1, <2>2, <2>3
<1> QED BY <1>1, TypeCorrect, PTL DEF Spec, ReloginIsNeeded
=============================================================================
