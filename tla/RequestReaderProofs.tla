------------------------- MODULE RequestReaderProofs -------------------------
(***************************************************************************)
(* What holds of how a connection's bytes become a request, and a request  *)
(* its answer, for every buffer, every cut of the reads, every request and *)
(* every configuration.                                                    *)
(***************************************************************************)
EXTENDS RequestReader, SequenceTheorems, FiniteSetTheorems, WellFoundedInduction, TLAPS

\* The symbols of a request.  The provers do not know of a string that it is one, so
\* those the model names are named.
Symbols == STRING \cup {"CR", "LF", ":", " ", "HTTP"}

\* What is sent, and what is made of it.
Texts == Seq(Symbols)

-----------------------------------------------------------------------------
(* Numbers and the least of them. *)

\* Induction over the numbers in the form that needs no predicate: a set of them
\* has a least one.
LEMMA LeastNumber ==
  ASSUME NEW T, T \subseteq Nat, T # {}
  PROVE  \E n \in T : \A m \in T : n <= m
  <1> DEFINE less == {pair \in Nat \X Nat : pair[1] < pair[2]}
  <1>1. OpToRel(<, Nat) = less
    BY Zenon DEF OpToRel
  <1>2. \E n \in T : \A m \in T : ~(<<m, n>> \in OpToRel(<, Nat))
    BY NatLessThanWellFounded, WFMin
  <1> HIDE DEF less
  <1>3. PICK n \in T : \A m \in T : ~(<<m, n>> \in less)
    BY <1>1, <1>2, Zenon
  <1>4. ASSUME NEW m \in T PROVE n <= m
    <2>1. m \in Nat /\ n \in Nat
      OBVIOUS
    <2>2. ~(<<m, n>> \in less)
      BY <1>3
    <2>3. ~(m < n)
      BY <2>1, <2>2 DEF less
    <2> QED BY <2>1, <2>3
  <1> QED BY <1>4

\* Min of a set of numbers is in it, and nothing in it is less.
LEMMA MinIs ==
  ASSUME NEW T, T \subseteq Nat, T # {}
  PROVE  Min(T) \in T /\ \A n \in T : Min(T) <= n
  BY LeastNumber, Zenon DEF Min

\* What a set of numbers starts at is its Min.
LEMMA MinFound ==
  ASSUME NEW T, T \subseteq Nat, NEW m \in T, \A n \in T : m <= n
  PROVE  Min(T) = m
  <1>1. Min(T) \in T /\ \A n \in T : Min(T) <= n
    BY MinIs
  <1>2. Min(T) <= m /\ m <= Min(T) /\ Min(T) \in Nat /\ m \in Nat
    BY <1>1
  <1> QED BY <1>2

\* Max of a set of numbers up to k, with k in it, is k.
LEMMA MaxFound ==
  ASSUME NEW k \in Nat, NEW T, T \subseteq 0 .. k, k \in T
  PROVE  Max(T) = k
  <1>1. \E x \in T : \A y \in T : x >= y
    OBVIOUS
  <1>2. Max(T) \in T /\ \A y \in T : Max(T) >= y
    BY <1>1, Zenon DEF Max
  <1>3. Max(T) \in 0 .. k /\ Max(T) >= k
    BY <1>2
  <1> HIDE DEF Max
  <1> QED BY <1>3

-----------------------------------------------------------------------------
(* Folds. *)

\* What a fold over n elements makes of each set of indices, if step says what one more
\* element makes of what was made of those before it.
Folds(iter, n, V, base, step) ==
  /\ iter \in [SUBSET (1 .. n) -> V]
  /\ \A s \in SUBSET (1 .. n) :
       iter[s] = IF s = {} THEN base ELSE step[<<Max(s), iter[s \ {Max(s)}]>>]

\* There is such a function, as long as the steps stay in a set V.
LEMMA FoldExists ==
  ASSUME NEW n \in Nat, NEW V, NEW base \in V, NEW step, step \in [(1 .. n) \X V -> V]
  PROVE  \E iter : Folds(iter, n, V, base, step)
  <1> DEFINE Is(f, k) == /\ f \in [SUBSET (1 .. k) -> V]
                         /\ \A s \in SUBSET (1 .. k) :
                              f[s] = IF s = {} THEN base ELSE step[<<Max(s), f[s \ {Max(s)}]>>]
             Good(k) == \E f : Is(f, k)
             bad == {k \in 0 .. n : ~Good(k)}
  <1>1. bad = {}
    <2> SUFFICES ASSUME bad # {} PROVE FALSE
      OBVIOUS
    <2>1. bad \subseteq Nat
      OBVIOUS
    <2>2. PICK k \in bad : \A j \in bad : k <= j
      <3> HIDE DEF bad
      <3> QED BY <2>1, LeastNumber
    <2>3. k \in 0 .. n /\ ~Good(k)
      BY <2>2
    <2>4. CASE k = 0
      <3> DEFINE f == [s \in SUBSET (1 .. 0) |-> base]
      <3>1. \A s \in SUBSET (1 .. 0) : s = {}
        OBVIOUS
      <3>2. Is(f, 0)
        BY <3>1
      <3> QED BY <2>3, <2>4, <3>2
    <2>5. CASE k # 0
      <3> DEFINE j == k - 1
      <3>1. j \in 0 .. n /\ ~(k <= j) /\ k \in 1 .. n /\ j + 1 = k
        BY <2>3, <2>5
      <3>2. Good(j)
        <4>1. j \notin bad
          BY <2>2, <3>1
        <4> QED BY <3>1, <4>1
      <3> HIDE DEF j, bad
      <3>3. PICK f : Is(f, j)
        BY <3>2
      <3> DEFINE g == [s \in SUBSET (1 .. k) |-> IF k \in s THEN step[<<k, f[s \ {k}]>>] ELSE f[s]]
      <3>4. ASSUME NEW s \in SUBSET (1 .. k) PROVE s \ {k} \in SUBSET (1 .. j)
        BY <3>1
      <3>5. ASSUME NEW s \in SUBSET (1 .. k), k \notin s PROVE s \in SUBSET (1 .. j)
        BY <3>1, <3>5
      <3>6. \A s \in SUBSET (1 .. j) : s \in SUBSET (1 .. k) /\ k \notin s /\ g[s] = f[s]
        BY <3>1
      <3>7. g \in [SUBSET (1 .. k) -> V]
        <4>1. ASSUME NEW s \in SUBSET (1 .. k), k \in s PROVE step[<<k, f[s \ {k}]>>] \in V
          BY <3>1, <3>3, <3>4
        <4>2. ASSUME NEW s \in SUBSET (1 .. k), k \notin s PROVE f[s] \in V
          BY <3>3, <3>5, <4>2
        <4> QED BY <4>1, <4>2
      <3>8. ASSUME NEW s \in SUBSET (1 .. k)
            PROVE  g[s] = IF s = {} THEN base ELSE step[<<Max(s), g[s \ {Max(s)}]>>]
        <4>1. CASE k \in s
          <5>1. Max(s) = k
            <6>1. s \subseteq 0 .. k /\ k \in Nat
              BY <3>1
            <6> QED BY <4>1, <6>1, MaxFound
          <5>2. g[s] = step[<<k, f[s \ {k}]>>]
            BY <4>1
          <5>3. g[s \ {k}] = f[s \ {k}]
            BY <3>4, <3>6
          <5> HIDE DEF g
          <5> QED BY <4>1, <5>1, <5>2, <5>3
        <4>2. CASE k \notin s
          <5>1. s \in SUBSET (1 .. j) /\ g[s] = f[s]
            BY <3>5, <4>2
          <5>2. s \ {Max(s)} \in SUBSET (1 .. j)
            BY <5>1
          <5>3. g[s \ {Max(s)}] = f[s \ {Max(s)}]
            BY <3>6, <5>2
          <5>4. f[s] = IF s = {} THEN base ELSE step[<<Max(s), f[s \ {Max(s)}]>>]
            BY <3>3, <5>1
          <5> HIDE DEF g
          <5> QED BY <5>1, <5>3, <5>4
        <4> QED BY <4>1, <4>2
      <3>9. Is(g, k)
        BY <3>7, <3>8
      <3> HIDE DEF Is, g
      <3> QED BY <2>3, <3>9
    <2> QED BY <2>4, <2>5
  <1>2. Good(n)
    <2>1. n \in 0 .. n
      OBVIOUS
    <2>2. ~(~Good(n))
      <3> HIDE DEF Good
      <3> QED BY <1>1, <2>1
    <2> QED BY <2>2
  <1>3. PICK f : Is(f, n)
    BY <1>2
  <1>4. Folds(f, n, V, base, step)
    BY <1>3 DEF Folds
  <1> QED BY <1>4

\* The sets a fold takes the greatest element from in turn.
LEMMA UpTo ==
  ASSUME NEW n \in Nat, NEW k \in 1 .. n
  PROVE  /\ 1 .. k \in SUBSET (1 .. n) /\ 1 .. k # {}
         /\ Max(1 .. k) = k /\ (1 .. k) \ {Max(1 .. k)} = 1 .. (k - 1)
  <1>1. k \in 1 .. k /\ 1 .. k \subseteq 0 .. k /\ k \in Nat
    OBVIOUS
  <1>2. Max(1 .. k) = k
    BY <1>1, MaxFound
  <1>3. (1 .. k) \ {k} = 1 .. (k - 1)
    OBVIOUS
  <1> QED BY <1>1, <1>2, <1>3

\* What a fold takes from a set of indices is one of them.
LEMMA MaxIn ==
  ASSUME NEW n \in Nat, NEW s \in SUBSET (1 .. n), s # {}
  PROVE  Max(s) \in 1 .. n /\ s \ {Max(s)} \in SUBSET (1 .. n)
  <1> DEFINE T == {n - k : k \in s}
  <1>1. T \subseteq Nat /\ T # {}
    OBVIOUS
  <1>2. PICK m \in T : \A j \in T : m <= j
    <2> HIDE DEF T
    <2> QED BY <1>1, LeastNumber
  <1>3. PICK x \in s : m = n - x
    BY <1>2
  <1>4. \A y \in s : x >= y
    <2> TAKE y \in s
    <2>1. n - y \in T /\ x \in 1 .. n /\ y \in 1 .. n
      BY <1>3
    <2>2. n - x <= n - y
      BY <1>2, <1>3, <2>1
    <2> QED BY <2>1, <2>2
  <1>5. Max(s) \in s
    BY <1>4, Zenon DEF Max
  <1> QED BY <1>5

-----------------------------------------------------------------------------
(* What a peer sends. *)

\* The headers of a request: keys and values.
Headers == Seq((InLine \ {":"}) \X Seq(InLine))

\* A header as it is sent is a sequence of symbols.
LEMMA HeaderType ==
  ASSUME NEW headers \in Headers, NEW k \in 1 .. Len(headers)
  PROVE  /\ headers[k][1] \in InLine \ {":"} /\ headers[k][2] \in Seq(InLine) /\ headers[k][2] \in Texts
         /\ HeaderSent(headers[k]) \in Texts
         /\ \A sent \in Texts : sent \o HeaderSent(headers[k]) \in Texts
  <1>1. headers[k] \in (InLine \ {":"}) \X Seq(InLine)
    BY ElementOfSeq DEF Headers
  <1>2. headers[k][1] \in InLine \ {":"} /\ headers[k][2] \in Seq(InLine)
    BY <1>1
  <1>3. headers[k][2] \in Texts
    <2>1. Seq(InLine) \subseteq Seq(Symbols)
      BY SeqMonotonic DEF InLine, Symbols
    <2> QED BY <1>2, <2>1 DEF Texts
  <1>4. <<headers[k][1], ":", " ">> \in Texts /\ CRLF \in Texts
    <2>1. headers[k][1] \in Symbols /\ {":", " ", "CR", "LF"} \subseteq Symbols
      BY <1>2 DEF Symbols, InLine
    <2>2. \A x, y, z \in Symbols : <<x, y>> \in Texts /\ <<x, y, z>> \in Texts
      BY DEF Texts
    <2> QED BY <2>1, <2>2 DEF CRLF
  <1>5. <<headers[k][1], ":", " ">> \o headers[k][2] \in Texts
    BY <1>3, <1>4, ConcatProperties DEF Texts
  <1>6. HeaderSent(headers[k]) \in Texts
    BY <1>4, <1>5, ConcatProperties DEF Texts, HeaderSent
  <1>7. \A sent \in Texts : sent \o HeaderSent(headers[k]) \in Texts
    BY <1>6, ConcatProperties DEF Texts
  <1> QED BY <1>2, <1>3, <1>6, <1>7

\* A peer sends the headers one after the other.
LEMMA HeadersFold ==
  ASSUME NEW headers \in Headers
  PROVE  \E g : /\ g[0] = Empty /\ HeadersSent(headers) = g[Len(headers)]
                /\ \A k \in 1 .. Len(headers) : g[k] = g[k - 1] \o HeaderSent(headers[k])
  <1> DEFINE n == Len(headers)
             V == Texts
             step == [pair \in (1 .. n) \X V |-> pair[2] \o HeaderSent(headers[pair[1]])]
             Is(f) == f = [s \in SUBSET (1 .. n) |->
                             IF s = {} THEN Empty
                             ELSE f[s \ {Max(s)}] \o HeaderSent(headers[Max(s)])]
  <1>1. n \in Nat /\ DOMAIN headers = 1 .. n
    BY LenProperties DEF Headers
  <1>2. step \in [(1 .. n) \X V -> V]
    BY HeaderType
  <1>3. \E f : Is(f)
    <2>1. Empty \in V
      BY EmptySeq DEF Empty, Texts
    <2>2. PICK f : Folds(f, n, V, Empty, step)
      <3> HIDE DEF n, V, step
      <3> QED BY <1>1, <1>2, <2>1, FoldExists
    <2>3. ASSUME NEW s \in SUBSET (1 .. n), s # {}
          PROVE  step[<<Max(s), f[s \ {Max(s)}]>>] = f[s \ {Max(s)}] \o HeaderSent(headers[Max(s)])
      <3>1. Max(s) \in 1 .. n /\ s \ {Max(s)} \in SUBSET (1 .. n)
        <4> HIDE DEF n
        <4> QED BY <1>1, <2>3, MaxIn
      <3>2. f[s \ {Max(s)}] \in V
        BY <2>2, <3>1 DEF Folds
      <3> HIDE DEF V
      <3> QED BY <3>1, <3>2
    <2> HIDE DEF step, V, n
    <2>4. \A s \in SUBSET (1 .. n) :
            f[s] = IF s = {} THEN Empty ELSE f[s \ {Max(s)}] \o HeaderSent(headers[Max(s)])
      BY <2>2, <2>3 DEF Folds
    <2>5. f = [s \in SUBSET (1 .. n) |-> f[s]]
      BY <2>2 DEF Folds
    <2>6. Is(f)
      BY <2>4, <2>5
    <2> QED BY <2>6
  <1> DEFINE f == CHOOSE f : Is(f)
  <1>4. HeadersSent(headers) = f[1 .. n]
    BY <1>1 DEF HeadersSent, FoldLeft, MapThenFoldSet
  <1>5. Is(f)
    <2> HIDE DEF Is
    <2> QED BY <1>3
  <1> HIDE DEF f
  <1>6. \A s \in SUBSET (1 .. n) : f[s] = IF s = {} THEN Empty
                                 ELSE f[s \ {Max(s)}] \o HeaderSent(headers[Max(s)])
    BY <1>5
  <1> DEFINE g == [k \in 0 .. n |-> f[1 .. k]]
  <1>7. ASSUME NEW k \in 1 .. n PROVE g[k] = g[k - 1] \o HeaderSent(headers[k])
    <2>1. /\ 1 .. k \in SUBSET (1 .. n) /\ 1 .. k # {}
          /\ Max(1 .. k) = k /\ (1 .. k) \ {Max(1 .. k)} = 1 .. (k - 1)
      <3> HIDE DEF n
      <3> QED BY <1>1, UpTo
    <2>2. f[1 .. k] = f[1 .. (k - 1)] \o HeaderSent(headers[k])
      BY <1>6, <2>1
    <2>3. k \in 0 .. n /\ k - 1 \in 0 .. n
      BY <1>1
    <2> QED BY <2>2, <2>3
  <1>8. g[0] = Empty /\ g[n] = f[1 .. n]
    <2>1. 1 .. 0 = {} /\ 0 \in 0 .. n /\ n \in 0 .. n /\ {} \in SUBSET (1 .. n)
      BY <1>1
    <2>2. f[{}] = Empty
      BY <1>6, <2>1
    <2> QED BY <2>1, <2>2
  <1> HIDE DEF g, n
  <1> QED BY <1>4, <1>7, <1>8 DEF n

-----------------------------------------------------------------------------
(* Searching and cutting symbols. *)

\* std::string::find: where the pattern stands first, or npos.
LEMMA FindIs ==
  ASSUME NEW s \in Texts, NEW pattern \in Texts, NEW p \in Nat \ {0}
  PROVE  LET hits == {q \in p .. Len(s) - Len(pattern) + 1 :
                        SubSeq(s, q, q + Len(pattern) - 1) = pattern}
         IN  /\ hits = {} => Find(s, pattern, p) = NPos
             /\ hits # {} => Find(s, pattern, p) \in hits /\ \A q \in hits : Find(s, pattern, p) <= q
  <1> DEFINE hits == {q \in p .. Len(s) - Len(pattern) + 1 :
                        SubSeq(s, q, q + Len(pattern) - 1) = pattern}
  <1>1. hits \subseteq Nat
    BY LenProperties DEF Texts
  <1>2. Find(s, pattern, p) = IF hits = {} THEN NPos ELSE Min(hits)
    BY DEF Find
  <1> HIDE DEF hits
  <1>3. hits # {} => Min(hits) \in hits /\ \A q \in hits : Min(hits) <= q
    BY <1>1, MinIs
  <1> QED BY <1>2, <1>3 DEF hits

\* What is cut out of symbols are symbols.
LEMMA CutType ==
  ASSUME NEW s \in Texts, NEW p \in Nat \ {0}, NEW q \in Int, q <= Len(s)
  PROVE  /\ SubSeq(s, p, q) \in Texts
         /\ Len(SubSeq(s, p, q)) = IF p <= q THEN q - p + 1 ELSE 0
         /\ \A i \in 1 .. q - p + 1 : SubSeq(s, p, q)[i] = s[p + i - 1]
  <1>1. \A i \in p .. q : s[i] \in Symbols
    <2> TAKE i \in p .. q
    <2>1. i \in 1 .. Len(s)
      BY LenProperties DEF Texts
    <2> QED BY <2>1, ElementOfSeq DEF Texts
  <1> QED BY <1>1, SubSeqProperties DEF Texts

\* A line end is found where its two symbols are.
LEMMA LineEnd ==
  ASSUME NEW s \in Texts, NEW p \in Nat \ {0}
  PROVE  /\ CRLF \in Texts /\ Len(CRLF) = 2
         /\ Find(s, CRLF, p) \in {0} \cup p .. Len(s) - 1
         /\ \A q \in p .. Len(s) - 1 :
              s[q] = "CR" /\ s[q + 1] = "LF" /\ (\A r \in p .. q - 1 : s[r] # "CR")
                => Find(s, CRLF, p) = q
  <1>1. CRLF \in Texts /\ Len(CRLF) = 2
    <2>1. {"CR", "LF"} \subseteq Symbols
      BY DEF Symbols
    <2>2. \A x, y \in Symbols : <<x, y>> \in Texts /\ Len(<<x, y>>) = 2
      BY DEF Texts
    <2> QED BY <2>1, <2>2 DEF CRLF
  <1> DEFINE hits == {q \in p .. Len(s) - Len(CRLF) + 1 : SubSeq(s, q, q + Len(CRLF) - 1) = CRLF}
             at == Find(s, CRLF, p)
  <1>2. /\ hits = {} => at = NPos
        /\ hits # {} => at \in hits /\ \A q \in hits : at <= q
    BY <1>1, FindIs
  <1>3. Len(s) \in Nat
    BY LenProperties DEF Texts
  <1>4. \A q : q \in hits <=> q \in p .. Len(s) - 1 /\ SubSeq(s, q, q + 1) = CRLF
    <2>1. Len(s) - Len(CRLF) + 1 = Len(s) - 1 /\ \A q \in p .. Len(s) - 1 : q + Len(CRLF) - 1 = q + 1
      BY <1>1, <1>3
    <2> HIDE DEF CRLF
    <2> QED BY <2>1
  <1>5. ASSUME NEW q \in p .. Len(s) - 1
        PROVE  SubSeq(s, q, q + 1) = CRLF <=> s[q] = "CR" /\ s[q + 1] = "LF"
    <2> DEFINE c == SubSeq(s, q, q + 1)
    <2>1. c \in Texts /\ Len(c) = 2 /\ c[1] = s[q] /\ c[2] = s[q + 1]
      <3>1. q \in Nat \ {0} /\ q + 1 \in Int /\ q + 1 <= Len(s) /\ (q + 1) - q + 1 = 2 /\ q <= q + 1
            /\ q + 1 - 1 = q /\ q + 2 - 1 = q + 1
        BY <1>3
      <3>2. Len(c) = 2 /\ c \in Texts /\ \A i \in 1 .. 2 : c[i] = s[q + i - 1]
        BY <3>1, CutType
      <3> HIDE DEF c
      <3> QED BY <3>1, <3>2
    <2>2. CRLF[1] = "CR" /\ CRLF[2] = "LF"
      BY DEF CRLF
    <2>3. \A i \in 1 .. 2 : i = 1 \/ i = 2
      OBVIOUS
    <2> HIDE DEF c, CRLF
    <2>4. ASSUME s[q] = "CR", s[q + 1] = "LF" PROVE c = CRLF
      <3>1. c \in Seq(Symbols) /\ CRLF \in Seq(Symbols) /\ Len(c) = Len(CRLF)
        BY <1>1, <2>1 DEF Texts
      <3>2. \A i \in 1 .. Len(c) : c[i] = CRLF[i]
        <4>1. c[1] = CRLF[1] /\ c[2] = CRLF[2] /\ Len(c) = 2
          BY <2>1, <2>2, <2>4
        <4> QED BY <2>3, <4>1
      <3> QED BY <3>1, <3>2, SeqEqual
    <2> QED BY <2>1, <2>2, <2>4 DEF c
  <1> HIDE DEF hits, at, CRLF
  <1>6. at \in {0} \cup p .. Len(s) - 1
    BY <1>2, <1>4 DEF NPos
  <1>7. ASSUME NEW q \in p .. Len(s) - 1, s[q] = "CR", s[q + 1] = "LF", \A r \in p .. q - 1 : s[r] # "CR"
        PROVE  at = q
    <2>1. q \in hits
      BY <1>4, <1>5, <1>7
    <2>2. at \in p .. Len(s) - 1 /\ at <= q /\ s[at] = "CR"
      BY <1>2, <1>4, <1>5, <2>1
    <2>3. at \notin p .. q - 1
      BY <1>7, <2>2
    <2> QED BY <1>3, <2>2, <2>3
  <1> QED BY <1>1, <1>6, <1>7 DEF at

\* A single symbol is found where it is.
LEMMA SymbolFound ==
  ASSUME NEW s \in Texts, NEW p \in Nat \ {0}, NEW x \in Symbols
  PROVE  /\ Find(s, <<x>>, p) \in {0} \cup p .. Len(s)
         /\ \A q \in p .. Len(s) :
              s[q] = x /\ (\A r \in p .. q - 1 : s[r] # x) => Find(s, <<x>>, p) = q
         /\ (\A r \in p .. Len(s) : s[r] # x) => Find(s, <<x>>, p) = 0
  <1>1. <<x>> \in Texts /\ Len(<<x>>) = 1
    BY DEF Texts
  <1> DEFINE hits == {q \in p .. Len(s) - Len(<<x>>) + 1 : SubSeq(s, q, q + Len(<<x>>) - 1) = <<x>>}
             at == Find(s, <<x>>, p)
  <1>2. /\ hits = {} => at = NPos
        /\ hits # {} => at \in hits /\ \A q \in hits : at <= q
    BY <1>1, FindIs
  <1>3. Len(s) \in Nat
    BY LenProperties DEF Texts
  <1>4. \A q : q \in hits <=> q \in p .. Len(s) /\ SubSeq(s, q, q) = <<x>>
    <2>1. Len(s) - Len(<<x>>) + 1 = Len(s) /\ \A q \in p .. Len(s) : q + Len(<<x>>) - 1 = q
      BY <1>1, <1>3
    <2> QED BY <2>1
  <1>5. ASSUME NEW q \in p .. Len(s)
        PROVE  SubSeq(s, q, q) = <<x>> <=> s[q] = x
    <2> DEFINE c == SubSeq(s, q, q)
    <2>1. c \in Texts /\ Len(c) = 1 /\ c[1] = s[q]
      <3>1. q \in Nat \ {0} /\ q \in Int /\ q <= Len(s) /\ q - q + 1 = 1 /\ q <= q /\ q + 1 - 1 = q
        BY <1>3
      <3>2. Len(c) = 1 /\ c \in Texts /\ \A i \in 1 .. 1 : c[i] = s[q + i - 1]
        BY <3>1, CutType
      <3> HIDE DEF c
      <3> QED BY <3>1, <3>2
    <2>2. \A i \in 1 .. 1 : i = 1
      OBVIOUS
    <2> HIDE DEF c
    <2>3. ASSUME s[q] = x PROVE c = <<x>>
      <3>1. c \in Seq(Symbols) /\ <<x>> \in Seq(Symbols) /\ Len(c) = Len(<<x>>)
        BY <1>1, <2>1 DEF Texts
      <3>2. \A i \in 1 .. Len(c) : c[i] = <<x>>[i]
        <4>1. c[1] = <<x>>[1] /\ Len(c) = 1
          BY <2>1, <2>3
        <4> QED BY <2>2, <4>1
      <3> QED BY <3>1, <3>2, SeqEqual
    <2>4. <<x>>[1] = x
      OBVIOUS
    <2>5. c = <<x>> <=> s[q] = x
      BY <2>1, <2>3, <2>4, Zenon
    <2> QED BY <2>5, Zenon DEF c
  <1> HIDE DEF hits, at
  <1>6. at \in {0} \cup p .. Len(s)
    BY <1>2, <1>4 DEF NPos
  <1>7. ASSUME NEW q \in p .. Len(s), s[q] = x, \A r \in p .. q - 1 : s[r] # x
        PROVE  at = q
    <2>1. q \in hits
      BY <1>4, <1>5, <1>7
    <2>2. at \in p .. Len(s) /\ at <= q /\ s[at] = x
      BY <1>2, <1>4, <1>5, <2>1
    <2>3. at \notin p .. q - 1
      BY <1>7, <2>2
    <2> QED BY <1>3, <2>2, <2>3
  <1>8. ASSUME \A r \in p .. Len(s) : s[r] # x PROVE at = 0
    <2>1. hits = {}
      BY <1>4, <1>5, <1>8
    <2> QED BY <1>2, <2>1 DEF NPos
  <1> QED BY <1>6, <1>7, <1>8 DEF at

\* What stands where in two texts put together.
LEMMA ConcatAt ==
  ASSUME NEW x \in Texts, NEW y \in Texts
  PROVE  /\ x \o y \in Texts /\ Len(x) \in Nat /\ Len(y) \in Nat /\ Len(x \o y) = Len(x) + Len(y)
         /\ \A i \in 1 .. Len(x) : (x \o y)[i] = x[i]
         /\ \A i \in Len(x) + 1 .. Len(x) + Len(y) : (x \o y)[i] = y[i - Len(x)]
  <1>1. x \in Seq(Symbols) /\ y \in Seq(Symbols)
    BY DEF Texts
  <1>2. Len(x) \in Nat /\ Len(y) \in Nat
    BY <1>1, LenProperties
  <1>3. /\ x \o y \in Seq(Symbols) /\ Len(x \o y) = Len(x) + Len(y)
        /\ \A i \in 1 .. Len(x) + Len(y) : (x \o y)[i] = IF i <= Len(x) THEN x[i] ELSE y[i - Len(x)]
    BY <1>1, ConcatProperties
  <1> QED BY <1>2, <1>3 DEF Texts

\* The symbols of the texts a request is put together from.
LEMMA Pieces ==
  /\ CRLF \in Texts /\ Len(CRLF) = 2 /\ CRLF[1] = "CR" /\ CRLF[2] = "LF"
  /\ \A x \in Symbols :
       LET piece == <<x, ":", " ">>
       IN  piece \in Texts /\ Len(piece) = 3 /\ piece[1] = x /\ piece[2] = ":" /\ piece[3] = " "
  /\ \A x \in Symbols :
       LET piece == <<x, " ">>
       IN  piece \in Texts /\ Len(piece) = 2 /\ piece[1] = x /\ piece[2] = " "
  /\ LET piece == <<" ", "HTTP">>
     IN  piece \in Texts /\ Len(piece) = 2 /\ piece[1] = " " /\ piece[2] = "HTTP"
  <1>1. {":", " ", "CR", "LF", "HTTP"} \subseteq Symbols
    BY DEF Symbols
  <1>2. \A x, y \in Symbols : <<x, y>> \in Texts /\ Len(<<x, y>>) = 2 /\ <<x, y>>[1] = x /\ <<x, y>>[2] = y
    BY DEF Texts
  <1>3. \A x, y, z \in Symbols : /\ <<x, y, z>> \in Texts /\ Len(<<x, y, z>>) = 3
                                 /\ <<x, y, z>>[1] = x /\ <<x, y, z>>[2] = y /\ <<x, y, z>>[3] = z
    BY DEF Texts
  <1> QED BY <1>1, <1>2, <1>3 DEF CRLF

\* What stands where in a header.
LEMMA HeaderAt ==
  ASSUME NEW headers \in Headers, NEW k \in 1 .. Len(headers)
  PROVE  LET sent  == HeaderSent(headers[k])
             value == headers[k][2]
         IN  /\ sent \in Texts /\ Len(value) \in Nat /\ Len(sent) = Len(value) + 5
             /\ sent[1] = headers[k][1] /\ sent[2] = ":" /\ sent[3] = " "
             /\ \A i \in 1 .. Len(value) : sent[i + 3] = value[i]
             /\ sent[Len(value) + 4] = "CR" /\ sent[Len(value) + 5] = "LF"
  <1> DEFINE word  == headers[k][1]
             value == headers[k][2]
             front == <<word, ":", " ">>
             most  == front \o value
  <1>1. word \in Symbols /\ value \in Texts
    BY HeaderType DEF InLine, Symbols
  <1>2. front \in Texts /\ Len(front) = 3 /\ front[1] = word /\ front[2] = ":" /\ front[3] = " "
    BY <1>1, Pieces
  <1>3. HeaderSent(headers[k]) = most \o CRLF
    BY DEF HeaderSent
  <1> HIDE DEF front, word, value
  <1>4. /\ most \in Texts /\ Len(value) \in Nat /\ Len(most) = 3 + Len(value)
        /\ \A i \in 1 .. 3 : most[i] = front[i]
        /\ \A i \in 4 .. 3 + Len(value) : most[i] = value[i - 3]
    <2>1. /\ most \in Texts /\ Len(value) \in Nat /\ Len(most) = 3 + Len(value)
          /\ \A i \in 1 .. Len(front) : most[i] = front[i]
          /\ \A i \in Len(front) + 1 .. Len(front) + Len(value) : most[i] = value[i - Len(front)]
      BY <1>1, <1>2, ConcatAt
    <2> HIDE DEF most
    <2>2. ASSUME NEW i \in 4 .. 3 + Len(value) PROVE most[i] = value[i - 3]
      <3> DEFINE f == Len(front)
                 v == Len(value)
      <3>2. f = 3 /\ v \in Nat /\ i \in 4 .. 3 + v
        BY <1>2, <2>1
      <3> HIDE DEF f, v
      <3>3. i \in f + 1 .. f + v /\ i - f = i - 3
        BY <3>2
      <3>1. i \in Len(front) + 1 .. Len(front) + Len(value) /\ i - Len(front) = i - 3
        BY <3>3 DEF f, v
      <3> QED BY <2>1, <3>1
    <2>3. \A i \in 1 .. 3 : most[i] = front[i]
      BY <1>2, <2>1
    <2> QED BY <2>1, <2>2, <2>3
  <1> HIDE DEF most
  <1>5. most[1] = word /\ most[2] = ":" /\ most[3] = " "
    <2>1. 1 \in 1 .. 3 /\ 2 \in 1 .. 3 /\ 3 \in 1 .. 3
      OBVIOUS
    <2>2. most[1] = front[1] /\ most[2] = front[2] /\ most[3] = front[3]
      BY <1>4, <2>1
    <2> QED BY <1>2, <2>2
  <1>6. CRLF \in Texts /\ Len(CRLF) = 2 /\ CRLF[1] = "CR" /\ CRLF[2] = "LF"
    BY Pieces
  <1> DEFINE sent == most \o CRLF
  <1> HIDE DEF CRLF
  <1>7. /\ sent \in Texts /\ Len(sent) = Len(most) + Len(CRLF)
        /\ \A i \in 1 .. Len(most) : sent[i] = most[i]
        /\ \A i \in Len(most) + 1 .. Len(most) + Len(CRLF) : sent[i] = CRLF[i - Len(most)]
    BY <1>4, <1>6, ConcatAt
  <1> HIDE DEF sent
  <1>8. Len(sent) = Len(value) + 5
    BY <1>4, <1>6, <1>7
  <1>9. sent[Len(value) + 4] = "CR" /\ sent[Len(value) + 5] = "LF"
    <2>1. Len(value) + 4 - Len(most) = 1 /\ Len(value) + 5 - Len(most) = 2
      BY <1>4
    <2>2. Len(value) + 4 \in Len(most) + 1 .. Len(most) + Len(CRLF)
          /\ Len(value) + 5 \in Len(most) + 1 .. Len(most) + Len(CRLF)
      BY <1>4, <1>6
    <2> QED BY <1>6, <1>7, <2>1, <2>2
  <1>10. sent[1] = word /\ sent[2] = ":" /\ sent[3] = " "
    <2>1. 1 \in 1 .. Len(most) /\ 2 \in 1 .. Len(most) /\ 3 \in 1 .. Len(most)
      BY <1>4
    <2>2. sent[1] = most[1] /\ sent[2] = most[2] /\ sent[3] = most[3]
      BY <1>7, <2>1
    <2> QED BY <1>5, <2>2
  <1>11. ASSUME NEW i \in 1 .. Len(value) PROVE sent[i + 3] = value[i]
    <2>1. i + 3 \in 1 .. Len(most) /\ i + 3 \in 4 .. 3 + Len(value) /\ (i + 3) - 3 = i
      BY <1>4
    <2> QED BY <1>4, <1>7, <2>1
  <1> QED BY <1>3, <1>4, <1>7, <1>8, <1>9, <1>10, <1>11 DEF sent, value, word

\* Where the headers begin in what is sent of them.
Begins(headers, at) ==
  LET x == HeadersSent(headers)
  IN  /\ x \in Texts /\ at \in [0 .. Len(headers) -> Nat]
      /\ at[0] = 0 /\ at[Len(headers)] = Len(x)
      /\ \A k \in 1 .. Len(headers) :
           /\ at[k] = at[k - 1] + Len(headers[k][2]) + 5 /\ at[k] <= Len(x)
           /\ \A i \in at[k - 1] + 1 .. at[k] : x[i] = HeaderSent(headers[k])[i - at[k - 1]]

\* Each header stands where those before it end.
LEMMA HeadersAt ==
  ASSUME NEW headers \in Headers
  PROVE  \E at : Begins(headers, at)
  <1> DEFINE m == Len(headers)
             sent(k) == HeaderSent(headers[k])
  <1>1. PICK g : /\ g[0] = Empty /\ HeadersSent(headers) = g[m]
                 /\ \A k \in 1 .. m : g[k] = g[k - 1] \o sent(k)
    BY HeadersFold
  <1>2. m \in Nat
    BY LenProperties DEF Headers
  <1>3. ASSUME NEW k \in 1 .. m
        PROVE  /\ sent(k) \in Texts /\ Len(sent(k)) = Len(headers[k][2]) + 5
               /\ Len(headers[k][2]) \in Nat /\ Len(sent(k)) \in Nat
    <2>1. /\ sent(k) \in Texts /\ Len(sent(k)) = Len(headers[k][2]) + 5
          /\ Len(headers[k][2]) \in Nat
      BY HeaderAt
    <2> HIDE DEF sent
    <2> QED BY <2>1
  <1> HIDE DEF m
  <1> DEFINE Good(j) == /\ g[j] \in Texts /\ Len(g[j]) \in Nat
                        /\ \A k \in 1 .. j : /\ Len(g[k]) = Len(g[k - 1]) + Len(sent(k))
                                             /\ Len(g[k]) \in Nat /\ Len(g[k - 1]) \in Nat
                                             /\ Len(g[k]) <= Len(g[j])
                                             /\ \A i \in Len(g[k - 1]) + 1 .. Len(g[k]) :
                                                  g[j][i] = sent(k)[i - Len(g[k - 1])]
             bad == {j \in 0 .. m : ~Good(j)}
  <1>4. bad = {}
    <2> SUFFICES ASSUME bad # {} PROVE FALSE
      OBVIOUS
    <2>1. bad \subseteq Nat
      <3> HIDE DEF Good
      <3> QED BY <1>2
    <2>2. PICK j \in bad : \A i \in bad : j <= i
      <3> HIDE DEF bad
      <3> QED BY <2>1, LeastNumber
    <2>3. j \in 0 .. m /\ ~Good(j)
      BY <2>2
    <2>4. CASE j = 0
      <3>1. g[0] \in Texts /\ Len(g[0]) \in Nat
        BY <1>1, EmptySeq DEF Empty, Texts
      <3>2. \A k : k \notin 1 .. 0
        OBVIOUS
      <3>3. Good(0)
        BY <3>1, <3>2
      <3> QED BY <2>3, <2>4, <3>3
    <2>5. CASE j # 0
      <3> DEFINE q == j - 1
      <3>1. q \in 0 .. m /\ ~(j <= q) /\ j \in 1 .. m
        BY <1>2, <2>3, <2>5
      <3>2. Good(q)
        <4>1. q \notin bad
          BY <2>2, <3>1
        <4> HIDE DEF Good
        <4> QED BY <3>1, <4>1
      <3>3. g[j] = g[q] \o sent(j) /\ g[q] \in Texts /\ sent(j) \in Texts
        BY <1>1, <1>3, <3>1, <3>2
      <3> HIDE DEF bad, sent
      <3>4. /\ g[j] \in Texts /\ Len(g[j]) \in Nat /\ Len(g[q]) \in Nat
            /\ Len(g[j]) = Len(g[q]) + Len(sent(j)) /\ Len(sent(j)) \in Nat
            /\ \A i \in 1 .. Len(g[q]) : g[j][i] = g[q][i]
            /\ \A i \in Len(g[q]) + 1 .. Len(g[j]) : g[j][i] = sent(j)[i - Len(g[q])]
        <4>1. g[q] \o sent(j) \in Texts
          BY <3>3, ConcatAt
        <4>2. Len(g[q] \o sent(j)) = Len(g[q]) + Len(sent(j)) /\ Len(g[q]) \in Nat /\ Len(sent(j)) \in Nat
          BY <3>3, ConcatAt
        <4>3. /\ \A i \in 1 .. Len(g[q]) : g[j][i] = g[q][i]
              /\ \A i \in Len(g[q]) + 1 .. Len(g[q]) + Len(sent(j)) : g[j][i] = sent(j)[i - Len(g[q])]
          <5> DEFINE x == g[q]
                     y == sent(j)
          <5>1. x \in Texts /\ y \in Texts /\ g[j] = x \o y
            BY <3>3
          <5> HIDE DEF x, y
          <5>2. /\ \A i \in 1 .. Len(x) : (x \o y)[i] = x[i]
                /\ \A i \in Len(x) + 1 .. Len(x) + Len(y) : (x \o y)[i] = y[i - Len(x)]
            BY <5>1, ConcatAt
          <5>3. /\ \A i \in 1 .. Len(x) : g[j][i] = x[i]
                /\ \A i \in Len(x) + 1 .. Len(x) + Len(y) : g[j][i] = y[i - Len(x)]
            BY <5>1, <5>2
          <5> QED BY <5>3 DEF x, y
        <4> HIDE DEF q
        <4> QED BY <3>3, <4>1, <4>2, <4>3
      <3>5. ASSUME NEW k \in 1 .. j
            PROVE  /\ Len(g[k]) = Len(g[k - 1]) + Len(sent(k))
                   /\ Len(g[k]) \in Nat /\ Len(g[k - 1]) \in Nat
                   /\ Len(g[k]) <= Len(g[j])
                   /\ \A i \in Len(g[k - 1]) + 1 .. Len(g[k]) : g[j][i] = sent(k)[i - Len(g[k - 1])]
        <4>1. CASE k = j
          BY <3>4, <4>1
        <4>2. CASE k # j
          <5>1. k \in 1 .. q
            BY <3>1, <4>2
          <5>2. /\ Len(g[k]) = Len(g[k - 1]) + Len(sent(k)) /\ Len(g[k]) <= Len(g[q])
                /\ Len(g[k]) \in Nat /\ Len(g[k - 1]) \in Nat
            BY <3>2, <5>1
          <5>3. ASSUME NEW i \in Len(g[k - 1]) + 1 .. Len(g[k])
                PROVE  g[j][i] = sent(k)[i - Len(g[k - 1])]
            <6>1. i \in 1 .. Len(g[q])
              BY <3>4, <5>2
            <6>2. g[q][i] = sent(k)[i - Len(g[k - 1])]
              BY <3>2, <5>1
            <6> QED BY <3>4, <6>1, <6>2
          <5>4. Len(g[k]) <= Len(g[j])
            BY <3>4, <5>2
          <5> QED BY <5>2, <5>3, <5>4
        <4> QED BY <4>1, <4>2
      <3>6. Good(j)
        BY <3>4, <3>5
      <3> QED BY <2>3, <3>6
    <2> QED BY <2>4, <2>5
  <1>5. Good(m)
    <2>1. m \in 0 .. m /\ m \notin bad
      <3> HIDE DEF bad
      <3> QED BY <1>2, <1>4
    <2> HIDE DEF Good
    <2> QED BY <2>1
  <1> DEFINE at == [k \in 0 .. m |-> Len(g[k])]
  <1>6. \A k \in 1 .. m : k \in 0 .. m /\ k - 1 \in 0 .. m
    BY <1>2
  <1>7. Len(g[0]) = 0
    BY <1>1 DEF Empty
  <1>8. \A k \in 0 .. m : Len(g[k]) \in Nat
    <2> TAKE k \in 0 .. m
    <2>1. k = 0 \/ k \in 1 .. m
      BY <1>2
    <2> QED BY <1>5, <1>7, <2>1
  <1>9. at \in [0 .. m -> Nat]
    BY <1>8
  <1>10. at[0] = 0 /\ at[m] = Len(g[m])
    BY <1>2, <1>7
  <1>11. \A k \in 1 .. m : at[k] = Len(g[k]) /\ at[k - 1] = Len(g[k - 1])
    BY <1>6
  <1> HIDE DEF at, bad
  <1>12. ASSUME NEW k \in 1 .. m
         PROVE  /\ at[k] = at[k - 1] + Len(headers[k][2]) + 5 /\ at[k] <= Len(g[m])
                /\ \A i \in at[k - 1] + 1 .. at[k] : g[m][i] = HeaderSent(headers[k])[i - at[k - 1]]
    <2>1. /\ Len(g[k]) = Len(g[k - 1]) + Len(sent(k)) /\ Len(g[k]) <= Len(g[m])
          /\ \A i \in Len(g[k - 1]) + 1 .. Len(g[k]) : g[m][i] = sent(k)[i - Len(g[k - 1])]
      BY <1>5
    <2>2. Len(sent(k)) = Len(headers[k][2]) + 5 /\ Len(headers[k][2]) \in Nat
          /\ Len(g[k]) \in Nat /\ Len(g[k - 1]) \in Nat
      BY <1>3, <1>5
    <2>3. at[k] = Len(g[k]) /\ at[k - 1] = Len(g[k - 1])
      BY <1>11
    <2>4. HeaderSent(headers[k]) = sent(k)
      OBVIOUS
    <2> HIDE DEF Good, sent
    <2>5. at[k] = at[k - 1] + Len(headers[k][2]) + 5
      <3>1. Len(g[k]) = Len(g[k - 1]) + (Len(headers[k][2]) + 5)
        BY <2>1, <2>2
      <3> DEFINE b == Len(g[k - 1])
                 c == Len(headers[k][2])
      <3>3. b \in Nat /\ c \in Nat
        BY <2>2
      <3> HIDE DEF b, c
      <3>4. b + (c + 5) = b + c + 5
        BY <3>3
      <3>2. Len(g[k]) = Len(g[k - 1]) + Len(headers[k][2]) + 5
        BY <3>1, <3>4 DEF b, c
      <3> QED BY <2>3, <3>2
    <2>7. at[k] <= Len(g[m])
      BY <2>1, <2>3
    <2>6. \A i \in at[k - 1] + 1 .. at[k] : g[m][i] = sent(k)[i - at[k - 1]]
      BY <2>1, <2>3
    <2> QED BY <2>4, <2>5, <2>6, <2>7
  <1>13. g[m] \in Texts
    <2> HIDE DEF bad, sent
    <2> QED BY <1>5
  <1> HIDE DEF Good, sent
  <1> QED BY <1>1, <1>9, <1>10, <1>12, <1>13 DEF Begins, m

\* What is known of a request that is meant.
LEMMA AskedType ==
  ASSUME NEW a \in Asked
  PROVE  /\ a.method \in Symbols /\ a.method \notin {"CR", "LF", " "}
         /\ a.target \in Texts /\ Len(a.target) \in Nat \ {0}
         /\ \A i \in 1 .. Len(a.target) : a.target[i] \notin {"CR", "LF", " "}
         /\ a.headers \in Headers /\ Len(a.headers) \in Nat
         /\ a.body \in Texts /\ Len(a.body) \in Nat
  <1>1. /\ a.method \in InLine \ {" "} /\ a.target \in Seq(InLine \ {" "}) /\ a.target # Empty
        /\ a.headers \in Headers /\ a.body \in Seq(STRING)
    BY AskedAssumption DEF Headers
  <1>2. a.method \in Symbols /\ a.method \notin {"CR", "LF", " "}
    BY <1>1 DEF Symbols, InLine
  <1>3. a.target \in Texts /\ a.body \in Texts
    <2>1. InLine \ {" "} \subseteq Symbols /\ STRING \subseteq Symbols
      BY DEF InLine, Symbols
    <2> QED BY <1>1, <2>1, SeqMonotonic DEF Texts
  <1>4. Len(a.target) \in Nat \ {0}
    BY <1>1, EmptySeq DEF Empty
  <1>5. ASSUME NEW i \in 1 .. Len(a.target) PROVE a.target[i] \notin {"CR", "LF", " "}
    <2>1. a.target[i] \in InLine \ {" "}
      BY <1>1, ElementOfSeq
    <2> QED BY <2>1 DEF InLine
  <1>6. Len(a.headers) \in Nat /\ Len(a.body) \in Nat
    BY <1>1, LenProperties DEF Headers
  <1> QED BY <1>1, <1>2, <1>3, <1>4, <1>5, <1>6

\* The first line of a request.
FirstLine(a) == <<a.method, " ">> \o a.target \o <<" ", "HTTP">> \o CRLF

\* What stands where in the first line.
LEMMA LineAt ==
  ASSUME NEW a \in Asked
  PROVE  LET s == FirstLine(a)
             t == Len(a.target)
         IN  /\ s \in Texts /\ Len(s) = t + 6
             /\ s[1] = a.method /\ s[2] = " " /\ \A i \in 3 .. t + 2 : s[i] = a.target[i - 2]
             /\ s[t + 3] = " " /\ s[t + 4] = "HTTP" /\ s[t + 5] = "CR" /\ s[t + 6] = "LF"
  <1> DEFINE t == Len(a.target)
             u == <<a.method, " ">>
             v == <<" ", "HTTP">>
             x == u \o a.target
             y == x \o v
             s == y \o CRLF
  <1>1. a.target \in Texts /\ t \in Nat /\ a.method \in Symbols
    BY AskedType
  <1>2. /\ u \in Texts /\ Len(u) = 2 /\ u[1] = a.method /\ u[2] = " "
        /\ v \in Texts /\ Len(v) = 2 /\ v[1] = " " /\ v[2] = "HTTP"
        /\ CRLF \in Texts /\ Len(CRLF) = 2 /\ CRLF[1] = "CR" /\ CRLF[2] = "LF"
    BY <1>1, Pieces
  <1>3. FirstLine(a) = s
    BY DEF FirstLine
  <1> HIDE DEF u, v, CRLF
  <1>4. /\ x \in Texts /\ Len(x) = Len(u) + t
        /\ \A i \in 1 .. Len(u) : x[i] = u[i]
        /\ \A i \in Len(u) + 1 .. Len(u) + t : x[i] = a.target[i - Len(u)]
    BY <1>1, <1>2, ConcatAt
  <1> HIDE DEF x
  <1>5. /\ y \in Texts /\ Len(y) = Len(x) + Len(v)
        /\ \A i \in 1 .. Len(x) : y[i] = x[i]
        /\ \A i \in Len(x) + 1 .. Len(x) + Len(v) : y[i] = v[i - Len(x)]
    BY <1>2, <1>4, ConcatAt
  <1> HIDE DEF y
  <1>6. /\ s \in Texts /\ Len(s) = Len(y) + Len(CRLF)
        /\ \A i \in 1 .. Len(y) : s[i] = y[i]
        /\ \A i \in Len(y) + 1 .. Len(y) + Len(CRLF) : s[i] = CRLF[i - Len(y)]
    BY <1>2, <1>5, ConcatAt
  <1> HIDE DEF s, t
  <1>7. Len(x) = t + 2 /\ Len(y) = t + 4 /\ Len(s) = t + 6 /\ Len(u) = 2 /\ Len(v) = 2 /\ Len(CRLF) = 2
        /\ t \in Nat
    <2>1. /\ Len(x) = Len(u) + t /\ Len(y) = Len(x) + Len(v) /\ Len(s) = Len(y) + Len(CRLF)
          /\ Len(u) = 2 /\ Len(v) = 2 /\ Len(CRLF) = 2 /\ t \in Nat
      BY <1>1, <1>2, <1>4, <1>5, <1>6
    <2> QED BY <2>1
  <1>8. s[1] = a.method /\ s[2] = " "
    <2>1. \A i \in {1, 2} : i \in 1 .. Len(u) /\ i \in 1 .. Len(x) /\ i \in 1 .. Len(y)
      BY <1>7
    <2>2. \A i \in {1, 2} : s[i] = u[i]
      BY <1>4, <1>5, <1>6, <2>1
    <2> QED BY <1>2, <2>2
  <1>9. ASSUME NEW i \in 3 .. t + 2 PROVE s[i] = a.target[i - 2]
    <2>1. /\ i \in Len(u) + 1 .. Len(u) + t /\ i - Len(u) = i - 2
          /\ i \in 1 .. Len(x) /\ i \in 1 .. Len(y)
      BY <1>7
    <2>2. x[i] = a.target[i - 2]
      BY <1>4, <2>1
    <2> QED BY <1>5, <1>6, <2>1, <2>2
  <1>10. s[t + 3] = " " /\ s[t + 4] = "HTTP"
    <2>1. /\ t + 3 \in Len(x) + 1 .. Len(x) + Len(v) /\ t + 4 \in Len(x) + 1 .. Len(x) + Len(v)
          /\ (t + 3) - Len(x) = 1 /\ (t + 4) - Len(x) = 2
          /\ t + 3 \in 1 .. Len(y) /\ t + 4 \in 1 .. Len(y)
      BY <1>7
    <2>2. y[t + 3] = v[1] /\ y[t + 4] = v[2]
      BY <1>5, <2>1
    <2>3. s[t + 3] = y[t + 3] /\ s[t + 4] = y[t + 4]
      BY <1>6, <2>1
    <2> QED BY <1>2, <2>2, <2>3
  <1>11. s[t + 5] = "CR" /\ s[t + 6] = "LF"
    <2>1. /\ t + 5 \in Len(y) + 1 .. Len(y) + Len(CRLF) /\ t + 6 \in Len(y) + 1 .. Len(y) + Len(CRLF)
          /\ (t + 5) - Len(y) = 1 /\ (t + 6) - Len(y) = 2
      BY <1>7
    <2>2. s[t + 5] = CRLF[1] /\ s[t + 6] = CRLF[2]
      BY <1>6, <2>1
    <2> QED BY <1>2, <2>2
  <1> QED BY <1>3, <1>6, <1>7, <1>8, <1>9, <1>10, <1>11 DEF t

\* Where what a request is made of stands in a text that holds its header whole: at[k]
\* is where the line after the first k headers begins.
Carried(s, a, at) ==
  LET m == Len(a.headers)
      t == Len(a.target)
  IN  /\ s \in Texts /\ at \in [0 .. m -> Nat] /\ at[0] = t + 7 /\ at[m] < Len(s)
      /\ \A k \in 0 .. m : t + 7 <= at[k] /\ at[k] <= at[m]
      /\ s[1] = a.method /\ s[2] = " " /\ \A i \in 3 .. t + 2 : s[i] = a.target[i - 2]
      /\ s[t + 3] = " " /\ s[t + 4] = "HTTP" /\ s[t + 5] = "CR" /\ s[t + 6] = "LF"
      /\ \A k \in 1 .. m :
           /\ at[k] = at[k - 1] + Len(a.headers[k][2]) + 5
           /\ \A i \in at[k - 1] .. at[k] - 1 : s[i] = HeaderSent(a.headers[k])[i - at[k - 1] + 1]
      /\ s[at[m]] = "CR" /\ s[at[m] + 1] = "LF"

\* The header of a request stands so in what its peer sends, and the body behind it.
LEMMA RenderedAt ==
  ASSUME NEW a \in Asked
  PROVE  LET s == Rendered(a)
             m == Len(a.headers)
         IN  \E at : /\ Carried(s, a, at) /\ Len(s) = at[m] + 1 + Len(a.body)
                     /\ \A i \in at[m] + 2 .. Len(s) : s[i] = a.body[i - at[m] - 1]
  <1> DEFINE m == Len(a.headers)
             t == Len(a.target)
             x == FirstLine(a)
             y == HeadersSent(a.headers)
             u == x \o y
             v == u \o CRLF
             s == v \o a.body
             n == Len(y)
             b == Len(a.body)
  <1>1. /\ a.headers \in Headers /\ m \in Nat /\ t \in Nat /\ a.body \in Texts /\ b \in Nat
    BY AskedType
  <1>2. PICK off : Begins(a.headers, off)
    BY <1>1, HeadersAt
  <1>3. y \in Texts /\ n \in Nat
    BY <1>2, LenProperties DEF Begins, Texts
  <1>4. Rendered(a) = s
    BY DEF Rendered, FirstLine
  <1>5. CRLF \in Texts /\ Len(CRLF) = 2 /\ CRLF[1] = "CR" /\ CRLF[2] = "LF"
    BY Pieces
  <1>6. /\ x \in Texts /\ Len(x) = t + 6 /\ x[1] = a.method /\ x[2] = " "
        /\ \A i \in 3 .. t + 2 : x[i] = a.target[i - 2]
        /\ x[t + 3] = " " /\ x[t + 4] = "HTTP" /\ x[t + 5] = "CR" /\ x[t + 6] = "LF"
    BY LineAt
  <1> HIDE DEF x, y, CRLF
  <1>7. /\ u \in Texts /\ Len(u) = Len(x) + n
        /\ \A i \in 1 .. Len(x) : u[i] = x[i]
        /\ \A i \in Len(x) + 1 .. Len(x) + n : u[i] = y[i - Len(x)]
    BY <1>3, <1>6, ConcatAt
  <1> HIDE DEF u
  <1>8. /\ v \in Texts /\ Len(v) = Len(u) + Len(CRLF)
        /\ \A i \in 1 .. Len(u) : v[i] = u[i]
        /\ \A i \in Len(u) + 1 .. Len(u) + Len(CRLF) : v[i] = CRLF[i - Len(u)]
    BY <1>5, <1>7, ConcatAt
  <1> HIDE DEF v
  <1>9. /\ s \in Texts /\ Len(s) = Len(v) + b
        /\ \A i \in 1 .. Len(v) : s[i] = v[i]
        /\ \A i \in Len(v) + 1 .. Len(v) + b : s[i] = a.body[i - Len(v)]
    BY <1>1, <1>8, ConcatAt
  <1> HIDE DEF s, t, n, b, m
  <1>10. /\ Len(x) = t + 6 /\ Len(u) = t + 6 + n /\ Len(v) = t + 8 + n /\ Len(s) = t + 8 + n + b
         /\ Len(CRLF) = 2 /\ t \in Nat /\ n \in Nat /\ b \in Nat
    <2>1. /\ Len(u) = Len(x) + n /\ Len(v) = Len(u) + Len(CRLF) /\ Len(s) = Len(v) + b
          /\ Len(x) = t + 6 /\ Len(CRLF) = 2 /\ t \in Nat /\ n \in Nat /\ b \in Nat
      BY <1>1, <1>3, <1>5, <1>6, <1>7, <1>8, <1>9
    <2> QED BY <2>1
  <1>11. \A i \in 1 .. t + 6 : s[i] = x[i]
    <2>1. \A i \in 1 .. t + 6 : i \in 1 .. Len(x) /\ i \in 1 .. Len(u) /\ i \in 1 .. Len(v)
      BY <1>10
    <2> QED BY <1>7, <1>8, <1>9, <2>1
  <1>12. ASSUME NEW i \in t + 7 .. t + 6 + n PROVE s[i] = y[i - (t + 6)]
    <2>1. /\ i \in Len(x) + 1 .. Len(x) + n /\ i \in 1 .. Len(u) /\ i \in 1 .. Len(v)
          /\ i - Len(x) = i - (t + 6)
      BY <1>10
    <2> QED BY <1>7, <1>8, <1>9, <2>1
  <1>13. s[t + 7 + n] = "CR" /\ s[t + 8 + n] = "LF"
    <2>1. /\ t + 7 + n \in Len(u) + 1 .. Len(u) + Len(CRLF) /\ t + 7 + n \in 1 .. Len(v)
          /\ t + 8 + n \in Len(u) + 1 .. Len(u) + Len(CRLF) /\ t + 8 + n \in 1 .. Len(v)
          /\ (t + 7 + n) - Len(u) = 1 /\ (t + 8 + n) - Len(u) = 2
      BY <1>10
    <2>2. v[t + 7 + n] = CRLF[1] /\ v[t + 8 + n] = CRLF[2]
      BY <1>8, <2>1
    <2>3. s[t + 7 + n] = v[t + 7 + n] /\ s[t + 8 + n] = v[t + 8 + n]
      BY <1>9, <2>1
    <2> QED BY <1>5, <2>2, <2>3
  <1> DEFINE at == [k \in 0 .. m |-> t + 7 + off[k]]
  <1>14. /\ off \in [0 .. m -> Nat] /\ off[0] = 0 /\ off[m] = n
         /\ \A k \in 1 .. m :
              /\ off[k] = off[k - 1] + Len(a.headers[k][2]) + 5 /\ off[k] <= n
              /\ \A i \in off[k - 1] + 1 .. off[k] : y[i] = HeaderSent(a.headers[k])[i - off[k - 1]]
    BY <1>2 DEF Begins, y, m, n
  <1>15. \A k \in 0 .. m : at[k] = t + 7 + off[k] /\ at[k] \in Nat /\ off[k] \in Nat
    BY <1>1, <1>14
  <1>16. at \in [0 .. m -> Nat]
    BY <1>15
  <1>17. at[0] = t + 7 /\ at[m] = t + 7 + n
    <2>1. 0 \in 0 .. m /\ m \in 0 .. m
      BY <1>1
    <2> HIDE DEF at
    <2> QED BY <1>1, <1>3, <1>14, <1>15, <2>1
  <1> HIDE DEF at
  <1>18. ASSUME NEW k \in 1 .. m
         PROVE  /\ at[k] = at[k - 1] + Len(a.headers[k][2]) + 5 /\ at[k] <= at[m]
                /\ \A i \in at[k - 1] .. at[k] - 1 : s[i] = HeaderSent(a.headers[k])[i - at[k - 1] + 1]
    <2> DEFINE c == off[k - 1]
               d == off[k]
               l == Len(a.headers[k][2])
    <2>1. k \in 0 .. m /\ k - 1 \in 0 .. m
      BY <1>1
    <2>2. at[k] = t + 7 + d /\ at[k - 1] = t + 7 + c /\ c \in Nat /\ d \in Nat
      BY <1>15, <2>1
    <2>3. d = c + l + 5 /\ d <= n
      BY <1>14
    <2>4. l \in Nat
      BY <1>1, HeaderAt DEF m
    <2> HIDE DEF c, d, l
    <2>5. t + 7 + d = (t + 7 + c) + l + 5 /\ t + 7 + d <= t + 7 + n
      BY <1>1, <1>3, <2>2, <2>3, <2>4
    <2>6. at[k] = at[k - 1] + l + 5 /\ at[k] <= at[m]
      BY <1>17, <2>2, <2>5
    <2>7. ASSUME NEW i \in at[k - 1] .. at[k] - 1
          PROVE  s[i] = HeaderSent(a.headers[k])[i - at[k - 1] + 1]
      <3>1. i \in t + 7 + c .. (t + 7 + d) - 1
        BY <2>2
      <3>2. i \in t + 7 .. t + 6 + n /\ i - (t + 6) \in c + 1 .. d
            /\ (i - (t + 6)) - c = i - (t + 7 + c) + 1
        BY <1>1, <1>3, <2>2, <2>3, <3>1
      <3>3. s[i] = y[i - (t + 6)]
        BY <1>12, <3>2
      <3>4. y[i - (t + 6)] = HeaderSent(a.headers[k])[(i - (t + 6)) - c]
        BY <1>14, <3>2 DEF c, d
      <3> QED BY <2>2, <3>2, <3>3, <3>4
    <2> QED BY <2>6, <2>7 DEF l
  <1>19. Len(s) = at[m] + 1 + b /\ at[m] < Len(s)
    BY <1>1, <1>3, <1>10, <1>17
  <1>20. ASSUME NEW i \in at[m] + 2 .. Len(s) PROVE s[i] = a.body[i - at[m] - 1]
    <2>1. i \in Len(v) + 1 .. Len(v) + b /\ i - Len(v) = i - at[m] - 1
      BY <1>1, <1>3, <1>10, <1>17
    <2> QED BY <1>9, <2>1
  <1>21. s[at[m]] = "CR" /\ s[at[m] + 1] = "LF"
    <2>1. at[m] = t + 7 + n /\ at[m] + 1 = t + 8 + n
      BY <1>1, <1>3, <1>17
    <2> QED BY <1>13, <2>1
  <1>22. /\ s[1] = a.method /\ s[2] = " " /\ \A i \in 3 .. t + 2 : s[i] = a.target[i - 2]
         /\ s[t + 3] = " " /\ s[t + 4] = "HTTP" /\ s[t + 5] = "CR" /\ s[t + 6] = "LF"
    <2>1. /\ \A i \in {1, 2, t + 3, t + 4, t + 5, t + 6} : i \in 1 .. t + 6
          /\ \A i \in 3 .. t + 2 : i \in 1 .. t + 6
      BY <1>1
    <2>2. \A i \in {1, 2, t + 3, t + 4, t + 5, t + 6} : s[i] = x[i]
      BY <1>11, <2>1
    <2>3. \A i \in 3 .. t + 2 : s[i] = a.target[i - 2]
      BY <1>6, <1>11, <2>1
    <2> QED BY <1>6, <2>2, <2>3
  <1>24. ASSUME NEW k \in 0 .. m PROVE t + 7 <= at[k] /\ at[k] <= at[m]
    <2> DEFINE c == off[k]
    <2>1. c \in Nat /\ at[k] = t + 7 + c
      BY <1>15
    <2>2. c <= n
      <3>1. k = 0 \/ k \in 1 .. m
        BY <1>1
      <3> QED BY <1>3, <1>14, <3>1
    <2> HIDE DEF c
    <2> QED BY <1>10, <1>17, <2>1, <2>2
  <1>23. Carried(s, a, at)
    BY <1>24, <1>9, <1>16, <1>17, <1>18, <1>19, <1>21, <1>22 DEF Carried, m, t
  <1> QED BY <1>4, <1>19, <1>20, <1>23 DEF m, b

-----------------------------------------------------------------------------
(* What is found in a text that holds a header whole. *)

\* A header that stands from p on, up to e.
Stands(s, header, p, e) ==
  /\ p \in Nat /\ e \in Nat /\ Len(header[2]) \in Nat /\ e = p + Len(header[2]) + 5
  /\ header[1] \in Symbols /\ header[1] \notin {"CR", "LF", ":"}
  /\ header[2] \in Texts /\ \A i \in 1 .. Len(header[2]) : header[2][i] \notin {"CR", "LF"}
  /\ s[p] = header[1] /\ s[p + 1] = ":" /\ s[p + 2] = " "
  /\ \A i \in p + 3 .. e - 3 : s[i] = header[2][i - p - 2]
  /\ s[e - 2] = "CR" /\ s[e - 1] = "LF"

\* Where the parts of the k-th header stand.
LEMMA HeaderSpot ==
  ASSUME NEW a \in Asked, NEW s, NEW at, Carried(s, a, at), NEW k \in 1 .. Len(a.headers)
  PROVE  /\ Stands(s, a.headers[k], at[k - 1], at[k])
         /\ at[k - 1] >= Len(a.target) + 7 /\ at[k] < Len(s) /\ at[k] <= at[Len(a.headers)]
  <1> DEFINE m     == Len(a.headers)
             p     == at[k - 1]
             e     == at[k]
             word  == a.headers[k][1]
             value == a.headers[k][2]
             l     == Len(value)
             x     == HeaderSent(a.headers[k])
  <1>1. a.headers \in Headers /\ m \in Nat /\ Len(a.target) \in Nat
    BY AskedType
  <1>2. /\ l \in Nat /\ x[1] = word /\ x[2] = ":" /\ x[3] = " "
        /\ \A i \in 1 .. l : x[i + 3] = value[i]
        /\ x[l + 4] = "CR" /\ x[l + 5] = "LF"
    BY <1>1, HeaderAt
  <1>3. word \in InLine \ {":"} /\ value \in Seq(InLine) /\ value \in Texts
    BY <1>1, HeaderType
  <1>4. word \in Symbols /\ word \notin {"CR", "LF", ":"}
    BY <1>3 DEF InLine, Symbols
  <1>5. ASSUME NEW i \in 1 .. l PROVE value[i] \notin {"CR", "LF"}
    <2>1. value[i] \in InLine
      BY <1>3, ElementOfSeq
    <2> QED BY <2>1 DEF InLine
  <1>6. k \in 0 .. m /\ k - 1 \in 0 .. m
    BY <1>1
  <1>7. p \in Nat /\ e \in Nat /\ p >= Len(a.target) + 7 /\ e <= at[m]
    BY <1>6 DEF Carried
  <1>8. e < Len(s)
    <2>1. s \in Texts /\ at[m] \in Nat /\ at[m] < Len(s)
      <3>1. m \in 0 .. m
        BY <1>1
      <3> QED BY <3>1 DEF Carried
    <2> DEFINE L == Len(s)
               h == at[m]
    <2>2. L \in Nat
      BY <2>1, LenProperties DEF Texts
    <2> HIDE DEF L, e, h
    <2>3. h \in Nat /\ h < L /\ e \in Nat /\ e <= h
      BY <1>7, <2>1 DEF L, h
    <2>4. e < L
      BY <2>2, <2>3
    <2> QED BY <2>4 DEF L
  <1>9. e = p + l + 5 /\ \A i \in p .. e - 1 : s[i] = x[i - p + 1]
    BY DEF Carried
  <1> HIDE DEF x, l, p, e
  <1>10. s[p] = word /\ s[p + 1] = ":" /\ s[p + 2] = " "
    <2>1. /\ p \in p .. e - 1 /\ p + 1 \in p .. e - 1 /\ p + 2 \in p .. e - 1
          /\ p - p + 1 = 1 /\ (p + 1) - p + 1 = 2 /\ (p + 2) - p + 1 = 3
      <3>1. p \in Nat /\ l \in Nat /\ e = p + l + 5
        BY <1>2, <1>7, <1>9
      <3> QED BY <3>1
    <2> QED BY <1>2, <1>9, <2>1
  <1>11. ASSUME NEW i \in p + 3 .. e - 3 PROVE s[i] = value[i - p - 2]
    <2>1. i \in p .. e - 1 /\ i - p - 2 \in 1 .. l /\ (i - p - 2) + 3 = i - p + 1
      <3>1. p \in Nat /\ l \in Nat /\ e = p + l + 5
        BY <1>2, <1>7, <1>9
      <3> QED BY <3>1
    <2>2. s[i] = x[(i - p - 2) + 3]
      BY <1>9, <2>1
    <2> QED BY <1>2, <2>1, <2>2
  <1>12. s[e - 2] = "CR" /\ s[e - 1] = "LF"
    <2>1. e - 2 \in p .. e - 1 /\ e - 1 \in p .. e - 1 /\ (e - 2) - p + 1 = l + 4 /\ (e - 1) - p + 1 = l + 5
      <3>1. p \in Nat /\ l \in Nat /\ e = p + l + 5
        BY <1>2, <1>7, <1>9
      <3> QED BY <3>1
    <2> QED BY <1>2, <1>9, <2>1
  <1>13. Stands(s, a.headers[k], p, e)
    BY <1>2, <1>3, <1>4, <1>5, <1>7, <1>9, <1>10, <1>11, <1>12 DEF l, Stands
  <1> QED BY <1>7, <1>8, <1>13 DEF p, e

\* What comes before the line that starts at at[k], and where that is.
LEMMA BeforeLine ==
  ASSUME NEW a \in Asked, NEW s, NEW at, Carried(s, a, at), NEW k \in 0 .. Len(a.headers)
  PROVE  /\ at[k] \in Nat /\ at[k] >= Len(a.target) + 7 /\ at[k] <= at[Len(a.headers)]
         /\ at[k] < Len(s) /\ Len(s) \in Nat
         /\ s[at[k] - 2] = "CR" /\ s[at[k] - 1] = "LF"
  <1> DEFINE m == Len(a.headers)
             t == Len(a.target)
             n == at[m]
             e == at[k]
             L == Len(s)
  <1>1. m \in Nat /\ t \in Nat
    BY AskedType
  <1>2. /\ e \in Nat /\ e >= t + 7 /\ e <= n
        /\ n \in Nat /\ n < L /\ L \in Nat
    <2>1. s \in Texts /\ n \in Nat /\ n < L /\ e \in Nat /\ e >= t + 7 /\ e <= n
      <3>1. m \in 0 .. m
        BY <1>1
      <3> QED BY <3>1 DEF Carried
    <2>2. L \in Nat
      BY <2>1, LenProperties DEF Texts
    <2> QED BY <2>1, <2>2
  <1>3. CASE k = 0
    <2>1. at[0] = t + 7 /\ s[t + 5] = "CR" /\ s[t + 6] = "LF"
      BY DEF Carried
    <2>2. (t + 7) - 2 = t + 5 /\ (t + 7) - 1 = t + 6
      BY <1>1
    <2>3. s[at[k] - 2] = "CR" /\ s[at[k] - 1] = "LF"
      BY <1>3, <2>1, <2>2
    <2> HIDE DEF n, e, L, t
    <2>4. e < L
      BY <1>2
    <2> QED BY <1>2, <2>3, <2>4 DEF n, e, L, t
  <1>4. CASE k # 0
    <2>1. k \in 1 .. m
      BY <1>1, <1>4
    <2>2. s[at[k] - 2] = "CR" /\ s[at[k] - 1] = "LF" /\ at[k] < Len(s)
      <3>1. k \in 1 .. Len(a.headers)
        BY <2>1
      <3> HIDE DEF m, n, e, L, t
      <3>2. Stands(s, a.headers[k], at[k - 1], at[k]) /\ at[k] < Len(s)
        BY <3>1, HeaderSpot
      <3> QED BY <3>2 DEF Stands
    <2> QED BY <1>2, <2>2
  <1> QED BY <1>3, <1>4

\* A cut that leaves the header whole.
LEMMA CarriedCut ==
  ASSUME NEW a \in Asked, NEW s, NEW at, Carried(s, a, at),
         NEW n \in at[Len(a.headers)] + 1 .. Len(s)
  PROVE  Carried(SubSeq(s, 1, n), a, at)
  <1> DEFINE m == Len(a.headers)
             t == Len(a.target)
             h == at[m]
             L == Len(s)
             x == SubSeq(s, 1, n)
  <1>1. m \in Nat /\ t \in Nat /\ s \in Texts
    BY AskedType DEF Carried
  <1>2. h \in Nat /\ L \in Nat /\ h >= t + 7 /\ h < L
    <2>1. m \in 0 .. m
      BY <1>1
    <2> QED BY <2>1, BeforeLine
  <1>3. n \in Nat /\ n > h /\ n <= L /\ n - 1 + 1 = n /\ 1 <= n
    <2>1. n \in h + 1 .. L
      OBVIOUS
    <2> HIDE DEF h, L, t
    <2> QED BY <1>2, <2>1
  <1>4. x \in Texts /\ Len(x) = n /\ \A i \in 1 .. n : x[i] = s[i]
    <2>1. /\ SubSeq(s, 1, n) \in Texts /\ Len(SubSeq(s, 1, n)) = IF 1 <= n THEN n - 1 + 1 ELSE 0
          /\ \A i \in 1 .. n - 1 + 1 : SubSeq(s, 1, n)[i] = s[1 + i - 1]
      BY <1>1, <1>3, CutType
    <2>2. \A i \in 1 .. n : 1 + i - 1 = i
      BY <1>3
    <2> QED BY <1>3, <2>1, <2>2
  <1> HIDE DEF x
  <1>5. ASSUME NEW k \in 0 .. m PROVE at[k] \in Nat /\ t + 7 <= at[k] /\ at[k] <= h
    BY BeforeLine
  <1>6. ASSUME NEW k \in 1 .. m, NEW i \in at[k - 1] .. at[k] - 1
        PROVE  x[i] = HeaderSent(a.headers[k])[i - at[k - 1] + 1]
    <2>1. k \in 0 .. m /\ k - 1 \in 0 .. m
      BY <1>1
    <2> DEFINE p == at[k - 1]
               e == at[k]
    <2>2. p \in Nat /\ e \in Nat /\ p >= t + 7 /\ e <= h /\ i \in p .. e - 1
      BY <1>5, <2>1
    <2>3. s[i] = HeaderSent(a.headers[k])[i - at[k - 1] + 1]
      BY DEF Carried
    <2> HIDE DEF p, e, h, t
    <2>4. i \in 1 .. n
      BY <1>1, <1>2, <1>3, <2>2
    <2> QED BY <1>4, <2>3, <2>4
  <1>7. ASSUME NEW i \in 1 .. t + 6 PROVE x[i] = s[i]
    <2> HIDE DEF h, t, L
    <2>1. i \in 1 .. n
      BY <1>1, <1>2, <1>3
    <2> QED BY <1>4, <2>1
  <1>8. \A i \in {1, 2, t + 3, t + 4, t + 5, t + 6} : x[i] = s[i]
    <2>1. \A i \in {1, 2, t + 3, t + 4, t + 5, t + 6} : i \in 1 .. t + 6
      <3> HIDE DEF t
      <3> QED BY <1>1
    <2> QED BY <1>7, <2>1
  <1>9. \A i \in 3 .. t + 2 : x[i] = a.target[i - 2]
    <2>1. \A i \in 3 .. t + 2 : i \in 1 .. t + 6
      <3> HIDE DEF t
      <3> QED BY <1>1
    <2>2. \A i \in 3 .. t + 2 : s[i] = a.target[i - 2]
      BY DEF Carried
    <2> QED BY <1>7, <2>1, <2>2
  <1>10. x[h] = "CR" /\ x[h + 1] = "LF" /\ h < Len(x)
    <2>1. s[h] = "CR" /\ s[h + 1] = "LF"
      BY DEF Carried
    <2> HIDE DEF h, t, L
    <2>2. h \in 1 .. n /\ h + 1 \in 1 .. n
      BY <1>1, <1>2, <1>3
    <2> QED BY <1>3, <1>4, <2>1, <2>2
  <1>11. /\ s[1] = a.method /\ s[2] = " "
         /\ s[t + 3] = " " /\ s[t + 4] = "HTTP" /\ s[t + 5] = "CR" /\ s[t + 6] = "LF"
         /\ at \in [0 .. m -> Nat] /\ at[0] = t + 7
         /\ \A k \in 1 .. m : at[k] = at[k - 1] + Len(a.headers[k][2]) + 5
    BY DEF Carried
  <1>12. /\ x[1] = a.method /\ x[2] = " "
         /\ x[t + 3] = " " /\ x[t + 4] = "HTTP" /\ x[t + 5] = "CR" /\ x[t + 6] = "LF"
    BY <1>8, <1>11
  <1> QED BY <1>4, <1>5, <1>6, <1>9, <1>10, <1>11, <1>12 DEF Carried, x

\* An empty line is where its four symbols are.
LEMMA FourAt ==
  ASSUME NEW s \in Texts, NEW q \in Nat \ {0}, q + 3 <= Len(s)
  PROVE  /\ CRLF \o CRLF \in Texts /\ Len(CRLF \o CRLF) = 4
         /\ SubSeq(s, q, q + 3) = CRLF \o CRLF
              <=> s[q] = "CR" /\ s[q + 1] = "LF" /\ s[q + 2] = "CR" /\ s[q + 3] = "LF"
  <1> DEFINE x == SubSeq(s, q, q + 3)
             y == CRLF \o CRLF
  <1>1. y \in Texts /\ Len(y) = 4 /\ y[1] = "CR" /\ y[2] = "LF" /\ y[3] = "CR" /\ y[4] = "LF"
    <2>1. CRLF \in Texts /\ Len(CRLF) = 2 /\ CRLF[1] = "CR" /\ CRLF[2] = "LF"
      BY Pieces
    <2> HIDE DEF CRLF
    <2>2. /\ y \in Texts /\ Len(y) = Len(CRLF) + Len(CRLF)
          /\ \A i \in 1 .. Len(CRLF) : y[i] = CRLF[i]
          /\ \A i \in Len(CRLF) + 1 .. Len(CRLF) + Len(CRLF) : y[i] = CRLF[i - Len(CRLF)]
      BY <2>1, ConcatAt
    <2> HIDE DEF y
    <2>3. \A i \in {1, 2} : i \in 1 .. Len(CRLF) /\ i + 2 \in Len(CRLF) + 1 .. Len(CRLF) + Len(CRLF)
                              /\ (i + 2) - Len(CRLF) = i
      <3>1. Len(CRLF) = 2
        BY <2>1
      <3> QED BY <3>1
    <2>4. \A i \in {1, 2} : y[i] = CRLF[i] /\ y[i + 2] = CRLF[i]
      BY <2>2, <2>3
    <2>5. y[1] = CRLF[1] /\ y[2] = CRLF[2] /\ y[1 + 2] = CRLF[1] /\ y[2 + 2] = CRLF[2]
      BY <2>4
    <2>6. Len(y) = 4
      <3>1. Len(CRLF) = 2
        BY <2>1
      <3> QED BY <2>2, <3>1
    <2> QED BY <2>1, <2>2, <2>5, <2>6
  <1>2. x \in Texts /\ Len(x) = 4 /\ x[1] = s[q] /\ x[2] = s[q + 1] /\ x[3] = s[q + 2] /\ x[4] = s[q + 3]
    <2>1. /\ q + 3 \in Int /\ q <= q + 3 /\ (q + 3) - q + 1 = 4
          /\ q + 1 - 1 = q /\ q + 2 - 1 = q + 1 /\ q + 3 - 1 = q + 2 /\ q + 4 - 1 = q + 3
      OBVIOUS
    <2>2. x \in Texts /\ Len(x) = 4 /\ \A i \in 1 .. 4 : x[i] = s[q + i - 1]
      BY <2>1, CutType
    <2> HIDE DEF x
    <2> QED BY <2>1, <2>2
  <1> HIDE DEF x, y
  <1>3. ASSUME x[1] = y[1], x[2] = y[2], x[3] = y[3], x[4] = y[4] PROVE x = y
    <2>1. \A i \in 1 .. 4 : i = 1 \/ i = 2 \/ i = 3 \/ i = 4
      OBVIOUS
    <2>2. x \in Seq(Symbols) /\ y \in Seq(Symbols) /\ Len(x) = Len(y)
      BY <1>1, <1>2 DEF Texts
    <2>3. \A i \in 1 .. Len(x) : x[i] = y[i]
      BY <1>2, <1>3, <2>1
    <2> QED BY <2>2, <2>3, SeqEqual
  <1>4. x = y <=> s[q] = "CR" /\ s[q + 1] = "LF" /\ s[q + 2] = "CR" /\ s[q + 3] = "LF"
    BY <1>1, <1>2, <1>3
  <1> QED BY <1>1, <1>4 DEF x, y

\* Two texts with the same symbols are the same.
LEMMA SameText ==
  ASSUME NEW x \in Texts, NEW y \in Texts, Len(x) = Len(y), \A i \in 1 .. Len(x) : x[i] = y[i]
  PROVE  x = y
  BY SeqEqual DEF Texts

\* A text of one symbol, and the first symbol of a text.
LEMMA OneSymbol ==
  ASSUME NEW x \in Symbols
  PROVE  <<x>> \in Texts /\ Len(<<x>>) = 1 /\ <<x>>[1] = x
  BY DEF Texts

\* A text cut to its first symbol.
LEMMA FirstCut ==
  ASSUME NEW s \in Texts, 1 <= Len(s)
  PROVE  SubSeq(s, 1, 1) \in Texts /\ Len(SubSeq(s, 1, 1)) = 1 /\ SubSeq(s, 1, 1)[1] = s[1]
  <1>1. 1 <= 1 /\ 1 - 1 + 1 = 1 /\ 1 + 1 - 1 = 1 /\ 1 \in 1 .. 1 - 1 + 1
    OBVIOUS
  <1> QED BY <1>1, CutType

\* What parseStartLine makes of it: the method and the target it begins with.
LEMMA StartLineIs ==
  ASSUME NEW a \in Asked, NEW s, NEW at, Carried(s, a, at)
  PROVE  /\ StartLine(s).method = <<a.method>> /\ StartLine(s).target = a.target
         /\ StartLine(s).next = at[0]
  <1> DEFINE t == Len(a.target)
             m == Len(a.headers)
             L == Len(s)
             p == Find(s, <<" ">>, 1)
             q == Find(s, <<" ">>, p + 1)
             r == Find(s, CRLF, q + 1)
  <1>0. m \in Nat /\ t \in Nat /\ t >= 1
    <2>1. m \in Nat /\ t \in Nat \ {0}
      BY AskedType
    <2> HIDE DEF t
    <2> QED BY <2>1
  <1>1. /\ a.method \in Symbols /\ a.method \notin {"CR", "LF", " "}
        /\ a.target \in Texts
        /\ \A i \in 1 .. t : a.target[i] \notin {"CR", "LF", " "}
    BY AskedType
  <1>2. /\ s \in Texts /\ at[0] = t + 7
        /\ s[1] = a.method /\ s[2] = " " /\ \A i \in 3 .. t + 2 : s[i] = a.target[i - 2]
        /\ s[t + 3] = " " /\ s[t + 4] = "HTTP" /\ s[t + 5] = "CR" /\ s[t + 6] = "LF"
    BY DEF Carried
  <1>3. L \in Nat /\ L >= t + 8
    <2> DEFINE h == at[m]
    <2>1. m \in 0 .. m
      BY <1>0
    <2>2. h \in Nat /\ h >= t + 7 /\ h < L /\ L \in Nat
      BY <2>1, BeforeLine
    <2> HIDE DEF h, L, t
    <2> QED BY <1>0, <2>2
  <1>4. " " \in Symbols
    BY DEF Symbols
  <1> HIDE DEF L, t
  <1>5. p = 2
    <2>1. 2 \in 1 .. L /\ \A i \in 1 .. 2 - 1 : i = 1
      BY <1>0, <1>3
    <2>2. \A i \in 1 .. 2 - 1 : s[i] # " "
      BY <1>1, <1>2, <2>1
    <2> HIDE DEF p
    <2>3. Find(s, <<" ">>, 1) = 2
      BY <1>2, <1>4, <2>1, <2>2, SymbolFound DEF L
    <2> QED BY <2>3 DEF p
  <1>6. q = t + 3
    <2>1. t + 3 \in 3 .. L
      BY <1>0, <1>3
    <2>2. ASSUME NEW i \in 3 .. (t + 3) - 1 PROVE s[i] # " "
      <3>1. i \in 3 .. t + 2 /\ i - 2 \in 1 .. t
        BY <1>0
      <3> QED BY <1>1, <1>2, <3>1
    <2>3. 3 \in Nat \ {0} /\ s[t + 3] = " " /\ s \in Texts /\ t + 3 \in 3 .. Len(s)
      BY <1>2, <2>1 DEF L
    <2>4. Find(s, <<" ">>, 3) = t + 3
      BY <1>4, <2>2, <2>3, SymbolFound
    <2>5. p + 1 = 3
      <3> HIDE DEF p
      <3> QED BY <1>5
    <2> QED BY <2>4, <2>5
  <1>7. r = t + 5
    <2>1. /\ t + 5 \in t + 4 .. L - 1 /\ t + 4 \in Nat \ {0} /\ (t + 5) + 1 = t + 6
          /\ \A i \in t + 4 .. (t + 5) - 1 : i = t + 4
          /\ (t + 3) + 1 = t + 4
      BY <1>0, <1>3
    <2>2. \A i \in t + 4 .. (t + 5) - 1 : s[i] # "CR"
      BY <1>2, <2>1
    <2>3. Find(s, CRLF, t + 4) = t + 5
      BY <1>2, <2>1, <2>2, LineEnd DEF L
    <2> HIDE DEF q
    <2> QED BY <1>6, <2>1, <2>3
  <1>8. Upto(s, 1, p) = <<a.method>>
    <2> DEFINE x == SubSeq(s, 1, 1)
    <2>1. Upto(s, 1, p) = x
      <3> HIDE DEF p
      <3>1. p # NPos /\ p - 1 = 1
        BY <1>5 DEF NPos
      <3> QED BY <3>1 DEF Upto
    <2>2. x \in Texts /\ Len(x) = 1 /\ x[1] = s[1]
      <3>1. 1 <= L
        BY <1>0, <1>3
      <3> QED BY <1>2, <3>1, FirstCut DEF L
    <2> DEFINE y == <<a.method>>
    <2>3. y \in Texts /\ Len(y) = 1 /\ y[1] = a.method
      BY <1>1, OneSymbol
    <2> HIDE DEF x, y
    <2>4. \A i \in 1 .. 1 : x[i] = y[i]
      <3>1. \A i \in 1 .. 1 : i = 1
        OBVIOUS
      <3> QED BY <1>2, <2>2, <2>3, <3>1
    <2>5. x = y
      BY <2>2, <2>3, <2>4, SameText
    <2> QED BY <2>1, <2>5 DEF y
  <1>9. Upto(s, p + 1, q) = a.target
    <2> DEFINE x == SubSeq(s, 3, t + 2)
    <2>1. Upto(s, p + 1, q) = x
      <3> HIDE DEF p, q
      <3>1. p + 1 = 3 /\ q # NPos /\ q - 1 = t + 2
        BY <1>0, <1>5, <1>6 DEF NPos
      <3> QED BY <3>1 DEF Upto
    <2>2. x \in Texts /\ Len(x) = t /\ \A i \in 1 .. t : x[i] = s[i + 2]
      <3>1. t + 2 \in Int /\ t + 2 <= L /\ 3 <= t + 2 /\ (t + 2) - 3 + 1 = t
            /\ \A i \in 1 .. t : 3 + i - 1 = i + 2
        BY <1>0, <1>3
      <3>2. /\ x \in Texts /\ Len(x) = IF 3 <= t + 2 THEN (t + 2) - 3 + 1 ELSE 0
            /\ \A i \in 1 .. (t + 2) - 3 + 1 : x[i] = s[3 + i - 1]
        BY <1>2, <3>1, CutType DEF L
      <3> HIDE DEF x
      <3>3. Len(x) = t
        BY <3>1, <3>2
      <3> QED BY <3>1, <3>2, <3>3
    <2> HIDE DEF x
    <2>3. ASSUME NEW i \in 1 .. t PROVE x[i] = a.target[i]
      <3>1. i + 2 \in 3 .. t + 2 /\ (i + 2) - 2 = i
        BY <1>0
      <3> QED BY <1>2, <2>2, <3>1
    <2>4. x = a.target
      BY <1>1, <2>2, <2>3, SameText DEF t
    <2> QED BY <2>1, <2>4
  <1>10. r + 2 = at[0]
    <2>1. (t + 5) + 2 = t + 7
      BY <1>0
    <2> HIDE DEF r
    <2> QED BY <1>2, <1>7, <2>1
  <1> HIDE DEF p, q, r
  <1>11. StartLine(s) = [method |-> Upto(s, 1, p), target |-> Upto(s, p + 1, q),
                         version |-> Upto(s, q + 1, r), next |-> r + 2]
    BY DEF StartLine, p, q, r
  <1> QED BY <1>8, <1>9, <1>10, <1>11

\* What receive() makes of the line of a header: its key and its value, and that the next
\* line is the next header's.
LEMMA HeaderIs ==
  ASSUME NEW s \in Texts, NEW header, NEW p \in Nat \ {0}, NEW e, Stands(s, header, p, e), e < Len(s)
  PROVE  /\ Header(s, p) \in [key : Texts, value : Texts, throws : BOOLEAN, next : Nat]
         /\ Header(s, p).key = <<header[1]>> /\ Header(s, p).value = header[2]
         /\ ~Header(s, p).throws /\ Header(s, p).next = e
  <1> DEFINE word  == header[1]
             value == header[2]
             l     == Len(value)
             L     == Len(s)
             end   == Find(s, CRLF, p)
             line  == Upto(s, p, end)
             colon == Find(line, <<":">>, 1)
  <1>1. /\ e \in Nat /\ l \in Nat /\ e = p + l + 5
        /\ word \in Symbols /\ word \notin {"CR", "LF", ":"}
        /\ value \in Texts /\ \A i \in 1 .. l : value[i] \notin {"CR", "LF"}
        /\ s[p] = word /\ s[p + 1] = ":" /\ s[p + 2] = " "
        /\ \A i \in p + 3 .. e - 3 : s[i] = value[i - p - 2]
        /\ s[e - 2] = "CR" /\ s[e - 1] = "LF"
    BY DEF Stands
  <1>2. L \in Nat /\ e < L
    BY LenProperties DEF Texts
  <1> HIDE DEF l, word, value, L
  <1>0. p \in Nat \ {0} /\ e \in Nat /\ l \in Nat /\ e = p + l + 5 /\ L \in Nat /\ e < L
    BY <1>1, <1>2
  <1>3. end = e - 2
    <2>1. e - 2 \in p .. L - 1 /\ (e - 2) + 1 = e - 1
      BY <1>0
    <2>2. ASSUME NEW i \in p .. (e - 2) - 1 PROVE s[i] # "CR"
      <3>1. i = p \/ i = p + 1 \/ i = p + 2 \/ (i \in p + 3 .. e - 3 /\ i - p - 2 \in 1 .. l)
        BY <1>0
      <3>2. CASE i \in p + 3 .. e - 3 /\ i - p - 2 \in 1 .. l
        BY <1>1, <3>2
      <3> QED BY <1>1, <3>1, <3>2
    <2>3. s[e - 2] = "CR" /\ s[(e - 2) + 1] = "LF" /\ e - 2 \in p .. Len(s) - 1
      BY <1>1, <2>1 DEF L
    <2>4. Find(s, CRLF, p) = e - 2
      BY <2>2, <2>3, LineEnd
    <2> QED BY <2>4
  <1>4. line = SubSeq(s, p, e - 3)
    <2> HIDE DEF end
    <2>1. end # NPos /\ end - 1 = e - 3
      BY <1>0, <1>3 DEF NPos
    <2> QED BY <2>1 DEF Upto
  <1> HIDE DEF line
  <1>5. line \in Texts /\ Len(line) = l + 3 /\ \A i \in 1 .. l + 3 : line[i] = s[p + i - 1]
    <2>1. e - 3 \in Int /\ e - 3 <= L /\ p <= e - 3 /\ (e - 3) - p + 1 = l + 3
      BY <1>0
    <2> QED BY <1>4, <2>1, CutType DEF L
  <1>6. line[1] = word /\ line[2] = ":" /\ \A i \in 1 .. l : line[i + 3] = value[i]
    <2>1. 1 \in 1 .. l + 3 /\ 2 \in 1 .. l + 3 /\ p + 1 - 1 = p /\ p + 2 - 1 = p + 1
      BY <1>0
    <2>2. line[1] = word /\ line[2] = ":"
      BY <1>1, <1>5, <2>1
    <2>3. ASSUME NEW i \in 1 .. l PROVE line[i + 3] = value[i]
      <3>1. i + 3 \in 1 .. l + 3 /\ p + (i + 3) - 1 \in p + 3 .. e - 3 /\ (p + (i + 3) - 1) - p - 2 = i
        BY <1>0
      <3>2. line[i + 3] = s[p + (i + 3) - 1]
        BY <1>5, <3>1
      <3>3. s[p + (i + 3) - 1] = value[(p + (i + 3) - 1) - p - 2]
        BY <1>1, <3>1
      <3> QED BY <3>1, <3>2, <3>3
    <2> QED BY <2>2, <2>3
  <1>7. colon = 2
    <2>1. 2 \in 1 .. Len(line) /\ \A i \in 1 .. 2 - 1 : i = 1
      <3>1. Len(line) = l + 3 /\ l \in Nat
        BY <1>1, <1>5
      <3> QED BY <3>1
    <2>2. ":" \in Symbols
      BY DEF Symbols
    <2>3. \A i \in 1 .. 2 - 1 : line[i] # ":"
      BY <1>1, <1>6, <2>1
    <2>4. Find(line, <<":">>, 1) = 2
      BY <1>5, <1>6, <2>1, <2>2, <2>3, SymbolFound
    <2> QED BY <2>4
  <1> DEFINE key  == Upto(line, 1, colon)
             rest == SubSeq(line, colon + 2, Len(line))
  <1>8. key = <<word>> /\ key \in Texts
    <2> DEFINE x == SubSeq(line, 1, 1)
               y == <<word>>
    <2>1. key = x
      <3>1. colon # NPos /\ colon - 1 = 1
        BY <1>7 DEF NPos
      <3> HIDE DEF colon
      <3> QED BY <3>1 DEF Upto
    <2>2. x \in Texts /\ Len(x) = 1 /\ x[1] = line[1]
      <3>1. 1 <= Len(line)
        <4>1. Len(line) = l + 3 /\ l \in Nat
          BY <1>1, <1>5
        <4> QED BY <4>1
      <3> QED BY <1>5, <3>1, FirstCut
    <2>3. y \in Texts /\ Len(y) = 1 /\ y[1] = word
      BY <1>1, OneSymbol
    <2> HIDE DEF x, y, key
    <2>4. \A i \in 1 .. 1 : x[i] = y[i]
      <3>1. \A i \in 1 .. 1 : i = 1
        OBVIOUS
      <3> QED BY <1>6, <2>2, <2>3, <3>1
    <2>5. x = y
      BY <2>2, <2>3, <2>4, SameText
    <2> QED BY <2>1, <2>3, <2>5 DEF y
  <1>9. rest = value
    <2> DEFINE x == SubSeq(line, 4, l + 3)
    <2>1. rest = x
      <3>1. colon + 2 = 4 /\ Len(line) = l + 3
        BY <1>5, <1>7
      <3> HIDE DEF colon
      <3> QED BY <3>1
    <2>2. x \in Texts /\ Len(x) = l /\ \A i \in 1 .. l : x[i] = line[i + 3]
      <3>1. l + 3 \in Int /\ (4 <= l + 3 <=> l # 0) /\ (l + 3) - 4 + 1 = l
            /\ \A i \in 1 .. l : 4 + i - 1 = i + 3
        BY <1>0
      <3>2. l + 3 <= Len(line)
        <4>1. Len(line) = l + 3 /\ l \in Nat
          BY <1>1, <1>5
        <4> QED BY <4>1
      <3>3. /\ x \in Texts /\ Len(x) = IF 4 <= l + 3 THEN (l + 3) - 4 + 1 ELSE 0
            /\ \A i \in 1 .. (l + 3) - 4 + 1 : x[i] = line[4 + i - 1]
        BY <1>5, <3>1, <3>2, CutType
      <3> HIDE DEF x
      <3>4. Len(x) = l
        BY <1>0, <3>1, <3>3
      <3> QED BY <3>1, <3>3, <3>4
    <2> HIDE DEF x, rest
    <2>3. Len(x) = Len(value) /\ \A i \in 1 .. Len(x) : x[i] = value[i]
      BY <1>6, <2>2 DEF l
    <2>4. x = value
      BY <1>1, <2>2, <2>3, SameText
    <2> QED BY <2>1, <2>4
  <1>10. ~(colon + 1 > Len(line))
    <2>1. Len(line) = l + 3 /\ l \in Nat
      BY <1>1, <1>5
    <2> HIDE DEF colon
    <2> QED BY <1>7, <2>1
  <1>11. end + 2 = e
    <2> HIDE DEF end
    <2> QED BY <1>0, <1>3
  <1> HIDE DEF end, colon, key, rest
  <1>12. Header(s, p) = [key |-> key, value |-> rest, throws |-> colon + 1 > Len(line), next |-> end + 2]
    BY DEF Header, end, line, colon, key, rest
  <1> DEFINE over == colon + 1 > Len(line)
  <1>13. over \in BOOLEAN /\ ~over
    BY <1>10
  <1> HIDE DEF over
  <1>14. Header(s, p) = [key |-> key, value |-> rest, throws |-> over, next |-> e]
    BY <1>11, <1>12 DEF over
  <1>15. key \in Texts /\ rest \in Texts /\ e \in Nat
    BY <1>1, <1>8, <1>9
  <1>16. Header(s, p) \in [key : Texts, value : Texts, throws : BOOLEAN, next : Nat]
    BY <1>13, <1>14, <1>15
  <1> QED BY <1>8, <1>9, <1>13, <1>14, <1>16 DEF word, value

\* The headers are over where the empty line is, and not before.
LEMMA OverThere ==
  ASSUME NEW a \in Asked, NEW s, NEW at, Carried(s, a, at)
  PROVE  /\ OverAt(s, at[Len(a.headers)])
         /\ \A k \in 1 .. Len(a.headers) : ~OverAt(s, at[k - 1])
  <1> DEFINE m == Len(a.headers)
  <1>1. m \in Nat /\ Len(a.target) \in Nat
    BY AskedType
  <1>2. s \in Texts
    BY DEF Carried
  <1>3. ASSUME NEW k \in 0 .. m, at[k] < Len(s)
        PROVE  OverAt(s, at[k]) <=> s[at[k]] = "CR" /\ s[at[k] + 1] = "LF"
    <2> DEFINE p == at[k]
               L == Len(s)
    <2>1. p \in Nat /\ p >= Len(a.target) + 7 /\ s[p - 2] = "CR" /\ s[p - 1] = "LF" /\ L \in Nat
      BY BeforeLine
    <2>2. p < L
      BY <1>3
    <2> HIDE DEF p, L
    <2>3. /\ p - 2 \in Nat \ {0} /\ (p - 2) + 3 <= L /\ (p - 2) + 3 = p + 1
          /\ (p - 2) + 1 = p - 1 /\ (p - 2) + 2 = p /\ p > 2
      <3>1. p \in Nat /\ p >= 7 /\ L \in Nat /\ p < L
        BY <1>1, <2>1, <2>2
      <3> QED BY <3>1
    <2>4. SubSeq(s, p - 2, (p - 2) + 3) = CRLF \o CRLF
            <=> s[p - 2] = "CR" /\ s[(p - 2) + 1] = "LF" /\ s[(p - 2) + 2] = "CR" /\ s[(p - 2) + 3] = "LF"
      BY <1>2, <2>3, FourAt DEF L
    <2>5. SubSeq(s, p - 2, p + 1) = CRLF \o CRLF <=> s[p] = "CR" /\ s[p + 1] = "LF"
      <3> HIDE DEF CRLF
      <3> QED BY <2>1, <2>3, <2>4
    <2>6. OverAt(s, p) <=> SubSeq(s, p - 2, p + 1) = CRLF \o CRLF
      <3> HIDE DEF CRLF
      <3> QED BY <2>2, <2>3 DEF OverAt, L
    <2>7. OverAt(s, p) <=> s[p] = "CR" /\ s[p + 1] = "LF"
      BY <2>5, <2>6
    <2> QED BY <2>7 DEF p
  <1>4. OverAt(s, at[m])
    <2>1. at[m] < Len(s) /\ s[at[m]] = "CR" /\ s[at[m] + 1] = "LF"
      BY DEF Carried
    <2>2. m \in 0 .. m
      <3> HIDE DEF m
      <3> QED BY <1>1
    <2> QED BY <1>3, <2>1, <2>2
  <1>5. ASSUME NEW k \in 1 .. m PROVE ~OverAt(s, at[k - 1])
    <2>1. k - 1 \in 0 .. m
      BY <1>1
    <2>2. at[k - 1] < Len(s)
      BY <2>1, BeforeLine
    <2>3. s[at[k - 1]] # "CR"
      <3>1. Stands(s, a.headers[k], at[k - 1], at[k])
        BY HeaderSpot
      <3> QED BY <3>1 DEF Stands
    <2> QED BY <1>3, <2>1, <2>2, <2>3
  <1> QED BY <1>4, <1>5

\* No two lines end so close together before.
LEMMA NoEarlyEnd ==
  ASSUME NEW a \in Asked, NEW s, NEW at, Carried(s, a, at),
         NEW q \in 1 .. at[Len(a.headers)] - 3, s[q] = "CR"
  PROVE  s[q + 2] # "CR"
  <1> DEFINE m == Len(a.headers)
             t == Len(a.target)
             Good(j) == \A i \in 1 .. at[j] - 1 : s[i] = "CR" => i = at[j] - 2 \/ s[i + 2] # "CR"
             bad == {j \in 0 .. m : ~Good(j)}
  <1>1. m \in Nat /\ t \in Nat
    BY AskedType
  <1>2. ASSUME NEW k \in 0 .. m PROVE at[k] \in Nat
    BY BeforeLine
  <1>3. bad = {}
    <2> SUFFICES ASSUME bad # {} PROVE FALSE
      OBVIOUS
    <2>1. bad \subseteq Nat
      <3> HIDE DEF Good, m
      <3> QED BY <1>1
    <2>2. PICK j \in bad : \A i \in bad : j <= i
      <3> HIDE DEF bad
      <3> QED BY <2>1, LeastNumber
    <2>3. j \in 0 .. m /\ ~Good(j)
      BY <2>2
    <2>4. CASE j = 0
      <3>1. /\ s[1] = a.method /\ s[2] = " " /\ \A i \in 3 .. t + 2 : s[i] = a.target[i - 2]
            /\ s[t + 3] = " " /\ s[t + 4] = "HTTP" /\ s[t + 6] = "LF" /\ at[0] = t + 7
        BY DEF Carried
      <3>2. a.method # "CR" /\ \A i \in 1 .. t : a.target[i] # "CR"
        BY AskedType
      <3> HIDE DEF t, m, bad
      <3>3. ASSUME NEW i \in 1 .. at[0] - 1, s[i] = "CR" PROVE i = at[0] - 2
        <4>1. i \in 1 .. (t + 7) - 1
          BY <3>1
        <4>2. /\ i = 1 \/ i = 2 \/ (i \in 3 .. t + 2 /\ i - 2 \in 1 .. t)
                 \/ i = t + 3 \/ i = t + 4 \/ i = t + 5 \/ i = t + 6
              /\ (t + 7) - 2 = t + 5
          BY <1>1, <4>1
        <4>3. CASE i \in 3 .. t + 2 /\ i - 2 \in 1 .. t
          BY <3>1, <3>2, <3>3, <4>3
        <4>4. i = t + 5
          BY <3>1, <3>2, <3>3, <4>2, <4>3
        <4> QED BY <3>1, <4>2, <4>4
      <3> QED BY <2>3, <2>4, <3>3
    <2>5. CASE j # 0
      <3> DEFINE g == j - 1
      <3>1. g \in 0 .. m /\ ~(j <= g) /\ j \in 1 .. m
        <4> HIDE DEF m
        <4> QED BY <1>1, <2>3, <2>5
      <3>2. Good(g)
        <4>1. g \notin bad
          BY <2>2, <3>1
        <4> HIDE DEF Good
        <4> QED BY <3>1, <4>1
      <3> DEFINE p == at[g]
                 e == at[j]
                 header == a.headers[j]
                 l == Len(header[2])
      <3>3. Stands(s, header, p, e)
        BY <3>1, HeaderSpot
      <3>4. /\ p \in Nat /\ e \in Nat /\ l \in Nat /\ e = p + l + 5
        BY <3>3 DEF Stands
      <3>5. /\ s[p] # "CR" /\ s[p + 1] # "CR" /\ s[p + 2] # "CR" /\ s[e - 1] # "CR"
        BY <3>3 DEF Stands
      <3>6. /\ \A i \in p + 3 .. e - 3 : s[i] = header[2][i - p - 2]
            /\ \A i \in 1 .. l : header[2][i] # "CR"
        BY <3>3 DEF Stands
      <3>7. \A i \in 1 .. p - 1 : s[i] = "CR" => i = p - 2 \/ s[i + 2] # "CR"
        BY <3>2
      <3> HIDE DEF p, e, header, l, bad, m, t
      <3>8. ASSUME NEW i \in 1 .. e - 1, s[i] = "CR" PROVE i = e - 2 \/ s[i + 2] # "CR"
        <4>1. \/ i \in 1 .. p - 1
              \/ i = p \/ i = p + 1 \/ i = p + 2 \/ (i \in p + 3 .. e - 3 /\ i - p - 2 \in 1 .. l)
              \/ i = e - 2 \/ i = e - 1
          BY <3>4
        <4>2. CASE i \in 1 .. p - 1
          <5>1. i = p - 2 => i + 2 = p
            BY <3>4
          <5> QED BY <3>5, <3>7, <3>8, <4>2, <5>1
        <4>3. CASE i \in p + 3 .. e - 3 /\ i - p - 2 \in 1 .. l
          BY <3>6, <3>8, <4>3
        <4> QED BY <3>5, <3>8, <4>1, <4>2, <4>3
      <3>9. Good(j)
        BY <3>8 DEF e
      <3> QED BY <2>3, <3>9
    <2> QED BY <2>4, <2>5
  <1>4. Good(m)
    <2>1. m \in 0 .. m /\ m \notin bad
      <3> HIDE DEF bad
      <3> QED BY <1>1, <1>3
    <2> HIDE DEF Good
    <2> QED BY <2>1
  <1> DEFINE h == at[m]
  <1>5. h \in Nat
    <2>1. m \in 0 .. m
      BY <1>1
    <2> QED BY <1>2, <2>1
  <1>6. \A i \in 1 .. h - 1 : s[i] = "CR" => i = h - 2 \/ s[i + 2] # "CR"
    BY <1>4
  <1>7. q \in 1 .. h - 3
    OBVIOUS
  <1> HIDE DEF h, Good, bad
  <1>8. q \in 1 .. h - 1 /\ q # h - 2
    BY <1>5, <1>7
  <1> QED BY <1>6, <1>8

\* The header has come in exactly when its empty line has.
LEMMA HeaderIn ==
  ASSUME NEW a \in Asked, NEW s, NEW at, Carried(s, a, at), NEW n \in 0 .. Len(s)
  PROVE  HeaderIsIn(SubSeq(s, 1, n)) <=> n > at[Len(a.headers)]
  <1> DEFINE m == Len(a.headers)
             h == at[m]
             L == Len(s)
             x == SubSeq(s, 1, n)
             two == CRLF \o CRLF
             hits == {q \in 1 .. Len(x) - Len(two) + 1 : SubSeq(x, q, q + Len(two) - 1) = two}
  <1>1. m \in Nat /\ m \in 0 .. m /\ s \in Texts
    <2>1. m \in Nat /\ s \in Texts
      BY AskedType DEF Carried
    <2> HIDE DEF m
    <2> QED BY <2>1
  <1>2. h \in Nat /\ h >= Len(a.target) + 7 /\ h < L /\ L \in Nat /\ Len(a.target) \in Nat
        /\ s[h - 2] = "CR" /\ s[h - 1] = "LF" /\ s[h] = "CR" /\ s[h + 1] = "LF"
    <2>1. s[h] = "CR" /\ s[h + 1] = "LF"
      BY DEF Carried
    <2>2. h \in Nat /\ h >= Len(a.target) + 7 /\ h < L /\ L \in Nat
        /\ s[h - 2] = "CR" /\ s[h - 1] = "LF"
      BY <1>1, BeforeLine
    <2> QED BY <2>1, <2>2, AskedType
  <1>3. h \in Nat /\ h >= 7 /\ h < L /\ L \in Nat /\ n \in 0 .. L
    <2>1. n \in 0 .. L
      OBVIOUS
    <2> DEFINE t == Len(a.target)
    <2>2. t \in Nat /\ h >= t + 7 /\ h \in Nat /\ h < L /\ L \in Nat
      BY <1>2
    <2> HIDE DEF t, h, L
    <2> QED BY <2>1, <2>2
  <1> HIDE DEF L, h
  <1>4. x \in Texts /\ Len(x) = n /\ \A i \in 1 .. n : x[i] = s[i]
    <2>1. n \in Int /\ n <= L /\ n - 1 + 1 = n /\ (1 <= n <=> n # 0) /\ \A i \in 1 .. n : 1 + i - 1 = i
      BY <1>3
    <2>2. /\ x \in Texts /\ Len(x) = IF 1 <= n THEN n - 1 + 1 ELSE 0
          /\ \A i \in 1 .. n - 1 + 1 : x[i] = s[1 + i - 1]
      BY <1>1, <2>1, CutType DEF L
    <2> HIDE DEF x
    <2>3. Len(x) = n
      BY <1>3, <2>1, <2>2
    <2> QED BY <2>1, <2>2, <2>3
  <1>5. two \in Texts /\ Len(two) = 4
    <2>1. 7 <= L /\ 1 + 3 <= Len(s) /\ 1 \in Nat \ {0}
      <3>1. 7 <= L /\ 1 + 3 <= L
        BY <1>3
      <3> QED BY <3>1 DEF L
    <2> QED BY <1>1, <2>1, FourAt
  <1> HIDE DEF x, two
  <1>6. /\ hits = {} => Find(x, two, 1) = NPos
        /\ hits # {} => Find(x, two, 1) \in hits
    <2>1. 1 \in Nat \ {0}
      OBVIOUS
    <2> QED BY <1>4, <1>5, <2>1, FindIs
  <1>7. HeaderIsIn(x) <=> hits # {}
    <2>1. HeaderIsIn(x) <=> Find(x, two, 1) # NPos
      BY DEF HeaderIsIn, two
    <2>2. \A q \in hits : q # 0
      <3>1. \A i, k : i \in 1 .. k => i # 0
        OBVIOUS
      <3> QED BY <3>1
    <2> HIDE DEF hits
    <2> QED BY <1>6, <2>1, <2>2 DEF NPos
  <1>8. \A q : q \in hits <=> q \in 1 .. n - 3 /\ SubSeq(x, q, q + 3) = two
    <2>1. Len(x) - Len(two) + 1 = n - 3
      <3>1. Len(x) = n /\ Len(two) = 4 /\ n \in Nat
        BY <1>3, <1>4, <1>5
      <3> QED BY <3>1
    <2>2. \A q \in 1 .. n - 3 : q + Len(two) - 1 = q + 3
      BY <1>5
    <2> QED BY <2>1, <2>2
  <1>9. ASSUME NEW q \in 1 .. n - 3
        PROVE  SubSeq(x, q, q + 3) = two
                 <=> s[q] = "CR" /\ s[q + 1] = "LF" /\ s[q + 2] = "CR" /\ s[q + 3] = "LF"
    <2>1. /\ q \in Nat \ {0} /\ q + 3 <= n
          /\ q \in 1 .. n /\ q + 1 \in 1 .. n /\ q + 2 \in 1 .. n /\ q + 3 \in 1 .. n
      BY <1>3
    <2>2. SubSeq(x, q, q + 3) = two
            <=> x[q] = "CR" /\ x[q + 1] = "LF" /\ x[q + 2] = "CR" /\ x[q + 3] = "LF"
      BY <1>4, <2>1, FourAt DEF two
    <2> QED BY <1>4, <2>1, <2>2
  <1> HIDE DEF hits
  <1>10. ASSUME n > h PROVE hits # {}
    <2>1. h - 2 \in 1 .. n - 3 /\ (h - 2) + 1 = h - 1 /\ (h - 2) + 2 = h /\ (h - 2) + 3 = h + 1
      BY <1>3, <1>10
    <2>2. h - 2 \in hits
      BY <1>2, <1>8, <1>9, <2>1
    <2> QED BY <2>2
  <1>11. ASSUME ~(n > h) PROVE hits = {}
    <2> SUFFICES ASSUME NEW q \in hits PROVE FALSE
      OBVIOUS
    <2>1. q \in 1 .. n - 3 /\ s[q] = "CR" /\ s[q + 2] = "CR"
      BY <1>8, <1>9
    <2>2. q \in 1 .. h - 3
      BY <1>3, <1>11, <2>1
    <2> QED BY <2>1, <2>2, NoEarlyEnd DEF h
  <1> QED BY <1>7, <1>10, <1>11 DEF x, h

-----------------------------------------------------------------------------
(* The header lines. *)

\* What the loop of receive() makes of a line.
HeaderLine == [key : Texts, value : Texts, throws : BOOLEAN, next : Nat]

\* What a search for a symbol or a line end leaves of a text is a text.
LEMMA UptoType ==
  ASSUME NEW s \in Texts, NEW p \in Nat \ {0}, NEW q \in 0 .. Len(s)
  PROVE  Upto(s, p, q) \in Texts
  <1> DEFINE e == IF q = NPos THEN Len(s) ELSE q - 1
  <1>1. e \in Int /\ e <= Len(s)
    <2> DEFINE L == Len(s)
    <2>1. L \in Nat /\ q \in 0 .. L
      BY LenProperties DEF Texts
    <2> HIDE DEF L
    <2>2. q - 1 \in Int /\ q - 1 <= L /\ L \in Int
      BY <2>1
    <2> QED BY <2>2 DEF L
  <1> HIDE DEF e
  <1>2. Upto(s, p, q) = SubSeq(s, p, e)
    BY DEF Upto, e
  <1> QED BY <1>1, <1>2, CutType

\* Every line has a key and a value, and the next line is behind it or, if it never ends,
\* where none can be.
LEMMA LineType ==
  ASSUME NEW s \in Texts, NEW q \in 1 .. Len(s) + 2
  PROVE  /\ Header(s, q) \in HeaderLine
         /\ Header(s, q).next \in {2} \cup (q + 2) .. (Len(s) + 1)
  <1> DEFINE L     == Len(s)
             end   == Find(s, CRLF, q)
             line  == Upto(s, q, end)
             colon == Find(line, <<":">>, 1)
             key   == Upto(line, 1, colon)
             rest  == SubSeq(line, colon + 2, Len(line))
             over  == colon + 1 > Len(line)
  <1>1. L \in Nat /\ q \in Nat \ {0}
    <2>1. L \in Nat /\ q \in 1 .. L + 2
      BY LenProperties DEF Texts
    <2> HIDE DEF L
    <2> QED BY <2>1
  <1>2. end \in {0} \cup q .. L - 1
    BY <1>1, LineEnd
  <1> HIDE DEF L, end
  <1>3. end \in 0 .. L
    BY <1>1, <1>2
  <1>4. line \in Texts
    BY <1>1, <1>3, UptoType DEF L
  <1> HIDE DEF line
  <1>5. colon \in {0} \cup 1 .. Len(line)
    <2>1. ":" \in Symbols /\ 1 \in Nat \ {0}
      BY DEF Symbols
    <2> QED BY <1>4, <2>1, SymbolFound
  <1> HIDE DEF colon
  <1>6. Len(line) \in Nat
    BY <1>4, LenProperties DEF Texts
  <1>7. colon \in 0 .. Len(line) /\ colon + 2 \in Nat \ {0} /\ Len(line) \in Int /\ Len(line) <= Len(line)
    <2> DEFINE l == Len(line)
    <2>1. l \in Nat /\ colon \in {0} \cup 1 .. l
      BY <1>5, <1>6
    <2> HIDE DEF l
    <2>2. colon \in 0 .. l /\ colon + 2 \in Nat \ {0} /\ l \in Int /\ l <= l
      BY <2>1
    <2> QED BY <2>2 DEF l
  <1>8. key \in Texts
    <2>1. 1 \in Nat \ {0}
      OBVIOUS
    <2> QED BY <1>4, <1>7, <2>1, UptoType
  <1>9. rest \in Texts
    BY <1>4, <1>7, CutType
  <1>10. over \in BOOLEAN
    OBVIOUS
  <1>11. end + 2 \in Nat /\ end + 2 \in {2} \cup (q + 2) .. (L + 1)
    BY <1>1, <1>2
  <1>12. Header(s, q) = [key |-> key, value |-> rest, throws |-> over, next |-> end + 2]
    BY DEF Header, end, line, colon
  <1> HIDE DEF key, rest, over
  <1> QED BY <1>8, <1>9, <1>10, <1>11, <1>12 DEF HeaderLine, L

\* One turn of the loop of receive(): what it makes of a text from q on, if f says what it
\* makes of it from the next line on.
LinesFrom(s, f, q) ==
  LET line == Header(s, q)
  IN  IF OverAt(s, q) THEN [lines |-> Empty, over |-> q]
      ELSE IF q <= 2 \/ line.throws THEN [lines |-> Empty, over |-> 0]
      ELSE [lines |-> <<line>> \o f[line.next].lines, over |-> f[line.next].over]

\* What a turn of the loop makes of the text, case by case.
LEMMA LinesCases ==
  ASSUME NEW s, NEW f, NEW q
  PROVE  /\ OverAt(s, q) => LinesFrom(s, f, q) = [lines |-> Empty, over |-> q]
         /\ ~OverAt(s, q) /\ (q <= 2 \/ Header(s, q).throws) =>
              LinesFrom(s, f, q) = [lines |-> Empty, over |-> 0]
         /\ ~OverAt(s, q) /\ ~(q <= 2 \/ Header(s, q).throws) =>
              LinesFrom(s, f, q) = [lines |-> <<Header(s, q)>> \o f[Header(s, q).next].lines,
                                    over |-> f[Header(s, q).next].over]
  BY Zenon DEF LinesFrom

\* The loop always gets somewhere: no line is its own next one.
LEMMA LinesExist ==
  ASSUME NEW s \in Texts
  PROVE  \E f : f = [q \in 1 .. Len(s) + 2 |-> LinesFrom(s, f, q)]
  <1> DEFINE L       == Len(s)
             D(b)    == {q \in 1 .. L + 2 : q <= 2 \/ q >= b}
             Is(f, b) == /\ f = [q \in D(b) |-> f[q]]
                         /\ \A q \in D(b) : f[q] = LinesFrom(s, f, q)
             Good(m) == \E f : Is(f, L + 3 - m)
             bad     == {m \in 0 .. L + 2 : ~Good(m)}
  <1>1. L \in Nat
    BY LenProperties DEF Texts
  <1>2. ASSUME NEW q \in 1 .. L + 2
        PROVE  Header(s, q).next \in 1 .. L + 2 /\ (Header(s, q).next <= 2 \/ Header(s, q).next >= q + 2)
    <2> DEFINE z == Header(s, q).next
    <2>1. z \in {2} \cup (q + 2) .. (L + 1)
      BY LineType
    <2> HIDE DEF z, L
    <2>2. z \in 1 .. L + 2 /\ (z <= 2 \/ z >= q + 2)
      BY <1>1, <2>1
    <2> QED BY <2>2 DEF z
  <1>3. ASSUME NEW f, NEW q \in Int, q <= 2 PROVE LinesFrom(s, f, q) = [lines |-> Empty, over |-> 0]
    <2>2. ~OverAt(s, q)
      BY <1>3 DEF OverAt
    <2> QED BY <1>3, <2>2, LinesCases
  <1>4. bad = {}
    <2> SUFFICES ASSUME bad # {} PROVE FALSE
      OBVIOUS
    <2>1. bad \subseteq Nat
      <3> HIDE DEF Good, L
      <3> QED BY <1>1
    <2>2. PICK m \in bad : \A k \in bad : m <= k
      <3> HIDE DEF bad
      <3> QED BY <2>1, LeastNumber
    <2>3. m \in 0 .. L + 2 /\ ~Good(m)
      BY <2>2
    <2>4. CASE m = 0
      <3> DEFINE f == [q \in D(L + 3) |-> [lines |-> Empty, over |-> 0]]
      <3>1. \A q \in D(L + 3) : q \in Int /\ q <= 2
        <4> HIDE DEF L
        <4> QED BY <1>1
      <3>2. \A q \in D(L + 3) : f[q] = LinesFrom(s, f, q)
        <4> HIDE DEF L
        <4>1. \A q \in D(L + 3) : f[q] = [lines |-> Empty, over |-> 0]
          OBVIOUS
        <4> HIDE DEF f, D
        <4> QED BY <1>3, <3>1, <4>1
      <3>3. Is(f, L + 3)
        <4>1. f = [q \in D(L + 3) |-> f[q]]
          OBVIOUS
        <4> HIDE DEF f, D, L
        <4> QED BY <3>2, <4>1
      <3>4. L + 3 - m = L + 3
        <4> HIDE DEF L
        <4> QED BY <1>1, <2>4
      <3> HIDE DEF Is, f, L
      <3>5. Good(m)
        BY <3>3, <3>4
      <3> QED BY <2>3, <3>5
    <2>5. CASE m # 0
      <3> DEFINE b == L + 3 - m
      <3>1. b \in 1 .. L + 2 /\ L + 3 - (m - 1) = b + 1 /\ m - 1 \in 0 .. L + 2 /\ ~(m <= m - 1)
        <4> HIDE DEF L
        <4> QED BY <1>1, <2>3, <2>5
      <3>2. Good(m - 1)
        <4>1. m - 1 \notin bad
          BY <2>2, <3>1
        <4> HIDE DEF Good
        <4> QED BY <3>1, <4>1
      <3> HIDE DEF b, bad, L
      <3>3. PICK f : Is(f, b + 1)
        BY <3>1, <3>2
      <3> DEFINE g == [q \in D(b) |-> IF q = b THEN LinesFrom(s, f, b) ELSE f[q]]
      <3>4. ASSUME NEW q \in D(b), q # b PROVE q \in D(b + 1) /\ g[q] = f[q]
        <4>1. q \in D(b + 1)
          BY <1>1, <3>1, <3>4
        <4>2. g[q] = f[q]
          <5> HIDE DEF D
          <5> QED BY <3>4
        <4> QED BY <4>1, <4>2
      <3>5. ASSUME NEW q \in D(b), NEW h1, NEW h2, ~(q <= 2) => h1[Header(s, q).next] = h2[Header(s, q).next]
            PROVE  LinesFrom(s, h1, q) = LinesFrom(s, h2, q)
        <4>1. CASE OverAt(s, q)
          <5>1. LinesFrom(s, h1, q) = [lines |-> Empty, over |-> q]
            BY <4>1, LinesCases
          <5>2. LinesFrom(s, h2, q) = [lines |-> Empty, over |-> q]
            BY <4>1, LinesCases
          <5> QED BY <5>1, <5>2
        <4>2. CASE ~OverAt(s, q) /\ (q <= 2 \/ Header(s, q).throws)
          <5>1. LinesFrom(s, h1, q) = [lines |-> Empty, over |-> 0]
            BY <4>2, LinesCases
          <5>2. LinesFrom(s, h2, q) = [lines |-> Empty, over |-> 0]
            BY <4>2, LinesCases
          <5> QED BY <5>1, <5>2
        <4>3. CASE ~OverAt(s, q) /\ ~(q <= 2 \/ Header(s, q).throws)
          <5>1. h1[Header(s, q).next] = h2[Header(s, q).next]
            BY <3>5, <4>3
          <5>2. /\ LinesFrom(s, h1, q) = [lines |-> <<Header(s, q)>> \o h1[Header(s, q).next].lines,
                                           over |-> h1[Header(s, q).next].over]
                /\ LinesFrom(s, h2, q) = [lines |-> <<Header(s, q)>> \o h2[Header(s, q).next].lines,
                                           over |-> h2[Header(s, q).next].over]
            BY <4>3, LinesCases
          <5> QED BY <5>1, <5>2
        <4> QED BY <4>1, <4>2, <4>3
      <3>6. ASSUME NEW q \in D(b), ~(q <= 2)
            PROVE  g[Header(s, q).next] = f[Header(s, q).next]
        <4> DEFINE z == Header(s, q).next
        <4>1. q \in 1 .. L + 2 /\ q >= b
          BY <3>6
        <4>2. z \in 1 .. L + 2 /\ (z <= 2 \/ z >= q + 2)
          BY <1>2, <4>1
        <4> HIDE DEF z
        <4>3. z \in D(b)
          BY <1>1, <3>1, <4>1, <4>2
        <4>4. CASE z # b
          BY <3>4, <4>3, <4>4 DEF z
        <4>5. CASE z = b
          <5>1. b <= 2 /\ b \in Int
            BY <1>1, <3>1, <4>1, <4>2, <4>5
          <5>2. LinesFrom(s, f, b) = [lines |-> Empty, over |-> 0]
            BY <1>3, <5>1
          <5>3. b \in D(b + 1)
            BY <1>1, <3>1, <5>1
          <5>4. f[b] = LinesFrom(s, f, b)
            BY <3>3, <5>3
          <5>5. g[b] = LinesFrom(s, f, b)
            <6>1. b \in D(b)
              BY <4>3, <4>5
            <6> HIDE DEF D
            <6> QED BY <6>1
          <5> HIDE DEF g, D, Is
          <5> QED BY <4>5, <5>4, <5>5 DEF z
        <4> QED BY <4>4, <4>5
      <3>7. ASSUME NEW q \in D(b) PROVE g[q] = LinesFrom(s, g, q)
        <4>1. LinesFrom(s, g, q) = LinesFrom(s, f, q)
          <5>1. ~(q <= 2) => g[Header(s, q).next] = f[Header(s, q).next]
            BY <3>6
          <5> HIDE DEF g, D, Is
          <5> QED BY <3>5, <5>1
        <4>2. CASE q = b
          <5>1. g[b] = LinesFrom(s, f, b)
            <6>1. b \in D(b)
              BY <4>2
            <6> HIDE DEF D
            <6> QED BY <6>1
          <5> HIDE DEF g, D, Is
          <5> QED BY <4>1, <4>2, <5>1
        <4>3. CASE q # b
          <5>1. q \in D(b + 1) /\ g[q] = f[q]
            BY <3>4, <4>3
          <5>2. f[q] = LinesFrom(s, f, q)
            BY <3>3, <5>1
          <5> HIDE DEF g, D, Is
          <5> QED BY <4>1, <5>1, <5>2
        <4> QED BY <4>2, <4>3
      <3>8. Is(g, b)
        <4>1. g = [q \in D(b) |-> g[q]]
          <5> HIDE DEF D
          <5> QED OBVIOUS
        <4> HIDE DEF g, D
        <4> QED BY <3>7, <4>1
      <3> HIDE DEF Is, g
      <3>9. Good(m)
        BY <3>8 DEF b
      <3> QED BY <2>3, <3>9
    <2> QED BY <2>4, <2>5
  <1>5. Good(L + 2)
    <2>1. L + 2 \in 0 .. L + 2
      <3> HIDE DEF L
      <3> QED BY <1>1
    <2> HIDE DEF Good
    <2> QED BY <1>4, <2>1
  <1> HIDE DEF L
  <1>6. L + 3 - (L + 2) = 1 /\ \A q \in 1 .. L + 2 : q >= 1
    BY <1>1
  <1>7. PICK f : Is(f, 1)
    <2> HIDE DEF Is
    <2> QED BY <1>5, <1>6
  <1>8. D(1) = 1 .. L + 2
    BY <1>6
  <1>9. f = [q \in 1 .. L + 2 |-> LinesFrom(s, f, q)]
    <2>1. f = [q \in D(1) |-> f[q]] /\ \A q \in D(1) : f[q] = LinesFrom(s, f, q)
      BY <1>7
    <2> HIDE DEF D
    <2> QED BY <1>8, <2>1
  <1> QED BY <1>9 DEF L

\* HeaderLines is a value of such a function.
LEMMA LinesAre ==
  ASSUME NEW s \in Texts, NEW p
  PROVE  \E f : /\ f = [q \in 1 .. Len(s) + 2 |-> LinesFrom(s, f, q)]
                /\ HeaderLines(s, p) = f[p]
  <1> DEFINE f == CHOOSE g : g = [q \in 1 .. Len(s) + 2 |-> LinesFrom(s, g, q)]
  <1>1. HeaderLines(s, p) = f[p]
    BY DEF HeaderLines, LinesFrom
  <1>2. f = [q \in 1 .. Len(s) + 2 |-> LinesFrom(s, f, q)]
    BY LinesExist
  <1> QED BY <1>1, <1>2

\* What the loop of receive() makes of any text.
LEMMA LinesType ==
  ASSUME NEW s \in Texts, NEW p \in 1 .. Len(s) + 2
  PROVE  HeaderLines(s, p) \in [lines : Seq(HeaderLine), over : 0 .. Len(s) + 2]
  <1> DEFINE L == Len(s)
             R == [lines : Seq(HeaderLine), over : 0 .. L + 2]
  <1>1. L \in Nat
    BY LenProperties DEF Texts
  <1>2. PICK f : /\ f = [q \in 1 .. L + 2 |-> LinesFrom(s, f, q)]
                 /\ HeaderLines(s, p) = f[p]
    BY LinesAre
  <1>3. \A q \in 1 .. L + 2 : f[q] = LinesFrom(s, f, q)
    BY <1>2
  <1>4. [lines |-> Empty, over |-> 0] \in R /\ \A q \in 1 .. L + 2 : [lines |-> Empty, over |-> q] \in R
    <2>1. Empty \in Seq(HeaderLine)
      BY EmptySeq DEF Empty
    <2>2. 0 \in 0 .. L + 2 /\ \A q \in 1 .. L + 2 : q \in 0 .. L + 2
      <3> HIDE DEF L
      <3> QED BY <1>1
    <2> HIDE DEF L
    <2> QED BY <2>1, <2>2
  <1>5. ASSUME NEW q \in 1 .. L + 2, q <= 2 PROVE f[q] \in R
    <2>1. ~OverAt(s, q)
      BY <1>5 DEF OverAt
    <2>2. f[q] = [lines |-> Empty, over |-> 0]
      <3>1. f[q] = LinesFrom(s, f, q)
        BY <1>3
      <3>2. LinesFrom(s, f, q) = [lines |-> Empty, over |-> 0]
        BY <1>5, <2>1, LinesCases
      <3> QED BY <3>1, <3>2
    <2> HIDE DEF R
    <2> QED BY <1>4, <2>2
  <1> DEFINE bad == {m \in 0 .. L + 2 : L + 3 - m \in 1 .. L + 2 /\ f[L + 3 - m] \notin R}
  <1>6. bad = {}
    <2> SUFFICES ASSUME bad # {} PROVE FALSE
      OBVIOUS
    <2>1. bad \subseteq Nat
      <3> HIDE DEF R, L
      <3> QED BY <1>1
    <2>2. PICK m \in bad : \A k \in bad : m <= k
      <3> HIDE DEF bad
      <3> QED BY <2>1, LeastNumber
    <2> DEFINE q == L + 3 - m
               z == Header(s, q).next
    <2>3. m \in 0 .. L + 2 /\ q \in 1 .. L + 2 /\ f[q] \notin R
      BY <2>2
    <2> HIDE DEF R, L
    <2>4. ASSUME ~(q <= 2) PROVE f[z] \in R
      <3>1. z \in {2} \cup (q + 2) .. (L + 1)
        <4> HIDE DEF q
        <4> QED BY <2>3, LineType DEF L
      <3> HIDE DEF z
      <3>2. CASE z = 2
        <4>1. z \in 1 .. L + 2 /\ z <= 2
          BY <1>1, <3>2
        <4> QED BY <1>5, <4>1
      <3>3. CASE z # 2
        <4>1. z \in 1 .. L + 2 /\ L + 3 - z \in 0 .. L + 2 /\ L + 3 - (L + 3 - z) = z /\ ~(m <= L + 3 - z)
          BY <1>1, <2>3, <3>1, <3>3
        <4>2. L + 3 - z \notin bad
          <5> HIDE DEF bad
          <5> QED BY <2>2, <4>1
        <4> QED BY <4>1, <4>2
      <3> QED BY <3>2, <3>3
    <2> HIDE DEF q, bad
    <2>5. CASE OverAt(s, q)
      <3>1. f[q] = [lines |-> Empty, over |-> q]
        <4>1. f[q] = LinesFrom(s, f, q)
          BY <1>3, <2>3 DEF L
        <4>2. LinesFrom(s, f, q) = [lines |-> Empty, over |-> q]
          BY <2>5, LinesCases
        <4> QED BY <4>1, <4>2
      <3> QED BY <1>4, <2>3, <3>1
    <2>6. CASE ~OverAt(s, q) /\ (q <= 2 \/ Header(s, q).throws)
      <3>1. f[q] = [lines |-> Empty, over |-> 0]
        <4>1. f[q] = LinesFrom(s, f, q)
          BY <1>3, <2>3 DEF L
        <4>2. LinesFrom(s, f, q) = [lines |-> Empty, over |-> 0]
          BY <2>6, LinesCases
        <4> QED BY <4>1, <4>2
      <3> QED BY <1>4, <2>3, <3>1
    <2>7. CASE ~OverAt(s, q) /\ ~(q <= 2 \/ Header(s, q).throws)
      <3>1. f[q] = [lines |-> <<Header(s, q)>> \o f[z].lines, over |-> f[z].over]
        <4>1. f[q] = LinesFrom(s, f, q)
          BY <1>3, <2>3 DEF L
        <4>2. LinesFrom(s, f, q) = [lines |-> <<Header(s, q)>> \o f[z].lines, over |-> f[z].over]
          BY <2>7, LinesCases DEF z
        <4> QED BY <4>1, <4>2
      <3>2. f[z] \in R
        BY <2>4, <2>7
      <3>3. f[z].lines \in Seq(HeaderLine) /\ f[z].over \in 0 .. L + 2
        BY <3>2 DEF R
      <3>4. <<Header(s, q)>> \in Seq(HeaderLine)
        <4>1. Header(s, q) \in HeaderLine
          BY <2>3, LineType DEF L
        <4> QED BY <4>1
      <3>5. <<Header(s, q)>> \o f[z].lines \in Seq(HeaderLine)
        BY <3>3, <3>4, ConcatProperties
      <3> HIDE DEF z
      <3>6. f[q] \in R
        BY <3>1, <3>3, <3>5 DEF R
      <3> QED BY <2>3, <3>6
    <2> QED BY <2>5, <2>6, <2>7
  <1>7. f[p] \in R
    <2> HIDE DEF R, L
    <2>1. p \in 1 .. L + 2
      BY DEF L
    <2>2. L + 3 - p \in 0 .. L + 2 /\ L + 3 - (L + 3 - p) = p
      BY <1>1, <2>1
    <2>3. L + 3 - p \notin bad
      <3> HIDE DEF bad
      <3> QED BY <1>6
    <2> QED BY <2>1, <2>2, <2>3
  <1> QED BY <1>2, <1>7

\* The lines of headers: as many, each with its key and its value.
LinesGive(lines, headers) ==
  /\ lines \in Seq(HeaderLine) /\ Len(lines) = Len(headers)
  /\ \A j \in 1 .. Len(headers) : lines[j].key = <<headers[j][1]>> /\ lines[j].value = headers[j][2]

\* What the loop of receive() makes of the headers that stand in a text: their lines, and
\* that they are over at the empty line.
LEMMA LinesOf ==
  ASSUME NEW a \in Asked, NEW s, NEW at, Carried(s, a, at)
  PROVE  /\ HeaderLines(s, at[0]).over = at[Len(a.headers)]
         /\ LinesGive(HeaderLines(s, at[0]).lines, a.headers)
  <1> DEFINE L == Len(s)
             m == Len(a.headers)
  <1>1. m \in Nat /\ s \in Texts /\ L \in Nat
    BY AskedType, LenProperties DEF Carried, Texts
  <1>2. PICK f : /\ f = [q \in 1 .. L + 2 |-> LinesFrom(s, f, q)]
                 /\ HeaderLines(s, at[0]) = f[at[0]]
    BY <1>1, LinesAre
  <1>3. \A q \in 1 .. L + 2 : f[q] = LinesFrom(s, f, q)
    BY <1>2
  <1> HIDE DEF L
  <1>4. ASSUME NEW k \in 0 .. m PROVE at[k] \in 1 .. L + 2 /\ at[k] > 2
    <2> DEFINE p == at[k]
               t == Len(a.target)
    <2>1. p \in Nat /\ p >= t + 7 /\ p < L
      BY BeforeLine DEF L
    <2>2. t \in Nat
      BY AskedType
    <2> HIDE DEF p, t
    <2>3. p \in 1 .. L + 2 /\ p > 2
      BY <1>1, <2>1, <2>2
    <2> QED BY <2>3 DEF p
  <1> DEFINE Good(i) ==
               /\ f[at[m - i]].over = at[m]
               /\ f[at[m - i]].lines \in Seq(HeaderLine) /\ Len(f[at[m - i]].lines) = i
               /\ \A j \in 1 .. i : /\ f[at[m - i]].lines[j].key = <<a.headers[m - i + j][1]>>
                                    /\ f[at[m - i]].lines[j].value = a.headers[m - i + j][2]
             bad == {i \in 0 .. m : ~Good(i)}
  <1>5. bad = {}
    <2> SUFFICES ASSUME bad # {} PROVE FALSE
      OBVIOUS
    <2>1. bad \subseteq Nat
      <3> HIDE DEF Good, m
      <3> QED BY <1>1
    <2>2. PICK i \in bad : \A k \in bad : i <= k
      <3> HIDE DEF bad
      <3> QED BY <2>1, LeastNumber
    <2>3. i \in 0 .. m /\ ~Good(i)
      BY <2>2
    <2>4. CASE i = 0
      <3>1. m - i = m /\ m \in 0 .. m
        <4> HIDE DEF m
        <4> QED BY <1>1, <2>4
      <3>2. OverAt(s, at[m])
        BY OverThere
      <3>3. f[at[m]] = [lines |-> Empty, over |-> at[m]]
        <4> DEFINE p == at[m]
        <4>1. f[p] = LinesFrom(s, f, p)
          BY <1>3, <1>4, <3>1
        <4>2. OverAt(s, p)
          BY <3>2
        <4> HIDE DEF m, p
        <4>3. LinesFrom(s, f, p) = [lines |-> Empty, over |-> p]
          BY <4>2, LinesCases
        <4>4. f[p] = [lines |-> Empty, over |-> p]
          BY <4>1, <4>3
        <4> QED BY <4>4 DEF p
      <3>4. Empty \in Seq(HeaderLine) /\ Len(Empty) = 0
        BY EmptySeq DEF Empty
      <3> HIDE DEF m, bad
      <3>5. 1 .. i = {}
        BY <2>4
      <3>6. f[at[m - i]] = [lines |-> Empty, over |-> at[m]]
        BY <3>1, <3>3
      <3>7. Good(i)
        BY <2>4, <3>4, <3>5, <3>6
      <3> QED BY <2>3, <3>7
    <2>5. CASE i # 0
      <3> DEFINE k == m - i + 1
                 h == i - 1
      <3>1. /\ k \in 1 .. m /\ k - 1 = m - i /\ k = m - h /\ k \in 0 .. m /\ k - 1 \in 0 .. m
            /\ h \in 0 .. m /\ ~(i <= h) /\ i \in Nat /\ h + 1 = i
        <4>1. i \in 0 .. m /\ i # 0 /\ m \in Nat
          BY <1>1, <2>3, <2>5
        <4> HIDE DEF m, bad, Good
        <4> QED BY <4>1
      <3>2. Good(h)
        <4>1. h \notin bad
          BY <2>2, <3>1
        <4> HIDE DEF Good
        <4> QED BY <3>1, <4>1
      <3> DEFINE p == at[k - 1]
                 e == at[k]
                 line == Header(s, p)
                 rest == f[e].lines
      <3> HIDE DEF k, h, bad, m
      <3>3. /\ f[e].over = at[m] /\ rest \in Seq(HeaderLine) /\ Len(rest) = h
            /\ \A j \in 1 .. h : rest[j].key = <<a.headers[k + j][1]>> /\ rest[j].value = a.headers[k + j][2]
        <4>1. m - h = k
          BY <3>1
        <4> QED BY <3>2, <4>1
      <3>4. Stands(s, a.headers[k], p, e) /\ e < Len(s)
        BY <3>1, HeaderSpot DEF m
      <3>5. p \in 1 .. L + 2 /\ p > 2 /\ p \in Nat \ {0}
        <4>1. p \in 1 .. L + 2 /\ p > 2
          BY <1>4, <3>1
        <4> HIDE DEF p
        <4> QED BY <1>1, <4>1
      <3>6. /\ line \in HeaderLine /\ ~line.throws /\ line.next = e
            /\ line.key = <<a.headers[k][1]>> /\ line.value = a.headers[k][2]
        <4> HIDE DEF p, e
        <4> QED BY <1>1, <3>4, <3>5, HeaderIs DEF HeaderLine
      <3>7. ~OverAt(s, p)
        BY <3>1, OverThere DEF m
      <3>8. f[p] = [lines |-> <<line>> \o rest, over |-> at[m]]
        <4>1. f[p] = LinesFrom(s, f, p)
          BY <1>3, <3>5
        <4>2. ~(p <= 2)
          <5> HIDE DEF p
          <5> QED BY <1>1, <3>5
        <4>3. LinesFrom(s, f, p) = [lines |-> <<line>> \o f[line.next].lines, over |-> f[line.next].over]
          <5>1. ~(p <= 2 \/ Header(s, p).throws)
            BY <3>6, <4>2
          <5> HIDE DEF p
          <5> QED BY <3>7, <5>1, LinesCases
        <4> HIDE DEF p, e, line
        <4> QED BY <3>3, <3>6, <4>1, <4>3
      <3> HIDE DEF line, rest, p, e
      <3>9. /\ <<line>> \in Seq(HeaderLine) /\ Len(<<line>>) = 1 /\ <<line>>[1] = line
        BY <3>6
      <3> DEFINE one == <<line>>
                 all == one \o rest
      <3>10. /\ all \in Seq(HeaderLine) /\ Len(all) = Len(one) + Len(rest)
             /\ \A j \in 1 .. Len(one) + Len(rest) :
                  all[j] = IF j <= Len(one) THEN one[j] ELSE rest[j - Len(one)]
        <4>1. one \in Seq(HeaderLine)
          BY <3>9
        <4> HIDE DEF one
        <4> QED BY <3>3, <4>1, ConcatProperties
      <3>11. Len(one) = 1 /\ Len(rest) = h /\ one[1] = line
        BY <3>3, <3>9
      <3> HIDE DEF one, all
      <3>12. Len(all) = i
        <4>1. Len(all) = 1 + h
          BY <3>10, <3>11
        <4> QED BY <3>1, <4>1
      <3>13. ASSUME NEW j \in 1 .. i
             PROVE  /\ all[j].key = <<a.headers[m - i + j][1]>>
                    /\ all[j].value = a.headers[m - i + j][2]
        <4>1. all[j] = IF j <= 1 THEN one[j] ELSE rest[j - 1]
          <5>1. j \in 1 .. 1 + h
            BY <3>1
          <5> QED BY <3>10, <3>11, <5>1
        <4>2. CASE j = 1
          <5>1. all[j] = line /\ m - i + j = k
            BY <1>1, <3>1, <3>11, <4>1, <4>2
          <5> QED BY <3>6, <5>1
        <4>3. CASE j # 1
          <5>1. j - 1 \in 1 .. h /\ k + (j - 1) = m - i + j /\ ~(j <= 1)
            BY <1>1, <3>1, <4>3
          <5> QED BY <3>3, <4>1, <5>1
        <4> QED BY <4>2, <4>3
      <3>14. f[at[m - i]] = [lines |-> all, over |-> at[m]]
        <4>1. m - i = k - 1
          BY <3>1
        <4> QED BY <3>8, <4>1 DEF all, one, p
      <3>15. Good(i)
        BY <3>10, <3>12, <3>13, <3>14
      <3> QED BY <2>3, <3>15
    <2> QED BY <2>4, <2>5
  <1>6. Good(m)
    <2>1. m \in 0 .. m /\ m \notin bad
      <3> HIDE DEF bad, m
      <3> QED BY <1>1, <1>5
    <2> HIDE DEF Good
    <2> QED BY <2>1
  <1> HIDE DEF m
  <1>7. m - m = 0 /\ \A j \in 1 .. m : m - m + j = j
    BY <1>1
  <1>8. /\ f[at[0]].over = at[m]
        /\ f[at[0]].lines \in Seq(HeaderLine) /\ Len(f[at[0]].lines) = m
        /\ \A j \in 1 .. m : /\ f[at[0]].lines[j].key = <<a.headers[j][1]>>
                             /\ f[at[0]].lines[j].value = a.headers[j][2]
    BY <1>6, <1>7
  <1> QED BY <1>2, <1>8 DEF LinesGive, m

-----------------------------------------------------------------------------
(* The values of the headers. *)

\* Headers and lines that give them have the same keys and the same values.
LEMMA ValueGiven ==
  ASSUME NEW a \in Asked, NEW lines, LinesGive(lines, a.headers), NEW key
  PROVE  /\ Has(lines, <<key>>) <=> key \in KeysAsked(a)
         /\ key \in KeysAsked(a) => ValueOf(lines, <<key>>) = ValueAsked(a, key)
  <1> DEFINE m == Len(a.headers)
             hits == {k \in 1 .. m : a.headers[k][1] = key}
  <1>1. DOMAIN a.headers = 1 .. m /\ m \in Nat
    BY AskedType, LenProperties DEF Headers
  <1>2. DOMAIN lines = 1 .. m
    BY LenProperties DEF LinesGive
  <1>3. \A k \in 1 .. m : lines[k].key = <<key>> <=> a.headers[k][1] = key
    <2>1. \A x : <<x>> = <<key>> <=> x = key
      OBVIOUS
    <2> QED BY <2>1 DEF LinesGive
  <1>4. {k \in DOMAIN lines : lines[k].key = <<key>>} = hits
    BY <1>2, <1>3
  <1>5. {k \in DOMAIN a.headers : a.headers[k][1] = key} = hits
    BY <1>1
  <1>6. Has(lines, <<key>>) <=> hits # {}
    BY <1>4 DEF Has
  <1>7. key \in KeysAsked(a) <=> hits # {}
    BY <1>1 DEF KeysAsked
  <1>8. ASSUME hits # {} PROVE ValueOf(lines, <<key>>) = ValueAsked(a, key)
    <2>0. hits \subseteq Nat
      <3> HIDE DEF m
      <3> QED BY <1>1
    <2>1. Min(hits) \in hits
      <3> HIDE DEF hits
      <3> QED BY <1>8, <2>0, MinIs
    <2>2. lines[Min(hits)].value = a.headers[Min(hits)][2]
      <3> HIDE DEF m
      <3> DEFINE j == Min(hits)
      <3>1. j \in 1 .. m
        BY <2>1
      <3> HIDE DEF j
      <3>2. lines[j].value = a.headers[j][2]
        BY <3>1 DEF LinesGive, m
      <3> QED BY <3>2 DEF j
    <2>3. ValueOf(lines, <<key>>) = lines[Min(hits)].value
      BY <1>4 DEF ValueOf
    <2>4. ValueAsked(a, key) = a.headers[Min(hits)][2]
      BY <1>5 DEF ValueAsked
    <2> QED BY <2>2, <2>3, <2>4
  <1> QED BY <1>6, <1>7, <1>8

-----------------------------------------------------------------------------
(* What has been read, however it was cut. *)

\* Where the header of a request ends in what its peer sends.
HeaderLength(a) == Len(Rendered(a)) - Len(a.body)

\* What a reader makes of a text that holds the header of a request whole.
Parsed(s, a) ==
  LET start == StartLine(s)
      head  == HeaderLines(s, start.next)
  IN  /\ start.method = <<a.method>> /\ start.target = a.target
      /\ head.over = HeaderLength(a) - 1 /\ head.over > 2 /\ LinesGive(head.lines, a.headers)

\* What is sent is a text, the header first.
LEMMA SentType ==
  ASSUME NEW a \in Asked
  PROVE  /\ Rendered(a) \in Texts /\ Len(Rendered(a)) \in Nat /\ Len(a.body) \in Nat /\ a.body \in Texts
         /\ HeaderLength(a) \in Nat /\ HeaderLength(a) > 3
         /\ Len(Rendered(a)) = HeaderLength(a) + Len(a.body)
         /\ \A i \in HeaderLength(a) + 1 .. Len(Rendered(a)) :
              Rendered(a)[i] = a.body[i - HeaderLength(a)]
         /\ \E at : /\ Carried(Rendered(a), a, at) /\ at[Len(a.headers)] \in Nat
                    /\ HeaderLength(a) = at[Len(a.headers)] + 1
  <1> DEFINE s == Rendered(a)
             m == Len(a.headers)
             b == Len(a.body)
             L == Len(s)
             t == Len(a.target)
  <1>1. PICK at : /\ Carried(s, a, at) /\ L = at[m] + 1 + b
                  /\ \A i \in at[m] + 2 .. L : s[i] = a.body[i - at[m] - 1]
    BY RenderedAt
  <1>2. b \in Nat /\ a.body \in Texts /\ m \in Nat /\ t \in Nat
    BY AskedType
  <1>3. m \in 0 .. m
    <2> HIDE DEF m
    <2> QED BY <1>2
  <1>4. s \in Texts /\ at[m] \in Nat /\ at[m] >= t + 7
    BY <1>1, <1>3 DEF Carried
  <1>5. L \in Nat
    BY <1>4, LenProperties DEF Texts
  <1> DEFINE e == at[m]
             h == HeaderLength(a)
  <1>6. h = L - b
    BY DEF HeaderLength
  <1> HIDE DEF L, b, t, e, h
  <1>7. L = e + 1 + b /\ e \in Nat /\ e >= t + 7
    BY <1>1, <1>4 DEF e, L
  <1>8. h = e + 1 /\ h \in Nat /\ h > 3 /\ L = h + b
    BY <1>2, <1>5, <1>6, <1>7
  <1>9. ASSUME NEW i \in h + 1 .. L PROVE s[i] = a.body[i - h]
    <2>1. i \in e + 2 .. L /\ i - e - 1 = i - h
      BY <1>5, <1>7, <1>8
    <2> QED BY <1>1, <2>1 DEF e, L
  <1> QED BY <1>1, <1>2, <1>4, <1>5, <1>7, <1>8, <1>9 DEF L, b, e, h

\* However much has been read, the header is known to be in once it is, and is understood
\* as it was meant.
LEMMA HeaderCut ==
  ASSUME NEW a \in Asked, NEW n \in 0 .. Len(Rendered(a))
  PROVE  /\ HeaderIsIn(SubSeq(Rendered(a), 1, n)) <=> HeaderLength(a) <= n
         /\ HeaderLength(a) <= n => Parsed(SubSeq(Rendered(a), 1, n), a)
  <1> DEFINE s == Rendered(a)
             m == Len(a.headers)
             L == Len(s)
             h == HeaderLength(a)
             x == SubSeq(s, 1, n)
  <1>1. PICK at : Carried(s, a, at) /\ at[m] \in Nat /\ h = at[m] + 1
    BY SentType
  <1>2. L \in Nat /\ h \in Nat /\ h > 3
    BY SentType
  <1> DEFINE e == at[m]
  <1>3. e \in Nat /\ h = e + 1
    BY <1>1
  <1>4. HeaderIsIn(x) <=> n > e
    BY <1>1, HeaderIn
  <1>5. n \in 0 .. L
    OBVIOUS
  <1> HIDE DEF L, h, e, x
  <1>6. n > e <=> h <= n
    BY <1>2, <1>3, <1>5
  <1>7. ASSUME h <= n PROVE Parsed(x, a)
    <2>1. n \in e + 1 .. L
      BY <1>2, <1>3, <1>5, <1>7
    <2>2. Carried(x, a, at)
      BY <1>1, <2>1, CarriedCut DEF x, e, L
    <2>3. /\ StartLine(x).method = <<a.method>> /\ StartLine(x).target = a.target
          /\ StartLine(x).next = at[0]
      BY <2>2, StartLineIs
    <2>4. HeaderLines(x, at[0]).over = e /\ LinesGive(HeaderLines(x, at[0]).lines, a.headers)
      BY <2>2, LinesOf DEF e
    <2>5. e = h - 1 /\ e > 2
      BY <1>2, <1>3
    <2> QED BY <2>3, <2>4, <2>5 DEF Parsed, h
  <1> QED BY <1>4, <1>6, <1>7 DEF x, h

\* A cut of a cut, and the next piece of a text behind the last one.
LEMMA CutAgain ==
  ASSUME NEW s \in Texts, NEW n \in 0 .. Len(s), NEW p \in 1 .. n + 1
  PROVE  /\ SubSeq(SubSeq(s, 1, n), p, n) = SubSeq(s, p, n)
         /\ SubSeq(s, p, n) \in Texts /\ Len(SubSeq(s, p, n)) = n - p + 1
  <1> DEFINE L == Len(s)
             x == SubSeq(s, 1, n)
             y == SubSeq(x, p, n)
             z == SubSeq(s, p, n)
  <1>0. L \in Nat
    BY LenProperties DEF Texts
  <1> HIDE DEF L
  <1>1. n \in 0 .. L /\ n \in Int /\ n <= L /\ p \in Nat \ {0}
        /\ (IF 1 <= n THEN n - 1 + 1 ELSE 0) = n /\ (IF p <= n THEN n - p + 1 ELSE 0) = n - p + 1
        /\ n - p + 1 \in Nat
    <2>1. n \in 0 .. L
      BY DEF L
    <2> QED BY <1>0, <2>1
  <1>2. x \in Texts /\ Len(x) = n /\ \A i \in 1 .. n - 1 + 1 : x[i] = s[1 + i - 1]
    <2>1. 1 \in Nat \ {0}
      OBVIOUS
    <2>2. /\ x \in Texts /\ Len(x) = IF 1 <= n THEN n - 1 + 1 ELSE 0
          /\ \A i \in 1 .. n - 1 + 1 : x[i] = s[1 + i - 1]
      BY <1>1, <2>1, CutType DEF L
    <2> HIDE DEF x
    <2> QED BY <1>1, <2>2
  <1>3. z \in Texts /\ Len(z) = n - p + 1 /\ \A i \in 1 .. n - p + 1 : z[i] = s[p + i - 1]
    <2>2. /\ z \in Texts /\ Len(z) = IF p <= n THEN n - p + 1 ELSE 0
          /\ \A i \in 1 .. n - p + 1 : z[i] = s[p + i - 1]
      BY <1>1, CutType DEF L
    <2> HIDE DEF z
    <2> QED BY <1>1, <2>2
  <1> HIDE DEF x
  <1>4. y \in Texts /\ Len(y) = n - p + 1 /\ \A i \in 1 .. n - p + 1 : y[i] = x[p + i - 1]
    <2>1. n <= Len(x)
      BY <1>1, <1>2
    <2>2. /\ y \in Texts /\ Len(y) = IF p <= n THEN n - p + 1 ELSE 0
          /\ \A i \in 1 .. n - p + 1 : y[i] = x[p + i - 1]
      BY <1>1, <1>2, <2>1, CutType
    <2> HIDE DEF y
    <2> QED BY <1>1, <2>2
  <1> HIDE DEF y, z
  <1>5. ASSUME NEW i \in 1 .. n - p + 1 PROVE y[i] = z[i]
    <2>1. p + i - 1 \in 1 .. n - 1 + 1 /\ 1 + (p + i - 1) - 1 = p + i - 1
      BY <1>1
    <2>2. x[p + i - 1] = s[p + i - 1]
      BY <1>2, <2>1
    <2> QED BY <1>3, <1>4, <2>2
  <1>6. y = z
    BY <1>3, <1>4, <1>5, SameText
  <1> QED BY <1>3, <1>6 DEF y, x, z

\* What has been kept of a text, and the next piece of it, are one cut of it.
LEMMA CutOn ==
  ASSUME NEW s \in Texts, NEW r \in 0 .. Len(s), NEW n \in Nat, r + n <= Len(s), NEW p \in 1 .. r + 1
  PROVE  /\ SubSeq(s, p, r) \o SubSeq(s, r + 1, r + n) = SubSeq(s, p, r + n)
         /\ SubSeq(s, r + 1, r + n) \in Texts /\ Len(SubSeq(s, r + 1, r + n)) = n
  <1> DEFINE L == Len(s)
             N == r + n
             x == SubSeq(s, p, r)
             y == SubSeq(s, r + 1, N)
             z == SubSeq(s, p, N)
             w == x \o y
  <1>0. L \in Nat
    BY LenProperties DEF Texts
  <1>00. r \in 0 .. L /\ N <= L
    OBVIOUS
  <1> HIDE DEF L
  <1>1. /\ r \in Int /\ r <= L /\ N \in Int /\ N <= L /\ p \in Nat \ {0} /\ r + 1 \in Nat \ {0}
        /\ (IF p <= r THEN r - p + 1 ELSE 0) = r - p + 1
        /\ (IF p <= N THEN N - p + 1 ELSE 0) = N - p + 1
        /\ (IF r + 1 <= N THEN N - (r + 1) + 1 ELSE 0) = n /\ N - (r + 1) + 1 = n
        /\ (r - p + 1) + n = N - p + 1
    BY <1>0, <1>00
  <1> HIDE DEF N
  <1>2. x \in Texts /\ Len(x) = r - p + 1 /\ \A i \in 1 .. r - p + 1 : x[i] = s[p + i - 1]
    <2>2. /\ x \in Texts /\ Len(x) = IF p <= r THEN r - p + 1 ELSE 0
          /\ \A i \in 1 .. r - p + 1 : x[i] = s[p + i - 1]
      BY <1>1, CutType DEF L
    <2> HIDE DEF x
    <2> QED BY <1>1, <2>2
  <1>3. y \in Texts /\ Len(y) = n /\ \A i \in 1 .. n : y[i] = s[(r + 1) + i - 1]
    <2> DEFINE b == r + 1
    <2>1. b \in Nat \ {0} /\ N \in Int /\ N <= L
      BY <1>1
    <2>2. /\ y \in Texts /\ Len(y) = IF r + 1 <= N THEN N - (r + 1) + 1 ELSE 0
          /\ \A i \in 1 .. N - (r + 1) + 1 : y[i] = s[(r + 1) + i - 1]
      <3> HIDE DEF b
      <3>1. LET c == SubSeq(s, b, N)
            IN  /\ c \in Texts /\ Len(c) = IF b <= N THEN N - b + 1 ELSE 0
                /\ \A i \in 1 .. N - b + 1 : c[i] = s[b + i - 1]
        BY <2>1, CutType DEF L
      <3> QED BY <3>1 DEF b
    <2> HIDE DEF y
    <2> QED BY <1>1, <2>2
  <1>4. z \in Texts /\ Len(z) = N - p + 1 /\ \A i \in 1 .. N - p + 1 : z[i] = s[p + i - 1]
    <2>2. /\ z \in Texts /\ Len(z) = IF p <= N THEN N - p + 1 ELSE 0
          /\ \A i \in 1 .. N - p + 1 : z[i] = s[p + i - 1]
      BY <1>1, CutType DEF L
    <2> HIDE DEF z
    <2> QED BY <1>1, <2>2
  <1> HIDE DEF x, y, z
  <1>5. /\ w \in Texts /\ Len(w) = Len(x) + Len(y)
        /\ \A i \in 1 .. Len(x) : w[i] = x[i]
        /\ \A i \in Len(x) + 1 .. Len(x) + Len(y) : w[i] = y[i - Len(x)]
    BY <1>2, <1>3, ConcatAt
  <1> HIDE DEF w
  <1>6. /\ Len(w) = N - p + 1
        /\ \A i \in 1 .. r - p + 1 : w[i] = x[i]
        /\ \A i \in (r - p + 1) + 1 .. N - p + 1 : w[i] = y[i - (r - p + 1)]
    BY <1>1, <1>2, <1>3, <1>5
  <1>7. ASSUME NEW i \in 1 .. N - p + 1 PROVE w[i] = z[i]
    <2>1. CASE i <= r - p + 1
      <3>1. i \in 1 .. r - p + 1
        BY <1>1, <2>1
      <3>2. w[i] = s[p + i - 1]
        BY <1>2, <1>6, <3>1
      <3> QED BY <1>4, <3>2
    <2>2. CASE ~(i <= r - p + 1)
      <3>1. /\ i \in (r - p + 1) + 1 .. N - p + 1 /\ i - (r - p + 1) \in 1 .. n
            /\ (r + 1) + (i - (r - p + 1)) - 1 = p + i - 1
        BY <1>1, <2>2
      <3>2. w[i] = y[i - (r - p + 1)]
        BY <1>6, <3>1
      <3>3. w[i] = s[p + i - 1]
        BY <1>3, <3>1, <3>2
      <3> QED BY <1>4, <3>3
    <2> QED BY <2>1, <2>2
  <1>8. w = z
    BY <1>4, <1>5, <1>6, <1>7, SameText
  <1> QED BY <1>3, <1>8 DEF w, x, y, z, N

\* resolveLocation goes through the locations of a block.
LEMMA LocationFold ==
  ASSUME NEW P, NEW places \in Seq(P), NEW target
  PROVE  \E g : /\ g[0] = Empty /\ ResolveLocation(places, target) = g[Len(places)]
                /\ \A k \in 1 .. Len(places) : g[k] = LongerLocation(target, g[k - 1], places[k])
  <1> DEFINE n == Len(places)
             V == {Empty} \cup {<<places[k]>> : k \in 1 .. n}
             step == [pair \in (1 .. n) \X V |-> LongerLocation(target, pair[2], places[pair[1]])]
             Is(f) == f = [s \in SUBSET (1 .. n) |->
                             IF s = {} THEN Empty
                             ELSE LongerLocation(target, f[s \ {Max(s)}], places[Max(s)])]
  <1>1. n \in Nat /\ DOMAIN places = 1 .. n
    BY LenProperties
  <1>2. step \in [(1 .. n) \X V -> V]
    BY DEF LongerLocation
  <1>3. \E f : Is(f)
    <2>1. Empty \in V
      OBVIOUS
    <2>2. PICK f : Folds(f, n, V, Empty, step)
      <3> HIDE DEF n, V, step
      <3> QED BY <1>1, <1>2, <2>1, FoldExists
    <2>3. ASSUME NEW s \in SUBSET (1 .. n), s # {}
          PROVE  step[<<Max(s), f[s \ {Max(s)}]>>] = LongerLocation(target, f[s \ {Max(s)}], places[Max(s)])
      <3>1. Max(s) \in 1 .. n /\ s \ {Max(s)} \in SUBSET (1 .. n)
        <4> HIDE DEF n
        <4> QED BY <1>1, <2>3, MaxIn
      <3>2. f[s \ {Max(s)}] \in V
        BY <2>2, <3>1 DEF Folds
      <3> HIDE DEF V
      <3> QED BY <3>1, <3>2
    <2> HIDE DEF step, V, n
    <2>4. \A s \in SUBSET (1 .. n) :
            f[s] = IF s = {} THEN Empty ELSE LongerLocation(target, f[s \ {Max(s)}], places[Max(s)])
      BY <2>2, <2>3 DEF Folds
    <2>5. f = [s \in SUBSET (1 .. n) |-> f[s]]
      BY <2>2 DEF Folds
    <2>6. Is(f)
      BY <2>4, <2>5
    <2> QED BY <2>6
  <1> DEFINE f == CHOOSE f : Is(f)
  <1>4. ResolveLocation(places, target) = f[1 .. n]
    BY <1>1 DEF ResolveLocation, FoldLeft, MapThenFoldSet
  <1>5. Is(f)
    <2> HIDE DEF Is
    <2> QED BY <1>3
  <1> HIDE DEF f
  <1>6. \A s \in SUBSET (1 .. n) : f[s] = IF s = {} THEN Empty
                                 ELSE LongerLocation(target, f[s \ {Max(s)}], places[Max(s)])
    BY <1>5
  <1> DEFINE g == [k \in 0 .. n |-> f[1 .. k]]
  <1>7. ASSUME NEW k \in 1 .. n PROVE g[k] = LongerLocation(target, g[k - 1], places[k])
    <2>1. /\ 1 .. k \in SUBSET (1 .. n) /\ 1 .. k # {}
          /\ Max(1 .. k) = k /\ (1 .. k) \ {Max(1 .. k)} = 1 .. (k - 1)
      <3> HIDE DEF n
      <3> QED BY <1>1, UpTo
    <2>2. f[1 .. k] = LongerLocation(target, f[1 .. (k - 1)], places[k])
      BY <1>6, <2>1
    <2>3. k \in 0 .. n /\ k - 1 \in 0 .. n
      BY <1>1
    <2> QED BY <2>2, <2>3
  <1>8. g[0] = Empty /\ g[n] = f[1 .. n]
    <2>1. 1 .. 0 = {} /\ 0 \in 0 .. n /\ n \in 0 .. n /\ {} \in SUBSET (1 .. n)
      BY <1>1
    <2>2. f[{}] = Empty
      BY <1>6, <2>1
    <2> QED BY <2>1, <2>2
  <1> HIDE DEF g, n
  <1> QED BY <1>4, <1>7, <1>8 DEF n

-----------------------------------------------------------------------------
(* The groups of blocks. *)

\* What sortServerSettings has at each turn: as many groups as addresses, none of them
\* empty, each address that of the first block of a group.
Groupings ==
  {v \in [hpset : SUBSET Nat, groups : Seq(Seq(Blocks) \ {Empty})] :
     /\ IsFiniteSet(v.hpset) /\ Cardinality(v.hpset) = Len(v.groups)
     /\ v.hpset = {v.groups[k][1].listen : k \in 1 .. Len(v.groups)}}

\* Where sortServerSettings begins.
NoGroups == [hpset |-> {}, groups |-> Empty]

\* It has no group at first.
LEMMA GroupsFirst == NoGroups \in Groupings
  <1>1. Empty \in Seq(Seq(Blocks) \ {Empty}) /\ Len(Empty) = 0
    BY EmptySeq DEF Empty
  <1>2. IsFiniteSet({}) /\ Cardinality({}) = 0
    BY FS_EmptySet
  <1>3. {Empty[k][1].listen : k \in 1 .. 0} = {}
    OBVIOUS
  <1> QED BY <1>1, <1>2, <1>3 DEF NoGroups, Groupings

\* The place of an address in the set of them.
LEMMA RankIs ==
  ASSUME NEW S \in SUBSET Nat, IsFiniteSet(S), NEW a \in S
  PROVE  Rank(a, S) \in 1 .. Cardinality(S)
  <1> DEFINE T == {b \in S : b <= a}
  <1>1. IsFiniteSet(T) /\ Cardinality(T) <= Cardinality(S)
    BY FS_Subset
  <1>2. Cardinality(T) # 0
    <2>1. a \in T
      OBVIOUS
    <2> HIDE DEF T
    <2> QED BY <1>1, <2>1, FS_EmptySet
  <1> HIDE DEF T
  <1>3. Cardinality(T) \in Nat /\ Cardinality(S) \in Nat
    BY <1>1, FS_CardinalityType
  <1> QED BY <1>1, <1>2, <1>3 DEF Rank, T

\* A turn of sortServerSettings keeps it so.
LEMMA PutGroups ==
  ASSUME NEW v \in Groupings, NEW block \in Blocks
  PROVE  Put(v, block) \in Groupings
  <1> DEFINE N == Seq(Blocks) \ {Empty}
             n == Len(v.groups)
  <1>1. /\ v.hpset \in SUBSET Nat /\ v.groups \in Seq(N) /\ v = [hpset |-> v.hpset, groups |-> v.groups]
        /\ IsFiniteSet(v.hpset) /\ Cardinality(v.hpset) = n
        /\ v.hpset = {v.groups[k][1].listen : k \in 1 .. n}
    BY DEF Groupings
  <1>2. n \in Nat /\ block.listen \in Nat
    BY <1>1, LenProperties DEF Blocks
  <1>3. CASE block.listen \notin v.hpset
    <2> DEFINE w == [hpset |-> v.hpset \cup {block.listen}, groups |-> Append(v.groups, <<block>>)]
    <2>1. Put(v, block) = w
      BY <1>3 DEF Put
    <2>2. <<block>> \in N
      <3>1. <<block>> \in Seq(Blocks) /\ Len(<<block>>) = 1 /\ Len(Empty) = 0
        BY EmptySeq DEF Empty
      <3> QED BY <3>1
    <2>3. /\ w.groups \in Seq(N) /\ Len(w.groups) = n + 1
          /\ \A k \in 1 .. n : w.groups[k] = v.groups[k]
          /\ w.groups[n + 1] = <<block>>
      <3> HIDE DEF N
      <3> QED BY <1>1, <2>2, AppendProperties
    <2>4. IsFiniteSet(w.hpset) /\ Cardinality(w.hpset) = n + 1 /\ w.hpset \in SUBSET Nat
      BY <1>1, <1>2, <1>3, FS_AddElement
    <2>5. w.hpset = {w.groups[k][1].listen : k \in 1 .. n + 1}
      <3>1. \A k \in 1 .. n + 1 : k \in 1 .. n \/ k = n + 1
        BY <1>2
      <3>2. 1 .. n \subseteq 1 .. n + 1 /\ n + 1 \in 1 .. n + 1
        BY <1>2
      <3>3. w.groups[n + 1][1].listen = block.listen
        BY <2>3
      <3>4. w.hpset = v.hpset \cup {block.listen}
        OBVIOUS
      <3>5. \A a : a \in v.hpset <=> \E k \in 1 .. n : a = v.groups[k][1].listen
        BY <1>1
      <3> HIDE DEF w, n
      <3>6. ASSUME NEW a, a \in w.hpset PROVE \E k \in 1 .. n + 1 : a = w.groups[k][1].listen
        <4>1. CASE a = block.listen
          BY <3>2, <3>3, <4>1
        <4>2. CASE a # block.listen
          <5>1. PICK k \in 1 .. n : a = v.groups[k][1].listen
            BY <3>4, <3>5, <3>6, <4>2
          <5>2. w.groups[k] = v.groups[k]
            BY <2>3
          <5> QED BY <3>2, <5>1, <5>2
        <4> QED BY <4>1, <4>2
      <3>7. ASSUME NEW k \in 1 .. n + 1 PROVE w.groups[k][1].listen \in w.hpset
        BY <2>3, <3>1, <3>3, <3>4, <3>5
      <3> QED BY <3>6, <3>7
    <2>6. w \in [hpset : SUBSET Nat, groups : Seq(N)]
      BY <2>3, <2>4
    <2> HIDE DEF w
    <2> QED BY <2>1, <2>3, <2>4, <2>5, <2>6 DEF Groupings
  <1>4. CASE block.listen \in v.hpset
    <2> DEFINE at == Rank(block.listen, v.hpset)
               more == Append(v.groups[at], block)
               w == [hpset |-> v.hpset, groups |-> [v.groups EXCEPT ![at] = more]]
    <2>1. Put(v, block) = w
      <3>1. Put(v, block) = [v EXCEPT !.groups[at] = more]
        BY <1>4 DEF Put
      <3>2. [v EXCEPT !.groups[at] = more] = [v EXCEPT !.groups = [v.groups EXCEPT ![at] = more]]
        OBVIOUS
      <3> HIDE DEF at, more
      <3>3. v \in [hpset : SUBSET Nat, groups : Seq(N)]
        BY DEF Groupings
      <3>4. [v EXCEPT !.groups = [v.groups EXCEPT ![at] = more]]
             = [hpset |-> v.hpset, groups |-> [v.groups EXCEPT ![at] = more]]
        BY <3>3
      <3> QED BY <3>1, <3>2, <3>4
    <2>2. at \in 1 .. n
      BY <1>1, <1>4, RankIs
    <2> HIDE DEF at
    <2>3. v.groups[at] \in Seq(Blocks) /\ v.groups[at] # Empty
      <3> HIDE DEF N
      <3>1. v.groups[at] \in N
        BY <1>1, <2>2, ElementOfSeq
      <3> QED BY <3>1 DEF N
    <2>4. Len(v.groups[at]) \in Nat \ {0}
      BY <2>3, EmptySeq DEF Empty
    <2>5. more \in N /\ more[1] = v.groups[at][1]
      BY <2>3, <2>4, AppendProperties DEF Empty
    <2> HIDE DEF more
    <2>6. w.groups = [v.groups EXCEPT ![at] = more] /\ w.hpset = v.hpset
      OBVIOUS
    <2>7. /\ w.groups \in Seq(N) /\ Len(w.groups) = n
          /\ \A k \in 1 .. n : w.groups[k] = IF k = at THEN more ELSE v.groups[k]
      <3> HIDE DEF N, w
      <3> QED BY <1>1, <2>2, <2>5, <2>6, ExceptSeq
    <2>8. \A k \in 1 .. n : w.groups[k][1] = v.groups[k][1]
      BY <2>5, <2>7
    <2>9. w.hpset = {w.groups[k][1].listen : k \in 1 .. n}
      <3> HIDE DEF w, n
      <3>1. \A a : a \in v.hpset <=> \E k \in 1 .. n : a = v.groups[k][1].listen
        BY <1>1
      <3>2. \A a : a \in w.hpset <=> \E k \in 1 .. n : a = w.groups[k][1].listen
        BY <2>6, <2>8, <3>1
      <3> QED BY <3>2
    <2>10. w \in [hpset : SUBSET Nat, groups : Seq(N)]
      BY <1>1, <2>6, <2>7
    <2>11. IsFiniteSet(w.hpset) /\ Cardinality(w.hpset) = Len(w.groups)
      BY <1>1, <2>6, <2>7
    <2>12. w.hpset = {w.groups[k][1].listen : k \in 1 .. Len(w.groups)}
      BY <2>7, <2>9
    <2> HIDE DEF w
    <2> QED BY <2>1, <2>10, <2>11, <2>12 DEF Groupings
  <1> QED BY <1>3, <1>4

\* sortServerSettings goes through the blocks of the configuration.
LEMMA SortFold ==
  ASSUME NEW blocks \in Seq(Blocks)
  PROVE  \E g : /\ g[0] = NoGroups /\ SortServerSettings(blocks) = g[Len(blocks)].groups
                /\ \A k \in 0 .. Len(blocks) : g[k] \in Groupings
                /\ \A k \in 1 .. Len(blocks) : g[k] = Put(g[k - 1], blocks[k])
  <1> DEFINE n == Len(blocks)
             V == Groupings
             step == [pair \in (1 .. n) \X V |-> Put(pair[2], blocks[pair[1]])]
             Is(f) == f = [s \in SUBSET (1 .. n) |->
                             IF s = {} THEN NoGroups
                             ELSE Put(f[s \ {Max(s)}], blocks[Max(s)])]
  <1>1. n \in Nat /\ DOMAIN blocks = 1 .. n
    BY LenProperties
  <1>2. step \in [(1 .. n) \X V -> V]
    BY ElementOfSeq, PutGroups
  <1>3. \E f : Is(f)
    <2>1. NoGroups \in V
      BY GroupsFirst
    <2>2. PICK f : Folds(f, n, V, NoGroups, step)
      <3> HIDE DEF n, V, step
      <3> QED BY <1>1, <1>2, <2>1, FoldExists
    <2>3. ASSUME NEW s \in SUBSET (1 .. n), s # {}
          PROVE  step[<<Max(s), f[s \ {Max(s)}]>>] = Put(f[s \ {Max(s)}], blocks[Max(s)])
      <3>1. Max(s) \in 1 .. n /\ s \ {Max(s)} \in SUBSET (1 .. n)
        <4> HIDE DEF n
        <4> QED BY <1>1, <2>3, MaxIn
      <3>2. f[s \ {Max(s)}] \in V
        BY <2>2, <3>1 DEF Folds
      <3> HIDE DEF V
      <3> QED BY <3>1, <3>2
    <2> HIDE DEF step, V, n
    <2>4. \A s \in SUBSET (1 .. n) :
            f[s] = IF s = {} THEN NoGroups ELSE Put(f[s \ {Max(s)}], blocks[Max(s)])
      BY <2>2, <2>3 DEF Folds
    <2>5. f = [s \in SUBSET (1 .. n) |-> f[s]]
      BY <2>2 DEF Folds
    <2>6. Is(f)
      BY <2>4, <2>5
    <2> QED BY <2>6
  <1> DEFINE f == CHOOSE f : Is(f)
  <1>4. SortServerSettings(blocks) = f[1 .. n].groups
    BY <1>1 DEF SortServerSettings, NoGroups, FoldLeft, MapThenFoldSet
  <1>5. Is(f)
    <2> HIDE DEF Is
    <2> QED BY <1>3
  <1> HIDE DEF f
  <1>6. \A s \in SUBSET (1 .. n) : f[s] = IF s = {} THEN NoGroups
                                 ELSE Put(f[s \ {Max(s)}], blocks[Max(s)])
    BY <1>5
  <1> DEFINE g == [k \in 0 .. n |-> f[1 .. k]]
  <1>7. ASSUME NEW k \in 1 .. n PROVE g[k] = Put(g[k - 1], blocks[k])
    <2>1. /\ 1 .. k \in SUBSET (1 .. n) /\ 1 .. k # {}
          /\ Max(1 .. k) = k /\ (1 .. k) \ {Max(1 .. k)} = 1 .. (k - 1)
      <3> HIDE DEF n
      <3> QED BY <1>1, UpTo
    <2>2. f[1 .. k] = Put(f[1 .. (k - 1)], blocks[k])
      BY <1>6, <2>1
    <2>3. k \in 0 .. n /\ k - 1 \in 0 .. n
      BY <1>1
    <2> QED BY <2>2, <2>3
  <1>8. g[0] = NoGroups /\ g[n] = f[1 .. n]
    <2>1. 1 .. 0 = {} /\ 0 \in 0 .. n /\ n \in 0 .. n /\ {} \in SUBSET (1 .. n)
      BY <1>1
    <2>2. f[{}] = NoGroups
      BY <1>6, <2>1
    <2> QED BY <2>1, <2>2
  <1> HIDE DEF g
  <1>9. \A k \in 0 .. n : g[k] \in Groupings
    <2> DEFINE bad == {k \in 0 .. n : g[k] \notin Groupings}
    <2> SUFFICES ASSUME bad # {} PROVE FALSE
      OBVIOUS
    <2>1. bad \subseteq Nat
      BY <1>1
    <2>2. PICK k \in bad : \A j \in bad : k <= j
      <3> HIDE DEF bad
      <3> QED BY <2>1, LeastNumber
    <2>3. k \in 1 .. n
      BY <1>1, <1>8, <2>2, GroupsFirst
    <2>4. k - 1 \in 0 .. n /\ ~(k <= k - 1)
      BY <1>1, <2>3
    <2>5. g[k - 1] \in Groupings
      BY <2>2, <2>4
    <2>6. blocks[k] \in Blocks
      BY <2>3, ElementOfSeq
    <2>7. g[k] \in Groupings
      BY <1>7, <2>3, <2>5, <2>6, PutGroups
    <2> QED BY <2>2, <2>7
  <1> HIDE DEF n
  <1> QED BY <1>4, <1>7, <1>8, <1>9 DEF n

-----------------------------------------------------------------------------
(* The blocks of the address a connection came in on. *)

\* The connection is to an address of the configuration.
Configured == config \in Configs /\ listen \in {block.listen : block \in Range(config)}

\* Every block's address is one of those sortServerSettings has when it is through.
LEMMA AddressKnown ==
  ASSUME NEW blocks \in Seq(Blocks), NEW g, g[0] = NoGroups,
         \A k \in 0 .. Len(blocks) : g[k] \in Groupings,
         \A k \in 1 .. Len(blocks) : g[k] = Put(g[k - 1], blocks[k])
  PROVE  \A k \in 0 .. Len(blocks) : \A j \in 1 .. k : blocks[j].listen \in g[k].hpset
  <1> DEFINE n == Len(blocks)
             Good(k) == \A j \in 1 .. k : blocks[j].listen \in g[k].hpset
             bad == {k \in 0 .. n : ~Good(k)}
  <1>1. n \in Nat
    BY LenProperties
  <1>2. bad = {}
    <2> SUFFICES ASSUME bad # {} PROVE FALSE
      OBVIOUS
    <2>1. bad \subseteq Nat
      <3> HIDE DEF Good, n
      <3> QED BY <1>1
    <2>2. PICK k \in bad : \A i \in bad : k <= i
      <3> HIDE DEF bad
      <3> QED BY <2>1, LeastNumber
    <2>3. k \in 0 .. n /\ ~Good(k)
      BY <2>2
    <2>4. k # 0
      <3> SUFFICES ASSUME k = 0 PROVE FALSE
        OBVIOUS
      <3>1. 1 .. k = {}
        OBVIOUS
      <3> QED BY <2>3, <3>1
    <2> HIDE DEF n
    <2>5. k \in 1 .. n /\ k - 1 \in 0 .. n /\ ~(k <= k - 1)
      BY <1>1, <2>3, <2>4
    <2>6. Good(k - 1)
      <3>1. k - 1 \notin bad
        BY <2>2, <2>5
      <3> HIDE DEF Good
      <3> QED BY <2>5, <3>1
    <2>7. g[k] = Put(g[k - 1], blocks[k])
      BY <2>5 DEF n
    <2>8. g[k].hpset = g[k - 1].hpset \cup {blocks[k].listen}
      <3>1. g[k - 1] \in Groupings
        BY <2>5 DEF n
      <3> DEFINE v == g[k - 1]
      <3> HIDE DEF v
      <3>2. v = [hpset |-> v.hpset, groups |-> v.groups]
        BY <3>1 DEF Groupings, v
      <3>3. CASE blocks[k].listen \in v.hpset
        <4>1. Put(v, blocks[k]).hpset = v.hpset
          BY <3>2, <3>3 DEF Put
        <4> QED BY <2>7, <3>3, <4>1 DEF v
      <3>4. CASE blocks[k].listen \notin v.hpset
        <4>1. Put(v, blocks[k]).hpset = v.hpset \cup {blocks[k].listen}
          BY <3>2, <3>4 DEF Put
        <4> QED BY <2>7, <4>1 DEF v
      <3> QED BY <3>3, <3>4
    <2>9. \A j \in 1 .. k : j \in 1 .. k - 1 \/ j = k
      BY <2>5
    <2>10. Good(k)
      BY <2>6, <2>8, <2>9
    <2> QED BY <2>3, <2>10
  <1> HIDE DEF n, Good
  <1>3. \A k \in 0 .. n : Good(k)
    BY <1>2
  <1> QED BY <1>3 DEF n, Good

\* There is a group for the address of a connection, and its blocks are blocks.
LEMMA GroupIs ==
  ASSUME Configured
  PROVE  /\ Group \in Seq(Blocks) /\ Len(Group) \in Nat \ {0} /\ Group[1].listen = listen
         /\ Group \in Range(SortServerSettings(config))
  <1>1. config \in Seq(Blocks)
    BY ConfigsAssumption DEF Configured
  <1>2. PICK g : /\ g[0] = NoGroups /\ SortServerSettings(config) = g[Len(config)].groups
                 /\ \A k \in 0 .. Len(config) : g[k] \in Groupings
                 /\ \A k \in 1 .. Len(config) : g[k] = Put(g[k - 1], config[k])
    BY <1>1, SortFold
  <1> DEFINE n == Len(config)
             groups == g[n].groups
             N == Seq(Blocks) \ {Empty}
  <1>3. n \in Nat /\ n \in 0 .. n
    <2>1. n \in Nat
      BY <1>1, LenProperties
    <2> HIDE DEF n
    <2> QED BY <2>1
  <1>4. listen \in g[n].hpset
    <2>1. \A k \in 0 .. n : \A j \in 1 .. k : config[j].listen \in g[k].hpset
      BY <1>1, <1>2, AddressKnown
    <2>2. Range(config) = {config[j] : j \in 1 .. n}
      BY <1>1, LenProperties DEF Range
    <2>3. PICK j \in 1 .. n : listen = config[j].listen
      BY <2>2 DEF Configured
    <2> HIDE DEF n
    <2> QED BY <1>3, <2>1, <2>3
  <1>5. /\ groups \in Seq(N) /\ g[n].hpset = {groups[k][1].listen : k \in 1 .. Len(groups)}
    <2>1. g[n] \in Groupings
      BY <1>2, <1>3
    <2> QED BY <2>1 DEF Groupings
  <1> HIDE DEF groups, n
  <1>6. Range(groups) = {groups[k] : k \in 1 .. Len(groups)} /\ \A k \in 1 .. Len(groups) : groups[k] \in N
    BY <1>5, LenProperties, ElementOfSeq DEF Range
  <1>7. \E group \in Range(groups) : Head(group).listen = listen
    <2>1. PICK k \in 1 .. Len(groups) : listen = groups[k][1].listen
      BY <1>4, <1>5
    <2>2. groups[k] \in Range(groups) /\ Head(groups[k]) = groups[k][1]
      BY <1>6, HeadTailProperties DEF Empty
    <2> QED BY <2>1, <2>2
  <1>8. Group \in Range(groups) /\ Head(Group).listen = listen
    <2>1. Group = CHOOSE group \in Range(groups) : Head(group).listen = listen
      BY <1>2 DEF Group, groups, n
    <2> QED BY <1>7, <2>1, Zenon
  <1>9. Group \in N
    BY <1>6, <1>8
  <1>10. Len(Group) \in Nat \ {0} /\ Head(Group) = Group[1]
    BY <1>9, EmptySeq, HeadTailProperties, LenProperties DEF Empty
  <1> QED BY <1>2, <1>8, <1>9, <1>10 DEF groups, n

\* resolveServerSetting names a block of the group it is given.
LEMMA ServerType ==
  ASSUME NEW group \in Seq(Blocks), Len(group) \in Nat \ {0}, NEW host
  PROVE  ResolveServerSetting(group, host) \in Blocks
  <1> DEFINE named == {k \in 1 .. Len(group) : host \in group[k].names}
  <1>1. DOMAIN group = 1 .. Len(group)
    BY LenProperties
  <1>2. ResolveServerSetting(group, host) = group[IF named = {} THEN 1 ELSE Min(named)]
    BY <1>1 DEF ResolveServerSetting
  <1>3. named \subseteq Nat /\ 1 \in 1 .. Len(group)
    <2> DEFINE n == Len(group)
    <2>1. n \in Nat \ {0}
      OBVIOUS
    <2> HIDE DEF n
    <2>2. 1 .. n \subseteq Nat /\ 1 \in 1 .. n
      BY <2>1
    <2> QED BY <2>2 DEF n
  <1>4. named # {} => Min(named) \in 1 .. Len(group)
    <2>1. named \subseteq 1 .. Len(group)
      OBVIOUS
    <2> HIDE DEF named
    <2>2. named # {} => Min(named) \in named
      BY <1>3, MinIs
    <2> QED BY <2>1, <2>2
  <1> HIDE DEF named
  <1>5. (IF named = {} THEN 1 ELSE Min(named)) \in 1 .. Len(group)
    BY <1>3, <1>4
  <1> DEFINE j == IF named = {} THEN 1 ELSE Min(named)
  <1> HIDE DEF j
  <1>6. group[j] \in Blocks
    BY <1>5, ElementOfSeq DEF j
  <1> QED BY <1>2, <1>6 DEF j

-----------------------------------------------------------------------------
(* Type correctness. *)

\* The states handleConnection is in or returns.
States == {"Receiving", "Loading"}

\* What an HTTPRequest may hold.
Requests == [method : Texts, target : Texts, headers : Seq(HeaderLine), body : Texts, length : Nat]

\* What is read is what was sent, and no more of it is kept than was read.
Kept ==
  /\ Configured
  /\ text \in Texts /\ read \in 0 .. Len(text)
  /\ http \in Texts /\ Len(http) <= read
  /\ req \in Requests /\ Len(req.body) <= read
  /\ limit \in Nat \cup {NoLimit} /\ ended \in BOOLEAN /\ cgi \in BOOLEAN
  /\ state \in States /\ mask \in States

\* The text nothing was sent in.
LEMMA EmptyText == Empty \in Texts /\ Len(Empty) = 0
  BY EmptySeq DEF Empty, Texts

\* A text has a length.
LEMMA TextLength == ASSUME NEW s \in Texts PROVE Len(s) \in Nat
  BY LenProperties DEF Texts

\* What the words of the first line are, and that the next line has a place, if only a
\* place where nothing can stand.
LEMMA StartType ==
  ASSUME NEW s \in Texts
  PROVE  /\ StartLine(s).method \in Texts /\ StartLine(s).target \in Texts
         /\ StartLine(s).next \in 1 .. Len(s) + 2
  <1> DEFINE L == Len(s)
             p == Find(s, <<" ">>, 1)
             q == Find(s, <<" ">>, p + 1)
             r == Find(s, CRLF, q + 1)
             method == Upto(s, 1, p)
             target == Upto(s, p + 1, q)
  <1>0. " " \in Symbols
    BY DEF Symbols
  <1>1. L \in Nat /\ 1 \in Nat \ {0}
    BY TextLength
  <1>2. p \in {0} \cup 1 .. L
    BY <1>0, <1>1, SymbolFound
  <1> HIDE DEF L, p
  <1>3. p \in 0 .. L /\ p + 1 \in Nat \ {0}
    BY <1>1, <1>2
  <1>4. q \in {0} \cup p + 1 .. L
    BY <1>0, <1>3, SymbolFound DEF L
  <1> HIDE DEF q
  <1>5. q \in 0 .. L /\ q + 1 \in Nat \ {0} /\ q \in Nat
    BY <1>1, <1>3, <1>4
  <1>6. r \in {0} \cup q + 1 .. L - 1
    BY <1>5, LineEnd DEF L
  <1> HIDE DEF r
  <1>7. r + 2 \in 1 .. L + 2
    BY <1>1, <1>5, <1>6
  <1>8. method \in Texts
    BY <1>1, <1>3, UptoType DEF L
  <1>9. target \in Texts
    BY <1>3, <1>5, UptoType DEF L
  <1> HIDE DEF method, target
  <1>10. StartLine(s).method = method /\ StartLine(s).target = target /\ StartLine(s).next = r + 2
    BY DEF StartLine, method, target, r, q, p
  <1> QED BY <1>7, <1>8, <1>9, <1>10 DEF L

\* What the rest of the Receiving branch leaves behind.
LEMMA ResolvedType ==
  ASSUME Configured, cgi \in BOOLEAN, state \in States, mask \in States,
         NEW r, NEW s \in States, Resolved(r, s)
  PROVE  /\ limit' \in Nat \cup {NoLimit} /\ ended' \in BOOLEAN /\ cgi' \in BOOLEAN
         /\ state' \in States /\ mask' \in States
  <1> DEFINE hosted == Has(r.headers, <<"Host">>)
             block  == IF hosted THEN ResolveServerSetting(Group, HostOf(r.headers)) ELSE Head(Group)
             max    == IF hosted THEN block.limit ELSE 0
             found  == ResolveLocation(block.places, r.target)
             place  == Head(found)
  <1>1. max \in Nat \cup {NoLimit}
    <2>1. CASE hosted
      <3> DEFINE b == ResolveServerSetting(Group, HostOf(r.headers))
      <3>1. b \in Blocks
        BY GroupIs, ServerType
      <3> HIDE DEF b
      <3>2. b.limit \in Nat \cup {NoLimit}
        BY <3>1 DEF Blocks
      <3> QED BY <2>1, <3>2 DEF b
    <2>2. CASE ~hosted
      BY <2>2
    <2> QED BY <2>1, <2>2
  <1>2. ended' = ~hosted /\ limit' = max
    BY DEF Resolved
  <1>3. \/ (\E how : Ends(how)) /\ (cgi' = cgi \/ cgi' = (cgi \/ place.cgi))
        \/ /\ cgi' = (cgi \/ place.cgi)
           /\ Returns(s, IF Enough(r.body, r.length) THEN "Loading" ELSE s)
    BY Zenon DEF Resolved, Refused
  <1> HIDE DEF max, place, hosted
  <1>4. ended' \in BOOLEAN
    BY <1>2
  <1>5. cgi' \in BOOLEAN
    <2>1. cgi' = cgi \/ cgi' = (cgi \/ place.cgi)
      BY <1>3
    <2> QED BY <2>1
  <1>6. state' \in States /\ mask' \in States
    BY <1>3 DEF Ends, Returns, States
  <1> QED BY <1>1, <1>2, <1>4, <1>5, <1>6

\* What is understood of a text that holds a header.
LEMMA UnderstoodType ==
  ASSUME Configured, cgi \in BOOLEAN, state \in States, mask \in States, req \in Requests,
         limit \in Nat \cup {NoLimit}, ended \in BOOLEAN,
         NEW s \in Texts, NEW start, start.method \in Texts, start.target \in Texts,
         NEW lines \in Seq(HeaderLine), NEW p \in 1 .. Len(s) + 2,
         Understood(s, start, lines, p)
  PROVE  /\ limit' \in Nat \cup {NoLimit} /\ ended' \in BOOLEAN /\ cgi' \in BOOLEAN
         /\ state' \in States /\ mask' \in States
         /\ req' \in Requests /\ (req' = req \/ Len(req'.body) <= Len(s))
  <1> DEFINE sized  == Has(lines, <<"Content-Length">>)
             size   == ValueOf(lines, <<"Content-Length">>)
             length == IF sized THEN Stoi(size) ELSE 0
             body   == IF length = 0 THEN Empty ELSE SubSeq(s, p + 2, Len(s))
             r      == [method |-> start.method, target |-> start.target,
                        headers |-> lines, body |-> body, length |-> length]
             turn   == IF Len(body) = length THEN "Loading" ELSE "Receiving"
  <1>1. CASE sized /\ ~IsNumber(size)
    <2>1. Ends("aborted") /\ UNCHANGED <<req, ended, setting, limit, cgi>>
      BY <1>1 DEF Understood
    <2> QED BY <2>1 DEF Ends
  <1>2. CASE ~(sized /\ ~IsNumber(size))
    <2>1. req' = r /\ Resolved(r, turn)
      BY <1>2, Zenon DEF Understood
    <2>2. length \in Nat
      <3>1. CASE sized
        <4>1. IsNumber(size)
          BY <1>2, <3>1
        <4>2. Stoi(size) \in Nat
          BY <4>1, NumberAssumption DEF IsNumber, Stoi
        <4> HIDE DEF size
        <4> QED BY <3>1, <4>2
      <3>2. CASE ~sized
        BY <3>2
      <3> QED BY <3>1, <3>2
    <2> HIDE DEF length
    <2>3. body \in Texts /\ Len(body) <= Len(s)
      <3> DEFINE L == Len(s)
                 c == SubSeq(s, p + 2, L)
      <3>1. L \in Nat /\ p \in 1 .. L + 2
        BY TextLength
      <3>2. L \in Nat /\ L \in Int /\ L <= L /\ p + 2 \in Nat \ {0}
        <4> HIDE DEF L
        <4> QED BY <3>1
      <3>3. c \in Texts /\ Len(c) = IF p + 2 <= L THEN L - (p + 2) + 1 ELSE 0
        <4> DEFINE b == p + 2
        <4>1. b \in Nat \ {0}
          BY <3>2
        <4> HIDE DEF b
        <4>2. SubSeq(s, b, L) \in Texts /\ Len(SubSeq(s, b, L)) = IF b <= L THEN L - b + 1 ELSE 0
          BY <3>2, <4>1, CutType
        <4> QED BY <4>2 DEF b
      <3>4. Len(c) <= L
        <4> DEFINE l == Len(c)
        <4>1. l = IF p + 2 <= L THEN L - (p + 2) + 1 ELSE 0
          BY <3>3
        <4> HIDE DEF L, l
        <4>2. l <= L
          BY <3>1, <4>1
        <4> QED BY <4>2 DEF l
      <3> HIDE DEF c
      <3>5. CASE length = 0
        <4>1. body = Empty
          BY <3>5
        <4> HIDE DEF body
        <4> QED BY <3>2, <4>1, EmptyText
      <3>6. CASE length # 0
        <4>1. body = c
          BY <3>6 DEF c
        <4> QED BY <3>3, <3>4, <4>1
      <3> QED BY <3>5, <3>6
    <2> HIDE DEF body
    <2>4. r \in Requests
      BY <2>2, <2>3 DEF Requests
    <2>5. turn \in States
      BY DEF States
    <2> DEFINE t == turn
    <2> HIDE DEF turn
    <2>6. req' = r /\ r.body = body
      BY <2>1
    <2>7. req' \in Requests /\ Len(req'.body) <= Len(s)
      BY <2>3, <2>4, <2>6
    <2> HIDE DEF r
    <2> QED BY <2>1, <2>5, <2>7, ResolvedType
  <1> QED BY <1>1, <1>2

\* A read that belongs to the header, or to the body, keeps no more than it brings.
LEMMA ReadHeaderKeeps ==
  ASSUME Kept, NEW piece \in Texts, ReadHeader(piece),
         config' = config, listen' = listen, text' = text,
         read' \in 0 .. Len(text), read' = read + Len(piece)
  PROVE  Kept'
  <1> DEFINE got   == http \o piece
             start == StartLine(got)
             head  == HeaderLines(got, start.next)
  <1>1. got \in Texts /\ Len(got) = Len(http) + Len(piece) /\ Len(http) \in Nat /\ Len(piece) \in Nat
    BY ConcatAt DEF Kept
  <1>2. read \in Nat /\ Len(http) <= read /\ Len(req.body) <= read /\ Len(req.body) \in Nat
    <2>1. Len(text) \in Nat
      BY TextLength DEF Kept
    <2>2. req.body \in Texts /\ read \in 0 .. Len(text) /\ Len(http) <= read /\ Len(req.body) <= read
      BY DEF Kept, Requests
    <2> QED BY <2>1, <2>2, TextLength
  <1> HIDE DEF got
  <1>3. Len(got) <= read' /\ Len(req.body) <= read'
    <2> DEFINE g == Len(got)
               h == Len(http)
               b == Len(req.body)
               c == Len(piece)
    <2>1. g = h + c /\ h \in Nat /\ c \in Nat /\ read \in Nat /\ h <= read /\ b <= read /\ b \in Nat /\ read' = read + c
      BY <1>1, <1>2
    <2> HIDE DEF g, h, b, c
    <2>2. g <= read' /\ b <= read'
      BY <2>1
    <2> QED BY <2>2 DEF g, b
  <1>4. http' = got
    BY DEF ReadHeader, got
  <1>5. start.method \in Texts /\ start.target \in Texts /\ start.next \in 1 .. Len(got) + 2
    BY <1>1, StartType
  <1>6. head.lines \in Seq(HeaderLine) /\ head.over \in 0 .. Len(got) + 2
    <2> DEFINE p == start.next
    <2> HIDE DEF start
    <2>1. HeaderLines(got, p) \in [lines : Seq(HeaderLine), over : 0 .. Len(got) + 2]
      BY <1>1, <1>5, LinesType
    <2> QED BY <2>1
  <1>7. \/ (Returns("Receiving", "Receiving") \/ \E how : Ends(how)) /\ UNCHANGED <<req, ended, setting, limit, cgi>>
        \/ head.over # 0 /\ Understood(got, start, head.lines, head.over)
    BY Zenon DEF ReadHeader, Refused, got
  <1> HIDE DEF start, head
  <1>8. /\ limit' \in Nat \cup {NoLimit} /\ ended' \in BOOLEAN /\ cgi' \in BOOLEAN
        /\ state' \in States /\ mask' \in States
        /\ req' \in Requests /\ (req' = req \/ Len(req'.body) <= Len(got))
    <2>1. CASE (Returns("Receiving", "Receiving") \/ \E how : Ends(how)) /\ UNCHANGED <<req, ended, setting, limit, cgi>>
      BY <2>1 DEF Kept, Returns, Ends, States
    <2>2. CASE head.over # 0 /\ Understood(got, start, head.lines, head.over)
      <3>1. head.over \in 1 .. Len(got) + 2
        <4> DEFINE g == Len(got)
                   o == head.over
        <4>1. g \in Nat /\ o \in 0 .. g + 2 /\ o # 0
          BY <1>1, <1>6, <2>2, TextLength
        <4> HIDE DEF g, o
        <4>2. o \in 1 .. g + 2
          BY <4>1
        <4> QED BY <4>2 DEF g, o
      <3> DEFINE o == head.over
                 lines == head.lines
      <3>2. o \in 1 .. Len(got) + 2 /\ lines \in Seq(HeaderLine) /\ Understood(got, start, lines, o)
        BY <1>6, <2>2, <3>1
      <3> HIDE DEF o, lines
      <3>3. /\ Configured /\ cgi \in BOOLEAN /\ state \in States /\ mask \in States /\ req \in Requests
            /\ limit \in Nat \cup {NoLimit} /\ ended \in BOOLEAN
        BY DEF Kept
      <3> QED BY <1>1, <1>5, <3>2, <3>3, UnderstoodType
    <2> QED BY <1>7, <2>1, <2>2
  <1>9. Len(req'.body) <= read'
    <2>1. CASE req' = req
      BY <1>3, <2>1
    <2>2. CASE Len(req'.body) <= Len(got)
      <3> DEFINE b == Len(req'.body)
                 g == Len(got)
      <3>1. b \in Nat /\ g \in Nat /\ read' \in Nat
        <4>1. req'.body \in Texts
          BY <1>8 DEF Requests
        <4>2. Len(text) \in Nat
          BY TextLength DEF Kept
        <4> QED BY <1>1, <4>1, <4>2, TextLength
      <3>2. b <= g /\ g <= read'
        BY <1>3, <2>2
      <3> HIDE DEF b, g
      <3>3. b <= read'
        BY <3>1, <3>2
      <3> QED BY <3>3 DEF b
    <2> QED BY <1>8, <2>1, <2>2
  <1>10. Configured'
    BY DEF Kept, Configured
  <1> QED BY <1>1, <1>3, <1>4, <1>8, <1>9, <1>10 DEF Kept

\* A read that belongs to the body keeps no more than was read.
LEMMA ReadBodyKeeps ==
  ASSUME Kept, NEW piece \in Texts, ReadBody(piece),
         config' = config, listen' = listen, text' = text,
         read' \in 0 .. Len(text), read' = read + Len(piece)
  PROVE  Kept'
  <1> DEFINE body == req.body \o piece
  <1>1. req \in Requests /\ req.body \in Texts
    BY DEF Kept, Requests
  <1>2. body \in Texts /\ Len(body) = Len(req.body) + Len(piece) /\ Len(req.body) \in Nat /\ Len(piece) \in Nat
    BY <1>1, ConcatAt
  <1>3. req' = [req EXCEPT !.body = body] /\ UNCHANGED <<http, ended, setting, limit, cgi>>
    BY DEF ReadBody
  <1>4. state' \in States /\ mask' \in States
    BY DEF ReadBody, Refused, Ends, Returns, Kept, States
  <1> HIDE DEF body
  <1>5. req' \in Requests /\ req'.body = body
    BY <1>1, <1>2, <1>3 DEF Requests
  <1>6. Len(body) <= read' /\ Len(http) <= read'
    <2> DEFINE b == Len(body)
               h == Len(http)
               o == Len(req.body)
               c == Len(piece)
    <2>1. b = o + c /\ o \in Nat /\ c \in Nat
      BY <1>2
    <2>2. read \in Nat /\ h \in Nat /\ h <= read /\ o <= read /\ read' = read + c
      <3>1. Len(text) \in Nat
        BY TextLength DEF Kept
      <3>2. read \in 0 .. Len(text) /\ h <= read /\ o <= read /\ http \in Texts
        BY DEF Kept
      <3> QED BY <3>1, <3>2, TextLength
    <2> HIDE DEF b, h, o, c
    <2>3. b <= read' /\ h <= read'
      BY <2>1, <2>2
    <2> QED BY <2>3 DEF b, h
  <1>7. Configured'
    BY DEF Kept, Configured
  <1> QED BY <1>3, <1>4, <1>5, <1>6, <1>7 DEF Kept

\* What a step of Receive reads: the next piece of the text.
LEMMA NextPiece ==
  ASSUME Kept, NEW n \in 1 .. BufferSize, read + n <= Len(text)
  PROVE  /\ SubSeq(text, read + 1, read + n) \in Texts
         /\ Len(SubSeq(text, read + 1, read + n)) = n
         /\ read + n \in 0 .. Len(text)
  <1>1. text \in Texts /\ read \in 0 .. Len(text)
    BY DEF Kept
  <1>2. n \in Nat
    BY BufferAssumption
  <1>3. Len(text) \in Nat
    BY <1>1, TextLength
  <1>4. 1 \in 1 .. read + 1
    BY <1>1, <1>3
  <1>5. read + n \in 0 .. Len(text)
    <2> DEFINE L == Len(text)
    <2>1. read \in 0 .. L /\ n \in Nat /\ L \in Nat /\ read + n <= L
      BY <1>1, <1>2, <1>3
    <2> HIDE DEF L
    <2>2. read + n \in 0 .. L
      BY <2>1
    <2> QED BY <2>2 DEF L
  <1> QED BY <1>1, <1>2, <1>4, <1>5, CutOn

\* What peers send is text, and at first nothing of it has been read.
LEMMA KeptFirst ==
  ASSUME Init
  PROVE  Kept
  <1>1. Configured
    BY DEF Init, Configured
  <1>2. text \in Texts
    <2>1. CASE \E a \in Asked : asked = <<a>> /\ text = Rendered(a)
      BY <2>1, SentType
    <2>2. CASE asked = Empty /\ text \in Malformed
      <3>1. text \in Seq(STRING)
        BY <2>2, MalformedAssumption
      <3> QED BY <3>1, SeqMonotonic DEF Texts, Symbols
    <2> QED BY <2>1, <2>2 DEF Init
  <1>3. read \in 0 .. Len(text)
    BY <1>2, TextLength DEF Init
  <1>4. req \in Requests /\ req.body = Empty
    <2>1. Empty \in Seq(HeaderLine)
      BY EmptySeq DEF Empty
    <2> QED BY <2>1, EmptyText DEF Init, Requests
  <1>5. http \in Texts /\ Len(http) <= read /\ Len(req.body) <= read
    BY <1>4, EmptyText DEF Init
  <1> QED BY <1>1, <1>2, <1>3, <1>4, <1>5 DEF Init, Kept, States

\* No step keeps more than was read.
LEMMA KeptNext ==
  ASSUME Kept, [Next]_vars
  PROVE  Kept'
  <1>1. CASE Receive
    <2>1. PICK n \in 1 .. BufferSize :
            /\ read + n <= Len(text) /\ read' = read + n
            /\ \/ ReadHeader(SubSeq(text, read + 1, read + n))
               \/ ReadBody(SubSeq(text, read + 1, read + n))
      BY <1>1, Zenon DEF Receive
    <2> DEFINE piece == SubSeq(text, read + 1, read + n)
    <2>2. piece \in Texts /\ Len(piece) = n /\ read + n \in 0 .. Len(text)
      BY <2>1, NextPiece
    <2>3. config' = config /\ listen' = listen /\ text' = text
      BY <1>1 DEF Receive, connection
    <2>4. read' \in 0 .. Len(text) /\ read' = read + Len(piece) /\ (ReadHeader(piece) \/ ReadBody(piece))
      BY <2>1, <2>2
    <2> HIDE DEF piece
    <2> QED BY <2>2, <2>3, <2>4, ReadHeaderKeeps, ReadBodyKeeps
  <1>2. CASE BadRequest
    BY <1>2 DEF BadRequest, Refused, Ends, Kept, Configured, connection
  <1>3. CASE Load
    BY <1>3 DEF Load, Kept, Configured, connection
  <1>4. CASE UNCHANGED vars
    BY <1>4 DEF vars, Kept, Configured, connection
  <1> QED BY <1>1, <1>2, <1>3, <1>4 DEF Next

\* No more of what a peer sends is kept than was read, and no length is negative.
THEOREM Types == Spec => []TypeOK
  <1>1. Init => Kept
    BY KeptFirst
  <1>2. Kept /\ [Next]_vars => Kept'
    BY KeptNext
  <1>3. Kept => TypeOK
    <2> SUFFICES ASSUME Kept PROVE TypeOK
      OBVIOUS
    <2>1. Len(http) + Len(req.body) <= 2 * read
      <3> DEFINE h == Len(http)
                 b == Len(req.body)
      <3>1. read \in Nat /\ h \in Nat /\ b \in Nat /\ h <= read /\ b <= read
        <4>1. Len(text) \in Nat
          BY TextLength DEF Kept
        <4>2. read \in 0 .. Len(text) /\ h <= read /\ b <= read /\ http \in Texts /\ req.body \in Texts
          BY DEF Kept, Requests
        <4> QED BY <4>1, <4>2, TextLength
      <3> HIDE DEF h, b
      <3>2. h + b <= 2 * read
        BY <3>1
      <3> QED BY <3>2 DEF h, b
    <2> QED BY <2>1 DEF Kept, TypeOK, Requests, States
  <1> QED BY <1>1, <1>2, <1>3, PTL DEF Spec

-----------------------------------------------------------------------------
(* The request that is meant is the one that is understood. *)

\* How long a body the headers of a request announce.
Announced(a) == IF "Content-Length" \in KeysAsked(a) THEN Len(a.body) ELSE 0

\* A request of which nothing is understood.
Blank == [method |-> Empty, target |-> Empty, headers |-> Empty, body |-> Empty, length |-> 0]

\* Its header is not in yet: all that was read is kept, and nothing is understood.
Waiting(a) ==
  /\ req = Blank /\ http = SubSeq(text, 1, read)
  /\ state = "Receiving" /\ mask = "Receiving"
  /\ outcome = Still => read < HeaderLength(a)

\* Its header is in: it is understood, the body is what was read behind the header, and it
\* is complete when as much of it is there as was announced.
Knowing(a) ==
  /\ req.method = <<a.method>> /\ a.method \in Methods /\ req.target = a.target
  /\ LinesGive(req.headers, a.headers) /\ req.length = Announced(a)
  /\ HeaderLength(a) <= read
  /\ req.body = IF Announced(a) = 0 THEN Empty ELSE SubSeq(text, HeaderLength(a) + 1, read)
  /\ state = "Loading" => Len(req.body) = Announced(a)
  /\ outcome = Still =>
       /\ state = mask
       /\ state = "Receiving" => read < Len(text) /\ Announced(a) # 0

\* The peer means a, and the server knows of it what it can.
Meant(a) == asked = <<a>> /\ text = Rendered(a) /\ (Waiting(a) \/ Knowing(a))

\* The peer means no request, or the server knows of the one it means what it can.
Understands == asked = Empty \/ \E a \in Asked : Meant(a)

\* The length a request announces is that of its body.
LEMMA AnnouncedIs ==
  ASSUME NEW a \in Asked
  PROVE  /\ Announced(a) \in Nat /\ (Announced(a) # 0 => Announced(a) = Len(a.body))
         /\ \A lines : LinesGive(lines, a.headers) =>
              LET sized == Has(lines, <<"Content-Length">>)
                  size  == ValueOf(lines, <<"Content-Length">>)
              IN  /\ sized => IsNumber(size)
                  /\ (IF sized THEN Stoi(size) ELSE 0) = Announced(a)
  <1>1. Len(a.body) \in Nat
    BY AskedType
  <1>2. Announced(a) \in Nat /\ (Announced(a) # 0 => Announced(a) = Len(a.body))
    BY <1>1 DEF Announced
  <1>3. ASSUME NEW lines, LinesGive(lines, a.headers)
        PROVE  LET sized == Has(lines, <<"Content-Length">>)
                   size  == ValueOf(lines, <<"Content-Length">>)
               IN  /\ sized => IsNumber(size)
                   /\ (IF sized THEN Stoi(size) ELSE 0) = Announced(a)
    <2> DEFINE sized == Has(lines, <<"Content-Length">>)
               size  == ValueOf(lines, <<"Content-Length">>)
               told  == "Content-Length" \in KeysAsked(a)
    <2>1. (sized <=> told) /\ (told => size = ValueAsked(a, "Content-Length"))
      BY <1>3, ValueGiven
    <2>2. told => /\ IsNumber(ValueAsked(a, "Content-Length"))
                  /\ Stoi(ValueAsked(a, "Content-Length")) = Len(a.body)
      BY Zenon, AskedAssumption DEF Stoi
    <2>3. Announced(a) = IF told THEN Len(a.body) ELSE 0
      BY DEF Announced
    <2> HIDE DEF sized, size, told
    <2>4. /\ sized => IsNumber(size)
          /\ (IF sized THEN Stoi(size) ELSE 0) = Announced(a)
      BY <2>1, <2>2, <2>3
    <2> QED BY <2>4 DEF sized, size
  <1> QED BY <1>2, <1>3

\* What is kept of the body once the header is in is no longer than what was announced,
\* and as long only if nothing of it is missing.
LEMMA BodyLength ==
  ASSUME NEW a \in Asked, NEW n \in 0 .. Len(Rendered(a)), HeaderLength(a) <= n,
         NEW body, body = IF Announced(a) = 0 THEN Empty ELSE SubSeq(Rendered(a), HeaderLength(a) + 1, n)
  PROVE  /\ body \in Texts /\ Len(body) \in Nat /\ Len(body) <= Announced(a)
         /\ Len(body) = Announced(a) <=> (Announced(a) = 0 \/ n = Len(Rendered(a)))
         /\ Announced(a) # 0 => Len(body) = n - HeaderLength(a)
  <1> DEFINE s == Rendered(a)
             h == HeaderLength(a)
             L == Len(s)
             b == Len(a.body)
             A == Announced(a)
             c == SubSeq(s, h + 1, n)
  <1>1. s \in Texts /\ L \in Nat /\ b \in Nat /\ h \in Nat /\ L = h + b
    BY SentType
  <1>2. A \in Nat /\ (A # 0 => A = b)
    BY AnnouncedIs
  <1>3. n \in 0 .. L /\ h <= n
    OBVIOUS
  <1> HIDE DEF L, h, b, A
  <1>4. CASE A = 0
    <2>1. body = Empty
      BY <1>4 DEF A
    <2>2. 0 <= 0 /\ 0 \in Nat
      OBVIOUS
    <2> QED BY <1>4, <2>1, <2>2, EmptyText DEF A
  <1>5. CASE A # 0
    <2>1. body = c
      BY <1>5 DEF A, h
    <2> DEFINE p == h + 1
    <2>2. p \in 1 .. n + 1 /\ n - p + 1 = n - h /\ n - h \in Nat /\ n - h <= b /\ (n - h = b <=> n = L)
      BY <1>1, <1>3
    <2> HIDE DEF p
    <2>3. SubSeq(s, p, n) \in Texts /\ Len(SubSeq(s, p, n)) = n - p + 1
      BY <1>1, <1>3, <2>2, CutAgain DEF L
    <2>4. body \in Texts /\ Len(body) = n - h
      BY <2>1, <2>2, <2>3 DEF p
    <2> HIDE DEF c
    <2>5. Len(body) \in Nat /\ Len(body) <= A /\ (Len(body) = A <=> n = L)
      BY <1>2, <1>5, <2>2, <2>4
    <2> QED BY <1>5, <2>4, <2>5 DEF A, L, h
  <1> QED BY <1>4, <1>5

\* A connection that ends is not open any more.
LEMMA EndsIs ==
  ASSUME NEW how \in {"aborted", "killed", "400", "405", "413", "501"}, Ends(how)
  PROVE  outcome' # Still /\ state' = state /\ mask' = mask
  BY DEF Ends, Still, Outcome

\* Nor is one whose request is refused.
LEMMA RefusedIs ==
  ASSUME NEW code \in {"400", "405", "413", "501"}, NEW isCgi, NEW method, Refused(code, isCgi, method)
  PROVE  outcome' # Still /\ state' = state /\ mask' = mask
  <1>1. CASE isCgi /\ method # <<"DELETE">>
    <2>1. Ends("killed")
      BY <1>1, Zenon DEF Refused
    <2> QED BY <2>1, EndsIs
  <1>2. CASE ~(isCgi /\ method # <<"DELETE">>)
    <2>1. Ends(code)
      BY <1>2, Zenon DEF Refused
    <2> QED BY <2>1, EndsIs
  <1> QED BY <1>1, <1>2

\* The rest of the Receiving branch ends the connection, or goes on with what was read.
LEMMA ResolvedEither ==
  ASSUME NEW r, NEW s, Resolved(r, s)
  PROVE  \/ outcome' # Still /\ state' = state /\ mask' = mask
         \/ /\ outcome' = outcome /\ state' = s
            /\ mask' = IF Enough(r.body, r.length) THEN "Loading" ELSE s
  <1>1. \/ Ends("aborted")
        \/ Refused("405", cgi, r.method)
        \/ Refused("413", cgi', r.method)
        \/ Returns(s, IF Enough(r.body, r.length) THEN "Loading" ELSE s)
    BY Zenon DEF Resolved
  <1>2. CASE Ends("aborted")
    BY <1>2, EndsIs
  <1>3. CASE Refused("405", cgi, r.method)
    BY <1>3, RefusedIs
  <1>4. CASE Refused("413", cgi', r.method)
    <2>1. PICK c : c = cgi'
      OBVIOUS
    <2>2. Refused("413", c, r.method)
      BY <1>4, <2>1
    <2> QED BY <2>2, RefusedIs
  <1>5. CASE Returns(s, IF Enough(r.body, r.length) THEN "Loading" ELSE s)
    BY <1>5 DEF Returns
  <1> QED BY <1>1, <1>2, <1>3, <1>4, <1>5

\* What is made of a header that is in: the request.
LEMMA RequestUnderstood ==
  ASSUME NEW a \in Asked, NEW n \in 0 .. Len(Rendered(a)), HeaderLength(a) <= n,
         NEW got, got = SubSeq(Rendered(a), 1, n), Parsed(got, a),
         NEW start, NEW head, start = StartLine(got), head = HeaderLines(got, start.next),
         Understood(got, start, head.lines, head.over)
  PROVE  \E body, r :
           /\ body = IF Announced(a) = 0 THEN Empty ELSE SubSeq(Rendered(a), HeaderLength(a) + 1, n)
           /\ r = [method |-> <<a.method>>, target |-> a.target, headers |-> head.lines,
                   body |-> body, length |-> Announced(a)]
           /\ req' = r /\ LinesGive(head.lines, a.headers)
           /\ Resolved(r, IF Len(body) = Announced(a) THEN "Loading" ELSE "Receiving")
  <1> DEFINE lines  == head.lines
             p      == head.over
             sized  == Has(lines, <<"Content-Length">>)
             size   == ValueOf(lines, <<"Content-Length">>)
             length == IF sized THEN Stoi(size) ELSE 0
             body   == IF length = 0 THEN Empty ELSE SubSeq(got, p + 2, Len(got))
             r      == [method |-> start.method, target |-> start.target,
                        headers |-> lines, body |-> body, length |-> length]
             h      == HeaderLength(a)
             L      == Len(Rendered(a))
  <1>1. /\ start.method = <<a.method>> /\ start.target = a.target
        /\ p = h - 1 /\ LinesGive(lines, a.headers)
    BY DEF Parsed
  <1>2. (sized => IsNumber(size)) /\ length = Announced(a)
    BY <1>1, AnnouncedIs
  <1>3. req' = r /\ Resolved(r, IF Len(body) = length THEN "Loading" ELSE "Receiving")
    BY <1>2, Zenon DEF Understood
  <1>4. Rendered(a) \in Texts /\ L \in Nat /\ h \in Nat
    BY SentType
  <1>5. n \in 0 .. L /\ h <= n
    OBVIOUS
  <1> HIDE DEF h, L, p, length
  <1>6. p + 2 = h + 1 /\ h + 1 \in 1 .. n + 1 /\ 1 \in 1 .. n + 1 /\ n - 1 + 1 = n
    BY <1>1, <1>4, <1>5
  <1>7. Len(got) = n
    <2>1. Len(SubSeq(Rendered(a), 1, n)) = n - 1 + 1
      BY <1>4, <1>5, <1>6, CutAgain DEF L
    <2> QED BY <1>6, <2>1
  <1>8. SubSeq(got, p + 2, Len(got)) = SubSeq(Rendered(a), h + 1, n)
    <2> DEFINE q == h + 1
    <2>1. q \in 1 .. n + 1
      BY <1>6
    <2> HIDE DEF q
    <2>2. SubSeq(SubSeq(Rendered(a), 1, n), q, n) = SubSeq(Rendered(a), q, n)
      BY <1>4, <1>5, <2>1, CutAgain DEF L
    <2> QED BY <1>6, <1>7, <2>2 DEF q
  <1>9. body = IF Announced(a) = 0 THEN Empty ELSE SubSeq(Rendered(a), h + 1, n)
    BY <1>2, <1>8
  <1> HIDE DEF body
  <1>10. r = [method |-> <<a.method>>, target |-> a.target, headers |-> head.lines,
              body |-> body, length |-> Announced(a)]
    BY <1>1, <1>2
  <1>11. req' = r /\ Resolved(r, IF Len(body) = Announced(a) THEN "Loading" ELSE "Receiving")
    BY <1>2, <1>3
  <1> HIDE DEF r
  <1> QED BY <1>1, <1>9, <1>10, <1>11 DEF h

\* A read of a request that is not understood yet.
LEMMA WaitingReads ==
  ASSUME Kept, NEW a \in Asked, asked = <<a>>, text = Rendered(a), Waiting(a), outcome = Still,
         NEW n \in 1 .. BufferSize, read + n <= Len(text), read' = read + n, text' = text,
         ReadHeader(SubSeq(text, read + 1, read + n))
  PROVE  Waiting(a)' \/ Knowing(a)'
  <1> DEFINE N     == read + n
             got   == SubSeq(text, 1, N)
             start == StartLine(got)
             head  == HeaderLines(got, start.next)
             known == start.method \in {<<m>> : m \in Methods}
  <1>1. text \in Texts /\ read \in 0 .. Len(text) /\ n \in Nat /\ Len(text) \in Nat
    BY TextLength, BufferAssumption DEF Kept
  <1>2. http \o SubSeq(text, read + 1, read + n) = got
    <2>1. 1 \in 1 .. read + 1
      BY <1>1
    <2>2. http = SubSeq(text, 1, read)
      BY DEF Waiting
    <2> QED BY <1>1, <2>1, <2>2, CutOn
  <1>3. N \in 0 .. Len(Rendered(a))
    <2> DEFINE L == Len(text)
    <2>1. read \in 0 .. L /\ n \in Nat /\ L \in Nat /\ read + n <= L
      BY <1>1
    <2> HIDE DEF L
    <2>2. read + n \in 0 .. L
      BY <2>1
    <2> QED BY <2>2 DEF L
  <1>4. /\ HeaderIsIn(got) <=> HeaderLength(a) <= N
        /\ HeaderLength(a) <= N => Parsed(got, a)
    BY <1>3, HeaderCut
  <1>5. http' = got /\ read' = N
    BY <1>2 DEF ReadHeader
  <1>6. \/ /\ ~HeaderIsIn(got) /\ Returns("Receiving", "Receiving") /\ req' = req
        \/ /\ HeaderIsIn(got) /\ ~known /\ Refused("501", FALSE, start.method) /\ req' = req
        \/ /\ HeaderIsIn(got) /\ head.over = 0
        \/ /\ HeaderIsIn(got) /\ known /\ Understood(got, start, head.lines, head.over)
    BY <1>2, Zenon DEF ReadHeader
  <1> HIDE DEF got
  <1>7. req = Blank /\ state = "Receiving" /\ mask = "Receiving"
    BY DEF Waiting
  <1>8. CASE ~HeaderIsIn(got) /\ Returns("Receiving", "Receiving") /\ req' = req
    <2>1. ~(HeaderLength(a) <= N)
      BY <1>4, <1>8
    <2>2. N < HeaderLength(a)
      <3> DEFINE h == HeaderLength(a)
      <3>1. h \in Nat
        BY SentType
      <3>2. N \in Nat
        BY <1>1
      <3> HIDE DEF h, N
      <3>3. N < h
        BY <2>1, <3>1, <3>2 DEF h
      <3> QED BY <3>3 DEF h
    <2> HIDE DEF N
    <2>3. read' < HeaderLength(a)
      BY <1>5, <2>2
    <2>4. http' = SubSeq(text', 1, read')
      BY <1>5 DEF got
    <2> QED BY <1>7, <1>8, <2>3, <2>4 DEF Waiting, Returns
  <1>9. CASE HeaderIsIn(got) /\ ~known /\ Refused("501", FALSE, start.method) /\ req' = req
    <2>1. outcome' # Still /\ state' = state /\ mask' = mask
      <3> HIDE DEF start
      <3> QED BY <1>9, RefusedIs
    <2>2. http' = SubSeq(text', 1, read')
      BY <1>5 DEF got
    <2> QED BY <1>7, <1>9, <2>1, <2>2 DEF Waiting
  <1>10. CASE HeaderIsIn(got) /\ head.over = 0
    <2>1. head.over > 2
      BY <1>4, <1>10 DEF Parsed
    <2> HIDE DEF head
    <2> QED BY <1>10, <2>1
  <1>11. CASE HeaderIsIn(got) /\ known /\ Understood(got, start, head.lines, head.over)
    <2>1. HeaderLength(a) <= N /\ Parsed(got, a)
      BY <1>4, <1>11
    <2>2. PICK body, r :
            /\ body = IF Announced(a) = 0 THEN Empty ELSE SubSeq(Rendered(a), HeaderLength(a) + 1, N)
            /\ r = [method |-> <<a.method>>, target |-> a.target, headers |-> head.lines,
                    body |-> body, length |-> Announced(a)]
            /\ req' = r /\ LinesGive(head.lines, a.headers)
            /\ Resolved(r, IF Len(body) = Announced(a) THEN "Loading" ELSE "Receiving")
      <3>1. got = SubSeq(Rendered(a), 1, N)
        BY DEF got
      <3> HIDE DEF N
      <3> QED BY <1>3, <1>11, <2>1, <3>1, RequestUnderstood
    <2>3. a.method \in Methods
      <3>1. start.method = <<a.method>>
        BY <2>1 DEF Parsed
      <3>2. PICK m \in Methods : <<a.method>> = <<m>>
        BY <1>11, <3>1
      <3>3. <<a.method>>[1] = <<m>>[1]
        BY <3>2
      <3> QED BY <3>3
    <2> HIDE DEF N
    <2>4. /\ body \in Texts /\ Len(body) \in Nat /\ Len(body) <= Announced(a)
          /\ Len(body) = Announced(a) <=> (Announced(a) = 0 \/ N = Len(Rendered(a)))
      BY <1>3, <2>1, <2>2, BodyLength
    <2> DEFINE turn == IF Len(body) = Announced(a) THEN "Loading" ELSE "Receiving"
    <2>5. Enough(r.body, r.length) <=> Len(body) = Announced(a)
      <3> DEFINE b == Len(body)
                 A == Announced(a)
      <3>1. b \in Nat /\ A \in Nat /\ b <= A
        BY <2>4, AnnouncedIs
      <3>2. r.body = body /\ r.length = A
        BY <2>2
      <3>3. Enough(r.body, r.length) <=> b >= A
        BY <3>2 DEF Enough
      <3> HIDE DEF b, A
      <3>4. b >= A <=> b = A
        BY <3>1
      <3> QED BY <3>3, <3>4 DEF b, A
    <2>6. \/ outcome' # Still /\ state' = state /\ mask' = mask
          \/ outcome' = outcome /\ state' = turn /\ mask' = turn
      <3>1. \/ outcome' # Still /\ state' = state /\ mask' = mask
            \/ /\ outcome' = outcome /\ state' = turn
               /\ mask' = IF Enough(r.body, r.length) THEN "Loading" ELSE turn
        <4> DEFINE s == turn
        <4>1. Resolved(r, s)
          BY <2>2
        <4> HIDE DEF s
        <4>2. \/ outcome' # Still /\ state' = state /\ mask' = mask
              \/ /\ outcome' = outcome /\ state' = s
                 /\ mask' = IF Enough(r.body, r.length) THEN "Loading" ELSE s
          BY <4>1, ResolvedEither
        <4> QED BY <4>2 DEF s
      <3> QED BY <2>5, <3>1
    <2>7. /\ state' = "Loading" => Len(body) = Announced(a)
          /\ outcome' = Still => /\ state' = mask'
                                 /\ state' = "Receiving" => Len(body) # Announced(a)
      BY <1>7, <2>6
    <2>8. Len(body) # Announced(a) => N < Len(Rendered(a)) /\ Announced(a) # 0
      <3> DEFINE L == Len(Rendered(a))
      <3>1. L \in Nat
        BY SentType
      <3>2. N \in 0 .. L
        BY <1>3
      <3>3. Len(body) # Announced(a) => N # L /\ Announced(a) # 0
        BY <2>4
      <3> HIDE DEF L
      <3>4. N # L => N < L
        BY <3>1, <3>2
      <3> QED BY <3>3, <3>4 DEF L
    <2>9. /\ req'.method = <<a.method>> /\ req'.target = a.target /\ req'.headers = head.lines
          /\ req'.body = body /\ req'.length = Announced(a)
      BY <2>2
    <2> HIDE DEF head
    <2>10. Knowing(a)'
      BY <1>5, <2>1, <2>2, <2>3, <2>7, <2>8, <2>9 DEF Knowing
    <2> QED BY <2>10
  <1> QED BY <1>6, <1>8, <1>9, <1>10, <1>11

\* A read of the body of a request that is understood.
LEMMA KnowingReads ==
  ASSUME Kept, NEW a \in Asked, asked = <<a>>, text = Rendered(a), Knowing(a), outcome = Still,
         state = "Receiving",
         NEW n \in 1 .. BufferSize, read + n <= Len(text), read' = read + n, text' = text,
         ReadHeader(SubSeq(text, read + 1, read + n)) \/ ReadBody(SubSeq(text, read + 1, read + n))
  PROVE  Knowing(a)'
  <1> DEFINE N     == read + n
             h     == HeaderLength(a)
             piece == SubSeq(text, read + 1, N)
             body  == req.body \o piece
             turn  == IF Enough(body, req.length) THEN "Loading" ELSE "Receiving"
             L     == Len(text)
  <1>1. text \in Texts /\ read \in 0 .. L /\ n \in Nat /\ L \in Nat /\ h \in Nat
    BY TextLength, BufferAssumption, SentType DEF Kept
  <1>2. /\ req.length = Announced(a) /\ Announced(a) # 0 /\ h <= read
        /\ req.body = SubSeq(text, h + 1, read)
        /\ req.method = <<a.method>> /\ a.method \in Methods /\ req.target = a.target
        /\ LinesGive(req.headers, a.headers)
    BY Zenon DEF Knowing
  <1>3. ReadBody(piece)
    BY <1>2 DEF ReadHeader
  <1>4. h + 1 \in 1 .. read + 1 /\ N \in 0 .. L /\ h <= N /\ N <= L /\ N \in Nat
    <2>1. read \in 0 .. L /\ n \in Nat /\ L \in Nat /\ h \in Nat /\ h <= read /\ read + n <= L
      BY <1>1, <1>2
    <2> HIDE DEF h, L
    <2> QED BY <2>1
  <1>5. body = SubSeq(text, h + 1, N)
    <2> DEFINE p == h + 1
    <2>1. p \in 1 .. read + 1
      BY <1>4
    <2> HIDE DEF p
    <2>2. SubSeq(text, p, read) \o SubSeq(text, read + 1, read + n) = SubSeq(text, p, read + n)
      BY <1>1, <2>1, CutOn
    <2> QED BY <1>2, <2>2 DEF p
  <1>6. req \in Requests
    BY DEF Kept
  <1>7. /\ req' = [req EXCEPT !.body = body]
        /\ \/ \E c : Refused("413", c, req.method)
           \/ Returns(turn, turn)
    BY <1>3, Zenon DEF ReadBody
  <1> HIDE DEF N, body, turn
  <1>8. /\ req'.method = req.method /\ req'.target = req.target /\ req'.headers = req.headers
        /\ req'.length = req.length /\ req'.body = body
    BY <1>6, <1>7 DEF Requests
  <1>9. /\ Len(body) \in Nat /\ Len(body) <= Announced(a)
        /\ Len(body) = Announced(a) <=> (Announced(a) = 0 \/ N = Len(Rendered(a)))
    <2>1. body = IF Announced(a) = 0 THEN Empty ELSE SubSeq(Rendered(a), HeaderLength(a) + 1, N)
      BY <1>2, <1>5
    <2>2. N \in 0 .. Len(Rendered(a)) /\ HeaderLength(a) <= N
      BY <1>4
    <2> QED BY <2>1, <2>2, BodyLength
  <1>10. turn = IF Len(body) = Announced(a) THEN "Loading" ELSE "Receiving"
    <2> DEFINE b == Len(body)
               A == Announced(a)
    <2>1. b \in Nat /\ A \in Nat /\ b <= A
      BY <1>9, AnnouncedIs
    <2>2. turn = IF b >= A THEN "Loading" ELSE "Receiving"
      BY <1>2 DEF turn, Enough
    <2> HIDE DEF b, A
    <2>3. b >= A <=> b = A
      BY <2>1
    <2> QED BY <2>2, <2>3 DEF b, A
  <1>11. \/ outcome' # Still /\ state' = state /\ mask' = mask
         \/ outcome' = outcome /\ state' = turn /\ mask' = turn
    <2>1. CASE \E c : Refused("413", c, req.method)
      BY <2>1, RefusedIs
    <2>2. CASE Returns(turn, turn)
      BY <2>2 DEF Returns
    <2> QED BY <1>7, <2>1, <2>2
  <1>12. /\ state' = "Loading" => Len(body) = Announced(a)
         /\ outcome' = Still => /\ state' = mask'
                                /\ state' = "Receiving" => Len(body) # Announced(a)
    BY <1>10, <1>11
  <1>13. Len(body) # Announced(a) => N < Len(text)
    <2>1. Len(body) # Announced(a) => N # L
      BY <1>9
    <2> HIDE DEF L
    <2>2. N # L => N < L
      BY <1>1, <1>4
    <2> QED BY <2>1, <2>2 DEF L
  <1>14. read' = N
    BY DEF N
  <1>15. Knowing(a)'
    BY <1>2, <1>4, <1>5, <1>8, <1>12, <1>13, <1>14 DEF Knowing
  <1> QED BY <1>15

\* No read, and no other step, changes what the server knows for worse.
LEMMA UnderstandsNext ==
  ASSUME Kept, Understands, [Next]_vars
  PROVE  Understands'
  <1>1. CASE asked = Empty
    <2>1. asked' = asked
      BY DEF Next, Receive, BadRequest, Load, vars, connection
    <2> QED BY <1>1, <2>1 DEF Understands
  <1>2. CASE asked # Empty
    <2>1. PICK a \in Asked : Meant(a)
      BY <1>2 DEF Understands
    <2>2. asked = <<a>> /\ text = Rendered(a) /\ (Waiting(a) \/ Knowing(a))
      BY <2>1 DEF Meant
    <2>3. asked' = asked /\ text' = text
      BY DEF Next, Receive, BadRequest, Load, vars, connection
    <2>4. CASE Receive
      <3>1. PICK n \in 1 .. BufferSize :
              /\ read + n <= Len(text) /\ read' = read + n
              /\ \/ ReadHeader(SubSeq(text, read + 1, read + n))
                 \/ ReadBody(SubSeq(text, read + 1, read + n))
        BY <2>4, Zenon DEF Receive
      <3>2. outcome = Still /\ state = "Receiving"
        BY <2>4 DEF Receive
      <3>3. CASE Waiting(a)
        <4>1. req.length = 0
          BY <3>3 DEF Waiting, Blank
        <4>2. ReadHeader(SubSeq(text, read + 1, read + n))
          BY <3>1, <4>1 DEF ReadBody
        <4>3. Waiting(a)' \/ Knowing(a)'
          BY <2>2, <2>3, <3>1, <3>2, <3>3, <4>2, WaitingReads
        <4> QED BY <2>2, <2>3, <4>3 DEF Understands, Meant
      <3>4. CASE Knowing(a)
        <4>1. Knowing(a)'
          BY <2>2, <2>3, <3>1, <3>2, <3>4, KnowingReads
        <4> QED BY <2>2, <2>3, <4>1 DEF Understands, Meant
      <3> QED BY <2>2, <3>3, <3>4
    <2>5. CASE BadRequest
      <3>1. outcome = Still /\ mask = "Loading" /\ state = "Receiving"
        BY <2>5 DEF BadRequest
      <3> QED BY <2>2, <3>1 DEF Waiting, Knowing
    <2>6. CASE Load
      <3>1. outcome = Still /\ state = "Loading" /\ UNCHANGED <<read, http, req, state, mask>>
        BY <2>6 DEF Load
      <3>2. Knowing(a)
        BY <2>2, <3>1 DEF Waiting
      <3>3. Knowing(a)'
        BY <2>3, <3>1, <3>2 DEF Knowing
      <3> QED BY <2>2, <2>3, <3>3 DEF Understands, Meant
    <2>7. CASE UNCHANGED vars
      <3>1. UNCHANGED <<asked, text, read, http, req, state, mask, outcome>>
        BY <2>7 DEF vars, connection
      <3>2. Meant(a)'
        BY <2>1, <3>1 DEF Meant, Waiting, Knowing
      <3> QED BY <3>2 DEF Understands
    <2> QED BY <2>4, <2>5, <2>6, <2>7 DEF Next
  <1> QED BY <1>1, <1>2

\* At first nothing is read, which holds no header.
LEMMA UnderstandsFirst ==
  ASSUME Init
  PROVE  Understands
  <1>1. CASE asked = Empty
    BY <1>1 DEF Understands
  <1>2. CASE asked # Empty
    <2>1. PICK a \in Asked : asked = <<a>> /\ text = Rendered(a)
      BY <1>2 DEF Init
    <2>2. read = 0 /\ http = Empty /\ req = Blank /\ state = "Receiving" /\ mask = "Receiving"
      BY DEF Init, Blank
    <2>3. read < HeaderLength(a)
      <3> DEFINE h == HeaderLength(a)
      <3>1. h \in Nat /\ h > 3
        BY SentType
      <3> HIDE DEF h
      <3>2. 0 < h
        BY <3>1
      <3> QED BY <2>2, <3>2 DEF h
    <2>4. SubSeq(text, 1, 0) = Empty
      <3> DEFINE c == SubSeq(text, 1, 0)
      <3>1. Rendered(a) \in Texts /\ Len(Rendered(a)) \in Nat
        BY SentType
      <3>2. 0 \in 0 .. Len(text) /\ 1 \in 1 .. 0 + 1 /\ 0 - 1 + 1 = 0
        BY <2>1, <3>1
      <3>3. c \in Texts /\ Len(c) = 0
        BY <2>1, <3>1, <3>2, CutAgain
      <3> HIDE DEF c
      <3>4. c = Empty
        BY <3>3, EmptySeq DEF Empty, Texts
      <3> QED BY <3>4 DEF c
    <2>5. Meant(a)
      BY <2>1, <2>2, <2>3, <2>4 DEF Meant, Waiting
    <2> QED BY <2>5 DEF Understands
  <1> QED BY <1>1, <1>2

\* So it is in every state that can be reached.
LEMMA Meanings ==
  Spec => [](Kept /\ Understands)
  <1>1. Init => Kept /\ Understands
    BY KeptFirst, UnderstandsFirst
  <1>2. Kept /\ Understands /\ [Next]_vars => (Kept /\ Understands)'
    BY KeptNext, UnderstandsNext
  <1> QED BY <1>1, <1>2, PTL DEF Spec

\* The request the peer means is one it may mean, and the server knows of it what it can.
LEMMA OneAsked ==
  ASSUME Understands, NEW a \in Range(asked)
  PROVE  a \in Asked /\ Meant(a)
  <1>1. CASE asked = Empty
    <2>1. Range(Empty) = {}
      BY DEF Range, Empty
    <2> QED BY <1>1, <2>1
  <1>2. CASE asked # Empty
    <2>1. PICK b \in Asked : Meant(b)
      BY <1>2 DEF Understands
    <2>2. asked = <<b>>
      BY <2>1 DEF Meant
    <2>3. Range(<<b>>) = {b}
      BY DEF Range
    <2> QED BY <2>1, <2>2, <2>3
  <1> QED BY <1>1, <1>2

\* A body that is complete is the one that was sent.
LEMMA BodyComplete ==
  ASSUME NEW a \in Asked, Kept, Meant(a), Knowing(a), state = "Loading"
  PROVE  /\ Announced(a) = Len(a.body) => req.body = a.body
         /\ Len(req.body) = Announced(a)
  <1> DEFINE s == Rendered(a)
             h == HeaderLength(a)
             L == Len(s)
             b == Len(a.body)
             A == Announced(a)
             body == req.body
  <1>1. /\ s \in Texts /\ L \in Nat /\ b \in Nat /\ h \in Nat /\ L = h + b /\ a.body \in Texts
        /\ \A i \in h + 1 .. L : s[i] = a.body[i - h]
    BY SentType
  <1>2. /\ text = s /\ h <= read
        /\ body = IF A = 0 THEN Empty ELSE SubSeq(s, h + 1, read)
        /\ Len(body) = A
    BY DEF Meant, Knowing
  <1>3. read \in 0 .. L
    BY <1>2 DEF Kept
  <1>4. /\ body \in Texts /\ Len(body) \in Nat
        /\ Len(body) = A <=> (A = 0 \/ read = L)
    BY <1>2, <1>3, BodyLength
  <1> HIDE DEF s, h, L, b, A
  <1>5. ASSUME A = b PROVE body = a.body
    <2>1. CASE A = 0
      <3>1. a.body = Empty
        BY <1>1, <1>5, <2>1, EmptySeq DEF Empty, Texts, b
      <3>2. body = Empty
        BY <1>2, <2>1
      <3> QED BY <3>1, <3>2
    <2>2. CASE A # 0
      <3> DEFINE p == h + 1
      <3>1. read = L /\ body = SubSeq(s, p, read)
        BY <1>2, <1>4, <2>2
      <3>2. /\ p \in Nat \ {0} /\ L \in Int /\ L <= L /\ L - p + 1 = b
            /\ \A i \in 1 .. b : p + i - 1 \in h + 1 .. L /\ (p + i - 1) - h = i
        BY <1>1
      <3> HIDE DEF p
      <3>3. \A i \in 1 .. L - p + 1 : SubSeq(s, p, L)[i] = s[p + i - 1]
        BY <1>1, <3>2, CutType DEF L
      <3> HIDE DEF body
      <3>4. ASSUME NEW i \in 1 .. b PROVE body[i] = a.body[i]
        <4>1. body[i] = s[p + i - 1]
          BY <3>1, <3>2, <3>3
        <4> QED BY <1>1, <3>2, <4>1
      <3>5. Len(body) = Len(a.body)
        BY <1>2, <1>5 DEF b
      <3> QED BY <1>1, <1>4, <3>4, <3>5, SameText DEF b
    <2> QED BY <2>1, <2>2
  <1> QED BY <1>2, <1>5 DEF A, b

\* However the reads cut what is sent, the request understood is the one that was meant.
THEOREM RequestKeptWhole == Spec => []RequestKept
  <1>1. Kept /\ Understands => RequestKept
    <2> SUFFICES ASSUME Kept, Understands, NEW a \in Range(asked)
                 PROVE  /\ req.method # Empty =>
                             /\ req.method = <<a.method>> /\ req.target = a.target
                             /\ \A key \in KeysAsked(a) :
                                  ValueOf(req.headers, <<key>>) = ValueAsked(a, key)
                        /\ Complete /\ "Content-Length" \in KeysAsked(a) => req.body = a.body
      BY DEF RequestKept
    <2>1. a \in Asked /\ Meant(a)
      BY OneAsked
    <2>2. CASE Waiting(a)
      BY <2>2 DEF Waiting, Blank, Complete
    <2>3. CASE Knowing(a)
      <3>1. req.method = <<a.method>> /\ req.target = a.target /\ LinesGive(req.headers, a.headers)
        BY <2>3 DEF Knowing
      <3>2. \A key \in KeysAsked(a) : ValueOf(req.headers, <<key>>) = ValueAsked(a, key)
        BY <2>1, <3>1, ValueGiven
      <3>3. ASSUME Complete, "Content-Length" \in KeysAsked(a) PROVE req.body = a.body
        <4>1. state = "Loading" /\ Announced(a) = Len(a.body)
          BY <3>3 DEF Complete, Announced
        <4> QED BY <2>1, <2>3, <4>1, BodyComplete
      <3> QED BY <3>1, <3>2, <3>3
    <2> QED BY <2>1, <2>2, <2>3 DEF Meant
  <1> QED BY <1>1, Meanings, PTL

\* No cut leaves the server waiting for more than was announced.
THEOREM NeverLeftWaiting == Spec => []NeverWaiting
  <1>1. Kept /\ Understands => NeverWaiting
    <2> SUFFICES ASSUME Kept, Understands, asked # Empty, read = Len(text), outcome = Still
                 PROVE  mask = "Loading"
      BY DEF NeverWaiting
    <2>1. PICK a \in Asked : Meant(a)
      BY DEF Understands
    <2>2. Rendered(a) = text /\ (Waiting(a) \/ Knowing(a))
      BY <2>1 DEF Meant
    <2>3. ~Waiting(a)
      <3> SUFFICES ASSUME Waiting(a) PROVE FALSE
        OBVIOUS
      <3> DEFINE h == HeaderLength(a)
                 L == Len(text)
                 b == Len(a.body)
      <3>1. L \in Nat /\ b \in Nat /\ h \in Nat /\ L = h + b
        BY <2>2, SentType
      <3>2. L < h
        BY DEF Waiting
      <3> HIDE DEF h, L, b
      <3> QED BY <3>1, <3>2
    <2>4. state = mask /\ (state = "Receiving" => read < Len(text)) /\ state \in {"Receiving", "Loading"}
      BY <2>2, <2>3 DEF Knowing, Kept, States
    <2>5. ~(read < Len(text))
      <3> DEFINE L == Len(text)
      <3>1. L \in Nat
        BY TextLength DEF Kept
      <3> HIDE DEF L
      <3>2. ~(L < L)
        BY <3>1
      <3> QED BY <3>2 DEF L
    <2> QED BY <2>4, <2>5
  <1> QED BY <1>1, Meanings, PTL

-----------------------------------------------------------------------------
(* The groups of a configuration whose addresses come up in their own order. *)

\* Each block has an address of one before it, or one greater than all of those.
InOrder(blocks) ==
  \A k \in 1 .. Len(blocks) :
    \/ \E j \in 1 .. k - 1 : blocks[j].listen = blocks[k].listen
    \/ \A j \in 1 .. k - 1 : blocks[j].listen < blocks[k].listen

\* The blocks up to k of an address.
Own(blocks, k, address) == {j \in 1 .. k : blocks[j].listen = address}

\* The blocks of a group that have a host's name.
NamedIn(group, host) == {i \in 1 .. Len(group) : host \in group[i].names}

\* A group stands for the blocks up to k of an address: the first of it is their first, and
\* the first of a name is theirs of that name.
Serves(group, blocks, k, address) ==
  /\ Own(blocks, k, address) # {} /\ group \in Seq(Blocks) /\ Len(group) \in Nat \ {0}
  /\ group[1] = blocks[Min(Own(blocks, k, address))]
  /\ \A host :
       LET named == {j \in Own(blocks, k, address) : host \in blocks[j].names}
       IN  /\ named = {} <=> NamedIn(group, host) = {}
           /\ named # {} => group[Min(NamedIn(group, host))] = blocks[Min(named)]

\* So does every group of those made of the blocks up to k, and they are in the order of
\* their addresses.
Ordered(v, blocks, k) ==
  /\ v \in Groupings /\ v.hpset = {blocks[j].listen : j \in 1 .. k}
  /\ \A r \in 1 .. Len(v.groups) : Serves(v.groups[r], blocks, k, v.groups[r][1].listen)
  /\ \A i, j \in 1 .. Len(v.groups) : i < j => v.groups[i][1].listen < v.groups[j][1].listen

\* A greater number does not change what a set of numbers starts at.
LEMMA MinMore ==
  ASSUME NEW k \in Nat, NEW T \in SUBSET (1 .. k)
  PROVE  /\ T # {} => Min(T \cup {k + 1}) = Min(T) /\ Min(T) \in T /\ Min(T) \in 1 .. k
         /\ T = {} => Min(T \cup {k + 1}) = k + 1
  <1>1. T \subseteq Nat /\ T \cup {k + 1} \subseteq Nat
    OBVIOUS
  <1>2. CASE T # {}
    <2>1. Min(T) \in T /\ \A n \in T : Min(T) <= n
      BY <1>1, <1>2, MinIs
    <2> DEFINE m == Min(T)
    <2> HIDE DEF m
    <2>2. m \in T /\ \A n \in T \cup {k + 1} : m <= n
      <3>1. m \in T /\ \A n \in T : m <= n
        BY <2>1 DEF m
      <3>2. m \in 1 .. k
        BY <3>1
      <3>3. m <= k + 1
        BY <3>2
      <3> QED BY <3>1, <3>3
    <2>3. Min(T \cup {k + 1}) = m
      BY <1>1, <2>2, MinFound
    <2> QED BY <1>2, <2>2, <2>3 DEF m
  <1>3. CASE T = {}
    <2>1. T \cup {k + 1} = {k + 1} /\ k + 1 \in {k + 1} /\ {k + 1} \subseteq Nat /\ k + 1 <= k + 1
      BY <1>3
    <2>2. Min({k + 1}) = k + 1
      <3> DEFINE n == k + 1
      <3>1. n \in {n} /\ {n} \subseteq Nat /\ \A i \in {n} : n <= i
        BY <2>1
      <3> HIDE DEF n
      <3>2. Min({n}) = n
        BY <3>1, MinFound
      <3> QED BY <3>2 DEF n
    <2> QED BY <1>3, <2>1, <2>2
  <1> QED BY <1>2, <1>3

\* The place of an address is that of its group.
LEMMA RankOrdered ==
  ASSUME NEW v, NEW blocks, NEW k, Ordered(v, blocks, k), NEW r \in 1 .. Len(v.groups)
  PROVE  Rank(v.groups[r][1].listen, v.hpset) = r
  <1> DEFINE n == Len(v.groups)
             f(i) == v.groups[i][1].listen
             T == {b \in v.hpset : b <= f(r)}
             F == [i \in 1 .. r |-> f(i)]
  <1>1. /\ v.hpset \in SUBSET Nat /\ v.groups \in Seq(Seq(Blocks) \ {Empty})
        /\ v.hpset = {f(i) : i \in 1 .. n}
    BY DEF Ordered, Groupings
  <1>2. n \in Nat
    BY <1>1, LenProperties
  <1>3. \A i, j \in 1 .. n : i < j => f(i) < f(j)
    BY DEF Ordered
  <1>4. \A i \in 1 .. n : f(i) \in Nat
    BY <1>1
  <1>5. r \in 1 .. n
    OBVIOUS
  <1> HIDE DEF f, n
  <1>6. 1 .. r \subseteq 1 .. n /\ r \in Nat
    BY <1>2, <1>5
  <1>7. ASSUME NEW i \in 1 .. n PROVE f(i) <= f(r) <=> i \in 1 .. r
    <2>1. i \in Nat /\ i >= 1 /\ r \in Nat
      BY <1>2, <1>5
    <2>2. i < r => f(i) < f(r)
      BY <1>3, <1>5
    <2>3. r < i => f(r) < f(i)
      BY <1>3, <1>5
    <2>4. f(i) \in Nat /\ f(r) \in Nat
      BY <1>4, <1>5
    <2> DEFINE x == f(i)
               y == f(r)
    <2>5. x \in Nat /\ y \in Nat /\ (i < r => x < y) /\ (r < i => y < x) /\ (i = r => x = y)
      BY <2>2, <2>3, <2>4
    <2> HIDE DEF x, y
    <2>6. x <= y <=> i \in 1 .. r
      BY <2>1, <2>5
    <2> QED BY <2>6 DEF x, y
  <1>8. F \in Bijection(1 .. r, T)
    <2>1. \A i \in 1 .. r : f(i) \in T
      BY <1>1, <1>6, <1>7
    <2>2. F \in [1 .. r -> T]
      BY <2>1
    <2>3. ASSUME NEW i \in 1 .. r, NEW j \in 1 .. r, F[i] = F[j] PROVE i = j
      <3>1. f(i) = f(j) /\ i \in 1 .. n /\ j \in 1 .. n
        BY <1>6, <2>3
      <3>2. f(i) \in Nat /\ f(j) \in Nat
        BY <1>4, <3>1
      <3>3. (i < j => f(i) < f(j)) /\ (j < i => f(j) < f(i))
        BY <1>3, <3>1
      <3>4. ~(i < j) /\ ~(j < i)
        <4> DEFINE x == f(i)
                   y == f(j)
        <4>1. x \in Nat /\ x = y /\ (i < j => x < y) /\ (j < i => y < x)
          BY <3>1, <3>2, <3>3
        <4> HIDE DEF x, y
        <4> QED BY <4>1
      <3>5. i \in Nat /\ j \in Nat
        OBVIOUS
      <3> QED BY <3>4, <3>5
    <2>4. ASSUME NEW t \in T PROVE \E i \in 1 .. r : F[i] = t
      <3>1. PICK i \in 1 .. n : t = f(i)
        BY <1>1
      <3>2. i \in 1 .. r
        BY <1>7, <3>1
      <3> QED BY <3>1, <3>2
    <2> HIDE DEF F, T
    <2> QED BY <2>2, <2>3, <2>4 DEF Bijection, Injection, Surjection, IsInjective
  <1>9. ExistsBijection(1 .. r, T)
    BY <1>8 DEF ExistsBijection
  <1>10. Cardinality(T) = r
    <2> HIDE DEF T
    <2> QED BY <1>6, <1>9, FS_CountingElements
  <1>11. Rank(v.groups[r][1].listen, v.hpset) = Cardinality(T)
    BY DEF Rank, f
  <1> QED BY <1>10, <1>11

\* A group goes on standing for its blocks when one of another address comes.
LEMMA ServesStill ==
  ASSUME NEW group, NEW blocks, NEW k \in Nat, NEW address, Serves(group, blocks, k, address),
         blocks[k + 1].listen # address
  PROVE  Serves(group, blocks, k + 1, address)
  <1>1. \A j : j \in 1 .. k + 1 <=> j \in 1 .. k \/ j = k + 1
    OBVIOUS
  <1>2. Own(blocks, k + 1, address) = Own(blocks, k, address)
    BY <1>1 DEF Own
  <1> QED BY <1>2 DEF Serves

\* So does one that a block of its own address is put at the end of.
LEMMA ServesMore ==
  ASSUME NEW group, NEW blocks, NEW k \in Nat, NEW address, Serves(group, blocks, k, address),
         blocks[k + 1] \in Blocks, blocks[k + 1].listen = address
  PROVE  Serves(Append(group, blocks[k + 1]), blocks, k + 1, address)
  <1> DEFINE b    == blocks[k + 1]
             more == Append(group, b)
             l    == Len(group)
             own  == Own(blocks, k, address)
  <1>1. own # {} /\ group \in Seq(Blocks) /\ l \in Nat \ {0} /\ group[1] = blocks[Min(own)]
    BY DEF Serves
  <1>2. /\ more \in Seq(Blocks) /\ Len(more) = l + 1 /\ more[l + 1] = b
        /\ \A i \in 1 .. l : more[i] = group[i]
    BY <1>1, AppendProperties
  <1>3. Own(blocks, k + 1, address) = own \cup {k + 1} /\ own \in SUBSET (1 .. k)
    <2>1. \A j : j \in 1 .. k + 1 <=> j \in 1 .. k \/ j = k + 1
      OBVIOUS
    <2> QED BY <2>1 DEF Own
  <1>4. Min(own \cup {k + 1}) = Min(own)
    <2> HIDE DEF own
    <2> QED BY <1>1, <1>3, MinMore
  <1>5. more[1] = group[1]
    <2>1. 1 \in 1 .. l
      <3>1. l \in Nat \ {0}
        BY <1>1
      <3> HIDE DEF l
      <3> QED BY <3>1
    <2> QED BY <1>2, <2>1
  <1>6. ASSUME NEW host
        PROVE  LET named == {j \in own \cup {k + 1} : host \in blocks[j].names}
               IN  /\ named = {} <=> NamedIn(more, host) = {}
                   /\ named # {} => more[Min(NamedIn(more, host))] = blocks[Min(named)]
    <2> DEFINE named == {j \in own : host \in blocks[j].names}
               after == {j \in own \cup {k + 1} : host \in blocks[j].names}
               mine  == NamedIn(group, host)
               all   == NamedIn(more, host)
    <2>1. (named = {} <=> mine = {}) /\ (named # {} => group[Min(mine)] = blocks[Min(named)])
      BY DEF Serves
    <2>2. named \in SUBSET (1 .. k) /\ mine \in SUBSET (1 .. l)
      BY <1>3 DEF NamedIn
    <2>3. \A i : i \in 1 .. l + 1 <=> i \in 1 .. l \/ i = l + 1
      <3>1. l \in Nat
        BY <1>1
      <3> HIDE DEF l
      <3> QED BY <3>1
    <2>4. after = IF host \in b.names THEN named \cup {k + 1} ELSE named
      OBVIOUS
    <2>5. all = IF host \in b.names THEN mine \cup {l + 1} ELSE mine
      <3>1. \A i \in 1 .. l : host \in more[i].names <=> host \in group[i].names
        BY <1>2
      <3>2. all = {i \in 1 .. l + 1 : host \in more[i].names}
        BY <1>2 DEF NamedIn
      <3>3. mine = {i \in 1 .. l : host \in group[i].names}
        BY DEF NamedIn
      <3> HIDE DEF more, l, all, mine, b
      <3>4. \A i : i \in all <=> i \in mine \/ (i = l + 1 /\ host \in b.names)
        BY <1>2, <2>3, <3>1, <3>2, <3>3
      <3> QED BY <3>4
    <2> HIDE DEF named, after, mine, all, own, b
    <2>6. l \in Nat
      BY <1>1
    <2>7. /\ named # {} => Min(named \cup {k + 1}) = Min(named)
          /\ named = {} => Min(named \cup {k + 1}) = k + 1
      BY <2>2, MinMore
    <2>8. /\ mine # {} => Min(mine \cup {l + 1}) = Min(mine) /\ Min(mine) \in 1 .. l
          /\ mine = {} => Min(mine \cup {l + 1}) = l + 1
      <3> HIDE DEF l
      <3> QED BY <2>2, <2>6, MinMore
    <2>9. mine # {} => more[Min(mine)] = group[Min(mine)]
      BY <1>2, <2>8
    <2>10. more[l + 1] = blocks[k + 1]
      BY <1>2 DEF b
    <2> HIDE DEF l, more
    <2>11. (after = {} <=> all = {}) /\ (after # {} => more[Min(all)] = blocks[Min(after)])
      <3>1. CASE host \notin b.names
        BY <2>1, <2>4, <2>5, <2>9, <3>1
      <3>2. CASE host \in b.names /\ named = {}
        <4>1. after = named \cup {k + 1} /\ all = mine \cup {l + 1}
          BY <2>4, <2>5, <3>2
        <4> QED BY <2>1, <2>7, <2>8, <2>10, <3>2, <4>1
      <3>3. CASE host \in b.names /\ named # {}
        <4>1. after = named \cup {k + 1} /\ all = mine \cup {l + 1}
          BY <2>4, <2>5, <3>3
        <4> QED BY <2>1, <2>7, <2>8, <2>9, <3>3, <4>1
      <3> QED BY <3>1, <3>2, <3>3
    <2> QED BY <2>11 DEF after, all, more
  <1>7. Len(more) \in Nat \ {0}
    <2>1. l \in Nat /\ Len(more) = l + 1
      BY <1>1, <1>2
    <2> HIDE DEF l, more
    <2> QED BY <2>1
  <1> HIDE DEF more, own
  <1>8. Serves(more, blocks, k + 1, address)
    BY <1>1, <1>2, <1>3, <1>4, <1>5, <1>6, <1>7 DEF Serves
  <1> QED BY <1>8 DEF more

\* A turn of sortServerSettings keeps the groups so.
LEMMA PutOrdered ==
  ASSUME NEW blocks \in Seq(Blocks), InOrder(blocks), NEW k \in Nat, k + 1 \in 1 .. Len(blocks),
         NEW v, Ordered(v, blocks, k)
  PROVE  Ordered(Put(v, blocks[k + 1]), blocks, k + 1)
  <1> DEFINE b == blocks[k + 1]
             n == Len(v.groups)
             f(i) == v.groups[i][1].listen
             N == Seq(Blocks) \ {Empty}
             w == Put(v, b)
  <1>1. b \in Blocks
    BY ElementOfSeq
  <1>2. /\ v \in Groupings /\ v.hpset = {blocks[j].listen : j \in 1 .. k}
        /\ \A r \in 1 .. n : Serves(v.groups[r], blocks, k, f(r))
        /\ \A i, j \in 1 .. n : i < j => f(i) < f(j)
    BY DEF Ordered
  <1>3. /\ v = [hpset |-> v.hpset, groups |-> v.groups]
        /\ v.hpset \in SUBSET Nat /\ v.groups \in Seq(N) /\ v.hpset = {f(i) : i \in 1 .. n}
    BY <1>2 DEF Groupings
  <1>4. w \in Groupings
    BY <1>1, <1>2, PutGroups
  <1>5. n \in Nat /\ \A j : j \in 1 .. k + 1 <=> j \in 1 .. k \/ j = k + 1
    <2>1. n \in Nat
      BY <1>3, LenProperties
    <2>2. \A j : j \in 1 .. k + 1 <=> j \in 1 .. k \/ j = k + 1
      OBVIOUS
    <2> QED BY <2>1, <2>2
  <1>6. \A i \in 1 .. n + 1 : i \in 1 .. n \/ i = n + 1
    <2> HIDE DEF n
    <2> QED BY <1>5
  <1> HIDE DEF b, w, n
  <1>7. CASE b.listen \notin v.hpset
    <2> DEFINE one == <<b>>
    <2>1. w = [hpset |-> v.hpset \cup {b.listen}, groups |-> Append(v.groups, one)]
      BY <1>7 DEF Put, w
    <2>2. one \in Seq(Blocks) /\ Len(one) = 1 /\ one[1] = b /\ one # Empty
      BY <1>1, EmptySeq DEF Empty
    <2>3. one \in N
      BY <2>2
    <2> HIDE DEF one
    <2>4. /\ w.hpset = v.hpset \cup {b.listen} /\ w.groups = Append(v.groups, one)
          /\ Len(w.groups) = n + 1 /\ w.groups[n + 1] = one
          /\ \A i \in 1 .. n : w.groups[i] = v.groups[i]
      BY <1>3, <2>1, <2>3, AppendProperties DEF n
    <2>5. w.hpset = {blocks[j].listen : j \in 1 .. k + 1}
      BY <1>2, <1>5, <2>4 DEF b
    <2>6. \A j \in 1 .. k : blocks[j].listen < b.listen
      <3>1. (k + 1) - 1 = k
        OBVIOUS
      <3>2. \/ \E j \in 1 .. k : blocks[j].listen = b.listen
            \/ \A j \in 1 .. k : blocks[j].listen < b.listen
        BY <3>1 DEF InOrder, b
      <3>3. ~ \E j \in 1 .. k : blocks[j].listen = b.listen
        BY <1>2, <1>7
      <3> QED BY <3>2, <3>3
    <2>7. ASSUME NEW i \in 1 .. n PROVE f(i) < b.listen /\ f(i) # b.listen
      <3>1. f(i) \in v.hpset
        BY <1>3
      <3>2. PICK j \in 1 .. k : f(i) = blocks[j].listen
        BY <1>2, <3>1
      <3> QED BY <1>7, <2>6, <3>1, <3>2
    <2>8. Serves(one, blocks, k + 1, b.listen)
      <3> DEFINE own == Own(blocks, k + 1, b.listen)
      <3>1. own = {k + 1}
        <4>1. ~ \E j \in 1 .. k : blocks[j].listen = b.listen
          BY <1>2, <1>7
        <4> QED BY <1>5, <4>1 DEF Own, b
      <3>2. Min(own) = k + 1 /\ Min({1}) = 1
        <4>1. ASSUME NEW x \in Nat PROVE Min({x}) = x
          <5> DEFINE T == {x}
          <5>1. T \subseteq Nat /\ x \in T /\ \A y \in T : x <= y
            OBVIOUS
          <5> HIDE DEF T
          <5>2. Min(T) = x
            BY <5>1, MinFound
          <5> QED BY <5>2 DEF T
        <4>2. k + 1 \in Nat /\ 1 \in Nat
          OBVIOUS
        <4> QED BY <3>1, <4>1, <4>2
      <3>3. ASSUME NEW host
            PROVE  LET named == {j \in own : host \in blocks[j].names}
                   IN  /\ named = {} <=> NamedIn(one, host) = {}
                       /\ named # {} => one[Min(NamedIn(one, host))] = blocks[Min(named)]
        <4> DEFINE named == {j \in own : host \in blocks[j].names}
        <4>1. 1 .. 1 = {1}
          OBVIOUS
        <4>2. NamedIn(one, host) = IF host \in b.names THEN {1} ELSE {}
          BY <2>2, <4>1 DEF NamedIn
        <4>3. named = IF host \in b.names THEN own ELSE {}
          BY <3>1 DEF b
        <4> HIDE DEF named, own
        <4>4. /\ named = {} <=> NamedIn(one, host) = {}
              /\ named # {} => one[Min(NamedIn(one, host))] = blocks[Min(named)]
          BY <2>2, <3>1, <3>2, <4>2, <4>3 DEF b
        <4> QED BY <4>4 DEF named
      <3>4. one[1] = blocks[Min(own)] /\ own # {} /\ Len(one) \in Nat \ {0}
        <4>1. Min(own) = k + 1 /\ one[1] = blocks[k + 1]
          BY <2>2, <3>2 DEF b
        <4>2. own # {}
          BY <3>1
        <4>3. Len(one) \in Nat \ {0}
          BY <2>2
        <4> HIDE DEF own
        <4> QED BY <4>1, <4>2, <4>3
      <3> HIDE DEF own
      <3> QED BY <2>2, <3>3, <3>4 DEF Serves, own
    <2>9. ASSUME NEW r \in 1 .. n + 1 PROVE Serves(w.groups[r], blocks, k + 1, w.groups[r][1].listen)
      <3>1. CASE r \in 1 .. n
        <4>1. Serves(v.groups[r], blocks, k, f(r)) /\ blocks[k + 1].listen # f(r)
          BY <1>2, <2>7, <3>1 DEF b
        <4>2. Serves(v.groups[r], blocks, k + 1, f(r))
          BY <4>1, ServesStill
        <4> QED BY <2>4, <3>1, <4>2
      <3>2. CASE r = n + 1
        BY <2>2, <2>4, <2>8, <3>2
      <3> QED BY <1>6, <3>1, <3>2
    <2>10. ASSUME NEW i \in 1 .. n + 1, NEW j \in 1 .. n + 1, i < j
           PROVE  w.groups[i][1].listen < w.groups[j][1].listen
      <3>1. i \in 1 .. n
        BY <1>5, <2>10
      <3>2. CASE j \in 1 .. n
        <4>1. f(i) < f(j)
          BY <1>2, <2>10, <3>1, <3>2
        <4> QED BY <2>4, <3>1, <3>2, <4>1
      <3>3. CASE j = n + 1
        <4>1. f(i) < b.listen
          BY <2>7, <3>1
        <4> QED BY <2>2, <2>4, <3>1, <3>3, <4>1
      <3> QED BY <1>6, <3>2, <3>3
    <2>11. Ordered(w, blocks, k + 1)
      <3>1. Len(w.groups) = n + 1
        BY <2>4
      <3>2. \A r \in 1 .. Len(w.groups) : Serves(w.groups[r], blocks, k + 1, w.groups[r][1].listen)
        BY <2>9, <3>1
      <3>3. \A i, j \in 1 .. Len(w.groups) : i < j => w.groups[i][1].listen < w.groups[j][1].listen
        BY <2>10, <3>1
      <3> QED BY <1>4, <2>5, <3>2, <3>3 DEF Ordered
    <2> QED BY <2>11 DEF w, b
  <1>8. CASE b.listen \in v.hpset
    <2>1. PICK at \in 1 .. n : b.listen = f(at)
      BY <1>3, <1>8
    <2>2. Rank(b.listen, v.hpset) = at
      <3>1. at \in 1 .. Len(v.groups)
        BY <2>1 DEF n
      <3>2. Rank(v.groups[at][1].listen, v.hpset) = at
        BY <3>1, RankOrdered
      <3> QED BY <2>1, <3>2
    <2> DEFINE more == Append(v.groups[at], b)
    <2>3. w = [hpset |-> v.hpset, groups |-> [v.groups EXCEPT ![at] = more]]
      <3>1. w = [v EXCEPT !.groups[at] = more]
        BY <1>8, <2>2 DEF Put, w
      <3>2. [v EXCEPT !.groups[at] = more] = [v EXCEPT !.groups = [v.groups EXCEPT ![at] = more]]
        OBVIOUS
      <3> HIDE DEF more
      <3>3. v \in [hpset : SUBSET Nat, groups : Seq(N)]
        BY <1>2 DEF Groupings
      <3>4. [v EXCEPT !.groups = [v.groups EXCEPT ![at] = more]]
              = [hpset |-> v.hpset, groups |-> [v.groups EXCEPT ![at] = more]]
        <4> DEFINE G == [v.groups EXCEPT ![at] = more]
        <4> HIDE DEF G, N, f
        <4>1. [v EXCEPT !.groups = G] = [hpset |-> v.hpset, groups |-> G]
          BY <3>3
        <4> QED BY <4>1 DEF G
      <3> QED BY <3>1, <3>2, <3>4
    <2>4. Serves(v.groups[at], blocks, k, f(at))
      BY <1>2, <2>1
    <2>5. /\ more \in Seq(Blocks) /\ Len(more) \in Nat \ {0} /\ more[1] = v.groups[at][1] /\ more # Empty
      <3> DEFINE g == v.groups[at]
      <3>1. g \in Seq(Blocks) /\ Len(g) \in Nat \ {0}
        BY <2>4 DEF Serves
      <3> HIDE DEF g
      <3>2. 1 \in 1 .. Len(g) /\ Len(g) + 1 \in Nat \ {0}
        <4> DEFINE l == Len(g)
        <4>1. l \in Nat \ {0}
          BY <3>1
        <4> HIDE DEF l
        <4>2. 1 \in 1 .. l /\ l + 1 \in Nat \ {0}
          BY <4>1
        <4> QED BY <4>2 DEF l
      <3>3. /\ Append(g, b) \in Seq(Blocks) /\ Len(Append(g, b)) = Len(g) + 1 /\ Append(g, b)[1] = g[1]
        BY <1>1, <3>1, <3>2, AppendProperties
      <3> QED BY <3>2, <3>3, EmptySeq DEF Empty, g
    <2> HIDE DEF more
    <2>6. DOMAIN v.groups = 1 .. n /\ more \in N
      BY <1>3, <2>5, LenProperties DEF n
    <2>7. /\ w.hpset = v.hpset /\ Len(w.groups) = n
          /\ \A i \in 1 .. n : w.groups[i] = IF i = at THEN more ELSE v.groups[i]
      <3>1. w.hpset = v.hpset /\ w.groups = [v.groups EXCEPT ![at] = more]
        BY <2>3
      <3>2. [v.groups EXCEPT ![at] = more] \in Seq(N) /\ Len([v.groups EXCEPT ![at] = more]) = n
        BY <1>3, <2>1, <2>6, ExceptSeq DEF n
      <3> QED BY <2>6, <3>1, <3>2
    <2>8. \A i \in 1 .. n : w.groups[i][1].listen = f(i)
      BY <2>5, <2>7
    <2>9. w.hpset = {blocks[j].listen : j \in 1 .. k + 1}
      BY <1>2, <1>5, <1>8, <2>7 DEF b
    <2>10. ASSUME NEW r \in 1 .. n PROVE Serves(w.groups[r], blocks, k + 1, w.groups[r][1].listen)
      <3>1. w.groups[r][1].listen = f(r)
        BY <2>8
      <3>2. CASE r = at
        <4>1. Serves(more, blocks, k + 1, f(at))
          <5>1. blocks[k + 1] \in Blocks /\ blocks[k + 1].listen = f(at)
            BY <1>1, <2>1 DEF b
          <5> QED BY <2>4, <5>1, ServesMore DEF more, b
        <4> QED BY <2>7, <3>1, <3>2, <4>1
      <3>3. CASE r # at
        <4>1. f(r) # b.listen
          <5>1. r < at \/ at < r
            <6>1. r \in Nat /\ at \in Nat
              BY <1>5
            <6> QED BY <3>3, <6>1
          <5>2. f(r) < f(at) \/ f(at) < f(r)
            BY <1>2, <5>1
          <5>3. f(r) \in Nat /\ f(at) \in Nat
            BY <1>3
          <5> DEFINE x == f(r)
                     y == f(at)
          <5>4. x \in Nat /\ y \in Nat /\ (x < y \/ y < x)
            BY <5>2, <5>3
          <5> HIDE DEF x, y
          <5>5. x # y
            BY <5>4
          <5> QED BY <2>1, <5>5 DEF x, y
        <4>2. Serves(v.groups[r], blocks, k, f(r)) /\ blocks[k + 1].listen # f(r)
          BY <1>2, <4>1 DEF b
        <4>3. Serves(v.groups[r], blocks, k + 1, f(r))
          BY <4>2, ServesStill
        <4> QED BY <2>7, <3>1, <3>3, <4>3
      <3> QED BY <3>2, <3>3
    <2>11. Ordered(w, blocks, k + 1)
      <3>1. \A r \in 1 .. Len(w.groups) : Serves(w.groups[r], blocks, k + 1, w.groups[r][1].listen)
        BY <2>7, <2>10
      <3>2. \A i, j \in 1 .. Len(w.groups) : i < j => w.groups[i][1].listen < w.groups[j][1].listen
        BY <1>2, <2>7, <2>8
      <3> QED BY <1>4, <2>9, <3>1, <3>2 DEF Ordered
    <2> QED BY <2>11 DEF w, b
  <1> QED BY <1>7, <1>8

\* The group of a connection's address stands for all the blocks of that address.
LEMMA GroupServes ==
  ASSUME Configured, InOrder(config)
  PROVE  Serves(Group, config, Len(config), listen)
  <1>1. config \in Seq(Blocks)
    BY ConfigsAssumption DEF Configured
  <1>2. PICK g : /\ g[0] = NoGroups /\ SortServerSettings(config) = g[Len(config)].groups
                 /\ \A k \in 0 .. Len(config) : g[k] \in Groupings
                 /\ \A k \in 1 .. Len(config) : g[k] = Put(g[k - 1], config[k])
    BY <1>1, SortFold
  <1> DEFINE n == Len(config)
             Good(k) == Ordered(g[k], config, k)
             bad == {k \in 0 .. n : ~Good(k)}
  <1>3. n \in Nat
    BY <1>1, LenProperties
  <1>4. bad = {}
    <2> SUFFICES ASSUME bad # {} PROVE FALSE
      OBVIOUS
    <2>1. bad \subseteq Nat
      <3> HIDE DEF Good, n
      <3> QED BY <1>3
    <2>2. PICK k \in bad : \A i \in bad : k <= i
      <3> HIDE DEF bad
      <3> QED BY <2>1, LeastNumber
    <2>3. k \in 0 .. n /\ ~Good(k)
      BY <2>2
    <2>4. CASE k = 0
      <3>1. NoGroups.groups = Empty /\ Len(Empty) = 0 /\ NoGroups.hpset = {} /\ 1 .. 0 = {}
        BY EmptySeq DEF NoGroups, Empty
      <3>2. {config[j].listen : j \in 1 .. 0} = {}
        BY <3>1
      <3>3. NoGroups \in Groupings
        BY GroupsFirst
      <3>4. Ordered(NoGroups, config, 0)
        BY <3>1, <3>2, <3>3 DEF Ordered
      <3> QED BY <1>2, <2>3, <2>4, <3>4
    <2>5. CASE k # 0
      <3> DEFINE j == k - 1
      <3>1. k \in 1 .. n /\ j \in 0 .. n /\ j \in Nat /\ ~(k <= j) /\ j + 1 = k
        <4>1. k \in 0 .. n /\ k # 0 /\ n \in Nat
          BY <1>3, <2>3, <2>5
        <4> HIDE DEF n, bad, Good
        <4> QED BY <4>1
      <3> HIDE DEF j
      <3>2. Good(j)
        <4>1. j \notin bad
          BY <2>2, <3>1
        <4> HIDE DEF Good
        <4> QED BY <3>1, <4>1
      <3>3. g[k] = Put(g[j], config[k])
        BY <1>2, <3>1 DEF j
      <3>4. Ordered(Put(g[j], config[j + 1]), config, j + 1)
        BY <1>1, <3>1, <3>2, PutOrdered
      <3> QED BY <2>3, <3>1, <3>3, <3>4
    <2> QED BY <2>4, <2>5
  <1>5. Ordered(g[n], config, n)
    <2>1. n \in 0 .. n /\ n \notin bad
      <3> HIDE DEF n, bad
      <3> QED BY <1>3, <1>4
    <2> HIDE DEF Good
    <2>2. Good(n)
      BY <2>1
    <2> QED BY <2>2 DEF Good
  <1> DEFINE groups == g[n].groups
  <1>6. Group \in Range(groups) /\ Group[1].listen = listen
    BY <1>2, GroupIs
  <1>7. groups \in Seq(Seq(Blocks) \ {Empty})
    BY <1>5 DEF Ordered, Groupings
  <1>8. \A r \in 1 .. Len(groups) : Serves(groups[r], config, n, groups[r][1].listen)
    BY <1>5 DEF Ordered
  <1> HIDE DEF groups, n
  <1>9. PICK r \in 1 .. Len(groups) : Group = groups[r]
    BY <1>6, <1>7, LenProperties DEF Range
  <1> QED BY <1>6, <1>8, <1>9 DEF n

\* The block resolveServerSetting finds in it is the one the request is for.
LEMMA BlockFound ==
  ASSUME Configured, InOrder(config), NEW a
  PROVE  /\ ResolveServerSetting(Group, <<ValueAsked(a, "Host")[1]>>) = BlockFor(a)
         /\ BlockFor(a) \in Blocks
  <1> DEFINE host  == <<ValueAsked(a, "Host")[1]>>
             n     == Len(config)
             own   == Own(config, n, listen)
             named == {k \in own : host \in config[k].names}
             mine  == NamedIn(Group, host)
  <1>1. Serves(Group, config, n, listen)
    BY GroupServes
  <1>2. Group \in Seq(Blocks) /\ Len(Group) \in Nat \ {0} /\ Group[1] = config[Min(own)]
    BY <1>1 DEF Serves
  <1>3. (named = {} <=> mine = {}) /\ (named # {} => Group[Min(mine)] = config[Min(named)])
    BY <1>1 DEF Serves
  <1>4. DOMAIN config = 1 .. n /\ DOMAIN Group = 1 .. Len(Group)
    <2>1. config \in Seq(Blocks)
      BY ConfigsAssumption DEF Configured
    <2> QED BY <1>2, <2>1, LenProperties
  <1>5. ResolveServerSetting(Group, host) = Group[IF mine = {} THEN 1 ELSE Min(mine)]
    BY <1>4 DEF ResolveServerSetting, NamedIn
  <1>6. BlockFor(a) = config[Min(IF named = {} THEN own ELSE named)]
    BY <1>4 DEF BlockFor, Own
  <1>7. ResolveServerSetting(Group, host) \in Blocks
    BY <1>2, ServerType
  <1> HIDE DEF host, own, named, mine, n
  <1>8. ResolveServerSetting(Group, host) = BlockFor(a)
    BY <1>2, <1>3, <1>5, <1>6
  <1> QED BY <1>7, <1>8 DEF host

-----------------------------------------------------------------------------
(* The location a target is served by. *)

\* The locations up to k that the target begins with.
Fits(places, target, k) == {j \in 1 .. k : IsPrefix(places[j].path, target)}

\* The first of the longest of those.
Longest(places, target, k, j) ==
  /\ j \in Fits(places, target, k)
  /\ \A i \in Fits(places, target, k) :
       \/ Len(places[i].path) < Len(places[j].path)
       \/ Len(places[i].path) = Len(places[j].path) /\ j <= i

\* What resolveLocation has found when it has gone through k of them.
FoundSoFar(places, target, k, found) ==
  \/ Fits(places, target, k) = {} /\ found = Empty
  \/ \E j \in 1 .. k : Longest(places, target, k, j) /\ found = <<places[j]>>

\* A turn of resolveLocation finds it among one more.
LEMMA FoundNext ==
  ASSUME NEW places \in Seq(Locations), NEW target, NEW k \in Nat, k + 1 \in 1 .. Len(places),
         NEW found, FoundSoFar(places, target, k, found)
  PROVE  FoundSoFar(places, target, k + 1, LongerLocation(target, found, places[k + 1]))
  <1> DEFINE place == places[k + 1]
             next  == LongerLocation(target, found, place)
             l(i)  == Len(places[i].path)
             fit   == Fits(places, target, k)
             more  == Fits(places, target, k + 1)
  <1>1. \A i : i \in 1 .. k + 1 <=> i \in 1 .. k \/ i = k + 1
    OBVIOUS
  <1>2. more = IF IsPrefix(place.path, target) THEN fit \cup {k + 1} ELSE fit
    BY <1>1 DEF Fits
  <1>3. \A i \in 1 .. k + 1 : l(i) \in Nat
    <2> TAKE i \in 1 .. k + 1
    <2>1. i \in 1 .. Len(places)
      <3> DEFINE n == Len(places)
      <3>1. n \in Nat
        BY LenProperties
      <3>2. k + 1 \in 1 .. n
        OBVIOUS
      <3> HIDE DEF n
      <3>3. i \in 1 .. n
        BY <3>1, <3>2
      <3> QED BY <3>3 DEF n
    <2>2. places[i] \in Locations
      BY <2>1, ElementOfSeq
    <2>3. places[i].path \in Seq(STRING)
      BY <2>2 DEF Locations
    <2> QED BY <2>3, LenProperties
  <1>4. fit \subseteq 1 .. k /\ \A i \in fit : i < k + 1 /\ i <= k + 1
    BY DEF Fits
  <1>5. \A x : <<x>> # Empty /\ Head(<<x>>) = x
    BY EmptySeq DEF Empty
  <1>6. k + 1 \in 1 .. k + 1 /\ k + 1 <= k + 1
    OBVIOUS
  <1>7. CASE ~IsPrefix(place.path, target)
    <2>1. next = found /\ more = fit
      BY <1>2, <1>7 DEF LongerLocation
    <2> HIDE DEF next, place
    <2> QED BY <1>1, <2>1 DEF FoundSoFar, Longest, place, next
  <1>8. CASE IsPrefix(place.path, target) /\ fit = {}
    <2>1. found = Empty
      BY <1>8 DEF FoundSoFar, Longest
    <2>2. next = <<place>>
      BY <1>8, <2>1 DEF LongerLocation
    <2>3. more = {k + 1}
      BY <1>2, <1>8
    <2>4. Longest(places, target, k + 1, k + 1)
      BY <1>6, <2>3 DEF Longest
    <2> HIDE DEF next
    <2> QED BY <1>6, <2>2, <2>4 DEF FoundSoFar, next
  <1>9. CASE IsPrefix(place.path, target) /\ fit # {}
    <2>1. PICK j \in 1 .. k : Longest(places, target, k, j) /\ found = <<places[j]>>
      BY <1>9 DEF FoundSoFar
    <2>2. j \in fit /\ \A i \in fit : l(i) < l(j) \/ (l(i) = l(j) /\ j <= i)
      BY <2>1 DEF Longest
    <2>3. found # Empty /\ Head(found) = places[j] /\ more = fit \cup {k + 1}
      BY <1>2, <1>5, <1>9, <2>1
    <2>4. next = IF l(k + 1) > l(j) THEN <<place>> ELSE found
      BY <1>9, <2>3 DEF LongerLocation
    <2>5. l(j) \in Nat /\ l(k + 1) \in Nat /\ \A i \in fit : l(i) \in Nat
      BY <1>1, <1>3, <1>4, <1>6, <2>2
    <2> HIDE DEF l, more, fit, place, next
    <2>6. CASE l(k + 1) > l(j)
      <3>1. \A i \in fit : l(i) < l(k + 1)
        BY <2>2, <2>5, <2>6
      <3>2. \A i \in more : l(i) < l(k + 1) \/ (l(i) = l(k + 1) /\ k + 1 <= i)
        BY <1>6, <2>3, <3>1
      <3>3. Longest(places, target, k + 1, k + 1)
        BY <2>3, <3>2 DEF Longest, l, more
      <3> QED BY <1>6, <2>4, <2>6, <3>3 DEF FoundSoFar, next, place
    <2>7. CASE ~(l(k + 1) > l(j))
      <3>1. l(k + 1) < l(j) \/ l(k + 1) = l(j)
        BY <2>5, <2>7
      <3>2. \A i \in more : l(i) < l(j) \/ (l(i) = l(j) /\ j <= i)
        BY <1>4, <2>2, <2>3, <3>1
      <3>3. Longest(places, target, k + 1, j) /\ j \in 1 .. k + 1
        BY <1>1, <2>2, <2>3, <3>2 DEF Longest, l, more
      <3> QED BY <2>1, <2>4, <2>7, <3>3 DEF FoundSoFar, next, place
    <2> QED BY <2>6, <2>7
  <1> QED BY <1>7, <1>8, <1>9

\* resolveLocation finds the location of the longest path the target begins with, the
\* first if there are several.
LEMMA PlaceFound ==
  ASSUME NEW block \in Blocks, NEW target
  PROVE  /\ ResolveLocation(block.places, target) = Empty <=> Fitting(block, target) = {}
         /\ Fitting(block, target) # {} =>
              /\ ResolveLocation(block.places, target) = <<PlaceFor(block, target)>>
              /\ PlaceFor(block, target) \in Locations
  <1> DEFINE places == block.places
             n == Len(places)
             found == ResolveLocation(places, target)
  <1>1. places \in Seq(Locations)
    BY DEF Blocks
  <1> HIDE DEF places
  <1>2. PICK g : /\ g[0] = Empty /\ ResolveLocation(places, target) = g[Len(places)]
                 /\ \A k \in 1 .. Len(places) : g[k] = LongerLocation(target, g[k - 1], places[k])
    BY <1>1, LocationFold
  <1>3. n \in Nat /\ DOMAIN places = 1 .. n
    BY <1>1, LenProperties
  <1> DEFINE Good(k) == FoundSoFar(places, target, k, g[k])
             bad == {k \in 0 .. n : ~Good(k)}
  <1>4. bad = {}
    <2> SUFFICES ASSUME bad # {} PROVE FALSE
      OBVIOUS
    <2>1. bad \subseteq Nat
      <3> HIDE DEF Good, n
      <3> QED BY <1>3
    <2>2. PICK k \in bad : \A i \in bad : k <= i
      <3> HIDE DEF bad
      <3> QED BY <2>1, LeastNumber
    <2>3. k \in 0 .. n /\ ~Good(k)
      BY <2>2
    <2>4. CASE k = 0
      <3>1. Fits(places, target, 0) = {}
        BY DEF Fits
      <3> QED BY <1>2, <2>3, <2>4, <3>1 DEF FoundSoFar
    <2>5. CASE k # 0
      <3> DEFINE j == k - 1
      <3>1. k \in 1 .. n /\ j \in 0 .. n /\ j \in Nat /\ ~(k <= j) /\ j + 1 = k
        <4>1. k \in 0 .. n /\ k # 0 /\ n \in Nat
          BY <1>3, <2>3, <2>5
        <4> HIDE DEF n, bad, Good
        <4> QED BY <4>1
      <3> HIDE DEF j
      <3>2. Good(j)
        <4>1. j \notin bad
          BY <2>2, <3>1
        <4> HIDE DEF Good
        <4> QED BY <3>1, <4>1
      <3>3. g[k] = LongerLocation(target, g[j], places[k])
        BY <1>2, <3>1 DEF j
      <3>4. FoundSoFar(places, target, j + 1, LongerLocation(target, g[j], places[j + 1]))
        BY <1>1, <3>1, <3>2, FoundNext
      <3> QED BY <2>3, <3>1, <3>3, <3>4
    <2> QED BY <2>4, <2>5
  <1>5. FoundSoFar(places, target, n, found)
    <2>1. n \in 0 .. n /\ n \notin bad
      <3> HIDE DEF n, bad
      <3> QED BY <1>3, <1>4
    <2> HIDE DEF Good
    <2>2. Good(n)
      BY <2>1
    <2> QED BY <1>2, <2>2 DEF Good
  <1>6. Fitting(block, target) = Fits(places, target, n)
    BY <1>3 DEF Fitting, Fits, places
  <1> HIDE DEF found, n
  <1>7. CASE Fits(places, target, n) = {}
    <2>1. found = Empty
      BY <1>5, <1>7 DEF FoundSoFar, Longest
    <2> QED BY <1>6, <1>7, <2>1 DEF found, places
  <1>8. CASE Fits(places, target, n) # {}
    <2>1. PICK j \in 1 .. n : Longest(places, target, n, j) /\ found = <<places[j]>>
      BY <1>5, <1>8 DEF FoundSoFar
    <2> DEFINE fit == Fits(places, target, n)
               l(i) == Len(places[i].path)
               Best(k) == \A i \in fit : l(i) < l(k) \/ (l(i) = l(k) /\ k <= i)
    <2>2. j \in fit /\ Best(j)
      BY <2>1 DEF Longest
    <2>3. ASSUME NEW k \in fit PROVE l(k) \in Nat /\ k \in Nat
      <3>1. k \in 1 .. n
        BY DEF Fits
      <3>2. places[k] \in Locations
        BY <1>1, <3>1, ElementOfSeq DEF n
      <3>3. places[k].path \in Seq(STRING)
        BY <3>2 DEF Locations
      <3> QED BY <1>3, <3>1, <3>3, LenProperties
    <2> HIDE DEF l, fit
    <2>4. ASSUME NEW k \in fit, Best(k) PROVE k = j
      <3>1. l(j) < l(k) \/ (l(j) = l(k) /\ k <= j)
        BY <2>2, <2>4
      <3>2. l(k) < l(j) \/ (l(k) = l(j) /\ j <= k)
        BY <2>2, <2>4
      <3>3. l(j) \in Nat /\ l(k) \in Nat /\ j \in Nat /\ k \in Nat
        BY <2>2, <2>3
      <3> DEFINE x == l(j)
                 y == l(k)
      <3>4. x \in Nat /\ y \in Nat /\ j \in Nat /\ k \in Nat
            /\ (x < y \/ (x = y /\ k <= j)) /\ (y < x \/ (y = x /\ j <= k))
        BY <3>1, <3>2, <3>3
      <3> HIDE DEF x, y
      <3> QED BY <3>4
    <2> HIDE DEF Best
    <2>5. j = CHOOSE k \in fit : Best(k)
      BY <2>2, <2>4
    <2>6. PlaceFor(block, target) = places[CHOOSE k \in fit : Best(k)]
      BY <1>6 DEF PlaceFor, Best, l, fit, places
    <2>7. PlaceFor(block, target) = places[j]
      BY <2>5, <2>6
    <2>8. places[j] \in Locations
      BY <1>1, <2>1, ElementOfSeq DEF n
    <2>9. <<places[j]>> # Empty
      BY EmptySeq DEF Empty
    <2> QED BY <1>6, <1>8, <2>1, <2>7, <2>8, <2>9 DEF found, places
  <1> QED BY <1>7, <1>8

-----------------------------------------------------------------------------
(* What a request comes to. *)

\* The host of a request is the word its Host header begins with.
LEMMA HostIs ==
  ASSUME NEW a \in Asked, NEW lines, LinesGive(lines, a.headers)
  PROVE  Has(lines, <<"Host">>) /\ HostOf(lines) = <<ValueAsked(a, "Host")[1]>>
  <1> DEFINE value == ValueAsked(a, "Host")
             L     == Len(value)
             q     == Find(value, <<":">>, 1)
             e     == IF q = NPos THEN L ELSE q - 1
             hits  == {k \in DOMAIN a.headers : a.headers[k][1] = "Host"}
  <1>1. "Host" \in KeysAsked(a) /\ value # Empty /\ value[1] # ":" /\ (L > 1 => value[2] = ":")
    BY Zenon, AskedAssumption
  <1>2. Has(lines, <<"Host">>) /\ ValueOf(lines, <<"Host">>) = value
    BY <1>1, ValueGiven
  <1>3. value \in Texts
    <2>1. a.headers \in Headers /\ DOMAIN a.headers = 1 .. Len(a.headers) /\ Len(a.headers) \in Nat
      BY AskedType, LenProperties DEF Headers
    <2>2. hits # {} /\ hits \subseteq Nat /\ hits \subseteq 1 .. Len(a.headers)
      BY <1>1, <2>1 DEF KeysAsked
    <2> HIDE DEF hits
    <2>3. Min(hits) \in 1 .. Len(a.headers)
      BY <2>2, MinIs
    <2>4. a.headers[Min(hits)][2] \in Texts
      BY <2>1, <2>3, HeaderType
    <2> QED BY <2>4 DEF ValueAsked, hits
  <1> HIDE DEF value
  <1>4. L \in Nat \ {0}
    <2>1. value # << >> /\ value \in Seq(Symbols)
      BY <1>1, <1>3 DEF Empty, Texts
    <2> QED BY <2>1, EmptySeq, LenProperties
  <1>5. ":" \in Symbols /\ 1 \in Nat \ {0}
    BY DEF Symbols
  <1>6. /\ \A p \in 1 .. L : value[p] = ":" /\ (\A r \in 1 .. p - 1 : value[r] # ":") => q = p
        /\ (\A r \in 1 .. L : value[r] # ":") => q = 0
    BY <1>3, <1>5, SymbolFound
  <1>7. e = 1 /\ 1 <= L
    <2>1. CASE L = 1
      <3>1. \A r \in 1 .. L : r = 1
        BY <2>1
      <3>2. q = 0
        BY <1>1, <1>6, <3>1
      <3> QED BY <2>1, <3>2 DEF NPos
    <2>2. CASE L # 1
      <3>1. L > 1 /\ 2 \in 1 .. L /\ \A r \in 1 .. 2 - 1 : r = 1
        <4>1. L \in Nat /\ L # 0 /\ L # 1
          BY <1>4, <2>2
        <4> HIDE DEF L
        <4> QED BY <4>1
      <3>2. q = 2
        BY <1>1, <1>6, <3>1
      <3> HIDE DEF L, q
      <3>3. 1 <= L
        BY <1>4, <3>1
      <3> QED BY <3>2, <3>3 DEF NPos
    <2> QED BY <2>1, <2>2
  <1>8. HostOf(lines) = SubSeq(value, 1, e)
    BY <1>2 DEF HostOf, Upto
  <1> HIDE DEF e, L
  <1>9. SubSeq(value, 1, 1) \in Texts /\ Len(SubSeq(value, 1, 1)) = 1 /\ SubSeq(value, 1, 1)[1] = value[1]
    BY <1>3, <1>7, FirstCut DEF L
  <1>10. SubSeq(value, 1, 1) = <<value[1]>>
    <2> DEFINE x == value[1]
               c == SubSeq(value, 1, 1)
    <2>1. x \in Symbols
      <3>1. 1 \in 1 .. Len(value)
        <4>1. 1 \in 1 .. L
          BY <1>4, <1>7
        <4> QED BY <4>1 DEF L
      <3> QED BY <1>3, <3>1, ElementOfSeq DEF Texts
    <2> HIDE DEF x, c
    <2>2. <<x>> \in Texts /\ Len(<<x>>) = 1 /\ <<x>>[1] = x
      BY <2>1, OneSymbol
    <2>3. c \in Texts /\ Len(c) = 1 /\ c[1] = x
      BY <1>9 DEF c, x
    <2>4. \A i \in 1 .. 1 : c[i] = <<x>>[i]
      BY <2>2, <2>3
    <2>5. c = <<x>>
      BY <2>2, <2>3, <2>4, SameText
    <2> QED BY <2>5 DEF c, x
  <1> QED BY <1>2, <1>7, <1>8, <1>10 DEF value

\* A sequence of one, cut to its first element.
LEMMA OneCut ==
  ASSUME NEW z
  PROVE  SubSeq(<<z>>, 1, 1) = <<z>> /\ Len(<<z>>) = 1
  <1> DEFINE s == <<z>>
             c == SubSeq(s, 1, 1)
  <1>1. s \in Seq({z}) /\ Len(s) = 1 /\ s[1] = z
    OBVIOUS
  <1> HIDE DEF s
  <1>2. /\ 1 \in 1 .. 1 /\ \A i \in 1 .. 1 : i = 1 /\ s[i] \in {z}
    BY <1>1
  <1>3. c \in Seq({z}) /\ Len(c) = 1 /\ \A i \in 1 .. 1 - 1 + 1 : c[i] = s[1 + i - 1]
    BY <1>1, <1>2, SubSeqProperties
  <1>4. c[1] = s[1]
    BY <1>3
  <1> HIDE DEF c
  <1>5. \A i \in 1 .. 1 : c[i] = s[i]
    BY <1>2, <1>4
  <1>6. c = s
    BY <1>1, <1>3, <1>5, SeqEqual
  <1> QED BY <1>1, <1>6 DEF c, s

\* A target ends in a slash if its last symbol is one.
LEMMA SlashLast ==
  ASSUME NEW target \in Texts, Len(target) \in Nat \ {0}
  PROVE  Last(target) = "/" <=> IsSuffix(<<"/">>, target)
  <1> DEFINE L == Len(target)
             s == <<"/">>
             x == Reverse(s)
             y == Reverse(target)
  <1>1. target \in Seq(Symbols) /\ L \in Nat \ {0}
    BY DEF Texts
  <1>2. x = <<"/">>
    <2>1. Len(s) = 1
      OBVIOUS
    <2>2. x = [i \in 1 .. 1 |-> s[(1 - i) + 1]]
      BY <2>1 DEF Reverse
    <2>3. \A i \in 1 .. 1 : (1 - i) + 1 = 1
      OBVIOUS
    <2>4. x = [i \in 1 .. 1 |-> "/"]
      BY <2>2, <2>3
    <2> QED BY <2>4
  <1>3. y \in Seq(Symbols) /\ Len(y) = L /\ y[1] = target[L]
    <2>1. y = [i \in 1 .. L |-> target[(L - i) + 1]]
      BY DEF Reverse
    <2>2. \A i \in 1 .. L : (L - i) + 1 \in 1 .. L
      <3> HIDE DEF L
      <3> QED BY <1>1
    <2>3. \A i \in 1 .. L : target[(L - i) + 1] \in Symbols
      BY <1>1, <2>2, ElementOfSeq
    <2>4. y \in [1 .. L -> Symbols]
      BY <2>1, <2>3
    <2>5. 1 \in 1 .. L /\ (L - 1) + 1 = L
      <3> HIDE DEF L
      <3> QED BY <1>1
    <2> HIDE DEF y, L
    <2>6. y \in Seq(Symbols) /\ Len(y) = L
      <3>1. L \in Nat
        BY <1>1
      <3>2. DOMAIN y = 1 .. L
        BY <2>4
      <3>3. y \in Seq(Symbols)
        BY <2>4, <3>1, SeqDef
      <3> QED BY <3>1, <3>2, <3>3, LenProperties
    <2> QED BY <2>1, <2>5, <2>6
  <1> HIDE DEF x, y
  <1>4. 1 <= L
    <2> HIDE DEF L
    <2> QED BY <1>1
  <1> DEFINE c == SubSeq(y, 1, 1)
  <1>5. c \in Texts /\ Len(c) = 1 /\ c[1] = y[1]
    BY <1>3, <1>4, FirstCut DEF Texts
  <1>6. SubSeq(x, 1, Len(x)) = <<"/">> /\ Len(x) = 1
    BY <1>2, OneCut
  <1>7. IsSuffix(<<"/">>, target) <=> c = <<"/">>
    BY <1>3, <1>4, <1>6 DEF IsSuffix, IsPrefix, x, y
  <1> HIDE DEF c
  <1>8. c = <<"/">> <=> c[1] = "/"
    <2>1. <<"/">>[1] = "/"
      OBVIOUS
    <2>2. ASSUME c[1] = "/" PROVE c = <<"/">>
      <3> DEFINE z == c[1]
      <3>1. z \in Symbols
        <4>1. 1 \in 1 .. Len(c) /\ c \in Seq(Symbols)
          BY <1>5 DEF Texts
        <4> QED BY <4>1, ElementOfSeq
      <3> HIDE DEF z
      <3>2. <<z>> \in Texts /\ Len(<<z>>) = 1 /\ <<z>>[1] = z
        BY <3>1, OneSymbol
      <3>3. \A i \in 1 .. 1 : c[i] = <<z>>[i]
        BY <3>2 DEF z
      <3>4. c = <<z>>
        BY <1>5, <3>2, <3>3, SameText
      <3> QED BY <2>2, <3>4 DEF z
    <2> QED BY <2>1, <2>2
  <1> QED BY <1>3, <1>5, <1>7, <1>8 DEF Last

\* What the file manager makes of it is what the configuration says of it.
LEMMA FileIs ==
  ASSUME NEW block \in Blocks, NEW target \in Texts, Len(target) \in Nat \ {0},
         Fitting(block, target) # {}
  PROVE  ResolveRequestTarget(block, target) = FileFor(block, PlaceFor(block, target), target)
  <1> DEFINE place == PlaceFor(block, target)
             found == ResolveLocation(block.places, target)
             path  == Tail(block.root) \o ResolveAlias(place, target)
             slash == Last(target) = "/"
  <1>1. found = <<place>> /\ place \in Locations
    BY PlaceFound
  <1>2. found # Empty /\ Head(found) = place /\ block.root # Empty
    <2>1. <<place>> # Empty /\ Head(<<place>>) = place
      BY EmptySeq DEF Empty
    <2>2. block.root # Empty
      BY DEF Blocks
    <2> QED BY <1>1, <2>1, <2>2
  <1>3. path = Tail(block.root) \o Aliased(place, target)
    BY DEF ResolveAlias, Aliased
  <1>4. slash <=> IsSuffix(<<"/">>, target)
    BY SlashLast
  <1>5. place.autoindex \in BOOLEAN
    BY <1>1 DEF Locations
  <1> HIDE DEF place, path, found
  <1>6. ResolveRequestTarget(block, target)
          = CASE place.redirect # Empty           -> Outcome("302", place.redirect)
              [] place.redirect = Empty /\ ~slash -> Outcome("file", path)
              [] place.redirect = Empty /\ slash  -> Directory(place, path)
    BY <1>2 DEF ResolveRequestTarget, found, path
  <1>7. FileFor(block, place, target)
          = CASE place.redirect # Empty -> Outcome("302", place.redirect)
              [] place.redirect = Empty /\ ~slash -> Outcome("file", path)
              [] place.redirect = Empty /\ slash /\ place.index # Empty -> Outcome("file", path \o place.index)
              [] OTHER -> IF place.autoindex THEN Outcome("listing", path) ELSE Outcome("401", Empty)
    BY <1>3, <1>4 DEF FileFor
  <1> HIDE DEF slash
  <1>8. CASE place.redirect # Empty
    BY <1>6, <1>7, <1>8 DEF place
  <1>9. CASE place.redirect = Empty /\ ~slash
    BY <1>6, <1>7, <1>9 DEF place
  <1>10. CASE place.redirect = Empty /\ slash
    <2>1. ResolveRequestTarget(block, target) = Directory(place, path)
      BY <1>6, <1>10
    <2>2. CASE place.index # Empty
      <3>1. Directory(place, path) = Outcome("file", path \o place.index)
        BY <2>2 DEF Directory
      <3>2. FileFor(block, place, target) = Outcome("file", path \o place.index)
        BY <1>7, <1>10, <2>2
      <3> QED BY <2>1, <3>1, <3>2 DEF place
    <2>3. CASE place.index = Empty
      <3>1. Directory(place, path) = IF place.autoindex THEN Outcome("listing", path) ELSE Outcome("401", Empty)
        BY <1>5, <2>3 DEF Directory
      <3>2. FileFor(block, place, target) = IF place.autoindex THEN Outcome("listing", path) ELSE Outcome("401", Empty)
        BY <1>7, <1>10, <2>3
      <3> QED BY <2>1, <3>1, <3>2 DEF place
    <2> QED BY <2>2, <2>3
  <1> QED BY <1>8, <1>9, <1>10

\* Each case of the answer the configuration has for a request.
LEMMA AnswerCases ==
  ASSUME NEW a, NEW block, block = BlockFor(a), NEW place, place = PlaceFor(block, a.target)
  PROVE  /\ a.method \notin Methods => AnswerFor(a) = Outcome("501", Empty)
         /\ a.method \in Methods /\ (block.limit = NoLimit \/ Fitting(block, a.target) = {}) =>
              AnswerFor(a) = Outcome("aborted", Empty)
         /\ a.method \in Methods /\ block.limit # NoLimit /\ Fitting(block, a.target) # {} =>
              /\ a.method \notin place.methods => AnswerFor(a) = Outcome("405", Empty)
              /\ a.method \in place.methods /\ Len(a.body) > block.limit =>
                   AnswerFor(a) = Outcome(IF place.cgi /\ a.method # "DELETE" THEN "killed" ELSE "413", Empty)
              /\ a.method \in place.methods /\ ~(Len(a.body) > block.limit) =>
                   AnswerFor(a) = IF place.cgi /\ a.method # "DELETE"
                                  THEN ParseURIForCGI(Aliased(place, a.target))
                                  ELSE FileFor(block, place, a.target)
  <1> DEFINE script == place.cgi /\ a.method # "DELETE"
             stop   == block.limit = NoLimit \/ Fitting(block, a.target) = {}
             large  == Len(a.body) > block.limit
             inner  == CASE a.method \notin place.methods -> Outcome("405", Empty)
                         [] a.method \in place.methods /\ large ->
                              Outcome(IF script THEN "killed" ELSE "413", Empty)
                         [] OTHER ->
                              IF script THEN ParseURIForCGI(Aliased(place, a.target))
                              ELSE FileFor(block, place, a.target)
  <1>1. AnswerFor(a) = CASE a.method \notin Methods -> Outcome("501", Empty)
                         [] a.method \in Methods /\ stop -> Outcome("aborted", Empty)
                         [] OTHER -> inner
    BY DEF AnswerFor
  <1>2. /\ a.method \notin place.methods => inner = Outcome("405", Empty)
        /\ a.method \in place.methods /\ large => inner = Outcome(IF script THEN "killed" ELSE "413", Empty)
        /\ a.method \in place.methods /\ ~large =>
             inner = IF script THEN ParseURIForCGI(Aliased(place, a.target))
                     ELSE FileFor(block, place, a.target)
    <2> HIDE DEF script, large
    <2> QED OBVIOUS
  <1> HIDE DEF inner, stop, large, script
  <1>3. /\ a.method \notin Methods => AnswerFor(a) = Outcome("501", Empty)
        /\ a.method \in Methods /\ stop => AnswerFor(a) = Outcome("aborted", Empty)
        /\ a.method \in Methods /\ ~stop => AnswerFor(a) = inner
    BY <1>1
  <1>4. stop <=> (block.limit = NoLimit \/ Fitting(block, a.target) = {})
    BY DEF stop
  <1>5. large <=> Len(a.body) > block.limit
    BY DEF large
  <1>6. Outcome(IF script THEN "killed" ELSE "413", Empty)
          = Outcome(IF place.cgi /\ a.method # "DELETE" THEN "killed" ELSE "413", Empty)
    BY DEF script
  <1>7. (IF script THEN ParseURIForCGI(Aliased(place, a.target)) ELSE FileFor(block, place, a.target))
          = IF place.cgi /\ a.method # "DELETE" THEN ParseURIForCGI(Aliased(place, a.target))
            ELSE FileFor(block, place, a.target)
    BY DEF script
  <1> QED BY <1>2, <1>3, <1>4, <1>5, <1>6, <1>7

\* A request that brings a body says so.
Announces(a) == a.body # Empty => "Content-Length" \in KeysAsked(a)

\* What is open is on its way to its answer, and what is not has it.
Decided(a) ==
  LET block == BlockFor(a)
      place == PlaceFor(block, a.target)
  IN  /\ outcome # Still => outcome = AnswerFor(a)
      /\ outcome = Still /\ req.method = Empty => ~cgi
      /\ outcome = Still /\ req.method # Empty =>
           /\ setting = [client |-> block, files |-> block] /\ limit = block.limit
           /\ limit # NoLimit /\ Fitting(block, a.target) # {} /\ cgi = place.cgi
           /\ a.method \in place.methods /\ Len(req.body) <= limit

\* A method of a request that was refused: what it was refused with.
LEMMA RefusedAs ==
  ASSUME NEW code, NEW isCgi, NEW a, Refused(code, isCgi, <<a.method>>)
  PROVE  outcome' = Outcome(IF isCgi /\ a.method # "DELETE" THEN "killed" ELSE code, Empty)
  <1>1. <<a.method>> # <<"DELETE">> <=> a.method # "DELETE"
    OBVIOUS
  <1>2. Ends(IF isCgi /\ <<a.method>> # <<"DELETE">> THEN "killed" ELSE code)
    BY DEF Refused
  <1>3. outcome' = Outcome(IF isCgi /\ <<a.method>> # <<"DELETE">> THEN "killed" ELSE code, Empty)
    BY <1>2 DEF Ends
  <1> QED BY <1>1, <1>3

\* The rest of the Receiving branch: the request is answered, or it goes on with its block
\* and its location.
LEMMA ResolvedDecides ==
  ASSUME Configured, InOrder(config), NEW a \in Asked, a.method \in Methods,
         cgi = FALSE, NEW r, NEW s,
         r.method = <<a.method>>, r.target = a.target, LinesGive(r.headers, a.headers),
         Len(r.body) \in Nat, Len(r.body) <= Len(a.body), Resolved(r, s),
         NEW block, block = BlockFor(a), NEW place, place = PlaceFor(block, a.target)
  PROVE  \/ outcome' = AnswerFor(a)
         \/ /\ outcome' = outcome
            /\ setting' = [client |-> block, files |-> block] /\ limit' = block.limit
            /\ limit' # NoLimit /\ Fitting(block, a.target) # {} /\ cgi' = place.cgi
            /\ a.method \in place.methods /\ Len(r.body) <= limit'
  <1> DEFINE max   == block.limit
             found == ResolveLocation(block.places, a.target)
  <1>1. Has(r.headers, <<"Host">>) /\ HostOf(r.headers) = <<ValueAsked(a, "Host")[1]>>
    BY HostIs
  <1>2. block = ResolveServerSetting(Group, HostOf(r.headers)) /\ block \in Blocks
    BY <1>1, BlockFound
  <1>3. /\ found = Empty <=> Fitting(block, a.target) = {}
        /\ found # Empty => Head(found) = place /\ place \in Locations
    <2>1. /\ found = Empty <=> Fitting(block, a.target) = {}
          /\ Fitting(block, a.target) # {} => found = <<place>> /\ place \in Locations
      BY <1>2, PlaceFound
    <2>2. Head(<<place>>) = place
      OBVIOUS
    <2> HIDE DEF found
    <2> QED BY <2>1, <2>2
  <1>4. max \in Nat \cup {NoLimit} /\ Len(a.body) \in Nat
    <2>1. Len(a.body) \in Nat
      BY AskedType
    <2> QED BY <1>2, <2>1 DEF Blocks
  <1>5. r.method[1] = a.method
    OBVIOUS
  <1>6. /\ setting' = [client |-> block, files |-> block] /\ limit' = max
        /\ \/ (max = NoLimit \/ found = Empty) /\ Ends("aborted")
           \/ /\ max # NoLimit /\ found # Empty /\ ~ResolveMethod(Head(found), a.method)
              /\ Refused("405", cgi, r.method)
           \/ /\ max # NoLimit /\ found # Empty /\ ResolveMethod(Head(found), a.method)
              /\ cgi' = (cgi \/ Head(found).cgi)
              /\ \/ TooLarge(r.body, max) /\ Refused("413", cgi', r.method)
                 \/ ~TooLarge(r.body, max) /\ outcome' = outcome
    <2> DEFINE hosted == Has(r.headers, <<"Host">>)
               b      == IF hosted THEN ResolveServerSetting(Group, HostOf(r.headers)) ELSE Head(Group)
               m      == IF hosted THEN b.limit ELSE 0
               f      == ResolveLocation(b.places, r.target)
               p      == Head(f)
    <2>1. /\ setting' = [client |-> b, files |-> IF hosted THEN b ELSE NoBlock]
          /\ limit' = m
          /\ \/ (m = NoLimit \/ f = Empty) /\ Ends("aborted")
             \/ /\ m # NoLimit /\ f # Empty /\ ~ResolveMethod(p, r.method[1])
                /\ Refused("405", cgi, r.method)
             \/ /\ m # NoLimit /\ f # Empty /\ ResolveMethod(p, r.method[1])
                /\ cgi' = (cgi \/ p.cgi)
                /\ \/ TooLarge(r.body, m) /\ Refused("413", cgi', r.method)
                   \/ ~TooLarge(r.body, m) /\ outcome' = outcome
      BY Zenon DEF Resolved, Returns
    <2>2. b = block
      BY <1>1, <1>2
    <2> HIDE DEF b
    <2>3. m = max /\ f = found /\ hosted
      BY <1>1, <2>2
    <2> HIDE DEF m, f, max, found
    <2> QED BY <1>5, <2>1, <2>2, <2>3, Zenon
  <1> HIDE DEF max, found
  <1>7. CASE (max = NoLimit \/ found = Empty) /\ Ends("aborted")
    <2>1. AnswerFor(a) = Outcome("aborted", Empty)
      BY <1>3, <1>7, AnswerCases DEF max
    <2> QED BY <1>7, <2>1 DEF Ends
  <1>8. CASE /\ max # NoLimit /\ found # Empty /\ ~ResolveMethod(Head(found), a.method)
             /\ Refused("405", cgi, r.method)
    <2>1. AnswerFor(a) = Outcome("405", Empty)
      <3>1. a.method \notin place.methods
        BY <1>3, <1>8 DEF ResolveMethod
      <3> QED BY <1>3, <1>8, <3>1, AnswerCases DEF max
    <2>2. outcome' = Outcome(IF FALSE /\ a.method # "DELETE" THEN "killed" ELSE "405", Empty)
      <3>1. Refused("405", FALSE, <<a.method>>)
        BY <1>8
      <3> QED BY <3>1, RefusedAs
    <2> QED BY <2>1, <2>2
  <1>9. CASE /\ max # NoLimit /\ found # Empty /\ ResolveMethod(Head(found), a.method)
             /\ cgi' = (cgi \/ Head(found).cgi)
             /\ \/ TooLarge(r.body, max) /\ Refused("413", cgi', r.method)
                \/ ~TooLarge(r.body, max) /\ outcome' = outcome
    <2>1. Head(found) = place /\ place.cgi \in BOOLEAN /\ Fitting(block, a.target) # {} /\ a.method \in place.methods
      BY <1>3, <1>9 DEF Locations, ResolveMethod
    <2>2. cgi' = place.cgi
      BY <1>9, <2>1
    <2> DEFINE b == Len(r.body)
               A == Len(a.body)
    <2>3. max \in Nat /\ b \in Nat /\ A \in Nat /\ b <= A
      BY <1>4, <1>9
    <2>4. TooLarge(r.body, max) <=> b > max
      BY DEF TooLarge
    <2> HIDE DEF b, A
    <2>5. CASE TooLarge(r.body, max) /\ Refused("413", cgi', r.method)
      <3>1. A > max
        <4>1. b > max
          BY <2>4, <2>5
        <4> QED BY <2>3, <4>1
      <3>2. AnswerFor(a) = Outcome(IF place.cgi /\ a.method # "DELETE" THEN "killed" ELSE "413", Empty)
        BY <1>9, <2>1, <3>1, AnswerCases DEF max, A
      <3>3. PICK c : c = cgi'
        OBVIOUS
      <3>4. Refused("413", c, <<a.method>>)
        BY <2>5, <3>3
      <3>5. outcome' = Outcome(IF c /\ a.method # "DELETE" THEN "killed" ELSE "413", Empty)
        BY <3>4, RefusedAs
      <3> QED BY <2>2, <3>2, <3>3, <3>5
    <2>6. CASE ~TooLarge(r.body, max) /\ outcome' = outcome
      <3>1. b <= max
        <4>1. ~(b > max)
          BY <2>4, <2>6
        <4> QED BY <2>3, <4>1
      <3> QED BY <1>6, <1>9, <2>1, <2>2, <2>6, <3>1 DEF max, b
    <2> QED BY <1>9, <2>5, <2>6
  <1> QED BY <1>6, <1>7, <1>8, <1>9

\* Every request has an answer.
LEMMA AnAnswer ==
  ASSUME NEW a
  PROVE  AnswerFor(a) # Still
  <1> DEFINE block == BlockFor(a)
             place == PlaceFor(block, a.target)
             file  == FileFor(block, place, a.target)
             call  == ParseURIForCGI(Aliased(place, a.target))
  <1>1. \A path : /\ Outcome("501", path) # Still /\ Outcome("aborted", path) # Still
                  /\ Outcome("405", path) # Still /\ Outcome("killed", path) # Still
                  /\ Outcome("413", path) # Still /\ Outcome("302", path) # Still
                  /\ Outcome("401", path) # Still /\ Outcome("file", path) # Still
                  /\ Outcome("listing", path) # Still /\ Outcome("script", path) # Still
                  /\ Outcome("no script", path) # Still
    BY DEF Outcome, Still
  <1>2. file # Still
    <2> HIDE DEF block, place
    <2> QED BY <1>1, Zenon DEF FileFor
  <1>3. call # Still
    <2> HIDE DEF block, place
    <2> QED BY <1>1, Zenon DEF ParseURIForCGI
  <1> DEFINE open  == block.limit # NoLimit /\ Fitting(block, a.target) # {}
             large == Len(a.body) > block.limit
             known == a.method \in place.methods
             calls == place.cgi /\ a.method # "DELETE"
             last  == IF calls THEN call ELSE file
  <1>4. /\ a.method \notin Methods => AnswerFor(a) = Outcome("501", Empty)
        /\ a.method \in Methods /\ ~open => AnswerFor(a) = Outcome("aborted", Empty)
        /\ a.method \in Methods /\ open /\ ~known => AnswerFor(a) = Outcome("405", Empty)
        /\ a.method \in Methods /\ open /\ known /\ large =>
             AnswerFor(a) = Outcome(IF calls THEN "killed" ELSE "413", Empty)
        /\ a.method \in Methods /\ open /\ known /\ ~large => AnswerFor(a) = last
    BY AnswerCases
  <1>5. last # Still
    <2> HIDE DEF file, call
    <2> QED BY <1>2, <1>3
  <1> HIDE DEF open, large, known, calls, last
  <1>6. Outcome(IF calls THEN "killed" ELSE "413", Empty) # Still
    BY <1>1
  <1> QED BY <1>1, <1>4, <1>5, <1>6

\* A request that has its answer is decided.
LEMMA HasItsAnswer ==
  ASSUME NEW a, config' = config, listen' = listen, outcome' = AnswerFor(a)
  PROVE  Decided(a)'
  <1>1. AnswerFor(a)' = AnswerFor(a)
    BY DEF AnswerFor, BlockFor
  <1>2. outcome' # Still
    BY AnAnswer
  <1> QED BY <1>1, <1>2 DEF Decided

\* A read of a request that is not understood yet decides it, or decides nothing.
LEMMA WaitingDecides ==
  ASSUME Kept, InOrder(config), NEW a \in Asked, text = Rendered(a), Waiting(a), Decided(a),
         outcome = Still,
         NEW n \in 1 .. BufferSize, read + n <= Len(text), read' = read + n,
         config' = config, listen' = listen,
         ReadHeader(SubSeq(text, read + 1, read + n))
  PROVE  Decided(a)'
  <1> DEFINE N     == read + n
             got   == SubSeq(text, 1, N)
             start == StartLine(got)
             head  == HeaderLines(got, start.next)
             known == start.method \in {<<m>> : m \in Methods}
  <1>1. text \in Texts /\ read \in 0 .. Len(text) /\ n \in Nat /\ Len(text) \in Nat
    BY TextLength, BufferAssumption DEF Kept
  <1>2. http \o SubSeq(text, read + 1, read + n) = got
    <2>1. 1 \in 1 .. read + 1
      BY <1>1
    <2>2. http = SubSeq(text, 1, read)
      BY DEF Waiting
    <2> QED BY <1>1, <2>1, <2>2, CutOn
  <1>3. N \in 0 .. Len(Rendered(a))
    BY NextPiece
  <1>4. /\ HeaderIsIn(got) <=> HeaderLength(a) <= N
        /\ HeaderLength(a) <= N => Parsed(got, a)
    BY <1>3, HeaderCut
  <1>5. \/ Returns("Receiving", "Receiving") /\ req' = req /\ cgi' = cgi
        \/ /\ HeaderIsIn(got) /\ ~known /\ Refused("501", FALSE, start.method)
        \/ /\ HeaderIsIn(got) /\ head.over = 0
        \/ /\ HeaderIsIn(got) /\ known /\ Understood(got, start, head.lines, head.over)
    BY <1>2, Zenon DEF ReadHeader
  <1> HIDE DEF got
  <1>6. req = Blank /\ req.method = Empty /\ cgi = FALSE
    <2>1. req = Blank /\ cgi \in BOOLEAN
      BY DEF Waiting, Kept
    <2>2. req.method = Empty
      BY <2>1 DEF Blank
    <2> QED BY <2>1, <2>2 DEF Decided
  <1>7. ASSUME HeaderIsIn(got)
        PROVE  /\ HeaderLength(a) <= N /\ Parsed(got, a)
               /\ known <=> a.method \in Methods
    <2>1. HeaderLength(a) <= N /\ Parsed(got, a)
      BY <1>4, <1>7
    <2>2. start.method = <<a.method>>
      BY <2>1 DEF Parsed
    <2>3. \A m : <<a.method>> = <<m>> => a.method = m
      <3> TAKE m
      <3>1. <<a.method>>[1] = a.method /\ <<m>>[1] = m
        OBVIOUS
      <3> QED BY <3>1
    <2> HIDE DEF start
    <2> QED BY <2>1, <2>2, <2>3
  <1>8. CASE Returns("Receiving", "Receiving") /\ req' = req /\ cgi' = cgi
    <2>1. outcome' = Still /\ req'.method = Empty /\ ~cgi'
      BY <1>6, <1>8 DEF Returns
    <2> QED BY <2>1 DEF Decided
  <1>9. CASE HeaderIsIn(got) /\ ~known /\ Refused("501", FALSE, start.method)
    <2>1. start.method = <<a.method>> /\ a.method \notin Methods
      BY <1>7, <1>9 DEF Parsed
    <2> HIDE DEF start, known
    <2>2. Refused("501", FALSE, <<a.method>>)
      BY <1>9, <2>1
    <2>3. outcome' = Outcome(IF FALSE /\ a.method # "DELETE" THEN "killed" ELSE "501", Empty)
      BY <2>2, RefusedAs
    <2>4. AnswerFor(a) = Outcome("501", Empty)
      BY <2>1, AnswerCases
    <2> QED BY <2>3, <2>4, HasItsAnswer
  <1>10. CASE HeaderIsIn(got) /\ head.over = 0
    <2>1. head.over > 2
      BY <1>7, <1>10 DEF Parsed
    <2> HIDE DEF head
    <2> QED BY <1>10, <2>1
  <1>11. CASE HeaderIsIn(got) /\ known /\ Understood(got, start, head.lines, head.over)
    <2>1. HeaderLength(a) <= N /\ Parsed(got, a) /\ a.method \in Methods
      BY <1>7, <1>11
    <2>2. PICK body, r :
            /\ body = IF Announced(a) = 0 THEN Empty ELSE SubSeq(Rendered(a), HeaderLength(a) + 1, N)
            /\ r = [method |-> <<a.method>>, target |-> a.target, headers |-> head.lines,
                    body |-> body, length |-> Announced(a)]
            /\ req' = r /\ LinesGive(head.lines, a.headers)
            /\ Resolved(r, IF Len(body) = Announced(a) THEN "Loading" ELSE "Receiving")
      <3>1. got = SubSeq(Rendered(a), 1, N)
        BY DEF got
      <3> HIDE DEF N
      <3> QED BY <1>3, <1>11, <2>1, <3>1, RequestUnderstood
    <2> HIDE DEF N
    <2>3. Len(body) \in Nat /\ Len(body) <= Announced(a)
      BY <1>3, <2>1, <2>2, BodyLength
    <2>4. Len(body) <= Len(a.body)
      <3> DEFINE b == Len(body)
                 A == Announced(a)
                 L == Len(a.body)
      <3>1. L \in Nat
        BY AskedType
      <3>2. b \in Nat /\ A \in Nat /\ b <= A /\ (A # 0 => A = L) /\ L \in Nat
        BY <2>3, <3>1, AnnouncedIs
      <3> HIDE DEF b, A, L
      <3>3. b <= L
        BY <3>2
      <3> QED BY <3>3 DEF b, L
    <2> DEFINE s     == IF Len(body) = Announced(a) THEN "Loading" ELSE "Receiving"
               block == BlockFor(a)
               place == PlaceFor(block, a.target)
    <2>5. Resolved(r, s)
      BY <2>2
    <2>6. Configured
      BY DEF Kept
    <2>7. r.method = <<a.method>> /\ r.target = a.target /\ LinesGive(r.headers, a.headers) /\ r.body = body
      BY <2>2
    <2>8. Len(r.body) \in Nat /\ Len(r.body) <= Len(a.body)
      BY <2>3, <2>4, <2>7
    <2> HIDE DEF s, block, place
    <2>9. block = BlockFor(a) /\ place = PlaceFor(block, a.target)
      BY DEF block, place
    <2>10. \/ outcome' = AnswerFor(a)
           \/ /\ outcome' = outcome
              /\ setting' = [client |-> block, files |-> block] /\ limit' = block.limit
              /\ limit' # NoLimit /\ Fitting(block, a.target) # {} /\ cgi' = place.cgi
              /\ a.method \in place.methods /\ Len(r.body) <= limit'
      BY <1>6, <2>1, <2>5, <2>6, <2>7, <2>8, <2>9, ResolvedDecides
    <2>11. CASE outcome' = AnswerFor(a)
      BY <2>11, HasItsAnswer
    <2>12. CASE /\ outcome' = outcome
                /\ setting' = [client |-> block, files |-> block] /\ limit' = block.limit
                /\ limit' # NoLimit /\ Fitting(block, a.target) # {} /\ cgi' = place.cgi
                /\ a.method \in place.methods /\ Len(r.body) <= limit'
      <3>1. BlockFor(a)' = block
        BY <2>9 DEF BlockFor
      <3>2. req'.body = r.body /\ req'.method # Empty /\ outcome' = Still
        <4>1. <<a.method>> # Empty
          BY EmptySeq DEF Empty
        <4> QED BY <2>2, <2>7, <2>12, <4>1
      <3> QED BY <2>9, <2>12, <3>1, <3>2 DEF Decided
    <2> QED BY <2>10, <2>11, <2>12
  <1> QED BY <1>5, <1>8, <1>9, <1>10, <1>11

\* A read of the body goes on, or is too large for the block.
LEMMA KnowingDecides ==
  ASSUME Kept, NEW a \in Asked, text = Rendered(a), Knowing(a), Decided(a), Announces(a),
         outcome = Still, state = "Receiving",
         NEW n \in 1 .. BufferSize, read + n <= Len(text), read' = read + n,
         config' = config, listen' = listen,
         ReadHeader(SubSeq(text, read + 1, read + n)) \/ ReadBody(SubSeq(text, read + 1, read + n))
  PROVE  Decided(a)'
  <1> DEFINE N     == read + n
             h     == HeaderLength(a)
             piece == SubSeq(text, read + 1, N)
             body  == req.body \o piece
             turn  == IF Enough(body, req.length) THEN "Loading" ELSE "Receiving"
             block == BlockFor(a)
             place == PlaceFor(block, a.target)
             L     == Len(text)
  <1>1. text \in Texts /\ read \in 0 .. L /\ n \in Nat /\ L \in Nat /\ h \in Nat /\ N \in 0 .. L
    BY TextLength, BufferAssumption, SentType, NextPiece DEF Kept
  <1>2. /\ req.length = Announced(a) /\ Announced(a) # 0 /\ h <= read
        /\ req.body = SubSeq(text, h + 1, read) /\ req.method = <<a.method>> /\ a.method \in Methods
    BY Zenon DEF Knowing
  <1>3. ReadBody(piece)
    BY <1>2 DEF ReadHeader
  <1>4. h + 1 \in 1 .. read + 1 /\ h <= N
    <2>1. read \in 0 .. L /\ n \in Nat /\ L \in Nat /\ h \in Nat /\ h <= read
      BY <1>1, <1>2
    <2> HIDE DEF h, L
    <2> QED BY <2>1
  <1>5. body = SubSeq(text, h + 1, N)
    <2> DEFINE p == h + 1
    <2>1. p \in 1 .. read + 1
      BY <1>4
    <2> HIDE DEF p
    <2>2. SubSeq(text, p, read) \o SubSeq(text, read + 1, read + n) = SubSeq(text, p, read + n)
      BY <1>1, <2>1, CutOn
    <2> QED BY <1>2, <2>2 DEF p
  <1>6. /\ req' = [req EXCEPT !.body = body] /\ setting' = setting /\ limit' = limit /\ cgi' = cgi
        /\ \/ TooLarge(body, limit) /\ Refused("413", cgi, req.method)
           \/ ~TooLarge(body, limit) /\ Returns(turn, turn)
    BY <1>3, Zenon DEF ReadBody
  <1>7. req \in Requests /\ limit \in Nat \cup {NoLimit} /\ cgi \in BOOLEAN
    BY DEF Kept
  <1> HIDE DEF N, body, turn
  <1>8. req'.method = req.method /\ req'.body = body
    BY <1>6, <1>7 DEF Requests
  <1>9. Len(body) \in Nat /\ Len(body) <= Len(a.body)
    <2>1. body = IF Announced(a) = 0 THEN Empty ELSE SubSeq(Rendered(a), HeaderLength(a) + 1, N)
      BY <1>2, <1>5
    <2>2. N \in 0 .. Len(Rendered(a)) /\ HeaderLength(a) <= N
      BY <1>1, <1>4
    <2>3. Len(body) \in Nat /\ Len(body) <= Announced(a)
      BY <2>1, <2>2, BodyLength
    <2> QED BY <1>2, <2>3, AnnouncedIs
  <1>10. req.method # Empty
    <2>1. <<a.method>> # Empty
      BY EmptySeq DEF Empty
    <2> QED BY <1>2, <2>1
  <1>11. /\ setting = [client |-> block, files |-> block] /\ limit = block.limit
         /\ limit # NoLimit /\ Fitting(block, a.target) # {} /\ cgi = place.cgi
         /\ a.method \in place.methods
    BY <1>10 DEF Decided
  <1>12. limit \in Nat /\ (TooLarge(body, limit) <=> Len(body) > limit)
    BY <1>7, <1>11 DEF TooLarge
  <1>13. CASE TooLarge(body, limit) /\ Refused("413", cgi, req.method)
    <2>1. outcome' = Outcome(IF cgi /\ a.method # "DELETE" THEN "killed" ELSE "413", Empty)
      BY <1>2, <1>13, RefusedAs
    <2>2. Len(a.body) > limit
      <3> DEFINE b == Len(body)
                 A == Len(a.body)
      <3>1. b > limit /\ b <= A /\ b \in Nat /\ A \in Nat /\ limit \in Nat
        BY <1>9, <1>12, <1>13, AskedType
      <3> HIDE DEF b, A
      <3>2. A > limit
        BY <3>1
      <3> QED BY <3>2 DEF A
    <2>3. AnswerFor(a) = Outcome(IF place.cgi /\ a.method # "DELETE" THEN "killed" ELSE "413", Empty)
      BY <1>2, <1>11, <2>2, AnswerCases
    <2> QED BY <1>11, <2>1, <2>3, HasItsAnswer
  <1>14. CASE ~TooLarge(body, limit) /\ Returns(turn, turn)
    <2>1. outcome' = Still
      BY <1>14 DEF Returns
    <2>2. Len(body) <= limit
      <3> DEFINE b == Len(body)
      <3>1. ~(b > limit) /\ b \in Nat /\ limit \in Nat
        BY <1>9, <1>12, <1>14
      <3> HIDE DEF b
      <3>2. b <= limit
        BY <3>1
      <3> QED BY <3>2 DEF b
    <2>3. BlockFor(a)' = block
      BY DEF BlockFor
    <2> HIDE DEF block
    <2>4. req'.method # Empty /\ Len(req'.body) <= limit'
      BY <1>6, <1>8, <1>10, <2>2
    <2> QED BY <1>6, <1>11, <2>1, <2>3, <2>4 DEF Decided
  <1> QED BY <1>6, <1>13, <1>14

\* The script or the file that is loaded is the one the configuration has.
LEMMA LoadDecides ==
  ASSUME Kept, InOrder(config), NEW a \in Asked, Meant(a), Knowing(a), Decided(a), Announces(a), Load
  PROVE  Decided(a)'
  <1> DEFINE block == BlockFor(a)
             place == PlaceFor(block, a.target)
             b     == Len(a.body)
  <1>1. outcome = Still /\ state = "Loading" /\ config' = config /\ listen' = listen
    BY DEF Load, connection
  <1>2. req.method = <<a.method>> /\ req.method # Empty /\ a.method \in Methods /\ req.target = a.target
    <2>1. <<a.method>> # Empty
      BY EmptySeq DEF Empty
    <2> QED BY <2>1 DEF Knowing
  <1>3. /\ setting = [client |-> block, files |-> block] /\ limit = block.limit
        /\ limit # NoLimit /\ Fitting(block, a.target) # {} /\ cgi = place.cgi
        /\ a.method \in place.methods /\ Len(req.body) <= limit
    BY <1>1, <1>2 DEF Decided
  <1>4. Configured
    BY DEF Kept
  <1>5. block \in Blocks
    BY <1>4, BlockFound
  <1>6. a.target \in Texts /\ Len(a.target) \in Nat \ {0} /\ a.body \in Texts
    <2>1. a.target \in Seq(Symbols) /\ a.target # << >>
      BY AskedType DEF Texts, Empty
    <2> QED BY <2>1, AskedType, EmptySeq, LenProperties DEF Texts
  <1>7. b = Announced(a)
    <2>1. CASE "Content-Length" \in KeysAsked(a)
      BY <2>1 DEF Announced
    <2>2. CASE "Content-Length" \notin KeysAsked(a)
      <3>1. a.body = Empty
        BY <2>2 DEF Announces
      <3> QED BY <2>2, <3>1, EmptyText DEF Announced
    <2> QED BY <2>1, <2>2
  <1>8. ~(b > block.limit)
    <2>1. Len(req.body) = b
      BY <1>1, <1>7, BodyComplete
    <2>2. b <= limit /\ b \in Nat /\ limit \in Nat \cup {NoLimit} /\ limit # NoLimit
      BY <1>3, <1>6, <2>1, TextLength DEF Kept
    <2> DEFINE l == limit
    <2>3. b <= l /\ b \in Nat /\ l \in Nat
      BY <2>2
    <2> HIDE DEF b, l
    <2>4. ~(b > l)
      BY <2>3
    <2> QED BY <1>3, <2>4 DEF l
  <1>9. AnswerFor(a) = IF place.cgi /\ a.method # "DELETE"
                       THEN ParseURIForCGI(Aliased(place, a.target))
                       ELSE FileFor(block, place, a.target)
    BY <1>2, <1>3, <1>8, AnswerCases
  <1>10. ResolveRequestTarget(block, a.target) = FileFor(block, place, a.target)
    BY <1>3, <1>5, <1>6, FileIs
  <1>11. ParseURIForCGI(ResolveAlias(Head(ResolveLocation(block.places, a.target)), a.target))
           = ParseURIForCGI(Aliased(place, a.target))
    <2>1. ResolveLocation(block.places, a.target) = <<place>>
      BY <1>3, <1>5, PlaceFound
    <2>2. Head(<<place>>) = place
      OBVIOUS
    <2> HIDE DEF place
    <2>3. ResolveAlias(place, a.target) = Aliased(place, a.target)
      BY DEF ResolveAlias, Aliased
    <2> QED BY <2>1, <2>2, <2>3
  <1>12. outcome' = IF cgi /\ req.method # <<"DELETE">>
                    THEN ParseURIForCGI(ResolveAlias(Head(ResolveLocation(setting.client.places, req.target)),
                                                     req.target))
                    ELSE ResolveRequestTarget(setting.files, req.target)
    BY Zenon DEF Load
  <1>13. setting.client = block /\ setting.files = block
    <2> HIDE DEF block
    <2> QED BY <1>3
  <1>14. cgi = place.cgi
    BY <1>3
  <1>15. <<a.method>> # <<"DELETE">> <=> a.method # "DELETE"
    OBVIOUS
  <1> HIDE DEF block, place
  <1>16. outcome' = AnswerFor(a)
    BY <1>2, <1>9, <1>10, <1>11, <1>12, <1>13, <1>14, <1>15
  <1> QED BY <1>1, <1>16, HasItsAnswer

\* What the peer means is decided as far as it has been understood.
Decides == \A a \in Asked : asked = <<a>> => Decided(a)

\* No read, and no other step, decides a request in another way.
LEMMA DecidesNext ==
  ASSUME \A blocks \in Configs : InOrder(blocks), \A a \in Asked : Announces(a),
         Kept, Understands, Decides, [Next]_vars
  PROVE  Decides'
  <1> SUFFICES ASSUME NEW a \in Asked, asked' = <<a>> PROVE Decided(a)'
    BY DEF Decides
  <1>1. UNCHANGED <<config, listen, asked, text>>
    BY DEF Next, Receive, BadRequest, Load, vars, connection
  <1>2. asked = <<a>> /\ Decided(a) /\ Announces(a) /\ InOrder(config)
    BY <1>1 DEF Decides, Kept, Configured
  <1>3. Meant(a)
    <2>1. asked # Empty
      BY <1>2, EmptySeq DEF Empty
    <2>2. PICK c \in Asked : Meant(c)
      BY <2>1 DEF Understands
    <2>3. asked = <<c>>
      BY <2>2 DEF Meant
    <2>4. <<a>>[1] = a /\ <<c>>[1] = c
      OBVIOUS
    <2>5. a = c
      BY <1>2, <2>3, <2>4
    <2> QED BY <2>2, <2>5
  <1>4. text = Rendered(a) /\ (Waiting(a) \/ Knowing(a))
    BY <1>3 DEF Meant
  <1>5. CASE Receive
    <2>1. PICK n \in 1 .. BufferSize :
            /\ read + n <= Len(text) /\ read' = read + n
            /\ \/ ReadHeader(SubSeq(text, read + 1, read + n))
               \/ ReadBody(SubSeq(text, read + 1, read + n))
      BY <1>5, Zenon DEF Receive
    <2>2. outcome = Still /\ state = "Receiving"
      BY <1>5 DEF Receive
    <2>3. CASE Waiting(a)
      <3>1. req.length = 0
        BY <2>3 DEF Waiting, Blank
      <3>2. ReadHeader(SubSeq(text, read + 1, read + n))
        BY <2>1, <3>1 DEF ReadBody
      <3> QED BY <1>1, <1>2, <1>4, <2>1, <2>2, <2>3, <3>2, WaitingDecides
    <2>4. CASE Knowing(a)
      BY <1>1, <1>2, <1>4, <2>1, <2>2, <2>4, KnowingDecides
    <2> QED BY <1>4, <2>3, <2>4
  <1>6. CASE BadRequest
    <2>1. outcome = Still /\ mask = "Loading" /\ state = "Receiving"
      BY <1>6 DEF BadRequest
    <2> QED BY <1>4, <2>1 DEF Waiting, Knowing
  <1>7. CASE Load
    <2>1. state = "Loading"
      BY <1>7 DEF Load
    <2>2. Knowing(a)
      BY <1>4, <2>1 DEF Waiting
    <2> QED BY <1>2, <1>3, <1>7, <2>2, LoadDecides
  <1>8. CASE UNCHANGED vars
    <2>1. UNCHANGED <<config, listen, req, setting, limit, cgi, outcome>>
      BY <1>8 DEF vars, connection
    <2>2. BlockFor(a)' = BlockFor(a) /\ AnswerFor(a)' = AnswerFor(a)
      BY <2>1 DEF BlockFor, AnswerFor
    <2> QED BY <1>2, <2>1, <2>2 DEF Decided
  <1> QED BY <1>5, <1>6, <1>7, <1>8 DEF Next

\* However the reads cut a request, its answer is the one the configuration has for it, in
\* every configuration that names its addresses in order and for every request that
\* announces its body.
THEOREM Answered ==
  ASSUME \A blocks \in Configs : InOrder(blocks), \A a \in Asked : Announces(a)
  PROVE  Spec => []RightAnswer
  <1>1. Init => Decides
    BY DEF Init, Decides, Decided, Still
  <1>2. Kept /\ Understands /\ Decides /\ [Next]_vars => Decides'
    BY DecidesNext
  <1>3. Kept /\ Understands /\ Decides => RightAnswer
    <2> SUFFICES ASSUME Kept, Understands, Decides, NEW a \in Range(asked), outcome # Still
                 PROVE  outcome = AnswerFor(a)
      BY DEF RightAnswer
    <2>1. a \in Asked /\ Meant(a)
      BY OneAsked
    <2>2. Decided(a)
      BY <2>1 DEF Decides, Meant
    <2> QED BY <2>2 DEF Decided
  <1> QED BY <1>1, <1>2, <1>3, Meanings, PTL DEF Spec
=============================================================================
