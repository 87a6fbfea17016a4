------------------------- MODULE ConfigReaderProofs -------------------------
(***************************************************************************)
(* What the syntax check is given are the tokens of the file, it decides   *)
(* the language, and the constructors of the settings follow it:           *)
(* TokensRight, SyntaxDecides and SettingsFollow of ConfigReader, for any  *)
(* configuration file.                                                     *)
(***************************************************************************)
EXTENDS ConfigReader, SequenceTheorems, FiniteSetTheorems, WellFoundedInduction, TLAPS

\* Files, chunks and token lists.
Texts == Seq(STRING)

\* The three marks of Token.hpp differ, and no keyword is one of them.
LEMMA MarksDiffer ==
  /\ OPEN_BRACKET # CLOSE_BRACKET /\ OPEN_BRACKET # SEMICOLON /\ CLOSE_BRACKET # SEMICOLON
  /\ "location" \notin Marks /\ "server" \notin Marks
  BY Zenon DEF OPEN_BRACKET, CLOSE_BRACKET, SEMICOLON, Marks

\* identifyToken: what is no word is one of the three marks.
LEMMA MarksAre ==
  ASSUME NEW token
  PROVE  ~Word(token) <=> token = OPEN_BRACKET \/ token = CLOSE_BRACKET \/ token = SEMICOLON
  BY DEF Word, Marks

-----------------------------------------------------------------------------
(* Least and greatest numbers. *)

\* Induction over the numbers in the form that needs no predicate: a set of them
\* has a least one.
LEMMA LeastNumber ==
  ASSUME NEW T, T \subseteq Nat, T # {}
  PROVE  \E n \in T : \A m \in T : n <= m
  <1> DEFINE less == {pair \in Nat \X Nat : pair[1] < pair[2]}
  <1>1. OpToRel(<, Nat) = less
    BY Zenon DEF OpToRel
  <1>2. \E n \in T : \A m \in T : ~(<<m, n>> \in OpToRel(<, Nat))
    BY NatLessThanWellFounded, WFMin
  <1> HIDE DEF less
  <1>3. PICK n \in T : \A m \in T : ~(<<m, n>> \in less)
    BY <1>1, <1>2, Zenon
  <1>4. ASSUME NEW m \in T PROVE n <= m
    <2>1. m \in Nat /\ n \in Nat
      OBVIOUS
    <2>2. ~(<<m, n>> \in less)
      BY <1>3
    <2>3. ~(m < n)
      BY <2>1, <2>2 DEF less
    <2> QED BY <2>1, <2>3
  <1> QED BY <1>4

\* Least of a set of numbers is in it, and nothing in it is less.
LEMMA LeastIs ==
  ASSUME NEW T, T \subseteq Nat, T # {}
  PROVE  Least(T) \in T /\ \A n \in T : Least(T) <= n
  BY LeastNumber, Zenon DEF Least

\* Greatest of a bounded set of numbers is in it, and nothing in it is greater.
LEMMA GreatestIs ==
  ASSUME NEW b \in Nat, NEW T, T \subseteq 0 .. b, T # {}
  PROVE  Greatest(T) \in T /\ \A n \in T : Greatest(T) >= n
  <1> DEFINE below == {m \in 0 .. b : b - m \in T}
  <1>1. below # {} /\ below \subseteq Nat
    <2>1. PICK n \in T : TRUE
      OBVIOUS
    <2>2. b - n \in 0 .. b /\ b - (b - n) = n
      BY <2>1
    <2>3. b - n \in below
      BY <2>2
    <2>4. below \subseteq Nat
      OBVIOUS
    <2> HIDE DEF below
    <2> QED BY <2>3, <2>4
  <1>2. PICK m \in below : \A k \in below : m <= k
    BY <1>1, LeastNumber
  <1>3. b - m \in T /\ \A n \in T : b - m >= n
    <2>1. ASSUME NEW n \in T PROVE b - m >= n
      <3>1. n \in 0 .. b /\ b - n \in 0 .. b /\ b - (b - n) = n
        OBVIOUS
      <3>2. b - n \in below
        BY <3>1
      <3>3. m <= b - n
        BY <1>2, <3>2
      <3> QED BY <1>2, <3>1, <3>3
    <2> QED BY <1>2, <2>1
  <1> HIDE DEF below
  <1>4. \E n \in T : \A k \in T : n >= k
    BY <1>3
  <1> QED BY <1>4, Zenon DEF Greatest

-----------------------------------------------------------------------------
(* The token list is a list of tokens. *)

\* Where the token that begins at p ends, and the token.
Behind(chunk, p) ==
  IF ~Word(chunk[p]) THEN p + 1
  ELSE Least({r \in p .. Len(chunk) : ~Word(chunk[r])} \cup {Len(chunk) + 1})

TokenAt(chunk, p) == Spelled(SubSeq(chunk, p, Behind(chunk, p) - 1))

\* What splitString makes of the chunk from p on, if f says what it makes of the rest.
SplitFrom(chunk, f, p) ==
  IF p > Len(chunk) THEN <<>> ELSE <<TokenAt(chunk, p)>> \o f[Behind(chunk, p)]

\* One turn of splitString takes at least one symbol and makes one token.
LEMMA TokenType ==
  ASSUME NEW chunk \in Texts, NEW p \in 1 .. Len(chunk)
  PROVE  Behind(chunk, p) \in p + 1 .. Len(chunk) + 1 /\ TokenAt(chunk, p) \in STRING
  <1> DEFINE T == {r \in p .. Len(chunk) : ~Word(chunk[r])} \cup {Len(chunk) + 1}
             q == Behind(chunk, p)
  <1>1. Len(chunk) \in Nat /\ p \in Nat
    BY LenProperties DEF Texts
  <1>2. T \subseteq Nat /\ T # {}
    BY <1>1
  <1>3. q \in p + 1 .. Len(chunk) + 1
    <2>1. CASE ~Word(chunk[p])
      BY <1>1, <2>1 DEF Behind
    <2>2. CASE Word(chunk[p])
      <3>1. Least(T) \in T
        <4> HIDE DEF T
        <4> QED BY <1>2, LeastIs
      <3>2. q = Least(T)
        BY <2>2 DEF Behind
      <3>3. p \notin T
        BY <1>1, <2>2
      <3> HIDE DEF q
      <3>4. q \in p .. Len(chunk) + 1 /\ q # p
        BY <1>1, <3>1, <3>2, <3>3
      <3> QED BY <1>1, <3>4
    <2> QED BY <2>1, <2>2
  <1> DEFINE pieces == SubSeq(chunk, p, q - 1)
  <1>4. pieces \in Texts
    <2> HIDE DEF q
    <2>1. \A k \in p .. q - 1 : k \in 1 .. Len(chunk)
      BY <1>1, <1>3
    <2>2. p .. q - 1 \subseteq 1 .. Len(chunk)
      BY <2>1
    <2>3. p \in Nat /\ q - 1 \in Nat
      BY <1>1, <1>3
    <2> QED BY <1>1, <2>1, <2>3, SubSeqProperties DEF Texts
  <1>5. Spelled(pieces) \in STRING
    <2> HIDE DEF pieces
    <2>1. CASE Len(pieces) = 1
      <3>1. Head(pieces) \in STRING
        <4>1. pieces \in Seq(STRING)
          BY <1>4 DEF Texts
        <4>2. Len(<<>>) = 0
          BY EmptySeq
        <4>3. pieces # <<>>
          BY <2>1, <4>2
        <4> QED BY <4>1, <4>3, HeadTailProperties
      <3> QED BY <2>1, <3>1 DEF Spelled
    <2>2. CASE Len(pieces) # 1
      BY <2>2, FilesAssumption DEF Spelled
    <2> QED BY <2>1, <2>2
  <1> QED BY <1>3, <1>5 DEF TokenAt

\* There is a function that does what splitString does.
LEMMA SplitExists ==
  ASSUME NEW chunk \in Texts
  PROVE  \E f : f = [p \in 1 .. Len(chunk) + 1 |-> SplitFrom(chunk, f, p)]
  <1> DEFINE n      == Len(chunk)
             Is(f, b) == /\ f = [p \in b .. n + 1 |-> f[p]]
                         /\ \A p \in b .. n + 1 : f[p] = SplitFrom(chunk, f, p)
             Good(m) == \E f : Is(f, n + 1 - m)
             bad     == {m \in 0 .. n : ~Good(m)}
  <1>1. n \in Nat
    BY LenProperties DEF Texts
  <1>2. bad = {}
    <2> SUFFICES ASSUME bad # {} PROVE FALSE
      OBVIOUS
    <2>1. bad \subseteq Nat
      BY <1>1
    <2>2. PICK m \in bad : \A k \in bad : m <= k
      <3> HIDE DEF bad
      <3> QED BY <2>1, LeastNumber
    <2>3. m \in 0 .. n /\ ~Good(m)
      BY <2>2
    <2>4. CASE m = 0
      <3> DEFINE f == [p \in n + 1 .. n + 1 |-> <<>>]
      <3>1. \A p \in n + 1 .. n + 1 : p > n
        BY <1>1
      <3>2. \A p \in n + 1 .. n + 1 : f[p] = SplitFrom(chunk, f, p)
        BY <3>1 DEF SplitFrom
      <3>3. Is(f, n + 1)
        BY <3>2
      <3>4. n + 1 - m = n + 1
        BY <1>1, <2>4
      <3> HIDE DEF Is, f
      <3>5. Good(m)
        BY <3>3, <3>4
      <3> QED BY <2>3, <3>5
    <2>5. CASE m # 0
      <3> DEFINE b == n + 1 - m
      <3>1. b \in 1 .. n /\ n + 1 - (m - 1) = b + 1 /\ m - 1 \in 0 .. n /\ ~(m <= m - 1)
        BY <1>1, <2>3, <2>5
      <3>2. Good(m - 1)
        <4>1. m - 1 \notin bad
          BY <2>2, <3>1
        <4> QED BY <3>1, <4>1
      <3> HIDE DEF b, bad
      <3>3. PICK f : Is(f, b + 1)
        BY <3>1, <3>2
      <3> DEFINE g == [p \in b .. n + 1 |-> IF p = b THEN SplitFrom(chunk, f, b) ELSE f[p]]
      <3>4. \A p \in b + 1 .. n + 1 : g[p] = f[p]
        BY <1>1, <3>1
      <3>5. ASSUME NEW p \in b .. n + 1 PROVE g[p] = SplitFrom(chunk, g, p)
        <4>1. SplitFrom(chunk, g, p) = SplitFrom(chunk, f, p)
          <5>1. CASE p > n
            BY <5>1 DEF SplitFrom
          <5>2. CASE ~(p > n)
            <6>1. p \in 1 .. n
              BY <1>1, <3>1, <5>2
            <6>2. Behind(chunk, p) \in p + 1 .. n + 1
              BY <6>1, TokenType
            <6>3. Behind(chunk, p) \in b + 1 .. n + 1
              BY <1>1, <3>1, <6>1, <6>2
            <6>4. g[Behind(chunk, p)] = f[Behind(chunk, p)]
              BY <3>4, <6>3
            <6> HIDE DEF g
            <6> QED BY <6>4 DEF SplitFrom
          <5> QED BY <5>1, <5>2
        <4>2. CASE p = b
          BY <4>1, <4>2
        <4>3. CASE p # b
          <5>1. p \in b + 1 .. n + 1
            BY <1>1, <3>1, <4>3
          <5>2. f[p] = SplitFrom(chunk, f, p)
            BY <3>3, <5>1
          <5> QED BY <3>4, <4>1, <5>1, <5>2
        <4> QED BY <4>2, <4>3
      <3>6. Is(g, b)
        BY <3>5
      <3> HIDE DEF Is, g
      <3>7. Good(m)
        BY <3>6 DEF b
      <3> QED BY <2>3, <3>7
    <2> QED BY <2>4, <2>5
  <1>3. Good(n)
    <2>1. n \in 0 .. n /\ n \notin bad
      BY <1>1, <1>2
    <2> QED BY <2>1
  <1>4. n + 1 - n = 1
    BY <1>1
  <1>5. PICK f : Is(f, 1)
    BY <1>3, <1>4
  <1>6. f = [p \in 1 .. n + 1 |-> SplitFrom(chunk, f, p)]
    BY <1>5
  <1> QED BY <1>6

\* Split is the first value of such a function.
LEMMA SplitIs ==
  ASSUME NEW chunk \in Texts
  PROVE  \E f : /\ f = [p \in 1 .. Len(chunk) + 1 |-> SplitFrom(chunk, f, p)]
                /\ Split(chunk) = f[1]
  <1> DEFINE f == CHOOSE g : g = [p \in 1 .. Len(chunk) + 1 |-> SplitFrom(chunk, g, p)]
  <1>1. Split(chunk) = f[1]
    BY DEF Split, SplitFrom, TokenAt, Behind
  <1>2. f = [p \in 1 .. Len(chunk) + 1 |-> SplitFrom(chunk, f, p)]
    BY SplitExists
  <1> QED BY <1>1, <1>2

\* So what it makes of a chunk from any place on are tokens.
LEMMA SplitTypes ==
  ASSUME NEW chunk \in Texts, NEW f, f = [p \in 1 .. Len(chunk) + 1 |-> SplitFrom(chunk, f, p)]
  PROVE  \A p \in 1 .. Len(chunk) + 1 : f[p] \in Texts
  <1> DEFINE n == Len(chunk)
  <1>1. n \in Nat
    BY LenProperties DEF Texts
  <1>2. \A p \in 1 .. n + 1 : f[p] = SplitFrom(chunk, f, p)
    OBVIOUS
  <1> DEFINE bad == {m \in 0 .. n : f[n + 1 - m] \notin Texts}
  <1>3. bad = {}
    <2> SUFFICES ASSUME bad # {} PROVE FALSE
      OBVIOUS
    <2>1. bad \subseteq Nat
      BY <1>1
    <2>2. PICK m \in bad : \A k \in bad : m <= k
      <3> HIDE DEF bad
      <3> QED BY <2>1, LeastNumber
    <2> DEFINE p == n + 1 - m
    <2>3. m \in 0 .. n /\ f[p] \notin Texts /\ p \in 1 .. n + 1
      BY <1>1, <2>2
    <2>4. f[p] = SplitFrom(chunk, f, p)
      BY <1>2, <2>3
    <2>5. CASE p > n
      <3>1. f[p] = <<>>
        BY <2>4, <2>5 DEF SplitFrom
      <3> QED BY <2>3, <3>1, EmptySeq DEF Texts
    <2>6. CASE ~(p > n)
      <3> DEFINE q == Behind(chunk, p)
      <3>1. p \in 1 .. n
        BY <1>1, <2>3, <2>6
      <3> HIDE DEF p, bad
      <3>2. q \in p + 1 .. n + 1 /\ TokenAt(chunk, p) \in STRING
        BY <3>1, TokenType
      <3> HIDE DEF q
      <3>3. f[q] \in Texts
        <4>1. n + 1 - q \in 0 .. n /\ ~(m <= n + 1 - q) /\ n + 1 - (n + 1 - q) = q
          BY <1>1, <2>3, <3>1, <3>2 DEF p
        <4>2. n + 1 - q \notin bad
          BY <2>2, <4>1
        <4> QED BY <4>1, <4>2 DEF bad
      <3>4. f[p] = <<TokenAt(chunk, p)>> \o f[q]
        BY <2>4, <2>6 DEF SplitFrom, q
      <3>5. <<TokenAt(chunk, p)>> \in Seq(STRING)
        BY <3>2
      <3>6. f[p] \in Texts
        BY <3>3, <3>4, <3>5, ConcatProperties DEF Texts
      <3> QED BY <2>3, <3>6
    <2> QED BY <2>5, <2>6
  <1>4. ASSUME NEW p \in 1 .. n + 1 PROVE f[p] \in Texts
    <2> DEFINE m == n + 1 - p
    <2>1. m \in 0 .. n /\ n + 1 - m = p
      BY <1>1
    <2> HIDE DEF m
    <2>2. m \notin bad
      BY <1>3
    <2> QED BY <2>1, <2>2
  <1> QED BY <1>4

\* So what it makes of a chunk are tokens.
LEMMA SplitType ==
  ASSUME NEW chunk \in Texts
  PROVE  Split(chunk) \in Texts
  <1>1. PICK f : /\ f = [p \in 1 .. Len(chunk) + 1 |-> SplitFrom(chunk, f, p)]
                 /\ Split(chunk) = f[1]
    BY SplitIs
  <1>2. \A p \in 1 .. Len(chunk) + 1 : f[p] \in Texts
    BY <1>1, SplitTypes
  <1>3. 1 \in 1 .. Len(chunk) + 1
    BY LenProperties DEF Texts
  <1> QED BY <1>1, <1>2, <1>3

-----------------------------------------------------------------------------
(* Counting brackets. *)

\* One token more.
LEMMA CountNext ==
  ASSUME NEW mark, NEW p \in Nat, NEW q \in Nat, p <= q + 1
  PROVE  /\ Count(mark, p, q) \in Nat
         /\ Count(mark, p, q + 1) = Count(mark, p, q) + (IF text[q + 1] = mark THEN 1 ELSE 0)
  <1> DEFINE S == {k \in p .. q : text[k] = mark}
             T == {k \in p .. q + 1 : text[k] = mark}
  <1>1. IsFiniteSet(p .. q) /\ S \in SUBSET (p .. q)
    BY FS_Interval
  <1>2. IsFiniteSet(S) /\ q + 1 \notin S
    BY <1>1, FS_Subset
  <1>3. Cardinality(S) \in Nat
    BY <1>2, FS_CardinalityType
  <1>4. p .. q + 1 = (p .. q) \cup {q + 1}
    OBVIOUS
  <1>5. CASE text[q + 1] = mark
    <2>1. T = S \cup {q + 1}
      BY <1>4, <1>5
    <2> HIDE DEF S, T
    <2>2. Cardinality(T) = Cardinality(S) + 1
      BY <1>2, <2>1, FS_AddElement
    <2> QED BY <1>3, <1>5, <2>2 DEF Count, S, T
  <1>6. CASE text[q + 1] # mark
    <2>1. T = S
      BY <1>4, <1>6
    <2> HIDE DEF S, T
    <2>2. Cardinality(T) = Cardinality(S)
      BY <2>1
    <2> QED BY <1>3, <1>6, <2>2 DEF Count, S, T
  <1> QED BY <1>5, <1>6

\* None of none.
LEMMA CountNone ==
  ASSUME NEW mark, NEW p \in Nat, NEW q \in Nat, q < p
  PROVE  Count(mark, p, q) = 0
  <1>1. {k \in p .. q : text[k] = mark} = {}
    OBVIOUS
  <1> QED BY <1>1, FS_EmptySet DEF Count

\* A token changes the depth behind it by one if it is a bracket, else not at all.
LEMMA DepthNext ==
  ASSUME NEW k \in Nat \ {0}
  PROVE  /\ Depth(k) \in Int
         /\ Depth(k + 1) = Depth(k) + (IF text[k] = OPEN_BRACKET THEN 1
                                      ELSE IF text[k] = CLOSE_BRACKET THEN -1 ELSE 0)
  <1> DEFINE j == k - 1
  <1>1. j \in Nat /\ 1 \in Nat /\ 1 <= j + 1 /\ j + 1 = k /\ (k + 1) - 1 = j + 1
    OBVIOUS
  <1> HIDE DEF j
  <1>2. /\ Count(OPEN_BRACKET, 1, j) \in Nat
        /\ Count(OPEN_BRACKET, 1, j + 1) = Count(OPEN_BRACKET, 1, j) + (IF text[j + 1] = OPEN_BRACKET THEN 1 ELSE 0)
    BY <1>1, CountNext
  <1>3. /\ Count(CLOSE_BRACKET, 1, j) \in Nat
        /\ Count(CLOSE_BRACKET, 1, j + 1) = Count(CLOSE_BRACKET, 1, j) + (IF text[j + 1] = CLOSE_BRACKET THEN 1 ELSE 0)
    BY <1>1, CountNext
  <1>4. Depth(k) = Count(OPEN_BRACKET, 1, j) - Count(CLOSE_BRACKET, 1, j)
    BY DEF Depth, j
  <1>5. Depth(k + 1) = Count(OPEN_BRACKET, 1, j + 1) - Count(CLOSE_BRACKET, 1, j + 1)
    BY <1>1 DEF Depth
  <1>6. text[j + 1] = text[k] /\ OPEN_BRACKET # CLOSE_BRACKET
    BY <1>1, MarksDiffer
  <1> QED BY <1>2, <1>3, <1>4, <1>5, <1>6

\* A text begins outside all blocks.
LEMMA DepthFirst == Depth(1) = 0
  <1>1. Count(OPEN_BRACKET, 1, 1 - 1) = 0 /\ Count(CLOSE_BRACKET, 1, 1 - 1) = 0
    BY CountNone
  <1> QED BY <1>1 DEF Depth

\* What is counted up to a place, and from there on.
LEMMA CountFrom ==
  ASSUME NEW mark, NEW p \in Nat \ {0}, NEW r \in Nat, r = p - 1, NEW q \in Nat, r <= q
  PROVE  Count(mark, 1, q) = Count(mark, 1, r) + Count(mark, p, q)
  <1> DEFINE S == {k \in 1 .. r : text[k] = mark}
             T == {k \in p .. q : text[k] = mark}
             U == {k \in 1 .. q : text[k] = mark}
  <1>1. S \cup T = U /\ S \cap T = {}
    OBVIOUS
  <1>2. IsFiniteSet(1 .. r) /\ IsFiniteSet(p .. q) /\ S \in SUBSET (1 .. r) /\ T \in SUBSET (p .. q)
    BY FS_Interval
  <1>3. IsFiniteSet(S) /\ IsFiniteSet(T)
    BY <1>2, FS_Subset
  <1>4. Cardinality(U) = Cardinality(S) + Cardinality(T) - Cardinality({})
    <2> HIDE DEF S, T, U
    <2> QED BY <1>1, <1>3, FS_Union
  <1>5. Cardinality(S) \in Nat /\ Cardinality(T) \in Nat /\ Cardinality({}) = 0
    <2> HIDE DEF S, T
    <2> QED BY <1>3, FS_CardinalityType, FS_EmptySet
  <1>6. /\ Count(mark, 1, q) = Cardinality(U) /\ Count(mark, 1, r) = Cardinality(S)
        /\ Count(mark, p, q) = Cardinality(T)
    BY DEF Count
  <1> HIDE DEF S, T, U
  <1> QED BY <1>4, <1>5, <1>6

\* From one place to another the depth changes by the brackets between them.
LEMMA DepthFrom ==
  ASSUME NEW p \in Nat \ {0}, NEW q \in Nat, p - 1 <= q
  PROVE  /\ Count(OPEN_BRACKET, p, q) \in Nat /\ Count(CLOSE_BRACKET, p, q) \in Nat
         /\ Depth(q + 1) = Depth(p) + Count(OPEN_BRACKET, p, q) - Count(CLOSE_BRACKET, p, q)
  <1> DEFINE r == p - 1
  <1>1. r \in Nat /\ r <= q /\ p <= q + 1 /\ 1 <= r + 1 /\ 1 <= q + 1
        /\ (q + 1) - 1 = q
    OBVIOUS
  <1>2. Depth(p) = Count(OPEN_BRACKET, 1, r) - Count(CLOSE_BRACKET, 1, r)
    BY DEF Depth
  <1> HIDE DEF r
  <1>3. Depth(q + 1) = Count(OPEN_BRACKET, 1, q) - Count(CLOSE_BRACKET, 1, q)
    BY <1>1 DEF Depth
  <1>4. \A mark : /\ Count(mark, 1, r) \in Nat /\ Count(mark, 1, q) \in Nat
                  /\ Count(mark, p, q) \in Nat
    BY <1>1, CountNext
  <1>5. \A mark : Count(mark, 1, q) = Count(mark, 1, r) + Count(mark, p, q)
    BY <1>1, CountFrom DEF r
  <1>6. Count(OPEN_BRACKET, 1, q) = Count(OPEN_BRACKET, 1, r) + Count(OPEN_BRACKET, p, q)
    BY <1>5
  <1>7. Count(CLOSE_BRACKET, 1, q) = Count(CLOSE_BRACKET, 1, r) + Count(CLOSE_BRACKET, p, q)
    BY <1>5
  <1>8. /\ Count(OPEN_BRACKET, 1, r) \in Nat /\ Count(OPEN_BRACKET, 1, q) \in Nat /\ Count(OPEN_BRACKET, p, q) \in Nat
        /\ Count(CLOSE_BRACKET, 1, r) \in Nat /\ Count(CLOSE_BRACKET, 1, q) \in Nat /\ Count(CLOSE_BRACKET, p, q) \in Nat
    BY <1>4
  <1> QED BY <1>2, <1>3, <1>6, <1>7, <1>8

\* Words do not change it.
LEMMA WordsDepth ==
  ASSUME NEW p \in Nat \ {0}, NEW e \in Nat, p <= e, \A q \in p .. e - 1 : Word(text[q])
  PROVE  Depth(e) = Depth(p)
  <1> DEFINE q == e - 1
  <1>1. q \in Nat /\ p - 1 <= q /\ q + 1 = e
    OBVIOUS
  <1>2. {k \in p .. q : text[k] = OPEN_BRACKET} = {} /\ {k \in p .. q : text[k] = CLOSE_BRACKET} = {}
    BY MarksAre
  <1>3. Count(OPEN_BRACKET, p, q) = 0 /\ Count(CLOSE_BRACKET, p, q) = 0
    BY <1>2, FS_EmptySet DEF Count
  <1> HIDE DEF q
  <1>4. Depth(q + 1) = Depth(p) + Count(OPEN_BRACKET, p, q) - Count(CLOSE_BRACKET, p, q)
    BY <1>1, DepthFrom
  <1>5. Depth(p) \in Int
    BY DepthNext
  <1> QED BY <1>1, <1>3, <1>4, <1>5

-----------------------------------------------------------------------------
(* Lines. *)

\* A line may begin at p.
AtLine(p) == p = 1 \/ ~Word(text[p - 1])

\* Of a token with nothing but words between p and it, the line starts at p.
LEMMA LineStartIs ==
  ASSUME NEW p \in Nat \ {0}, NEW k \in Nat, p <= k, AtLine(p),
         \A q \in p .. k - 1 : Word(text[q])
  PROVE  LineStart(k) = p
  <1> DEFINE T == {0} \cup {j \in 1 .. k - 1 : ~Word(text[j])}
  <1>1. T \subseteq 0 .. k /\ T # {}
    OBVIOUS
  <1>2. p - 1 \in T
    BY DEF AtLine
  <1>3. \A j \in T : j <= p - 1
    OBVIOUS
  <1> HIDE DEF T
  <1>4. Greatest(T) \in T /\ \A j \in T : Greatest(T) >= j
    BY <1>1, GreatestIs
  <1>5. Greatest(T) \in 0 .. k
    BY <1>1, <1>4
  <1>6. Greatest(T) = p - 1
    BY <1>2, <1>3, <1>4, <1>5
  <1> QED BY <1>6 DEF LineStart, T

\* syntaxLine stops at the first token that is no word.
LEMMA WordsEndIs ==
  ASSUME text \in Texts, NEW p \in Nat \ {0}, \E q \in p .. Len(text) : ~Word(text[q])
  PROVE  /\ WordsEnd(p) \in p .. Len(text) /\ ~Word(text[WordsEnd(p)])
         /\ \A q \in p .. WordsEnd(p) - 1 : Word(text[q])
         /\ \A q \in p .. Len(text) : ~Word(text[q]) => WordsEnd(p) <= q
  <1> DEFINE T == {q \in p .. Len(text) : ~Word(text[q])}
  <1>1. T \subseteq Nat /\ T # {} /\ Len(text) \in Nat
    BY LenProperties DEF Texts
  <1>2. Least(T) \in T /\ \A q \in T : Least(T) <= q
    <2> HIDE DEF T
    <2> QED BY <1>1, LeastIs
  <1>3. WordsEnd(p) = Least(T)
    BY DEF WordsEnd
  <1> DEFINE e == WordsEnd(p)
  <1>4. e \in p .. Len(text) /\ ~Word(text[e]) /\ \A q \in T : e <= q
    BY <1>2, <1>3
  <1> HIDE DEF e
  <1>5. ASSUME NEW q \in p .. e - 1, ~Word(text[q]) PROVE FALSE
    <2>1. q \in T /\ ~(e <= q)
      BY <1>1, <1>4, <1>5
    <2> QED BY <1>4, <2>1
  <1>6. \A q \in p .. Len(text) : ~Word(text[q]) => q \in T
    OBVIOUS
  <1> QED BY <1>4, <1>5, <1>6 DEF e

\* In a well-formed text, what begins a line is followed by words up to a mark,
\* which is a closing bracket only if there are none.
LEMMA LineIs ==
  ASSUME text \in Texts, WellFormed, NEW p \in 1 .. Len(text), AtLine(p)
  PROVE  \E e \in p .. Len(text) :
           /\ e = WordsEnd(p) /\ ~Word(text[e]) /\ \A q \in p .. e - 1 : Word(text[q])
           /\ WellPlaced(e) /\ Depth(e) = Depth(p) /\ LineStart(e) = p
           /\ text[e] = CLOSE_BRACKET => e = p
  <1>1. Len(text) \in Nat /\ DOMAIN text = 1 .. Len(text)
    BY LenProperties DEF Texts
  <1>2. \E q \in p .. Len(text) : ~Word(text[q])
    <2>1. SUFFICES ASSUME \A q \in p .. Len(text) : Word(text[q]) PROVE FALSE
      OBVIOUS
    <2>2. Word(text[Len(text)]) /\ WellPlaced(Len(text))
      BY <1>1, <2>1 DEF WellFormed
    <2> QED BY <1>1, <2>2 DEF WellPlaced
  <1> DEFINE e == WordsEnd(p)
  <1>3. e \in p .. Len(text) /\ ~Word(text[e]) /\ \A q \in p .. e - 1 : Word(text[q])
    BY <1>2, WordsEndIs
  <1> HIDE DEF e
  <1>4. e \in Nat /\ p <= e /\ p \in Nat \ {0} /\ e \in 1 .. Len(text)
    BY <1>1, <1>3
  <1>5. Depth(e) = Depth(p) /\ LineStart(e) = p
    BY <1>3, <1>4, WordsDepth, LineStartIs
  <1>6. WellPlaced(e)
    BY <1>1, <1>4 DEF WellFormed
  <1>7. ASSUME text[e] = CLOSE_BRACKET, e # p PROVE FALSE
    <2> DEFINE k == e - 1
    <2>1. k \in p .. e - 1 /\ k \in 1 .. Len(text) /\ k + 1 = e
      BY <1>1, <1>3, <1>7
    <2>2. Word(text[k]) /\ WellPlaced(k)
      BY <1>1, <1>3, <2>1 DEF WellFormed
    <2> QED BY <1>7, <2>1, <2>2 DEF WellPlaced
  <1> QED BY <1>3, <1>5, <1>6, <1>7 DEF e

\* Outside all blocks a line of a well-formed text is the word server and a bracket.
LEMMA ServerLine ==
  ASSUME text \in Texts, WellFormed, NEW p \in 1 .. Len(text), AtLine(p), Depth(p) = 0
  PROVE  text[p] = "server" /\ p + 1 \in 1 .. Len(text) /\ text[p + 1] = OPEN_BRACKET
  <1>1. PICK e \in p .. Len(text) :
          /\ ~Word(text[e]) /\ WellPlaced(e) /\ Depth(e) = Depth(p) /\ LineStart(e) = p
    BY LineIs
  <1>2. Len(text) \in Nat
    BY LenProperties DEF Texts
  <1>3. text[e] # SEMICOLON /\ text[e] # CLOSE_BRACKET
    BY <1>1 DEF WellPlaced, MayEnd, MayClose
  <1>4. text[e] = OPEN_BRACKET
    BY <1>1, <1>3, MarksAre
  <1>5. MayOpen(e)
    BY <1>1, <1>4 DEF WellPlaced
  <1>6. p = e - 1 /\ text[e - 1] = "server"
    BY <1>1, <1>5 DEF MayOpen
  <1>7. e = p + 1 /\ e - 1 = p
    BY <1>2, <1>6
  <1> QED BY <1>2, <1>4, <1>6, <1>7

\* In a server block, the word location is followed by a path and a bracket.
LEMMA LocationLine ==
  ASSUME text \in Texts, WellFormed, NEW p \in 1 .. Len(text), AtLine(p), Depth(p) = 1,
         text[p] = "location"
  PROVE  p + 2 \in 1 .. Len(text) /\ text[p + 2] = OPEN_BRACKET /\ IsPath(text[p + 1])
  <1>1. PICK e \in p .. Len(text) :
          /\ ~Word(text[e]) /\ WellPlaced(e) /\ Depth(e) = Depth(p) /\ LineStart(e) = p
          /\ text[e] = CLOSE_BRACKET => e = p
    BY LineIs
  <1>2. Len(text) \in Nat
    BY LenProperties DEF Texts
  <1>3. Word(text[p])
    BY MarksDiffer DEF Word
  <1>4. text[e] # SEMICOLON /\ text[e] # CLOSE_BRACKET
    BY <1>1, <1>3 DEF WellPlaced, MayEnd
  <1>5. MayOpen(e)
    BY <1>1, <1>4, MarksAre DEF WellPlaced
  <1>6. p = e - 2 /\ IsPath(text[e - 1])
    BY <1>1, <1>5 DEF MayOpen
  <1>7. e = p + 2 /\ e - 1 = p + 1
    BY <1>2, <1>6
  <1>8. text[e] = OPEN_BRACKET
    BY <1>1, <1>4, MarksAre
  <1> QED BY <1>2, <1>6, <1>7, <1>8

\* Any other line of a block has a key, a value and a semicolon.
LEMMA OtherLine ==
  ASSUME text \in Texts, WellFormed, NEW p \in 1 .. Len(text), AtLine(p),
         Depth(p) = 2 \/ (Depth(p) = 1 /\ text[p] # "location"), text[p] # CLOSE_BRACKET
  PROVE  EnoughWords(WordsEnd(p) - p) /\ text[WordsEnd(p)] = SEMICOLON
  <1>1. PICK e \in p .. Len(text) :
          /\ e = WordsEnd(p)
          /\ ~Word(text[e]) /\ WellPlaced(e) /\ Depth(e) = Depth(p) /\ LineStart(e) = p
          /\ text[e] = CLOSE_BRACKET => e = p
    BY LineIs
  <1>2. Len(text) \in Nat
    BY LenProperties DEF Texts
  <1>3. text[e] # CLOSE_BRACKET
    BY <1>1
  <1>4. text[e] # OPEN_BRACKET
    <2>1. ASSUME MayOpen(e) PROVE FALSE
      <3>1. Depth(p) = 1 /\ p = e - 2 /\ text[e - 2] = "location"
        BY <1>1, <2>1 DEF MayOpen
      <3> QED BY <3>1
    <2> QED BY <1>1, <2>1 DEF WellPlaced
  <1>5. text[e] = SEMICOLON
    BY <1>1, <1>3, <1>4, MarksAre
  <1>6. p <= e - 2
    BY <1>1, <1>5 DEF WellPlaced, MayEnd
  <1> QED BY <1>1, <1>2, <1>5, <1>6 DEF EnoughWords

\* In a well-formed text what is opened is one or two deep, and begins with a word.
LEMMA FirstIsWord ==
  ASSUME text \in Texts, WellFormed, NEW o \in 1 .. Len(text), text[o] = OPEN_BRACKET
  PROVE  /\ o + 1 \in 1 .. Len(text) /\ Word(text[o + 1])
         /\ Depth(o + 1) \in {1, 2} /\ Depth(o + 2) = Depth(o + 1)
  <1>1. Len(text) \in Nat /\ DOMAIN text = 1 .. Len(text)
    BY LenProperties DEF Texts
  <1>2. MayOpen(o)
    BY <1>1 DEF WellFormed, WellPlaced
  <1>3. Depth(o + 1) = Depth(o) + 1 /\ Depth(o) \in {0, 1}
    <2>1. Depth(o) \in {0, 1}
      BY <1>2 DEF MayOpen
    <2>2. o \in Nat \ {0}
      BY <1>1
    <2>3. Depth(o + 1) = Depth(o) + (IF text[o] = OPEN_BRACKET THEN 1
                                     ELSE IF text[o] = CLOSE_BRACKET THEN -1 ELSE 0)
      BY <2>2, DepthNext
    <2> QED BY <2>1, <2>3
  <1>4. o # Len(text)
    BY <1>3 DEF WellFormed, PastEnd
  <1>a. o + 1 \in 1 .. Len(text) /\ (o + 1) - 1 = o /\ o + 1 \in Nat \ {0}
    <2>1. Len(text) \in Nat
      BY <1>1
    <2>2. o \in Nat /\ 1 <= o /\ o <= Len(text)
      BY <2>1
    <2> QED BY <1>4, <2>1, <2>2
  <1> DEFINE k == o + 1
  <1>5. k \in 1 .. Len(text) /\ k - 1 = o /\ k \in Nat \ {0}
    BY <1>a
  <1>6. WellPlaced(k)
    BY <1>1, <1>5 DEF WellFormed
  <1> HIDE DEF k
  <1>7. AtLine(k)
    BY <1>5, MarksAre DEF AtLine
  <1>8. LineStart(k) = k
    <2>1. k <= k /\ \A q \in k .. k - 1 : Word(text[q])
      BY <1>5
    <2> QED BY <1>5, <1>7, <2>1, LineStartIs
  <1>9. Word(text[k])
    <2>1. ~MayOpen(k) /\ ~MayEnd(k)
      BY <1>5, <1>8 DEF MayOpen, MayEnd
    <2>2. ~MayClose(k)
      BY <1>5, MarksDiffer DEF MayClose
    <2> QED BY <1>6, <2>1, <2>2, MarksAre DEF WellPlaced
  <1>10. Depth(k + 1) = Depth(k)
    <2>1. text[k] # OPEN_BRACKET /\ text[k] # CLOSE_BRACKET
      BY <1>9, MarksAre
    <2>2. /\ Depth(k) \in Int
          /\ Depth(k + 1) = Depth(k) + (IF text[k] = OPEN_BRACKET THEN 1
                                       ELSE IF text[k] = CLOSE_BRACKET THEN -1 ELSE 0)
      BY <1>5, DepthNext
    <2> QED BY <2>1, <2>2
  <1>11. k + 1 = o + 2
    BY <1>1 DEF k
  <1> QED BY <1>3, <1>5, <1>9, <1>10, <1>11 DEF k

-----------------------------------------------------------------------------
(* The end of a block. *)

\* From p on, end is where depth d is left.
Closing(p, end, d) ==
  /\ end \in p .. Len(text)
  /\ \A q \in p .. end - 1 : Depth(q + 1) >= d
  /\ Depth(end + 1) = d - 1

\* What findBlockEnd finds: the token after the bracket was not looked at.
LEMMA BlockEnd ==
  ASSUME text \in Texts, NEW p, NEW o \in Nat \ {0}, o = Opening(p),
         FindBlockEnd(p) \notin {PastEnd, Throws}
  PROVE  /\ o \in 1 .. Len(text) /\ o # Len(text) /\ text[o] = OPEN_BRACKET
         /\ Closing(o + 2, FindBlockEnd(p), Depth(o + 2))
  <1> DEFINE from   == o + 2
             closed == {q \in from .. Len(text) :
                          Count(CLOSE_BRACKET, from, q) > Count(OPEN_BRACKET, from, q)}
             end    == FindBlockEnd(p)
  <1>1. Len(text) \in Nat /\ DOMAIN text = 1 .. Len(text)
    BY LenProperties DEF Texts
  <1>2. /\ Within(o) /\ text[o] = OPEN_BRACKET /\ o # Len(text)
        /\ closed # {} /\ end = Least(closed)
    BY DEF FindBlockEnd
  <1>3. closed \subseteq Nat
    BY <1>1
  <1>4. end \in closed /\ \A q \in closed : end <= q
    <2> HIDE DEF closed, end
    <2> QED BY <1>2, <1>3, LeastIs
  <1>5. /\ end \in from .. Len(text)
        /\ Count(CLOSE_BRACKET, from, end) > Count(OPEN_BRACKET, from, end)
    BY <1>4
  <1>6. from \in Nat \ {0} /\ from - 1 \in Nat
    OBVIOUS
  <1>7. \A q \in from .. end - 1 : q \notin closed /\ q \in from .. Len(text)
    <2> HIDE DEF closed, end
    <2>1. ASSUME NEW q \in from .. end - 1 PROVE q \notin closed /\ q \in from .. Len(text)
      <3>1. q \in Int /\ end \in Int /\ Len(text) \in Int /\ ~(end <= q) /\ q <= Len(text) /\ from <= q
        BY <1>1, <1>5
      <3> QED BY <1>4, <3>1
    <2> QED BY <2>1
  <1> HIDE DEF end
  <1>8. ASSUME NEW q \in from .. end - 1 PROVE Depth(q + 1) >= Depth(from)
    <2>1. ~(Count(CLOSE_BRACKET, from, q) > Count(OPEN_BRACKET, from, q))
      BY <1>7
    <2> HIDE DEF from, closed
    <2>2. q \in Nat /\ from - 1 <= q
      BY <1>5, <1>6
    <2>3. /\ Count(OPEN_BRACKET, from, q) \in Nat /\ Count(CLOSE_BRACKET, from, q) \in Nat
          /\ Depth(q + 1) = Depth(from) + Count(OPEN_BRACKET, from, q)
                                        - Count(CLOSE_BRACKET, from, q)
      BY <1>6, <2>2, DepthFrom
    <2>4. Depth(from) \in Int
      BY <1>6, DepthNext
    <2> QED BY <2>1, <2>3, <2>4
  <1>9. Depth(end + 1) < Depth(from)
    <2> HIDE DEF from, closed
    <2>1. end \in Nat /\ from - 1 <= end
      BY <1>5, <1>6
    <2>2. /\ Count(OPEN_BRACKET, from, end) \in Nat /\ Count(CLOSE_BRACKET, from, end) \in Nat
          /\ Depth(end + 1) = Depth(from) + Count(OPEN_BRACKET, from, end)
                                          - Count(CLOSE_BRACKET, from, end)
      BY <1>6, <2>1, DepthFrom
    <2>3. Depth(from) \in Int
      BY <1>6, DepthNext
    <2> QED BY <1>5, <2>2, <2>3
  <1> HIDE DEF from, closed
  <1>10. Depth(end) >= Depth(from)
    <2>1. Depth(from) \in Int
      BY <1>6, DepthNext
    <2>2. CASE end = from
      BY <2>1, <2>2
    <2>3. CASE end # from
      <3> DEFINE k == end - 1
      <3>1. k \in from .. end - 1 /\ k + 1 = end
        BY <1>1, <1>5, <1>6, <2>3
      <3> QED BY <1>8, <3>1
    <2> QED BY <2>2, <2>3
  <1>11. Depth(end + 1) = Depth(from) - 1
    <2>1. end \in Nat \ {0}
      BY <1>5, <1>6
    <2>2. Depth(from) \in Int
      BY <1>6, DepthNext
    <2>3. /\ Depth(end) \in Int
          /\ Depth(end + 1) = Depth(end) + (IF text[end] = OPEN_BRACKET THEN 1
                                           ELSE IF text[end] = CLOSE_BRACKET THEN -1 ELSE 0)
      BY <2>1, DepthNext
    <2> QED BY <1>9, <1>10, <2>2, <2>3
  <1>12. Closing(from, end, Depth(from))
    BY <1>5, <1>8, <1>11 DEF Closing
  <1> QED BY <1>1, <1>2, <1>12 DEF end, from, Within

\* In a well-formed text it finds an end.
LEMMA EndFound ==
  ASSUME text \in Texts, WellFormed, NEW p, NEW o \in 1 .. Len(text), o = Opening(p),
         text[o] = OPEN_BRACKET
  PROVE  FindBlockEnd(p) \notin {PastEnd, Throws}
  <1> DEFINE from   == o + 2
             closed == {q \in from .. Len(text) :
                          Count(CLOSE_BRACKET, from, q) > Count(OPEN_BRACKET, from, q)}
             n      == Len(text)
  <1>1. n \in Nat /\ DOMAIN text = 1 .. n
    BY LenProperties DEF Texts
  <1>2. o + 1 \in 1 .. n /\ Depth(from) \in {1, 2}
    BY FirstIsWord
  <1>3. o \in Nat \ {0} /\ o # n /\ from \in Nat \ {0} /\ from - 1 \in Nat /\ from - 1 <= n
    <2>1. n \in Nat
      BY <1>1
    <2> HIDE DEF n
    <2>2. o \in Nat /\ 1 <= o /\ o <= n /\ o + 1 <= n
      BY <1>2, <2>1 DEF n
    <2> QED BY <2>1, <2>2
  <1>4. closed # {}
    <2> SUFFICES ASSUME closed = {} PROVE FALSE
      OBVIOUS
    <2>1. Depth(n + 1) = 0
      BY DEF WellFormed, PastEnd
    <2>2. /\ Count(OPEN_BRACKET, from, n) \in Nat /\ Count(CLOSE_BRACKET, from, n) \in Nat
          /\ Depth(n + 1) = Depth(from) + Count(OPEN_BRACKET, from, n)
                                        - Count(CLOSE_BRACKET, from, n)
      <3> HIDE DEF from, n
      <3> QED BY <1>1, <1>3, DepthFrom
    <2>3. Count(CLOSE_BRACKET, from, n) > Count(OPEN_BRACKET, from, n)
      <3> HIDE DEF from, n, closed
      <3> QED BY <1>2, <2>1, <2>2
    <2>4. CASE from <= n
      <3>1. n \in from .. Len(text)
        BY <1>1, <1>3, <2>4
      <3>2. n \in closed
        BY <2>3, <3>1
      <3> QED BY <3>2
    <2>5. CASE ~(from <= n)
      <3>1. n < from
        BY <1>1, <1>3, <2>5
      <3>2. Count(CLOSE_BRACKET, from, n) = 0 /\ Count(OPEN_BRACKET, from, n) = 0
        <4> HIDE DEF from, n
        <4> QED BY <1>1, <1>3, <3>1, CountNone
      <3> QED BY <2>3, <3>2
    <2> QED BY <2>4, <2>5
  <1>5. closed \subseteq 1 .. n
    BY <1>1, <1>3
  <1>6. Least(closed) \in 1 .. n
    <2>1. closed \subseteq Nat
      BY <1>1, <1>5
    <2> HIDE DEF closed
    <2> QED BY <1>4, <1>5, <2>1, LeastIs
  <1>7. FindBlockEnd(p) = Least(closed)
    BY <1>1, <1>3, <1>4 DEF FindBlockEnd, Within
  <1> HIDE DEF closed
  <1> QED BY <1>1, <1>6, <1>7 DEF PastEnd, Throws

-----------------------------------------------------------------------------
(* The walk of the syntax check. *)

\* All before p is as the language wants it.
Checked(p) == \A k \in 1 .. p - 1 : WellPlaced(k)

\* The block the iterator p is in ends at end, unless it is about to be rejected
\* for a first token that begins no line.
Surrounded(p, end, d) ==
  /\ end \in p .. Len(text)
  /\ text[p - 1] = OPEN_BRACKET => p < end
  /\ Closing(p, end, d) \/ (text[p - 1] = OPEN_BRACKET /\ ~Word(text[p]))

\* The token list, the file and the brackets looked up keep their types.
Typed ==
  /\ text \in Texts /\ file \in Texts
  /\ close \in [{"server", "location"} -> Nat]

\* The three loops of the syntax check.
Checking == {"syntax", "syntaxServerBlock", "syntaxLocationBlock"}

\* In each loop of the syntax check the iterator is at the start of a line, all before it
\* is well placed, its depth is the loop's, and the block found ends where it is left.
Walk ==
  /\ phase \in Checking => it \in 1 .. Len(text) + 1 /\ AtLine(it) /\ Checked(it)
  /\ phase = "syntax" => Depth(it) = 0
  /\ phase = "syntaxServerBlock" => Depth(it) = 1 /\ Surrounded(it, close["server"], 1)
  /\ phase = "syntaxLocationBlock" =>
       /\ Depth(it) = 2 /\ Surrounded(it, close["location"], 2)
       /\ text[it - 1] # CLOSE_BRACKET /\ Closing(it, close["server"], 1)
  /\ phase \in Checking \cup {"tokens"} => block = 0
  /\ phase = "settings" => it # 0
  /\ phase \in {"ServerSettings", "LocationSettings"} => block # 0

\* What is said of a text depends on nothing but the text.
LEMMA SameText ==
  ASSUME text' = text
  PROVE  /\ \A k : Depth(k)' = Depth(k)
         /\ \A k : AtLine(k)' <=> AtLine(k)
         /\ \A k : LineStart(k)' = LineStart(k)
         /\ \A k : WellPlaced(k)' <=> WellPlaced(k)
         /\ PastEnd' = PastEnd
         /\ WellFormed' <=> WellFormed
         /\ \A p, end, d : Closing(p, end, d)' <=> Closing(p, end, d)
  <1>1. \A k : Depth(k)' = Depth(k)
    BY DEF Depth, Count
  <1>2. \A k : AtLine(k)' <=> AtLine(k)
    BY DEF AtLine, Word
  <1>3. \A k : LineStart(k)' = LineStart(k)
    BY DEF LineStart, Word
  <1>4. \A k : WellPlaced(k)' <=> WellPlaced(k)
    BY <1>1, <1>3 DEF WellPlaced, MayOpen, MayClose, MayEnd, Word
  <1>5. PastEnd' = PastEnd
    BY DEF PastEnd
  <1>6. WellFormed' <=> WellFormed
    BY <1>1, <1>4, <1>5 DEF WellFormed
  <1>7. \A p, end, d : Closing(p, end, d)' <=> Closing(p, end, d)
    BY <1>1 DEF Closing
  <1> QED BY <1>1, <1>2, <1>3, <1>4, <1>5, <1>6, <1>7

\* A block is entered.
LEMMA Entered ==
  ASSUME text \in Texts, NEW p, NEW o \in Nat \ {0}, o = Opening(p),
         NEW d \in Nat, Depth(o) = d - 1,
         FindBlockEnd(p) \notin {PastEnd, Throws}
  PROVE  /\ o \in 1 .. Len(text) /\ o # Len(text) /\ text[o] = OPEN_BRACKET
         /\ AtLine(o + 1) /\ Depth(o + 1) = d
         /\ Surrounded(o + 1, FindBlockEnd(p), d)
  <1> DEFINE end == FindBlockEnd(p)
             k   == o + 1
  <1>1. /\ o \in 1 .. Len(text) /\ o # Len(text) /\ text[o] = OPEN_BRACKET
        /\ Closing(o + 2, end, Depth(o + 2))
    BY BlockEnd
  <1>2. Len(text) \in Nat
    BY LenProperties DEF Texts
  <1>3. k \in Nat \ {0} /\ k - 1 = o /\ k + 1 = o + 2
    OBVIOUS
  <1>4. end \in k + 1 .. Len(text)
    BY <1>1, <1>3 DEF Closing
  <1>5. Depth(k) = d
    <2>1. Depth(o + 1) = Depth(o) + (IF text[o] = OPEN_BRACKET THEN 1
                                     ELSE IF text[o] = CLOSE_BRACKET THEN -1 ELSE 0)
      BY DepthNext
    <2> QED BY <1>1, <2>1
  <1>6. AtLine(k)
    BY <1>1, <1>3, MarksAre DEF AtLine
  <1> HIDE DEF end, k
  <1>7. ASSUME Word(text[k]) PROVE Closing(k, end, d)
    <2>1. Depth(k + 1) = d
      <3>1. text[k] # OPEN_BRACKET /\ text[k] # CLOSE_BRACKET
        BY <1>7, MarksAre
      <3>2. Depth(k + 1) = Depth(k) + (IF text[k] = OPEN_BRACKET THEN 1
                                       ELSE IF text[k] = CLOSE_BRACKET THEN -1 ELSE 0)
        BY <1>3, DepthNext
      <3> QED BY <1>5, <3>1, <3>2
    <2>2. Closing(k + 1, end, d)
      BY <1>1, <1>3, <2>1
    <2>3. ASSUME NEW q \in k .. end - 1 PROVE Depth(q + 1) >= d
      <3>1. CASE q = k
        BY <2>1, <3>1
      <3>2. CASE q # k
        <4>1. q \in k + 1 .. end - 1
          BY <1>3, <1>4, <3>2
        <4> QED BY <2>2, <4>1 DEF Closing
      <3> QED BY <3>1, <3>2
    <2>4. end \in k .. Len(text)
      BY <1>2, <1>3, <1>4
    <2> QED BY <2>2, <2>3, <2>4 DEF Closing
  <1>8. Surrounded(k, end, d)
    <2>1. end \in k .. Len(text) /\ k < end
      BY <1>2, <1>3, <1>4
    <2> QED BY <1>1, <1>3, <1>7, <2>1 DEF Surrounded
  <1> QED BY <1>1, <1>5, <1>6, <1>8 DEF k, end

\* The end of a block stays ahead as long as its depth is not left.
LEMMA ClosingOn ==
  ASSUME text \in Texts, NEW p \in Nat, NEW end, NEW d \in Nat, Closing(p, end, d),
         NEW r \in Nat, p <= r, \A q \in p .. r - 1 : Depth(q + 1) >= d
  PROVE  Closing(r, end, d)
  <1>1. /\ end \in p .. Len(text) /\ Depth(end + 1) = d - 1
        /\ \A q \in p .. end - 1 : Depth(q + 1) >= d
    BY DEF Closing
  <1>2. Len(text) \in Nat
    BY LenProperties DEF Texts
  <1>3. end \in r .. Len(text)
    <2>1. end \notin p .. r - 1
      BY <1>1
    <2> QED BY <1>1, <1>2, <2>1
  <1>4. \A q \in r .. end - 1 : q \in p .. end - 1
    BY <1>1, <1>2
  <1> QED BY <1>1, <1>3, <1>4 DEF Closing

\* A line that was accepted.
LEMMA LineAccepted ==
  ASSUME text \in Texts, NEW p \in 1 .. Len(text), AtLine(p), Checked(p),
         NEW d \in {1, 2}, Depth(p) = d, d = 1 => text[p] # "location",
         NEW end, Surrounded(p, end, d),
         EnoughWords(WordsEnd(p) - p), text[WordsEnd(p)] = SEMICOLON
  PROVE  LET k == WordsEnd(p) + 1
         IN  /\ k \in 1 .. Len(text) + 1 /\ p <= k /\ text[k - 1] = SEMICOLON
             /\ AtLine(k) /\ Checked(k) /\ Depth(k) = d /\ Surrounded(k, end, d)
             /\ \A q \in p .. k - 1 : Depth(q + 1) = d
  <1>1. Len(text) \in Nat
    BY LenProperties DEF Texts
  <1>2. end \in p .. Len(text)
    BY DEF Surrounded
  <1>3. \E q \in p .. Len(text) : ~Word(text[q])
    <2>1. CASE ~Word(text[p])
      BY <1>1, <2>1
    <2>2. CASE Word(text[p])
      <3>1. Closing(p, end, d)
        BY <2>2 DEF Surrounded
      <3>2. ASSUME \A q \in p .. Len(text) : Word(text[q]) PROVE FALSE
        <4>1. end + 1 \in Nat /\ p <= end + 1 /\ p \in Nat \ {0}
          BY <1>1, <1>2
        <4>2. \A q \in p .. (end + 1) - 1 : Word(text[q])
          BY <1>1, <1>2, <3>2
        <4>3. Depth(end + 1) = d
          BY <4>1, <4>2, WordsDepth
        <4> QED BY <3>1, <4>3 DEF Closing
      <3> QED BY <3>2
    <2> QED BY <2>1, <2>2
  <1> DEFINE e == WordsEnd(p)
  <1>4. e \in p .. Len(text) /\ ~Word(text[e]) /\ \A q \in p .. e - 1 : Word(text[q])
    BY <1>3, WordsEndIs
  <1>5. e - p > 1 /\ text[e] = SEMICOLON
    BY DEF EnoughWords
  <1> HIDE DEF e
  <1>6. e \in Nat \ {0} /\ p \in Nat \ {0} /\ p <= e - 2 /\ p <= e
    BY <1>1, <1>4, <1>5
  <1>7. ASSUME NEW q \in p .. e PROVE Depth(q + 1) = d
    <2>1. CASE q = e
      <3>1. Depth(e) = d
        BY <1>4, <1>6, WordsDepth
      <3>2. Depth(e + 1) = Depth(e) + (IF text[e] = OPEN_BRACKET THEN 1
                                       ELSE IF text[e] = CLOSE_BRACKET THEN -1 ELSE 0)
        BY <1>6, DepthNext
      <3> QED BY <1>5, <2>1, <3>1, <3>2, MarksDiffer
    <2>2. CASE q # e
      <3>1. q + 1 \in Nat /\ p <= q + 1 /\ \A j \in p .. (q + 1) - 1 : Word(text[j])
        BY <1>4, <1>6, <2>2
      <3> QED BY <1>6, <3>1, WordsDepth
    <2> QED BY <2>1, <2>2
  <1>8. Word(text[p]) /\ Closing(p, end, d)
    <2>1. p \in p .. e - 1
      BY <1>6
    <2> QED BY <1>4, <2>1 DEF Surrounded
  <1> DEFINE k == e + 1
  <1>9. k \in Nat \ {0} /\ p <= k /\ k - 1 = e /\ k \in 1 .. Len(text) + 1
    BY <1>1, <1>4, <1>6
  <1> HIDE DEF k
  <1>10. Closing(k, end, d)
    BY <1>6, <1>7, <1>8, <1>9, ClosingOn
  <1>11. Surrounded(k, end, d)
    BY <1>5, <1>9, <1>10, MarksDiffer DEF Surrounded, Closing
  <1>12. AtLine(k)
    BY <1>4, <1>9 DEF AtLine
  <1>13. ASSUME NEW j \in 1 .. k - 1 PROVE WellPlaced(j)
    <2>1. CASE j < p
      BY <1>6, <1>9, <2>1 DEF Checked
    <2>2. CASE j = e
      <3>1. LineStart(e) = p /\ Depth(e) = d
        BY <1>4, <1>6, LineStartIs, WordsDepth
      <3>2. MayEnd(e)
        BY <1>6, <3>1 DEF MayEnd
      <3> QED BY <1>4, <1>5, <2>2, <3>2, MarksDiffer DEF WellPlaced
    <2>3. CASE j \in p .. e - 1
      <3>1. Word(text[j]) /\ j < Len(text)
        BY <1>1, <1>4, <2>3
      <3>2. text[j + 1] # CLOSE_BRACKET
        <4>1. CASE j + 1 = e
          BY <1>5, <4>1, MarksDiffer
        <4>2. CASE j + 1 # e
          <5>1. j + 1 \in p .. e - 1
            BY <1>6, <2>3, <4>2
          <5> QED BY <1>4, <5>1, MarksAre
        <4> QED BY <4>1, <4>2
      <3> QED BY <3>1, <3>2, MarksAre DEF WellPlaced
    <2> QED BY <1>6, <1>9, <2>1, <2>2, <2>3
  <1>14. Checked(k)
    BY <1>13 DEF Checked
  <1>15. Depth(k) = d
    BY <1>6, <1>7, <1>9
  <1>16. \A q \in p .. k - 1 : Depth(q + 1) = d
    BY <1>7, <1>9
  <1> QED BY <1>5, <1>9, <1>11, <1>12, <1>14, <1>15, <1>16 DEF e, k

\* A line that is refused is wrong.
LEMMA LineRefused ==
  ASSUME text \in Texts, WellFormed, NEW p \in 1 .. Len(text), AtLine(p),
         NEW d \in {1, 2}, Depth(p) = d, d = 1 => text[p] # "location",
         NEW end, Surrounded(p, end, d), p # end
  PROVE  EnoughWords(WordsEnd(p) - p) /\ text[WordsEnd(p)] = SEMICOLON
  <1>1. Len(text) \in Nat
    BY LenProperties DEF Texts
  <1>2. CASE Closing(p, end, d)
    <2>1. Depth(p + 1) >= d
      BY <1>1, <1>2 DEF Closing
    <2>2. Depth(p + 1) = Depth(p) + (IF text[p] = OPEN_BRACKET THEN 1
                                     ELSE IF text[p] = CLOSE_BRACKET THEN -1 ELSE 0)
      <3>1. p \in Nat \ {0}
        BY <1>1
      <3> QED BY <3>1, DepthNext
    <2>3. text[p] # CLOSE_BRACKET
      BY <2>1, <2>2, MarksDiffer
    <2> QED BY <2>3, OtherLine
  <1>3. CASE text[p - 1] = OPEN_BRACKET /\ ~Word(text[p])
    <2> DEFINE o == p - 1
    <2>1. p # 1
      BY DepthFirst
    <2>2. o \in 1 .. Len(text) /\ o + 1 = p
      BY <1>1, <2>1
    <2> HIDE DEF o
    <2>3. text[o] = OPEN_BRACKET
      BY <1>3 DEF o
    <2>4. Word(text[o + 1])
      BY <2>2, <2>3, FirstIsWord
    <2> QED BY <1>3, <2>2, <2>4
  <1> QED BY <1>2, <1>3 DEF Surrounded

-----------------------------------------------------------------------------
(* Each step. *)

\* The invariant of the reading and of the check.
Inv == Typed /\ Walk /\ SyntaxDecides

\* The check ends.
LEMMA Refusal ==
  ASSUME Inv, phase \in Checking, ~WellFormed,
         NEW how \in {"rejected", "overrun"}, End(how)
  PROVE  Inv'
  <1>1. text' = text /\ file' = file /\ close' = close /\ phase' = how
    BY DEF End, source
  <1>2. ~WellFormed'
    BY <1>1, SameText
  <1>3. Typed'
    BY <1>1 DEF Inv, Typed
  <1>4. Walk'
    BY <1>1 DEF Walk, Checking
  <1>5. SyntaxDecides'
    BY <1>1, <1>2 DEF SyntaxDecides
  <1> QED BY <1>3, <1>4, <1>5 DEF Inv

\* The check goes on from p.
LEMMA GoesOn ==
  ASSUME Inv, phase \in Checking, NEW p \in 1 .. Len(text) + 1, AtLine(p), Checked(p),
         NEW loop \in Checking, GoTo(loop, p), close' \in [{"server", "location"} -> Nat],
         loop = "syntax" => Depth(p) = 0,
         loop = "syntaxServerBlock" => Depth(p) = 1 /\ Surrounded(p, close'["server"], 1),
         loop = "syntaxLocationBlock" =>
           /\ Depth(p) = 2 /\ Surrounded(p, close'["location"], 2)
           /\ text[p - 1] # CLOSE_BRACKET /\ Closing(p, close'["server"], 1)
  PROVE  Inv'
  <1>1. text' = text /\ file' = file /\ block' = block /\ phase' = loop /\ it' = p
    BY DEF GoTo, source
  <1>2. Typed'
    BY <1>1 DEF Inv, Typed
  <1>3. block = 0
    BY DEF Inv, Walk
  <1>4. /\ Depth(it)' = Depth(p) /\ (AtLine(it)' <=> AtLine(p)) /\ (Checked(it)' <=> Checked(p))
        /\ \A end, d : Closing(it, end, d)' <=> Closing(p, end, d)
    BY <1>1, SameText DEF Checked
  <1>5. /\ phase' = "syntaxServerBlock" => Surrounded(it, close["server"], 1)'
        /\ phase' = "syntaxLocationBlock" =>
             /\ Surrounded(it, close["location"], 2)' /\ text'[it' - 1] # CLOSE_BRACKET
             /\ Closing(it, close["server"], 1)'
    BY <1>1, <1>4 DEF Surrounded, Word
  <1>6. it' \in 1 .. Len(text') + 1
    BY <1>1
  <1>7. loop \in {"syntax", "syntaxServerBlock", "syntaxLocationBlock"}
    BY DEF Checking
  <1>8. Walk'
    BY <1>1, <1>3, <1>4, <1>5, <1>6, <1>7 DEF Walk, Checking
  <1>9. SyntaxDecides'
    BY <1>1, <1>7 DEF SyntaxDecides
  <1> QED BY <1>2, <1>8, <1>9 DEF Inv

\* A turn of syntax() keeps the invariant.
LEMMA CheckTextStep ==
  ASSUME Inv, CheckText
  PROVE  Inv'
  <1>1. /\ text \in Texts /\ close \in [{"server", "location"} -> Nat]
        /\ phase = "syntax" /\ phase \in Checking /\ "syntaxServerBlock" \in Checking
        /\ it \in 1 .. Len(text) + 1 /\ AtLine(it) /\ Checked(it) /\ Depth(it) = 0
    BY DEF Inv, Typed, Walk, CheckText, Checking
  <1>2. Len(text) \in Nat
    BY <1>1, LenProperties DEF Texts
  <1>d. DOMAIN text = 1 .. Len(text)
    BY <1>1, LenProperties DEF Texts
  <1>3. CASE it = PastEnd /\ GoTo("settings", 1) /\ close' = close
    <2>1. text' = text /\ file' = file /\ phase' = "settings" /\ it' = 1
      BY <1>3 DEF GoTo, source
    <2>2. WellFormed
      <3>1. it = Len(text) + 1 /\ (Len(text) + 1) - 1 = Len(text)
        BY <1>2, <1>3 DEF PastEnd
      <3>2. \A k \in DOMAIN text : WellPlaced(k)
        BY <1>1, <1>d, <3>1 DEF Checked
      <3> QED BY <1>1, <1>3, <3>2 DEF WellFormed
    <2>3. WellFormed'
      BY <2>1, <2>2, SameText
    <2>4. Typed' /\ Walk' /\ SyntaxDecides'
      BY <1>1, <1>3, <2>1, <2>3 DEF Inv, Typed, Walk, SyntaxDecides, Checking
    <2> QED BY <2>4 DEF Inv
  <1>4. ASSUME it # PastEnd PROVE it \in 1 .. Len(text)
    <2>1. it # Len(text) + 1 /\ it \in 1 .. Len(text) + 1
      BY <1>1, <1>4 DEF PastEnd
    <2> QED BY <1>2, <2>1
  <1>5. CASE it # PastEnd /\ text[it] # "server" /\ End("rejected")
    <2>1. ~WellFormed
      BY <1>1, <1>4, <1>5, ServerLine
    <2> QED BY <1>1, <1>5, <2>1, Refusal
  <1>6. CASE it # PastEnd /\ text[it] = "server" /\ EnterSyntax("server", "syntaxServerBlock", it + 2)
    <2> DEFINE end == FindBlockEnd(it)
               o   == it + 1
    <2>1. o = Opening(it) /\ o \in Nat \ {0} /\ it \in Nat \ {0} /\ it + 2 = o + 1
      <3>1. it \in Nat \ {0}
        BY <1>1, <1>2
      <3>2. text[it] # "location"
        BY <1>6
      <3>3. o = Opening(it)
        BY <3>1, <3>2 DEF Opening
      <3> QED BY <3>1, <3>3
    <2>2. Word(text[it])
      BY <1>6, MarksDiffer DEF Word
    <2>3. Depth(o) = 0 /\ LineStart(o) = it
      <3>1. o \in Nat /\ it <= o /\ \A q \in it .. o - 1 : Word(text[q])
        BY <2>1, <2>2
      <3> HIDE DEF o
      <3> QED BY <1>1, <2>1, <3>1, WordsDepth, LineStartIs
    <2>4. ASSUME WellFormed PROVE end \notin {PastEnd, Throws}
      <3>1. o \in 1 .. Len(text) /\ text[o] = OPEN_BRACKET
        BY <1>1, <1>4, <1>6, <2>4, ServerLine
      <3> HIDE DEF o
      <3> QED BY <1>1, <2>1, <2>4, <3>1, EndFound
    <2>5. CASE end = PastEnd /\ End("overrun")
      BY <1>1, <2>4, <2>5, Refusal
    <2>6. CASE end = Throws /\ End("rejected")
      BY <1>1, <2>4, <2>6, Refusal
    <2>7. CASE /\ end \notin {PastEnd, Throws} /\ close' = [close EXCEPT !["server"] = end]
               /\ GoTo("syntaxServerBlock", it + 2)
      <3> HIDE DEF o
      <3>1. /\ o \in 1 .. Len(text) /\ o # Len(text) /\ text[o] = OPEN_BRACKET
            /\ AtLine(o + 1) /\ Depth(o + 1) = 1 /\ Surrounded(o + 1, end, 1)
        <4>1. Depth(o) = 1 - 1 /\ 1 \in Nat
          BY <2>3
        <4> HIDE DEF end
        <4>2. FindBlockEnd(it) \notin {PastEnd, Throws}
          BY <2>7 DEF end
        <4> QED BY <1>1, <2>1, <4>1, <4>2, Entered DEF end
      <3>2. Checked(o + 1)
        <4>1. MayOpen(o)
          <5>1. o - 1 = it
            BY <2>1 DEF o
          <5> QED BY <1>6, <2>3, <5>1 DEF MayOpen
        <4>2. WellPlaced(o)
          BY <3>1, <4>1, MarksDiffer, MarksAre DEF WellPlaced
        <4>3. WellPlaced(it)
          <5>1. it < Len(text) /\ text[it + 1] = OPEN_BRACKET
            <6>1. it + 1 = o /\ o <= Len(text) /\ it < o
              BY <1>2, <2>1, <3>1 DEF o
            <6> QED BY <1>2, <2>1, <3>1, <6>1
          <5> QED BY <2>2, <5>1, MarksDiffer, MarksAre DEF WellPlaced
        <4>4. \A k \in 1 .. (o + 1) - 1 : k = o \/ k = it \/ k \in 1 .. it - 1
          BY <2>1 DEF o
        <4> QED BY <1>1, <4>2, <4>3, <4>4 DEF Checked
      <3>3. end \in Nat
        BY <1>2, <2>1, <3>1 DEF Surrounded
      <3>4. close' \in [{"server", "location"} -> Nat] /\ close'["server"] = end
        <4> HIDE DEF end
        <4>1. close' = [close EXCEPT !["server"] = end]
          BY <2>7
        <4> QED BY <1>1, <3>3, <4>1
      <3>5. o + 1 \in 1 .. Len(text) + 1
        BY <1>2, <3>1
      <3>6. GoTo("syntaxServerBlock", o + 1)
        BY <2>1, <2>7
      <3> QED BY <1>1, <3>1, <3>2, <3>4, <3>5, <3>6, GoesOn
    <2> QED BY <1>6, <2>5, <2>6, <2>7 DEF EnterSyntax
  <1> QED BY <1>3, <1>5, <1>6 DEF CheckText

\* A line of a block: it is accepted and passed, or refused.
LEMMA CheckLineStep ==
  ASSUME Inv, NEW d \in {1, 2},
         phase = (IF d = 1 THEN "syntaxServerBlock" ELSE "syntaxLocationBlock"),
         it # close[IF d = 1 THEN "server" ELSE "location"],
         d = 1 => text[it] # "location", CheckLine
  PROVE  Inv'
  <1> DEFINE p   == it
             end == close[IF d = 1 THEN "server" ELSE "location"]
             e   == WordsEnd(it)
             k   == e + 1
  <1>1. /\ text \in Texts /\ close \in [{"server", "location"} -> Nat] /\ phase \in Checking
        /\ AtLine(p) /\ Checked(p) /\ Depth(p) = d /\ Surrounded(p, end, d)
        /\ d = 2 => Closing(p, close["server"], 1)
        /\ p \in 1 .. Len(text) + 1
    BY DEF Inv, Typed, Walk, Checking
  <1>2. Len(text) \in Nat /\ p \in Nat
    BY <1>1, LenProperties DEF Texts
  <1>3. p \in 1 .. Len(text)
    BY <1>1, <1>2 DEF Surrounded
  <1>4. CASE ~(EnoughWords(e - p) /\ text[e] = SEMICOLON) /\ End("rejected")
    <2>1. ~WellFormed
      BY <1>1, <1>3, <1>4, LineRefused
    <2> QED BY <1>1, <1>4, <2>1, Refusal
  <1>5. CASE EnoughWords(e - p) /\ text[e] = SEMICOLON /\ GoTo(phase, k) /\ close' = close
    <2>1. /\ k \in 1 .. Len(text) + 1 /\ p <= k /\ text[k - 1] = SEMICOLON
          /\ AtLine(k) /\ Checked(k) /\ Depth(k) = d /\ Surrounded(k, end, d)
          /\ \A q \in p .. k - 1 : Depth(q + 1) = d
      BY <1>1, <1>3, <1>5, LineAccepted
    <2> HIDE DEF k, p
    <2>2. ASSUME d = 2 PROVE Closing(k, close["server"], 1)
      <3>1. \A q \in p .. k - 1 : Depth(q + 1) >= 1
        BY <2>1, <2>2
      <3>2. k \in Nat /\ 1 \in Nat
        BY <1>2, <2>1
      <3> QED BY <1>1, <1>2, <2>1, <2>2, <3>1, <3>2, ClosingOn
    <2>3. CASE d = 1
      BY <1>1, <1>5, <2>1, <2>3, GoesOn
    <2>4. CASE d = 2
      BY <1>1, <1>5, <2>1, <2>2, <2>4, MarksDiffer, GoesOn
    <2> QED BY <2>3, <2>4
  <1> QED BY <1>4, <1>5 DEF CheckLine

\* A turn of syntaxLocationBlock keeps the invariant.
LEMMA CheckLocationBlockStep ==
  ASSUME Inv, CheckLocationBlock
  PROVE  Inv'
  <1> DEFINE end == close["location"]
             k   == it + 1
  <1>1. /\ text \in Texts /\ close \in [{"server", "location"} -> Nat]
        /\ phase = "syntaxLocationBlock" /\ phase \in Checking /\ "syntaxServerBlock" \in Checking
        /\ it \in 1 .. Len(text) + 1 /\ AtLine(it) /\ Checked(it) /\ Depth(it) = 2
        /\ Surrounded(it, end, 2) /\ text[it - 1] # CLOSE_BRACKET
        /\ Closing(it, close["server"], 1)
    BY DEF Inv, Typed, Walk, Checking, CheckLocationBlock
  <1>2. Len(text) \in Nat /\ it \in Nat \ {0}
    BY <1>1, LenProperties DEF Texts
  <1>3. CASE it = end /\ GoTo("syntaxServerBlock", it + 1) /\ close' = close
    <2>1. text[it - 1] # OPEN_BRACKET /\ Closing(it, end, 2)
      BY <1>1, <1>2, <1>3 DEF Surrounded
    <2>2. Depth(k) = 1 /\ it \in 1 .. Len(text)
      BY <1>2, <1>3, <2>1 DEF Closing
    <2>3. text[it] = CLOSE_BRACKET
      <3>1. Depth(k) = Depth(it) + (IF text[it] = OPEN_BRACKET THEN 1
                                    ELSE IF text[it] = CLOSE_BRACKET THEN -1 ELSE 0)
        BY <1>2, DepthNext
      <3> QED BY <1>1, <2>2, <3>1
    <2>4. text[it - 1] = SEMICOLON
      <3>1. it # 1
        BY <1>1, DepthFirst
      <3> QED BY <1>1, <2>1, <3>1, MarksAre DEF AtLine
    <2>5. WellPlaced(it)
      BY <1>1, <2>3, <2>4, MarksDiffer, MarksAre DEF WellPlaced, MayClose
    <2> HIDE DEF k
    <2>6. k \in 1 .. Len(text) + 1 /\ k - 1 = it /\ k \in Nat /\ it <= k
      BY <1>2, <2>2 DEF k
    <2>7. Checked(k)
      <3>1. \A j \in 1 .. k - 1 : j = it \/ j \in 1 .. it - 1
        BY <1>2, <2>6
      <3> QED BY <1>1, <2>5, <3>1 DEF Checked
    <2>8. AtLine(k)
      BY <2>3, <2>6, MarksAre DEF AtLine
    <2>9. Closing(k, close["server"], 1)
      <3>1. \A q \in it .. k - 1 : Depth(q + 1) >= 1
        BY <1>2, <2>2, <2>6 DEF k
      <3> QED BY <1>1, <1>2, <2>6, <3>1, ClosingOn
    <2>10. Surrounded(k, close["server"], 1)
      BY <2>3, <2>6, <2>9, MarksDiffer DEF Surrounded, Closing
    <2>11. GoTo("syntaxServerBlock", k)
      BY <1>3 DEF k
    <2> QED BY <1>1, <1>3, <2>2, <2>6, <2>7, <2>8, <2>10, <2>11, GoesOn
  <1>4. CASE it # end /\ CheckLine
    BY <1>1, <1>4, CheckLineStep
  <1> QED BY <1>3, <1>4 DEF CheckLocationBlock

\* syntaxServerBlock keeps the invariant where it comes upon a location.
LEMMA EnterLocation ==
  ASSUME Inv, phase = "syntaxServerBlock", it # close["server"], text[it] = "location",
         EnterSyntax("location", "syntaxLocationBlock", it + 3)
  PROVE  Inv'
  <1> DEFINE end == FindBlockEnd(it)
             o   == it + 2
  <1>1. /\ text \in Texts /\ close \in [{"server", "location"} -> Nat]
        /\ phase \in Checking /\ "syntaxLocationBlock" \in Checking
        /\ it \in 1 .. Len(text) + 1 /\ AtLine(it) /\ Checked(it) /\ Depth(it) = 1
        /\ Surrounded(it, close["server"], 1)
    BY DEF Inv, Typed, Walk, Checking
  <1>2. Len(text) \in Nat /\ it \in Nat \ {0}
    BY <1>1, LenProperties DEF Texts
  <1>3. it \in 1 .. Len(text)
    BY <1>1, <1>2 DEF Surrounded
  <1>4. Word(text[it])
    BY MarksDiffer DEF Word
  <1>5. o = Opening(it) /\ o \in Nat \ {0} /\ it + 3 = o + 1 /\ it <= o
    BY <1>2 DEF Opening
  <1>6. ASSUME WellFormed PROVE end \notin {PastEnd, Throws} /\ IsPath(text[it + 1])
    <2>1. o \in 1 .. Len(text) /\ text[o] = OPEN_BRACKET /\ IsPath(text[it + 1])
      BY <1>1, <1>3, <1>6, LocationLine
    <2> HIDE DEF o
    <2> QED BY <1>1, <1>5, <1>6, <2>1, EndFound
  <1>7. CASE end = PastEnd /\ End("overrun")
    BY <1>1, <1>6, <1>7, Refusal
  <1>8. CASE end = Throws /\ End("rejected")
    BY <1>1, <1>6, <1>8, Refusal
  <1>9. CASE ~IsPath(text[it + 1]) /\ End("rejected")
    BY <1>1, <1>6, <1>9, Refusal
  <1>10. CASE /\ end \notin {PastEnd, Throws} /\ IsPath(text[it + 1])
              /\ close' = [close EXCEPT !["location"] = end]
              /\ GoTo("syntaxLocationBlock", it + 3)
    <2>1. Word(text[it + 1])
      BY <1>10, WordsAssumption DEF IsPath, Word
    <2>2. \A q \in it .. o - 1 : Word(text[q])
      <3>1. \A q \in it .. o - 1 : q = it \/ q = it + 1
        BY <1>2
      <3> QED BY <1>4, <2>1, <3>1
    <2>3. o - 2 = it /\ o - 1 = it + 1
      BY <1>2
    <2> HIDE DEF o
    <2>4. Depth(o) = 1 /\ LineStart(o) = it
      BY <1>1, <1>2, <1>5, <2>2, WordsDepth, LineStartIs
    <2>5. /\ o \in 1 .. Len(text) /\ o # Len(text) /\ text[o] = OPEN_BRACKET
          /\ AtLine(o + 1) /\ Depth(o + 1) = 2 /\ Surrounded(o + 1, end, 2)
      <3>1. Depth(o) = 2 - 1 /\ 2 \in Nat
        BY <2>4
      <3> HIDE DEF end
      <3>2. FindBlockEnd(it) \notin {PastEnd, Throws}
        BY <1>10 DEF end
      <3> QED BY <1>1, <1>5, <3>1, <3>2, Entered DEF end
    <2>6. Checked(o + 1)
      <3>1. MayOpen(o)
        BY <1>10, <2>3, <2>4 DEF MayOpen
      <3>2. WellPlaced(o)
        BY <2>5, <3>1, MarksDiffer, MarksAre DEF WellPlaced
      <3>3. WellPlaced(it)
        <4>1. it < Len(text)
          BY <1>2, <2>3, <2>5
        <4>2. text[it + 1] # CLOSE_BRACKET
          BY <2>1, MarksAre
        <4> QED BY <1>4, <4>1, <4>2, MarksAre DEF WellPlaced
      <3>4. WellPlaced(it + 1)
        <4>1. it + 1 < Len(text) /\ (it + 1) + 1 = o
          BY <1>2, <2>3, <2>5
        <4> QED BY <2>1, <2>5, <4>1, MarksDiffer, MarksAre DEF WellPlaced
      <3>5. \A k \in 1 .. (o + 1) - 1 : k = o \/ k = it + 1 \/ k = it \/ k \in 1 .. it - 1
        BY <1>2, <2>3, <1>5
      <3> QED BY <1>1, <3>2, <3>3, <3>4, <3>5 DEF Checked
    <2>7. Closing(o + 1, close["server"], 1)
      <3>1. Closing(it, close["server"], 1)
        BY <1>1, <1>4 DEF Surrounded
      <3>2. ASSUME NEW q \in it .. (o + 1) - 1 PROVE Depth(q + 1) >= 1
        <4>1. CASE q = o
          BY <2>5, <4>1
        <4>2. CASE q # o
          <5>1. q + 1 \in Nat /\ it <= q + 1 /\ \A j \in it .. (q + 1) - 1 : Word(text[j])
            BY <1>2, <1>5, <2>2, <4>2
          <5>2. Depth(q + 1) = Depth(it)
            BY <1>2, <5>1, WordsDepth
          <5> QED BY <1>1, <5>2
        <4> QED BY <4>1, <4>2
      <3>3. o + 1 \in Nat /\ it <= o + 1 /\ 1 \in Nat /\ it \in Nat
        BY <1>2, <1>5
      <3> QED BY <1>1, <3>1, <3>2, <3>3, ClosingOn
    <2>8. end \in Nat
      BY <1>5, <2>5 DEF Surrounded
    <2>9. /\ close' \in [{"server", "location"} -> Nat] /\ close'["location"] = end
          /\ close'["server"] = close["server"]
      <3> HIDE DEF end
      <3>1. close' = [close EXCEPT !["location"] = end]
        BY <1>10
      <3> QED BY <1>1, <2>8, <3>1
    <2>10. o + 1 \in 1 .. Len(text) + 1 /\ (o + 1) - 1 = o
      BY <1>2, <2>5
    <2>11. GoTo("syntaxLocationBlock", o + 1)
      BY <1>5, <1>10
    <2> HIDE DEF end
    <2> QED BY <1>1, <2>5, <2>6, <2>7, <2>9, <2>10, <2>11, MarksDiffer, GoesOn
  <1> QED BY <1>7, <1>8, <1>9, <1>10 DEF EnterSyntax

\* A turn of syntaxServerBlock keeps the invariant.
LEMMA CheckServerBlockStep ==
  ASSUME Inv, CheckServerBlock
  PROVE  Inv'
  <1> DEFINE end == close["server"]
             k   == it + 1
  <1>1. /\ text \in Texts /\ close \in [{"server", "location"} -> Nat]
        /\ phase = "syntaxServerBlock" /\ phase \in Checking /\ "syntax" \in Checking
        /\ it \in 1 .. Len(text) + 1 /\ AtLine(it) /\ Checked(it) /\ Depth(it) = 1
        /\ Surrounded(it, end, 1)
    BY DEF Inv, Typed, Walk, Checking, CheckServerBlock
  <1>2. Len(text) \in Nat /\ it \in Nat \ {0}
    BY <1>1, LenProperties DEF Texts
  <1>3. CASE it = end /\ GoTo("syntax", it + 1) /\ close' = close
    <2>1. text[it - 1] # OPEN_BRACKET /\ Closing(it, end, 1)
      BY <1>1, <1>2, <1>3 DEF Surrounded
    <2>2. Depth(k) = 0 /\ it \in 1 .. Len(text)
      BY <1>2, <1>3, <2>1 DEF Closing
    <2>3. text[it] = CLOSE_BRACKET
      <3>1. Depth(k) = Depth(it) + (IF text[it] = OPEN_BRACKET THEN 1
                                    ELSE IF text[it] = CLOSE_BRACKET THEN -1 ELSE 0)
        BY <1>2, DepthNext
      <3> QED BY <1>1, <2>2, <3>1
    <2>4. text[it - 1] \in {SEMICOLON, CLOSE_BRACKET}
      <3>1. it # 1
        BY <1>1, DepthFirst
      <3> QED BY <1>1, <2>1, <3>1, MarksAre DEF AtLine
    <2>5. WellPlaced(it)
      BY <1>1, <2>3, <2>4, MarksDiffer, MarksAre DEF WellPlaced, MayClose
    <2> HIDE DEF k
    <2>6. k \in 1 .. Len(text) + 1 /\ k - 1 = it
      BY <1>2, <2>2 DEF k
    <2>7. Checked(k)
      <3>1. \A j \in 1 .. k - 1 : j = it \/ j \in 1 .. it - 1
        BY <1>2, <2>6
      <3> QED BY <1>1, <2>5, <3>1 DEF Checked
    <2>8. AtLine(k)
      BY <2>3, <2>6, MarksAre DEF AtLine
    <2>9. GoTo("syntax", k)
      BY <1>3 DEF k
    <2> QED BY <1>1, <1>3, <2>2, <2>6, <2>7, <2>8, <2>9, GoesOn
  <1>4. CASE it # end /\ text[it] = "location" /\ EnterSyntax("location", "syntaxLocationBlock", it + 3)
    BY <1>1, <1>4, EnterLocation
  <1>5. CASE it # end /\ text[it] # "location" /\ CheckLine
    BY <1>1, <1>5, CheckLineStep
  <1> QED BY <1>3, <1>4, <1>5 DEF CheckServerBlock

\* The constructors leave the text alone, and run only on a text that was accepted.
LEMMA ReadStep ==
  ASSUME Inv, ReadText \/ ReadServerBlock \/ ReadLocationBlock
  PROVE  Inv'
  <1>1. /\ WellFormed /\ text' = text /\ file' = file /\ close' = close
    BY DEF Inv, SyntaxDecides, ReadText, ReadServerBlock, ReadLocationBlock, End, GoTo, Apply, source
  <1>2. /\ phase' \in {"read", "settings", "ServerSettings", "LocationSettings", "invalid", "overrun"}
        /\ phase' \in {"ServerSettings", "LocationSettings", "overrun"} => block' # 0
        /\ phase' = "settings" => it' # 0
    <2>1. CASE ReadText
      BY <2>1 DEF Inv, Walk, ReadText, End
    <2>2. CASE ReadServerBlock
      <3>1. ASSUME Within(it) PROVE it + 1 # 0
        <4>1. it \in 1 .. Len(text) /\ Len(text) \in Nat
          BY <3>1, LenProperties DEF Inv, Typed, Texts, Within
        <4> QED BY <4>1
      <3> QED BY <2>2, <3>1 DEF Inv, Walk, ReadServerBlock, End, GoTo, Apply
    <2>3. CASE ReadLocationBlock
      BY <2>3 DEF Inv, Walk, ReadLocationBlock, End, GoTo, Apply
    <2> QED BY <2>1, <2>2, <2>3
  <1>3. WellFormed'
    BY <1>1, SameText
  <1>4. Typed'
    BY <1>1 DEF Inv, Typed
  <1>5. Walk' /\ SyntaxDecides'
    BY <1>2, <1>3 DEF Walk, SyntaxDecides, Checking
  <1> QED BY <1>4, <1>5 DEF Inv

\* A turn of tokenizeStream adds tokens to the list.
LEMMA ReadChunkType ==
  ASSUME text \in Texts, file \in Texts, ReadChunk
  PROVE  text' \in Texts /\ file' = file
  <1>1. PICK from \in {NextOther(Blanks, at)} \cap DOMAIN file :
          LET end  == NextOf(Blanks, from)
              sign == NextOf({"#"}, from)
          IN  /\ \E kept \in {SubSeq(file, from, (IF sign < end THEN sign ELSE end) - 1)} :
                   text' = text \o Split(kept)
              /\ UNCHANGED file
    BY DEF ReadChunk
  <1>2. Len(file) \in Nat /\ from \in 1 .. Len(file)
    BY LenProperties DEF Texts
  <1>3. \A symbols : NextOf(symbols, from) \in from .. Len(file) + 1
    <2> TAKE symbols
    <2> DEFINE T == {q \in from .. Len(file) : file[q] \in symbols} \cup {FileEnd}
    <2>1. T \subseteq from .. Len(file) + 1 /\ T # {} /\ T \subseteq Nat
      BY <1>2 DEF FileEnd
    <2> HIDE DEF T
    <2>2. Least(T) \in T
      BY <2>1, LeastIs
    <2> QED BY <2>1, <2>2 DEF NextOf, T
  <1> DEFINE end  == NextOf(Blanks, from)
             sign == NextOf({"#"}, from)
             to   == IF sign < end THEN sign ELSE end
             kept == SubSeq(file, from, to - 1)
  <1>4. end \in from .. Len(file) + 1 /\ sign \in from .. Len(file) + 1
    BY <1>3
  <1> HIDE DEF end, sign
  <1>5. to \in from .. Len(file) + 1
    BY <1>4
  <1>6. text' = text \o Split(kept) /\ file' = file
    BY <1>1 DEF end, sign
  <1> HIDE DEF to
  <1>7. kept \in Texts
    <2>1. \A k \in from .. to - 1 : k \in 1 .. Len(file)
      BY <1>2, <1>5
    <2>2. from \in Nat /\ to - 1 \in Nat
      BY <1>2, <1>5
    <2> QED BY <2>1, <2>2, SubSeqProperties DEF Texts
  <1> HIDE DEF kept
  <1>8. text \o Split(kept) \in Texts
    BY <1>7, SplitType, ConcatProperties DEF Texts
  <1> QED BY <1>6, <1>8

\* A turn of tokenizeStream keeps the invariant; the last one hands over the text.
LEMMA TokenizeStep ==
  ASSUME Inv, Tokenize
  PROVE  Inv'
  <1>1. text \in Texts /\ file \in Texts /\ phase = "tokens" /\ block = 0
    BY DEF Inv, Typed, Walk, Tokenize
  <1>2. CASE ReadChunk /\ UNCHANGED <<phase, it, close, block, owner, places, applied>>
    <2>1. text' \in Texts /\ file' \in Texts
      BY <1>1, <1>2, ReadChunkType
    <2>2. Typed'
      BY <1>2, <2>1 DEF Inv, Typed
    <2>3. Walk' /\ SyntaxDecides'
      BY <1>1, <1>2 DEF Walk, SyntaxDecides, Checking
    <2> QED BY <2>2, <2>3 DEF Inv
  <1>3. CASE StreamEnds /\ GoTo("syntax", 1) /\ close' = close
    <2>1. text' = text /\ file' = file /\ phase' = "syntax" /\ it' = 1 /\ block' = 0
      BY <1>1, <1>3 DEF GoTo, source
    <2>2. Depth(it)' = 0
      BY <2>1, DepthFirst, SameText
    <2>3. it' \in 1 .. Len(text') + 1 /\ AtLine(it)' /\ Checked(it)'
      <3>1. Len(text') \in Nat
        BY <1>1, <2>1, LenProperties DEF Texts
      <3>2. 1 .. 1 - 1 = {}
        OBVIOUS
      <3> QED BY <2>1, <3>1, <3>2 DEF AtLine, Checked
    <2>4. Typed'
      BY <1>3, <2>1 DEF Inv, Typed
    <2>5. Walk' /\ SyntaxDecides'
      BY <2>1, <2>2, <2>3 DEF Walk, SyntaxDecides, Checking
    <2> QED BY <2>4, <2>5 DEF Inv
  <1> QED BY <1>2, <1>3 DEF Tokenize

\* The invariant holds before the file is read.
LEMMA InitInv == Init => Inv
  <1> SUFFICES ASSUME Init PROVE Inv
    OBVIOUS
  <1>1. text \in Texts /\ file \in Texts
    BY FilesAssumption, EmptySeq DEF Init, InitTokens, Texts
  <1>2. close \in [{"server", "location"} -> Nat]
    BY DEF Init, Throws
  <1>3. Walk /\ SyntaxDecides
    BY DEF Init, Walk, SyntaxDecides, Checking
  <1> QED BY <1>1, <1>2, <1>3 DEF Inv, Typed

\* Every step of the two walks keeps the invariant.
LEMMA NextInv == Inv /\ [Next]_vars => Inv'
  <1> SUFFICES ASSUME Inv, [Next]_vars PROVE Inv'
    OBVIOUS
  <1>1. CASE Tokenize
    BY <1>1, TokenizeStep
  <1>2. CASE CheckText
    BY <1>2, CheckTextStep
  <1>3. CASE CheckServerBlock
    BY <1>3, CheckServerBlockStep
  <1>4. CASE CheckLocationBlock
    BY <1>4, CheckLocationBlockStep
  <1>5. CASE ReadText \/ ReadServerBlock \/ ReadLocationBlock
    BY <1>5, ReadStep
  <1>6. CASE UNCHANGED vars
    <2>1. text' = text /\ file' = file /\ close' = close /\ phase' = phase /\ it' = it /\ block' = block
      BY <1>6 DEF vars, source
    <2>2. WellFormed' <=> WellFormed
      BY <2>1, SameText
    <2>3. Typed' /\ SyntaxDecides'
      BY <2>1, <2>2 DEF Inv, Typed, SyntaxDecides
    <2>4. /\ Depth(it)' = Depth(it) /\ (AtLine(it)' <=> AtLine(it)) /\ (Checked(it)' <=> Checked(it))
          /\ \A end, d : Closing(it, end, d)' <=> Closing(it, end, d)
      BY <2>1, SameText DEF Checked
    <2>5. Walk'
      BY <2>1, <2>4 DEF Inv, Walk, Surrounded, Word, Checking
    <2> QED BY <2>3, <2>5 DEF Inv
  <1> QED BY <1>1, <1>2, <1>3, <1>4, <1>5, <1>6 DEF Next

\* The syntax check decides the language of WellFormed, whatever the file: nothing well-formed is
\* rejected or makes it read past the last token, and nothing else reaches the
\* constructors of the settings.
THEOREM SyntaxRight == Spec => []SyntaxDecides
<1>1. Inv => SyntaxDecides
  BY DEF Inv
<1> QED BY <1>1, InitInv, NextInv, PTL DEF Spec

-----------------------------------------------------------------------------
(* What the constructors should make of a text. *)

\* The settings made by values before p.
Before(p) == {a \in Meaning : a.value < p}

\* The constructors are at the start of a line, d deep, and what they have made are the
\* settings of the text so far, none of which a setter throws on.
Followed(p, d) ==
  /\ p \in 1 .. Len(text) + 1 /\ AtLine(p) /\ Depth(p) = d
  /\ applied = Before(p)
  /\ \A a \in Before(p) : ~Refuses(a.key, a.value)

\* The iterator p is in the block of depth d whose bracket follows the token b.
Inside(b, p, d) ==
  /\ b \in 1 .. p - 2 /\ text[b + 1] = OPEN_BRACKET /\ Depth(b + 1) = d - 1
  /\ \A j \in b + 2 .. p : Depth(j) >= d

\* A location begins between p and q.
Opens(p, q) == \E j \in p .. q : text[j] = OPEN_BRACKET /\ Depth(j) = 1

\* The server block at s has all that validateBlock asks for.
Furnished(s) ==
  /\ \E a \in Meaning : a.owner = s /\ text[a.key] = "listen"
  /\ \E a \in Meaning : a.owner = s /\ text[a.key] = "root"
  /\ \E j \in DOMAIN text : text[j] = OPEN_BRACKET /\ Depth(j) = 1 /\ OwnerOf(j) = s

\* All server blocks before p are.
FurnishedTo(p) == \A s \in 1 .. p - 1 : text[s] = "server" /\ Depth(s) = 0 => Furnished(s)

\* What holds of the constructors while they walk an accepted text whose locations
\* have known keys only.
Construction ==
  /\ phase = "settings" => Followed(it, 0) /\ FurnishedTo(it)
  /\ phase \in {"ServerSettings", "LocationSettings"} =>
       /\ text[block] = "server" /\ Inside(block, it, 1) /\ FurnishedTo(block)
  /\ phase = "ServerSettings" =>
       /\ Followed(it, 1)
       /\ places # {} <=> Opens(block + 2, it - 1)
  /\ phase = "LocationSettings" =>
       /\ Followed(it, 2) /\ Inside(owner, it, 2) /\ block + 2 <= owner

\* Nothing is made of a text before it is accepted.
Unapplied == phase \in Checking \cup {"tokens"} => applied = {}

\* With both, the settings follow the text.
Constructed == Unapplied /\ (WellFormed /\ KnownKeys => Construction /\ SettingsFollow)

\* What is said of a text depends on nothing but the text, here either.
LEMMA SameMeaning ==
  ASSUME text' = text
  PROVE  /\ KnownKeys' <=> KnownKeys
         /\ Sound' <=> Sound
         /\ Meaning' = Meaning
         /\ \A k, v : Refuses(k, v)' <=> Refuses(k, v)
         /\ \A p : Before(p)' = Before(p)
         /\ \A p : FurnishedTo(p)' <=> FurnishedTo(p)
         /\ \A b, p, d : Inside(b, p, d)' <=> Inside(b, p, d)
         /\ \A p, q : Opens(p, q)' <=> Opens(p, q)
  <1>1. /\ \A k : Depth(k)' = Depth(k)
        /\ \A k : LineStart(k)' = LineStart(k)
    BY SameText
  <1>2. \A k : OwnerOf(k)' = OwnerOf(k)
    BY <1>1 DEF OwnerOf
  <1>3. \A k : WordsEnd(k)' = WordsEnd(k)
    BY DEF WordsEnd, Word
  <1>4. \A k : ValueIn(k)' <=> ValueIn(k)
    BY <1>1, <1>3 DEF ValueIn, Word
  <1>5. Meaning' = Meaning
    BY <1>1, <1>2, <1>4 DEF Meaning
  <1>6. \A k, v : Refuses(k, v)' <=> Refuses(k, v)
    BY DEF Refuses
  <1>7. Sound' <=> Sound
    BY <1>1, <1>2, <1>5, <1>6 DEF Sound
  <1>8. KnownKeys' <=> KnownKeys
    BY <1>1 DEF KnownKeys, Word
  <1>9. \A p : Before(p)' = Before(p)
    BY <1>5 DEF Before
  <1>10. \A s : Furnished(s)' <=> Furnished(s)
    BY <1>1, <1>2, <1>5 DEF Furnished
  <1>11. \A p : FurnishedTo(p)' <=> FurnishedTo(p)
    BY <1>1, <1>10 DEF FurnishedTo
  <1>12. \A b, p, d : Inside(b, p, d)' <=> Inside(b, p, d)
    BY <1>1 DEF Inside
  <1>13. \A p, q : Opens(p, q)' <=> Opens(p, q)
    BY <1>1 DEF Opens
  <1> QED BY <1>5, <1>6, <1>7, <1>8, <1>9, <1>11, <1>12, <1>13

\* What is in a block has that block for its owner.
LEMMA OwnerIs ==
  ASSUME NEW b, NEW k \in Nat, NEW d \in Nat, Inside(b, k, d), Depth(k) = d
  PROVE  OwnerOf(k) = b
  <1> DEFINE T == {j \in 1 .. k - 1 : text[j] = OPEN_BRACKET /\ Depth(j) = Depth(k) - 1}
  <1>1. b \in 1 .. k - 2 /\ b + 1 \in T
    BY DEF Inside
  <1>2. T \subseteq 0 .. k /\ T # {}
    BY <1>1
  <1>3. \A j \in T : j <= b + 1
    <2> SUFFICES ASSUME NEW j \in T, ~(j <= b + 1) PROVE FALSE
      BY <1>1
    <2>1. j \in b + 2 .. k
      BY <1>1
    <2> QED BY <2>1 DEF Inside
  <1> HIDE DEF T
  <1>4. Greatest(T) \in T /\ \A j \in T : Greatest(T) >= j
    BY <1>2, GreatestIs
  <1>5. Greatest(T) = b + 1
    <2>1. Greatest(T) \in 0 .. k
      BY <1>2, <1>4
    <2> QED BY <1>1, <1>3, <1>4, <2>1
  <1> QED BY <1>1, <1>5 DEF OwnerOf, T

\* Where the depth rises from below d to d or more, a bracket opens it.
LEMMA Rise ==
  ASSUME NEW d \in Nat, NEW p \in Nat \ {0}, NEW k \in Nat, p <= k, Depth(p) < d, Depth(k) >= d
  PROVE  \E j \in p .. k - 1 : text[j] = OPEN_BRACKET /\ Depth(j) = d - 1
  <1> DEFINE T == {q \in p .. k : Depth(q) >= d}
  <1>1. T \subseteq Nat /\ k \in T
    OBVIOUS
  <1>2. PICK m \in T : \A q \in T : m <= q
    <2> HIDE DEF T
    <2> QED BY <1>1, LeastNumber
  <1> DEFINE j == m - 1
  <1>3. m # p
    <2>1. Depth(p) \in Int
      BY DepthNext
    <2>2. ~(Depth(p) >= d)
      BY <2>1
    <2> QED BY <1>2, <2>2
  <1>4. j \in p .. k - 1 /\ j + 1 = m /\ j \in Nat \ {0}
    BY <1>2, <1>3
  <1>5. j \notin T
    BY <1>2, <1>4
  <1>6. ~(Depth(j) >= d) /\ Depth(m) >= d
    BY <1>2, <1>4, <1>5
  <1> HIDE DEF j, T
  <1>7. /\ Depth(j) \in Int
        /\ Depth(j + 1) = Depth(j) + (IF text[j] = OPEN_BRACKET THEN 1
                                     ELSE IF text[j] = CLOSE_BRACKET THEN -1 ELSE 0)
    BY <1>4, DepthNext
  <1>8. text[j] = OPEN_BRACKET /\ Depth(j) = d - 1
    BY <1>4, <1>6, <1>7
  <1> QED BY <1>4, <1>8

\* What comes after a block was left belongs to none before.
LEMMA OwnerAfter ==
  ASSUME NEW p \in Nat \ {0}, NEW k \in Nat, p <= k, Depth(p) = 0, Depth(k) \in {1, 2}
  PROVE  OwnerOf(k) \in p - 1 .. k - 2
  <1> DEFINE d == Depth(k)
             T == {j \in 1 .. k - 1 : text[j] = OPEN_BRACKET /\ Depth(j) = d - 1}
  <1>1. PICK j \in p .. k - 1 : text[j] = OPEN_BRACKET /\ Depth(j) = d - 1
    <2>1. d \in Nat /\ Depth(p) < d /\ Depth(k) >= d
      OBVIOUS
    <2> HIDE DEF d
    <2> QED BY <2>1, Rise
  <1>2. j \in T /\ T \subseteq 0 .. k /\ T # {} /\ T \subseteq 1 .. k - 1
    BY <1>1
  <1>3. OwnerOf(k) = Greatest(T) - 1
    BY DEF OwnerOf
  <1> HIDE DEF T
  <1>4. Greatest(T) \in T /\ \A i \in T : Greatest(T) >= i
    BY <1>2, GreatestIs
  <1>5. Greatest(T) \in 1 .. k - 1 /\ Greatest(T) >= j
    BY <1>2, <1>4
  <1> QED BY <1>1, <1>3, <1>5

\* One stays in a block as long as its depth is not left.
LEMMA InsideOn ==
  ASSUME NEW b, NEW p \in Nat, NEW d, Inside(b, p, d), NEW r \in Nat, p <= r,
         \A q \in p + 1 .. r : Depth(q) >= d
  PROVE  Inside(b, r, d)
  BY DEF Inside

\* The settings before r are those before p and those made between them.
LEMMA BeforeNext ==
  ASSUME text \in Texts, NEW p \in 1 .. Len(text), NEW r \in p .. Len(text) + 1
  PROVE  Before(r) = Before(p) \cup {[owner |-> OwnerOf(k), key |-> LineStart(k), value |-> k] :
                                       k \in {j \in p .. r - 1 : ValueIn(j)}}
  <1>1. Len(text) \in Nat /\ DOMAIN text = 1 .. Len(text)
    BY LenProperties DEF Texts
  <1>2. \A j \in 1 .. Len(text) : j < r <=> j < p \/ j \in p .. r - 1
    BY <1>1
  <1>3. \A j \in p .. r - 1 : j \in 1 .. Len(text)
    BY <1>1
  <1> DEFINE S(k) == [owner |-> OwnerOf(k), key |-> LineStart(k), value |-> k]
  <1>4. \A a : a \in Before(r) <=> \E k \in 1 .. Len(text) : ValueIn(k) /\ k < r /\ a = S(k)
    BY <1>1 DEF Before, Meaning
  <1>5. \A a : a \in Before(p) <=> \E k \in 1 .. Len(text) : ValueIn(k) /\ k < p /\ a = S(k)
    BY <1>1 DEF Before, Meaning
  <1>6. \A a : a \in {S(k) : k \in {j \in p .. r - 1 : ValueIn(j)}}
                 <=> \E k \in p .. r - 1 : ValueIn(k) /\ a = S(k)
    OBVIOUS
  <1> HIDE DEF S
  <1>7. \A a : a \in Before(r) <=> a \in Before(p) \/ \E k \in p .. r - 1 : ValueIn(k) /\ a = S(k)
    BY <1>2, <1>3, <1>4, <1>5
  <1>8. Before(r) = Before(p) \cup {S(k) : k \in {j \in p .. r - 1 : ValueIn(j)}}
    BY <1>6, <1>7
  <1> QED BY <1>8 DEF S

\* A value is one or two blocks deep.
LEMMA ValueDepth ==
  ASSUME text \in Texts, WellFormed, NEW k \in 1 .. Len(text), ValueIn(k)
  PROVE  Depth(k) \in {1, 2}
  <1>1. Len(text) \in Nat /\ DOMAIN text = 1 .. Len(text)
    BY LenProperties DEF Texts
  <1>2. \E q \in k .. Len(text) : ~Word(text[q])
    <2>1. SUFFICES ASSUME \A q \in k .. Len(text) : Word(text[q]) PROVE FALSE
      OBVIOUS
    <2>2. Word(text[Len(text)]) /\ WellPlaced(Len(text))
      BY <1>1, <2>1 DEF WellFormed
    <2> QED BY <1>1, <2>2 DEF WellPlaced
  <1> DEFINE e == WordsEnd(k)
  <1>3. e \in k .. Len(text) /\ \A q \in k .. e - 1 : Word(text[q])
    BY <1>2, WordsEndIs
  <1>4. text[e] = SEMICOLON
    BY DEF ValueIn
  <1> HIDE DEF e
  <1>5. Depth(e) \in {1, 2}
    BY <1>1, <1>3, <1>4 DEF WellFormed, WellPlaced, MayEnd
  <1>6. Depth(e) = Depth(k)
    <2>1. e \in Nat /\ k <= e /\ k \in Nat \ {0}
      BY <1>1, <1>3
    <2> QED BY <1>3, <2>1, WordsDepth
  <1> QED BY <1>5, <1>6

\* A line of a well-formed text that has a key: its values are what follows the key, up
\* to the semicolon.
LEMMA KeyLine ==
  ASSUME text \in Texts, WellFormed, NEW p \in 1 .. Len(text), AtLine(p),
         NEW d \in {1, 2}, Depth(p) = d, d = 1 => text[p] # "location", text[p] # CLOSE_BRACKET
  PROVE  \E e \in p + 2 .. Len(text) :
           /\ e = Semicolon(p) /\ text[e] = SEMICOLON
           /\ \A q \in p .. e - 1 : Word(text[q]) /\ LineStart(q) = p /\ WordsEnd(q) = e
           /\ \A q \in p .. e + 1 : Depth(q) = d
  <1>1. Len(text) \in Nat
    BY LenProperties DEF Texts
  <1>2. PICK e \in p .. Len(text) :
          /\ e = WordsEnd(p) /\ ~Word(text[e]) /\ \A q \in p .. e - 1 : Word(text[q])
    BY LineIs
  <1>3. e - p > 1 /\ text[e] = SEMICOLON
    BY <1>2, OtherLine DEF EnoughWords
  <1>4. e \in p + 2 .. Len(text) /\ p \in Nat \ {0} /\ e \in Nat \ {0}
    BY <1>1, <1>2, <1>3
  <1>5. ASSUME NEW q \in p .. e PROVE Depth(q) = d /\ LineStart(q) = p
    <2>1. q \in Nat /\ p <= q /\ \A r \in p .. q - 1 : Word(text[r])
      BY <1>1, <1>2, <1>4
    <2> QED BY <1>4, <2>1, WordsDepth, LineStartIs
  <1>6. Depth(e + 1) = d
    <2>1. e \in p .. e
      BY <1>4
    <2>2. Depth(e) = d
      BY <1>5, <2>1
    <2>3. Depth(e + 1) = Depth(e) + (IF text[e] = OPEN_BRACKET THEN 1
                                     ELSE IF text[e] = CLOSE_BRACKET THEN -1 ELSE 0)
      BY <1>4, DepthNext
    <2> QED BY <1>3, <2>2, <2>3, MarksDiffer
  <1>7. ASSUME NEW q \in p .. e - 1 PROVE WordsEnd(q) = e
    <2>1. q \in Nat \ {0} /\ e \in q .. Len(text)
      BY <1>1, <1>2, <1>4
    <2>2. /\ WordsEnd(q) \in q .. Len(text) /\ ~Word(text[WordsEnd(q)])
          /\ WordsEnd(q) <= e
      BY <1>2, <2>1, WordsEndIs
    <2>3. WordsEnd(q) \notin p .. e - 1
      BY <1>2, <2>2
    <2> QED BY <1>1, <2>1, <2>2, <2>3
  <1>8. e = Semicolon(p)
    <2> DEFINE T == {q \in p .. Len(text) : text[q] = SEMICOLON}
    <2>1. T \subseteq Nat /\ e \in T
      BY <1>1, <1>2, <1>3
    <2>2. Least(T) \in T /\ \A q \in T : Least(T) <= q
      <3> HIDE DEF T
      <3> QED BY <2>1, LeastIs
    <2>3. Least(T) \notin p .. e - 1
      BY <1>2, <2>2, MarksAre
    <2> HIDE DEF T
    <2>4. Least(T) \in p .. Len(text) /\ Least(T) <= e
      BY <2>1, <2>2 DEF T
    <2>5. Least(T) = e
      BY <1>1, <1>4, <2>3, <2>4
    <2> QED BY <2>5 DEF Semicolon, T
  <1>9. \A q \in p .. e + 1 : q = e + 1 \/ q \in p .. e
    BY <1>4
  <1>10. \A q \in p .. e - 1 : q \in p .. e
    BY <1>4
  <1> QED BY <1>2, <1>3, <1>4, <1>5, <1>6, <1>7, <1>8, <1>9, <1>10

\* The keys a block of depth d has setters for.
Keys(d) == IF d = 1 THEN ServerKeys ELSE LocationKeys

\* What such a line adds to the settings.
LEMMA LineAdds ==
  ASSUME text \in Texts, WellFormed, NEW p \in 1 .. Len(text), AtLine(p),
         NEW d \in {1, 2}, Depth(p) = d, d = 1 => text[p] # "location", text[p] # CLOSE_BRACKET,
         NEW b, Inside(b, p, d)
  PROVE  LET r == Semicolon(p) + 1
         IN  /\ r \in p .. Len(text) + 1 /\ AtLine(r) /\ text[r - 1] = SEMICOLON
             /\ \A q \in p .. r : Depth(q) = d
             /\ \A q \in p .. r - 2 : Word(text[q])
             /\ text[p] \in Keys(d) =>
                  Before(r) = Before(p) \cup [owner : {b}, key : {p}, value : Values(p)]
             /\ text[p] \notin Keys(d) => Before(r) = Before(p)
  <1>1. Len(text) \in Nat
    BY LenProperties DEF Texts
  <1>2. PICK e \in p + 2 .. Len(text) :
           /\ e = Semicolon(p) /\ text[e] = SEMICOLON
           /\ \A q \in p .. e - 1 : Word(text[q]) /\ LineStart(q) = p /\ WordsEnd(q) = e
           /\ \A q \in p .. e + 1 : Depth(q) = d
    BY KeyLine
  <1> DEFINE r == e + 1
  <1>3. r \in p .. Len(text) + 1 /\ r - 1 = e /\ r - 2 = e - 1 /\ r = Semicolon(p) + 1
    BY <1>1, <1>2
  <1>4. AtLine(r)
    BY <1>2, <1>3, MarksAre DEF AtLine
  <1>5. ASSUME NEW q \in p .. r - 1
        PROVE  ValueIn(q) <=> q \in Values(p) /\ text[p] \in Keys(d)
    <2>1. CASE q = e
      <3>1. ~Word(text[q]) /\ q \notin Values(p)
        BY <1>2, <2>1, MarksAre DEF Values
      <3> QED BY <3>1 DEF ValueIn
    <2>2. CASE q # e
      <3>1. q \in p .. e - 1 /\ (q \in Values(p) <=> p < q)
        BY <1>2, <1>3, <2>2 DEF Values
      <3>2. /\ Word(text[q]) /\ LineStart(q) = p /\ WordsEnd(q) = e /\ Depth(q) = d
        BY <1>2, <3>1
      <3> QED BY <1>2, <3>1, <3>2 DEF ValueIn, Keys
    <2> QED BY <2>1, <2>2
  <1>6. ASSUME NEW q \in Values(p) PROVE OwnerOf(q) = b /\ LineStart(q) = p /\ q \in p .. r - 1
    <2>1. q \in p .. e - 1 /\ q \in p .. r - 1 /\ q \in Nat /\ p <= q /\ p \in Nat /\ d \in Nat
      BY <1>1, <1>2 DEF Values
    <2>2. \A i \in p + 1 .. q : Depth(i) >= d
      BY <1>1, <1>2, <2>1
    <2>3. Inside(b, q, d) /\ Depth(q) = d
      BY <1>2, <2>1, <2>2, InsideOn
    <2> QED BY <1>2, <2>1, <2>3, OwnerIs
  <1>7. Before(r) = Before(p) \cup {[owner |-> OwnerOf(k), key |-> LineStart(k), value |-> k] :
                                      k \in {j \in p .. r - 1 : ValueIn(j)}}
    <2> HIDE DEF r
    <2> QED BY <1>3, BeforeNext
  <1>8. CASE text[p] \in Keys(d)
    <2>1. {j \in p .. r - 1 : ValueIn(j)} = Values(p)
      BY <1>5, <1>6, <1>8
    <2>2. \A k \in Values(p) : [owner |-> OwnerOf(k), key |-> LineStart(k), value |-> k]
                                 = [owner |-> b, key |-> p, value |-> k]
      BY <1>6
    <2>3. {[owner |-> OwnerOf(k), key |-> LineStart(k), value |-> k] : k \in Values(p)}
            = {[owner |-> b, key |-> p, value |-> k] : k \in Values(p)}
      BY <2>2
    <2>4. {[owner |-> b, key |-> p, value |-> k] : k \in Values(p)}
            = [owner : {b}, key : {p}, value : Values(p)]
      <3>1. ASSUME NEW a \in [owner : {b}, key : {p}, value : Values(p)]
            PROVE  a.value \in Values(p) /\ a = [owner |-> b, key |-> p, value |-> a.value]
        OBVIOUS
      <3>2. \A k \in Values(p) : [owner |-> b, key |-> p, value |-> k]
                                   \in [owner : {b}, key : {p}, value : Values(p)]
        OBVIOUS
      <3> QED BY <3>1, <3>2
    <2>5. Before(r) = Before(p) \cup [owner : {b}, key : {p}, value : Values(p)]
      BY <1>7, <2>1, <2>3, <2>4
    <2> QED BY <1>2, <1>3, <1>4, <1>8, <2>5
  <1>9. CASE text[p] \notin Keys(d)
    <2>1. {j \in p .. r - 1 : ValueIn(j)} = {}
      BY <1>5, <1>9
    <2>2. Before(r) = Before(p)
      BY <1>7, <2>1
    <2> QED BY <1>2, <1>3, <1>4, <1>9, <2>2
  <1> QED BY <1>8, <1>9

\* Where no value stands nothing is added.
LEMMA NothingAdded ==
  ASSUME text \in Texts, NEW p \in 1 .. Len(text), NEW r \in p .. Len(text) + 1,
         \A k \in p .. r - 1 : ~ValueIn(k)
  PROVE  Before(r) = Before(p)
  <1> DEFINE K == {j \in p .. r - 1 : ValueIn(j)}
  <1>1. K = {}
    OBVIOUS
  <1>2. Before(r) = Before(p) \cup {[owner |-> OwnerOf(k), key |-> LineStart(k), value |-> k] : k \in K}
    BY BeforeNext
  <1> HIDE DEF K
  <1>3. {[owner |-> OwnerOf(k), key |-> LineStart(k), value |-> k] : k \in K} = {}
    BY <1>1
  <1> QED BY <1>2, <1>3

-----------------------------------------------------------------------------
(* The walk of the constructors. *)

\* A constructor goes on from p.
LEMMA Proceeds ==
  ASSUME text' = text, NEW p \in 1 .. Len(text) + 1, it' = p, AtLine(p),
         NEW d, Depth(p) = d, applied' = Before(p),
         \A a \in Before(p) : ~Refuses(a.key, a.value),
         \/ phase' = "settings" /\ d = 0 /\ FurnishedTo(p)
         \/ /\ \/ phase' = "ServerSettings" /\ d = 1 /\ (places' # {} <=> Opens(block' + 2, p - 1))
               \/ phase' = "LocationSettings" /\ d = 2 /\ Inside(owner', p, 2) /\ block' + 2 <= owner'
            /\ text[block'] = "server" /\ Inside(block', p, 1) /\ FurnishedTo(block')
  PROVE  Construction' /\ SettingsFollow'
  <1>1. Depth(p)' = Depth(p) /\ (AtLine(p)' <=> AtLine(p)) /\ Before(p)' = Before(p)
    BY SameText, SameMeaning
  <1>2. \A k, v : Refuses(k, v)' <=> Refuses(k, v)
    BY SameMeaning
  <1>3. Followed(it, d)'
    BY <1>1, <1>2 DEF Followed
  <1>4. /\ FurnishedTo(it)' <=> FurnishedTo(p)
        /\ FurnishedTo(block)' <=> FurnishedTo(block')
        /\ Inside(block, it, 1)' <=> Inside(block', p, 1)
        /\ Inside(owner, it, 2)' <=> Inside(owner', p, 2)
        /\ Opens(block + 2, it - 1)' <=> Opens(block' + 2, p - 1)
    BY SameMeaning
  <1>5. Construction'
    BY <1>3, <1>4 DEF Construction, Checking
  <1>6. SettingsFollow'
    BY DEF SettingsFollow, Ended
  <1> QED BY <1>5, <1>6

\* A constructor throws on a text that is not sound.
LEMMA Invalid ==
  ASSUME ~Sound, End("invalid")
  PROVE  Construction' /\ SettingsFollow'
  <1>1. text' = text /\ phase' = "invalid"
    BY DEF End, source
  <1>2. ~Sound'
    BY <1>1, SameMeaning
  <1> QED BY <1>1, <1>2 DEF Construction, SettingsFollow, Checking

\* Of a line with a key nothing opens a block, so that those one is in stay.
LEMMA StillInside ==
  ASSUME text \in Texts, NEW p \in 1 .. Len(text), NEW r \in p .. Len(text) + 1, NEW d \in {1, 2},
         \A q \in p .. r : Depth(q) = d, text[r - 1] = SEMICOLON,
         \A q \in p .. r - 2 : Word(text[q]), NEW b, Inside(b, p, 1)
  PROVE  Inside(b, r, 1) /\ (Opens(b + 2, p - 1) <=> Opens(b + 2, r - 1))
  <1>1. Len(text) \in Nat
    BY LenProperties DEF Texts
  <1>2. Inside(b, r, 1)
    <2>1. \A q \in p + 1 .. r : Depth(q) >= 1
      BY <1>1
    <2>2. r \in Nat /\ p \in Nat /\ p <= r
      BY <1>1
    <2> QED BY <2>1, <2>2, InsideOn
  <1>3. \A q \in p .. r - 1 : text[q] # OPEN_BRACKET
    <2>1. \A q \in p .. r - 1 : q = r - 1 \/ q \in p .. r - 2
      BY <1>1
    <2> QED BY <2>1, MarksAre, MarksDiffer
  <1>4. b \in 1 .. p - 2
    BY DEF Inside
  <1>5. /\ \A q \in b + 2 .. p - 1 : q \in b + 2 .. r - 1
        /\ \A q \in b + 2 .. r - 1 : q \in b + 2 .. p - 1 \/ q \in p .. r - 1
    BY <1>1, <1>4
  <1> QED BY <1>2, <1>3, <1>5 DEF Opens

\* What is known of a constructor in a block.
LEMMA InBlock ==
  ASSUME Inv, Construction, NEW d \in {1, 2},
         phase = (IF d = 1 THEN "ServerSettings" ELSE "LocationSettings")
  PROVE  /\ text \in Texts /\ Len(text) \in Nat /\ it \in Nat \ {0}
         /\ it \in 1 .. Len(text) + 1 /\ AtLine(it) /\ Depth(it) = d
         /\ applied = Before(it) /\ \A a \in Before(it) : ~Refuses(a.key, a.value)
         /\ text[block] = "server" /\ Inside(block, it, 1) /\ FurnishedTo(block)
         /\ d = 1 => (places # {} <=> Opens(block + 2, it - 1))
         /\ d = 2 => Inside(owner, it, 2) /\ block + 2 <= owner
         /\ Inside(IF d = 1 THEN block ELSE owner, it, d)
         /\ Within(it) => it \in 1 .. Len(text)
  <1>1. text \in Texts /\ Len(text) \in Nat /\ DOMAIN text = 1 .. Len(text)
    BY LenProperties DEF Inv, Typed, Texts
  <1>2. Followed(it, d) /\ text[block] = "server" /\ Inside(block, it, 1) /\ FurnishedTo(block)
    BY DEF Construction
  <1>3. d = 1 => (places # {} <=> Opens(block + 2, it - 1))
    BY DEF Construction
  <1>4. d = 2 => Inside(owner, it, 2) /\ block + 2 <= owner
    BY DEF Construction
  <1>5. it \in 1 .. Len(text) + 1 /\ it \in Nat \ {0}
    BY <1>1, <1>2 DEF Followed
  <1>6. Within(it) => it \in 1 .. Len(text)
    BY <1>1 DEF Within
  <1> QED BY <1>1, <1>2, <1>3, <1>4, <1>5, <1>6 DEF Followed

\* A line with a key is passed, its values given to the setters if there are any.
LEMMA LineTaken ==
  ASSUME Inv, Construction, WellFormed, NEW d \in {1, 2},
         phase = (IF d = 1 THEN "ServerSettings" ELSE "LocationSettings"), Within(it),
         d = 1 => text[it] # "location", text[it] # CLOSE_BRACKET,
         text' = text, phase' = phase, it' = Semicolon(it) + 1,
         block' = block, owner' = owner, places' = places,
         \/ /\ text[it] \in Keys(d) /\ \A v \in Values(it) : ~Refuses(it, v)
            /\ applied' = applied \cup [owner : {IF d = 1 THEN block ELSE owner},
                                        key : {it}, value : Values(it)]
         \/ text[it] \notin Keys(d) /\ applied' = applied
  PROVE  Construction' /\ SettingsFollow'
  <1> DEFINE b == IF d = 1 THEN block ELSE owner
             r == Semicolon(it) + 1
  <1>1. /\ text \in Texts /\ Len(text) \in Nat /\ it \in Nat \ {0}
        /\ it \in 1 .. Len(text) /\ AtLine(it) /\ Depth(it) = d
        /\ applied = Before(it) /\ \A a \in Before(it) : ~Refuses(a.key, a.value)
        /\ text[block] = "server" /\ Inside(block, it, 1) /\ FurnishedTo(block)
        /\ d = 1 => (places # {} <=> Opens(block + 2, it - 1))
        /\ d = 2 => Inside(owner, it, 2) /\ block + 2 <= owner
        /\ Inside(b, it, d)
    BY InBlock
  <1>2. /\ r \in it .. Len(text) + 1 /\ AtLine(r) /\ text[r - 1] = SEMICOLON
        /\ \A q \in it .. r : Depth(q) = d
        /\ \A q \in it .. r - 2 : Word(text[q])
        /\ text[it] \in Keys(d) =>
             Before(r) = Before(it) \cup [owner : {b}, key : {it}, value : Values(it)]
        /\ text[it] \notin Keys(d) => Before(r) = Before(it)
    <2> HIDE DEF b
    <2> QED BY <1>1, LineAdds
  <1>3. applied' = Before(r)
    BY <1>1, <1>2
  <1>4. \A a \in Before(r) : ~Refuses(a.key, a.value)
    <2>1. CASE text[it] \in Keys(d)
      <3>1. \A a \in [owner : {b}, key : {it}, value : Values(it)] : a.key = it /\ a.value \in Values(it)
        OBVIOUS
      <3> QED BY <1>1, <1>2, <2>1, <3>1
    <2>2. CASE text[it] \notin Keys(d)
      BY <1>1, <1>2, <2>2
    <2> QED BY <2>1, <2>2
  <1> HIDE DEF r, b
  <1>5. Inside(block, r, 1) /\ (Opens(block + 2, it - 1) <=> Opens(block + 2, r - 1))
    BY <1>1, <1>2, StillInside
  <1>6. d = 2 => Inside(owner, r, 2)
    <2>1. ASSUME d = 2 PROVE \A q \in it + 1 .. r : Depth(q) >= 2
      BY <1>1, <1>2, <2>1
    <2>2. r \in Nat /\ it <= r
      BY <1>1, <1>2
    <2> QED BY <1>1, <2>1, <2>2, InsideOn
  <1>7. r \in 1 .. Len(text) + 1 /\ Depth(r) = d /\ it' = r
    <2>1. r \in it .. r
      BY <1>1, <1>2
    <2> QED BY <1>1, <1>2, <2>1 DEF r
  <1>8. CASE d = 1
    BY <1>1, <1>2, <1>3, <1>4, <1>5, <1>7, <1>8, Proceeds
  <1>9. CASE d = 2
    BY <1>1, <1>2, <1>3, <1>4, <1>5, <1>6, <1>7, <1>9, Proceeds
  <1> QED BY <1>8, <1>9

\* The setters of a key are called, or one throws.
LEMMA ApplyFollows ==
  ASSUME Inv, Construction, WellFormed, NEW d \in {1, 2},
         phase = (IF d = 1 THEN "ServerSettings" ELSE "LocationSettings"), Within(it),
         text[it] \in Keys(d), Apply(IF d = 1 THEN block ELSE owner)
  PROVE  Construction' /\ SettingsFollow'
  <1> DEFINE b == IF d = 1 THEN block ELSE owner
  <1>1. text[it] # CLOSE_BRACKET /\ (d = 1 => text[it] # "location")
    BY WordsAssumption DEF Keys, Marks
  <1>2. CASE (\E v \in Values(it) : Refuses(it, v)) /\ End("invalid")
    <2>1. PICK v \in Values(it) : Refuses(it, v)
      BY <1>2
    <2>2. /\ text \in Texts /\ it \in 1 .. Len(text) /\ AtLine(it) /\ Depth(it) = d /\ Inside(b, it, d)
      BY InBlock
    <2>3. [owner : {b}, key : {it}, value : Values(it)] \subseteq Before(Semicolon(it) + 1)
      <3> HIDE DEF b
      <3> QED BY <1>1, <2>2, LineAdds
    <2>4. [owner |-> b, key |-> it, value |-> v] \in Meaning
      <3>1. [owner |-> b, key |-> it, value |-> v] \in [owner : {b}, key : {it}, value : Values(it)]
        BY <2>1
      <3> QED BY <2>3, <3>1 DEF Before
    <2>5. ~Sound
      BY <2>1, <2>4 DEF Sound
    <2> QED BY <1>2, <2>5, Invalid
  <1>3. CASE /\ \A v \in Values(it) : ~Refuses(it, v)
             /\ applied' = applied \cup [owner : {b}, key : {it}, value : Values(it)]
             /\ it' = Semicolon(it) + 1
             /\ UNCHANGED <<source, phase, close, block, owner, places>>
    <2>1. /\ text' = text /\ phase' = phase /\ block' = block /\ owner' = owner /\ places' = places
          /\ it' = Semicolon(it) + 1
      BY <1>3 DEF source
    <2> QED BY <1>1, <1>3, <2>1, LineTaken
  <1> QED BY <1>2, <1>3 DEF Apply

\* validateBlock lets through exactly the blocks that have what Sound asks for.
LEMMA BlockValid ==
  ASSUME Inv, Construction, WellFormed, phase = "ServerSettings", Within(it), text[it] = CLOSE_BRACKET
  PROVE  ValidBlock <=> Furnished(block)
  <1>1. /\ text \in Texts /\ Len(text) \in Nat /\ it \in Nat \ {0} /\ it \in 1 .. Len(text)
        /\ applied = Before(it) /\ Depth(it) = 1 /\ Inside(block, it, 1)
        /\ places # {} <=> Opens(block + 2, it - 1)
    BY InBlock
  <1>2. DOMAIN text = 1 .. Len(text)
    BY <1>1, LenProperties DEF Texts
  <1>3. block \in 1 .. it - 2 /\ \A j \in block + 2 .. it : Depth(j) >= 1
    BY <1>1 DEF Inside
  <1>4. Depth(it + 1) = 0
    <2>1. Depth(it + 1) = Depth(it) + (IF text[it] = OPEN_BRACKET THEN 1
                                       ELSE IF text[it] = CLOSE_BRACKET THEN -1 ELSE 0)
      BY <1>1, DepthNext
    <2> QED BY <1>1, <2>1, MarksDiffer
  <1>5. ASSUME NEW k \in 1 .. Len(text), Depth(k) \in {1, 2}, OwnerOf(k) = block, k # it
        PROVE  k < it /\ block + 2 <= k
    <2>1. OwnerOf(k) \in 0 .. k - 2
      <3>1. 1 \in Nat \ {0} /\ k \in Nat /\ 1 <= k /\ Depth(1) = 0 /\ 1 - 1 = 0
        BY <1>1, DepthFirst
      <3> QED BY <1>5, <3>1, OwnerAfter
    <2>2. ASSUME it < k PROVE OwnerOf(k) \in (it + 1) - 1 .. k - 2
      <3>1. it + 1 \in Nat \ {0} /\ k \in Nat /\ it + 1 <= k
        BY <1>1, <2>2
      <3> QED BY <1>4, <1>5, <3>1, OwnerAfter
    <2> QED BY <1>1, <1>3, <1>5, <2>1, <2>2
  <1>6. ASSUME NEW a \in Meaning, a.owner = block PROVE a \in applied
    <2>1. PICK k \in 1 .. Len(text) : ValueIn(k) /\ a = [owner |-> OwnerOf(k), key |-> LineStart(k), value |-> k]
      BY <1>2 DEF Meaning
    <2>2. Depth(k) \in {1, 2} /\ OwnerOf(k) = block /\ a.value = k
      BY <1>1, <1>6, <2>1, ValueDepth
    <2>3. k # it
      BY <2>1, MarksAre DEF ValueIn
    <2>4. k < it
      BY <1>5, <2>2, <2>3
    <2> QED BY <1>1, <2>2, <2>4 DEF Before
  <1>7. applied \subseteq Meaning
    BY <1>1 DEF Before
  <1>8. \A key : Set(block, key) <=> \E a \in Meaning : a.owner = block /\ text[a.key] = key
    BY <1>6, <1>7 DEF Set
  <1>9. Opens(block + 2, it - 1)
          <=> \E j \in DOMAIN text : text[j] = OPEN_BRACKET /\ Depth(j) = 1 /\ OwnerOf(j) = block
    <2>1. ASSUME NEW j \in block + 2 .. it - 1, Depth(j) = 1
          PROVE  j \in DOMAIN text /\ OwnerOf(j) = block
      <3>1. j \in DOMAIN text /\ j \in Nat /\ 1 \in Nat
        BY <1>1, <1>2, <1>3
      <3>2. Inside(block, j, 1)
        BY <1>1, <1>3 DEF Inside
      <3> QED BY <2>1, <3>1, <3>2, OwnerIs
    <2>2. ASSUME NEW j \in DOMAIN text, text[j] = OPEN_BRACKET, Depth(j) = 1, OwnerOf(j) = block
          PROVE  j \in block + 2 .. it - 1
      <3>1. j # it /\ Depth(j) \in {1, 2}
        BY <2>2, MarksDiffer
      <3>2. j < it /\ block + 2 <= j
        BY <1>2, <1>5, <2>2, <3>1
      <3> QED BY <1>1, <1>2, <1>3, <3>2
    <2> QED BY <2>1, <2>2 DEF Opens
  <1>10. Set(block, "listen") <=> \E a \in Meaning : a.owner = block /\ text[a.key] = "listen"
    BY <1>8
  <1>11. Set(block, "root") <=> \E a \in Meaning : a.owner = block /\ text[a.key] = "root"
    BY <1>8
  <1> QED BY <1>1, <1>9, <1>10, <1>11 DEF ValidBlock, Furnished

\* A turn of the loop of ServerSettings::ServerSettings follows the text.
LEMMA ServerBlockFollows ==
  ASSUME Inv, Construction, WellFormed, ReadServerBlock
  PROVE  Construction' /\ SettingsFollow'
  <1>1. /\ text \in Texts /\ Len(text) \in Nat /\ it \in Nat \ {0}
        /\ it \in 1 .. Len(text) + 1 /\ AtLine(it) /\ Depth(it) = 1
        /\ applied = Before(it) /\ \A a \in Before(it) : ~Refuses(a.key, a.value)
        /\ text[block] = "server" /\ Inside(block, it, 1) /\ FurnishedTo(block)
        /\ places # {} <=> Opens(block + 2, it - 1)
        /\ Within(it) => it \in 1 .. Len(text)
        /\ phase = "ServerSettings"
    BY InBlock DEF ReadServerBlock
  <1>2. DOMAIN text = 1 .. Len(text)
    BY <1>1, LenProperties DEF Texts
  <1>3. Within(it)
    <2>1. Depth(PastEnd) = 0
      BY DEF WellFormed
    <2>2. it # Len(text) + 1
      BY <1>1, <2>1 DEF PastEnd
    <2> QED BY <1>1, <1>2, <2>2 DEF Within
  <1>4. block \in 1 .. it - 2 /\ \A j \in block + 2 .. it : Depth(j) >= 1
    BY <1>1 DEF Inside
  <1>5. text[block + 1] = OPEN_BRACKET /\ Depth(block + 1) = 0 /\ Depth(block) = 0
    <2>1. text[block + 1] = OPEN_BRACKET /\ Depth(block + 1) = 0
      BY <1>1 DEF Inside
    <2>2. block \in Nat \ {0}
      BY <1>4
    <2>3. /\ Depth(block) \in Int
          /\ Depth(block + 1) = Depth(block) + (IF text[block] = OPEN_BRACKET THEN 1
                                       ELSE IF text[block] = CLOSE_BRACKET THEN -1 ELSE 0)
      BY <2>2, DepthNext
    <2>4. text[block] # OPEN_BRACKET /\ text[block] # CLOSE_BRACKET
      <3>1. Word(text[block])
        BY <1>1, MarksDiffer DEF Word
      <3> QED BY <3>1, MarksAre
    <2> QED BY <2>1, <2>3, <2>4
  <1>6. CASE text[it] = CLOSE_BRACKET /\ ~ValidBlock /\ End("invalid")
    <2>1. ~Furnished(block)
      BY <1>1, <1>3, <1>6, BlockValid
    <2>2. block \in DOMAIN text
      BY <1>1, <1>2, <1>4
    <2>3. ~Sound
      BY <1>1, <1>5, <2>1, <2>2 DEF Sound, Furnished
    <2> QED BY <1>6, <2>3, Invalid
  <1>7. CASE text[it] = CLOSE_BRACKET /\ ValidBlock /\ GoTo("settings", it + 1) /\ close' = close
    <2> DEFINE p == it + 1
    <2>1. text' = text /\ phase' = "settings" /\ it' = p /\ applied' = applied
      BY <1>7 DEF GoTo, source
    <2>2. p \in 1 .. Len(text) + 1 /\ p \in it .. Len(text) + 1 /\ p - 1 = it
      BY <1>1, <1>3
    <2>3. Depth(p) = 0
      <3>1. Depth(it + 1) = Depth(it) + (IF text[it] = OPEN_BRACKET THEN 1
                                         ELSE IF text[it] = CLOSE_BRACKET THEN -1 ELSE 0)
        BY <1>1, DepthNext
      <3> QED BY <1>1, <1>7, <3>1, MarksDiffer
    <2>4. Before(p) = Before(it)
      <3>1. \A k \in it .. p - 1 : ~ValueIn(k)
        BY <1>1, <1>7, MarksAre DEF ValueIn
      <3> HIDE DEF p
      <3> QED BY <1>1, <1>3, <2>2, <3>1, NothingAdded
    <2>5. FurnishedTo(p)
      <3> SUFFICES ASSUME NEW s \in 1 .. p - 1, text[s] = "server", Depth(s) = 0 PROVE Furnished(s)
        BY DEF FurnishedTo
      <3>1. CASE s < block
        BY <1>1, <1>4, <3>1 DEF FurnishedTo
      <3>2. CASE s = block
        BY <1>1, <1>3, <1>7, <3>2, BlockValid
      <3>3. CASE s = block + 1
        <4>1. Word(text[s])
          BY MarksDiffer DEF Word
        <4> QED BY <1>5, <3>3, <4>1, MarksAre
      <3>4. CASE s \in block + 2 .. it
        <4>1. Depth(s) >= 1
          BY <1>4, <3>4
        <4> QED BY <4>1
      <3> QED BY <1>1, <1>4, <2>2, <3>1, <3>2, <3>3, <3>4
    <2>6. AtLine(p)
      BY <1>7, <2>2, MarksAre DEF AtLine
    <2> HIDE DEF p
    <2> QED BY <1>1, <2>1, <2>2, <2>3, <2>4, <2>5, <2>6, Proceeds
  <1>8. CASE /\ text[it] = "location" /\ phase' = "LocationSettings" /\ it' = it + 3 /\ owner' = it + 1
             /\ UNCHANGED <<source, close, block, places, applied>>
    <2> DEFINE o == it + 2
               p == it + 3
    <2>1. o \in 1 .. Len(text) /\ text[o] = OPEN_BRACKET /\ IsPath(text[it + 1])
      BY <1>1, <1>3, <1>8, LocationLine
    <2>2. Word(text[it]) /\ Word(text[it + 1])
      BY <1>8, <2>1, MarksDiffer, WordsAssumption DEF IsPath, Word
    <2>3. p \in 1 .. Len(text) + 1 /\ p \in it .. Len(text) + 1 /\ p - 1 = o /\ p = o + 1 /\ o \in Nat \ {0} /\ it <= o
      BY <1>1, <2>1
    <2>4. \A q \in it .. o - 1 : q = it \/ q = it + 1
      BY <1>1
    <2>5. LineStart(it) = it
      <3>1. it <= it /\ \A q \in it .. it - 1 : Word(text[q])
        BY <1>1
      <3> QED BY <1>1, <3>1, LineStartIs
    <2>6. WordsEnd(it + 1) = o
      <3>1. it + 1 \in Nat \ {0} /\ o \in it + 1 .. Len(text) /\ ~Word(text[o])
        BY <1>1, <2>1, MarksAre
      <3>2. WordsEnd(it + 1) \in it + 1 .. Len(text) /\ ~Word(text[WordsEnd(it + 1)]) /\ WordsEnd(it + 1) <= o
        BY <1>1, <3>1, WordsEndIs
      <3>3. WordsEnd(it + 1) # it + 1
        BY <2>2, <3>2
      <3> QED BY <1>1, <3>2, <3>3
    <2>7. Before(p) = Before(it)
      <3>1. ASSUME NEW k \in it .. p - 1 PROVE ~ValueIn(k)
        <4>1. CASE k = it
          BY <1>1, <2>5, <4>1 DEF ValueIn
        <4>2. CASE k = it + 1
          BY <2>1, <2>6, <4>2, MarksDiffer DEF ValueIn
        <4>3. CASE k = o
          BY <2>1, <4>3, MarksAre DEF ValueIn
        <4> QED BY <1>1, <4>1, <4>2, <4>3
      <3> HIDE DEF p
      <3> QED BY <1>1, <1>3, <2>3, <3>1, NothingAdded
    <2>8. Depth(o) = 1 /\ Depth(it + 1) = 1
      <3>1. \A q \in it .. o - 1 : Word(text[q])
        BY <2>2, <2>4
      <3>2. \A q \in it .. (it + 1) - 1 : Word(text[q])
        BY <1>1, <2>2
      <3>3. it + 1 \in Nat /\ it <= it + 1
        BY <1>1
      <3> HIDE DEF o
      <3> QED BY <1>1, <2>3, <3>1, <3>2, <3>3, WordsDepth
    <2>9. Depth(p) = 2
      <3>1. Depth(o + 1) = Depth(o) + (IF text[o] = OPEN_BRACKET THEN 1
                                       ELSE IF text[o] = CLOSE_BRACKET THEN -1 ELSE 0)
        BY <2>3, DepthNext
      <3> QED BY <2>1, <2>3, <2>8, <3>1
    <2>10. Inside(block, p, 1)
      <3>1. \A q \in it + 1 .. p : Depth(q) >= 1
        <4>1. \A q \in it + 1 .. p : q = it + 1 \/ q = o \/ q = p
          BY <1>1
        <4> HIDE DEF o, p
        <4> QED BY <2>8, <2>9, <4>1
      <3>2. p \in Nat /\ it <= p
        BY <1>1
      <3> QED BY <1>1, <3>1, <3>2, InsideOn
    <2>11. Inside(it + 1, p, 2)
      <3>1. it + 1 \in 1 .. p - 2 /\ (it + 1) + 1 = o /\ \A j \in (it + 1) + 2 .. p : j = p
        BY <1>1
      <3> HIDE DEF o, p
      <3> QED BY <2>1, <2>8, <2>9, <3>1 DEF Inside
    <2>12. block + 2 <= it + 1
      BY <1>1, <1>4
    <2>13. AtLine(p)
      BY <2>1, <2>3, MarksAre DEF AtLine
    <2>14. text' = text /\ block' = block /\ applied' = applied /\ it' = p
      BY <1>8 DEF source
    <2> HIDE DEF p, o
    <2> QED BY <1>1, <1>8, <2>3, <2>7, <2>9, <2>10, <2>11, <2>12, <2>13, <2>14, Proceeds
  <1>9. CASE text[it] \in ServerKeys /\ Apply(block)
    <2>1. text[it] \in Keys(1) /\ 1 \in {1, 2}
      BY <1>9 DEF Keys
    <2> QED BY <1>1, <1>3, <1>9, <2>1, ApplyFollows
  <1>10. CASE /\ text[it] \notin ServerKeys \cup {CLOSE_BRACKET, "location"}
              /\ GoTo(phase, Semicolon(it) + 1) /\ close' = close
    <2>1. text[it] \notin Keys(1) /\ 1 \in {1, 2}
      BY <1>10 DEF Keys
    <2>2. /\ text' = text /\ phase' = phase /\ block' = block /\ owner' = owner /\ places' = places
          /\ it' = Semicolon(it) + 1 /\ applied' = applied
      BY <1>10 DEF GoTo, source
    <2> QED BY <1>1, <1>3, <1>10, <2>1, <2>2, LineTaken
  <1> QED BY <1>3, <1>6, <1>7, <1>8, <1>9, <1>10 DEF ReadServerBlock

\* A turn of the loop of LocationSettings::LocationSettings follows it too.
LEMMA LocationBlockFollows ==
  ASSUME Inv, Construction, WellFormed, KnownKeys, ReadLocationBlock
  PROVE  Construction' /\ SettingsFollow'
  <1>1. /\ text \in Texts /\ Len(text) \in Nat /\ it \in Nat \ {0}
        /\ it \in 1 .. Len(text) + 1 /\ AtLine(it) /\ Depth(it) = 2
        /\ applied = Before(it) /\ \A a \in Before(it) : ~Refuses(a.key, a.value)
        /\ text[block] = "server" /\ Inside(block, it, 1) /\ FurnishedTo(block)
        /\ Inside(owner, it, 2) /\ block + 2 <= owner
        /\ Within(it) => it \in 1 .. Len(text)
        /\ phase = "LocationSettings"
    BY InBlock DEF ReadLocationBlock
  <1>2. DOMAIN text = 1 .. Len(text)
    BY <1>1, LenProperties DEF Texts
  <1>3. Within(it)
    <2>1. Depth(PastEnd) = 0
      BY DEF WellFormed
    <2>2. it # Len(text) + 1
      BY <1>1, <2>1 DEF PastEnd
    <2> QED BY <1>1, <1>2, <2>2 DEF Within
  <1>4. CASE /\ text[it] = CLOSE_BRACKET /\ phase' = "ServerSettings" /\ it' = it + 1
             /\ places' = places \cup {owner} /\ UNCHANGED <<source, close, block, owner, applied>>
    <2> DEFINE p == it + 1
    <2>1. text' = text /\ block' = block /\ applied' = applied /\ it' = p /\ places' # {}
      BY <1>4 DEF source
    <2>2. p \in 1 .. Len(text) + 1 /\ p \in it .. Len(text) + 1 /\ p - 1 = it /\ p \in Nat /\ it <= p
      BY <1>1, <1>3
    <2>3. Depth(p) = 1
      <3>1. Depth(it + 1) = Depth(it) + (IF text[it] = OPEN_BRACKET THEN 1
                                         ELSE IF text[it] = CLOSE_BRACKET THEN -1 ELSE 0)
        BY <1>1, DepthNext
      <3> QED BY <1>1, <1>4, <3>1, MarksDiffer
    <2>4. Before(p) = Before(it)
      <3>1. \A k \in it .. p - 1 : ~ValueIn(k)
        BY <1>1, <1>4, MarksAre DEF ValueIn
      <3> HIDE DEF p
      <3> QED BY <1>1, <1>3, <2>2, <3>1, NothingAdded
    <2>5. Inside(block, p, 1)
      <3>1. \A q \in it + 1 .. p : Depth(q) >= 1
        BY <1>1, <2>3
      <3> HIDE DEF p
      <3> QED BY <1>1, <2>2, <3>1, InsideOn
    <2>6. Opens(block + 2, p - 1)
      <3>1. owner \in 1 .. it - 2 /\ text[owner + 1] = OPEN_BRACKET /\ Depth(owner + 1) = 2 - 1
        BY <1>1 DEF Inside
      <3>2. block \in 1 .. it - 2
        BY <1>1 DEF Inside
      <3>3. owner + 1 \in block + 2 .. it
        BY <1>1, <3>1, <3>2
      <3> QED BY <2>2, <3>1, <3>3 DEF Opens
    <2>7. AtLine(p)
      BY <1>4, <2>2, MarksAre DEF AtLine
    <2> HIDE DEF p
    <2> QED BY <1>1, <1>4, <2>1, <2>2, <2>3, <2>4, <2>5, <2>6, <2>7, Proceeds
  <1>5. CASE text[it] \in LocationKeys /\ Apply(owner)
    <2>1. text[it] \in Keys(2) /\ 2 \in {1, 2}
      BY <1>5 DEF Keys
    <2> QED BY <1>1, <1>3, <1>5, <2>1, ApplyFollows
  <1>6. CASE text[it] \notin LocationKeys \cup {CLOSE_BRACKET}
    <2>1. \E e \in it + 2 .. Len(text) :
            \A q \in it .. e - 1 : Word(text[q]) /\ LineStart(q) = it /\ WordsEnd(q) = e
      <3>1. 2 \in {1, 2} /\ text[it] # CLOSE_BRACKET /\ it \in 1 .. Len(text)
        BY <1>1, <1>3, <1>6
      <3> QED BY <1>1, <3>1, KeyLine
    <2>2. Word(text[it]) /\ LineStart(it) = it
      BY <1>1, <2>1
    <2>3. text[it] \in LocationKeys
      BY <1>1, <1>2, <1>3, <2>2 DEF KnownKeys
    <2> QED BY <1>6, <2>3
  <1> QED BY <1>3, <1>4, <1>5, <1>6 DEF ReadLocationBlock

\* ParseConfig goes on to the next server block, or all of the text has been followed.
LEMMA TextFollows ==
  ASSUME Inv, Construction, WellFormed, ReadText
  PROVE  Construction' /\ SettingsFollow'
  <1>1. /\ text \in Texts /\ Len(text) \in Nat /\ DOMAIN text = 1 .. Len(text)
    BY LenProperties DEF Inv, Typed, Texts
  <1>2. /\ it \in 1 .. Len(text) + 1 /\ AtLine(it) /\ Depth(it) = 0 /\ applied = Before(it)
        /\ \A a \in Before(it) : ~Refuses(a.key, a.value)
        /\ FurnishedTo(it)
    BY DEF Construction, Followed, ReadText
  <1>3. CASE it = PastEnd /\ End("read")
    <2>1. text' = text /\ phase' = "read" /\ applied' = applied
      BY <1>3 DEF End, source
    <2>2. Before(it) = Meaning
      <3>1. ASSUME NEW a \in Meaning PROVE a.value < it
        <4>1. PICK k \in 1 .. Len(text) : a = [owner |-> OwnerOf(k), key |-> LineStart(k), value |-> k]
          BY <1>1 DEF Meaning
        <4> QED BY <1>1, <1>3, <4>1 DEF PastEnd
      <3> QED BY <3>1 DEF Before
    <2>3. Sound
      <3>1. \A s \in DOMAIN text : text[s] = "server" /\ Depth(s) = 0 => Furnished(s)
        <4>1. \A s \in DOMAIN text : s \in 1 .. it - 1
          BY <1>1, <1>3 DEF PastEnd
        <4> QED BY <1>2, <4>1 DEF FurnishedTo
      <3> QED BY <1>2, <2>2, <3>1 DEF Sound, Furnished
    <2>4. Sound' /\ Meaning' = Meaning
      BY <2>1, <2>3, SameMeaning
    <2>5. SettingsFollow'
      BY <1>2, <2>1, <2>2, <2>4 DEF SettingsFollow
    <2> QED BY <2>1, <2>5 DEF Construction, Checking
  <1>4. CASE /\ it # PastEnd /\ phase' = "ServerSettings" /\ it' = it + 2
             /\ block' = it /\ places' = {} /\ UNCHANGED <<source, close, owner, applied>>
    <2> DEFINE p == it + 2
    <2>1. text' = text /\ block' = it /\ applied' = applied /\ it' = p /\ places' = {}
      BY <1>4 DEF source
    <2>2. it \in 1 .. Len(text) /\ it \in Nat \ {0} /\ it + 1 \in Nat \ {0}
      BY <1>1, <1>2, <1>4 DEF PastEnd
    <2>3. text[it] = "server" /\ it + 1 \in 1 .. Len(text) /\ text[it + 1] = OPEN_BRACKET
      BY <1>1, <1>2, <2>2, ServerLine
    <2>4. Word(text[it])
      BY <2>3, MarksDiffer DEF Word
    <2>5. Depth(it + 1) = 0 /\ Depth(p) = 1
      <3>1. Depth(it + 1) = Depth(it) + (IF text[it] = OPEN_BRACKET THEN 1
                                         ELSE IF text[it] = CLOSE_BRACKET THEN -1 ELSE 0)
        BY <2>2, DepthNext
      <3>2. text[it] # OPEN_BRACKET /\ text[it] # CLOSE_BRACKET
        BY <2>4, MarksAre
      <3>3. Depth(it + 1) = 0
        BY <1>2, <3>1, <3>2
      <3>4. Depth((it + 1) + 1) = Depth(it + 1) + (IF text[it + 1] = OPEN_BRACKET THEN 1
                                         ELSE IF text[it + 1] = CLOSE_BRACKET THEN -1 ELSE 0)
        BY <2>2, DepthNext
      <3>5. (it + 1) + 1 = p
        BY <2>2
      <3> HIDE DEF p
      <3> QED BY <2>3, <3>3, <3>4, <3>5
    <2>6. p \in 1 .. Len(text) + 1 /\ p \in it .. Len(text) + 1
      BY <1>1, <2>2, <2>3
    <2>7. Before(p) = Before(it)
      <3>1. ~ValueIn(it)
        <4>1. it <= it /\ \A q \in it .. it - 1 : Word(text[q])
          BY <2>2
        <4>2. LineStart(it) = it
          BY <1>2, <2>2, <4>1, LineStartIs
        <4> QED BY <2>2, <4>2 DEF ValueIn
      <3>2. ~ValueIn(it + 1)
        BY <2>3, MarksAre DEF ValueIn
      <3>3. \A k \in it .. p - 1 : k = it \/ k = it + 1
        BY <2>2
      <3>4. \A k \in it .. p - 1 : ~ValueIn(k)
        BY <3>1, <3>2, <3>3
      <3> HIDE DEF p
      <3> QED BY <1>1, <2>2, <2>6, <3>4, NothingAdded
    <2>8. Inside(it, p, 1)
      <3>1. it \in 1 .. p - 2 /\ \A j \in it + 2 .. p : j = p
        BY <2>2
      <3> HIDE DEF p
      <3> QED BY <2>3, <2>5, <3>1 DEF Inside
    <2>9. ~Opens(it + 2, p - 1)
      <3>1. it + 2 .. p - 1 = {}
        BY <2>2
      <3> QED BY <3>1 DEF Opens
    <2>10. AtLine(p)
      <3>1. p - 1 = it + 1
        BY <2>2
      <3> QED BY <2>3, <3>1, MarksAre DEF AtLine
    <2> HIDE DEF p
    <2> QED BY <1>2, <1>4, <2>1, <2>3, <2>5, <2>6, <2>7, <2>8, <2>9, <2>10, Proceeds
  <1> QED BY <1>3, <1>4 DEF ReadText

\* Until the text is accepted nothing is made of it.
LEMMA CheckFollows ==
  ASSUME Inv, Inv', Unapplied, Tokenize \/ CheckText \/ CheckServerBlock \/ CheckLocationBlock
  PROVE  Unapplied' /\ (WellFormed' => Construction' /\ SettingsFollow')
  <1>1. /\ phase \in Checking \cup {"tokens"} /\ block = 0 /\ applied = {}
        /\ text \in Texts /\ Len(text) \in Nat
    BY LenProperties
       DEF Tokenize, CheckText, CheckServerBlock, CheckLocationBlock, Checking, Unapplied, Inv, Walk, Typed, Texts
  <1>2. block' = block /\ applied' = applied
    <2>1. CASE Tokenize
      BY <2>1 DEF Tokenize, GoTo
    <2>2. CASE CheckText
      BY <2>2 DEF CheckText, GoTo, End, EnterSyntax
    <2>3. CASE CheckServerBlock
      BY <2>3 DEF CheckServerBlock, CheckLine, GoTo, End, EnterSyntax
    <2>4. CASE CheckLocationBlock
      BY <2>4 DEF CheckLocationBlock, CheckLine, GoTo, End
    <2> QED BY <2>1, <2>2, <2>3, <2>4
  <1>3. phase' = "rejected" \/ phase' = "overrun" => ~WellFormed'
    BY <1>1, <1>2 DEF Inv, SyntaxDecides
  <1>4. \/ phase' \in Checking \cup {"tokens"}
        \/ phase' = "settings" /\ it' = 1 /\ text' = text
        \/ phase' \in {"rejected", "overrun"}
    <2>1. CASE Tokenize
      BY <2>1 DEF Tokenize, GoTo, Checking
    <2>2. CASE CheckText
      BY <2>2 DEF CheckText, GoTo, End, EnterSyntax, Checking, source
    <2>3. CASE CheckServerBlock
      BY <1>1, <2>3 DEF CheckServerBlock, CheckLine, GoTo, End, EnterSyntax, Checking
    <2>4. CASE CheckLocationBlock
      BY <1>1, <2>4 DEF CheckLocationBlock, CheckLine, GoTo, End, Checking
    <2> QED BY <2>1, <2>2, <2>3, <2>4
  <1>5. CASE phase' \in Checking \cup {"tokens"}
    BY <1>1, <1>2, <1>5 DEF Unapplied, Construction, SettingsFollow, Checking, Ended
  <1>6. CASE phase' = "settings" /\ it' = 1 /\ text' = text
    <2>1. Before(1) = {}
      <3>1. ASSUME NEW a \in Meaning PROVE ~(a.value < 1)
        <4>1. DOMAIN text = 1 .. Len(text)
          BY <1>1, LenProperties DEF Texts
        <4>2. PICK k \in 1 .. Len(text) : a = [owner |-> OwnerOf(k), key |-> LineStart(k), value |-> k]
          BY <4>1 DEF Meaning
        <4> QED BY <4>2
      <3> QED BY <3>1 DEF Before
    <2>2. FurnishedTo(1) /\ AtLine(1) /\ 1 \in 1 .. Len(text) + 1
      BY <1>1 DEF FurnishedTo, AtLine
    <2>3. applied' = Before(1) /\ \A a \in Before(1) : ~Refuses(a.key, a.value)
      BY <1>1, <1>2, <2>1
    <2>4. Construction' /\ SettingsFollow'
      BY <1>6, <2>2, <2>3, DepthFirst, Proceeds
    <2> QED BY <1>6, <2>4 DEF Unapplied, Checking
  <1>7. CASE phase' \in {"rejected", "overrun"}
    BY <1>3, <1>7 DEF Unapplied, Checking
  <1> QED BY <1>4, <1>5, <1>6, <1>7

\* The invariant holds before the file is read.
LEMMA InitConstructed == Init => Constructed
  BY DEF Init, Constructed, Unapplied, Construction, SettingsFollow, Checking, Ended

\* Every step keeps it.
LEMMA NextConstructed == Inv /\ Inv' /\ Constructed /\ [Next]_vars => Constructed'
  <1> SUFFICES ASSUME Inv, Inv', Constructed, [Next]_vars PROVE Constructed'
    OBVIOUS
  <1>1. CASE Tokenize \/ CheckText \/ CheckServerBlock \/ CheckLocationBlock
    <2>1. Unapplied' /\ (WellFormed' => Construction' /\ SettingsFollow')
      BY <1>1, CheckFollows DEF Constructed
    <2> QED BY <2>1 DEF Constructed
  <1>2. CASE ReadText \/ ReadServerBlock \/ ReadLocationBlock
    <2>1. text' = text
      BY <1>2 DEF ReadText, ReadServerBlock, ReadLocationBlock, End, GoTo, Apply, source
    <2>2. Unapplied'
      BY <1>2 DEF Unapplied, Checking, ReadText, ReadServerBlock, ReadLocationBlock, End, GoTo, Apply
    <2>3. ASSUME WellFormed', KnownKeys' PROVE Construction' /\ SettingsFollow'
      <3>1. WellFormed /\ KnownKeys
        BY <2>1, <2>3, SameText, SameMeaning
      <3>2. Construction
        BY <3>1 DEF Constructed
      <3> QED BY <1>2, <3>1, <3>2, TextFollows, ServerBlockFollows, LocationBlockFollows
    <2> QED BY <2>2, <2>3 DEF Constructed
  <1>3. CASE UNCHANGED vars
    <2>1. /\ text' = text /\ phase' = phase /\ it' = it /\ block' = block /\ owner' = owner
          /\ places' = places /\ applied' = applied
      BY <1>3 DEF vars, source
    <2>2. /\ \A k : Depth(k)' = Depth(k)
          /\ \A k : AtLine(k)' <=> AtLine(k)
          /\ WellFormed' <=> WellFormed
          /\ KnownKeys' <=> KnownKeys
          /\ Sound' <=> Sound
          /\ Meaning' = Meaning
          /\ \A k, v : Refuses(k, v)' <=> Refuses(k, v)
          /\ \A p : Before(p)' = Before(p)
          /\ \A p : FurnishedTo(p)' <=> FurnishedTo(p)
          /\ \A b, p, d : Inside(b, p, d)' <=> Inside(b, p, d)
          /\ \A p, q : Opens(p, q)' <=> Opens(p, q)
      BY <2>1, SameText, SameMeaning
    <2>3. \A d : Followed(it, d)' <=> Followed(it, d)
      BY <2>1, <2>2 DEF Followed
    <2>4. Construction' <=> Construction
      BY <2>1, <2>2, <2>3 DEF Construction
    <2>5. SettingsFollow' <=> SettingsFollow
      BY <2>1, <2>2 DEF SettingsFollow
    <2> QED BY <2>1, <2>2, <2>4, <2>5 DEF Constructed, Unapplied
  <1> QED BY <1>1, <1>2, <1>3 DEF Next

\* The constructors follow the text the check accepted, whatever the file, as long as
\* locations have known keys only: a sound text is read, each of its settings made to the
\* block it stands in and nothing else made, and a text that is not sound is refused.
THEOREM SettingsRight == Spec => []SettingsFollow
<1>1. Constructed => SettingsFollow
  BY DEF Constructed, SettingsFollow
<1> QED BY <1>1, InitInv, NextInv, InitConstructed, NextConstructed, PTL DEF Spec

-----------------------------------------------------------------------------
(* The tokens of a file, one for each place where one begins. *)

\* The sequence s lists what f makes of the numbers in S, in their order.
Lists(s, S, f) ==
  \E e \in [1 .. Len(s) -> S] :
    /\ \A i, j \in 1 .. Len(s) : i < j => e[i] < e[j]
    /\ \A k \in S : \E i \in 1 .. Len(s) : e[i] = k
    /\ \A i \in 1 .. Len(s) : s[i] = f[e[i]]

\* One token begins at one place.
LEMMA ListsOne ==
  ASSUME NEW k, NEW x, NEW f, x = f[k]
  PROVE  Lists(<<x>>, {k}, f)
  <1> DEFINE s == <<x>>
             e == [i \in 1 .. 1 |-> k]
  <1>1. Len(s) = 1 /\ s[1] = x
    OBVIOUS
  <1>2. \A i \in 1 .. 1 : i = 1
    OBVIOUS
  <1>3. 1 \in 1 .. 1 /\ ~(1 < 1)
    OBVIOUS
  <1> HIDE DEF s
  <1>4. e \in [1 .. 1 -> {k}] /\ e[1] = k
    BY <1>3
  <1> HIDE DEF e
  <1>5. /\ \A i, j \in 1 .. 1 : i < j => e[i] < e[j]
        /\ \A m \in {k} : \E i \in 1 .. 1 : e[i] = m
        /\ \A i \in 1 .. 1 : s[i] = f[e[i]]
    BY <1>1, <1>2, <1>3, <1>4
  <1>6. Lists(s, {k}, f)
    BY <1>1, <1>4, <1>5 DEF Lists
  <1> QED BY <1>6 DEF s

\* What comes later is listed later.
LEMMA ListsJoin ==
  ASSUME NEW s \in Texts, NEW t \in Texts, NEW S, S \subseteq Nat, NEW T, T \subseteq Nat, NEW f,
         \A k \in S : \A m \in T : k < m,
         Lists(s, S, f), Lists(t, T, f)
  PROVE  Lists(s \o t, S \cup T, f)
  <1> DEFINE n == Len(s)
             m == Len(t)
             U == S \cup T
             u == s \o t
  <1>1. n \in Nat /\ m \in Nat
    BY LenProperties DEF Texts
  <1>2. u \in Texts /\ Len(u) = n + m
    BY ConcatProperties DEF Texts
  <1>3. \A i \in 1 .. n + m : u[i] = IF i <= n THEN s[i] ELSE t[i - n]
    BY ConcatProperties DEF Texts
  <1> HIDE DEF u
  <1>4. PICK a \in [1 .. n -> S] :
          /\ \A i, j \in 1 .. n : i < j => a[i] < a[j]
          /\ \A k \in S : \E i \in 1 .. n : a[i] = k
          /\ \A i \in 1 .. n : s[i] = f[a[i]]
    BY DEF Lists
  <1>5. PICK b \in [1 .. m -> T] :
          /\ \A i, j \in 1 .. m : i < j => b[i] < b[j]
          /\ \A k \in T : \E i \in 1 .. m : b[i] = k
          /\ \A i \in 1 .. m : t[i] = f[b[i]]
    BY DEF Lists
  <1> HIDE DEF n, m
  <1> DEFINE e == [i \in 1 .. n + m |-> IF i <= n THEN a[i] ELSE b[i - n]]
  <1>6. \A i \in 1 .. n + m : (i <= n /\ i \in 1 .. n) \/ (~(i <= n) /\ i - n \in 1 .. m)
    BY <1>1
  <1>7. \A i \in 1 .. n + m : (i <= n => e[i] = a[i] /\ a[i] \in S) /\ (~(i <= n) => e[i] = b[i - n] /\ b[i - n] \in T)
    BY <1>6
  <1>8. e \in [1 .. n + m -> U]
    BY <1>6, <1>7
  <1> HIDE DEF e
  <1>9. ASSUME NEW i \in 1 .. n + m, NEW j \in 1 .. n + m, i < j PROVE e[i] < e[j]
    <2>1. CASE j <= n
      <3>1. i <= n /\ i \in 1 .. n /\ j \in 1 .. n
        BY <1>1, <1>9, <2>1
      <3> QED BY <1>4, <1>7, <1>9, <2>1, <3>1
    <2>2. CASE i <= n /\ ~(j <= n)
      BY <1>7, <2>2
    <2>3. CASE ~(i <= n)
      <3>1. ~(j <= n) /\ i - n \in 1 .. m /\ j - n \in 1 .. m /\ i - n < j - n
        BY <1>1, <1>9, <2>3
      <3>2. b[i - n] < b[j - n]
        BY <1>5, <3>1
      <3> QED BY <1>7, <2>3, <3>1, <3>2
    <2> QED BY <2>1, <2>2, <2>3
  <1>10. ASSUME NEW k \in U PROVE \E i \in 1 .. n + m : e[i] = k
    <2>1. CASE k \in S
      <3>1. PICK i \in 1 .. n : a[i] = k
        BY <1>4, <2>1
      <3>2. i \in 1 .. n + m /\ i <= n
        BY <1>1
      <3> QED BY <1>7, <3>1, <3>2
    <2>2. CASE k \in T
      <3>1. PICK i \in 1 .. m : b[i] = k
        BY <1>5, <2>2
      <3> DEFINE j == n + i
      <3>2. j \in 1 .. n + m /\ ~(j <= n) /\ j - n = i
        BY <1>1
      <3> HIDE DEF j
      <3> QED BY <1>7, <3>1, <3>2
    <2> QED BY <2>1, <2>2
  <1>11. ASSUME NEW i \in 1 .. n + m PROVE u[i] = f[e[i]]
    <2>1. CASE i <= n
      BY <1>3, <1>4, <1>6, <1>7, <2>1
    <2>2. CASE ~(i <= n)
      BY <1>3, <1>5, <1>6, <1>7, <2>2
    <2> QED BY <2>1, <2>2
  <1> HIDE DEF U
  <1>12. Lists(u, U, f)
    BY <1>2, <1>8, <1>9, <1>10, <1>11 DEF Lists
  <1> QED BY <1>12 DEF u, U

\* The number with i up to it.
Nth(S, i) == CHOOSE k \in S : Cardinality({j \in S : j <= k}) = i

\* There is one such list: its i-th is made of the i-th number.
LEMMA ListsOnly ==
  ASSUME NEW s \in Texts, NEW S, S \subseteq Nat, NEW f, Lists(s, S, f)
  PROVE  /\ s = [i \in 1 .. Cardinality(S) |-> f[Nth(S, i)]]
         /\ \A i \in 1 .. Cardinality(S) : Nth(S, i) \in S
  <1> DEFINE n == Len(s)
             upto(k) == {j \in S : j <= k}
  <1>1. n \in Nat /\ DOMAIN s = 1 .. n /\ s = [i \in 1 .. n |-> s[i]]
    BY LenProperties DEF Texts
  <1>2. PICK e \in [1 .. n -> S] :
          /\ \A i, j \in 1 .. n : i < j => e[i] < e[j]
          /\ \A k \in S : \E i \in 1 .. n : e[i] = k
          /\ \A i \in 1 .. n : s[i] = f[e[i]]
    BY DEF Lists
  <1> HIDE DEF n
  <1>3. ASSUME NEW i \in 1 .. n, NEW j \in 1 .. n PROVE e[j] <= e[i] <=> j <= i
    <2>1. e[i] \in Nat /\ e[j] \in Nat /\ (i < j => e[i] < e[j]) /\ (j < i => e[j] < e[i])
      BY <1>2
    <2>2. i < j \/ i = j \/ j < i
      BY <1>1
    <2>3. CASE i < j
      BY <1>1, <2>1, <2>3
    <2>4. CASE i = j
      BY <1>1, <2>1, <2>4
    <2>5. CASE j < i
      BY <1>1, <2>1, <2>5
    <2> QED BY <2>2, <2>3, <2>4, <2>5
  <1>4. ASSUME NEW m \in 0 .. n, NEW T, T = {e[i] : i \in 1 .. m}
        PROVE  Cardinality(T) = m
    <2> DEFINE g == [i \in 1 .. m |-> e[i]]
    <2>1. \A i \in 1 .. m : i \in 1 .. n
      BY <1>1
    <2>2. g \in [1 .. m -> T] /\ \A i \in 1 .. m : g[i] = e[i]
      BY <1>4
    <2> HIDE DEF g
    <2>3. \A i, j \in 1 .. m : g[i] = g[j] => i = j
      <3> TAKE i, j \in 1 .. m
      <3> HAVE g[i] = g[j]
      <3>1. i \in 1 .. n /\ j \in 1 .. n /\ e[i] = e[j] /\ e[i] \in Nat
        BY <1>2, <2>1, <2>2
      <3>2. e[i] <= e[j] /\ e[j] <= e[i]
        BY <3>1
      <3>3. i <= j /\ j <= i
        BY <1>3, <3>1, <3>2
      <3> QED BY <3>3
    <2>4. \A k \in T : \E i \in 1 .. m : g[i] = k
      BY <1>4, <2>2
    <2>5. g \in Bijection(1 .. m, T)
      BY <2>2, <2>3, <2>4 DEF Bijection, Injection, Surjection, IsInjective
    <2>6. ExistsBijection(1 .. m, T)
      BY <2>5 DEF ExistsBijection
    <2>7. 1 \in Int /\ m \in Int /\ (IF 1 > m THEN 0 ELSE m - 1 + 1) = m
      BY <1>1
    <2>8. IsFiniteSet(1 .. m) /\ Cardinality(1 .. m) = m
      BY <2>7, FS_Interval
    <2> QED BY <2>6, <2>8, FS_Bijection
  <1>5. Cardinality(S) = n
    <2>1. S = {e[i] : i \in 1 .. n}
      BY <1>2
    <2>2. n \in 0 .. n
      BY <1>1
    <2> QED BY <1>4, <2>1, <2>2
  <1>6. ASSUME NEW i \in 1 .. n PROVE Cardinality(upto(e[i])) = i
    <2>1. \A k : k \in upto(e[i]) <=> \E j \in 1 .. i : e[j] = k
      <3> TAKE k
      <3>1. ASSUME k \in upto(e[i]) PROVE \E j \in 1 .. i : e[j] = k
        <4>1. k \in S /\ k <= e[i]
          BY <3>1
        <4>2. PICK j \in 1 .. n : e[j] = k
          BY <1>2, <4>1
        <4>3. j <= i
          BY <1>3, <4>1, <4>2
        <4>4. j \in 1 .. i
          BY <1>1, <4>3
        <4> QED BY <4>2, <4>4
      <3>2. ASSUME NEW j \in 1 .. i, e[j] = k PROVE k \in upto(e[i])
        <4>1. j \in 1 .. n /\ j <= i
          BY <1>1
        <4>2. e[j] \in S /\ e[j] <= e[i]
          BY <1>2, <1>3, <4>1
        <4> QED BY <3>2, <4>2
      <3> QED BY <3>1, <3>2
    <2>2. upto(e[i]) = {e[j] : j \in 1 .. i}
      BY <2>1
    <2>3. i \in 0 .. n
      BY <1>1
    <2> HIDE DEF upto
    <2> QED BY <1>4, <2>2, <2>3
  <1>7. ASSUME NEW i \in 1 .. n PROVE Nth(S, i) = e[i]
    <2>1. e[i] \in S /\ Cardinality(upto(e[i])) = i
      BY <1>2, <1>6
    <2>2. ASSUME NEW k \in S, Cardinality(upto(k)) = i PROVE k = e[i]
      <3>1. PICK j \in 1 .. n : e[j] = k
        BY <1>2
      <3>2. Cardinality(upto(k)) = j
        BY <1>6, <3>1
      <3> QED BY <2>2, <3>1, <3>2
    <2>3. Nth(S, i) = CHOOSE k \in S : Cardinality(upto(k)) = i
      BY DEF Nth
    <2> HIDE DEF upto
    <2> QED BY <2>1, <2>2, <2>3
  <1>8. \A i \in 1 .. n : s[i] = f[Nth(S, i)] /\ Nth(S, i) \in S
    BY <1>2, <1>7
  <1>9. s = [i \in 1 .. n |-> f[Nth(S, i)]]
    BY <1>1, <1>8
  <1> QED BY <1>5, <1>8, <1>9

\* Where a token of a chunk begins: at a mark, and at a word that follows none.
Heads(chunk) == {k \in 1 .. Len(chunk) : ~Word(chunk[k]) \/ k = 1 \/ ~Word(chunk[k - 1])}

\* The token that begins there.
Cut(chunk, k) ==
  IF Word(chunk[k]) /\ k + 1 <= Len(chunk) /\ Word(chunk[k + 1]) THEN Other ELSE chunk[k]

\* One turn of splitString goes from where a token begins to where the next one does.
LEMMA NextHead ==
  ASSUME NEW chunk \in Texts, NEW p \in Heads(chunk), NEW q, q = Behind(chunk, p)
  PROVE  /\ q \in p + 1 .. Len(chunk) + 1
         /\ q <= Len(chunk) => q \in Heads(chunk)
         /\ \A k \in Heads(chunk) : k = p \/ k < p \/ k >= q
         /\ TokenAt(chunk, p) = Cut(chunk, p)
  <1> DEFINE n == Len(chunk)
             T == {r \in p .. n : ~Word(chunk[r])} \cup {n + 1}
             pieces == SubSeq(chunk, p, q - 1)
  <1>1. n \in Nat /\ p \in 1 .. n
    BY LenProperties DEF Texts, Heads
  <1>2. q \in p + 1 .. n + 1
    BY <1>1, TokenType
  <1>3. pieces \in Texts /\ Len(pieces) = q - p /\ pieces[1] = chunk[p]
    <2> DEFINE z == q - 1
               c == SubSeq(chunk, p, z)
    <2>1. \A k \in p .. z : k \in 1 .. n
      BY <1>1, <1>2
    <2>2. p \in Nat /\ z \in Nat /\ p <= z /\ z - p + 1 = q - p /\ 1 \in 1 .. z - p + 1 /\ p + 1 - 1 = p
      BY <1>1, <1>2
    <2> HIDE DEF z
    <2>3. /\ c \in Seq(STRING)
          /\ Len(c) = IF p <= z THEN z - p + 1 ELSE 0
          /\ \A i \in 1 .. z - p + 1 : c[i] = chunk[p + i - 1]
      BY <2>1, <2>2, SubSeqProperties DEF Texts
    <2> HIDE DEF c
    <2>4. c[1] = chunk[p]
      BY <2>2, <2>3
    <2>5. Len(c) = q - p
      BY <2>2, <2>3
    <2> QED BY <2>3, <2>4, <2>5 DEF c, z, Texts
  <1>4. TokenAt(chunk, p) = IF q = p + 1 THEN chunk[p] ELSE Other
    <2>1. q = p + 1 <=> Len(pieces) = 1
      <3> DEFINE l == Len(pieces)
      <3>1. l = q - p
        BY <1>3
      <3> HIDE DEF l
      <3>2. q = p + 1 <=> l = 1
        BY <1>1, <1>2, <3>1
      <3> QED BY <3>2 DEF l
    <2>2. Head(pieces) = pieces[1]
      <3>1. Len(pieces) # 0
        <4> DEFINE l == Len(pieces)
        <4>1. l = q - p
          BY <1>3
        <4> HIDE DEF l
        <4>2. l # 0
          BY <1>1, <1>2, <4>1
        <4> QED BY <4>2 DEF l
      <3>2. pieces # << >>
        BY <3>1, EmptySeq
      <3> HIDE DEF pieces
      <3> QED BY <1>3, <3>2, HeadTailProperties DEF Texts
    <2>3. TokenAt(chunk, p) = Spelled(pieces)
      BY DEF TokenAt
    <2> HIDE DEF pieces
    <2> QED BY <1>3, <2>1, <2>2, <2>3 DEF Spelled
  <1>5. CASE ~Word(chunk[p])
    <2>1. q = p + 1
      BY <1>5 DEF Behind
    <2>2. TokenAt(chunk, p) = Cut(chunk, p)
      BY <1>4, <1>5, <2>1 DEF Cut
    <2>3. q <= n => q \in Heads(chunk)
      <3> SUFFICES ASSUME q <= n PROVE q \in Heads(chunk)
        OBVIOUS
      <3>1. q \in 1 .. n /\ q - 1 = p
        BY <1>1, <2>1
      <3> QED BY <1>5, <3>1 DEF Heads
    <2>4. \A k \in 1 .. n : k = p \/ k < p \/ k >= q
      BY <1>1, <2>1
    <2> QED BY <1>2, <2>2, <2>3, <2>4 DEF Heads
  <1>6. CASE Word(chunk[p])
    <2>1. q = Least(T)
      BY <1>6 DEF Behind
    <2>2. Least(T) \in T /\ \A r \in T : Least(T) <= r
      <3>1. T \subseteq Nat /\ T # {}
        BY <1>1
      <3> HIDE DEF T
      <3> QED BY <3>1, LeastIs
    <2>3. q <= n => ~Word(chunk[q])
      <3> SUFFICES ASSUME q <= n PROVE ~Word(chunk[q])
        OBVIOUS
      <3>1. q # n + 1
        BY <1>1, <1>2
      <3> QED BY <2>1, <2>2, <3>1
    <2>4. \A r \in p .. n : r < q => Word(chunk[r])
      <3> TAKE r \in p .. n
      <3> HAVE r < q
      <3>1. r \notin T
        <4>1. ~(q <= r)
          BY <1>1, <1>2
        <4> HIDE DEF T
        <4> QED BY <2>1, <2>2, <4>1
      <3> QED BY <3>1
    <2>5. q <= n => q \in Heads(chunk)
      <3> SUFFICES ASSUME q <= n PROVE q \in Heads(chunk)
        OBVIOUS
      <3>1. q \in 1 .. n
        BY <1>1, <1>2
      <3> QED BY <2>3, <3>1 DEF Heads
    <2>6. ASSUME NEW k \in Heads(chunk) PROVE k = p \/ k < p \/ k >= q
      <3> SUFFICES ASSUME p < k, k < q PROVE FALSE
        <4>1. k \in 1 .. n
          BY DEF Heads
        <4> QED BY <1>1, <1>2, <4>1
      <3>1. k \in p .. n /\ k - 1 \in p .. n /\ k - 1 < q /\ k # 1
        <4>1. k \in 1 .. n
          BY DEF Heads
        <4> QED BY <1>1, <1>2, <4>1
      <3>2. Word(chunk[k]) /\ Word(chunk[k - 1])
        BY <2>4, <3>1
      <3> QED BY <3>1, <3>2 DEF Heads
    <2>7. q = p + 1 <=> ~(p + 1 <= n /\ Word(chunk[p + 1]))
      <3>1. ASSUME q = p + 1, p + 1 <= n PROVE ~Word(chunk[p + 1])
        BY <2>3, <3>1
      <3>2. ASSUME q # p + 1 PROVE p + 1 <= n /\ Word(chunk[p + 1])
        <4>1. p + 1 \in p .. n /\ p + 1 < q /\ p + 1 <= n
          BY <1>1, <1>2, <3>2
        <4> QED BY <2>4, <4>1
      <3> QED BY <3>1, <3>2
    <2>8. TokenAt(chunk, p) = Cut(chunk, p)
      BY <1>4, <1>6, <2>7 DEF Cut
    <2> QED BY <1>2, <2>5, <2>6, <2>8
  <1> QED BY <1>5, <1>6

\* splitString lists the tokens of a chunk that stands behind the symbol at b.
LEMMA SplitLists ==
  ASSUME NEW chunk \in Texts, NEW b \in Nat, NEW g,
         \A k \in 1 .. Len(chunk) : g[b + k] = Cut(chunk, k)
  PROVE  Lists(Split(chunk), {b + k : k \in Heads(chunk)}, g)
  <1> DEFINE n == Len(chunk)
             From(p) == {b + k : k \in {j \in Heads(chunk) : j >= p}}
  <1>1. n \in Nat
    BY LenProperties DEF Texts
  <1>2. PICK f : /\ f = [p \in 1 .. Len(chunk) + 1 |-> SplitFrom(chunk, f, p)]
                 /\ Split(chunk) = f[1]
    BY SplitIs
  <1>3. \A p \in 1 .. n + 1 : f[p] \in Texts /\ f[p] = SplitFrom(chunk, f, p)
    BY <1>2, SplitTypes
  <1>4. Heads(chunk) \subseteq 1 .. n
    BY DEF Heads
  <1> DEFINE Good(p) == p \in Heads(chunk) \/ p = n + 1 => Lists(f[p], From(p), g)
             bad == {m \in 0 .. n : ~Good(n + 1 - m)}
  <1>5. bad = {}
    <2> SUFFICES ASSUME bad # {} PROVE FALSE
      OBVIOUS
    <2>1. bad \subseteq Nat
      <3> HIDE DEF Good, n
      <3> QED BY <1>1
    <2>2. PICK m \in bad : \A k \in bad : m <= k
      <3> HIDE DEF bad
      <3> QED BY <2>1, LeastNumber
    <2> DEFINE p == n + 1 - m
    <2>3. m \in 0 .. n /\ ~Good(p)
      BY <2>2
    <2> HIDE DEF Good
    <2>4. p \in 1 .. n + 1
      <3>1. n \in Nat /\ m \in 0 .. n
        BY <1>1, <2>3
      <3> HIDE DEF n, bad
      <3> QED BY <3>1
    <2>5. CASE p = n + 1
      <3>1. f[p] = <<>>
        <4>1. p > n
          <5> HIDE DEF p, n
          <5> QED BY <1>1, <2>5
        <4>2. f[p] = SplitFrom(chunk, f, p)
          BY <1>3, <2>4
        <4> QED BY <4>1, <4>2 DEF SplitFrom
      <3>2. From(p) = {}
        <4>1. \A j \in 1 .. n : ~(j >= p)
          <5> HIDE DEF p, n
          <5> QED BY <1>1, <2>5
        <4> QED BY <1>4, <4>1
      <3>3. Len(<<>>) = 0 /\ 1 .. 0 = {}
        BY EmptySeq
      <3>4. <<>> \in [1 .. 0 -> {}]
        <4>1. <<>> = [i \in 1 .. 0 |-> 0]
          BY <3>3
        <4> QED BY <3>3, <4>1
      <3>5. Lists(<<>>, {}, g)
        BY <3>3, <3>4 DEF Lists
      <3>6. Good(p)
        BY <3>1, <3>2, <3>5 DEF Good
      <3> QED BY <2>3, <3>6
    <2>6. CASE p # n + 1
      <3> DEFINE q == Behind(chunk, p)
                 k == n + 1 - q
      <3>1. p \in Heads(chunk)
        BY <2>3, <2>6 DEF Good
      <3> HIDE DEF p, bad
      <3>2. /\ q \in p + 1 .. n + 1
            /\ q <= n => q \in Heads(chunk)
            /\ \A j \in Heads(chunk) : j = p \/ j < p \/ j >= q
            /\ TokenAt(chunk, p) = Cut(chunk, p)
        BY <3>1, NextHead
      <3> HIDE DEF q
      <3>3. p \in 1 .. n /\ p < q /\ q >= p /\ p >= p
        BY <1>1, <1>4, <3>1, <3>2
      <3>4. Good(q)
        <4>1. k \in 0 .. n /\ ~(m <= k) /\ n + 1 - k = q
          <5>1. n \in Nat /\ m \in 0 .. n /\ p = n + 1 - m /\ q \in p + 1 .. n + 1
            BY <1>1, <2>3, <3>2 DEF p
          <5> HIDE DEF n
          <5> QED BY <5>1
        <4>2. k \notin bad
          BY <2>2, <4>1
        <4> HIDE DEF k
        <4> QED BY <4>1, <4>2 DEF bad
      <3>5. q \in Heads(chunk) \/ q = n + 1
        <4>1. q <= n \/ q = n + 1
          <5> HIDE DEF n
          <5> QED BY <1>1, <3>2, <3>3
        <4> QED BY <3>2, <4>1
      <3>6. Lists(f[q], From(q), g) /\ f[q] \in Texts
        <4>1. q \in 1 .. n + 1
          BY <1>1, <3>2, <3>3
        <4> QED BY <1>3, <3>4, <3>5, <4>1 DEF Good
      <3> DEFINE s == <<TokenAt(chunk, p)>>
      <3>7. f[p] = s \o f[q]
        <4>1. ~(p > n)
          BY <1>1, <3>3
        <4> QED BY <1>3, <2>4, <4>1 DEF SplitFrom, q
      <3>8. s \in Texts
        BY <3>3, TokenType DEF Texts
      <3>9. Lists(s, {b + p}, g)
        <4>1. TokenAt(chunk, p) = g[b + p]
          BY <3>2, <3>3
        <4> QED BY <4>1, ListsOne
      <3>10. From(p) = {b + p} \cup From(q)
        <4>1. \A j \in Heads(chunk) : j >= p <=> j = p \/ j >= q
          <5> TAKE j \in Heads(chunk)
          <5>1. j \in 1 .. n /\ (j = p \/ j < p \/ j >= q)
            BY <1>4, <3>2
          <5>2. n \in Nat /\ p \in 1 .. n /\ p < q /\ q \in p + 1 .. n + 1
            BY <1>1, <3>2, <3>3
          <5> HIDE DEF n
          <5> QED BY <5>1, <5>2
        <4> HIDE DEF n
        <4> QED BY <3>1, <4>1
      <3>11. {b + p} \subseteq Nat /\ From(q) \subseteq Nat /\ \A i \in {b + p} : \A j \in From(q) : i < j
        <4>1. \A j \in Heads(chunk) : j \in Nat
          BY <1>1, <1>4
        <4>2. p \in Nat /\ q \in Nat /\ p < q
          BY <1>1, <3>2, <3>3
        <4> HIDE DEF n
        <4> QED BY <4>1, <4>2
      <3> HIDE DEF From, s
      <3>12. Lists(s \o f[q], {b + p} \cup From(q), g)
        <4> DEFINE S == {b + p}
        <4> HIDE DEF S
        <4>1. S \subseteq Nat /\ From(q) \subseteq Nat /\ \A i \in S : \A j \in From(q) : i < j
          BY <3>11 DEF S
        <4>2. Lists(s, S, g)
          BY <3>9 DEF S
        <4>3. Lists(s \o f[q], S \cup From(q), g)
          BY <3>6, <3>8, <4>1, <4>2, ListsJoin
        <4> QED BY <4>3 DEF S
      <3>13. Good(p)
        BY <3>7, <3>10, <3>12 DEF Good
      <3> QED BY <2>3, <3>13
    <2> QED BY <2>5, <2>6
  <1>6. 1 \in Heads(chunk) \/ 1 = n + 1
    <2>1. n = 0 \/ 1 \in 1 .. n
      <3> HIDE DEF n
      <3> QED BY <1>1
    <2>2. 1 \in 1 .. n => 1 \in Heads(chunk)
      BY DEF Heads
    <2>3. n = 0 => 1 = n + 1
      <3> HIDE DEF n
      <3> QED OBVIOUS
    <2> QED BY <2>1, <2>2, <2>3
  <1>7. Good(1)
    <2>1. n \in 0 .. n /\ n + 1 - n = 1
      <3> HIDE DEF n
      <3> QED BY <1>1
    <2>2. n \notin bad
      BY <1>5
    <2> HIDE DEF Good
    <2> QED BY <2>1, <2>2
  <1>8. From(1) = {b + k : k \in Heads(chunk)}
    <2>1. \A j \in Heads(chunk) : j >= 1
      <3>1. \A j \in 1 .. n : j >= 1
        <4> HIDE DEF n
        <4> QED BY <1>1
      <3> QED BY <1>4, <3>1
    <2> QED BY <2>1
  <1> QED BY <1>2, <1>6, <1>7, <1>8

-----------------------------------------------------------------------------
(* The turns of tokenizeStream. *)

\* No blank is a mark, and a number sign is neither.
LEMMA SymbolsDiffer ==
  LineEnd \in Blanks /\ "#" \notin Blanks /\ \A x \in Blanks : x \notin Marks
  <1>1. LineEnd \in Blanks
    BY Zenon DEF Blanks
  <1>2. "#" \notin Blanks
    BY Zenon DEF Blanks, LineEnd
  <1>3. \A x \in Blanks : x \notin Marks
    BY Zenon DEF Blanks, LineEnd, Marks, OPEN_BRACKET, CLOSE_BRACKET, SEMICOLON
  <1> QED BY <1>1, <1>2, <1>3

\* The first of a set of places of the file, or its end.
LEMMA FirstPlace ==
  ASSUME file \in Texts, NEW p \in Nat \ {0}, NEW T, T \subseteq p .. Len(file),
         NEW r, r = Least(T \cup {FileEnd})
  PROVE  /\ r \in Nat /\ (r = Len(file) + 1 \/ r \in T)
         /\ \A k \in p .. Len(file) : k < r => k \notin T
  <1> DEFINE n == Len(file)
             U == T \cup {n + 1}
  <1>1. n \in Nat
    BY LenProperties DEF Texts
  <1> HIDE DEF n
  <1>2. U \subseteq Nat /\ U # {}
    <2>1. T \subseteq p .. n
      BY DEF n
    <2>2. \A k \in p .. n : k \in Nat
      BY <1>1
    <2>3. n + 1 \in Nat
      BY <1>1
    <2> QED BY <2>1, <2>2, <2>3
  <1>3. r = Least(U)
    BY DEF FileEnd, n
  <1>4. r \in U /\ \A k \in U : r <= k
    <2> HIDE DEF U
    <2> QED BY <1>2, <1>3, LeastIs
  <1>5. ASSUME NEW k \in p .. n, k < r PROVE k \notin T
    <2>1. ~(r <= k)
      BY <1>1, <1>2, <1>4, <1>5
    <2> QED BY <1>4, <2>1
  <1> QED BY <1>2, <1>4, <1>5 DEF n

\* Where the next of some symbols stands.
LEMMA NextIs ==
  ASSUME file \in Texts, NEW p \in Nat \ {0}, NEW symbols, NEW r, r = NextOf(symbols, p)
  PROVE  /\ r \in Nat /\ (r = Len(file) + 1 \/ (r \in p .. Len(file) /\ file[r] \in symbols))
         /\ \A k \in p .. Len(file) : k < r => file[k] \notin symbols
  <1> DEFINE T == {q \in p .. Len(file) : file[q] \in symbols}
  <1>1. r = Least(T \cup {FileEnd}) /\ T \subseteq p .. Len(file)
    BY DEF NextOf
  <1> HIDE DEF T
  <1>2. /\ r \in Nat /\ (r = Len(file) + 1 \/ r \in T)
        /\ \A k \in p .. Len(file) : k < r => k \notin T
    BY <1>1, FirstPlace
  <1> QED BY <1>2 DEF T

\* Where the next that is none of them stands.
LEMMA NextOtherIs ==
  ASSUME file \in Texts, NEW p \in Nat \ {0}, NEW symbols, NEW r, r = NextOther(symbols, p)
  PROVE  /\ r \in Nat /\ (r = Len(file) + 1 \/ (r \in p .. Len(file) /\ file[r] \notin symbols))
         /\ \A k \in p .. Len(file) : k < r => file[k] \in symbols
  <1> DEFINE T == {q \in p .. Len(file) : file[q] \notin symbols}
  <1>1. r = Least(T \cup {FileEnd}) /\ T \subseteq p .. Len(file)
    BY DEF NextOther
  <1> HIDE DEF T
  <1>2. /\ r \in Nat /\ (r = Len(file) + 1 \/ r \in T)
        /\ \A k \in p .. Len(file) : k < r => k \notin T
    BY <1>1, FirstPlace
  <1> QED BY <1>2 DEF T

\* A blank is of no token.
LEMMA BlankIsNone ==
  ASSUME NEW k, file[k] \in Blanks
  PROVE  ~Spells(k) /\ ~Begins(k)
  BY SymbolsDiffer DEF Spells, Begins

\* Nothing but a new line ends a comment, and no token is in one.
LEMMA CommentIsNone ==
  ASSUME NEW k, InComment(k)
  PROVE  ~Spells(k) /\ ~Begins(k)
  BY DEF Spells, Begins

\* The stream stands where no comment goes on and no word.
Fresh(p) == p <= Len(file) => ~InComment(p - 1) /\ (Spells(p) => ~Spells(p - 1))

\* What a turn that starts at p keeps goes from the first symbol that is no blank to a
\* blank, a number sign or the end of the file.
Kept(p, from, to) ==
  /\ from \in p .. Len(file) /\ to \in from .. Len(file) + 1
  /\ \A k \in p .. from - 1 : file[k] \in Blanks
  /\ \A k \in from .. to - 1 : file[k] \notin Blanks /\ file[k] # "#"
  /\ to <= Len(file) => file[to] \in Blanks \/ file[to] = "#"

\* Between two blanks, what is before a number sign is of no comment, and every symbol of
\* it but a mark is of a word.
LEMMA ChunkSpells ==
  ASSUME file \in Texts, NEW p \in Nat \ {0}, Fresh(p),
         NEW from \in Nat, NEW to \in Nat, Kept(p, from, to)
  PROVE  /\ \A k \in p .. to - 1 : ~InComment(k)
         /\ \A k \in from .. to - 1 : Spells(k) <=> Word(file[k])
         /\ Spells(from) => ~Spells(from - 1)
         /\ ~Spells(to)
  <1>0. /\ from \in p .. Len(file) /\ to \in from .. Len(file) + 1
        /\ \A k \in p .. from - 1 : file[k] \in Blanks
        /\ \A k \in from .. to - 1 : file[k] \notin Blanks /\ file[k] # "#"
        /\ to <= Len(file) => file[to] \in Blanks \/ file[to] = "#"
    BY DEF Kept
  <1> USE <1>0
  <1> DEFINE n == Len(file)
  <1>1. n \in Nat /\ DOMAIN file = 1 .. n
    BY LenProperties DEF Texts
  <1> HIDE DEF n
  <1>2. p <= n /\ from \in 1 .. n /\ from \in Nat /\ to \in Nat /\ from <= to
    BY <1>1 DEF n
  <1>3. ~InComment(p - 1) /\ (Spells(p) => ~Spells(p - 1))
    BY <1>2 DEF Fresh, n
  <1>4. ASSUME NEW k \in p .. to - 1 PROVE ~InComment(k)
    <2> SUFFICES ASSUME InComment(k) PROVE FALSE
      OBVIOUS
    <2>1. PICK j \in 1 .. k : file[j] = "#" /\ \A i \in j .. k : file[i] # LineEnd
      BY DEF InComment
    <2>2. j \in p .. from - 1 \/ j \in from .. to - 1 \/ j < p
      BY <1>2
    <2>3. CASE j \in p .. from - 1
      BY <2>1, <2>3, SymbolsDiffer
    <2>4. CASE j \in from .. to - 1
      BY <2>1, <2>4
    <2>5. CASE j < p
      <3>1. j \in 1 .. p - 1 /\ \A i \in j .. p - 1 : i \in j .. k
        BY <1>2, <2>5
      <3>2. InComment(p - 1)
        BY <2>1, <3>1 DEF InComment
      <3> QED BY <1>3, <3>2
    <2> QED BY <2>2, <2>3, <2>4, <2>5
  <1>5. ASSUME NEW k \in from .. to - 1 PROVE Spells(k) <=> Word(file[k])
    <2>1. k \in 1 .. n /\ k \in p .. to - 1
      BY <1>1, <1>2 DEF n
    <2>2. ~InComment(k) /\ file[k] \notin Blanks
      BY <1>4, <2>1
    <2> QED BY <1>1, <2>1, <2>2 DEF Spells, Word
  <1>6. Spells(from) => ~Spells(from - 1)
    <2>1. CASE from = p
      BY <1>3, <2>1
    <2>2. CASE from # p
      <3>1. from - 1 \in p .. from - 1
        BY <1>2, <2>2
      <3> QED BY <3>1, BlankIsNone
    <2> QED BY <2>1, <2>2
  <1>7. ~Spells(to)
    <2>1. CASE to <= n
      <3>1. file[to] \in Blanks \/ file[to] = "#"
        BY <2>1 DEF n
      <3>2. CASE file[to] \in Blanks
        BY <3>2, BlankIsNone
      <3>3. CASE file[to] = "#"
        <4>1. to \in 1 .. to /\ \A i \in to .. to : i = to
          BY <1>2
        <4>2. file[to] # LineEnd
          BY <3>3, SymbolsDiffer
        <4>3. InComment(to)
          BY <3>3, <4>1, <4>2 DEF InComment
        <4> QED BY <4>3, CommentIsNone
      <3> QED BY <3>1, <3>2, <3>3
    <2>2. CASE ~(to <= n)
      <3>1. to \notin DOMAIN file
        BY <1>1, <2>2
      <3> QED BY <3>1 DEF Spells
    <2> QED BY <2>1, <2>2
  <1> QED BY <1>4, <1>5, <1>6, <1>7

\* The tokens that begin before p.
Begun(p) == {k \in 1 .. Len(file) : k < p /\ Begins(k)}

\* The token of each place, if one begins there.
Written == [k \in 1 .. Len(file) |-> IF Word(file[k]) /\ Spells(k + 1) THEN Other ELSE file[k]]

\* Behind p and before to, the tokens of the file are those of the chunk, which stands
\* behind b.
Placed(p, to, b, chunk) ==
  /\ Begun(to) = Begun(p) \cup {b + i : i \in Heads(chunk)}
  /\ \A i \in 1 .. Len(chunk) : Written[b + i] = Cut(chunk, i)
  /\ \A i \in Heads(chunk) : b + i \in Nat /\ b + i >= p

\* The tokens of the file that begin there are those of the chunk.
LEMMA ChunkBegins ==
  ASSUME file \in Texts, NEW p \in Nat \ {0}, Fresh(p),
         NEW from \in Nat, NEW to \in Nat, Kept(p, from, to),
         NEW kept, kept = SubSeq(file, from, to - 1), NEW b, b = from - 1
  PROVE  kept \in Texts /\ b \in Nat /\ Placed(p, to, b, kept)
  <1>0. /\ from \in p .. Len(file) /\ to \in from .. Len(file) + 1
        /\ \A k \in p .. from - 1 : file[k] \in Blanks
        /\ \A k \in from .. to - 1 : file[k] \notin Blanks /\ file[k] # "#"
        /\ to <= Len(file) => file[to] \in Blanks \/ file[to] = "#"
    BY DEF Kept
  <1> USE <1>0
  <1> DEFINE n == Len(file)
             l == Len(kept)
             z == to - 1
  <1>1. n \in Nat /\ DOMAIN file = 1 .. n
    BY LenProperties DEF Texts
  <1> HIDE DEF n
  <1>2. /\ from \in 1 .. n /\ to \in from .. n + 1 /\ p \in Nat \ {0} /\ p <= from /\ b \in Nat
        /\ from \in Nat /\ to \in Nat
    BY <1>1 DEF n
  <1>3. /\ \A k \in p .. to - 1 : ~InComment(k)
        /\ \A k \in from .. to - 1 : Spells(k) <=> Word(file[k])
        /\ Spells(from) => ~Spells(from - 1)
        /\ ~Spells(to)
    BY ChunkSpells
  <1>4. kept \in Texts /\ l = to - from /\ \A i \in 1 .. to - from : kept[i] = file[b + i]
    <2>1. \A k \in from .. z : k \in 1 .. n
      BY <1>1, <1>2
    <2>2. from \in Nat /\ z \in Nat /\ kept = SubSeq(file, from, z)
      BY <1>2
    <2>3. (IF from <= z THEN z - from + 1 ELSE 0) = to - from /\ z - from + 1 = to - from
      BY <1>2
    <2>4. \A i \in 1 .. to - from : from + i - 1 = b + i
      BY <1>2
    <2> HIDE DEF z
    <2>5. /\ kept \in Seq(STRING)
          /\ l = IF from <= z THEN z - from + 1 ELSE 0
          /\ \A i \in 1 .. z - from + 1 : kept[i] = file[from + i - 1]
      <3>1. file \in Seq(STRING) /\ \A k \in from .. z : k \in 1 .. Len(file)
        BY <2>1 DEF Texts, n
      <3>2. \A k \in from .. z : file[k] \in STRING
        BY <3>1, ElementOfSeq
      <3> QED BY <2>2, <3>1, <3>2, SubSeqProperties
    <2>6. l = to - from /\ \A i \in 1 .. to - from : kept[i] = file[from + i - 1]
      BY <2>3, <2>5
    <2> HIDE DEF l
    <2>7. \A i \in 1 .. to - from : kept[i] = file[b + i]
      BY <2>4, <2>6
    <2> QED BY <2>5, <2>6, <2>7 DEF Texts
  <1> HIDE DEF l
  <1>5. l \in Nat /\ \A i \in 1 .. l : b + i \in from .. to - 1 /\ kept[i] = file[b + i]
    BY <1>2, <1>4
  <1>6. ASSUME NEW i \in 1 .. l PROVE Begins(b + i) <=> i \in Heads(kept)
    <2> DEFINE k == b + i
    <2>1. k \in from .. to - 1 /\ k \in p .. to - 1 /\ kept[i] = file[k]
      BY <1>2, <1>5
    <2>2. ~InComment(k) /\ (Spells(k) <=> Word(file[k]))
      BY <1>3, <2>1
    <2>3. i = 1 => k = from
      BY <1>2
    <2>4. i # 1 => /\ i - 1 \in 1 .. l /\ k - 1 = b + (i - 1)
      BY <1>2, <1>5
    <2> HIDE DEF k
    <2>5. i # 1 => (Spells(k - 1) <=> Word(kept[i - 1]))
      BY <1>3, <1>5, <2>4
    <2>6. i \in Heads(kept) <=> ~Word(kept[i]) \/ i = 1 \/ ~Word(kept[i - 1])
      BY DEF Heads, l
    <2>7. Begins(k) <=> ~Word(file[k]) \/ (Spells(k) /\ ~Spells(k - 1))
      BY <2>2 DEF Begins, Word
    <2>8. Begins(k) <=> i \in Heads(kept)
      <3>1. CASE i = 1
        BY <1>3, <2>1, <2>2, <2>3, <2>6, <2>7, <3>1
      <3>2. CASE i # 1
        BY <2>1, <2>2, <2>5, <2>6, <2>7, <3>2
      <3> QED BY <3>1, <3>2
    <2> QED BY <2>8 DEF k
  <1>7. Begun(to) = Begun(p) \cup {b + i : i \in Heads(kept)}
    <2>1. Heads(kept) \subseteq 1 .. l
      BY DEF Heads, l
    <2>2. ASSUME NEW k \in Begun(to) PROVE k \in Begun(p) \cup {b + i : i \in Heads(kept)}
      <3>1. k \in 1 .. n /\ k < to /\ Begins(k)
        BY DEF Begun, n
      <3>2. CASE k < p
        BY <3>1, <3>2 DEF Begun, n
      <3>3. CASE k \in p .. from - 1
        BY <3>1, <3>3, BlankIsNone
      <3>4. CASE k \in from .. to - 1
        <4> DEFINE i == k - b
        <4>1. i \in 1 .. l /\ b + i = k
          BY <1>2, <1>4, <3>4
        <4> HIDE DEF i
        <4> QED BY <1>6, <3>1, <4>1
      <3>5. k < p \/ k \in p .. from - 1 \/ k \in from .. to - 1
        BY <1>2, <3>1
      <3> QED BY <3>2, <3>3, <3>4, <3>5
    <2>3. ASSUME NEW k \in Begun(p) PROVE k \in Begun(to)
      <3>1. k \in 1 .. n /\ k < p /\ Begins(k)
        BY DEF Begun, n
      <3>2. k < to
        BY <1>2, <3>1
      <3> QED BY <3>1, <3>2 DEF Begun, n
    <2>4. ASSUME NEW i \in Heads(kept) PROVE b + i \in Begun(to)
      <3>1. i \in 1 .. l /\ Begins(b + i)
        BY <1>6, <2>1
      <3>2. b + i \in 1 .. n /\ b + i < to
        BY <1>1, <1>2, <1>5, <3>1
      <3> QED BY <3>1, <3>2 DEF Begun, n
    <2> QED BY <2>2, <2>3, <2>4
  <1>8. ASSUME NEW i \in 1 .. l PROVE Written[b + i] = Cut(kept, i)
    <2> DEFINE k == b + i
    <2>1. k \in 1 .. n /\ kept[i] = file[k]
      BY <1>1, <1>2, <1>5
    <2>2. i + 1 <= l => /\ i + 1 \in 1 .. l /\ k + 1 = b + (i + 1)
      BY <1>2, <1>5
    <2>3. ~(i + 1 <= l) => k + 1 = to
      BY <1>2, <1>4, <1>5
    <2> HIDE DEF k
    <2>4. i + 1 <= l => (Spells(k + 1) <=> Word(kept[i + 1]))
      BY <1>3, <1>5, <2>2
    <2>5. Spells(k + 1) <=> i + 1 <= l /\ Word(kept[i + 1])
      BY <1>3, <2>3, <2>4
    <2>6. Written[k] = IF Word(file[k]) /\ Spells(k + 1) THEN Other ELSE file[k]
      BY <2>1 DEF Written, n
    <2>7. Cut(kept, i) = IF Word(kept[i]) /\ i + 1 <= l /\ Word(kept[i + 1]) THEN Other ELSE kept[i]
      BY DEF Cut, l
    <2> QED BY <2>1, <2>5, <2>6, <2>7 DEF k
  <1>9. \A i \in Heads(kept) : b + i \in Nat /\ b + i >= p
    <2>1. Heads(kept) \subseteq 1 .. l
      BY DEF Heads, l
    <2>2. \A i \in 1 .. l : b + i \in Nat /\ b + i >= p
      BY <1>2, <1>5
    <2> QED BY <2>1, <2>2
  <1> QED BY <1>2, <1>4, <1>7, <1>8, <1>9 DEF l, Placed

\* The tokens that begin at those places.
TokensAt(S) ==
  [i \in 1 .. Cardinality(S) |->
     IF Word(file[Nth(S, i)]) /\ Spells(Nth(S, i) + 1) THEN Other ELSE file[Nth(S, i)]]

\* What is said of a file depends on nothing but the file.
LEMMA SameFile ==
  ASSUME file' = file
  PROVE  /\ \A p : Fresh(p)' <=> Fresh(p)
         /\ \A p : Begun(p)' = Begun(p)
         /\ Written' = Written
         /\ Tokens' = Tokens
  <1>1. \A k : InComment(k)' <=> InComment(k)
    BY DEF InComment
  <1>2. \A k : Spells(k)' <=> Spells(k)
    BY <1>1 DEF Spells
  <1>3. \A k : Begins(k)' <=> Begins(k)
    BY <1>1, <1>2 DEF Begins
  <1>4. \A p : Fresh(p)' <=> Fresh(p)
    BY <1>1, <1>2 DEF Fresh
  <1>5. \A p : Begun(p)' = Begun(p)
    BY <1>3 DEF Begun
  <1>6. Written' = Written
    BY <1>2 DEF Written, Word
  <1>7. Tokens' = Tokens
    <2> DEFINE S == {k \in DOMAIN file : Begins(k)}
    <2>1. Tokens = TokensAt(S)
      BY Zenon DEF Tokens, TokensAt, Nth
    <2>2. Tokens' = TokensAt(S)'
      BY Zenon DEF Tokens, TokensAt, Nth
    <2>3. S' = S
      BY <1>3
    <2> HIDE DEF S
    <2>4. TokensAt(S)' = TokensAt(S)
      BY <2>3 DEF TokensAt, Word, Spells, InComment
    <2> QED BY <2>1, <2>2, <2>4
  <1> QED BY <1>4, <1>5, <1>6, <1>7

\* stripComments: from the number sign to the end of its line no token begins, and behind
\* it no comment goes on and no word.
LEMMA CommentSkipped ==
  ASSUME file \in Texts, NEW sign \in 1 .. Len(file), file[sign] = "#",
         NEW end \in sign .. Len(file) + 1, \A k \in sign .. end - 1 : file[k] \notin Blanks,
         NEW l, l = NextOf({LineEnd}, end)
  PROVE  l \in Nat /\ Begun(l + 1) = Begun(sign) /\ Fresh(l + 1)
  <1> DEFINE n == Len(file)
  <1>1. n \in Nat /\ DOMAIN file = 1 .. n
    BY LenProperties DEF Texts
  <1>2. sign \in 1 .. n /\ end \in sign .. n + 1
    OBVIOUS
  <1>3. /\ l \in Nat /\ (l = n + 1 \/ (l \in end .. n /\ file[l] = LineEnd))
        /\ \A k \in end .. n : k < l => file[k] # LineEnd
    <2>1. end \in Nat \ {0}
      <3> HIDE DEF n
      <3> QED BY <1>1, <1>2
    <2> QED BY <2>1, NextIs
  <1> HIDE DEF n
  <1>4. /\ l \in sign .. n + 1
        /\ \A k \in sign .. l - 1 : k \in sign .. end - 1 \/ (k \in end .. n /\ k < l)
    <2>1. l = n + 1 \/ l \in end .. n
      BY <1>3
    <2>2. l \in sign .. n + 1
      BY <1>1, <1>2, <2>1
    <2>3. ASSUME NEW k \in sign .. l - 1 PROVE k \in sign .. end - 1 \/ (k \in end .. n /\ k < l)
      BY <1>1, <1>2, <2>2
    <2> QED BY <2>2, <2>3
  <1>5. \A k \in sign .. l - 1 : file[k] # LineEnd
    BY <1>3, <1>4, SymbolsDiffer
  <1>6. ASSUME NEW k \in sign .. l - 1 PROVE InComment(k)
    <2>1. sign \in 1 .. k /\ \A i \in sign .. k : i \in sign .. l - 1
      BY <1>1, <1>2, <1>3
    <2> QED BY <1>5, <2>1 DEF InComment
  <1>7. \A k \in 1 .. n : k < l + 1 => k < sign \/ k \in sign .. l - 1 \/ (k = l /\ l # n + 1)
    BY <1>1, <1>2, <1>3
  <1>8. l # n + 1 => file[l] \in Blanks /\ ~InComment(l)
    <2> SUFFICES ASSUME l # n + 1 PROVE file[l] \in Blanks /\ ~InComment(l)
      OBVIOUS
    <2>1. file[l] = LineEnd
      BY <1>3
    <2>2. \A j \in 1 .. l : l \in j .. l
      BY <1>3
    <2> QED BY <2>1, <2>2, SymbolsDiffer DEF InComment
  <1>9. Begun(l + 1) = Begun(sign)
    <2>1. ASSUME NEW k \in Begun(l + 1) PROVE k \in Begun(sign)
      <3>1. k \in 1 .. n /\ k < l + 1 /\ Begins(k)
        BY DEF Begun, n
      <3>2. k < sign \/ k \in sign .. l - 1 \/ (k = l /\ l # n + 1)
        BY <1>7, <3>1
      <3>3. k < sign
        BY <1>6, <1>8, <3>1, <3>2, CommentIsNone, BlankIsNone
      <3> QED BY <3>1, <3>3 DEF Begun, n
    <2>2. ASSUME NEW k \in Begun(sign) PROVE k \in Begun(l + 1)
      <3>1. k \in 1 .. n /\ k < sign /\ Begins(k)
        BY DEF Begun, n
      <3>2. k < l + 1
        BY <1>1, <1>2, <1>4, <3>1
      <3> QED BY <3>1, <3>2 DEF Begun, n
    <2> QED BY <2>1, <2>2
  <1>10. Fresh(l + 1)
    <2>1. PICK m : m = l + 1
      OBVIOUS
    <2>2. m - 1 = l /\ (m <= n => l # n + 1)
      BY <1>1, <1>3, <2>1
    <2>3. m <= n => ~InComment(m - 1) /\ ~Spells(m - 1)
      BY <1>8, <2>2, BlankIsNone
    <2>4. Fresh(m)
      BY <2>3 DEF Fresh, n
    <2> QED BY <2>1, <2>4
  <1> QED BY <1>3, <1>9, <1>10

\* The tokens listed so far are those that begin where the stream has been.
Listed == at \in Nat \ {0} /\ Fresh(at) /\ Lists(text, Begun(at), Written)

\* So they are after one more turn of tokenizeStream.
LEMMA ReadChunkLists ==
  ASSUME text \in Texts, file \in Texts, Listed, ReadChunk
  PROVE  Listed'
  <1>1. PICK from \in {NextOther(Blanks, at)} \cap DOMAIN file :
          LET end  == NextOf(Blanks, from)
              sign == NextOf({"#"}, from)
          IN  /\ \E kept \in {SubSeq(file, from, (IF sign < end THEN sign ELSE end) - 1)} :
                   text' = text \o Split(kept)
              /\ at' = IF sign < end THEN AfterComment(end) ELSE end
              /\ UNCHANGED file
    BY DEF ReadChunk
  <1> DEFINE n == Len(file)
             end  == NextOf(Blanks, from)
             sign == NextOf({"#"}, from)
             to   == IF sign < end THEN sign ELSE end
             kept == SubSeq(file, from, to - 1)
             b    == from - 1
  <1>2. n \in Nat /\ DOMAIN file = 1 .. n
    BY LenProperties DEF Texts
  <1>3. PICK p \in Nat \ {0} : p = at
    BY DEF Listed
  <1>4. Fresh(p) /\ Lists(text, Begun(p), Written)
    BY <1>3 DEF Listed
  <1>5. text' = text \o Split(kept) /\ file' = file
    BY <1>1
  <1>6. at' = IF sign < end THEN AfterComment(end) ELSE end
    BY <1>1
  <1>7. from = NextOther(Blanks, p) /\ from \in 1 .. n /\ from \in Nat \ {0}
    BY <1>2, <1>3
  <1>8. /\ from \in p .. n /\ file[from] \notin Blanks
        /\ \A k \in p .. n : k < from => file[k] \in Blanks
    <2>1. /\ from = n + 1 \/ (from \in p .. n /\ file[from] \notin Blanks)
          /\ \A k \in p .. n : k < from => file[k] \in Blanks
      BY <1>7, NextOtherIs
    <2>2. from # n + 1
      <3> HIDE DEF n
      <3> QED BY <1>2, <1>7
    <2> QED BY <2>1, <2>2
  <1>9. /\ end \in Nat /\ (end = n + 1 \/ (end \in from .. n /\ file[end] \in Blanks))
        /\ \A k \in from .. n : k < end => file[k] \notin Blanks
    BY <1>7, NextIs
  <1>10. /\ sign \in Nat /\ (sign = n + 1 \/ (sign \in from .. n /\ file[sign] = "#"))
         /\ \A k \in from .. n : k < sign => file[k] # "#"
    BY <1>7, NextIs
  <1> HIDE DEF end, sign, n
  <1>11. /\ from \in Nat /\ end \in from .. n + 1 /\ sign \in from .. n + 1
         /\ to \in from .. n + 1 /\ (to = end \/ to = sign) /\ to <= end /\ to <= sign
         /\ \A k \in from .. end - 1 : k \in from .. n /\ k < end
         /\ \A k \in from .. to - 1 : k \in from .. n /\ k < end /\ k < sign
         /\ \A k \in p .. from - 1 : k \in p .. n /\ k < from
    BY <1>2, <1>3, <1>8, <1>9, <1>10
  <1>12. to <= n => file[to] \in Blanks \/ file[to] = "#"
    BY <1>2, <1>9, <1>10, <1>11
  <1>13. PICK t : t = to
    OBVIOUS
  <1>14. /\ from \in p .. n /\ t \in from .. n + 1
         /\ \A k \in p .. from - 1 : file[k] \in Blanks
         /\ \A k \in from .. t - 1 : file[k] \notin Blanks /\ file[k] # "#"
         /\ t <= n => file[t] \in Blanks \/ file[t] = "#"
         /\ kept = SubSeq(file, from, t - 1)
    BY <1>8, <1>9, <1>10, <1>11, <1>12, <1>13
  <1> HIDE DEF kept, b
  <1>15. /\ kept \in Texts /\ b \in Nat
         /\ Begun(t) = Begun(p) \cup {b + i : i \in Heads(kept)}
         /\ \A i \in 1 .. Len(kept) : Written[b + i] = Cut(kept, i)
         /\ \A i \in Heads(kept) : b + i \in Nat /\ b + i >= p
    <2>1. b = from - 1
      BY DEF b
    <2>2. Kept(p, from, t) /\ from \in Nat /\ t \in Nat
      BY <1>2, <1>11, <1>13, <1>14 DEF Kept, n
    <2>3. PICK c : c = kept
      OBVIOUS
    <2>4. PICK m : m = b
      OBVIOUS
    <2>5. c = SubSeq(file, from, t - 1) /\ m = from - 1
      BY <1>14, <2>1, <2>3, <2>4
    <2>6. c \in Texts /\ m \in Nat /\ Placed(p, t, m, c)
      BY <1>4, <2>2, <2>5, ChunkBegins
    <2> QED BY <2>3, <2>4, <2>6 DEF Placed
  <1>16. Lists(text', Begun(t), Written)
    <2> DEFINE T == {b + i : i \in Heads(kept)}
    <2>1. Lists(Split(kept), T, Written)
      BY <1>15, SplitLists
    <2>2. Split(kept) \in Texts
      BY <1>15, SplitType
    <2>3. T \subseteq Nat /\ \A m \in T : m >= p
      BY <1>15
    <2>4. Begun(p) \subseteq Nat /\ \A k \in Begun(p) : k < p
      BY <1>2 DEF Begun, n
    <2>5. \A k \in Begun(p) : \A m \in T : k < m
      <3> HIDE DEF T
      <3> QED BY <2>3, <2>4
    <2> HIDE DEF T
    <2>6. Lists(text \o Split(kept), Begun(p) \cup T, Written)
      BY <1>4, <2>1, <2>2, <2>3, <2>4, <2>5, ListsJoin
    <2> QED BY <1>5, <1>15, <2>6 DEF T
  <1>17. /\ \A k \in p .. t - 1 : ~InComment(k)
         /\ ~Spells(t)
    <2>1. Kept(p, from, t) /\ from \in Nat /\ t \in Nat
      BY <1>2, <1>11, <1>13, <1>14 DEF Kept, n
    <2> QED BY <1>4, <2>1, ChunkSpells
  <1>18. PICK q : q = at'
    OBVIOUS
  <1>19. q \in Nat \ {0} /\ Fresh(q) /\ Begun(q) = Begun(t)
    <2>1. CASE sign < end
      <3> DEFINE l == NextOf({LineEnd}, end)
      <3>1. t = sign /\ q = l + 1
        BY <1>6, <1>13, <1>18, <2>1 DEF AfterComment
      <3>2. sign \in 1 .. n /\ file[sign] = "#" /\ end \in sign .. n + 1
            /\ \A k \in sign .. end - 1 : k \in from .. n /\ k < end
        BY <1>2, <1>8, <1>10, <1>11, <2>1
      <3>3. \A k \in sign .. end - 1 : file[k] \notin Blanks
        BY <1>9, <3>2
      <3>4. l \in Nat /\ Begun(l + 1) = Begun(sign) /\ Fresh(l + 1)
        BY <3>2, <3>3, CommentSkipped DEF n
      <3> HIDE DEF l
      <3>5. l + 1 \in Nat \ {0}
        BY <3>4
      <3> QED BY <3>1, <3>4, <3>5
    <2>2. CASE ~(sign < end)
      <3>1. q = t /\ t = end
        BY <1>6, <1>13, <1>18, <2>2
      <3>2. ASSUME t <= n PROVE t - 1 \in p .. t - 1
        <4>1. t # from
          BY <1>2, <1>8, <1>9, <3>1, <3>2
        <4> QED BY <1>11, <1>14, <4>1
      <3>3. Fresh(t)
        BY <1>17, <3>2 DEF Fresh, n
      <3>4. t \in Nat \ {0}
        BY <1>7, <1>14
      <3> QED BY <3>1, <3>3, <3>4
    <2> QED BY <2>1, <2>2
  <1>20. Fresh(q)' /\ Lists(text', Begun(q)', Written')
    BY <1>5, <1>16, <1>19, SameFile
  <1> QED BY <1>18, <1>19, <1>20 DEF Listed, Lists

\* When the stream has nothing but blanks left, they are the tokens of the file.
LEMMA AllListed ==
  ASSUME text \in Texts, file \in Texts, Listed, StreamEnds
  PROVE  text = Tokens
  <1> DEFINE n == Len(file)
             starts == {k \in DOMAIN file : Begins(k)}
             spelled(k) == IF Word(file[k]) /\ Spells(k + 1) THEN Other ELSE file[k]
  <1>1. n \in Nat /\ DOMAIN file = 1 .. n
    BY LenProperties DEF Texts
  <1>2. at \in Nat \ {0} /\ Lists(text, Begun(at), Written)
    BY DEF Listed
  <1>3. \A k \in at .. n : k < n + 1 => file[k] \in Blanks
    BY <1>2, NextOtherIs DEF StreamEnds, FileEnd
  <1>4. starts = Begun(at)
    <2>1. \A k \in 1 .. n : k < at \/ (k \in at .. n /\ k < n + 1)
      <3> HIDE DEF n
      <3> QED BY <1>1, <1>2
    <2>2. \A k \in 1 .. n : Begins(k) => k < at
      BY <1>3, <2>1, BlankIsNone
    <2> QED BY <1>1, <2>2 DEF Begun
  <1>5. starts \subseteq Nat /\ starts \subseteq 1 .. n
    BY <1>1
  <1> HIDE DEF starts
  <1>6. /\ text = [i \in 1 .. Cardinality(starts) |-> Written[Nth(starts, i)]]
        /\ \A i \in 1 .. Cardinality(starts) : Nth(starts, i) \in starts
    <2>1. Lists(text, starts, Written)
      BY <1>2, <1>4
    <2>2. PICK f : f = Written
      OBVIOUS
    <2>3. Lists(text, starts, f)
      BY <2>1, <2>2
    <2>4. /\ text = [i \in 1 .. Cardinality(starts) |-> f[Nth(starts, i)]]
          /\ \A i \in 1 .. Cardinality(starts) : Nth(starts, i) \in starts
      BY <1>5, <2>3, ListsOnly
    <2> QED BY <2>2, <2>4
  <1>7. \A k \in starts : Written[k] = spelled(k)
    BY <1>5 DEF Written
  <1>8. text = [i \in 1 .. Cardinality(starts) |-> spelled(Nth(starts, i))]
    <2> HIDE DEF spelled
    <2> QED BY <1>6, <1>7
  <1>9. Tokens = [i \in 1 .. Cardinality(starts) |-> spelled(Nth(starts, i))]
    BY Zenon DEF Tokens, Nth, starts
  <1> QED BY <1>8, <1>9

\* While the stream is read the tokens behind it are listed; afterwards they all are.
Tokenized ==
  /\ phase = "tokens" => Listed
  /\ phase # "tokens" => text = Tokens

\* The stream is read from its first symbol.
LEMMA InitTokenized == Init => Tokenized
  <1> SUFFICES ASSUME Init PROVE Tokenized
    OBVIOUS
  <1>1. text = <<>> /\ at = 1 /\ phase = "tokens"
    BY DEF Init, InitTokens
  <1>2. Begun(1) = {}
    <2>1. \A k \in 1 .. Len(file) : ~(k < 1)
      OBVIOUS
    <2> QED BY <2>1 DEF Begun
  <1>3. Fresh(1)
    <2>1. ~InComment(0)
      <3>1. 1 .. 0 = {}
        OBVIOUS
      <3> QED BY <3>1 DEF InComment
    <2>2. ~Spells(0)
      <3>1. file \in Seq(STRING) /\ 0 \notin 1 .. Len(file)
        BY FilesAssumption DEF Init, InitTokens
      <3>2. DOMAIN file = 1 .. Len(file)
        BY <3>1, LenProperties
      <3> QED BY <3>1, <3>2 DEF Spells
    <2>3. 1 - 1 = 0
      OBVIOUS
    <2> QED BY <2>1, <2>2, <2>3 DEF Fresh
  <1>4. Lists(<<>>, {}, Written)
    <2> DEFINE e == [i \in 1 .. 0 |-> {}]
    <2>1. 1 .. 0 = {}
      OBVIOUS
    <2>2. e \in [1 .. 0 -> {}]
      BY <2>1
    <2>3. Len(<<>>) = 0
      OBVIOUS
    <2> HIDE DEF e
    <2> QED BY <2>1, <2>2, <2>3 DEF Lists
  <1>5. Lists(text, Begun(at), Written)
    BY Zenon, <1>1, <1>2, <1>4
  <1>6. at \in Nat \ {0} /\ Fresh(at)
    BY <1>1, <1>3
  <1> QED BY <1>1, <1>5, <1>6 DEF Tokenized, Listed

\* Every step keeps it: only tokenizeStream moves the stream and adds tokens.
LEMMA NextTokenized == Inv /\ Tokenized /\ [Next]_vars => Tokenized'
  <1> SUFFICES ASSUME Inv, Tokenized, [Next]_vars PROVE Tokenized'
    OBVIOUS
  <1>1. text \in Texts /\ file \in Texts
    BY DEF Inv, Typed
  <1>2. CASE phase = "tokens" /\ ReadChunk /\ phase' = phase
    <2>1. Listed'
      BY <1>1, <1>2, ReadChunkLists DEF Tokenized
    <2> QED BY <1>2, <2>1 DEF Tokenized
  <1>3. CASE phase = "tokens" /\ StreamEnds /\ GoTo("syntax", 1)
    <2>1. text' = text /\ file' = file /\ phase' = "syntax"
      BY <1>3 DEF GoTo, source
    <2>2. text = Tokens
      BY <1>1, <1>3, AllListed DEF Tokenized
    <2> QED BY <2>1, <2>2, SameFile DEF Tokenized
  <1>4. CASE phase # "tokens" /\ phase' # "tokens" /\ UNCHANGED source
    BY <1>4, SameFile DEF Tokenized, source
  <1>5. CASE UNCHANGED vars
    <2>1. text' = text /\ file' = file /\ at' = at /\ phase' = phase
      BY <1>5 DEF vars, source
    <2>2. /\ \A p : Fresh(p)' <=> Fresh(p)
          /\ \A p : Begun(p)' = Begun(p)
          /\ Written' = Written /\ Tokens' = Tokens
      BY <2>1, SameFile
    <2>3. PICK p : p = at
      OBVIOUS
    <2>4. Fresh(p)' <=> Fresh(p) /\ Begun(p)' = Begun(p)
      BY <2>2
    <2>5. Listed => Listed'
      BY <2>1, <2>2, <2>3, <2>4 DEF Listed, Lists
    <2> QED BY <2>1, <2>2, <2>5 DEF Tokenized
  <1>6. CASE Tokenize
    BY <1>2, <1>3, <1>6 DEF Tokenize
  <1>7. CASE CheckText \/ CheckServerBlock \/ CheckLocationBlock
    <2>1. phase # "tokens" /\ phase' # "tokens" /\ UNCHANGED source
      BY <1>7 DEF CheckText, CheckServerBlock, CheckLocationBlock, CheckLine, EnterSyntax, GoTo, End
    <2> QED BY <1>4, <2>1
  <1>8. CASE ReadText \/ ReadServerBlock \/ ReadLocationBlock
    <2>1. phase # "tokens" /\ phase' # "tokens" /\ UNCHANGED source
      BY <1>8 DEF ReadText, ReadServerBlock, ReadLocationBlock, Apply, GoTo, End
    <2> QED BY <1>4, <2>1
  <1> QED BY <1>5, <1>6, <1>7, <1>8 DEF Next

\* What the syntax check is given are the tokens of the file, whatever the file: however
\* blanks, line ends, marks and comments follow each other, tokenizeStream neither loses a
\* token, nor takes one from a comment, nor cuts or joins what it should not.
THEOREM TokensAre == Spec => []TokensRight
  <1>1. Tokenized => TokensRight
    BY DEF Tokenized, TokensRight
  <1> QED BY <1>1, InitInv, NextInv, InitTokenized, NextTokenized, PTL DEF Spec
=============================================================================
