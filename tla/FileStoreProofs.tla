--------------------------- MODULE FileStoreProofs ---------------------------
(***************************************************************************)
(* Theorems about FileStore, for any number of clients and descriptors,    *)
(* bodies and contents of any length, and any sizes of the streams'        *)
(* buffers.                                                                *)
(***************************************************************************)
EXTENDS FileStore, SequenceTheorems, FiniteSetTheorems, TLAPS

Methods == {"GET", "LIST", "POST", "DELETE"}

Requests == [method : Methods, body : Seq(Pieces)]

FileManagers ==
  [phase : {"idle", "Loading", "Sending", "answered", "lost"}, on : Nat, at : Nat,
   kept : Seq(Pieces), got : Seq(Pieces), given : Nat,
   status : {"none", "200", "204", "404", "500", "stored"}]

Expectations == [known : BOOLEAN, held : Seq(Seq(Pieces))]

Typed ==
  /\ want \in [Clients -> Requests]
  /\ content \in Seq(Seq(Pieces))
  /\ path \in 0 .. Len(content)
  /\ file \in [Clients -> FileManagers]
  /\ value \in Expectations
  /\ meant \in [Clients -> Expectations]
  /\ listings \in Nat

\* The stream s of a request w, among n files: it is open only while the request
\* is under way, on one of these files, and keeps no more than it has room for; a
\* request that has begun is without a stream only as long as a listing waits.
Stream(w, s, n) ==
  /\ s.on <= n
  /\ s.given <= Len(w.body)
  /\ Len(s.kept) <= (IF w.method = "POST" THEN WriteBack ELSE ReadAhead - 1)
  /\ s.on # Absent => s.phase \in {"Loading", "Sending"}
  /\ s.phase = "idle" => s = Closed
  /\ s.phase = "Loading" => s.status = "none"
  /\ s.phase = "Loading" /\ s.on = Absent =>
       w.method = "LIST" /\ s = [Closed EXCEPT !.phase = "Loading"]
  /\ s.status = "200" => w.method \in {"GET", "LIST"}

Streams == \A c \in Clients : Stream(want[c], file[c], Len(content))

-----------------------------------------------------------------------------
(* Contents and streams. *)

\* What a stream that has read n pieces of a file has yet to fetch.
Unread(whole, n) == SubSeq(whole, n + 1, Len(whole))

\* What a reader will have got when it is through.
Coming(s, whole) == s.got \o (s.kept \o Unread(whole, s.at))

\* The file and what the stream keeps are the part of the body given so far.
Faithful(body, s, whole) ==
  /\ s.at = Len(whole)
  /\ whole \o s.kept = SubSeq(body, 1, s.given)

\* Marks are pieces.
LEMMA BodyType ==
  ASSUME NEW mark \in Pieces, NEW n \in Nat
  PROVE  Body(mark, n) \in Seq(Pieces)
  BY DEF Body

\* A write changes a content into a content, and at its end appends to it.
LEMMA OverwrittenType ==
  ASSUME NEW old \in Seq(Pieces), NEW n \in Nat, NEW pieces \in Seq(Pieces)
  PROVE  /\ Overwritten(old, n, pieces) \in Seq(Pieces)
         /\ n = Len(old) => Overwritten(old, n, pieces) = old \o pieces
  <1> DEFINE length == IF n + Len(pieces) > Len(old) THEN n + Len(pieces) ELSE Len(old)
             m == IF pieces = <<>> THEN Len(old) ELSE length
             piece(k) == CASE k > n /\ k <= n + Len(pieces) -> pieces[k - n]
                           [] k <= n /\ k > Len(old)        -> Hole
                           [] OTHER                         -> old[k]
  <1>1. Len(old) \in Nat /\ Len(pieces) \in Nat /\ m \in Nat
        /\ (pieces = <<>> <=> Len(pieces) = 0)
    BY EmptySeq, LenProperties
  <1>2. Overwritten(old, n, pieces) = [k \in 1 .. m |-> piece(k)]
    BY DEF Overwritten
  <1>3. ASSUME NEW k \in 1 .. m PROVE piece(k) \in Pieces
    <2>1. CASE k > n /\ k <= n + Len(pieces)
      BY <1>1, <2>1, ElementOfSeq
    <2>2. CASE k <= n /\ k > Len(old)
      BY <1>1, <2>2 DEF Pieces
    <2>3. CASE ~(k > n /\ k <= n + Len(pieces)) /\ ~(k <= n /\ k > Len(old))
      <3>1. k \in 1 .. Len(old)
        BY <1>1, <2>3
      <3> QED BY <2>3, <3>1, ElementOfSeq
    <2> QED BY <2>1, <2>2, <2>3
  <1> HIDE DEF piece, m
  <1>4. Overwritten(old, n, pieces) \in Seq(Pieces)
    BY <1>1, <1>2, <1>3, IsASeq
  <1>5. ASSUME n = Len(old) PROVE Overwritten(old, n, pieces) = old \o pieces
    <2>1. m = Len(old) + Len(pieces)
      BY <1>1, <1>5 DEF m
    <2>2. old \o pieces \in Seq(Pieces) /\ Len(old \o pieces) = m
      BY <2>1, ConcatProperties
    <2>3. Len(Overwritten(old, n, pieces)) = m
      BY <1>1, <1>2
    <2>4. ASSUME NEW k \in 1 .. m PROVE Overwritten(old, n, pieces)[k] = (old \o pieces)[k]
      <3>1. (old \o pieces)[k] = IF k <= Len(old) THEN old[k] ELSE pieces[k - Len(old)]
        BY <2>1, <2>4, ConcatProperties
      <3>2. piece(k) = IF k <= Len(old) THEN old[k] ELSE pieces[k - Len(old)]
        BY <1>1, <1>5, <2>1 DEF piece
      <3> QED BY <1>2, <3>1, <3>2
    <2> QED BY <1>4, <2>2, <2>3, <2>4, SeqEqual
  <1> QED BY <1>4, <1>5

\* What is left of a content is a content, and nothing is left past its end.
LEMMA UnreadType ==
  ASSUME NEW whole \in Seq(Pieces), NEW n \in Nat
  PROVE  /\ Unread(whole, n) \in Seq(Pieces)
         /\ n >= Len(whole) => Unread(whole, n) = <<>>
  <1>1. Len(whole) \in Nat /\ \A i \in n + 1 .. Len(whole) : whole[i] \in Pieces
    BY LenProperties, ElementOfSeq
  <1> QED BY <1>1, SubSeqProperties, SubSeqEmpty DEF Unread

\* A piece fetched is a piece less to be fetched.
LEMMA UnreadSplit ==
  ASSUME NEW whole \in Seq(Pieces), NEW n \in Nat, NEW m \in Nat, n <= m, m <= Len(whole)
  PROVE  /\ SubSeq(whole, n + 1, m) \in Seq(Pieces)
         /\ Len(SubSeq(whole, n + 1, m)) = m - n
         /\ Unread(whole, n) = SubSeq(whole, n + 1, m) \o Unread(whole, m)
  <1>1. Len(whole) \in Nat /\ \A i \in n + 1 .. m : whole[i] \in Pieces
    BY LenProperties, ElementOfSeq
  <1>2. /\ SubSeq(whole, n + 1, m) \in Seq(Pieces)
        /\ Len(SubSeq(whole, n + 1, m)) = m - n
    BY <1>1, SubSeqProperties
  <1>3. n + 1 \in 1 .. Len(whole) + 1 /\ m \in (n + 1) - 1 .. Len(whole)
        /\ Len(whole) \in m .. Len(whole)
    BY <1>1
  <1> QED BY <1>2, <1>3, ConcatAdjacentSubSeq DEF Unread

\* The first piece of a sequence, and the rest.
LEMMA HeadAndRest ==
  ASSUME NEW s \in Seq(Pieces), s # <<>>
  PROVE  s = <<Head(s)>> \o Tail(s) /\ <<Head(s)>> \in Seq(Pieces)
  <1>1. Len(s) \in Nat \ {0}
    BY EmptySeq
  <1>2. SubSeq(s, 1, Len(s)) = <<s[1]>> \o SubSeq(s, 2, Len(s))
    BY <1>1, SubSeqRecursiveFirst
  <1>3. SubSeq(s, 1, Len(s)) = s /\ Tail(s) = SubSeq(s, 2, Len(s)) /\ Head(s) = s[1]
    BY SubSeqFull, TailIsSubSeq
  <1>4. s[1] \in Pieces
    BY <1>1, ElementOfSeq
  <1> QED BY <1>2, <1>3, <1>4

\* Contents may be joined in any order.
LEMMA Associative ==
  \A s, t, u \in Seq(Pieces) : s \o t \in Seq(Pieces) /\ (s \o t) \o u = s \o (t \o u)
  BY ConcatAssociative, ConcatProperties

\* What a stream fetches that has read that far, what the request has got once it
\* takes a piece of what the stream has, and what the stream has left.
Fetched(whole, from) ==
  SubSeq(whole, from + 1,
         IF from + ReadAhead < Len(whole) THEN from + ReadAhead ELSE Len(whole))
Taking(got, now) == IF now = <<>> THEN got ELSE Append(got, Head(now))
Leaving(now) == IF now = <<>> THEN <<>> ELSE Tail(now)

\* What a stream fetches is what comes next in the file, no more than it has room
\* for, and nothing only at the end of the file.
LEMMA FetchEffect ==
  ASSUME NEW whole \in Seq(Pieces), NEW from \in Nat
  PROVE  /\ Fetched(whole, from) \in Seq(Pieces)
         /\ Len(Fetched(whole, from)) \in 0 .. ReadAhead
         /\ from <= Len(whole) =>
              \E to \in Nat : /\ to = from + Len(Fetched(whole, from)) /\ to <= Len(whole)
                              /\ Unread(whole, from) = Fetched(whole, from) \o Unread(whole, to)
                              /\ Fetched(whole, from) = <<>> => from = Len(whole)
  <1> DEFINE upto == IF from + ReadAhead < Len(whole) THEN from + ReadAhead ELSE Len(whole)
  <1>1. Len(whole) \in Nat /\ ReadAhead \in Nat \ {0}
    BY PiecesAssumption, LenProperties
  <1>2. upto \in Nat /\ upto <= Len(whole) /\ upto <= from + ReadAhead
        /\ (from <= Len(whole) => from <= upto)
        /\ (from = upto => from >= Len(whole))
    BY <1>1
  <1>3. Fetched(whole, from) = SubSeq(whole, from + 1, upto)
    BY DEF Fetched
  <1> HIDE DEF upto
  <1>4. \A i \in from + 1 .. upto : whole[i] \in Pieces
    BY <1>1, <1>2, ElementOfSeq
  <1>5. /\ Fetched(whole, from) \in Seq(Pieces)
        /\ Len(Fetched(whole, from)) = IF from + 1 <= upto THEN upto - (from + 1) + 1 ELSE 0
    <2>1. from + 1 \in Int /\ upto \in Int
      BY <1>2
    <2> QED BY <1>3, <1>4, <2>1, SubSeqProperties
  <1>6. Len(Fetched(whole, from)) \in 0 .. ReadAhead
    BY <1>1, <1>2, <1>5
  <1>7. ASSUME from <= Len(whole)
        PROVE  /\ upto = from + Len(Fetched(whole, from)) /\ upto <= Len(whole)
               /\ Unread(whole, from) = Fetched(whole, from) \o Unread(whole, upto)
               /\ Fetched(whole, from) = <<>> => from = Len(whole)
    <2>1. upto = from + Len(Fetched(whole, from))
      BY <1>2, <1>5, <1>7
    <2>2. Unread(whole, from) = Fetched(whole, from) \o Unread(whole, upto)
      BY <1>2, <1>3, <1>7, UnreadSplit
    <2>3. Fetched(whole, from) = <<>> => Len(Fetched(whole, from)) = 0
      BY EmptySeq
    <2>4. Fetched(whole, from) = <<>> => from = Len(whole)
      BY <1>1, <1>2, <1>7, <2>1, <2>3
    <2> QED BY <1>2, <2>1, <2>2, <2>4
  <1> QED BY <1>2, <1>5, <1>6, <1>7

\* One piece goes from what the stream has to what the request has got.
LEMMA TakeOneEffect ==
  ASSUME NEW got \in Seq(Pieces), NEW now \in Seq(Pieces)
  PROVE  /\ Taking(got, now) \in Seq(Pieces) /\ Leaving(now) \in Seq(Pieces)
         /\ got \o now = Taking(got, now) \o Leaving(now)
         /\ now # <<>> => Len(Leaving(now)) = Len(now) - 1
  <1>1. CASE now = <<>>
    BY <1>1, EmptySeq DEF Taking, Leaving
  <1>2. CASE now # <<>>
    <2> DEFINE h == <<Head(now)>>
               t == Tail(now)
    <2>1. now = h \o t /\ h \in Seq(Pieces)
      BY <1>2, HeadAndRest
    <2>2. Head(now) \in Pieces /\ t \in Seq(Pieces) /\ Len(t) = Len(now) - 1
      BY <1>2, HeadTailProperties
    <2>3. Taking(got, now) = Append(got, Head(now)) /\ Leaving(now) = t
      BY <1>2 DEF Taking, Leaving
    <2>4. Taking(got, now) \in Seq(Pieces) /\ Taking(got, now) = got \o h
      BY <2>2, <2>3, AppendIsConcat, AppendProperties
    <2>5. got \o (h \o t) = (got \o h) \o t
      BY <2>1, <2>2, Associative
    <2> HIDE DEF h, t
    <2> QED BY <2>1, <2>2, <2>3, <2>4, <2>5
  <1> QED BY <1>1, <1>2

\* A read loses nothing and invents nothing: what the stream fetched or kept and
\* what it has yet to fetch stay the same sequence, and the request is through
\* only when nothing is left of it.
LEMMA ReadPieceEffect ==
  ASSUME Typed, Streams, NEW c \in Clients, want[c].method \in {"GET", "LIST"},
         file[c].phase \in {"idle", "Loading"},
         NEW files \in Seq(Seq(Pieces)), NEW f \in 1 .. Len(files),
         ReadPiece(c, f, files)
  PROVE  \E next \in FileManagers :
           /\ content' = files /\ file' = [file EXCEPT ![c] = next]
           /\ Stream(want[c], next, Len(files)) /\ next.on = f
           /\ next.status \in {"none", "200"}
           /\ file[c].at <= Len(files[f]) =>
                /\ next.at <= Len(files[f])
                /\ Coming(next, files[f]) = Coming(file[c], files[f])
                /\ next.status = "200" => Coming(next, files[f]) = next.got
  <1> DEFINE s     == file[c]
             whole == files[f]
             upto  == IF s.at + ReadAhead < Len(whole) THEN s.at + ReadAhead ELSE Len(whole)
             more  == IF s.kept = <<>> THEN SubSeq(whole, s.at + 1, upto) ELSE <<>>
             now   == s.kept \o more
             rest  == IF now = <<>> THEN <<>> ELSE Tail(now)
             got   == IF now = <<>> THEN s.got ELSE Append(s.got, Head(now))
             to    == s.at + Len(more)
  <1>1. /\ s \in FileManagers /\ Stream(want[c], s, Len(content))
        /\ s.kept \in Seq(Pieces) /\ s.got \in Seq(Pieces) /\ s.at \in Nat /\ s.given \in Nat
    BY DEF Typed, Streams, FileManagers
  <1>2. whole \in Seq(Pieces) /\ Len(whole) \in Nat /\ ReadAhead \in Nat \ {0}
    BY PiecesAssumption, ElementOfSeq, LenProperties
  <1>3. s.status = "none"
    BY <1>1 DEF Stream, Closed
  <1>4. /\ more \in Seq(Pieces) /\ Len(more) \in 0 .. ReadAhead
        /\ s.kept # <<>> => more = <<>>
        /\ s.at <= Len(whole) =>
             /\ to <= Len(whole)
             /\ Unread(whole, s.at) = more \o Unread(whole, to)
             /\ s.kept = <<>> /\ more = <<>> => s.at = Len(whole)
    <2>1. CASE s.kept = <<>>
      <3>1. more = Fetched(whole, s.at)
        BY <2>1 DEF Fetched
      <3> HIDE DEF more, s, whole
      <3> QED BY <1>1, <1>2, <2>1, <3>1, FetchEffect
    <2>2. CASE s.kept # <<>>
      <3>1. more = <<>> /\ to = s.at /\ Len(more) = 0
        BY <1>1, <2>2, EmptySeq
      <3> HIDE DEF more, to, s, whole
      <3>2. Unread(whole, s.at) \in Seq(Pieces)
        BY <1>1, <1>2, UnreadType
      <3>3. more \o Unread(whole, to) = Unread(whole, s.at)
        BY <3>1, <3>2, ConcatEmptySeq
      <3> QED BY <1>2, <2>2, <3>1, <3>3, EmptySeq
    <2> QED BY <2>1, <2>2
  <1> DEFINE held == [s EXCEPT !.on = f, !.at = to, !.kept = rest,
                               !.got = IF now = <<>> THEN @ ELSE Append(@, Head(now))]
  <1>5. PICK p \in {"Loading", "Sending"} :
          /\ now = <<>> => p = "Sending"
          /\ now # <<>> /\ ~AtEnd(whole, held.at, rest) => p = "Loading"
          /\ content' = files
          /\ file' = [file EXCEPT ![c] =
               [held EXCEPT !.phase = p, !.status = IF p = "Sending" THEN "200" ELSE @]]
    BY Zenon DEF ReadPiece
  <1>6. to \in Nat /\ held.at = to
    <2>1. to \in Nat
      <3> HIDE DEF more, s
      <3> QED BY <1>1, <1>4
    <2>2. held.at = to
      <3> HIDE DEF to, rest, now
      <3> QED BY <1>1 DEF FileManagers
    <2> QED BY <2>1, <2>2
  <1> HIDE DEF to
  <1>7. now \in Seq(Pieces) /\ Len(now) = Len(s.kept) + Len(more)
        /\ (now = <<>> <=> s.kept = <<>> /\ more = <<>>)
    <2> HIDE DEF more, s
    <2> QED BY <1>1, <1>4, ConcatProperties, ConcatEqualIffEmpty
  <1>8. /\ got \in Seq(Pieces) /\ rest \in Seq(Pieces)
        /\ s.got \o now = got \o rest
        /\ now # <<>> => Len(rest) = Len(now) - 1
        /\ now = <<>> => rest = <<>>
    <2>1. got = Taking(s.got, now) /\ rest = Leaving(now)
      BY DEF Taking, Leaving
    <2>2. now = <<>> => rest = <<>>
      OBVIOUS
    <2> HIDE DEF got, rest, now, s
    <2> QED BY <1>1, <1>7, <2>1, <2>2, TakeOneEffect
  <1>9. Len(rest) <= ReadAhead - 1
    <2> HIDE DEF s, more, now, rest
    <2>1. Len(s.kept) <= ReadAhead - 1 /\ Len(s.kept) \in Nat
      BY <1>1, LenProperties DEF Stream
    <2>2. (s.kept = <<>> => Len(s.kept) = 0) /\ (more = <<>> => Len(more) = 0)
          /\ (rest = <<>> => Len(rest) = 0)
      BY EmptySeq
    <2> QED BY <1>2, <1>4, <1>7, <1>8, <2>1, <2>2
  <1>10. PICK next \in FileManagers :
           /\ file' = [file EXCEPT ![c] = next]
           /\ next.on = f /\ next.at = to /\ next.kept = rest /\ next.got = got
           /\ next.phase = p /\ next.given = s.given
           /\ next.status = IF p = "Sending" THEN "200" ELSE "none"
    <2> DEFINE st == IF p = "Sending" THEN "200" ELSE "none"
               r  == [s EXCEPT !.on = f, !.at = to, !.kept = rest, !.got = got,
                               !.phase = p, !.status = st]
    <2>1. file' = [file EXCEPT ![c] = r]
      <3>1. [held EXCEPT !.phase = p, !.status = IF p = "Sending" THEN "200" ELSE @] = r
        <4> HIDE DEF now, rest
        <4> QED BY <1>1, <1>3 DEF FileManagers
      <3> HIDE DEF r, held
      <3> QED BY <1>5, <3>1
    <2>2. st \in {"none", "200"} /\ f \in Nat
      OBVIOUS
    <2> HIDE DEF s, rest, got, st
    <2>3. /\ r \in FileManagers
          /\ r.on = f /\ r.at = to /\ r.kept = rest /\ r.got = got
          /\ r.phase = p /\ r.given = s.given /\ r.status = st
      BY <1>1, <1>6, <1>8, <2>2 DEF FileManagers
    <2> HIDE DEF r
    <2> QED BY <2>1, <2>3 DEF st
  <1> HIDE DEF s, whole, more, now, rest, got, held
  <1>11. Stream(want[c], next, Len(files))
    <2>1. f # Absent /\ p # "idle" /\ f <= Len(files)
      BY DEF Absent
    <2>2. want[c].method # "POST" /\ s.given <= Len(want[c].body)
      BY <1>1 DEF Stream
    <2> QED BY <1>9, <1>10, <2>1, <2>2 DEF Stream
  <1>12. ASSUME s.at <= Len(whole)
         PROVE  /\ next.at <= Len(whole) /\ Coming(next, whole) = Coming(s, whole)
                /\ next.status = "200" => Coming(next, whole) = next.got
    <2>1. Unread(whole, s.at) = more \o Unread(whole, to) /\ to <= Len(whole)
      BY <1>4, <1>12
    <2>2. Unread(whole, to) \in Seq(Pieces)
      BY <1>2, <1>6, UnreadType
    <2>3. s.kept \o (more \o Unread(whole, to)) = now \o Unread(whole, to)
      BY <1>1, <1>4, <2>2, Associative, Zenon DEF now
    <2>4. s.got \o (now \o Unread(whole, to)) = (s.got \o now) \o Unread(whole, to)
      BY <1>1, <1>7, <2>2, Associative, Zenon
    <2>5. (got \o rest) \o Unread(whole, to) = got \o (rest \o Unread(whole, to))
      BY <1>8, <2>2, Associative, Zenon
    <2>6. Coming(next, whole) = Coming(s, whole)
      BY <1>8, <1>10, <2>1, <2>3, <2>4, <2>5, Zenon DEF Coming
    <2>7. ASSUME p = "Sending" PROVE rest = <<>> /\ Unread(whole, to) = <<>>
      <3>1. CASE now = <<>>
        <4>1. rest = <<>> /\ s.kept = <<>> /\ more = <<>> /\ Len(more) = 0
          BY <1>7, <1>8, <3>1, EmptySeq
        <4>2. to = Len(whole)
          BY <1>1, <1>2, <1>4, <1>12, <4>1 DEF to
        <4> QED BY <1>2, <1>6, <4>1, <4>2, UnreadType
      <3>2. CASE now # <<>>
        BY <1>2, <1>5, <1>6, <2>7, <3>2, UnreadType DEF AtEnd
      <3> QED BY <3>1, <3>2
    <2>8. ASSUME p = "Sending" PROVE Coming(next, whole) = got
      <3>1. got \o (<<>> \o <<>>) = got
        BY <1>8, EmptySeq, ConcatEmptySeq
      <3> QED BY <1>10, <2>7, <2>8, <3>1, Zenon DEF Coming
    <2>9. next.status = "200" => p = "Sending"
      BY <1>10
    <2> QED BY <1>10, <2>1, <2>6, <2>8, <2>9
  <1>13. next.status \in {"none", "200"}
    BY <1>10
  <1> QED BY <1>5, <1>10, <1>11, <1>12, <1>13 DEF s, whole

\* A piece given to the stream is the next one of the body.
LEMMA GiveEffect ==
  ASSUME NEW body \in Seq(Pieces), NEW whole \in Seq(Pieces), NEW kept \in Seq(Pieces),
         NEW k \in 1 .. Len(body), NEW j \in Nat, j = k - 1, whole \o kept = SubSeq(body, 1, j)
  PROVE  whole \o Append(kept, body[k]) = SubSeq(body, 1, k)
  <1>1. body[k] \in Pieces /\ <<body[k]>> \in Seq(Pieces)
    BY ElementOfSeq
  <1>2. Append(kept, body[k]) = kept \o <<body[k]>>
    BY <1>1, AppendIsConcat
  <1>3. (whole \o kept) \o <<body[k]>> = whole \o (kept \o <<body[k]>>)
    BY <1>1, Associative
  <1>4. SubSeq(body, 1, k) = SubSeq(body, 1, k - 1) \o <<body[k]>>
    <2>1. Len(body) \in Nat /\ 1 \in 1 .. Len(body) /\ k \in 1 .. Len(body)
      BY LenProperties
    <2> QED BY <2>1, SubSeqRecursiveSecond
  <1> QED BY <1>2, <1>3, <1>4

\* Client c writes to the file f of these files, which is then this, and its stream
\* is then next.
Written(c, files, f, next, whole) ==
  /\ content' = [files EXCEPT ![f] = whole] /\ file' = [file EXCEPT ![c] = next]
  /\ Stream(want[c], next, Len(files)) /\ next.on = f
  /\ next.phase = "Sending" => next.given = Len(want[c].body)
  /\ Faithful(want[c].body, file[c], files[f]) => Faithful(want[c].body, next, whole)

\* A write puts the next piece of the body behind what was written and kept, and
\* is the last one only when the whole body is given.
LEMMA WritePieceEffect ==
  ASSUME Typed, Streams, NEW c \in Clients, want[c].method = "POST",
         file[c].phase \in {"idle", "Loading"},
         NEW files \in Seq(Seq(Pieces)), NEW f \in 1 .. Len(files),
         WritePiece(c, f, files)
  PROVE  \E next \in FileManagers, whole \in Seq(Pieces) : Written(c, files, f, next, whole)
  <1> DEFINE s     == file[c]
             body  == want[c].body
             left  == s.given < Len(body)
             given == IF left THEN s.given + 1 ELSE s.given
             kept  == IF left THEN Append(s.kept, body[given]) ELSE s.kept
             full  == TooMuch(Len(kept))
             done  == AllGiven(c, given)
             whole == IF full THEN Overwritten(files[f], s.at, kept) ELSE files[f]
             held  == IF full THEN <<>> ELSE kept
             to    == IF full THEN s.at + Len(kept) ELSE s.at
  <1>1. /\ s \in FileManagers /\ Stream(want[c], s, Len(content)) /\ body \in Seq(Pieces)
        /\ s.kept \in Seq(Pieces) /\ s.at \in Nat /\ s.given \in Nat
        /\ files[f] \in Seq(Pieces) /\ Len(body) \in Nat /\ Len(files[f]) \in Nat
    <2>1. s \in FileManagers /\ Stream(want[c], s, Len(content)) /\ body \in Seq(Pieces)
      BY DEF Typed, Streams, Requests
    <2>2. files[f] \in Seq(Pieces)
      BY ElementOfSeq
    <2> QED BY <2>1, <2>2, LenProperties DEF FileManagers
  <1>2. s.status = "none" /\ s.given <= Len(body)
    BY <1>1 DEF Stream, Closed
  <1>3. /\ content' = IF full THEN [files EXCEPT ![f] = Overwritten(@, s.at, kept)] ELSE files
        /\ file' = [file EXCEPT ![c] =
             [s EXCEPT !.phase = IF done THEN "Sending" ELSE "Loading", !.on = f,
                !.at = IF full THEN @ + Len(kept) ELSE @, !.kept = IF full THEN <<>> ELSE kept,
                !.given = given, !.status = IF done THEN "stored" ELSE @]]
    BY Zenon DEF WritePiece
  <1> HIDE DEF s, body
  <1>4. given \in 0 .. Len(body) /\ kept \in Seq(Pieces) /\ Len(kept) \in Nat
        /\ (left => given \in 1 .. Len(body) /\ given - 1 = s.given)
    <2>1. given \in 0 .. Len(body) /\ (left => given \in 1 .. Len(body) /\ given - 1 = s.given)
      BY <1>1, <1>2
    <2> HIDE DEF given, left
    <2>2. left => body[given] \in Pieces
      BY <1>1, <2>1, ElementOfSeq
    <2>3. kept \in Seq(Pieces)
      BY <1>1, <2>2, AppendProperties
    <2> QED BY <2>1, <2>3, LenProperties
  <1>5. whole \in Seq(Pieces)
        /\ (full /\ s.at = Len(files[f]) => whole = files[f] \o kept)
    BY <1>1, <1>4, OverwrittenType
  <1>6. ASSUME Faithful(body, s, files[f])
        PROVE  files[f] \o kept = SubSeq(body, 1, given)
    <2>1. files[f] \o s.kept = SubSeq(body, 1, s.given)
      BY <1>6 DEF Faithful
    <2>2. CASE left
      <3>1. given \in 1 .. Len(body) /\ given - 1 = s.given /\ kept = Append(s.kept, body[given])
        BY <1>4, <2>2
      <3> HIDE DEF given, kept, left, whole
      <3>2. s.given = given - 1
        BY <1>1, <1>4, <3>1
      <3> QED BY <1>1, <2>1, <3>1, <3>2, GiveEffect
    <2>3. CASE ~left
      BY <2>1, <2>3
    <2> QED BY <2>2, <2>3
  <1> HIDE DEF given, kept, left
  <1>7. /\ to \in Nat /\ held \in Seq(Pieces) /\ Len(held) <= WriteBack
        /\ Faithful(body, s, files[f]) =>
             to = Len(whole) /\ whole \o held = SubSeq(body, 1, given)
    <2>1. CASE full
      <3>1. to = s.at + Len(kept) /\ held = <<>> /\ Len(held) = 0
        BY <2>1, EmptySeq
      <3> HIDE DEF whole, held, to, full
      <3>2. ASSUME Faithful(body, s, files[f])
            PROVE  to = Len(whole) /\ whole \o held = SubSeq(body, 1, given)
        <4>1. s.at = Len(files[f]) /\ whole = files[f] \o kept
          BY <1>5, <2>1, <3>2 DEF Faithful
        <4>2. Len(whole) = Len(files[f]) + Len(kept)
          BY <1>1, <1>4, <4>1, ConcatProperties
        <4>3. whole \o <<>> = whole
          BY <1>5, ConcatEmptySeq
        <4> QED BY <1>6, <3>1, <3>2, <4>1, <4>2, <4>3
      <3> QED BY <1>1, <1>4, <3>1, <3>2, PiecesAssumption, EmptySeq
    <2>2. CASE ~full
      <3>1. to = s.at /\ held = kept /\ whole = files[f]
        BY <2>2
      <3>2. Len(kept) <= WriteBack
        BY <1>4, <2>2, PiecesAssumption DEF TooMuch
      <3> HIDE DEF whole, held, to, full
      <3> QED BY <1>1, <1>4, <1>6, <3>1, <3>2 DEF Faithful
    <2> QED BY <2>1, <2>2
  <1>8. content' = [files EXCEPT ![f] = whole]
    <2>1. files = [files EXCEPT ![f] = files[f]]
      BY LenProperties
    <2>2. [files EXCEPT ![f] = Overwritten(@, s.at, kept)]
            = [files EXCEPT ![f] = Overwritten(files[f], s.at, kept)]
      OBVIOUS
    <2> HIDE DEF full
    <2> QED BY <1>3, <2>1, <2>2
  <1> HIDE DEF whole
  <1>9. PICK next \in FileManagers :
          /\ file' = [file EXCEPT ![c] = next]
          /\ next.on = f /\ next.at = to /\ next.kept = held /\ next.given = given
          /\ next.phase = IF done THEN "Sending" ELSE "Loading"
          /\ next.status = IF done THEN "stored" ELSE "none"
    <2> DEFINE ph == IF done THEN "Sending" ELSE "Loading"
               st == IF done THEN "stored" ELSE "none"
               r  == [s EXCEPT !.phase = ph, !.on = f, !.at = to, !.kept = held,
                               !.given = given, !.status = st]
    <2>1. file' = [file EXCEPT ![c] = r]
      <3>1. [s EXCEPT !.phase = IF done THEN "Sending" ELSE "Loading", !.on = f,
                !.at = IF full THEN @ + Len(kept) ELSE @, !.kept = IF full THEN <<>> ELSE kept,
                !.given = given, !.status = IF done THEN "stored" ELSE @] = r
        <4> HIDE DEF done, full
        <4> QED BY <1>1, <1>2 DEF FileManagers
      <3> HIDE DEF r, done, full
      <3> QED BY <1>3, <3>1
    <2>2. ph \in {"Loading", "Sending"} /\ st \in {"none", "stored"} /\ f \in Nat /\ given \in Nat
      BY <1>4
    <2> HIDE DEF ph, st, to, held
    <2>3. /\ r \in FileManagers
          /\ r.on = f /\ r.at = to /\ r.kept = held /\ r.given = given
          /\ r.phase = ph /\ r.status = st
      BY <1>1, <1>7, <2>2 DEF FileManagers
    <2> HIDE DEF r
    <2> QED BY <2>1, <2>3 DEF ph, st
  <1> HIDE DEF to, held
  <1>10. Stream(want[c], next, Len(files))
    <2>1. f # Absent /\ f <= Len(files)
      BY DEF Absent
    <2>2. given <= Len(want[c].body)
      BY <1>1, <1>4 DEF body
    <2>3. next.status # "200" /\ next.phase # "idle"
          /\ (next.phase = "Loading" => next.status = "none")
          /\ next.phase \in {"Loading", "Sending"}
      <3> HIDE DEF done
      <3> QED BY <1>9
    <2> QED BY <1>7, <1>9, <2>1, <2>2, <2>3 DEF Stream
  <1>11. next.phase = "Sending" => next.given = Len(body)
    BY <1>9 DEF AllGiven, body
  <1>12. Faithful(body, s, files[f]) => Faithful(body, next, whole)
    BY <1>7, <1>9 DEF Faithful
  <1>13. Written(c, files, f, next, whole)
    BY <1>8, <1>9, <1>10, <1>11, <1>12 DEF Written, s, body
  <1> QED BY <1>5, <1>13

-----------------------------------------------------------------------------
(* One step of one client. *)

\* Client c alone moves, to the stream next: of the files there were, a step only
\* changes one that a POST has open, before it or after it.
Moved(c, next) ==
  /\ next \in FileManagers /\ file' = [file EXCEPT ![c] = next] /\ want' = want
  /\ content' \in Seq(Seq(Pieces)) /\ Len(content) <= Len(content')
  /\ Stream(want[c], next, Len(content'))
  /\ \A f \in 1 .. Len(content) : content'[f] # content[f] =>
       want[c].method = "POST" /\ f \in {file[c].on, next.on}

\* The records of one client.
LEMMA ClientRecord ==
  ASSUME Typed, Streams, NEW c \in Clients
  PROVE  /\ file[c] \in FileManagers /\ want[c] \in Requests
         /\ Stream(want[c], file[c], Len(content))
         /\ file[c].phase \in {"idle", "answered", "lost"} => file[c].on = Absent
  BY DEF Typed, Streams, Stream

\* What such a step does to the types.
LEMMA MovedTyped ==
  ASSUME Typed, Streams, NEW c \in Clients, NEW next, Moved(c, next)
  PROVE  /\ file' \in [Clients -> FileManagers] /\ Streams'
         /\ want' \in [Clients -> Requests]
         /\ file'[c] = next /\ \A d \in Clients \ {c} : file'[d] = file[d]
  <1>1. /\ file' \in [Clients -> FileManagers] /\ want' \in [Clients -> Requests]
        /\ file'[c] = next /\ \A d \in Clients \ {c} : file'[d] = file[d]
    BY DEF Moved, Typed
  <1>2. Len(content) \in Nat /\ Len(content') \in Nat
    BY LenProperties DEF Moved, Typed
  <1>3. ASSUME NEW d \in Clients PROVE Stream(want'[d], file'[d], Len(content'))
    <2>1. CASE d = c
      BY <1>1, <2>1 DEF Moved
    <2>2. CASE d # c
      <3>1. file[d].on \in Nat /\ Stream(want[d], file[d], Len(content))
        BY ClientRecord DEF FileManagers
      <3>2. Stream(want[d], file[d], Len(content'))
        BY <1>2, <3>1 DEF Moved, Stream
      <3> QED BY <1>1, <2>2, <3>2 DEF Moved
    <2> QED BY <2>1, <2>2
  <1> QED BY <1>1, <1>3 DEF Streams

\* A stream that stays closed.
LEMMA ClosedMoved ==
  ASSUME Typed, Streams, NEW c \in Clients, file[c].phase = "idle",
         NEW st \in {"204", "404", "500"},
         file' = [file EXCEPT ![c].phase = "Sending", ![c].status = st],
         UNCHANGED <<want, content>>
  PROVE  \E next : Moved(c, next) /\ next.on = Absent /\ next.status = st
  <1> DEFINE next == [file[c] EXCEPT !.phase = "Sending", !.status = st]
  <1>1. file[c] = Closed /\ file[c] \in FileManagers /\ file \in [Clients -> FileManagers]
        /\ Stream(want[c], file[c], Len(content)) /\ file[c].on = Absent
    BY ClientRecord DEF Stream, Typed, Closed
  <1>2. file' = [file EXCEPT ![c] = next]
    BY <1>1
  <1>3. /\ next \in FileManagers /\ next.on = Absent /\ next.status = st
        /\ next.phase = "Sending" /\ next.given = file[c].given /\ next.kept = file[c].kept
    BY <1>1 DEF FileManagers
  <1> HIDE DEF next
  <1>4. Stream(want[c], next, Len(content))
    BY <1>1, <1>3 DEF Stream
  <1>5. Len(content) <= Len(content)
    BY LenProperties DEF Typed
  <1> QED BY <1>2, <1>3, <1>4, <1>5 DEF Moved, Typed

\* A request refused on its first visit moves its own record and no other.
LEMMA RefuseMoved ==
  ASSUME Typed, Streams, NEW c \in Clients, file[c].phase = "idle",
         NEW st \in {"204", "404", "500"}, Refuse(c, st), want' = want
  PROVE  (\E next : Moved(c, next) /\ next.on = Absent /\ next.status = st)
         /\ UNCHANGED <<store, open>>
  BY ClosedMoved DEF Refuse, store

\* A stream that has this much yet to give of the file, which is all of it when
\* the request is through.
Reading(s, whole, all) ==
  /\ s.at <= Len(whole) /\ s.status \in {"none", "200"}
  /\ Coming(s, whole) = all
  /\ s.status = "200" => s.got = all

\* A read, of a file there was or of a new one.
LEMMA ReadMoved ==
  ASSUME Typed, Streams, NEW c \in Clients, want[c].method \in {"GET", "LIST"},
         file[c].phase \in {"idle", "Loading"}, want' = want,
         NEW files \in Seq(Seq(Pieces)), Len(content) <= Len(files),
         \A g \in 1 .. Len(content) : files[g] = content[g],
         NEW f \in 1 .. Len(files), ReadPiece(c, f, files)
  PROVE  content' = files /\
         \E next : /\ Moved(c, next) /\ next.on = f /\ next.status \in {"none", "200"}
                   /\ file[c].at <= Len(files[f]) =>
                        Reading(next, files[f], Coming(file[c], files[f]))
  <1>1. PICK next \in FileManagers :
           /\ content' = files /\ file' = [file EXCEPT ![c] = next]
           /\ Stream(want[c], next, Len(files)) /\ next.on = f
           /\ next.status \in {"none", "200"}
           /\ file[c].at <= Len(files[f]) =>
                /\ next.at <= Len(files[f])
                /\ Coming(next, files[f]) = Coming(file[c], files[f])
                /\ next.status = "200" => Coming(next, files[f]) = next.got
    BY ReadPieceEffect
  <1>2. Moved(c, next)
    BY <1>1 DEF Moved
  <1> QED BY <1>1, <1>2 DEF Reading

\* A write, to a file there was or to a new one, perhaps emptied.
LEMMA WriteMoved ==
  ASSUME Typed, Streams, NEW c \in Clients, want[c].method = "POST",
         file[c].phase \in {"idle", "Loading"}, want' = want,
         NEW files \in Seq(Seq(Pieces)), Len(content) <= Len(files),
         NEW f \in 1 .. Len(files), \A g \in 1 .. Len(content) : g # f => files[g] = content[g],
         WritePiece(c, f, files)
  PROVE  Len(content') = Len(files) /\
         \E next : /\ Moved(c, next) /\ next.on = f
                   /\ next.phase = "Sending" => next.given = Len(want[c].body)
                   /\ Faithful(want[c].body, file[c], files[f])
                        => Faithful(want[c].body, next, content'[f])
  <1>1. \E next \in FileManagers, whole \in Seq(Pieces) : Written(c, files, f, next, whole)
    BY WritePieceEffect
  <1>a. PICK next \in FileManagers, whole \in Seq(Pieces) :
           /\ content' = [files EXCEPT ![f] = whole] /\ file' = [file EXCEPT ![c] = next]
           /\ Stream(want[c], next, Len(files)) /\ next.on = f
           /\ next.phase = "Sending" => next.given = Len(want[c].body)
           /\ Faithful(want[c].body, file[c], files[f]) => Faithful(want[c].body, next, whole)
    BY <1>1 DEF Written
  <1>2. /\ content' \in Seq(Seq(Pieces)) /\ Len(content') = Len(files)
        /\ \A g \in 1 .. Len(files) : content'[g] = IF g = f THEN whole ELSE files[g]
    BY <1>a, ExceptSeq
  <1>3. \A g \in 1 .. Len(content) : g \in 1 .. Len(files)
    BY LenProperties DEF Typed
  <1>4. Moved(c, next)
    BY <1>a, <1>2, <1>3 DEF Moved
  <1> QED BY <1>a, <1>2, <1>4

\* The end of a client: its stream writes what it kept, if it is one that writes.
LEMMA AnswerMoved ==
  ASSUME Typed, Streams, NEW c \in Clients, Answer(c)
  PROVE  Len(content') = Len(content) /\
         \E next : /\ Moved(c, next) /\ next.on = Absent
                   /\ next.got = file[c].got /\ next.status = file[c].status
                   /\ want[c].method = "POST" /\ file[c].on # Absent =>
                        content'[file[c].on]
                          = Overwritten(content[file[c].on], file[c].at, file[c].kept)
  <1> DEFINE s    == file[c]
             next == [Closed EXCEPT !.phase = "answered", !.got = s.got, !.status = s.status]
  <1>1. /\ s \in FileManagers /\ Stream(want[c], s, Len(content)) /\ want[c] \in Requests
        /\ content \in Seq(Seq(Pieces)) /\ Len(content) \in Nat
        /\ s.on \in Nat /\ s.at \in Nat /\ s.kept \in Seq(Pieces) /\ s.got \in Seq(Pieces)
    BY ClientRecord, LenProperties DEF Typed, FileManagers
  <1>2. /\ file' = [file EXCEPT ![c] = next] /\ want' = want
        /\ content' = IF want[c].method = "POST" /\ s.on # Absent
                      THEN [content EXCEPT ![s.on] = Overwritten(@, s.at, s.kept)]
                      ELSE content
    BY DEF Answer
  <1>3. /\ next.on = Absent /\ next.kept = <<>> /\ next.given = 0 /\ next.phase = "answered"
        /\ next.got = s.got /\ next.status = s.status
    BY DEF Closed
  <1>4. next \in FileManagers
    <2>1. <<>> \in Seq(Pieces)
      BY EmptySeq
    <2> QED BY <1>1, <2>1 DEF Closed, FileManagers, Absent
  <1> HIDE DEF next, s
  <1>5. Stream(want[c], next, Len(content))
    <2>1. Len(want[c].body) \in Nat /\ Len(<<>>) = 0
      BY <1>1, LenProperties, EmptySeq DEF Requests
    <2> QED BY <1>1, <1>3, <2>1, PiecesAssumption DEF Stream, Absent
  <1>6. CASE want[c].method = "POST" /\ s.on # Absent
    <2>1. s.on \in 1 .. Len(content)
      BY <1>1, <1>6 DEF Stream, Absent
    <2>2. content[s.on] \in Seq(Pieces)
      BY <1>1, <2>1, ElementOfSeq
    <2> DEFINE whole == Overwritten(content[s.on], s.at, s.kept)
    <2>3. whole \in Seq(Pieces)
      BY <1>1, <2>2, OverwrittenType
    <2>4. content' = [content EXCEPT ![s.on] = whole]
      BY <1>2, <1>6
    <2> HIDE DEF whole
    <2>5. /\ content' \in Seq(Seq(Pieces)) /\ Len(content') = Len(content)
          /\ \A g \in 1 .. Len(content) : content'[g] = IF g = s.on THEN whole ELSE content[g]
      BY <1>1, <2>1, <2>3, <2>4, ExceptSeq
    <2>6. Moved(c, next)
      BY <1>1, <1>2, <1>4, <1>5, <1>6, <2>5 DEF Moved, s
    <2> QED BY <1>3, <2>1, <2>5, <2>6 DEF whole, s
  <1>7. CASE ~(want[c].method = "POST" /\ s.on # Absent)
    <2>1. content' = content
      BY <1>2, <1>7
    <2>2. Len(content) <= Len(content)
      BY <1>1
    <2>3. Moved(c, next)
      BY <1>1, <1>2, <1>4, <1>5, <2>1, <2>2 DEF Moved
    <2> QED BY <1>3, <1>7, <2>1, <2>3 DEF s
  <1> QED BY <1>6, <1>7

-----------------------------------------------------------------------------
(* What each operation does. *)

\* The lines of a listing are pieces.
LEMMA LinesType == \A dotsFirst \in BOOLEAN : Lines(dotsFirst) \in Seq(Pieces)
  <1>1. Page \in Pieces /\ Name \in Pieces
    BY DEF Pieces
  <1> QED BY <1>1 DEF Lines

\* A stream that has read nothing has all of the file to give.
LEMMA FreshReading ==
  ASSUME NEW s, s.at = 0, s.kept = <<>>, s.got = <<>>, NEW whole \in Seq(Pieces)
  PROVE  s.at <= Len(whole) /\ Coming(s, whole) = whole
  <1>1. Unread(whole, 0) = whole
    BY SubSeqFull DEF Unread
  <1>2. <<>> \o whole = whole
    BY ConcatEmptySeq
  <1>3. Len(whole) \in Nat
    BY LenProperties
  <1> QED BY <1>1, <1>2, <1>3 DEF Coming

\* A request that has no stream yet has read nothing.
LEMMA Fresh ==
  ASSUME Typed, Streams, NEW c \in Clients, file[c].on = Absent,
         file[c].phase \in {"idle", "Loading"}
  PROVE  /\ file[c].at = 0 /\ file[c].kept = <<>> /\ file[c].got = <<>>
         /\ file[c].given = 0 /\ file[c].status = "none"
  BY ClientRecord DEF Stream, Closed

\* openGetFile of a file.
LEMMA OpenGetEffect ==
  ASSUME Typed, Streams, NEW c \in Clients, OpenGet(c)
  PROVE  /\ want[c].method = "GET" /\ file[c].on = Absent
         /\ UNCHANGED <<want, path, content, value, listings>>
         /\ \/ /\ \E next : Moved(c, next) /\ next.on = Absent /\ next.status = "404"
               /\ UNCHANGED <<open, meant>>
            \/ /\ path # Absent /\ open' = open + 1
               /\ meant' = [meant EXCEPT ![c] = IF Writers(path) = {} THEN value ELSE Unknown]
               /\ \E next : /\ Moved(c, next) /\ next.on = path
                            /\ Reading(next, content[path], content[path])
  <1>1. /\ want[c].method = "GET" /\ file[c].phase = "idle" /\ file[c].on = Absent
        /\ UNCHANGED <<want, path, value, listings>>
    BY ClientRecord DEF OpenGet
  <1>2. CASE (path = Absent \/ open >= MaxOpen) /\ Refuse(c, "404") /\ UNCHANGED meant
    BY <1>1, <1>2, RefuseMoved DEF store
  <1>3. CASE /\ path # Absent /\ open < MaxOpen
             /\ ReadPiece(c, path, content)
             /\ open' = open + 1
             /\ meant' = [meant EXCEPT ![c] = IF Writers(path) = {} THEN value ELSE Unknown]
    <2>1. /\ content \in Seq(Seq(Pieces)) /\ path \in 1 .. Len(content)
          /\ Len(content) <= Len(content)
      BY <1>3, LenProperties DEF Typed, Absent
    <2>2. content[path] \in Seq(Pieces)
      BY <2>1, ElementOfSeq
    <2>3. content' = content /\
          \E next : /\ Moved(c, next) /\ next.on = path /\ next.status \in {"none", "200"}
                    /\ file[c].at <= Len(content[path]) =>
                         Reading(next, content[path], Coming(file[c], content[path]))
      BY <1>1, <1>3, <2>1, ReadMoved
    <2>4. file[c].at <= Len(content[path]) /\ Coming(file[c], content[path]) = content[path]
      BY <1>1, <2>2, Fresh, FreshReading
    <2> QED BY <1>1, <1>3, <2>3, <2>4
  <1> QED BY <1>1, <1>2, <1>3 DEF OpenGet

\* A further visit of a GET.
LEMMA GetEffect ==
  ASSUME Typed, Streams, NEW c \in Clients, Get(c)
  PROVE  /\ want[c].method \in {"GET", "LIST"} /\ file[c].on \in 1 .. Len(content)
         /\ file[c].status = "none"
         /\ UNCHANGED <<want, path, content, open, history>>
         /\ \E next : /\ Moved(c, next) /\ next.on = file[c].on
                      /\ next.status \in {"none", "200"}
                      /\ file[c].at <= Len(content[file[c].on]) =>
                           Reading(next, content[file[c].on], Coming(file[c], content[file[c].on]))
  <1>1. /\ want[c].method \in {"GET", "LIST"} /\ file[c].phase = "Loading"
        /\ file[c].on # Absent /\ ReadPiece(c, file[c].on, content)
        /\ UNCHANGED <<want, path, open, history>>
    BY DEF Get
  <1>2. file[c].on \in 1 .. Len(content) /\ file[c].status = "none"
    BY <1>1, ClientRecord, LenProperties DEF Stream, FileManagers, Absent, Typed
  <1>3. content \in Seq(Seq(Pieces)) /\ Len(content) <= Len(content)
    BY LenProperties DEF Typed
  <1> DEFINE f == file[c].on
  <1>4. f \in 1 .. Len(content) /\ ReadPiece(c, f, content)
    BY <1>1, <1>2
  <1> HIDE DEF f
  <1>5. content' = content /\
        \E next : /\ Moved(c, next) /\ next.on = f /\ next.status \in {"none", "200"}
                  /\ file[c].at <= Len(content[f]) =>
                       Reading(next, content[f], Coming(file[c], content[f]))
    BY <1>1, <1>3, <1>4, ReadMoved
  <1> QED BY <1>1, <1>2, <1>5 DEF f

\* openGetFile of the directory: the process ends, the listing waits for a
\* descriptor, or it is made and read like any file.
LEMMA OpenListingEffect ==
  ASSUME Typed, Streams, NEW c \in Clients, OpenListing(c)
  PROVE  /\ want[c].method = "LIST" /\ file[c].on = Absent /\ file[c].status = "none"
         /\ \/ Restart(InFlight \cup {c})
            \/ /\ UNCHANGED <<want, path, value>> /\ listings' = listings + 1
               /\ \/ /\ \E next : Moved(c, next) /\ next.on = Absent /\ next.status = "none"
                     /\ open' = open + 1 /\ UNCHANGED <<content, meant>>
                  \/ /\ open' = open + 2
                     /\ \E dotsFirst \in BOOLEAN : \E next :
                          /\ content' = Append(content, Lines(dotsFirst))
                          /\ meant' = [meant EXCEPT ![c] =
                               IF dotsFirst THEN Holding(Lines(TRUE)) ELSE Unknown]
                          /\ Moved(c, next) /\ next.on = Len(content) + 1
                          /\ Reading(next, Lines(dotsFirst), Lines(dotsFirst))
  <1>1. /\ want[c].method = "LIST" /\ file[c].on = Absent
        /\ file[c].phase \in {"idle", "Loading"} /\ file[c].status = "none"
    BY Fresh DEF OpenListing
  <1>2. CASE open >= MaxOpen /\ Restart(InFlight \cup {c})
    BY <1>1, <1>2
  <1>3. CASE /\ open < MaxOpen /\ listings' = listings + 1
             /\ \/ /\ open + 1 >= MaxOpen /\ open' = open + 1
                   /\ file' = [file EXCEPT ![c].phase = "Loading"]
                   /\ UNCHANGED <<store, meant>>
                \/ /\ open + 1 < MaxOpen /\ open' = open + 2
                   /\ \E dotsFirst \in BOOLEAN :
                        /\ ReadPiece(c, Len(content) + 1, Append(content, Lines(dotsFirst)))
                        /\ meant' = [meant EXCEPT ![c] =
                             IF dotsFirst THEN Holding(Lines(TRUE)) ELSE Unknown]
                   /\ UNCHANGED path
             /\ UNCHANGED <<want, value>>
    <2>1. CASE /\ open + 1 >= MaxOpen /\ open' = open + 1
               /\ file' = [file EXCEPT ![c].phase = "Loading"]
               /\ UNCHANGED <<store, meant>>
      <3> DEFINE next == [file[c] EXCEPT !.phase = "Loading"]
      <3>1. file' = [file EXCEPT ![c] = next]
        BY <2>1
      <3>2. /\ file[c] \in FileManagers /\ Stream(want[c], file[c], Len(content))
            /\ content \in Seq(Seq(Pieces)) /\ Len(content) <= Len(content)
        BY ClientRecord, LenProperties DEF Typed
      <3>3. next = [Closed EXCEPT !.phase = "Loading"]
        BY <1>1, <3>2 DEF Stream, Closed
      <3>4. /\ next \in FileManagers /\ next.on = Absent /\ next.status = "none"
            /\ next.phase = "Loading" /\ next.given = file[c].given /\ next.kept = file[c].kept
        BY <1>1, <3>2 DEF FileManagers
      <3> HIDE DEF next
      <3>5. Stream(want[c], next, Len(content))
        BY <1>1, <3>2, <3>3, <3>4 DEF Stream
      <3>6. Moved(c, next)
        BY <1>3, <2>1, <3>1, <3>2, <3>4, <3>5 DEF Moved, store
      <3> QED BY <1>1, <1>3, <2>1, <3>4, <3>6 DEF store
    <2>2. CASE /\ open + 1 < MaxOpen /\ open' = open + 2
               /\ \E dotsFirst \in BOOLEAN :
                    /\ ReadPiece(c, Len(content) + 1, Append(content, Lines(dotsFirst)))
                    /\ meant' = [meant EXCEPT ![c] =
                         IF dotsFirst THEN Holding(Lines(TRUE)) ELSE Unknown]
               /\ UNCHANGED path
      <3>1. PICK dotsFirst \in BOOLEAN :
              /\ ReadPiece(c, Len(content) + 1, Append(content, Lines(dotsFirst)))
              /\ meant' = [meant EXCEPT ![c] =
                   IF dotsFirst THEN Holding(Lines(TRUE)) ELSE Unknown]
        BY <2>2
      <3> DEFINE lines == Lines(dotsFirst)
                 files == Append(content, lines)
                 f     == Len(content) + 1
      <3>2. lines \in Seq(Pieces)
        BY LinesType
      <3> HIDE DEF lines
      <3>3. /\ files \in Seq(Seq(Pieces)) /\ Len(files) = f /\ files[f] = lines
            /\ \A g \in 1 .. Len(content) : files[g] = content[g]
        BY <3>2, AppendProperties DEF Typed
      <3>4. Len(content) <= Len(files) /\ f \in 1 .. Len(files)
        BY <3>3, LenProperties DEF Typed
      <3>5. ReadPiece(c, f, files)
        BY <3>1 DEF lines
      <3> HIDE DEF files, f
      <3>6. content' = files /\
            \E next : /\ Moved(c, next) /\ next.on = f /\ next.status \in {"none", "200"}
                      /\ file[c].at <= Len(files[f]) =>
                           Reading(next, files[f], Coming(file[c], files[f]))
        BY <1>1, <1>3, <3>3, <3>4, <3>5, ReadMoved
      <3>7. file[c].at <= Len(lines) /\ Coming(file[c], lines) = lines
        BY <1>1, <3>2, Fresh, FreshReading
      <3>8. \E next : Moved(c, next) /\ next.on = f /\ Reading(next, lines, lines)
        BY <3>3, <3>6, <3>7
      <3> QED BY <1>1, <1>3, <2>2, <3>1, <3>6, <3>8 DEF lines, files, f
    <2> QED BY <1>3, <2>1, <2>2
  <1> QED BY <1>2, <1>3 DEF OpenListing

\* openPostFile: refused, or the name stands for an empty file from then on, the
\* one that was there or a new one, and the request has its stream on it.
LEMMA OpenPostEffect ==
  ASSUME Typed, Streams, NEW c \in Clients, OpenPost(c)
  PROVE  /\ want[c].method = "POST" /\ file[c].on = Absent
         /\ UNCHANGED <<want, listings>>
         /\ \/ /\ \E next : Moved(c, next) /\ next.on = Absent /\ next.status = "500"
               /\ UNCHANGED <<path, content, open, value, meant>>
            \/ /\ open' = open + 1 /\ Disturbed(c)
               /\ path' = IF path = Absent THEN Len(content) + 1 ELSE path
               /\ path' \in 1 .. Len(content')
               /\ \E next : /\ Moved(c, next) /\ next.on = path'
                            /\ next.phase = "Sending" => next.given = Len(want[c].body)
                            /\ Faithful(want[c].body, next, content'[path'])
  <1>1. /\ want[c].method = "POST" /\ file[c].phase = "idle" /\ file[c].on = Absent
        /\ UNCHANGED <<want, listings>>
    BY ClientRecord DEF OpenPost
  <1>2. CASE open >= MaxOpen /\ Refuse(c, "500") /\ UNCHANGED <<value, meant>>
    BY <1>1, <1>2, RefuseMoved DEF store
  <1>3. CASE /\ open < MaxOpen /\ open' = open + 1
             /\ Disturbed(c)
             /\ IF path = Absent
                THEN /\ path' = Len(content) + 1
                     /\ WritePiece(c, path', Append(content, <<>>))
                ELSE /\ path' = path
                     /\ WritePiece(c, path, [content EXCEPT ![path] = Emptied(@)])
    <2>1. \E f \in Nat, files \in Seq(Seq(Pieces)) :
            /\ path' = f /\ f = (IF path = Absent THEN Len(content) + 1 ELSE path)
            /\ f \in 1 .. Len(files) /\ files[f] = <<>>
            /\ Len(content) <= Len(files)
            /\ \A g \in 1 .. Len(content) : g # f => files[g] = content[g]
            /\ WritePiece(c, f, files)
      <3>1. content \in Seq(Seq(Pieces)) /\ Len(content) \in Nat /\ <<>> \in Seq(Pieces)
        BY LenProperties, EmptySeq DEF Typed
      <3>2. CASE path = Absent
        <4> DEFINE files == Append(content, <<>>)
                   f     == Len(content) + 1
        <4>1. /\ files \in Seq(Seq(Pieces)) /\ Len(files) = f /\ files[f] = <<>>
              /\ \A g \in 1 .. Len(content) : files[g] = content[g]
          BY <3>1, AppendProperties
        <4>2. path' = f /\ WritePiece(c, f, files)
          BY <1>3, <3>2
        <4>3. f \in Nat /\ f \in 1 .. f /\ Len(content) <= f
          BY <3>1
        <4> HIDE DEF files
        <4> QED BY <3>2, <4>1, <4>2, <4>3
      <3>3. CASE path # Absent
        <4> DEFINE files == [content EXCEPT ![path] = <<>>]
        <4>1. path \in 1 .. Len(content) /\ path \in Nat
          BY <3>1, <3>3 DEF Typed, Absent
        <4>2. /\ files \in Seq(Seq(Pieces)) /\ Len(files) = Len(content) /\ files[path] = <<>>
              /\ \A g \in 1 .. Len(content) : g # path => files[g] = content[g]
          BY <3>1, <4>1, ExceptSeq
        <4>3. path' = path /\ WritePiece(c, path, files)
          BY <1>3, <3>3 DEF Emptied
        <4> HIDE DEF files
        <4>4. Len(content) <= Len(files)
          BY <3>1, <4>2
        <4> QED BY <3>3, <4>1, <4>2, <4>3, <4>4
      <3> QED BY <3>2, <3>3
    <2>2. PICK f \in Nat, files \in Seq(Seq(Pieces)) :
            /\ path' = f /\ f = (IF path = Absent THEN Len(content) + 1 ELSE path)
            /\ f \in 1 .. Len(files) /\ files[f] = <<>>
            /\ Len(content) <= Len(files)
            /\ \A g \in 1 .. Len(content) : g # f => files[g] = content[g]
            /\ WritePiece(c, f, files)
      BY <2>1
    <2>3. Len(content') = Len(files) /\
          \E next : /\ Moved(c, next) /\ next.on = f
                    /\ next.phase = "Sending" => next.given = Len(want[c].body)
                    /\ Faithful(want[c].body, file[c], files[f])
                         => Faithful(want[c].body, next, content'[f])
      BY <1>1, <2>2, WriteMoved
    <2>4. Faithful(want[c].body, file[c], <<>>)
      <3>1. want[c].body \in Seq(Pieces)
        BY ClientRecord DEF Requests
      <3>2. SubSeq(want[c].body, 1, 0) = <<>> /\ <<>> \o <<>> = <<>> /\ Len(<<>>) = 0
        BY <3>1, SubSeqEmpty, ConcatEmptySeq, EmptySeq
      <3> QED BY <1>1, <3>2, Fresh DEF Faithful
    <2> QED BY <1>1, <1>3, <2>2, <2>3, <2>4
  <1> QED BY <1>1, <1>2, <1>3 DEF OpenPost

\* A further visit of a POST.
LEMMA PostEffect ==
  ASSUME Typed, Streams, NEW c \in Clients, Post(c)
  PROVE  /\ want[c].method = "POST" /\ file[c].on \in 1 .. Len(content)
         /\ UNCHANGED <<want, path, open, history>> /\ Len(content') = Len(content)
         /\ \E next : /\ Moved(c, next) /\ next.on = file[c].on
                      /\ next.phase = "Sending" => next.given = Len(want[c].body)
                      /\ Faithful(want[c].body, file[c], content[file[c].on])
                           => Faithful(want[c].body, next, content'[file[c].on])
  <1> DEFINE f == file[c].on
  <1>1. /\ want[c].method = "POST" /\ file[c].phase = "Loading" /\ WritePiece(c, f, content)
        /\ UNCHANGED <<want, path, open, history>>
    BY DEF Post
  <1>2. /\ f \in 1 .. Len(content) /\ content \in Seq(Seq(Pieces))
        /\ Len(content) <= Len(content)
    BY <1>1, ClientRecord, LenProperties DEF Stream, FileManagers, Absent, Typed
  <1> HIDE DEF f
  <1>3. Len(content') = Len(content) /\
        \E next : /\ Moved(c, next) /\ next.on = f
                  /\ next.phase = "Sending" => next.given = Len(want[c].body)
                  /\ Faithful(want[c].body, file[c], content[f])
                       => Faithful(want[c].body, next, content'[f])
    BY <1>1, <1>2, WriteMoved
  <1> QED BY <1>1, <1>2, <1>3 DEF f

\* manageDelete.
LEMMA DeleteEffect ==
  ASSUME Typed, Streams, NEW c \in Clients, Delete(c)
  PROVE  /\ want[c].method = "DELETE" /\ file[c].on = Absent
         /\ UNCHANGED <<want, content, open, meant, listings>>
         /\ path' = Absent /\ value' = Nothing
         /\ \E next : Moved(c, next) /\ next.on = Absent /\ next.status \in {"204", "404"}
  <1>1. /\ want[c].method = "DELETE" /\ file[c].phase = "idle" /\ file[c].on = Absent
        /\ UNCHANGED <<want, content, open, meant, listings>>
        /\ path' = Absent /\ value' = Nothing
    BY ClientRecord DEF Delete
  <1> DEFINE st == IF path = Absent THEN "404" ELSE "204"
  <1>2. st \in {"204", "404"} /\ st \in {"204", "404", "500"}
    OBVIOUS
  <1>3. file' = [file EXCEPT ![c].phase = "Sending", ![c].status = st]
    BY DEF Delete
  <1> HIDE DEF st
  <1>4. \E next : Moved(c, next) /\ next.on = Absent /\ next.status = st
    BY <1>1, <1>2, <1>3, ClosedMoved
  <1> QED BY <1>1, <1>2, <1>4

\* The end of the process, at the expense of these and of every client that has
\* a stream: no stream is left.
LEMMA RestartEffect ==
  ASSUME Typed, Streams, NEW lost, InFlight \subseteq lost, Restart(lost)
  PROVE  /\ UNCHANGED <<want, path, content, meant>>
         /\ value' = IF Writers(path) = {} THEN value ELSE Unknown
         /\ open' = 0 /\ listings' = 0
         /\ file' \in [Clients -> FileManagers] /\ Streams'
         /\ \A c \in Clients : /\ file'[c].on = Absent
                               /\ file'[c] = file[c] \/ file'[c].status = "none"
  <1>1. /\ UNCHANGED <<want, path, content, meant>>
        /\ value' = IF Writers(path) = {} THEN value ELSE Unknown
        /\ open' = 0 /\ listings' = 0
        /\ file' = [c \in Clients |-> IF c \in lost THEN [Closed EXCEPT !.phase = "lost"]
                                                    ELSE file[c]]
    BY DEF Restart, store
  <1> DEFINE gone == [Closed EXCEPT !.phase = "lost"]
  <1>2. /\ gone \in FileManagers /\ gone.on = Absent /\ gone.status = "none" /\ gone.given = 0
        /\ gone.kept = <<>> /\ gone.phase = "lost"
    <2>1. <<>> \in Seq(Pieces)
      BY EmptySeq
    <2> QED BY <2>1 DEF Closed, FileManagers, Absent
  <1>3. file' = [c \in Clients |-> IF c \in lost THEN gone ELSE file[c]]
    BY <1>1
  <1> HIDE DEF gone
  <1>4. ASSUME NEW c \in Clients
        PROVE  /\ file'[c] \in FileManagers /\ Stream(want[c], file'[c], Len(content))
               /\ file'[c].on = Absent /\ (file'[c] = file[c] \/ file'[c].status = "none")
    <2>1. CASE c \in lost
      <3>1. file'[c] = gone
        BY <1>3, <2>1
      <3>2. /\ Len(want[c].body) \in Nat /\ Len(<<>>) = 0 /\ Len(content) \in Nat
        BY ClientRecord, LenProperties, EmptySeq DEF Requests, Typed
      <3>3. Stream(want[c], gone, Len(content))
        BY <1>2, <3>2, PiecesAssumption DEF Stream, Absent
      <3> QED BY <1>2, <3>1, <3>3
    <2>2. CASE c \notin lost
      <3>1. file'[c] = file[c] /\ c \notin InFlight
        BY <1>3, <2>2
      <3>2. file[c].phase \notin {"Loading", "Sending"}
        BY <3>1 DEF InFlight
      <3>3. file[c].on = Absent
        BY <3>2, ClientRecord DEF Stream
      <3> QED BY <3>1, <3>3, ClientRecord
    <2> QED BY <2>1, <2>2
  <1>5. file' \in [Clients -> FileManagers] /\ Streams'
    BY <1>1, <1>3, <1>4 DEF Streams
  <1> QED BY <1>1, <1>4, <1>5

-----------------------------------------------------------------------------
(* Types. *)

\* What is expected is a content, nothing, or not known.
LEMMA ExpectationType ==
  /\ Unknown \in Expectations /\ Nothing \in Expectations
  /\ \A x \in Seq(Pieces) : Holding(x) \in Expectations
  <1>1. <<>> \in Seq(Seq(Pieces)) /\ \A x \in Seq(Pieces) : <<x>> \in Seq(Seq(Pieces))
    BY EmptySeq
  <1> QED BY <1>1 DEF Expectations, Unknown, Nothing, Holding

\* A client's step keeps the types, if it does of what it does besides.
LEMMA StepTyped ==
  ASSUME Typed, Streams, NEW c \in Clients, \E next : Moved(c, next),
         path' \in 0 .. Len(content'), value' \in Expectations,
         meant' \in [Clients -> Expectations], listings' \in Nat
  PROVE  Typed' /\ Streams'
  <1>1. PICK next : Moved(c, next)
    OBVIOUS
  <1>2. content' \in Seq(Seq(Pieces))
    BY <1>1 DEF Moved
  <1> QED BY <1>1, <1>2, MovedTyped DEF Typed

\* So does the end of the process.
LEMMA RestartTyped ==
  ASSUME Typed, Streams, NEW lost, InFlight \subseteq lost, Restart(lost)
  PROVE  Typed' /\ Streams'
  BY RestartEffect, ExpectationType DEF Typed

\* The types hold before any request.
LEMMA TypedInit == Init => Typed /\ Streams
  <1> SUFFICES ASSUME Init PROVE Typed /\ Streams
    OBVIOUS
  <1>1. PICK method \in [Clients -> Methods], size \in [Clients -> 0 .. MaxPieces] :
          want = [c \in Clients |->
                    [method |-> method[c],
                     body |-> IF method[c] = "POST" THEN Body(c, size[c]) ELSE <<>>]]
    BY DEF Init, Methods
  <1>2. want \in [Clients -> Requests]
    <2>1. ASSUME NEW c \in Clients
          PROVE  (IF method[c] = "POST" THEN Body(c, size[c]) ELSE <<>>) \in Seq(Pieces)
      <3>1. c \in Pieces /\ size[c] \in Nat
        BY PiecesAssumption DEF Pieces
      <3> QED BY <3>1, BodyType, EmptySeq
    <2> QED BY <1>1, <2>1 DEF Requests
  <1>3. file = [c \in Clients |-> Closed] /\ meant = [c \in Clients |-> Unknown] /\ listings = 0
    BY DEF Init
  <1>4. Closed \in FileManagers
    <2>1. <<>> \in Seq(Pieces)
      BY EmptySeq
    <2> QED BY <2>1 DEF Closed, FileManagers, Absent
  <1>5. content \in Seq(Seq(Pieces)) /\ path \in 0 .. Len(content) /\ value \in Expectations
    <2>1. CASE path = Absent /\ content = <<>> /\ value = Nothing
      <3>1. content \in Seq(Seq(Pieces)) /\ Len(content) = 0
        BY <2>1, EmptySeq
      <3> QED BY <2>1, <3>1, ExpectationType DEF Absent
    <2>2. CASE \E n \in 0 .. MaxPieces : /\ path = 1 /\ content = <<Body(Old, n)>>
                                         /\ value = Holding(Body(Old, n))
      <3>1. PICK n \in 0 .. MaxPieces : /\ path = 1 /\ content = <<Body(Old, n)>>
                                        /\ value = Holding(Body(Old, n))
        BY <2>2
      <3>2. Body(Old, n) \in Seq(Pieces)
        <4>1. Old \in Pieces
          BY DEF Pieces
        <4> QED BY <4>1, BodyType, PiecesAssumption
      <3> QED BY <3>1, <3>2, ExpectationType
    <2> QED BY <2>1, <2>2 DEF Init
  <1>6. Typed
    BY <1>2, <1>3, <1>4, <1>5, ExpectationType DEF Typed
  <1>7. ASSUME NEW c \in Clients PROVE Stream(want[c], file[c], Len(content))
    <2>1. file[c] = Closed /\ want[c].body \in Seq(Pieces)
      BY <1>2, <1>3 DEF Requests
    <2>2. Len(want[c].body) \in Nat /\ Len(content) \in Nat /\ Len(<<>>) = 0
      BY <1>5, <2>1, LenProperties, EmptySeq
    <2>3. Closed.phase = "idle" /\ Closed.on = Absent /\ Closed.given = 0 /\ Closed.kept = <<>>
          /\ Closed.status = "none"
      BY DEF Closed
    <2> HIDE DEF Init
    <2> QED BY <2>1, <2>2, <2>3, PiecesAssumption DEF Stream, Absent
  <1> QED BY <1>6, <1>7 DEF Streams

\* Every operation keeps the types and the shape of the streams.
LEMMA TypedVisit ==
  ASSUME Typed, Streams, NEW c \in Clients, Visit(c)
  PROVE  Typed' /\ Streams'
  <1>1. /\ content \in Seq(Seq(Pieces)) /\ Len(content) \in Nat /\ path \in 0 .. Len(content)
        /\ value \in Expectations /\ meant \in [Clients -> Expectations] /\ listings \in Nat
    BY LenProperties DEF Typed
  <1>2. ASSUME NEW x \in Expectations, meant' = [meant EXCEPT ![c] = x]
        PROVE  meant' \in [Clients -> Expectations]
    BY <1>1, <1>2
  <1>3. CASE OpenGet(c)
    <2>1. meant' \in [Clients -> Expectations]
      BY <1>1, <1>2, <1>3, OpenGetEffect, ExpectationType
    <2>2. (\E next : Moved(c, next)) /\ path' = path /\ content' = content
          /\ value' = value /\ listings' = listings
      BY <1>3, OpenGetEffect
    <2> QED BY <1>1, <2>1, <2>2, StepTyped
  <1>4. CASE OpenListing(c)
    <2>1. CASE Restart(InFlight \cup {c})
      BY <2>1, RestartTyped
    <2>2. CASE ~Restart(InFlight \cup {c})
      <3>1. /\ UNCHANGED <<want, path, value>> /\ listings' = listings + 1
            /\ \E next : Moved(c, next)
            /\ meant' = meant \/ \E x \in Expectations : meant' = [meant EXCEPT ![c] = x]
        <4>1. Unknown \in Expectations /\ Holding(Lines(TRUE)) \in Expectations
          BY ExpectationType, LinesType
        <4> QED BY <1>4, <2>2, <4>1, OpenListingEffect
      <3>2. Len(content) <= Len(content')
        BY <3>1 DEF Moved
      <3>3. Len(content') \in Nat
        BY <3>1, LenProperties DEF Moved
      <3> QED BY <1>1, <1>2, <3>1, <3>2, <3>3, StepTyped
    <2> QED BY <2>1, <2>2
  <1>5. CASE Get(c)
    BY <1>1, <1>5, GetEffect, StepTyped DEF history
  <1>6. CASE OpenPost(c)
    <2>1. /\ \E next : Moved(c, next)
          /\ listings' = listings /\ path' \in 0 .. Len(content')
      BY <1>1, <1>6, OpenPostEffect
    <2>2. (value' = value /\ meant' = meant) \/ Disturbed(c)
      BY <1>6, OpenPostEffect
    <2>3. Holding(want[c].body) \in Expectations
      BY ClientRecord, ExpectationType DEF Requests
    <2>4. value' \in Expectations
      BY <1>1, <2>2, <2>3, ExpectationType DEF Disturbed
    <2>5. meant' \in [Clients -> Expectations]
      BY <1>1, <2>2, ExpectationType DEF Disturbed
    <2> QED BY <1>1, <2>1, <2>4, <2>5, StepTyped
  <1>7. CASE Post(c)
    BY <1>1, <1>7, PostEffect, StepTyped DEF history
  <1>8. CASE Delete(c)
    BY <1>1, <1>8, DeleteEffect, ExpectationType, StepTyped DEF Absent
  <1>9. CASE Answer(c)
    <2>1. UNCHANGED <<path, value, meant, listings>>
      BY <1>9 DEF Answer, history
    <2> QED BY <1>1, <1>9, <2>1, AnswerMoved, StepTyped
  <1> QED BY <1>3, <1>4, <1>5, <1>6, <1>7, <1>8, <1>9 DEF Visit

\* Every step keeps the types and the records streams can be in.
LEMMA TypedNext == Typed /\ Streams /\ [Next]_vars => (Typed /\ Streams)'
  <1> SUFFICES ASSUME Typed, Streams, [Next]_vars PROVE Typed' /\ Streams'
    OBVIOUS
  <1>1. CASE Crash
    BY <1>1, RestartTyped DEF Crash
  <1>2. CASE \E c \in Clients : Visit(c)
    BY <1>2, TypedVisit
  <1>3. CASE UNCHANGED vars
    BY <1>3 DEF vars, store, history, Typed, Streams
  <1> QED BY <1>1, <1>2, <1>3 DEF Next

\* So they hold always.
LEMMA TypedAlways == Spec => [](Typed /\ Streams)
  BY TypedInit, TypedNext, PTL DEF Spec

\* Every variable has its type, and no stream keeps more than it has room for,
\* whatever requests are interleaved and wherever the process ends.
THEOREM FilesTypeCorrect == Spec => []TypeOK
  <1>1. Typed /\ Streams => TypeOK
    <2> SUFFICES ASSUME Typed, Streams PROVE TypeOK
      OBVIOUS
    <2>1. ASSUME NEW f \in DOMAIN content, NEW k \in DOMAIN content[f]
          PROVE  content[f][k] \in Pieces
      <3>1. content[f] \in Seq(Pieces)
        BY ElementOfSeq, LenProperties DEF Typed
      <3> QED BY <3>1, ElementOfSeq, LenProperties
    <2>2. ASSUME NEW c \in Clients
          PROVE  /\ file[c].phase \in {"idle", "Loading", "Sending", "answered", "lost"}
                 /\ file[c].on \in 0 .. Len(content) /\ file[c].at \in Nat
                 /\ file[c].given \in 0 .. Len(want[c].body)
                 /\ Len(file[c].kept) <=
                      (IF want[c].method = "POST" THEN WriteBack ELSE ReadAhead - 1)
      <3>1. Len(content) \in Nat /\ Len(want[c].body) \in Nat
        BY ClientRecord, LenProperties DEF Typed, Requests
      <3> QED BY <3>1, ClientRecord DEF FileManagers, Stream
    <2>3. path \in 0 .. Len(content)
      BY DEF Typed
    <2> QED BY <2>1, <2>2, <2>3 DEF TypeOK
  <1> QED BY <1>1, TypedAlways, PTL

-----------------------------------------------------------------------------
(* Descriptors. *)

\* Clients with a stream.
Streaming == {c \in Clients : file[c].on # Absent}

\* A client's step adds its client to those with a stream, or takes it away.
LEMMA StreamingMoved ==
  ASSUME Typed, Streams, NEW c \in Clients, NEW next, Moved(c, next)
  PROVE  /\ IsFiniteSet(Streaming) /\ Cardinality(Streaming) \in Nat
         /\ file[c].on = Absent /\ next.on = Absent => Streaming' = Streaming
         /\ file[c].on # Absent /\ next.on # Absent => Streaming' = Streaming
         /\ file[c].on = Absent /\ next.on # Absent =>
              Cardinality(Streaming') = Cardinality(Streaming) + 1
         /\ file[c].on # Absent /\ next.on = Absent =>
              Cardinality(Streaming') = Cardinality(Streaming) - 1
  <1>1. file'[c] = next /\ \A d \in Clients \ {c} : file'[d] = file[d]
    BY MovedTyped
  <1>2. Streaming' = IF next.on # Absent THEN Streaming \cup {c} ELSE Streaming \ {c}
    BY <1>1 DEF Streaming
  <1>3. c \in Streaming <=> file[c].on # Absent
    BY DEF Streaming
  <1>4. IsFiniteSet(Streaming) /\ Cardinality(Streaming) \in Nat
    <2>1. Streaming \subseteq Clients
      BY DEF Streaming
    <2> QED BY <2>1, ClientsAssumption, FS_Subset, FS_CardinalityType
  <1> HIDE DEF Streaming
  <1>5. c \notin Streaming => Cardinality(Streaming \cup {c}) = Cardinality(Streaming) + 1
    BY <1>4, FS_AddElement
  <1>6. c \in Streaming => Cardinality(Streaming \ {c}) = Cardinality(Streaming) - 1
    BY <1>4, FS_RemoveElement
  <1>7. (c \in Streaming => Streaming \cup {c} = Streaming)
        /\ (c \notin Streaming => Streaming \ {c} = Streaming)
    OBVIOUS
  <1>8. CASE next.on # Absent
    <2>1. Streaming' = Streaming \cup {c}
      BY <1>2, <1>8
    <2> QED BY <1>3, <1>4, <1>5, <1>7, <1>8, <2>1
  <1>9. CASE next.on = Absent
    <2>1. Streaming' = Streaming \ {c}
      BY <1>2, <1>9
    <2> QED BY <1>3, <1>4, <1>6, <1>7, <1>9, <2>1
  <1> QED BY <1>8, <1>9

\* The end of the process leaves no descriptor and no stream.
LEMMA RestartOpen ==
  ASSUME Typed, Streams, NEW lost, InFlight \subseteq lost, Restart(lost)
  PROVE  OnlyListingsLeak'
  <1>1. open' = 0 /\ listings' = 0 /\ {c \in Clients : file'[c].on # Absent} = {}
    BY RestartEffect
  <1> QED BY <1>1, FS_EmptySet DEF OnlyListingsLeak

\* What each operation does to the number of descriptors.
LEMMA OpenVisit ==
  ASSUME Typed, Streams, OnlyListingsLeak, NEW c \in Clients, Visit(c)
  PROVE  OnlyListingsLeak'
  <1> DEFINE n == Cardinality(Streaming)
  <1>1. open = n + listings /\ listings \in Nat
        /\ (OnlyListingsLeak' <=> open' = Cardinality(Streaming') + listings')
    BY DEF OnlyListingsLeak, Streaming, Typed
  <1>2. ASSUME NEW next, Moved(c, next), file[c].on = Absent, next.on = Absent
        PROVE  Cardinality(Streaming') = n
    BY <1>2, StreamingMoved
  <1>3. ASSUME NEW next, Moved(c, next), file[c].on = Absent, next.on # Absent
        PROVE  Cardinality(Streaming') = n + 1
    BY <1>3, StreamingMoved
  <1>4. ASSUME NEW next, Moved(c, next), file[c].on # Absent, next.on # Absent
        PROVE  Cardinality(Streaming') = n
    BY <1>4, StreamingMoved
  <1>5. ASSUME NEW next, Moved(c, next), file[c].on # Absent, next.on = Absent
        PROVE  Cardinality(Streaming') = n - 1
    BY <1>5, StreamingMoved
  <1>6. (\E next : Moved(c, next)) => n \in Nat
    BY StreamingMoved
  <1> HIDE DEF n
  <1>7. CASE OpenGet(c)
    BY <1>1, <1>2, <1>3, <1>6, <1>7, OpenGetEffect
  <1>8. CASE OpenListing(c)
    <2>1. CASE Restart(InFlight \cup {c})
      BY <2>1, RestartOpen
    <2>2. CASE ~Restart(InFlight \cup {c})
      <3>1. file[c].on = Absent /\ listings' = listings + 1
        BY <1>8, <2>2, OpenListingEffect
      <3>2. \/ open' = open + 1 /\ \E next : Moved(c, next) /\ next.on = Absent
            \/ open' = open + 2 /\ \E next : Moved(c, next) /\ next.on = Len(content) + 1
        BY <1>8, <2>2, OpenListingEffect
      <3>3. Len(content) + 1 # Absent
        BY LenProperties DEF Absent, Typed
      <3> QED BY <1>1, <1>2, <1>3, <1>6, <3>1, <3>2, <3>3
    <2> QED BY <2>1, <2>2
  <1>9. CASE Get(c)
    <2>1. file[c].on # Absent
      BY <1>9, GetEffect DEF Absent
    <2>2. UNCHANGED <<open, listings>> /\ \E next : Moved(c, next) /\ next.on = file[c].on
      BY <1>9, GetEffect DEF history
    <2> QED BY <1>1, <1>4, <2>1, <2>2
  <1>10. CASE OpenPost(c)
    <2>1. /\ file[c].on = Absent /\ listings' = listings
          /\ \/ open' = open /\ \E next : Moved(c, next) /\ next.on = Absent
             \/ open' = open + 1 /\ \E next : Moved(c, next) /\ next.on # Absent
      BY <1>10, OpenPostEffect DEF Absent
    <2> QED BY <1>1, <1>2, <1>3, <1>6, <2>1
  <1>11. CASE Post(c)
    <2>1. file[c].on # Absent
      BY <1>11, PostEffect DEF Absent
    <2>2. UNCHANGED <<open, listings>> /\ \E next : Moved(c, next) /\ next.on = file[c].on
      BY <1>11, PostEffect DEF history
    <2> QED BY <1>1, <1>4, <2>1, <2>2
  <1>12. CASE Delete(c)
    BY <1>1, <1>2, <1>12, DeleteEffect
  <1>13. CASE Answer(c)
    <2>1. /\ listings' = listings /\ open' = open - ClosedBy(c)
          /\ \E next : Moved(c, next) /\ next.on = Absent
      BY <1>13, AnswerMoved DEF Answer, history
    <2> QED BY <1>1, <1>2, <1>5, <1>6, <2>1 DEF ClosedBy
  <1> QED BY <1>7, <1>8, <1>9, <1>10, <1>11, <1>12, <1>13 DEF Visit

\* Every descriptor opened for a file is closed when its client ends, the ones of
\* the directories listed never are, and no others are open: whatever clients do,
\* and however short of descriptors the process runs.
THEOREM LeaksOnlyListings == Spec => []OnlyListingsLeak
  <1>1. Init => OnlyListingsLeak
    <2> SUFFICES ASSUME Init PROVE OnlyListingsLeak
      OBVIOUS
    <2>1. /\ open = 0 /\ listings = 0
          /\ \A c \in Clients : file[c].on = Absent
      BY DEF Init, Closed
    <2>2. {c \in Clients : file[c].on # Absent} = {}
      BY <2>1
    <2> QED BY <2>1, <2>2, FS_EmptySet DEF OnlyListingsLeak
  <1>2. Typed /\ Streams /\ OnlyListingsLeak /\ [Next]_vars => OnlyListingsLeak'
    <2> SUFFICES ASSUME Typed, Streams, OnlyListingsLeak, [Next]_vars PROVE OnlyListingsLeak'
      OBVIOUS
    <2>1. CASE Crash
      BY <2>1, RestartOpen DEF Crash
    <2>2. CASE \E c \in Clients : Visit(c)
      BY <2>2, OpenVisit
    <2>3. CASE UNCHANGED vars
      BY <2>3 DEF vars, history, OnlyListingsLeak
    <2> QED BY <2>1, <2>2, <2>3 DEF Next
  <1> QED BY <1>1, <1>2, TypedAlways, PTL DEF Spec

-----------------------------------------------------------------------------
(* What the name holds. *)

\* While the history is known, a name that stands for no file should stand for
\* none; a file nobody writes is what it should be; and one that is written has
\* one writer, and with what that one keeps it is as much of its body as has been
\* given, all of it once the answer is on its way.
StoreKept ==
  value.known =>
    /\ path = Absent => value.held = <<>>
    /\ path # Absent /\ Writers(path) = {} => value.held = <<content[path]>>
    /\ \A w \in Writers(path) :
         /\ Writers(path) = {w} /\ value.held = <<want[w].body>>
         /\ Faithful(want[w].body, file[w], content[path])
         /\ file[w].phase = "Sending" => file[w].given = Len(want[w].body)

\* A step of a client that has no stream to write to the name's file, neither
\* before nor after, makes no difference to it.
LEMMA StoreUntouched ==
  ASSUME Typed, Streams, StoreKept, NEW c \in Clients, path' = path, value' = value,
         \E next : /\ Moved(c, next)
                   /\ want[c].method = "POST" => path \notin {file[c].on, next.on}
  PROVE  StoreKept'
  <1>1. PICK next : /\ Moved(c, next)
                    /\ want[c].method = "POST" => path \notin {file[c].on, next.on}
    OBVIOUS
  <1>2. /\ file'[c] = next /\ \A d \in Clients \ {c} : file'[d] = file[d]
        /\ want' = want
    BY <1>1, MovedTyped DEF Moved
  <1>3. path \in Nat /\ c \notin Writers(path)
    BY <1>1, LenProperties DEF Typed, Writers
  <1>4. Writers(path)' = Writers(path)
    BY <1>2, <1>3, <1>1 DEF Writers
  <1>5. path # Absent => content'[path] = content[path]
    <2>1. path # Absent => path \in 1 .. Len(content)
      BY LenProperties DEF Typed, Absent
    <2> QED BY <1>1, <2>1 DEF Moved
  <1>6. \A w \in Writers(path) : file'[w] = file[w] /\ path # Absent
    BY <1>2, <1>3 DEF Writers
  <1> QED BY <1>2, <1>4, <1>5, <1>6 DEF StoreKept

\* Opening a POST empties the file, or makes a new one, for one writer.
LEMMA StoreOpenPost ==
  ASSUME Typed, Streams, StoreKept, NEW c \in Clients, OpenPost(c)
  PROVE  StoreKept'
  <1>1. /\ want[c].method = "POST" /\ file[c].on = Absent /\ want' = want
    BY OpenPostEffect
  <1>2. CASE /\ \E next : Moved(c, next) /\ next.on = Absent /\ next.status = "500"
             /\ UNCHANGED <<path, content, open, value, meant>>
    <2>1. CASE path # Absent
      BY <1>1, <1>2, <2>1, StoreUntouched
    <2>2. CASE path = Absent
      BY <1>2, <2>2 DEF StoreKept, Writers
    <2> QED BY <2>1, <2>2
  <1>3. CASE ~ /\ \E next : Moved(c, next) /\ next.on = Absent /\ next.status = "500"
               /\ UNCHANGED <<path, content, open, value, meant>>
    <2>1. /\ Disturbed(c) /\ path' = IF path = Absent THEN Len(content) + 1 ELSE path
          /\ path' \in 1 .. Len(content')
      BY <1>3, OpenPostEffect
    <2>2. PICK next : /\ Moved(c, next) /\ next.on = path'
                      /\ next.phase = "Sending" => next.given = Len(want[c].body)
                      /\ Faithful(want[c].body, next, content'[path'])
      BY <1>3, OpenPostEffect
    <2>3. file'[c] = next /\ \A d \in Clients \ {c} : file'[d] = file[d]
      BY <2>2, MovedTyped
    <2>4. path' # Absent
      BY <2>1 DEF Absent
    <2>5. ASSUME value'.known
          PROVE  Writers(path) = {} /\ value' = Holding(want[c].body)
      BY <2>1, <2>5 DEF Disturbed, Unknown
    <2>6. ASSUME Writers(path) = {} PROVE Writers(path)' = {c}
      <3>1. ASSUME NEW d \in Clients, d # c, want[d].method = "POST" PROVE file[d].on # path'
        <4>1. CASE path = Absent
          <5>1. file[d].on <= Len(content) /\ file[d].on \in Nat /\ Len(content) \in Nat
            BY ClientRecord, LenProperties DEF Stream, FileManagers, Typed
          <5> QED BY <2>1, <4>1, <5>1
        <4>2. CASE path # Absent
          BY <2>1, <2>6, <3>1, <4>2 DEF Writers
        <4> QED BY <4>1, <4>2
      <3>2. c \in Writers(path)'
        BY <1>1, <2>2, <2>3, <2>4 DEF Writers
      <3>3. \A d \in Clients : d # c => d \notin Writers(path)'
        BY <1>1, <2>3, <3>1 DEF Writers
      <3>4. Writers(path)' \subseteq Clients
        BY DEF Writers
      <3> QED BY <3>2, <3>3, <3>4
    <2>7. Holding(want[c].body).held = <<want[c].body>>
      BY DEF Holding
    <2> QED BY <1>1, <2>2, <2>3, <2>4, <2>5, <2>6, <2>7 DEF StoreKept
  <1> QED BY <1>2, <1>3

\* A further piece of a POST goes to the file of the name, or to one that was
\* removed.
LEMMA StorePost ==
  ASSUME Typed, Streams, StoreKept, NEW c \in Clients, Post(c)
  PROVE  StoreKept'
  <1>1. /\ want[c].method = "POST" /\ file[c].on \in 1 .. Len(content)
        /\ UNCHANGED <<want, path, value>>
    BY PostEffect DEF history
  <1>2. PICK next : /\ Moved(c, next) /\ next.on = file[c].on
                    /\ next.phase = "Sending" => next.given = Len(want[c].body)
                    /\ Faithful(want[c].body, file[c], content[file[c].on])
                         => Faithful(want[c].body, next, content'[file[c].on])
    BY PostEffect
  <1>3. CASE file[c].on # path
    BY <1>1, <1>2, <1>3, StoreUntouched
  <1>4. CASE file[c].on = path
    <2>1. file'[c] = next /\ \A d \in Clients \ {c} : file'[d] = file[d]
      BY <1>2, MovedTyped
    <2>2. path # Absent /\ c \in Writers(path)
      BY <1>1, <1>4 DEF Absent, Writers
    <2>3. Writers(path)' = Writers(path)
      BY <1>1, <1>2, <2>1 DEF Writers
    <2>4. ASSUME value.known
          PROVE  /\ Writers(path) = {c} /\ value.held = <<want[c].body>>
                 /\ Faithful(want[c].body, file[c], content[path])
      BY <2>2, <2>4 DEF StoreKept
    <2>5. value.known => Faithful(want[c].body, next, content'[path])
      BY <1>2, <1>4, <2>4
    <2> QED BY <1>1, <1>2, <2>1, <2>2, <2>3, <2>4, <2>5 DEF StoreKept
  <1> QED BY <1>3, <1>4

\* When the last client that writes it ends, the file is its whole body.
LEMMA StoreAnswer ==
  ASSUME Typed, Streams, StoreKept, NEW c \in Clients, Answer(c)
  PROVE  StoreKept'
  <1>1. file[c].phase = "Sending" /\ UNCHANGED <<want, path, value>>
    BY DEF Answer, history
  <1>2. PICK next : /\ Moved(c, next) /\ next.on = Absent
                    /\ want[c].method = "POST" /\ file[c].on # Absent =>
                         content'[file[c].on]
                           = Overwritten(content[file[c].on], file[c].at, file[c].kept)
    BY AnswerMoved
  <1>3. CASE path = Absent
    BY <1>1, <1>3 DEF StoreKept, Writers
  <1>4. CASE path # Absent /\ c \notin Writers(path)
    <2>1. want[c].method = "POST" => path \notin {file[c].on, next.on}
      BY <1>2, <1>4 DEF Writers
    <2> QED BY <1>1, <1>2, <2>1, StoreUntouched
  <1>5. CASE c \in Writers(path)
    <2> DEFINE body  == want[c].body
               whole == content[path]
               kept  == file[c].kept
               given == file[c].given
               at    == file[c].at
    <2>1. /\ want[c].method = "POST" /\ file[c].on = path /\ path # Absent
          /\ path \in 1 .. Len(content) /\ content \in Seq(Seq(Pieces))
      BY <1>5, LenProperties DEF Writers, Typed, Absent
    <2>2. /\ file'[c] = next /\ \A d \in Clients \ {c} : file'[d] = file[d]
      BY <1>2, MovedTyped
    <2>3. Writers(path)' = Writers(path) \ {c}
      BY <1>1, <1>2, <2>1, <2>2 DEF Writers
    <2>4. ASSUME value.known
          PROVE  Writers(path) = {c} /\ value.held = <<content'[path]>>
      <3>1. /\ Writers(path) = {c} /\ value.held = <<body>> /\ given = Len(body)
            /\ Faithful(body, file[c], whole)
        BY <1>1, <1>5, <2>4 DEF StoreKept
      <3>2. at = Len(whole) /\ whole \o kept = SubSeq(body, 1, given)
        BY <3>1 DEF Faithful
      <3>3. body \in Seq(Pieces) /\ whole \in Seq(Pieces) /\ kept \in Seq(Pieces) /\ at \in Nat
        BY <2>1, ClientRecord, ElementOfSeq DEF Requests, FileManagers
      <3>4. content'[path] = Overwritten(whole, at, kept)
        BY <1>2, <2>1
      <3> HIDE DEF body, whole, kept, given, at
      <3>5. Overwritten(whole, at, kept) = whole \o kept
        BY <3>2, <3>3, OverwrittenType
      <3>6. SubSeq(body, 1, given) = body
        BY <3>1, <3>3, SubSeqFull
      <3> QED BY <3>1, <3>2, <3>4, <3>5, <3>6
    <2>5. value.known => Writers(path)' = {}
      BY <2>3, <2>4
    <2> QED BY <1>1, <2>1, <2>4, <2>5 DEF StoreKept
  <1> QED BY <1>3, <1>4, <1>5

\* The end of the process leaves a file nobody writes as it is.
LEMMA StoreRestart ==
  ASSUME Typed, Streams, StoreKept, NEW lost, InFlight \subseteq lost, Restart(lost)
  PROVE  StoreKept'
  <1>1. /\ UNCHANGED <<want, path, content>>
        /\ value' = IF Writers(path) = {} THEN value ELSE Unknown
        /\ \A c \in Clients : file'[c].on = Absent
    BY RestartEffect
  <1>2. Writers(path)' = {}
    BY <1>1 DEF Writers
  <1> QED BY <1>1, <1>2 DEF StoreKept, Unknown

\* FileManager::manage keeps what is said of the store, for every method.
LEMMA StoreVisit ==
  ASSUME Typed, Streams, StoreKept, NEW c \in Clients, Visit(c)
  PROVE  StoreKept'
  <1>1. CASE OpenGet(c)
    <2>1. want[c].method # "POST" /\ UNCHANGED <<path, value>> /\ \E next : Moved(c, next)
      BY <1>1, OpenGetEffect
    <2> QED BY <2>1, StoreUntouched
  <1>2. CASE OpenListing(c)
    <2>1. CASE Restart(InFlight \cup {c})
      BY <2>1, StoreRestart
    <2>2. CASE ~Restart(InFlight \cup {c})
      <3>1. want[c].method # "POST" /\ UNCHANGED <<path, value>> /\ \E next : Moved(c, next)
        BY <1>2, <2>2, OpenListingEffect
      <3> QED BY <3>1, StoreUntouched
    <2> QED BY <2>1, <2>2
  <1>3. CASE Get(c)
    <2>1. want[c].method # "POST" /\ UNCHANGED <<path, value>> /\ \E next : Moved(c, next)
      BY <1>3, GetEffect DEF history
    <2> QED BY <2>1, StoreUntouched
  <1>4. CASE OpenPost(c)
    BY <1>4, StoreOpenPost
  <1>5. CASE Post(c)
    BY <1>5, StorePost
  <1>6. CASE Delete(c)
    <2>1. path' = Absent /\ value' = Nothing
      BY <1>6, DeleteEffect
    <2> QED BY <2>1 DEF StoreKept, Writers, Nothing
  <1>7. CASE Answer(c)
    BY <1>7, StoreAnswer
  <1> QED BY <1>1, <1>2, <1>3, <1>4, <1>5, <1>6, <1>7 DEF Visit

\* It holds before any request.
LEMMA StoreInit == Init => StoreKept
  <1> SUFFICES ASSUME Init PROVE StoreKept
    OBVIOUS
  <1>1. \A f \in Nat : Writers(f) = {}
    BY DEF Init, Writers, Closed
  <1>2. CASE path = Absent /\ content = <<>> /\ value = Nothing
    BY <1>1, <1>2 DEF StoreKept, Nothing, Absent
  <1>3. CASE \E n \in 0 .. MaxPieces : /\ path = 1 /\ content = <<Body(Old, n)>>
                                       /\ value = Holding(Body(Old, n))
    BY <1>1, <1>3 DEF StoreKept, Holding, Absent
  <1> QED BY <1>2, <1>3 DEF Init

\* Every step keeps it.
LEMMA StoreNext == Typed /\ Streams /\ StoreKept /\ [Next]_vars => StoreKept'
  <1> SUFFICES ASSUME Typed, Streams, StoreKept, [Next]_vars PROVE StoreKept'
    OBVIOUS
  <1>1. CASE Crash
    BY <1>1, StoreRestart DEF Crash
  <1>2. CASE \E c \in Clients : Visit(c)
    BY <1>2, StoreVisit
  <1>3. CASE UNCHANGED vars
    BY <1>3 DEF vars, store, history, StoreKept, Writers
  <1> QED BY <1>1, <1>2, <1>3 DEF Next

\* So it holds always.
LEMMA StoreAlways == Spec => []StoreKept
  BY StoreInit, StoreNext, TypedAlways, PTL DEF Spec

\* A file nobody writes is what the last request made of it: the body of the last
\* POST, if no other had it open meanwhile, and gone after a DELETE, for bodies,
\* buffers and numbers of clients of any size.
THEOREM StoreRight == Spec => []StoreIsRight
  <1>1. StoreKept => StoreIsRight
    <2> SUFFICES ASSUME StoreKept, value.known, Writers(path) = {}
                 PROVE  IF value.held = <<>> THEN path = Absent
                        ELSE path # Absent /\ content[path] = Head(value.held)
      BY DEF StoreIsRight
    <2> QED BY DEF StoreKept
  <1> QED BY <1>1, StoreAlways, PTL

-----------------------------------------------------------------------------
(* What a reader gets. *)

\* While it is known what client c should get, nobody writes the file it reads,
\* and what it has got, what its stream keeps and what is still to be fetched are
\* together what it should get; it has got all of it when it is through.
Gets(c) ==
  want[c].method \in {"GET", "LIST"} /\ meant[c].known =>
    /\ file[c].status = "200" => meant[c].held = <<file[c].got>>
    /\ file[c].status = "none" /\ file[c].on # Absent =>
         /\ Writers(file[c].on) = {} /\ file[c].at <= Len(content[file[c].on])
         /\ meant[c].held = <<Coming(file[c], content[file[c].on])>>

AllGet == \A c \in Clients : Gets(c)

\* A step of client c that does not open the file client d reads for a POST makes
\* no difference to d.
LEMMA OthersGet ==
  ASSUME Typed, Streams, NEW d \in Clients, Gets(d), NEW c \in Clients \ {d},
         meant'[d].known => meant'[d] = meant[d],
         NEW next, Moved(c, next),
         want[c].method = "POST" /\ meant'[d].known /\ file[d].status = "none" =>
           next.on \in {Absent, file[c].on} \/ next.on # file[d].on
  PROVE  Gets(d)'
  <1>1. /\ file'[d] = file[d] /\ file'[c] = next /\ want' = want
        /\ \A e \in Clients \ {c} : file'[e] = file[e]
    BY MovedTyped DEF Moved
  <1> SUFFICES ASSUME want[d].method \in {"GET", "LIST"}, meant'[d].known
               PROVE  /\ file[d].status = "200" => meant[d].held = <<file[d].got>>
                      /\ file[d].status = "none" /\ file[d].on # Absent =>
                           /\ Writers(file[d].on)' = {}
                           /\ file[d].at <= Len(content'[file[d].on])
                           /\ meant[d].held = <<Coming(file[d], content'[file[d].on])>>
    BY <1>1 DEF Gets
  <1>2. meant'[d] = meant[d] /\ meant[d].known
    OBVIOUS
  <1>3. file[d].status = "200" => meant[d].held = <<file[d].got>>
    BY <1>2 DEF Gets
  <1>4. ASSUME file[d].status = "none", file[d].on # Absent
        PROVE  /\ Writers(file[d].on)' = {}
               /\ file[d].at <= Len(content'[file[d].on])
               /\ meant[d].held = <<Coming(file[d], content'[file[d].on])>>
    <2> DEFINE f == file[d].on
    <2>1. /\ Writers(f) = {} /\ file[d].at <= Len(content[f])
          /\ meant[d].held = <<Coming(file[d], content[f])>>
      BY <1>2, <1>4 DEF Gets
    <2>2. f \in 1 .. Len(content)
      BY <1>4, ClientRecord, LenProperties DEF Stream, FileManagers, Absent, Typed
    <2>3. want[c].method = "POST" => file[c].on # f /\ next.on # f
      <3>1. want[c].method = "POST" => file[c].on # f
        BY <1>4, <2>1 DEF Writers
      <3> QED BY <1>4, <3>1
    <2>4. content'[f] = content[f]
      BY <2>2, <2>3 DEF Moved
    <2>5. Writers(f)' = {}
      BY <1>1, <2>1, <2>3 DEF Writers
    <2> QED BY <2>1, <2>4, <2>5
  <1> QED BY <1>3, <1>4

\* The step of a client that reads this file, which nobody writes, and should get
\* all of that.
LEMMA ReaderGets ==
  ASSUME Typed, Streams, NEW c \in Clients, NEW next, Moved(c, next),
         want[c].method \in {"GET", "LIST"},
         next.on # Absent, NEW all,
         meant'[c].known =>
           /\ meant'[c].held = <<all>> /\ Reading(next, content'[next.on], all)
           /\ \A d \in Clients : want[d].method = "POST" => file[d].on # next.on
  PROVE  Gets(c)'
  <1>1. /\ file'[c] = next /\ want' = want
        /\ \A e \in Clients \ {c} : file'[e] = file[e]
    BY MovedTyped DEF Moved
  <1>2. (\A d \in Clients : want[d].method = "POST" => file[d].on # next.on)
          => {d \in Clients : want'[d].method = "POST" /\ file'[d].on = file'[c].on
                              /\ file'[c].on # Absent} = {}
    BY <1>1
  <1> QED BY <1>1, <1>2 DEF Gets, Reading, Writers

\* A step that opens nothing to write is nothing to the other clients.
LEMMA OthersUnmoved ==
  ASSUME Typed, Streams, AllGet, NEW c \in Clients,
         \A d \in Clients \ {c} : meant'[d] = meant[d],
         \E next : /\ Moved(c, next)
                   /\ want[c].method = "POST" => next.on \in {Absent, file[c].on}
  PROVE  \A d \in Clients \ {c} : Gets(d)'
  <1>1. PICK next : /\ Moved(c, next)
                    /\ want[c].method = "POST" => next.on \in {Absent, file[c].on}
    OBVIOUS
  <1> SUFFICES ASSUME NEW d \in Clients \ {c} PROVE Gets(d)'
    OBVIOUS
  <1>2. Gets(d) /\ c \in Clients \ {d} /\ meant'[d] = meant[d]
    BY DEF AllGet
  <1>3. want[c].method = "POST" /\ meant'[d].known /\ file[d].status = "none" =>
          next.on \in {Absent, file[c].on} \/ next.on # file[d].on
    BY <1>1
  <1> QED BY <1>1, <1>2, <1>3, OthersGet

\* A GET that opens the file is given what it should get.
LEMMA GetsOpenGet ==
  ASSUME Typed, Streams, StoreKept, AllGet, NEW c \in Clients, OpenGet(c)
  PROVE  AllGet'
  <1>1. /\ want[c].method = "GET" /\ UNCHANGED <<want, path, content>>
        /\ \E next : Moved(c, next)
        /\ \A d \in Clients \ {c} : meant'[d] = meant[d]
    BY OpenGetEffect DEF Typed
  <1>2. \A d \in Clients \ {c} : Gets(d)'
    BY <1>1, OthersUnmoved
  <1>3. CASE /\ \E next : Moved(c, next) /\ next.on = Absent /\ next.status = "404"
    <2>1. file'[c].status = "404"
      BY <1>3, MovedTyped
    <2> QED BY <2>1, <1>2 DEF Gets, AllGet
  <1>4. CASE /\ path # Absent
             /\ meant' = [meant EXCEPT ![c] = IF Writers(path) = {} THEN value ELSE Unknown]
             /\ \E next : /\ Moved(c, next) /\ next.on = path
                          /\ Reading(next, content[path], content[path])
    <2>1. PICK next : /\ Moved(c, next) /\ next.on = path
                      /\ Reading(next, content[path], content[path])
      BY <1>4
    <2>2. meant'[c] = IF Writers(path) = {} THEN value ELSE Unknown
      BY <1>4 DEF Typed
    <2>3. ASSUME meant'[c].known
          PROVE  /\ meant'[c].held = <<content[path]>>
                 /\ \A d \in Clients : want[d].method = "POST" => file[d].on # path
      <3>1. Writers(path) = {} /\ meant'[c] = value
        BY <2>2, <2>3 DEF Unknown
      <3>2. value.held = <<content[path]>>
        BY <1>4, <2>3, <3>1 DEF StoreKept
      <3> QED BY <1>4, <3>1, <3>2 DEF Writers
    <2>4. Gets(c)'
      BY <1>1, <1>4, <2>1, <2>3, ReaderGets
    <2> QED BY <1>2, <2>4 DEF AllGet
  <1> QED BY <1>3, <1>4, OpenGetEffect

\* A piece read leaves what is still to come.
LEMMA GetsGet ==
  ASSUME Typed, Streams, AllGet, NEW c \in Clients, Get(c)
  PROVE  AllGet'
  <1>1. /\ want[c].method \in {"GET", "LIST"} /\ UNCHANGED <<want, content, meant>>
        /\ file[c].on # Absent /\ file[c].status = "none"
    BY GetEffect DEF history, Absent
  <1>2. PICK next : /\ Moved(c, next) /\ next.on = file[c].on
                    /\ file[c].at <= Len(content[file[c].on]) =>
                         Reading(next, content[file[c].on], Coming(file[c], content[file[c].on]))
    BY GetEffect
  <1>3. want[c].method # "POST"
    BY <1>1
  <1>4. \A d \in Clients \ {c} : Gets(d)'
    BY <1>1, <1>2, <1>3, OthersUnmoved
  <1>5. ASSUME meant'[c].known
        PROVE  /\ meant'[c].held = <<Coming(file[c], content[file[c].on])>>
               /\ Reading(next, content'[next.on], Coming(file[c], content[file[c].on]))
               /\ \A d \in Clients : want[d].method = "POST" => file[d].on # next.on
    <2>1. /\ Writers(file[c].on) = {} /\ file[c].at <= Len(content[file[c].on])
          /\ meant[c].held = <<Coming(file[c], content[file[c].on])>>
      BY <1>1, <1>5 DEF AllGet, Gets
    <2> QED BY <1>1, <1>2, <2>1 DEF Writers
  <1>6. Gets(c)'
    BY <1>1, <1>2, <1>5, ReaderGets
  <1> QED BY <1>4, <1>6 DEF AllGet

\* A crash takes the streams of the requests under way with it.
LEMMA GetsRestart ==
  ASSUME Typed, Streams, AllGet, NEW lost, InFlight \subseteq lost, Restart(lost)
  PROVE  AllGet'
  <1>1. /\ UNCHANGED <<want, path, content, meant>>
        /\ \A c \in Clients : /\ file'[c].on = Absent
                              /\ file'[c] = file[c] \/ file'[c].status = "none"
    BY RestartEffect
  <1> SUFFICES ASSUME NEW c \in Clients PROVE Gets(c)'
    BY DEF AllGet
  <1>2. Gets(c)
    BY DEF AllGet
  <1> QED BY <1>1, <1>2 DEF Gets

\* A listing leaves the file alone, also when it ends the process.
LEMMA GetsListing ==
  ASSUME Typed, Streams, AllGet, NEW c \in Clients, OpenListing(c)
  PROVE  AllGet'
  <1>1. CASE Restart(InFlight \cup {c})
    BY <1>1, GetsRestart
  <1>2. CASE ~Restart(InFlight \cup {c})
    <2>1. /\ want[c].method = "LIST" /\ UNCHANGED want /\ \E next : Moved(c, next)
          /\ \A d \in Clients \ {c} : meant'[d] = meant[d]
      BY <1>2, OpenListingEffect DEF Typed
    <2>2. \A d \in Clients \ {c} : Gets(d)'
      BY <2>1, OthersUnmoved
    <2>3. CASE \E next : Moved(c, next) /\ next.on = Absent /\ next.status = "none"
      <3>1. file'[c].status = "none" /\ file'[c].on = Absent
        BY <2>3, MovedTyped
      <3> QED BY <2>2, <3>1 DEF Gets, AllGet
    <2>4. CASE \E dotsFirst \in BOOLEAN : \E next :
                 /\ content' = Append(content, Lines(dotsFirst))
                 /\ meant' = [meant EXCEPT ![c] =
                      IF dotsFirst THEN Holding(Lines(TRUE)) ELSE Unknown]
                 /\ Moved(c, next) /\ next.on = Len(content) + 1
                 /\ Reading(next, Lines(dotsFirst), Lines(dotsFirst))
      <3>0. PICK dotsFirst \in BOOLEAN : \E next :
                 /\ content' = Append(content, Lines(dotsFirst))
                 /\ meant' = [meant EXCEPT ![c] =
                      IF dotsFirst THEN Holding(Lines(TRUE)) ELSE Unknown]
                 /\ Moved(c, next) /\ next.on = Len(content) + 1
                 /\ Reading(next, Lines(dotsFirst), Lines(dotsFirst))
        BY <2>4
      <3>1. PICK next :
                 /\ content' = Append(content, Lines(dotsFirst))
                 /\ meant' = [meant EXCEPT ![c] =
                      IF dotsFirst THEN Holding(Lines(TRUE)) ELSE Unknown]
                 /\ Moved(c, next) /\ next.on = Len(content) + 1
                 /\ Reading(next, Lines(dotsFirst), Lines(dotsFirst))
        BY <3>0
      <3>2. content'[next.on] = Lines(dotsFirst) /\ Len(content) \in Nat
        BY <3>1, LinesType, AppendProperties, LenProperties DEF Typed
      <3>3. next.on # Absent
        BY <3>1, <3>2 DEF Absent
      <3>4. ASSUME NEW d \in Clients PROVE file[d].on # next.on
        <4>1. file[d].on \in Nat /\ file[d].on <= Len(content)
          BY ClientRecord DEF FileManagers, Stream
        <4> QED BY <3>1, <3>2, <4>1
      <3>5. meant'[c] = IF dotsFirst THEN Holding(Lines(TRUE)) ELSE Unknown
        BY <3>1 DEF Typed
      <3>6. meant'[c].known => meant'[c].held = <<Lines(dotsFirst)>>
        <4>1. CASE dotsFirst = TRUE
          <5>1. meant'[c] = Holding(Lines(TRUE))
            BY <3>5, <4>1
          <5>2. Lines(dotsFirst) = Lines(TRUE)
            BY Zenon, <4>1
          <5>3. Holding(Lines(TRUE)).held = <<Lines(TRUE)>>
            BY DEF Holding
          <5> QED BY <5>1, <5>2, <5>3
        <4>2. CASE dotsFirst = FALSE
          BY <3>5, <4>2 DEF Unknown
        <4> QED BY <4>1, <4>2
      <3>7. Gets(c)'
        BY <2>1, <3>1, <3>2, <3>3, <3>4, <3>6, ReaderGets
      <3> QED BY <2>2, <3>7 DEF AllGet
    <2> QED BY <1>2, <2>3, <2>4, OpenListingEffect
  <1> QED BY <1>1, <1>2

\* A POST that opens the file leaves unsaid what its readers should get.
LEMMA GetsOpenPost ==
  ASSUME Typed, Streams, AllGet, NEW c \in Clients, OpenPost(c)
  PROVE  AllGet'
  <1>1. want[c].method = "POST" /\ want' = want /\ file[c].on = Absent
    BY OpenPostEffect
  <1>2. Gets(c)'
    BY <1>1 DEF Gets
  <1>3. CASE /\ \E next : Moved(c, next) /\ next.on = Absent /\ next.status = "500"
             /\ UNCHANGED <<path, content, open, value, meant>>
    <2>1. \A d \in Clients \ {c} : Gets(d)'
      BY <1>3, OthersUnmoved
    <2> QED BY <1>2, <2>1 DEF AllGet
  <1>4. CASE ~ /\ \E next : Moved(c, next) /\ next.on = Absent /\ next.status = "500"
               /\ UNCHANGED <<path, content, open, value, meant>>
    <2>1. /\ Disturbed(c) /\ path' = IF path = Absent THEN Len(content) + 1 ELSE path
      BY <1>4, OpenPostEffect
    <2>2. PICK next : Moved(c, next) /\ next.on = path'
      BY <1>4, OpenPostEffect
    <2>3. ASSUME NEW d \in Clients \ {c} PROVE Gets(d)'
      <3>1. /\ meant'[d] = IF file[d].on = path /\ path # Absent /\ file[d].status = "none"
                           THEN Unknown ELSE meant[d]
        BY <2>1 DEF Disturbed
      <3>2. meant'[d].known => meant'[d] = meant[d]
        BY <3>1 DEF Unknown
      <3>3. ASSUME meant'[d].known, file[d].status = "none" PROVE next.on # file[d].on
        <4>1. CASE path = Absent
          <5>1. file[d].on <= Len(content) /\ file[d].on \in Nat /\ Len(content) \in Nat
            BY ClientRecord, LenProperties DEF Stream, FileManagers, Typed
          <5> QED BY <2>1, <2>2, <4>1, <5>1
        <4>2. CASE path # Absent
          BY <2>1, <2>2, <3>1, <3>3, <4>2 DEF Unknown
        <4> QED BY <4>1, <4>2
      <3>4. Gets(d) /\ c \in Clients \ {d}
        BY DEF AllGet
      <3> QED BY <2>2, <3>2, <3>3, <3>4, OthersGet
    <2> QED BY <1>2, <2>3 DEF AllGet
  <1> QED BY <1>3, <1>4

\* A further piece of a POST, or a DELETE.
LEMMA GetsWrite ==
  ASSUME Typed, Streams, AllGet, NEW c \in Clients, Post(c) \/ Delete(c)
  PROVE  AllGet'
  <1>1. /\ want[c].method \notin {"GET", "LIST"} /\ want' = want /\ meant' = meant
        /\ \E next : Moved(c, next) /\ next.on \in {Absent, file[c].on}
    <2>1. CASE Post(c)
      BY <2>1, PostEffect DEF history
    <2>2. CASE Delete(c)
      BY <2>2, DeleteEffect
    <2> QED BY <2>1, <2>2
  <1>2. \A d \in Clients \ {c} : Gets(d)'
    BY <1>1, OthersUnmoved
  <1>3. Gets(c)'
    BY <1>1 DEF Gets
  <1> QED BY <1>2, <1>3 DEF AllGet

\* An answer completed is no longer under way.
LEMMA GetsAnswer ==
  ASSUME Typed, Streams, AllGet, NEW c \in Clients, Answer(c)
  PROVE  AllGet'
  <1>1. want' = want /\ meant' = meant
    BY DEF Answer, history
  <1>2. PICK next : /\ Moved(c, next) /\ next.on = Absent
                    /\ next.got = file[c].got /\ next.status = file[c].status
    BY AnswerMoved
  <1>3. \A d \in Clients \ {c} : Gets(d)'
    BY <1>1, <1>2, OthersUnmoved
  <1>4. file'[c] = next
    BY <1>2, MovedTyped
  <1>5. Gets(c)'
    BY <1>1, <1>2, <1>4 DEF Gets, AllGet
  <1> QED BY <1>3, <1>5 DEF AllGet

\* Every step keeps what is said of the GETs.
LEMMA GetsNext == Typed /\ Streams /\ StoreKept /\ AllGet /\ [Next]_vars => AllGet'
  <1> SUFFICES ASSUME Typed, Streams, StoreKept, AllGet, [Next]_vars PROVE AllGet'
    OBVIOUS
  <1>1. CASE Crash
    BY <1>1, GetsRestart DEF Crash
  <1>2. CASE \E c \in Clients : Visit(c)
    <2>1. PICK c \in Clients : Visit(c)
      BY <1>2
    <2> QED BY <2>1, GetsOpenGet, GetsGet, GetsListing, GetsOpenPost, GetsWrite, GetsAnswer
            DEF Visit
  <1>3. CASE UNCHANGED vars
    BY <1>3 DEF vars, store, history, AllGet, Gets, Writers, Coming, Unread
  <1> QED BY <1>1, <1>2, <1>3 DEF Next

\* A GET returns what the file held when it was opened, whatever is removed and
\* created meanwhile, unless a POST opens that file before it is through; and a
\* listing what was in the directory, if it skipped the right entries: for files
\* and read buffers of any size.
THEOREM ReadsRight == Spec => []ReadIsRight
  <1>1. Init => AllGet
    BY DEF Init, AllGet, Gets, Unknown
  <1>2. Typed /\ Streams /\ AllGet => ReadIsRight
    <2> SUFFICES ASSUME Typed, Streams, AllGet, NEW c \in Clients,
                        file[c].status = "200", meant[c].known
                 PROVE  meant[c].held = <<file[c].got>>
      BY DEF ReadIsRight
    <2>1. want[c].method \in {"GET", "LIST"}
      BY ClientRecord DEF Stream
    <2> QED BY <2>1 DEF AllGet, Gets
  <1> QED BY <1>1, <1>2, GetsNext, StoreAlways, TypedAlways, PTL DEF Spec
=============================================================================
