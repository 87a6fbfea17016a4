------------------------------ MODULE FileStore ------------------------------
(***************************************************************************)
(* One file, and the directory it is in, under GET, POST and DELETE: the   *)
(* FileManager of every client, with AutoIndexGenerator, against the file  *)
(* system.  A stream reads ahead and writes late, a file that is removed   *)
(* lives on for the streams that have it open, and a POST empties the file *)
(* it opens at once but fills it visit by visit.                           *)
(*                                                                         *)
(* Contents are counted in pieces of one visit (BUFFER_SIZE bytes); every  *)
(* piece a client posts carries its name.                                  *)
(***************************************************************************)
EXTENDS Integers, Sequences, FiniteSets

CONSTANTS
  Clients,    \* clients, each with one request for the file
  Old, Hole,  \* pieces that were there at first, that nobody wrote
  Page, Name, \* pieces of a listing: the page, and the line of the file
  MaxPieces,  \* pieces a body or the first content has, at most
  ReadAhead,  \* pieces a stream fetches at once
  WriteBack,  \* pieces a stream keeps before it writes
  MaxOpen     \* descriptors the process has for files and directories

ASSUME PiecesAssumption == MaxPieces \in Nat \ {0} /\ ReadAhead \in Nat \ {0} /\ WriteBack \in Nat
ASSUME OpenAssumption == MaxOpen \in Nat
ASSUME ClientsAssumption == IsFiniteSet(Clients)
ASSUME MarksAssumption == {Old, Hole, Page, Name} \cap Clients = {}

VARIABLES
  want,     \* what each client asks for: its method and body
  path,     \* the file the name stands for, or Absent
  content,  \* what the files hold, also those that were removed
  file,     \* the FileManager of each client, with its stream
  open,     \* descriptors open for files and directories
  value,    \* history: what the name should hold
  meant,    \* history: what each GET should return
  listings  \* history: directories read since the process was started

store == <<path, content>>
history == <<value, meant, listings>>
vars == <<want, store, file, open, history>>

Absent == 0

\* What is expected: this content, no file, or (requests having been mixed)
\* nothing in particular.
Holding(x) == [known |-> TRUE, held |-> <<x>>]
Nothing == [known |-> TRUE, held |-> <<>>]
Unknown == [known |-> FALSE, held |-> <<>>]

Pieces == Clients \cup {Old, Hole, Page, Name}
Body(mark, n) == [k \in 1 .. n |-> mark]

\* A stream: the file it has open, how far it has read or written there, what it
\* has fetched or keeps; what has been read, and how much of the body is given.
Closed == [phase |-> "idle", on |-> Absent, at |-> 0, kept |-> <<>>, got |-> <<>>,
           given |-> 0, status |-> "none"]

\* Clients whose stream writes to that file.
Writers(f) ==
  {c \in Clients : want[c].method = "POST" /\ file[c].on = f /\ f # Absent}

-----------------------------------------------------------------------------
\* What a write of those pieces behind the first n makes of a content.
Overwritten(old, n, pieces) ==
  LET length == IF n + Len(pieces) > Len(old) THEN n + Len(pieces) ELSE Len(old)
  IN  [k \in 1 .. (IF pieces = <<>> THEN Len(old) ELSE length) |->
         CASE k > n /\ k <= n + Len(pieces) -> pieces[k - n]
           [] k <= n /\ k > Len(old)        -> Hole
           [] OTHER                         -> old[k]]

AtEndOfFile(whole, n, kept) == n >= Len(whole)

\* Nothing is left to read in the stream.
AtEnd(whole, n, kept) == kept = <<>> /\ n >= Len(whole)

Refuse(c, status) ==
  /\ file' = [file EXCEPT ![c].phase = "Sending", ![c].status = status]
  /\ UNCHANGED <<store, open>>

\* manageGet, of the stream that has file f of these files open: one piece a
\* visit.  The last piece may be a short one, with which the end is seen; else it
\* takes another read.
ReadPiece(c, f, files) ==
  LET from == file[c].at
      upto == IF from + ReadAhead < Len(files[f]) THEN from + ReadAhead ELSE Len(files[f])
      more == IF file[c].kept = <<>> THEN SubSeq(files[f], from + 1, upto) ELSE <<>>
      now  == file[c].kept \o more
      rest == IF now = <<>> THEN <<>> ELSE Tail(now)
      next == [file[c] EXCEPT !.on = f, !.at = from + Len(more), !.kept = rest,
                 !.got = IF now = <<>> THEN @ ELSE Append(@, Head(now))]
  IN  \E p \in {"Loading", "Sending"} :
        /\ now = <<>> => p = "Sending"
        /\ now # <<>> /\ ~AtEnd(files[f], next.at, rest) => p = "Loading"
        /\ content' = files
        /\ file' = [file EXCEPT ![c] =
             [next EXCEPT !.phase = p, !.status = IF p = "Sending" THEN "200" ELSE @]]

\* openGetFile, for the file: one that is not there, or for which no descriptor
\* is left, is not found.
OpenGet(c) ==
  /\ want[c].method = "GET" /\ file[c].phase = "idle"
  /\ \/ (path = Absent \/ open >= MaxOpen) /\ Refuse(c, "404") /\ UNCHANGED meant
     \/ /\ path # Absent /\ open < MaxOpen
        /\ ReadPiece(c, path, content)
        /\ open' = open + 1
        /\ meant' = [meant EXCEPT ![c] = IF Writers(path) = {} THEN value ELSE Unknown]
  /\ UNCHANGED <<want, path, value, listings>>

\* Clients in the middle of their request.
InFlight == {c \in Clients : file[c].phase \in {"Loading", "Sending"}}

\* The process ends, at the expense of these clients, and is started again: no
\* stream is flushed, the files stay.
Restart(lost) ==
  /\ file' = [c \in Clients |-> IF c \in lost THEN [Closed EXCEPT !.phase = "lost"] ELSE file[c]]
  /\ value' = IF Writers(path) = {} THEN value ELSE Unknown
  /\ open' = 0 /\ listings' = 0
  /\ UNCHANGED <<want, store, meant>>

\* The lines of a listing: two entries of the directory are skipped, which need
\* not be the dots.
Lines(dotsFirst) == IF path # Absent /\ dotsFirst THEN <<Page, Name>> ELSE <<Page>>

\* openGetFile, for the directory: OpenAutoIndex reads it, never closes it, and
\* returns a stream on a file it has written and removed.  Without a descriptor
\* for the directory the process ends.  Without one for the file the stream is
\* not open, nothing is read, and the next visit makes the listing again.
OpenListing(c) ==
  /\ want[c].method = "LIST" /\ file[c].on = Absent
  /\ file[c].phase \in {"idle", "Loading"}
  /\ \/ open >= MaxOpen /\ Restart(InFlight \cup {c})
     \/ /\ open < MaxOpen /\ listings' = listings + 1
        /\ \/ /\ open + 1 >= MaxOpen /\ open' = open + 1
              /\ file' = [file EXCEPT ![c].phase = "Loading"]
              /\ UNCHANGED <<store, meant>>
           \/ /\ open + 1 < MaxOpen /\ open' = open + 2
              /\ \E dotsFirst \in BOOLEAN :
                   /\ ReadPiece(c, Len(content) + 1, Append(content, Lines(dotsFirst)))
                   /\ meant' = [meant EXCEPT ![c] =
                        IF dotsFirst THEN Holding(Lines(TRUE)) ELSE Unknown]
              /\ UNCHANGED path
        /\ UNCHANGED <<want, value>>

\* A further visit of a GET.
Get(c) ==
  /\ want[c].method \in {"GET", "LIST"} /\ file[c].phase = "Loading" /\ file[c].on # Absent
  /\ ReadPiece(c, file[c].on, content)
  /\ UNCHANGED <<want, path, open, history>>

EmptiedNever(old) == old

\* What opening a file to write leaves of it (std::ios::trunc).
Emptied(old) == <<>>

TooMuchByOne(n) == n > WriteBack + 1

\* A stream that keeps more than that writes all it keeps.
TooMuch(n) == n > WriteBack

AllGivenLate(c, given) == given > Len(want[c].body)

\* The whole body has been given to the stream.
AllGiven(c, given) == given = Len(want[c].body)

\* What opening the file to write makes of the history: readers of the file, and
\* another writer of it, are disturbed.
Disturbed(c) ==
  /\ value' = IF Writers(path) = {} THEN Holding(want[c].body) ELSE Unknown
  /\ meant' = [d \in Clients |->
                 IF file[d].on = path /\ path # Absent /\ file[d].status = "none"
                 THEN Unknown ELSE meant[d]]

\* managePost, of the stream that has file f of these files open: one piece a
\* visit goes to the stream, which writes what it keeps when that is too much.
WritePiece(c, f, files) ==
  LET left  == file[c].given < Len(want[c].body)
      given == IF left THEN file[c].given + 1 ELSE file[c].given
      kept  == IF left THEN Append(file[c].kept, want[c].body[given]) ELSE file[c].kept
      full  == TooMuch(Len(kept))
      done  == AllGiven(c, given)
  IN  /\ content' = IF full THEN [files EXCEPT ![f] = Overwritten(@, file[c].at, kept)]
                     ELSE files
      /\ file' = [file EXCEPT ![c] =
           [file[c] EXCEPT !.phase = IF done THEN "Sending" ELSE "Loading", !.on = f,
              !.at = IF full THEN @ + Len(kept) ELSE @, !.kept = IF full THEN <<>> ELSE kept,
              !.given = given, !.status = IF done THEN "stored" ELSE @]]

\* openPostFile: a file that is there is emptied, one that is not is created.
OpenPost(c) ==
  /\ want[c].method = "POST" /\ file[c].phase = "idle"
  /\ \/ open >= MaxOpen /\ Refuse(c, "500") /\ UNCHANGED <<value, meant>>
     \/ /\ open < MaxOpen /\ open' = open + 1
        /\ Disturbed(c)
        /\ IF path = Absent
           THEN /\ path' = Len(content) + 1
                /\ WritePiece(c, path', Append(content, <<>>))
           ELSE /\ path' = path
                /\ WritePiece(c, path, [content EXCEPT ![path] = Emptied(@)])
  /\ UNCHANGED <<want, listings>>

\* A further visit of a POST.
Post(c) ==
  /\ want[c].method = "POST" /\ file[c].phase = "Loading"
  /\ WritePiece(c, file[c].on, content)
  /\ UNCHANGED <<want, path, open, history>>

\* manageDelete: the name goes; the file stays for the streams that have it open.
Delete(c) ==
  /\ want[c].method = "DELETE" /\ file[c].phase = "idle"
  /\ file' = [file EXCEPT ![c].phase = "Sending",
                          ![c].status = IF path = Absent THEN "404" ELSE "204"]
  /\ path' = Absent
  /\ value' = Nothing
  /\ UNCHANGED <<want, content, open, meant, listings>>

\* The descriptors the end of a client closes: that of its stream.
ClosedByNone(c) == 0

ClosedBy(c) == IF file[c].on = Absent THEN 0 ELSE 1

\* The last write of the response, and in the same visit the end of the client:
\* its stream writes what it keeps and is closed.
Answer(c) ==
  /\ file[c].phase = "Sending"
  /\ content' = IF want[c].method = "POST" /\ file[c].on # Absent
                THEN [content EXCEPT ![file[c].on] = Overwritten(@, file[c].at, file[c].kept)]
                ELSE content
  /\ file' = [file EXCEPT ![c] = [Closed EXCEPT !.phase = "answered", !.got = file[c].got,
                                                !.status = file[c].status]]
  /\ open' = open - ClosedBy(c)
  /\ UNCHANGED <<want, path, history>>

\* Another client's request, or a signal, ends the process.
Crash == InFlight # {} /\ Restart(InFlight)

Init ==
  /\ \E method \in [Clients -> {"GET", "LIST", "POST", "DELETE"}], size \in [Clients -> 0 .. MaxPieces] :
       want = [c \in Clients |->
                 [method |-> method[c],
                  body |-> IF method[c] = "POST" THEN Body(c, size[c]) ELSE <<>>]]
  /\ \/ path = Absent /\ content = <<>> /\ value = Nothing
     \/ \E n \in 0 .. MaxPieces : /\ path = 1 /\ content = <<Body(Old, n)>>
                                  /\ value = Holding(Body(Old, n))
  /\ file = [c \in Clients |-> Closed]
  /\ meant = [c \in Clients |-> Unknown]
  /\ open = 0 /\ listings = 0

Visit(c) ==
  \/ OpenGet(c) \/ OpenListing(c) \/ Get(c) \/ OpenPost(c) \/ Post(c)
  \/ Delete(c) \/ Answer(c)

Next == Crash \/ \E c \in Clients : Visit(c)

Spec == Init /\ [][Next]_vars

\* Every client that is asked for room to write is visited in the end.
FairSpec == Spec /\ \A c \in Clients : WF_vars(Visit(c))

-----------------------------------------------------------------------------
\* Every variable has its type, and a stream keeps no more than it has room for.
TypeOK ==
  /\ path \in 0 .. Len(content)
  /\ \A f \in DOMAIN content : \A k \in DOMAIN content[f] : content[f][k] \in Pieces
  /\ \A c \in Clients :
       /\ file[c].phase \in {"idle", "Loading", "Sending", "answered", "lost"}
       /\ file[c].on \in 0 .. Len(content) /\ file[c].at \in Nat
       /\ file[c].given \in 0 .. Len(want[c].body)
       /\ Len(file[c].kept) <= (IF want[c].method = "POST" THEN WriteBack ELSE ReadAhead - 1)

\* A file is what the last request made of it, as soon as no stream writes to it:
\* exactly the body of the last POST, if no other POST had it open meanwhile, and
\* gone after a DELETE.  Streams of removed files, readers, and a crash of the
\* server while nobody writes the file make no difference.
StoreIsRight ==
  value.known /\ Writers(path) = {} =>
    IF value.held = <<>> THEN path = Absent
    ELSE path # Absent /\ content[path] = Head(value.held)

\* A GET returns what the file held when it was opened, whatever is removed and
\* created meanwhile, unless a POST opens that file before the GET is through; a
\* listing names the file if it was there, unless its entry was one of the two
\* that are skipped.
ReadIsRight ==
  \A c \in Clients :
    file[c].status = "200" /\ meant[c].known => meant[c].held = <<file[c].got>>

\* Every descriptor opened for a file is closed when its client ends; only those
\* of the directories listed are not, and they are never closed.
OnlyListingsLeak ==
  LET streams == {c \in Clients : file[c].on # Absent}
  IN  open = Cardinality(streams) + listings

\* Every request begun is answered, unless the process ends; nothing others do
\* to the file keeps a stream from coming to its end.
Answered ==
  \A c \in Clients : file[c].phase = "Loading" ~> file[c].phase \in {"answered", "lost"}
=============================================================================
