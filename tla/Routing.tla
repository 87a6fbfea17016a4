------------------------------- MODULE Routing -------------------------------
(***************************************************************************)
(* Which file or script a request means: server blocks grouped by address  *)
(* (ConfigParser::sortServerSettings), the block of a group by host name,  *)
(* the location of a block by its path, and what the location makes of the *)
(* target.                                                                 *)
(*                                                                         *)
(* Paths, targets and roots are sequences of words and slashes, a word     *)
(* standing for one character; addresses are numbers in the order std::set *)
(* keeps them.  A block is a record of                                     *)
(* listen, names, root, limit and places (its locations in order); a       *)
(* location one of path, alias, index, methods, cgi, redirect, autoindex.  *)
(***************************************************************************)
EXTENDS Integers, FiniteSets, SequencesExt

CONSTANTS
  Scripts  \* the words that end in .py

Empty == <<>>

\* An unset client_max_body_size.
NoLimit == -1

\* What the constructors make of a location and of a server block: no path and no
\* root is empty.
Locations ==
  [path : Seq(STRING) \ {Empty}, alias : Seq(STRING), index : Seq(STRING),
   methods : SUBSET STRING, cgi : BOOLEAN, redirect : Seq(STRING), autoindex : BOOLEAN]

Blocks ==
  [listen : Nat, names : SUBSET Seq(STRING), root : Seq(STRING) \ {Empty},
   limit : Nat \cup {NoLimit}, places : Seq(Locations)]

\* A ServerSettings nothing was assigned to.
NoBlock == [listen |-> 0, names |-> {}, root |-> Empty, limit |-> NoLimit, places |-> Empty]

-----------------------------------------------------------------------------
\* The position of a in the sorted set S.
Rank(a, S) == Cardinality({b \in S : b <= a})

\* One turn of sortServerSettings: a new address opens a group at the end; a
\* block of a known one goes to the group at that address's place in the set.
Put(sorted, block) ==
  IF block.listen \notin sorted.hpset
  THEN [hpset |-> sorted.hpset \cup {block.listen},
        groups |-> Append(sorted.groups, <<block>>)]
  ELSE LET at == Rank(block.listen, sorted.hpset)
       IN  [sorted EXCEPT !.groups[at] = Append(sorted.groups[at], block)]

SortServerSettings(blocks) ==
  FoldLeft(Put, [hpset |-> {}, groups |-> Empty], blocks).groups

\* resolveServerSetting: the first block of that name, else the first.
ResolveServerSetting(group, host) ==
  LET named == {k \in DOMAIN group : host \in group[k].names}
  IN  group[IF named = {} THEN 1 ELSE Min(named)]

-----------------------------------------------------------------------------
LaterLocation(target, found, place) ==
  IF IsPrefix(place.path, target) THEN <<place>> ELSE found

\* One turn of resolveLocation; found holds the location so far, if any.
LongerLocation(target, found, place) ==
  IF /\ IsPrefix(place.path, target)
     /\ found # Empty => Len(place.path) > Len(Head(found).path)
  THEN <<place>> ELSE found

ResolveLocation(places, target) ==
  FoldLeft(LAMBDA found, place : LongerLocation(target, found, place), Empty, places)

ResolveMethod(place, method) == method \in place.methods

ResolveAlias(place, target) ==
  IF place.alias = Empty THEN target
  ELSE place.alias \o SubSeq(target, Len(place.path) + 1, Len(target))

\* What a request comes to: how it ends, and the path of what is served.
Outcome(how, path) == [how |-> how, path |-> path]

\* A target that ends in a slash: the index, a listing, or neither.
Directory(place, path) ==
  CASE place.index # Empty                     -> Outcome("file", path \o place.index)
    [] place.index = Empty /\ place.autoindex  -> Outcome("listing", path)
    [] place.index = Empty /\ ~place.autoindex -> Outcome("401", Empty)

\* resolveRequestTarget.  The query, if there is one, is part of the target; the
\* root loses its first character (and throws if it has none).
ResolveRequestTarget(block, target) ==
  LET found == ResolveLocation(block.places, target)
      place == Head(found)
      path  == Tail(block.root) \o ResolveAlias(place, target)
  IN  IF found = Empty \/ block.root = Empty THEN Outcome("aborted", Empty)
      ELSE CASE place.redirect # Empty                       -> Outcome("302", place.redirect)
             [] place.redirect = Empty /\ Last(target) # "/" -> Outcome("file", path)
             [] place.redirect = Empty /\ Last(target) = "/" -> Directory(place, path)

\* parseURIForCGI: the target up to its first .py word is the script.  More than
\* one character after it must hold a question mark, or substr throws.
ParseURIForCGI(target) ==
  LET found == {p \in DOMAIN target : target[p] \in Scripts}
      end   == CHOOSE p \in found : \A q \in found : p <= q
  IN  CASE found = {} -> Outcome("no script", Empty)
        [] found # {} /\ Len(target) > end + 1
             /\ \A q \in end + 1 .. Len(target) : target[q] # "?" -> Outcome("aborted", Empty)
        [] OTHER -> Outcome("script", SubSeq(target, 2, end))
=============================================================================
