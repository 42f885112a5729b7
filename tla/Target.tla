-------------------------------- MODULE Target --------------------------------
(***************************************************************************)
(* Which file a GET request is answered with, and as which type: the       *)
(* beginning of Worker::send_file (src/Http.cpp) and Util::mime_type       *)
(* (src/Util.cpp).  A name is a sequence of characters, of which the code  *)
(* tells "/", ".", "?" and NUL apart, and letters in extensions.           *)
(***************************************************************************)
EXTENDS Naturals, Sequences, SequencesExt

CONSTANTS
    IndexName,      \* "index.html"
    TypeOf,         \* the table: from extensions, without their dots, to types
    Lower           \* the lower case of a letter, for iequals

Extensions == DOMAIN TypeOf

Default == "application/text"

Nul == "nul"

VARIABLES
    target,     \* the target of the request
    hasRoot,    \* the worker was given a document root
    status,     \* "asked", "ok" or "not_found"
    path,       \* the file sent, below the document root
    type        \* its Content-Type

From(s, i) == SubSeq(s, i, Len(s))

HasPart(s, sub) == \E i \in 1..Len(s) : IsPrefix(sub, From(s, i))

\* What is before the first c.
Before(s, c) ==
    LET marks == {i \in 1..Len(s) : s[i] = c}
    IN  IF marks = {} THEN s ELSE SubSeq(s, 1, (CHOOSE i \in marks : \A j \in marks : i <= j) - 1)

\* Slip: ".." is looked for only between two slashes.
IsBadBetweenSlashes(t) == t = <<>> \/ t[1] # "/" \/ HasPart(t, <<"/", ".", ".", "/">>)

\* "Request path must be absolute and not contain '..'."
IsBad(t) == t = <<>> \/ t[1] # "/" \/ HasPart(t, <<".", ".">>)

\* targetBase: the target without its query, and the index file of a directory.
Base(t) ==
    LET b == Before(t, "?") IN IF Last(b) = "/" THEN b \o IndexName ELSE b

\* The name the system gets from c_str().
Opened(p) == Before(p, Nul)

LowerCase(s) == [i \in 1..Len(s) |-> IF s[i] \in DOMAIN Lower THEN Lower[s[i]] ELSE s[i]]

\* Slip: the extension begins at the first dot.
ExtensionByFirstDot(p) ==
    LET dots == {i \in 1..Len(p) : p[i] = "."}
    IN  IF dots = {} THEN <<>>
        ELSE LowerCase(From(p, (CHOOSE i \in dots : \A j \in dots : i <= j) + 1))

\* What follows the last dot of the whole path, in any case.
ExtensionOf(p) ==
    LET dots == {i \in 1..Len(p) : p[i] = "."}
    IN  IF dots = {} THEN <<>>
        ELSE LowerCase(From(p, (CHOOSE i \in dots : \A j \in dots : j <= i) + 1))

MimeType(p) ==
    IF ExtensionOf(p) \in Extensions THEN TypeOf[ExtensionOf(p)] ELSE Default

\* Without a document root full_path is empty and cannot be opened; with one
\* the file may be there or not.
NotFound ==
    /\ status' = "not_found"
    /\ UNCHANGED <<target, hasRoot, path, type>>

Found ==
    /\ ~IsBad(target) /\ hasRoot
    /\ status' = "ok"
    /\ path' = Opened(Base(target))
    /\ type' = MimeType(Base(target))
    /\ UNCHANGED <<target, hasRoot>>

SendFile == status = "asked" /\ (Found \/ NotFound)

Init == status = "asked" /\ path = <<>> /\ type = Default

-----------------------------------------------------------------------------
(* Properties.                                                             *)

TypeOK ==
    /\ hasRoot \in BOOLEAN
    /\ status \in {"asked", "ok", "not_found"}
    /\ type \in {TypeOf[e] : e \in Extensions} \cup {Default}
    /\ status = "ok" <=> path # <<>>

\* The segments of a path that begins with "/", each at its slash.
Segments(p) ==
    LET slashes == {i \in 1..Len(p) : p[i] = "/"}
    IN  [i \in slashes |-> Before(From(p, i + 1), "/")]

\* The file system's walk along a path: how deep below its beginning it is.
Depth(p) ==
    LET d[i \in 0..Len(p)] ==
          IF i = 0 THEN 0
          ELSE IF i \notin DOMAIN Segments(p) THEN d[i - 1]
          ELSE CASE Segments(p)[i] \in {<<>>, <<".">>} -> d[i - 1]
                 [] Segments(p)[i] = <<".", ".">> -> d[i - 1] - 1
                 [] OTHER -> d[i - 1] + 1
    IN  d

\* The last segment.
FileName(p) == Segments(p)[CHOOSE i \in DOMAIN Segments(p) : \A j \in DOMAIN Segments(p) : j <= i]

\* The walk along a file that is sent never leaves the document root, and ends
\* at a name.  A NUL in the target hides the index file from the system.
IsBelowRoot ==
    /\ \A i \in 1..Len(path) : Depth(path)[i] >= 0
    /\ path[1] = "/"
    /\ Contains(target, Nul) \/ FileName(path) # <<>>

\* The type is that of the file's own extension, whatever dots its directories
\* have; a NUL in the target hides the extension from the table.
IsTypeOfFile ==
    LET known == {e \in Extensions : IsSuffix(<<".">> \o e, LowerCase(FileName(path)))}
    IN  Contains(target, Nul) \/ type \in (IF known = {} THEN {Default} ELSE {TypeOf[e] : e \in known})
===============================================================================
