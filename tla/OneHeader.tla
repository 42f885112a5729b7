------------------------------- MODULE OneHeader -------------------------------
(***************************************************************************)
(* contrib/OneHeader: a header that includes others is turned into one     *)
(* file.  A first pass over it collects the names of its include           *)
(* directives; then every included file is copied without its own          *)
(* directives.  Both passes read a file in chunks and scan what they have: *)
(* a directive may be cut anywhere by the end of a chunk.                  *)
(***************************************************************************)
EXTENDS Naturals, Sequences, SequencesExt

CONSTANTS
    Characters, \* what a text is made of
    Token,      \* what a directive begins with, up to its first quote
    Quote,      \* the character that ends a directive
    Keep,       \* how much of a text without a directive is kept: 20
    Worlds,     \* the input file's text and the files there are by their names
    Chunks      \* the sizes a chunk may have: 4096

\* The token ends in a quote; what is kept can hold all of it but its last character.
ASSUME TokenAssumption ==
    Token \in Seq(Characters) /\ Len(Token) > 0 /\ Token[Len(Token)] = Quote
ASSUME KeepAssumption == Keep \in Nat /\ Keep >= Len(Token) - 1
ASSUME ChunksAssumption == Chunks \subseteq Nat \ {0}
ASSUME WorldsAssumption ==
    \A world \in Worlds :
        /\ world.input \in Seq(Characters)
        /\ \A name \in DOMAIN world.disk : world.disk[name] \in Seq(Characters)

VARIABLES
    stage,      \* of main(): "open", "collect", "next", "copy", "end"
    input,      \* the text of the input file
    disk,       \* the other files, by their names; a name of a directory is left out
    chunk,      \* the size of a chunk in this run
    text,       \* the text of the file being scanned
    pos,        \* how much of it has been read
    buffer,     \* streamBuffer
    includes,   \* includeList
    next,       \* the place in it of the next file to copy
    output      \* the output file: its characters, and Separator after a file

vars == <<stage, input, disk, chunk, text, pos, buffer, includes, next, output>>

Separator == "separator"

\* What the output file had before.
Old == <<"old">>

ASSUME OutputAssumption == {Separator, Old[1]} \cap Characters = {}

-----------------------------------------------------------------------------
(* The scan of a buffer, in both passes.                                   *)

\* string::find in what is left of s when all before place k is erased: the
\* first place of sub, or 0.
Find(s, sub, k) ==
    LET at == {i \in k..(Len(s) - Len(sub) + 1) : SubSeq(s, i, i + Len(sub) - 1) = sub}
    IN  IF at = {} THEN 0 ELSE Min(at)

From(s, i) == SubSeq(s, i, Len(s))

\* Slip: one character too few is kept, the token may have begun before.
CutTooMuch(n) == IF n > Len(Token) - 2 THEN n - (Len(Token) - 2) ELSE 0

\* How much of n characters without a directive is done with; the rest "may have
\* ended in the middle of the token".
Cut(n) == IF n > Keep THEN n - Keep ELSE 0

\* The loop, with all before place k erased: the text before a directive is
\* plain, its name runs to the next quote; a directive that has no end yet stays in
\* the buffer.
Scan(s) ==
    LET Loop[k \in 1..(Len(s) + 1)] ==
          LET start == Find(s, Token, k)
              name  == start + Len(Token)
              end   == Find(s, <<Quote>>, name)
              after == Loop[end + 1]
              kept  == IF start = 0 THEN k + Cut(Len(s) - k + 1) ELSE start
          IN  IF start = 0 \/ end = 0
                THEN [plain |-> SubSeq(s, k, kept - 1), names |-> <<>>, buffer |-> From(s, kept)]
                ELSE [plain  |-> SubSeq(s, k, start - 1) \o after.plain,
                      names  |-> <<SubSeq(s, name, end - 1)>> \o after.names,
                      buffer |-> after.buffer]
    IN  Loop[1]

\* The callbacks of the two passes: the names and what stays in the buffer; what
\* is written and what stays.
StreamBufferHandle(s, final) ==
    [names |-> Scan(s).names, buffer |-> IF final THEN <<>> ELSE Scan(s).buffer]

\* Slip: what is left at the end is not written.
CopyDropsRest(s, final) ==
    [written |-> Scan(s).plain, buffer |-> IF final THEN <<>> ELSE Scan(s).buffer]

CopyBufferHandle(s, final) ==
    [written |-> Scan(s).plain \o (IF final THEN Scan(s).buffer ELSE <<>>),
     buffer  |-> IF final THEN <<>> ELSE Scan(s).buffer]

-----------------------------------------------------------------------------
(* scanStream.                                                             *)

Begin(t) == text' = t /\ pos' = 0 /\ buffer' = <<>>

\* The last chunk is what is left of the file.
ReadSize == IF pos + chunk > Len(text) THEN Len(text) - pos ELSE chunk

\* One round of the loop appends a chunk to the buffer.
MoreToRead == pos < Len(text)
Appended == buffer \o SubSeq(text, pos + 1, pos + ReadSize)
\* Slip: a whole chunk is counted, whatever was left to read.
AdvanceByChunk == pos' = pos + chunk

Advance == pos' = pos + ReadSize

-----------------------------------------------------------------------------
(* main().                                                                 *)

\* Both files are opened, and the output truncated, before either is tested.
Open ==
    /\ stage = "open"
    /\ \/ output' = <<>> /\ stage' = "collect" /\ Begin(input)
       \/ output' \in {<<>>, output} /\ stage' = "end" /\ UNCHANGED <<text, pos, buffer>>
    /\ UNCHANGED <<input, disk, chunk, includes, next>>

Collect ==
    /\ stage = "collect"
    /\ LET done == StreamBufferHandle(IF MoreToRead THEN Appended ELSE buffer, ~MoreToRead)
       IN  includes' = includes \o done.names /\ buffer' = done.buffer
    /\ IF MoreToRead THEN Advance /\ UNCHANGED stage
                     ELSE stage' = "next" /\ UNCHANGED pos
    /\ UNCHANGED <<input, disk, chunk, text, next, output>>

\* Slip: the first file that is missing ends the loop.
StopAtMissing == next' = Len(includes) + 1 /\ UNCHANGED <<stage, text, pos, buffer>>

PassOver == next' = next + 1 /\ UNCHANGED <<stage, text, pos, buffer>>

\* The next file in the list is opened; one that is missing is passed over.
OpenNext ==
    /\ stage = "next" /\ next <= Len(includes)
    /\ \/ /\ includes[next] \in DOMAIN disk
          /\ stage' = "copy" /\ next' = next + 1 /\ Begin(disk[includes[next]])
       \/ /\ includes[next] \notin DOMAIN disk
          /\ PassOver
    /\ UNCHANGED <<input, disk, chunk, includes, output>>

\* The separator is written after the rest of the file.
Copy ==
    /\ stage = "copy"
    /\ LET done == CopyBufferHandle(IF MoreToRead THEN Appended ELSE buffer, ~MoreToRead)
       IN  /\ output' = output \o done.written \o (IF MoreToRead THEN <<>> ELSE <<Separator>>)
           /\ buffer' = done.buffer
    /\ IF MoreToRead THEN Advance /\ UNCHANGED stage
                     ELSE stage' = "next" /\ UNCHANGED pos
    /\ UNCHANGED <<input, disk, chunk, text, includes, next>>

Close ==
    /\ stage = "next" /\ next > Len(includes)
    /\ stage' = "end"
    /\ UNCHANGED <<input, disk, chunk, text, pos, buffer, includes, next, output>>

Init ==
    /\ \E world \in Worlds : input = world.input /\ disk = world.disk
    /\ chunk \in Chunks
    /\ stage = "open" /\ text = <<>> /\ pos = 0 /\ buffer = <<>>
    /\ includes = <<>> /\ next = 1 /\ output = Old

Next == Open \/ Collect \/ OpenNext \/ Copy \/ Close

Spec == Init /\ [][Next]_vars

-----------------------------------------------------------------------------
(* What a scan of the whole text finds, character by character: the        *)
(* reference the chunks are compared with.                                 *)

\* A directive begins at place i of s; it ends at the first quote after.
Begins(s, i) == IsPrefix(Token, From(s, i))

EndsAt(s, i) == {j \in (i + Len(Token))..Len(s) : s[j] = Quote}

DirectiveAt(s, i) == Begins(s, i) /\ EndsAt(s, i) # {}

EndOf(s, i) == Min(EndsAt(s, i))

\* What there is from each place on: the text without its directives, and the
\* names in them.
Reading(s) ==
    LET f[i \in 1..(Len(s) + 1)] ==
          LET after == f[IF DirectiveAt(s, i) THEN EndOf(s, i) + 1 ELSE i + 1]
          IN  IF i > Len(s) THEN [plain |-> <<>>, names |-> <<>>]
              ELSE IF DirectiveAt(s, i)
                     THEN [plain |-> after.plain,
                           names |-> <<SubSeq(s, i + Len(Token), EndOf(s, i) - 1)>> \o after.names]
                     ELSE [plain |-> <<s[i]>> \o after.plain, names |-> after.names]
    IN  f

Stripped(s) == Reading(s)[1].plain
NamesIn(s) == Reading(s)[1].names

\* What has still to be scanned of the file.
Unread == buffer \o From(text, pos + 1)

\* The whole output for the list of names: every file there is, in order.
Joined(names) ==
    LET f[i \in 0..Len(names)] ==
          IF i = 0 THEN <<>>
          ELSE f[i - 1] \o (IF names[i] \in DOMAIN disk
                              THEN Stripped(disk[names[i]]) \o <<Separator>> ELSE <<>>)
    IN  f[Len(names)]

-----------------------------------------------------------------------------
(* Properties.                                                             *)

TypeOK ==
    /\ stage \in {"open", "collect", "next", "copy", "end"}
    /\ pos \in 0..Len(text)
    /\ next \in 1..(Len(includes) + 1)
    /\ Len(buffer) <= Len(text)
    /\ output = Old \/ \A i \in 1..Len(output) : output[i] # Old[1]

\* After every chunk the names found so far and those in what has still to be
\* scanned are the names of the whole file: no directive is missed, found twice
\* or misread because a chunk ended in it (OneHeader.h:78-114).
NoNameLost ==
    stage \in {"collect", "next"} /\ next = 1 => includes \o NamesIn(Unread) = NamesIn(input)

\* The file's text is copied without its directives and nothing else is lost,
\* added or moved, at every chunk (OneHeader.h:123-163, main.cpp:58-69).
NoTextLost ==
    stage = "copy" => output \o Stripped(Unread) \o <<Separator>>
                        = Joined(SubSeq(includes, 1, next - 1))

\* The result does not depend on the size of the chunks: it is the included
\* files, in the order of the directives, those that are missing left out; and
\* what a run that cannot open its files leaves is the old output or none.
JoinsWhatIsIncluded ==
    stage = "end" => \/ output = Joined(NamesIn(input))
                     \/ output \in {Old, <<>>} /\ includes = <<>>
===============================================================================
