----------------------------- MODULE RequestPath -----------------------------
(***************************************************************************)
(* From the text of a request's target to the file that answers it, on the *)
(* ways there are in the repository: the forwarding program, which strips  *)
(* the target (Algorithm) before its worker serves it (Target); a worker   *)
(* with a socket, which serves what its parser read; and programs that use *)
(* the two functions of Algorithm on texts of their own.                   *)
(***************************************************************************)
EXTENDS Algorithm

CONSTANTS
    Targets,    \* the targets that arrive at a socket
    Arguments, PoolSize,        \* see ForwardRequest
    IndexName, TypeOf, Lower    \* see Target

VARIABLES
    caller,     \* "forward", "worker" or "library"
    target,     \* the target of the request
    hasRoot, status, path, type,                            \* of Target
    argument, pc, method, next, fields, used, responses, exit   \* of ForwardRequest

T == INSTANCE Target
F == INSTANCE ForwardRequest

\* Beast's parser accepts no control characters in a target, and no empty one;
\* a C string has no NUL in it.
ASSUME TargetsAssumption == \A t \in Targets : t \in Seq(Character) /\ t # <<>> /\ ~Contains(t, Nul)
ASSUME ArgumentsAssumption ==
    /\ PoolSize \in Nat \ {0} /\ Arguments \subseteq F!Argument(Texts)
    /\ \A a \in Arguments : ~Contains(a.uri, Nul)

\* A function may be called with no text, and what is not stripped is none.
ASSUME EmptyTextAssumption == <<>> \in Texts

\* "index.html" is a plain name; the table has letters, and the lower case of a
\* letter is a letter.
ASSUME IndexAssumption ==
    /\ IndexName \in Seq(Character) /\ IndexName # <<>>
    /\ ~Contains(IndexName, "/") /\ ~Contains(IndexName, Nul)
    /\ ~T!HasPart(IndexName, <<".", ".">>)
ASSUME TableAssumption ==
    \A e \in T!Extensions :
        e \in Seq(Character) /\ e # <<>> /\ ~Contains(e, "/") /\ ~Contains(e, ".")
ASSUME LowerAssumption ==
    \A c \in DOMAIN Lower : {c, Lower[c]} \cap {"/", "."} = {}

servedVars == <<hasRoot, status, path, type>>
mainVars == <<argument, pc, method, next, fields, used, responses, exit>>
allVars == <<vars, caller, target, servedVars, mainVars>>

NoArgument == [form |-> "missing", members |-> <<>>, uri |-> <<>>]

\* A program of its own calls one of the functions.
InitLibrary ==
    /\ caller = "library" /\ target = <<>> /\ hasRoot = FALSE
    /\ argument = NoArgument /\ F!Init
    /\ Init

\* str is the text that will be stripped.
InitForward ==
    /\ caller = "forward" /\ target = <<>> /\ hasRoot = TRUE
    /\ argument \in Arguments /\ F!Init
    /\ function = "stripslashes" /\ str = argument.uri
    /\ i = 0 /\ answer = <<>> /\ state = "looping"

\* A request has been read; nothing is stripped.
InitWorker ==
    /\ caller = "worker" /\ target \in Targets /\ hasRoot \in BOOLEAN
    /\ argument = NoArgument /\ F!Init
    /\ function = "stripslashes" /\ str = <<>> /\ i = 0 /\ answer = <<>> /\ state = "looping"

PathInit == (InitLibrary \/ InitForward \/ InitWorker) /\ T!Init

\* The function runs in main() while the target is set.
Strips ==
    /\ \/ caller = "library"
       \/ caller = "forward" /\ pc = "target" /\ F!HasString("REQUEST_URI")
    /\ Next
    /\ UNCHANGED <<caller, target, servedVars, mainVars>>

TargetIsSet ==
    /\ caller = "forward"
    /\ F!HasString("REQUEST_URI") => state = "returned"
    /\ F!SetTarget(answer)
    /\ UNCHANGED <<vars, caller, servedVars>>

MainGoesOn ==
    /\ caller = "forward"
    /\ F!Parse \/ F!SetField \/ F!FieldsDone \/ F!TakeRoot
    /\ UNCHANGED <<vars, caller, servedVars>>

\* process_request of the forwarding program's worker.
BadMethod == ~method /\ F!Answered /\ UNCHANGED servedVars
SendsFile == method /\ T!SendFile /\ F!Answered
SendsDirectory == method /\ ~T!IsBad(target) /\ F!NotMeasured /\ UNCHANGED servedVars

ProcessRequest ==
    /\ caller = "forward"
    /\ BadMethod \/ SendsFile \/ SendsDirectory
    /\ UNCHANGED <<vars, caller>>

\* send_file of a worker with a socket.
ServesSocket ==
    /\ caller = "worker"
    /\ T!SendFile
    /\ UNCHANGED <<vars, caller, mainVars>>

PathNext == Strips \/ TargetIsSet \/ MainGoesOn \/ ProcessRequest \/ ServesSocket

PathSpec == PathInit /\ [][PathNext]_allVars

-----------------------------------------------------------------------------
(* Properties, with InBounds and StripsByParity of Algorithm.              *)

PathTypeOK ==
    /\ TypeOK /\ T!TypeOK /\ F!TypeOK
    /\ caller \in {"forward", "worker", "library"}
    /\ target \in Seq(Character)

\* A file that is sent lies below the document root, also when its target was
\* stripped of backslashes first: a ".\x." becomes ".." before it is tested
\* (Http.cpp:123, 136-143, forwarding main.cpp:667-669).
StaysBelowRoot == status = "ok" => T!IsBelowRoot

\* "a reasonable mime type based on the extension of a file": the file that is
\* opened, after stripping, query and index (Util.cpp:10-61, Http.cpp:129-138).
TypeIsTheFiles == status = "ok" => T!IsTypeOfFile

\* The forwarding program answers once a request that is complete: an object
\* that names a document root and fits the pool, members replaced by later ones
\* included.  What else is wrong is told in the answer, except that a directory
\* cannot be sent.  Exit status 0 means one response on the output, any other
\* none, and a file is served only in an answer (main.cpp:618-704,
\* fields_alloc.h:53-57).
AnsweredOnceIfComplete ==
    caller = "forward" /\ pc = "end" =>
        /\ responses = (IF exit = "success" THEN 1 ELSE 0)
        /\ exit = "success" => F!Complete
        /\ F!Complete => exit = "success" \/ (method /\ ~T!IsBad(target))
        /\ status # "asked" <=> exit = "success" /\ method
===============================================================================
