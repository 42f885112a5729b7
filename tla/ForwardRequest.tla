---------------------------- MODULE ForwardRequest ----------------------------
(***************************************************************************)
(* example/beastHTTPServerRequestForward: main() takes one request as JSON *)
(* from its command line, makes an HTTP request of it and has a worker     *)
(* without a socket answer it through its write callback.  The PHP page    *)
(* that runs the program takes exit status 0 for an answer.  How the       *)
(* target is stripped and served is put in by RequestPath.                 *)
(***************************************************************************)
EXTENDS Sums

CONSTANTS
    Arguments,  \* the command lines: see Argument
    PoolSize    \* of the pool the request's fields are in: 8192

Names == {"REQUEST_METHOD", "REQUEST_URI", "DOCUMENT_ROOT", "OTHER"}

\* A member of the JSON object; get says that its value is "GET", size what it
\* takes in the pool.
Member == [name : Names, kind : {"string", "number", "other"}, get : BOOLEAN, size : Nat]

\* The argument: missing, no JSON, no object, or an object's members, with the
\* text of the first REQUEST_URI.
Argument(texts) ==
    [form : {"missing", "broken", "no_object", "object"}, members : Seq(Member), uri : texts]

VARIABLES
    argument,   \* what the program was given
    pc,         \* where main() is
    method,     \* the request's method is GET
    target,     \* its target, empty until it is set
    next,       \* the next member to be set as a field
    fields,     \* the fields set: the names the request has
    used,       \* what is used of the pool
    responses,  \* the responses printed
    exit        \* "none", "success", "failure", or "crashed"

TypeOK ==
    /\ pc \in {"parse", "target", "fields", "root", "process", "end"}
    /\ method \in BOOLEAN
    /\ next \in 1..(Len(argument.members) + 1)
    /\ fields \subseteq Names
    /\ used \in 0..(PoolSize - 1)
    /\ responses \in 0..1
    /\ exit \in {"none", "success", "failure", "crashed"}

Members == argument.members

\* The first member of this name is what HasMember and operator[] find.
IsFirst(j, name) ==
    /\ Members[j].name = name
    /\ \A k \in 1..(j - 1) : Members[k].name # name

HasString(name) == \E j \in 1..Len(Members) : IsFirst(j, name) /\ Members[j].kind = "string"

Value(name) == Members[CHOOSE j \in 1..Len(Members) : IsFirst(j, name)]

\* Strings and numbers become fields; anything else is left out.
IsField(m) == m.kind # "other"

\* The exception is caught: its text goes to cerr and main() ends.
Throw == pc' = "end" /\ exit' = "failure"

\* Slip: a block may end where the pool does.
FitsExactly(size) == used + size <= PoolSize

\* static_pool::alloc refuses a block that would end at the pool's end.
Fits(size) == used + size < PoolSize

-----------------------------------------------------------------------------
(* main().                                                                 *)

\* A missing argument is a null pointer to the parser.
Parse ==
    /\ pc = "parse"
    /\ CASE argument.form = "missing"   -> pc' = "end" /\ exit' = "crashed"
         [] argument.form \in {"broken", "no_object"} -> Throw
         [] argument.form = "object"    -> pc' = "target" /\ UNCHANGED exit
    /\ method' = (argument.form = "object" /\ HasString("REQUEST_METHOD")
                    /\ Value("REQUEST_METHOD").get)
    /\ UNCHANGED <<argument, target, next, fields, used, responses>>

\* req.target, with the stripped text: the target is kept in the pool too.
SetTarget(stripped) ==
    /\ pc = "target"
    /\ IF ~HasString("REQUEST_URI")
         THEN pc' = "fields" /\ UNCHANGED <<target, used, exit>>
         ELSE IF Fits(Value("REQUEST_URI").size)
         THEN /\ used' = used + Value("REQUEST_URI").size
              /\ target' = stripped
              /\ pc' = "fields" /\ UNCHANGED exit
         ELSE Throw /\ UNCHANGED <<target, used>>
    /\ UNCHANGED <<argument, method, next, fields, responses>>

\* req.set, member after member.  A field of the same name is replaced, which
\* gives nothing back to the pool.
SetField ==
    /\ pc = "fields" /\ next <= Len(Members)
    /\ IF ~IsField(Members[next])
         THEN next' = next + 1 /\ UNCHANGED <<pc, fields, used, exit>>
         ELSE IF Fits(Members[next].size)
         THEN /\ next' = next + 1
              /\ fields' = fields \cup {Members[next].name}
              /\ used' = used + Members[next].size
              /\ UNCHANGED <<pc, exit>>
         ELSE Throw /\ UNCHANGED <<next, fields, used>>
    /\ UNCHANGED <<argument, method, target, responses>>

FieldsDone ==
    /\ pc = "fields" /\ next > Len(Members)
    /\ pc' = "root"
    /\ UNCHANGED <<argument, method, target, next, fields, used, responses, exit>>

\* Slip: a request without a document root is served without one.
GoOnWithoutRoot == pc' = "process" /\ UNCHANGED exit

\* req.at throws out_of_range.
NoRoot == Throw

\* What the worker gets is a view of a string that is gone at the end of the
\* statement: its document root may be any path.
TakeRoot ==
    /\ pc = "root"
    /\ IF "DOCUMENT_ROOT" \in fields THEN pc' = "process" /\ UNCHANGED exit ELSE NoRoot
    /\ UNCHANGED <<argument, method, target, next, fields, used, responses>>

\* Worker::process_request through the write callback: a bad method or target
\* and a file that is missing are answered too...
Answered ==
    /\ pc = "process"
    /\ responses' = responses + 1
    /\ pc' = "end" /\ exit' = "success"
    /\ UNCHANGED <<argument, method, target, next, fields, used>>

\* ... but a directory can be opened and not measured: reserve throws.
NotMeasured ==
    /\ pc = "process"
    /\ Throw
    /\ UNCHANGED <<argument, method, target, next, fields, used, responses>>

Init ==
    /\ pc = "parse" /\ method = FALSE /\ next = 1 /\ fields = {}
    /\ used = 0 /\ responses = 0 /\ exit = "none"

-----------------------------------------------------------------------------
(* Which requests are complete.                                            *)

\* The pool takes the target and every field ever set.
FieldSizes == [j \in 1..Len(Members) |-> IF IsField(Members[j]) THEN Members[j].size ELSE 0]
Needed ==
    (IF HasString("REQUEST_URI") THEN Value("REQUEST_URI").size ELSE 0) + Total(FieldSizes)

Complete ==
    /\ argument.form = "object" /\ Needed < PoolSize
    /\ \E j \in 1..Len(Members) : Members[j].name = "DOCUMENT_ROOT" /\ IsField(Members[j])
===============================================================================
