---------------------------- MODULE MCRequestPath ----------------------------
(* RequestPath with texts and targets of up to six characters, the index file *)
(* i.h and a table of two extensions.  The forwarding program gets all texts  *)
(* of up to five in a complete request, and, with one text, all objects of up *)
(* to three members of one or two units, for a pool of six.                   *)
EXTENDS RequestPath

Strings(alphabet, n) == UNION {[1..k -> alphabet] : k \in 0..n}

MCOthers == {".", "?", "h", "H", "x", "i"}
MCUris == Strings({Backslash, "/", ".", "?", "h"}, 5)
MCTexts == Strings({Backslash, "quote", Nul, "h"}, 6) \cup MCUris
MCTargets == Strings({"/", ".", "?", "h", "H", "x"}, 6) \ {<<>>}

MCIndexName == <<"i", ".", "h">>
MCTypeOf == <<"h">> :> "text/html" @@ <<"h", "x">> :> "text/hx"
MCLower == "H" :> "h"

MCNames == {"REQUEST_METHOD", "REQUEST_URI", "DOCUMENT_ROOT", "OTHER"}

MCMembers ==
    {m \in [name : MCNames, kind : {"string", "number", "other"}, get : BOOLEAN, size : 1..2] :
        /\ m.get => m.name = "REQUEST_METHOD" /\ m.kind = "string"
        /\ m.kind = "number" => m.name = "REQUEST_URI"}

M(name) == [name |-> name, kind |-> "string", get |-> name = "REQUEST_METHOD", size |-> 1]

MCArguments ==
    [form : {"object"}, members : Strings(MCMembers, 3), uri : {<<"/", "h">>}]
    \cup [form : {"object"},
          members : {<<M("REQUEST_METHOD"), M("REQUEST_URI"), M("DOCUMENT_ROOT")>>}, uri : MCUris]
    \cup [form : {"missing", "broken", "no_object"}, members : {<<>>}, uri : {<<>>}]
===============================================================================
