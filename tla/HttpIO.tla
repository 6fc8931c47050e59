------------------------------- MODULE HttpIO -------------------------------
(***************************************************************************)
(* The body of an HTTP message as the handler meets it (internals/httpio,  *)
(* and net/http under it): how the sender delimits it, whether its media   *)
(* type is binary, whether its text decompresses as its Content-Encoding   *)
(* says, whether the sender went away before its end, and where reading it *)
(* has got to.  The bytes themselves are not modelled.                     *)
(***************************************************************************)

Body == [delimited : {"length", "chunked", "close"},
         form : {"text", "damaged", "binary"},
         cut : BOOLEAN,
         at : {"network", "failed", "spent", "memory"}]

isBinary(b) == b.form = "binary"

(* io.ReadAll: net/http reports the end of a body that came too early,     *)
(* unless the end of the connection was to delimit it.  A chunked body     *)
(* keeps its error; one with a Content-Length reports it once, and then    *)
(* the end of the body.                                                    *)
ReadFails(b) == \/ b.at = "network" /\ b.cut /\ b.delimited # "close"
                \/ b.at = "failed"

(* What is left to the next reader once the body has been read through.    *)
Drained(b) == [b EXCEPT !.at = IF ReadFails(b) /\ b.delimited = "chunked"
                               THEN "failed" ELSE "spent"]

(* The bytes read take the place of the body.                              *)
Rewound(b) == [b EXCEPT !.at = IF b.at = "spent" THEN "spent" ELSE "memory"]

Decodes(b) == b.form = "text"

(* Mutation: the body is rewound only once it has been decompressed.       *)
DecodeThenRewind(b) ==
    IF isBinary(b) THEN b
    ELSE IF ReadFails(b) \/ ~Decodes(b) THEN Drained(b) ELSE Rewound(b)

(* What DecodeBody leaves in resp.Body.  It is rewound before it is        *)
(* decompressed, and left as it is after a failed read.                    *)
DecodeBody(b) ==
    IF isBinary(b) THEN b
    ELSE IF ReadFails(b) THEN Drained(b) ELSE Rewound(b)

EncodeFails(b) == ~isBinary(b) /\ ReadFails(b)

(* A binary body is left alone; any other is framed by the length of what  *)
(* was read.                                                               *)
Encode(b) == IF isBinary(b) THEN b ELSE [Rewound(b) EXCEPT !.delimited = "length"]

(* Response.Write copies the body as it reads it.                          *)
WriteFails(b) == ReadFails(b)

(* What is written is all that the sender had to send.                     *)
IsWhole(b) == ~b.cut /\ b.at # "spent"

(* Closing a body drains it, so that the connection can be used again.     *)
OnConnection(b) == b.at = "network"
==============================================================================
