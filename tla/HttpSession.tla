----------------------------- MODULE HttpSession -----------------------------
(***************************************************************************)
(* What the HTTPS handler promises to a client and to the upstreams, with  *)
(* no mention of hosts, connections, tunnels or bodies: a request is read  *)
(* when those before it have been answered, is sent upstream at most once, *)
(* and is answered once, by the upstream it was sent to or by the proxy    *)
(* itself.  A session may turn into a copy in both directions, in which    *)
(* requests no longer wait for answers, but never back; and it may end at  *)
(* any moment, after which nothing is sent.                                *)
(*                                                                         *)
(* HttpsHandler implements this specification when no upstream sends an    *)
(* interim response.                                                       *)
(***************************************************************************)
EXTENDS Naturals, Sequences

VARIABLES mode,     \* one request at a time, a copy, or over
          read,     \* how many requests have been read
          asked,    \* the numbers of those sent upstream, in order
          answers   \* the numbers of those answered, in order

vars == <<mode, read, asked, answers>>

Init == mode = "serial" /\ read = 0 /\ asked = <<>> /\ answers = <<>>

Asked(n) == \E i \in DOMAIN asked : asked[i] = n

Read == /\ mode = "serial"
        /\ Len(answers) = read
        /\ read' = read + 1
        /\ UNCHANGED <<mode, asked, answers>>

(* The latest request goes upstream, and with it perhaps the session.      *)
Ask == /\ mode = "serial"
       /\ Len(answers) < read
       /\ ~Asked(read)
       /\ asked' = Append(asked, read)
       /\ mode' \in {"serial", "copy"}
       /\ UNCHANGED <<read, answers>>

Turn == Len(answers) + 1

(* The proxy answers by itself what it has not sent.                       *)
Grant == /\ mode = "serial"
         /\ Len(answers) < read
         /\ ~Asked(read)
         /\ answers' = Append(answers, Turn)
         /\ UNCHANGED <<mode, read, asked>>

(* An answer may be the last, when the session is handed over.             *)
Answer == /\ mode # "over"
          /\ Len(answers) < read
          /\ Asked(Turn)
          /\ answers' = Append(answers, Turn)
          /\ mode' \in {mode, "over"}
          /\ UNCHANGED <<read, asked>>

Copy == /\ mode = "copy"
        /\ ~Asked(read + 1)
        /\ read' = read + 1
        /\ asked' = Append(asked, read + 1)
        /\ UNCHANGED <<mode, answers>>

End == mode' = "over" /\ UNCHANGED <<read, asked, answers>>

Next == Read \/ Ask \/ Grant \/ Answer \/ Copy \/ End

Spec == Init /\ [][Next]_vars
==============================================================================
