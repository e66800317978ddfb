--------------------------- MODULE SourceContact ---------------------------
(***************************************************************************)
(* One request to a provider: fetchSourceBytes of acquisition/http.ts and  *)
(* fetchSamsaraHistoryBytes of acquisition/samsara-http.ts, which differ   *)
(* in the credential only the second one sends.  The promise is settled by *)
(* whichever of these comes first: the answer of the name server, the      *)
(* total deadline, an event of the request or one of the response; what    *)
(* comes later finds it settled.  The events are Node's; they may come in  *)
(* any order it can emit them in, also after a socket was destroyed.       *)
(*                                                                         *)
(* Addresses, URLs and headers are abstracted to whether they are          *)
(* acceptable, and a body to its length.                                   *)
(***************************************************************************)
EXTENDS Integers

CONSTANTS
  None,
  MaxBytes        \* the longest body that is accepted; one byte more is sent at most

VARIABLES
  connector,      \* "census" or "samsara"; does not change
  verifying,      \* TLS certificates are verified (NODE_TLS_REJECT_UNAUTHORIZED)
  outcome,        \* "pending", "resolved" or the code of the failure
  deadline,       \* the timer: "armed", "cleared" or "fired"
  lookup,         \* the name server was asked and has not answered
  outgoing,       \* the request: "none", "open" or "destroyed"
  incoming,       \* the response: None, or what is known of it
  exposed         \* history: a credential went out while nothing was verified

cvars == <<connector, verifying, outcome, deadline, lookup, outgoing, incoming, exposed>>

Lengths == 0 .. MaxBytes + 1

-----------------------------------------------------------------------------
\* Both sockets as destroy() leaves them; what was never opened stays so.
Destroyed(out) == IF out = "open" THEN "destroyed" ELSE out
Closed(in) == IF in = None THEN None ELSE [in EXCEPT !.open = FALSE]

\* fail(): the first failure settles; it stops the timer and both sockets.
Fail(code, in) ==
  IF outcome # "pending" THEN UNCHANGED <<outcome, deadline, outgoing>> /\ incoming' = in
  ELSE /\ outcome' = code
       /\ deadline' = IF code = "TIMEOUT" THEN "fired" ELSE "cleared"
       /\ outgoing' = Destroyed(outgoing)
       /\ incoming' = Closed(in)

Deadline ==
  /\ deadline = "armed"
  /\ Fail("TIMEOUT", incoming)
  /\ UNCHANGED <<connector, verifying, lookup, exposed>>

-----------------------------------------------------------------------------
\* Mutant: an answer after the deadline still makes the request.
LookedUpLate ==
  /\ lookup
  /\ lookup' = FALSE
  /\ outgoing' = "open"
  /\ UNCHANGED <<connector, verifying, outcome, deadline, incoming, exposed>>

\* The name server answers, refuses or gives an address that is not public.  A
\* connector that carries a credential looks at the verification again, and
\* only then is the request made, to the address that was checked.
LookedUp ==
  /\ lookup
  /\ lookup' = FALSE
  /\ UNCHANGED <<connector, verifying>>
  /\ IF outcome # "pending"
     THEN UNCHANGED <<outcome, deadline, outgoing, incoming, exposed>>
     ELSE \/ /\ \E code \in {"DNS_FAILED", "DESTINATION_DISALLOWED", "NETWORK_FAILED"} :
                  Fail(code, incoming)
             /\ UNCHANGED exposed
          \/ /\ connector = "samsara" /\ ~verifying
             /\ Fail("TLS_CONFIGURATION_DISALLOWED", incoming)
             /\ UNCHANGED exposed
          \/ /\ connector = "samsara" => verifying
             /\ outgoing' = "open"
             /\ exposed' = (connector = "samsara" /\ ~verifying)
             /\ UNCHANGED <<outcome, deadline, incoming>>

RequestError ==
  /\ outgoing # "none"
  /\ Fail("NETWORK_FAILED", incoming)
  /\ UNCHANGED <<connector, verifying, lookup, exposed>>

\* The response begins.  `whole` is the length of its body, which the sender
\* declares or not; the handlers of the body are only set when its status and
\* headers are acceptable and the declared length is within the limit.
Response ==
  /\ outgoing # "none" /\ incoming = None
  /\ UNCHANGED <<connector, verifying, lookup, exposed>>
  /\ \E acceptable, declares \in BOOLEAN, whole \in Lengths :
       LET in == [ open |-> TRUE, streaming |-> FALSE, size |-> 0, whole |-> whole,
                   complete |-> FALSE, expected |-> IF declares THEN whole ELSE None ]
       IN IF outcome # "pending"
          THEN incoming' = Closed(in) /\ UNCHANGED <<outcome, deadline, outgoing>>
          ELSE IF ~acceptable THEN Fail("INVALID_RESPONSE", in)
          ELSE IF declares /\ whole > MaxBytes THEN Fail("BODY_TOO_LARGE", in)
          ELSE /\ incoming' = [in EXCEPT !.streaming = TRUE]
               /\ UNCHANGED <<outcome, deadline, outgoing>>

\* error, aborted and close of the response.
ResponseLost ==
  /\ incoming # None
  /\ Fail("NETWORK_FAILED", incoming)
  /\ UNCHANGED <<connector, verifying, lookup, exposed>>

Data(n) ==
  /\ incoming # None /\ incoming.streaming /\ ~incoming.complete
  /\ outcome = "pending" /\ incoming.size + n <= incoming.whole
  /\ UNCHANGED <<connector, verifying, lookup, exposed>>
  /\ LET in == [incoming EXCEPT !.size = @ + n]
     IN IF in.size > MaxBytes THEN Fail("BODY_TOO_LARGE", in)
        ELSE incoming' = in /\ UNCHANGED <<outcome, deadline, outgoing>>

\* The parser has seen the end of the message, which `complete` says.
MessageComplete ==
  /\ incoming # None /\ incoming.open /\ incoming.size = incoming.whole
  /\ incoming' = [incoming EXCEPT !.complete = TRUE]
  /\ UNCHANGED <<connector, verifying, outcome, deadline, lookup, outgoing, exposed>>

\* The end event, which comes for a connection that breaks as well.
End ==
  /\ incoming # None /\ incoming.streaming
  /\ outcome = "pending"
  /\ UNCHANGED <<connector, verifying, lookup, exposed>>
  /\ IF ~incoming.complete
        \/ (incoming.expected # None /\ incoming.size # incoming.expected)
     THEN Fail("INVALID_RESPONSE", incoming)
     ELSE /\ outcome' = "resolved"
          /\ deadline' = "cleared"
          /\ incoming' = [incoming EXCEPT !.open = FALSE]
          /\ UNCHANGED outgoing

\* Other code of the process may turn the verification on and off.
ChangeVerification ==
  /\ verifying' = ~verifying
  /\ UNCHANGED <<connector, outcome, deadline, lookup, outgoing, incoming, exposed>>

-----------------------------------------------------------------------------
\* A contact that was begun: the timer runs before the name server is asked.
Init ==
  /\ connector \in {"census", "samsara"}
  /\ verifying = TRUE
  /\ outcome = "pending" /\ deadline = "armed"
  /\ lookup = TRUE /\ outgoing = "none" /\ incoming = None
  /\ exposed = FALSE

Next ==
  \/ Deadline \/ LookedUp \/ RequestError
  \/ Response \/ ResponseLost \/ MessageComplete \/ End
  \/ \E n \in 1 .. 2 : Data(n)
  \/ ChangeVerification

Spec == Init /\ [][Next]_cvars

-----------------------------------------------------------------------------
(* What the proofs assume of the constants, and what a response is.        *)

Bodies ==
  [open : BOOLEAN, streaming : BOOLEAN, size : Lengths, whole : Lengths, complete : BOOLEAN,
   expected : Lengths \cup {None}]

\* The limit is a number of bytes, and None is no response.
ContactAssumption == MaxBytes \in Nat /\ None \notin Bodies

-----------------------------------------------------------------------------
\* However the name server, the deadline and the events of the two sockets race,
\* a contact that is not settled can still time out, one that failed leaves
\* nothing open behind, one that succeeded has the whole body of its response,
\* within the limit, and no credential is sent while nothing is verified.
ContactsEndClean ==
  /\ deadline = "armed" <=> outcome = "pending"
  /\ outcome \notin {"pending", "resolved"}
       => outgoing # "open" /\ (incoming # None => ~incoming.open)
  /\ outcome = "resolved"
       => incoming.complete /\ incoming.size = incoming.whole /\ incoming.size <= MaxBytes
  /\ ~exposed
=============================================================================
