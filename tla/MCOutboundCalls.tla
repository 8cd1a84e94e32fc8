--------------------------- MODULE MCOutboundCalls ---------------------------
(* Three pairs of callers with one target: two tools with a retry, a streamed
   round beside a one-shot request, and tools that never reach a target. *)
EXTENDS OutboundCalls, TLC

CONSTANTS c1, c2, c3, svc

Tool == [service |-> svc, attempts |-> 2, pause |-> TRUE, parsed |-> FALSE, flaw |-> "none"]
StreamedRound == [service |-> svc, attempts |-> 2, pause |-> FALSE, parsed |-> TRUE, flaw |-> "none"]
OneShot == [service |-> svc, attempts |-> 1, pause |-> FALSE, parsed |-> TRUE, flaw |-> "none"]
Builtin == [Tool EXCEPT !.service = NoService]
Unknown == [Tool EXCEPT !.flaw = "unknown"]
Invalid == [Tool EXCEPT !.flaw = "invalid"]

Trio(a, b, c) == (c1 :> a) @@ (c2 :> b) @@ (c3 :> c)

MCMixes ==
  {Trio(Tool, Tool, Unknown), Trio(StreamedRound, OneShot, OneShot), Trio(Builtin, Invalid, Tool)}
=============================================================================
