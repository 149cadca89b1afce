--------------------------- MODULE SessionProtocol ---------------------------
(***************************************************************************)
(* What one connection promises its client (docs/protocol.md, "Emission    *)
(* Rules" and "closing"): the order of the frames the server may send, as  *)
(* a history of the frames the client can see.                             *)
(***************************************************************************)
EXTENDS Naturals, Sequences

VARIABLES wire,   \* frames sent, by kind
          socket  \* whether the server still has the socket open

Occurs(f) == \E i \in 1..Len(wire) : wire[i] = f

Started == Occurs("ready")
Over == Occurs("final") \/ Occurs("error") \/ Occurs("closing")

Init == wire = <<>> /\ socket = "open"

Send(f) == socket = "open" /\ wire' = Append(wire, f) /\ UNCHANGED socket

Ready == wire = <<>> /\ Send("ready")

Interim(f) == Started /\ ~Over /\ Send(f)

Final == Started /\ ~Over /\ Send("final")

\* An error may be repeated: the first may have met backpressure.
Error == ~Occurs("final") /\ ~Occurs("closing") /\ Send("error")

\* Without a final, or after an error, `closing` ends a session that failed.
Closing == Started /\ ~Occurs("closing") /\ Send("closing")

Close == socket = "open" /\ socket' = "closed" /\ UNCHANGED wire

Next == \/ Ready \/ Final \/ Error \/ Closing \/ Close
        \/ \E f \in {"partial", "status", "warning"} : Interim(f)

Spec == Init /\ [][Next]_<<wire, socket>>
===============================================================================
