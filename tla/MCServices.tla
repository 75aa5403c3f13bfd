----------------------------- MODULE MCServices -----------------------------
(* Instances of the services for TLC.                                      *)
EXTENDS Services

CONSTANTS i1, i2, i3

(* Payloads at the edges of the three headers, a frame that is as large as *)
(* the limit less one chunk, as the limit, and one byte larger.            *)
OfLength(op, n) == [op |-> op, len |-> n, masked |-> TRUE, bad |-> FALSE]
ClientFrames ==
    {OfLength("text", n) : n \in {0, 126, 65536, 983026, 1048562, 1048563}}
    \cup {OfLength(op, 7) : op \in {"pong", "ping", "close", "binary"}}
    \cup {[OfLength("text", 65535) EXCEPT !.bad = TRUE],
          [OfLength("text", 125) EXCEPT !.masked = FALSE]}

=============================================================================
