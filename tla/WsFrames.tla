----------------------------- MODULE WsFrames -----------------------------
(***************************************************************************)
(* One connection of src/src/shared/websocket-server.ts: the bytes of the  *)
(* client's frames arrive in chunks that end anywhere, whole frames are    *)
(* taken off the buffer and handled, and a timer pings.  Of a byte only    *)
(* its place in the stream counts.  What is sent to clients is in          *)
(* DashboardSync.                                                          *)
(***************************************************************************)
EXTENDS Integers, Sequences, SequencesExt

CONSTANTS Frame,         \* [op, len: of the payload, masked, bad: not to be inflated]
          MaxFrameBytes, \* MAX_FRAME_BYTES
          MaxChunk,      \* the most bytes a socket hands over at once
          MaxFrames      \* bound on frames

VARIABLES stream,    \* the frames the client has sent
          arrived,   \* bytes of them that arrived
          consumed,  \* bytes of these that left the buffer
          got,       \* the frames given to onMessage, by their place
          connected, \* is the client in the map?
          alive,     \* its flag
          link,      \* does the network still carry its bytes?
          cause      \* history: why it was removed

bytes == <<stream, arrived, consumed, got>>
client == <<connected, alive>>
vars == <<bytes, client, link, cause>>

WsFramesAssumption ==
    /\ \A f \in Frame : f.len \in Nat /\ f.masked \in BOOLEAN /\ f.bad \in BOOLEAN
    /\ MaxFrameBytes \in Nat /\ MaxChunk \in Nat

TypeOK == /\ stream \in Seq(Frame) /\ Len(stream) <= MaxFrames
          /\ consumed \in 0 .. arrived
          /\ got \in Seq(DOMAIN stream)
          /\ connected \in BOOLEAN /\ alive \in BOOLEAN /\ link \in BOOLEAN
          /\ cause \in {"none", "overflow", "close", "silent", "closed"}

Init == /\ stream = <<>> /\ arrived = 0 /\ consumed = 0 /\ got = <<>>
        /\ connected = TRUE /\ alive = TRUE /\ link = TRUE /\ cause = "none"

-----------------------------------------------------------------------------
(* Frames                                                                  *)

Header(len) == IF len < 126 THEN 2 ELSE IF len < 65536 THEN 4 ELSE 10
Size(f) == Header(f.len) + (IF f.masked THEN 4 ELSE 0) + f.len
Ends(frames) ==
    LET end[k \in 0 .. Len(frames)] == IF k = 0 THEN 0 ELSE end[k - 1] + Size(frames[k])
    IN  end
End(k) == Ends(stream)[k]

(* parseFrame, with n bytes in the buffer: the length of the frame, or 0   *)
(* as long as it is not whole.  A frame without a mask never is.           *)
Parsed(f, n) ==
    LET total == Header(f.len) + 4 + f.len
    IN  IF n >= Header(f.len) /\ f.masked /\ n >= total THEN total ELSE 0

Handled == CHOOSE k \in 0 .. Len(stream) : End(k) = consumed

OneTaken(n) ==                                                    \* mutant
    IF Handled < Len(stream) /\ Parsed(stream[Handled + 1], n - consumed) > 0
    THEN Handled + 1 ELSE Handled
(* The last frame that leaves the buffer once n bytes have arrived.        *)
Taken(n) ==
    Max({k \in Handled .. Len(stream) :
            \A j \in Handled + 1 .. k : Parsed(stream[j], n - End(j - 1)) > 0})

(* What onMessage has been given when the frames up to k are handled.      *)
Heard(k) == stream[k].op = "text" /\ ~stream[k].bad
GotAfter(k) ==
    LET after[j \in Handled .. Len(stream)] ==
            IF j = Handled THEN got ELSE after[j - 1] \o (IF Heard(j) THEN <<j>> ELSE <<>>)
    IN  after[k]

Speaks(k) == stream[k].op \in {"text", "ping", "pong"}
Closes(k) == stream[k].op = "close"

-----------------------------------------------------------------------------

RemoveClient(why) == connected' = FALSE /\ cause' = why

(* Where a chunk may end: in the header, the mask and the payload of each  *)
(* frame, at its end, and one chunk before.                                *)
Cuts == UNION {LET o == End(k - 1)  f == stream[k]
               IN  {n \in {o + 1, o + 2, o + Header(f.len), End(k) - MaxChunk, End(k) - 1, End(k)}
                    : n > o} : k \in DOMAIN stream}

(* Chunks that complete no frame count as one.  A frame that closes does   *)
(* not keep those behind it in the buffer from being handled.              *)
OnData(n) ==
    /\ connected /\ link
    /\ n > arrived /\ (n - arrived <= MaxChunk \/ Taken(n) = Handled)
    /\ arrived' = n
    /\ IF n - consumed > MaxFrameBytes
       THEN RemoveClient("overflow") /\ UNCHANGED <<consumed, got, alive>>
       ELSE LET ks == Handled + 1 .. Taken(n)
            IN  /\ consumed' = End(Taken(n))
                /\ got' = GotAfter(Taken(n))
                /\ alive' = (alive \/ \E k \in ks : Speaks(k))
                /\ IF \E k \in ks : Closes(k) THEN RemoveClient("close")
                   ELSE UNCHANGED <<connected, cause>>
    /\ UNCHANGED <<stream, link>>

PingOnly == alive' = FALSE /\ UNCHANGED <<connected, cause>>      \* mutant
(* The interval of 30 s.                                                   *)
PingInterval == IF alive THEN alive' = FALSE /\ UNCHANGED <<connected, cause>>
                ELSE RemoveClient("silent") /\ UNCHANGED alive

Ping == /\ connected
        /\ PingInterval
        /\ UNCHANGED <<bytes, link>>

SocketCloses == /\ connected
                /\ RemoveClient("closed")
                /\ UNCHANGED <<bytes, alive, link>>

ClientSends(f) == /\ Len(stream) < MaxFrames
                  /\ stream' = Append(stream, f)
                  /\ UNCHANGED <<arrived, consumed, got, client, link, cause>>

(* The network drops the client without telling anybody.                   *)
LinkBreaks == link /\ link' = FALSE /\ UNCHANGED <<bytes, client, cause>>

Next == \/ Ping \/ SocketCloses \/ LinkBreaks
        \/ \E f \in Frame : ClientSends(f)
        \/ \E n \in Cuts : OnData(n)

Spec == Init /\ [][Next]_vars
FairSpec == Spec /\ WF_vars(Ping)

-----------------------------------------------------------------------------
(* Properties                                                              *)

Stuck == \E k \in DOMAIN stream : ~stream[k].masked /\ End(k - 1) < arrived

(* However the stream is cut into chunks, every frame is handled as soon   *)
(* as it is whole, in its order, and the buffer overflows only on a frame  *)
(* that is as large as the limit, less one chunk, or has no mask           *)
(* (websocket-server.ts:111-126, 300-335).                                 *)
KeepsUp ==
    /\ connected /\ ~Stuck => consumed = Max({End(k) : k \in {j \in 0 .. Len(stream) : End(j) <= arrived}})
    /\ IsInjective(got) /\ IsSorted(got, <=)
    /\ cause = "overflow" => Stuck \/ \E k \in DOMAIN stream : Size(stream[k]) > MaxFrameBytes - MaxChunk

(* "1 MB — reject frames larger than this" (websocket-server.ts:13): a     *)
(* smaller frame is rejected, too, if the next one follows closely.        *)
RejectsOnlyLarger ==
    cause = "overflow" => Stuck \/ \E k \in DOMAIN stream : Size(stream[k]) > MaxFrameBytes

(* A client that the network dropped, or whose frames have no mask, does   *)
(* not stay in the map (websocket-server.ts:132-147).                      *)
SilentIsRemoved == (connected /\ (~link \/ Stuck)) ~> ~connected
=============================================================================
