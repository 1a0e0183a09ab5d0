----------------------------- MODULE StreamCopy -----------------------------
(***************************************************************************)
(* The copy loop of an intercepted tunnel (crates/proxy/src/stream.rs): one *)
(* task that moves bytes between the client's TLS stream and the upstream's *)
(* until one of them ends.  In its select! it waits for bytes of either    *)
(* side; what it has read it writes out whole before it reads again.        *)
(*                                                                         *)
(* Bytes are counted: a connection delivers in order, and the loop has at  *)
(* most one buffer under way.  A connection holds a bounded number of bytes *)
(* in each direction, its buffers in kernel and TLS taken together.  What  *)
(* the two peers do with their ends is chosen in the initial state.         *)
(***************************************************************************)
EXTENDS Naturals

CONSTANTS
    Room,    \* side -> bytes its connection holds in each direction
    Chunk,   \* size of the loop's buffers (8 KiB in the code)
    Total,   \* side -> bytes its peer has to send (a bound on the input)
    MayGo    \* TRUE: peers may go away without ending their stream

Sides == {"client", "upstream"}
Other(s) == IF s = "client" THEN "upstream" ELSE "client"

ASSUME RoomAssumption == Room \in [Sides -> Nat \ {0}]
ASSUME ChunkAssumption == Chunk \in Nat \ {0}
ASSUME TotalAssumption == Total \in [Sides -> Nat]

Manners == {
    "duplex",        \* sends and receives as it can
    "writes_first",  \* receives nothing before it has sent everything
    "answers",       \* sends nothing before it has everything of the other
    "reads_to_end" } \* sends nothing before the other's stream has ended

Endings == {
    "at_once",       \* ends its stream when it has sent everything
    "when_served",   \* and when it has received everything
    "never" }        \* keeps the connection for later

\* The await that the loop stands before.
Places == {"select", "write_client", "write_upstream", "drain", "drain_write",
           "closed", "failed"}

VARIABLES
    manner, ending,  \* side -> habits of its peer, which stay as they are
    sent,      \* side -> bytes its peer has sent
    ended,     \* side -> its peer has ended its stream (close_notify)
    gone,      \* side -> its peer has gone away without
    inbound,   \* side -> bytes from its peer that the loop has not read
    outbound,  \* side -> bytes the loop has written that its peer has not got
    got,       \* side -> bytes its peer has got
    held,      \* bytes in the buffer that the loop is writing out
    at         \* where the loop stands

habits == <<manner, ending>>
vars == <<habits, sent, ended, gone, inbound, outbound, got, held, at>>

TypeOK ==
    /\ manner \in [Sides -> Manners] /\ ending \in [Sides -> Endings]
    /\ sent \in [Sides -> Nat] /\ got \in [Sides -> Nat]
    /\ ended \in [Sides -> BOOLEAN] /\ gone \in [Sides -> BOOLEAN]
    /\ \A s \in Sides : inbound[s] \in 0 .. Room[s] /\ outbound[s] \in 0 .. Room[s]
    /\ inbound \in [Sides -> Nat] /\ outbound \in [Sides -> Nat]
    /\ held \in 0 .. Chunk
    /\ at \in Places

\* The connections are dropped with the loop's end.
Over == at \in {"closed", "failed"}

Plus(f, s, n)  == [f EXCEPT ![s] = @ + n]
Minus(f, s, n) == [f EXCEPT ![s] = @ - n]

-----------------------------------------------------------------------------
Init ==
    /\ manner \in [Sides -> Manners] /\ ending \in [Sides -> Endings]
    /\ sent = [s \in Sides |-> 0] /\ got = [s \in Sides |-> 0]
    /\ ended = [s \in Sides |-> FALSE] /\ gone = [s \in Sides |-> FALSE]
    /\ inbound = [s \in Sides |-> 0] /\ outbound = [s \in Sides |-> 0]
    /\ held = 0
    /\ at = "select"

(* copy_bidirectional *)

\* As a bug would have it (and so the other definitions with a second name).
ReadInto_Full(s, next) ==               \* read counts as if it filled the buffer
    /\ inbound[s] > 0
    /\ inbound' = Minus(inbound, s, Chunk)
    /\ held' = Chunk
    /\ at' = next
    /\ UNCHANGED <<habits, sent, ended, gone, outbound, got>>

\* A read that finds bytes takes some, at most a buffer full.
ReadInto(s, next) ==
    /\ \E n \in 1 .. Chunk :
         /\ n <= inbound[s]
         /\ inbound' = Minus(inbound, s, n)
         /\ held' = n
    /\ at' = next
    /\ UNCHANGED <<habits, sent, ended, gone, outbound, got>>

\* The next read of this side returns Ok(0).
AtEnd(s) == ended[s] /\ inbound[s] = 0

MoveTo(next) ==
    /\ at' = next
    /\ UNCHANGED <<habits, sent, ended, gone, inbound, outbound, got, held>>

SelectRead(s) ==
    at = "select" /\ ReadInto(s, IF s = "client" THEN "write_upstream" ELSE "write_client")

UpstreamEnds == at = "select" /\ AtEnd("upstream") /\ MoveTo("closed")

ClientEnds_Closes ==                    \* the end of either side is the end
    at = "select" /\ AtEnd("client") /\ MoveTo("closed")

\* From here on only the upstream is read.  Its own end of the connection is
\* not shut down: it is not told that the client has ended.
ClientEnds == at = "select" /\ AtEnd("client") /\ MoveTo("drain")

DrainRead == at = "drain" /\ ReadInto("upstream", "drain_write")

DrainEnds_Ignored == FALSE              \* Ok(0) is taken for an empty read

DrainEnds_ToSelect ==                   \* it leaves the inner loop only
    at = "drain" /\ AtEnd("upstream") /\ MoveTo("select")

DrainEnds == at = "drain" /\ AtEnd("upstream") /\ MoveTo("closed")

WriteSome_Once(here, s, next) ==        \* write instead of write_all
    /\ at = here
    /\ \E n \in 1 .. held :
         /\ outbound[s] + n <= Room[s]
         /\ outbound' = Plus(outbound, s, n)
         /\ held' = 0
         /\ at' = next
    /\ UNCHANGED <<habits, sent, ended, gone, inbound, got>>

\* write_all and flush: some of the bytes at a time, and on once all are out.
WriteSome(here, s, next) ==
    /\ at = here
    /\ \E n \in 1 .. held :
         /\ outbound[s] + n <= Room[s]
         /\ outbound' = Plus(outbound, s, n)
         /\ held' = held - n
         /\ at' = IF n = held THEN next ELSE here
    /\ UNCHANGED <<habits, sent, ended, gone, inbound, got>>

Write ==
    \/ WriteSome("write_client", "client", "select")
    \/ WriteSome("write_upstream", "upstream", "select")
    \/ WriteSome("drain_write", "client", "drain")

\* A read or a write of a peer that has gone away.
Touches(s) ==
    \/ at = "select"
    \/ s = "client" /\ at \in {"write_client", "drain_write"}
    \/ s = "upstream" /\ at \in {"write_upstream", "drain"}

Fail == \E s \in Sides : gone[s] /\ Touches(s) /\ MoveTo("failed")

(* The peers *)

Present(s) == ~ ended[s] /\ ~ gone[s]

MaySend(s) ==
    /\ manner[s] = "answers" => got[s] = Total[Other(s)]
    /\ manner[s] = "reads_to_end" => Over

\* What a peer's own habits and its connection let it do.
CanSend(s) ==
    /\ ~ Over /\ Present(s) /\ MaySend(s)
    /\ sent[s] < Total[s] /\ inbound[s] < Room[s]

CanReceive(s) ==
    /\ ~ gone[s] /\ outbound[s] > 0
    /\ manner[s] = "writes_first" => sent[s] = Total[s] \/ Over

\* The end of a stream is the last that is sent on it.
CanEnd(s) ==
    /\ ~ Over /\ Present(s) /\ MaySend(s)
    /\ sent[s] = Total[s] /\ ending[s] # "never"
    /\ ending[s] = "when_served" => got[s] = Total[Other(s)]

PeerSends(s) ==
    /\ CanSend(s)
    /\ sent' = Plus(sent, s, 1) /\ inbound' = Plus(inbound, s, 1)
    /\ UNCHANGED <<habits, ended, gone, outbound, got, held, at>>

PeerReceives(s) ==
    /\ CanReceive(s)
    /\ outbound' = Minus(outbound, s, 1) /\ got' = Plus(got, s, 1)
    /\ UNCHANGED <<habits, sent, ended, gone, inbound, held, at>>

PeerEnds(s) ==
    /\ CanEnd(s)
    /\ ended' = [ended EXCEPT ![s] = TRUE]
    /\ UNCHANGED <<habits, sent, gone, inbound, outbound, got, held, at>>

PeerGoes(s) ==
    /\ MayGo /\ ~ Over /\ ~ gone[s]
    /\ gone' = [gone EXCEPT ![s] = TRUE]
    /\ UNCHANGED <<habits, sent, ended, inbound, outbound, got, held, at>>

-----------------------------------------------------------------------------
Loop ==
    \/ \E s \in Sides : SelectRead(s)
    \/ UpstreamEnds \/ ClientEnds
    \/ DrainRead \/ DrainEnds
    \/ Write \/ Fail

Peer(s) == PeerSends(s) \/ PeerReceives(s) \/ PeerEnds(s)

Next == Loop \/ \E s \in Sides : Peer(s) \/ PeerGoes(s)

Spec == Init /\ [][Next]_vars

\* The task is polled when something it waits for is ready, and peers do what
\* they are able to do.  Nobody has to go away.
FairSpec == Spec /\ WF_vars(Loop) /\ \A s \in Sides : WF_vars(Peer(s))

-----------------------------------------------------------------------------
(* Properties *)

\* The buffer holds bytes of the side that was read last.
HeldFrom(s) ==
    IF (s = "client") <=> (at = "write_upstream") THEN held ELSE 0

\* As long as no connection fails, every byte sent is in one place: not yet read, in the
\* buffer, written out, or received.  None is lost or doubled by partial reads,
\* partial writes and the choice between the two sides.
NoByteLost ==
    at # "failed" => \A s \in Sides :
        sent[s] = inbound[s] + HeldFrom(s) + outbound[Other(s)] + got[Other(s)]

\* The loop ends without an error only when the upstream has ended, and then
\* it has passed on all that the upstream sent, also after the client's end.
AnswerIsComplete ==
    at = "closed" =>
        /\ ended["upstream"]
        /\ outbound["client"] + got["client"] = sent["upstream"]

\* One task serves both directions, so that a peer that does not read stops
\* also the bytes of the other.  This is harmless if a peer that writes first
\* writes to one that answers; and nobody may wait for an end that the loop
\* does not pass on, or for a peer that waits as well.
Compatible ==
    /\ \A s \in Sides : manner[s] # "reads_to_end"
    /\ \A s \in Sides : manner[s] = "writes_first" => manner[Other(s)] = "answers"
    /\ \E s \in Sides : manner[s] # "answers"

\* An upstream that ends before it has read the request gives up on the rest.
WaitsForRequest == ending["upstream"] # "at_once" \/ manner["upstream"] = "answers"

Served ==
    /\ got["client"] = Total["upstream"]
    /\ WaitsForRequest => got["upstream"] = Total["client"]

\* Then both peers get everything, however small the buffers are.
BothServed == <>(Served \/ ~ Compatible \/ \E s \in Sides : gone[s])

\* When both peers have ended, the loop ends, and it ends as well when the one
\* it is writing to or waiting for has gone.
LoopEnds ==
    /\ (\A s \in Sides : ended[s]) ~> (Over \/ \E s \in Sides : gone[s])
    /\ (\A s \in Sides : gone[s]) ~> Over

(* The two reasons for which these hold: nobody waits in vain, and nobody goes *)
(* on for ever.                                                                *)

\* What the loop waits for where it stands.
LoopReady ==
    \/ at = "select" /\ \E s \in Sides : inbound[s] > 0 \/ ended[s]
    \/ at = "drain" /\ (inbound["upstream"] > 0 \/ ended["upstream"])
    \/ at \in {"write_client", "drain_write"} /\ outbound["client"] < Room["client"]
    \/ at = "write_upstream" /\ outbound["upstream"] < Room["upstream"]
    \/ \E s \in Sides : gone[s] /\ Touches(s)

PeerReady(s) == CanSend(s) \/ CanReceive(s) \/ CanEnd(s)

Standstill == ~ LoopReady /\ \A s \in Sides : ~ PeerReady(s)

\* Loop and peers come to a standstill, each waiting for another, only when
\* everything is said and done; with two peers that have ended or have gone, only
\* when the loop has returned.
StandsStillWhenDone ==
    Standstill =>
        /\ Served \/ ~ Compatible \/ \E s \in Sides : gone[s]
        /\ (\A s \in Sides : ended[s]) => Over \/ \E s \in Sides : gone[s]
        /\ (\A s \in Sides : gone[s]) => Over

\* What is left to do: each byte has four stations before it, the loop two stages.
LeftOf(s) ==
    4 * (Total[s] - sent[s]) + 3 * inbound[s] + outbound[s]
    + (IF ended[s] THEN 0 ELSE 1) + (IF gone[s] THEN 0 ELSE 1)

Stage == IF Over THEN 0 ELSE IF at \in {"drain", "drain_write"} THEN 1 ELSE 2

Left == LeftOf("client") + LeftOf("upstream") + 2 * held + Stage

\* Every step of the loop and of the peers leaves less to do than there was: none
\* spins, and a tunnel of finite streams stands still after finitely many steps.
EveryStepCounts == [][Left' \in Nat /\ Left' < Left]_vars

=============================================================================
