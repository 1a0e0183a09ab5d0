--------------------------- MODULE StreamCopyProofs ---------------------------
(***************************************************************************)
(* Theorems about StreamCopy, for connections and buffers of any size and  *)
(* any amount of bytes: types, that no byte is lost or doubled on the way, *)
(* that the loop does not end before the upstream's answer is out, and that *)
(* loop and peers get on with each other until everything is done.          *)
(***************************************************************************)
EXTENDS StreamCopy, TLAPS

\* The buffer is empty whenever the loop is about to read, and after the end.
BufferEmpty == at \in {"select", "drain", "closed"} => held = 0

\* The loop has closed on an upstream that has ended and been read to its end.
ReadToTheEnd == at = "closed" => ended["upstream"] /\ inbound["upstream"] = 0

CopyInv == TypeOK /\ BufferEmpty /\ ReadToTheEnd /\ NoByteLost

USE DEF Sides, Other

-----------------------------------------------------------------------------
(* Types *)

\* Reads take what is there, writes what fits: no count leaves its range.
LEMMA TypeStep == TypeOK /\ [Next]_vars => TypeOK'
<1> SUFFICES ASSUME TypeOK, [Next]_vars PROVE TypeOK'
    OBVIOUS
<1>0. Chunk \in Nat \ {0} /\ Room \in [Sides -> Nat \ {0}]
    BY ChunkAssumption, RoomAssumption
<1> USE DEF TypeOK, habits, Plus, Minus
<1>1. ASSUME NEW s \in Sides, NEW next \in Places, ReadInto(s, next) PROVE TypeOK'
    BY <1>0, <1>1 DEF ReadInto
<1>2. ASSUME NEW next \in Places, MoveTo(next) PROVE TypeOK'
    BY <1>2 DEF MoveTo
<1>3. ASSUME NEW here \in Places, NEW s \in Sides, NEW next \in Places,
             WriteSome(here, s, next)
      PROVE  TypeOK'
    BY <1>0, <1>3 DEF WriteSome
<1>4. ASSUME NEW s \in Sides, PeerSends(s) PROVE TypeOK'
    BY <1>0, <1>4 DEF PeerSends, CanSend
<1>5. ASSUME NEW s \in Sides, PeerReceives(s) PROVE TypeOK'
    BY <1>0, <1>5 DEF PeerReceives, CanReceive
<1>6. ASSUME NEW s \in Sides, PeerEnds(s) \/ PeerGoes(s) PROVE TypeOK'
    BY <1>6 DEF PeerEnds, PeerGoes
<1>7. CASE UNCHANGED vars
    BY <1>7 DEF vars
<1> HIDE DEF TypeOK, Plus, Minus
<1>8. CASE Loop
  <2>1. ASSUME NEW s \in Sides, SelectRead(s) PROVE TypeOK'
      BY <1>1, <2>1 DEF SelectRead, Places
  <2>2. CASE UpstreamEnds \/ ClientEnds \/ DrainEnds \/ Fail
      BY <1>2, <2>2 DEF UpstreamEnds, ClientEnds, DrainEnds, Fail, Places
  <2>3. CASE DrainRead
      BY <1>1, <2>3 DEF DrainRead, Places
  <2>4. CASE Write
      BY <1>3, <2>4 DEF Write, Places
  <2> QED BY <1>8, <2>1, <2>2, <2>3, <2>4 DEF Loop
<1> QED BY <1>4, <1>5, <1>6, <1>7, <1>8 DEF Next, Peer

\* The loop starts with nothing under way.
LEMMA TypeInit == Init => TypeOK
BY RoomAssumption, ChunkAssumption DEF Init, TypeOK, Places

\* Every count of bytes and every place of the loop (stream.rs) keeps its range.
THEOREM TypeCorrect == Spec => []TypeOK
BY TypeInit, TypeStep, PTL DEF Spec

-----------------------------------------------------------------------------
(* Bytes *)

\* A read moves bytes of one side from its connection into the empty buffer.
LEMMA ReadKeeps ==
    ASSUME CopyInv, NEW s \in Sides, NEW next \in Places, ReadInto(s, next),
           at \in {"select", "drain"}, next \in {"write_client", "write_upstream", "drain_write"},
           (s = "client") <=> (next = "write_upstream")
    PROVE  BufferEmpty' /\ ReadToTheEnd' /\ NoByteLost'
<1>1. /\ held = 0 /\ at' = next
      /\ UNCHANGED <<sent, outbound, got>>
    BY DEF ReadInto, CopyInv, BufferEmpty
<1>2. PICK n \in 1 .. Chunk : n <= inbound[s] /\ inbound' = Minus(inbound, s, n) /\ held' = n
    BY DEF ReadInto
<1>3. n \in Nat
    BY ChunkAssumption, <1>2
<1>4. NoByteLost'
    BY <1>1, <1>2, <1>3 DEF CopyInv, TypeOK, NoByteLost, HeldFrom, Minus
<1>5. BufferEmpty' /\ ReadToTheEnd'
    BY <1>1 DEF BufferEmpty, ReadToTheEnd
<1> QED BY <1>4, <1>5

\* A write moves bytes from the buffer to the other side's connection, and the
\* loop goes on to read only when the buffer is empty.
LEMMA WriteKeeps ==
    ASSUME CopyInv, NEW here \in Places, NEW s \in Sides, NEW next \in Places,
           WriteSome(here, s, next), next \in {"select", "drain"},
           \/ here = "write_client" /\ s = "client"
           \/ here = "write_upstream" /\ s = "upstream"
           \/ here = "drain_write" /\ s = "client"
    PROVE  BufferEmpty' /\ ReadToTheEnd' /\ NoByteLost'
<1>1. at = here /\ UNCHANGED <<sent, inbound, got>>
    BY DEF WriteSome
<1>2. PICK n \in 1 .. held :
        /\ outbound' = Plus(outbound, s, n) /\ held' = held - n
        /\ at' = IF n = held THEN next ELSE here
    BY DEF WriteSome
<1>3. held \in Nat /\ n \in Nat
    BY ChunkAssumption, <1>2 DEF CopyInv, TypeOK
<1>4. NoByteLost'
    BY <1>1, <1>2, <1>3 DEF CopyInv, TypeOK, NoByteLost, HeldFrom, Plus
<1>5. BufferEmpty' /\ ReadToTheEnd'
    BY <1>1, <1>2, <1>3 DEF BufferEmpty, ReadToTheEnd
<1> QED BY <1>4, <1>5

\* Every step of the loop and of the peers.
LEMMA CopyStep == CopyInv /\ [Next]_vars => CopyInv'
<1> SUFFICES ASSUME CopyInv, [Next]_vars PROVE BufferEmpty' /\ ReadToTheEnd' /\ NoByteLost'
    BY TypeStep DEF CopyInv
<1>0. TypeOK /\ BufferEmpty /\ ReadToTheEnd /\ NoByteLost
    BY DEF CopyInv
<1> DEFINE Kept == BufferEmpty' /\ ReadToTheEnd' /\ NoByteLost'
<1>1. ASSUME NEW s \in Sides, SelectRead(s) PROVE Kept
    BY <1>1, ReadKeeps DEF SelectRead, Places
<1>2. CASE DrainRead
    BY <1>2, ReadKeeps DEF DrainRead, Places
<1>3. CASE Write
    BY <1>3, WriteKeeps DEF Write, Places
<1>4. CASE UpstreamEnds \/ DrainEnds
    BY <1>0, <1>4 DEF UpstreamEnds, DrainEnds, MoveTo, AtEnd, BufferEmpty, ReadToTheEnd,
       NoByteLost, HeldFrom
<1>5. CASE ClientEnds
    BY <1>0, <1>5 DEF ClientEnds, MoveTo, BufferEmpty, ReadToTheEnd, NoByteLost, HeldFrom
<1>6. CASE Fail
    BY <1>0, <1>6 DEF Fail, MoveTo, BufferEmpty, ReadToTheEnd, NoByteLost
<1>7. ASSUME NEW s \in Sides, PeerSends(s) PROVE Kept
  <2>1. NoByteLost'
      BY <1>0, <1>7 DEF PeerSends, CanSend, TypeOK, NoByteLost, HeldFrom, Plus
  <2>2. BufferEmpty' /\ ReadToTheEnd'
      BY <1>0, <1>7 DEF PeerSends, CanSend, Over, BufferEmpty, ReadToTheEnd
  <2> QED BY <2>1, <2>2
<1>8. ASSUME NEW s \in Sides, PeerReceives(s) PROVE Kept
  <2>1. NoByteLost'
      BY <1>0, <1>8 DEF PeerReceives, CanReceive, TypeOK, NoByteLost, HeldFrom, Plus, Minus
  <2>2. BufferEmpty' /\ ReadToTheEnd'
      BY <1>0, <1>8 DEF PeerReceives, BufferEmpty, ReadToTheEnd
  <2> QED BY <2>1, <2>2
<1>9. ASSUME NEW s \in Sides, PeerEnds(s) \/ PeerGoes(s) PROVE Kept
    BY <1>0, <1>9 DEF PeerEnds, CanEnd, PeerGoes, Over, TypeOK, BufferEmpty, ReadToTheEnd, NoByteLost,
       HeldFrom
<1>10. CASE UNCHANGED vars
    BY <1>0, <1>10 DEF vars, BufferEmpty, ReadToTheEnd, NoByteLost, HeldFrom
<1> QED BY <1>1, <1>2, <1>3, <1>4, <1>5, <1>6, <1>7, <1>8, <1>9, <1>10 DEF Next, Loop, Peer

\* A copy that has just begun has lost nothing.
LEMMA CopyInit == Init => CopyInv
BY TypeInit DEF Init, CopyInv, BufferEmpty, ReadToTheEnd, NoByteLost, HeldFrom

\* In both directions every byte that a peer has sent is unread, in the buffer,
\* written or received, exactly once: copy_bidirectional neither drops nor
\* repeats any, whatever the sizes of reads and writes.
THEOREM NoByteIsLost == Spec => []NoByteLost
<1>1. CopyInv => NoByteLost
    BY DEF CopyInv
<1> QED BY <1>1, CopyInit, CopyStep, PTL DEF Spec

\* copy_bidirectional returns Ok only when the whole answer of an upstream that
\* has ended is written to the client, also when the client ended long before.
THEOREM AnswersAreComplete == Spec => []AnswerIsComplete
<1>1. CopyInv => AnswerIsComplete
  <2> SUFFICES ASSUME CopyInv, at = "closed" PROVE AnswerIsComplete
      BY DEF AnswerIsComplete
  <2>1. held = 0 /\ inbound["upstream"] = 0 /\ ended["upstream"]
      BY DEF CopyInv, BufferEmpty, ReadToTheEnd
  <2>2. sent["upstream"] = outbound["client"] + got["client"]
      BY <2>1 DEF CopyInv, TypeOK, NoByteLost, HeldFrom
  <2> QED BY <2>1, <2>2 DEF AnswerIsComplete
<1> QED BY <1>1, CopyInit, CopyStep, PTL DEF Spec

-----------------------------------------------------------------------------
(* Standing still *)

\* A peer sends no more than it has to say, and one that ends has said all of it.
SaysAll ==
    \A s \in Sides :
        /\ sent[s] <= Total[s]
        /\ ended[s] => sent[s] = Total[s] /\ ending[s] # "never"

\* The loop writes only what it has.
HoldsWhatItWrites == at \in {"write_client", "write_upstream", "drain_write"} => held > 0

\* It drains the upstream when the client has ended and been read to the end.
DrainsAfterClient == at \in {"drain", "drain_write"} => ended["client"] /\ inbound["client"] = 0

\* It fails only over a peer that has gone.
FailsOverGone == at = "failed" => \E s \in Sides : gone[s]

\* A peer that answers has heard all before it speaks or ends; one that ends when
\* it is served has been served.
HeardFirst ==
    at # "failed" => \A s \in Sides :
        \/ manner[s] = "answers" /\ (sent[s] > 0 \/ ended[s])
        \/ ending[s] = "when_served" /\ ended[s]
        => got[s] = Total[Other(s)]

FlowInv ==
    /\ CopyInv
    /\ SaysAll /\ HoldsWhatItWrites /\ DrainsAfterClient /\ FailsOverGone /\ HeardFirst

\* What every proof below needs of types.
LEMMA Counts ==
    ASSUME TypeOK
    PROVE  /\ \A s \in Sides : /\ sent[s] \in Nat /\ got[s] \in Nat
                                /\ inbound[s] \in Nat /\ outbound[s] \in Nat
                                /\ outbound[s] <= Room[s]
                                /\ Room[s] \in Nat \ {0} /\ Total[s] \in Nat
           /\ held \in Nat /\ Chunk \in Nat \ {0}
           /\ at \in Places
BY RoomAssumption, ChunkAssumption, TotalAssumption DEF TypeOK

\* What a peer has got, it has been sent.
LEMMA GotIsSent ==
    ASSUME CopyInv, at # "failed", NEW s \in Sides
    PROVE  got[s] + outbound[s] <= sent[Other(s)]
<1>1. HeldFrom(Other(s)) \in Nat
    BY Counts DEF CopyInv, HeldFrom
<1>2. sent[Other(s)] = inbound[Other(s)] + HeldFrom(Other(s)) + outbound[s] + got[s]
    BY DEF CopyInv, NoByteLost
<1>3. TypeOK
    BY DEF CopyInv
<1> QED BY <1>1, <1>2, <1>3, Counts

\* Reads and writes of the loop keep to what it stands before.
LEMMA FlowLoop == FlowInv /\ Loop => FlowInv'
<1> SUFFICES ASSUME FlowInv, Loop PROVE FlowInv'
    OBVIOUS
<1>1. CopyInv' /\ TypeOK
    BY CopyStep DEF FlowInv, CopyInv, Next
<1>2. UNCHANGED <<manner, ending, sent, ended, gone, got>>
    BY DEF Loop, SelectRead, ReadInto, UpstreamEnds, ClientEnds, DrainRead, DrainEnds, Write,
           WriteSome, Fail, MoveTo, habits
<1>3. at # "failed"
    BY DEF Loop, SelectRead, UpstreamEnds, ClientEnds, DrainRead, DrainEnds, Write, WriteSome,
           Fail, Touches
<1>4. SaysAll' /\ HeardFirst'
    BY <1>2, <1>3 DEF FlowInv, SaysAll, HeardFirst
<1> DEFINE Rest == HoldsWhatItWrites' /\ DrainsAfterClient' /\ FailsOverGone'
<1>5. ASSUME NEW s \in Sides, SelectRead(s) PROVE Rest
  <2>1. at' \in {"write_client", "write_upstream"} /\ held' > 0
    <3>1. PICK n \in 1 .. Chunk : held' = n
        BY <1>5 DEF SelectRead, ReadInto
    <3> QED BY <1>1, <1>5, <3>1, Counts DEF SelectRead, ReadInto
  <2> QED BY <2>1 DEF HoldsWhatItWrites, DrainsAfterClient, FailsOverGone
<1>6. ASSUME DrainRead PROVE Rest
  <2>1. at' = "drain_write" /\ held' > 0 /\ inbound'["client"] = inbound["client"]
    <3>1. PICK n \in 1 .. Chunk : held' = n /\ inbound' = Minus(inbound, "upstream", n)
        BY <1>6 DEF DrainRead, ReadInto
    <3> QED BY <1>1, <1>6, <3>1, Counts DEF DrainRead, ReadInto, Minus, TypeOK
  <2>2. at = "drain"
      BY <1>6 DEF DrainRead
  <2> QED BY <1>2, <2>1, <2>2 DEF FlowInv, HoldsWhatItWrites, DrainsAfterClient, FailsOverGone
<1>7. ASSUME ClientEnds PROVE Rest
    BY <1>2, <1>7 DEF ClientEnds, AtEnd, MoveTo, HoldsWhatItWrites, DrainsAfterClient,
                      FailsOverGone
<1>8. ASSUME UpstreamEnds \/ DrainEnds PROVE Rest
    BY <1>8 DEF UpstreamEnds, DrainEnds, MoveTo, HoldsWhatItWrites, DrainsAfterClient,
                FailsOverGone
<1>9. ASSUME Fail PROVE Rest
    BY <1>2, <1>9 DEF Fail, MoveTo, HoldsWhatItWrites, DrainsAfterClient, FailsOverGone
<1>10. ASSUME Write PROVE Rest
  <2>1. PICK here, next \in Places, s \in Sides :
            /\ WriteSome(here, s, next)
            /\ next \in {"select", "drain"}
            /\ here = "drain_write" <=> next = "drain"
            /\ here # "drain"
      BY <1>10 DEF Write, Places
  <2>2. PICK n \in 1 .. held :
            held' = held - n /\ at' = IF n = held THEN next ELSE here
      BY <2>1 DEF WriteSome
  <2>3. at = here /\ inbound' = inbound
      BY <2>1 DEF WriteSome
  <2>4. HoldsWhatItWrites'
      BY <1>1, <2>1, <2>2, Counts DEF HoldsWhatItWrites
  <2>5. DrainsAfterClient'
      BY <1>2, <2>1, <2>2, <2>3 DEF FlowInv, DrainsAfterClient
  <2>6. FailsOverGone'
      BY <1>3, <2>1, <2>2, <2>3 DEF FailsOverGone
  <2> QED BY <2>4, <2>5, <2>6
<1> QED BY <1>1, <1>4, <1>5, <1>6, <1>7, <1>8, <1>9, <1>10 DEF Loop, FlowInv

\* A peer that sends, receives, ends or goes keeps to its habits.
LEMMA FlowPeer == ASSUME FlowInv, NEW s \in Sides, Peer(s) \/ PeerGoes(s) PROVE FlowInv'
<1>1. CopyInv' /\ TypeOK /\ CopyInv
    BY CopyStep DEF FlowInv, CopyInv, Next
<1>2. UNCHANGED <<manner, ending, held, at>>
    BY DEF Peer, PeerSends, PeerReceives, PeerEnds, PeerGoes, habits
<1>3. HoldsWhatItWrites'
    BY <1>2 DEF FlowInv, HoldsWhatItWrites
<1>4. CASE PeerSends(s)
  <2>1. /\ CanSend(s) /\ sent' = [sent EXCEPT ![s] = @ + 1]
        /\ inbound' = [inbound EXCEPT ![s] = @ + 1]
        /\ UNCHANGED <<ended, gone, got>>
      BY <1>4 DEF PeerSends, Plus
  <2>2. SaysAll'
      BY <1>1, <1>2, <2>1, Counts DEF FlowInv, SaysAll, CanSend, Present, TypeOK
  <2>3. DrainsAfterClient' /\ FailsOverGone'
      BY <1>1, <1>2, <2>1 DEF FlowInv, DrainsAfterClient, FailsOverGone, CanSend, Present, TypeOK
  <2>4. HeardFirst'
      BY <1>1, <1>2, <2>1 DEF FlowInv, HeardFirst, CanSend, MaySend, TypeOK
  <2> QED BY <1>1, <1>3, <2>2, <2>3, <2>4 DEF FlowInv
<1>5. CASE PeerReceives(s)
  <2>1. /\ outbound[s] > 0 /\ got' = [got EXCEPT ![s] = @ + 1]
        /\ UNCHANGED <<sent, ended, gone, inbound>>
      BY <1>5 DEF PeerReceives, CanReceive, Plus
  <2>2. SaysAll' /\ DrainsAfterClient' /\ FailsOverGone'
      BY <1>2, <2>1 DEF FlowInv, SaysAll, DrainsAfterClient, FailsOverGone
  <2>3. at # "failed" => got[s] < Total[Other(s)]
      BY <1>1, <2>1, Counts, GotIsSent DEF FlowInv, SaysAll
  <2>4. HeardFirst'
      BY <1>1, <1>2, <2>1, <2>3, Counts DEF FlowInv, HeardFirst, TypeOK
  <2> QED BY <1>1, <1>3, <2>2, <2>4 DEF FlowInv
<1>6. CASE PeerEnds(s)
  <2>1. /\ CanEnd(s) /\ ended' = [ended EXCEPT ![s] = TRUE]
        /\ UNCHANGED <<sent, gone, inbound, got>>
      BY <1>6 DEF PeerEnds
  <2>2. SaysAll' /\ DrainsAfterClient' /\ FailsOverGone'
      BY <1>1, <1>2, <2>1 DEF FlowInv, SaysAll, DrainsAfterClient, FailsOverGone, CanEnd, TypeOK
  <2>3. HeardFirst'
      BY <1>1, <1>2, <2>1 DEF FlowInv, HeardFirst, CanEnd, MaySend, TypeOK
  <2> QED BY <1>1, <1>3, <2>2, <2>3 DEF FlowInv
<1>7. CASE PeerGoes(s)
  <2>1. gone' = [gone EXCEPT ![s] = TRUE] /\ UNCHANGED <<sent, ended, inbound, got>>
      BY <1>7 DEF PeerGoes
  <2>2. FailsOverGone'
      BY <1>1, <1>2, <2>1 DEF FlowInv, FailsOverGone, TypeOK
  <2>3. SaysAll' /\ DrainsAfterClient' /\ HeardFirst'
      BY <1>2, <2>1 DEF FlowInv, SaysAll, DrainsAfterClient, HeardFirst
  <2> QED BY <1>1, <1>3, <2>2, <2>3 DEF FlowInv
<1> QED BY <1>4, <1>5, <1>6, <1>7 DEF Peer

LEMMA FlowInvariant == Spec => []FlowInv
<1>1. Init => FlowInv
  <2> SUFFICES ASSUME Init PROVE FlowInv
      OBVIOUS
  <2>1. SaysAll
      BY TotalAssumption DEF Init, SaysAll
  <2> QED BY <2>1, CopyInit DEF Init, FlowInv, HoldsWhatItWrites, DrainsAfterClient,
                                FailsOverGone, HeardFirst
<1>2. FlowInv /\ [Next]_vars => FlowInv'
  <2> SUFFICES ASSUME FlowInv, [Next]_vars PROVE FlowInv'
      OBVIOUS
  <2>1. CASE UNCHANGED vars
    <3>1. CopyInv'
        BY CopyStep DEF FlowInv
    <3> QED BY <2>1, <3>1 DEF vars, habits, FlowInv, SaysAll, HoldsWhatItWrites,
                              DrainsAfterClient, FailsOverGone, HeardFirst
  <2> QED BY <2>1, FlowLoop, FlowPeer DEF Next
<1> QED BY <1>1, <1>2, PTL DEF Spec

\* A side that has said all, with nothing of it on the way, has been heard.
LEMMA AllHeard ==
    ASSUME CopyInv, at # "failed", NEW s \in Sides,
           sent[s] = Total[s], inbound[s] = 0, held = 0, outbound[Other(s)] = 0
    PROVE  got[Other(s)] = Total[s]
<1>1. TypeOK
    BY DEF CopyInv
<1>2. HeldFrom(s) = 0
    BY DEF HeldFrom
<1>3. sent[s] = inbound[s] + HeldFrom(s) + outbound[Other(s)] + got[Other(s)]
    BY DEF CopyInv, NoByteLost
<1> QED BY <1>1, <1>2, <1>3, Counts

\* Where nobody can move, a peer that is there and may send has sent all, and a
\* peer that has sent all has received all that was written to it.
LEMMA IdlePeers ==
    ASSUME FlowInv, Standstill, NEW s \in Sides, ~ gone[s]
    PROVE  /\ ~ Over /\ MaySend(s) /\ inbound[s] = 0 => sent[s] = Total[s]
           /\ sent[s] = Total[s] \/ Over \/ manner[s] # "writes_first" => outbound[s] = 0
<1>1. ~ CanSend(s) /\ ~ CanReceive(s) /\ TypeOK
    BY DEF Standstill, PeerReady, FlowInv, CopyInv
<1>2. ASSUME ~ Over, MaySend(s), inbound[s] = 0 PROVE sent[s] = Total[s]
  <2>1. CASE ended[s]
      BY <2>1 DEF FlowInv, SaysAll
  <2>2. CASE ~ ended[s]
    <3>1. ~ (sent[s] < Total[s])
        BY <1>1, <1>2, <2>2, Counts DEF CanSend, Present
    <3> QED BY <1>1, <3>1, Counts DEF FlowInv, SaysAll
  <2> QED BY <2>1, <2>2
<1>3. ASSUME sent[s] = Total[s] \/ Over \/ manner[s] # "writes_first" PROVE outbound[s] = 0
    BY <1>1, <1>3, Counts DEF CanReceive
<1> QED BY <1>2, <1>3

\* A loop that waits to write waits for a peer that writes first, to whom its peer
\* answers: then that peer has said nothing yet, and the loop has nothing of it.
LEMMA NoFullWrite ==
    ASSUME FlowInv, Standstill, Compatible, NEW s \in Sides, ~ gone[s], ~ gone[Other(s)],
           ~ Over, held > 0, HeldFrom(Other(s)) = held, ~ (outbound[s] < Room[s])
    PROVE  FALSE
<1>0. TypeOK /\ CopyInv /\ Other(s) \in Sides /\ Other(Other(s)) = s /\ at # "failed"
    BY DEF FlowInv, CopyInv, Over
<1>1. outbound[s] # 0
    BY <1>0, Counts
<1>2. manner[s] = "writes_first" /\ sent[s] # Total[s]
    BY <1>1, IdlePeers
<1>3. manner[Other(s)] = "answers"
    BY <1>2 DEF Compatible
<1>4. sent[Other(s)] > 0
  <2>1. sent[Other(s)] = inbound[Other(s)] + held + outbound[s] + got[s]
      BY <1>0 DEF CopyInv, NoByteLost
  <2> QED BY <1>0, <2>1, Counts
<1>5. got[Other(s)] = Total[s]
    BY <1>0, <1>3, <1>4 DEF FlowInv, HeardFirst
<1>6. got[Other(s)] <= sent[s] /\ sent[s] <= Total[s]
  <2>1. got[Other(s)] + outbound[Other(s)] <= sent[s]
      BY <1>0, GotIsSent
  <2> QED BY <1>0, <2>1, Counts DEF FlowInv, SaysAll
<1> QED BY <1>0, <1>2, <1>5, <1>6, Counts

\* Where the loop has closed, the answer was passed on and is received by now.
LEMMA DoneWhenClosed ==
    ASSUME FlowInv, Standstill, at = "closed", \A s \in Sides : ~ gone[s]
    PROVE  Served
<1>0. TypeOK /\ CopyInv
    BY DEF FlowInv, CopyInv
<1>1. outbound["client"] = 0 /\ outbound["upstream"] = 0
    BY IdlePeers DEF Over
<1>2. ended["upstream"] /\ sent["upstream"] = Total["upstream"]
    BY <1>0 DEF FlowInv, CopyInv, ReadToTheEnd, SaysAll
<1>3. got["client"] = Total["upstream"]
  <2>1. held = 0 /\ inbound["upstream"] = 0
      BY <1>0 DEF CopyInv, BufferEmpty, ReadToTheEnd
  <2> QED BY <1>0, <1>1, <1>2, <2>1, AllHeard
<1>4. WaitsForRequest => got["upstream"] = Total["client"]
  <2> SUFFICES ASSUME WaitsForRequest PROVE got["upstream"] = Total["client"]
      OBVIOUS
  <2>1. ending["upstream"] # "never"
      BY <1>2 DEF FlowInv, SaysAll
  <2>2. ending["upstream"] \in Endings
      BY <1>0 DEF TypeOK
  <2>3. ending["upstream"] = "when_served" \/ manner["upstream"] = "answers"
      BY <2>1, <2>2 DEF WaitsForRequest, Endings
  <2> QED BY <1>2, <2>3 DEF FlowInv, HeardFirst
<1> QED BY <1>3, <1>4 DEF Served

\* Where the loop waits for bytes of either side, one of them talks first, the
\* other hears it out and answers: both have heard all.
LEMMA DoneInSelect ==
    ASSUME FlowInv, Standstill, Compatible, at = "select", \A s \in Sides : ~ gone[s]
    PROVE  Served
<1>0. TypeOK /\ CopyInv /\ ~ Over /\ at # "failed" /\ held = 0
    BY DEF FlowInv, CopyInv, BufferEmpty, Over
<1>1. \A s \in Sides : inbound[s] = 0
    BY <1>0, Counts DEF Standstill, LoopReady
<1>2. PICK s \in Sides : manner[s] # "answers"
    BY DEF Compatible
<1>3. /\ Other(s) \in Sides /\ Other(Other(s)) = s
      /\ manner[s] # "reads_to_end" /\ manner[Other(s)] # "reads_to_end"
      /\ manner[Other(s)] # "writes_first"
    BY <1>2 DEF Compatible
<1>4. sent[s] = Total[s]
    BY <1>0, <1>1, <1>2, <1>3, IdlePeers DEF MaySend
<1>5. got[Other(s)] = Total[s]
    BY <1>0, <1>1, <1>3, <1>4, IdlePeers, AllHeard
<1>6. sent[Other(s)] = Total[Other(s)]
    BY <1>0, <1>1, <1>3, <1>5, IdlePeers DEF MaySend
<1>7. got[s] = Total[Other(s)]
    BY <1>0, <1>1, <1>3, <1>4, <1>6, IdlePeers, AllHeard
<1> QED BY <1>5, <1>7 DEF Served

\* Where it drains, the client has said all and been read to the end.
LEMMA DoneInDrain ==
    ASSUME FlowInv, Standstill, Compatible, at = "drain", \A s \in Sides : ~ gone[s]
    PROVE  Served
<1>0. TypeOK /\ CopyInv /\ ~ Over /\ at # "failed" /\ held = 0
    BY DEF FlowInv, CopyInv, BufferEmpty, Over
<1>1. sent["client"] = Total["client"] /\ inbound["client"] = 0
    BY DEF FlowInv, DrainsAfterClient, SaysAll
<1>2. inbound["upstream"] = 0 /\ outbound["client"] = 0
    BY <1>0, <1>1, IdlePeers, Counts DEF Standstill, LoopReady
<1>3. manner["upstream"] # "reads_to_end"
    BY DEF Compatible
<1>4. outbound["upstream"] = 0
  <2>1. CASE manner["upstream"] = "writes_first"
    <3>1. sent["upstream"] = Total["upstream"]
        BY <1>0, <1>2, <2>1, IdlePeers DEF MaySend
    <3> QED BY <3>1, IdlePeers
  <2>2. CASE manner["upstream"] # "writes_first"
      BY <2>2, IdlePeers
  <2> QED BY <2>1, <2>2
<1>5. got["upstream"] = Total["client"]
    BY <1>0, <1>1, <1>4, AllHeard
<1>6. sent["upstream"] = Total["upstream"]
    BY <1>0, <1>2, <1>3, <1>5, IdlePeers DEF MaySend
<1>7. got["client"] = Total["upstream"]
    BY <1>0, <1>2, <1>6, AllHeard
<1> QED BY <1>5, <1>7 DEF Served

\* copy_bidirectional and its peers never wait for each other in a circle: where
\* none of them can move, compatible peers have been served; peers that have both
\* ended, or both gone, find the loop returned.
THEOREM NobodyWaitsInVain == Spec => []StandsStillWhenDone
<1>1. FlowInv => StandsStillWhenDone
  <2> SUFFICES ASSUME FlowInv, Standstill
               PROVE  /\ Served \/ ~ Compatible \/ \E s \in Sides : gone[s]
                      /\ (\A s \in Sides : ended[s]) => Over \/ \E s \in Sides : gone[s]
                      /\ (\A s \in Sides : gone[s]) => Over
      BY DEF StandsStillWhenDone
  <2>0. TypeOK /\ at \in Places
      BY Counts DEF FlowInv, CopyInv
  <2>1. ASSUME ~ Over, \A s \in Sides : ~ gone[s],
               at \notin {"select", "drain"}, Compatible \/ \A s \in Sides : ended[s]
        PROVE  FALSE
    <3>1. PICK s \in Sides : /\ ~ (outbound[s] < Room[s])
                             /\ HeldFrom(Other(s)) = held
                             /\ held > 0
        BY <2>0, <2>1 DEF Standstill, LoopReady, Over, Places, HeldFrom, FlowInv,
                          HoldsWhatItWrites
    <3>2. CASE Compatible
        BY <2>1, <3>1, <3>2, NoFullWrite
    <3>3. CASE \A t \in Sides : ended[t]
      <4>1. sent[s] = Total[s]
          BY <3>3 DEF FlowInv, SaysAll
      <4>2. outbound[s] = 0
          BY <2>1, <4>1, IdlePeers
      <4> QED BY <2>0, <3>1, <4>2, Counts
    <3> QED BY <2>1, <3>2, <3>3
  <2>2. ASSUME Compatible, \A s \in Sides : ~ gone[s] PROVE Served
    <3>1. CASE at = "closed"
        BY <2>2, <3>1, DoneWhenClosed
    <3>2. CASE at = "failed"
        BY <2>2, <3>2 DEF FlowInv, FailsOverGone
    <3>3. CASE at \in {"select", "drain"}
        BY <2>2, <3>3, DoneInSelect, DoneInDrain
    <3> QED BY <2>1, <2>2, <3>1, <3>2, <3>3 DEF Over
  <2>3. ASSUME \A s \in Sides : ended[s], \A s \in Sides : ~ gone[s] PROVE Over
    <3>1. at \notin {"select", "drain"}
        BY <2>3 DEF Standstill, LoopReady
    <3> QED BY <2>1, <2>3, <3>1
  <2>4. ASSUME \A s \in Sides : gone[s] PROVE Over
      BY <2>0, <2>4 DEF Standstill, LoopReady, Touches, Over, Places
  <2> QED BY <2>2, <2>3, <2>4
<1> QED BY <1>1, FlowInvariant, PTL

-----------------------------------------------------------------------------
(* Getting on *)

\* What is left is a number of things.
Countable ==
    /\ Left \in Nat /\ held \in Nat /\ Stage \in Nat
    /\ \A s \in Sides : LeftOf(s) \in Nat

LEMMA LeftIsNat == FlowInv => Countable
<1> SUFFICES ASSUME FlowInv PROVE Countable
    OBVIOUS
<1>1. TypeOK
    BY DEF FlowInv, CopyInv
<1>2. ASSUME NEW s \in Sides PROVE LeftOf(s) \in Nat
    BY <1>1, <1>2, Counts DEF FlowInv, SaysAll, LeftOf
<1>3. Stage \in Nat
    BY DEF Stage
<1> QED BY <1>1, <1>2, <1>3, Counts DEF Left, Countable

\* Also after a step.
LEMMA LeftStaysNat == ASSUME FlowInv' PROVE Countable'
<1>1. (FlowInv => Countable)'
    BY LeftIsNat, PTL
<1> QED BY <1>1

\* A step that concerns one side counts on that side, the buffer and the place.
LEMMA OneSideCounts ==
    ASSUME FlowInv, FlowInv', NEW s \in Sides, UNCHANGED LeftOf(Other(s)),
           LeftOf(s)' + 2 * held' + Stage' < LeftOf(s) + 2 * held + Stage
    PROVE  Left' < Left
<1>1. Countable /\ Countable'
    BY LeftIsNat, LeftStaysNat
<1>2. CASE s = "client"
    BY <1>1, <1>2 DEF Countable, Left
<1>3. CASE s = "upstream"
    BY <1>1, <1>3 DEF Countable, Left
<1> QED BY <1>2, <1>3

\* A read: its bytes have one station behind them.
LEMMA ReadCounts ==
    ASSUME FlowInv, FlowInv', NEW s \in Sides, NEW next \in Places, ReadInto(s, next),
           held = 0, Stage' = Stage
    PROVE  Left' < Left
<1>1. TypeOK /\ \A t \in Sides : sent[t] <= Total[t]
    BY DEF FlowInv, CopyInv, SaysAll
<1>2. PICK n \in 1 .. Chunk :
        n <= inbound[s] /\ inbound' = [inbound EXCEPT ![s] = @ - n] /\ held' = n
    BY DEF ReadInto, Minus
<1>3. UNCHANGED <<sent, ended, gone, outbound>>
    BY DEF ReadInto
<1>4. n \in Nat /\ n > 0
    BY <1>1, <1>2, Counts
<1>5. inbound'[s] = inbound[s] - n /\ inbound'[Other(s)] = inbound[Other(s)]
    BY <1>1, <1>2 DEF TypeOK
<1>6. UNCHANGED LeftOf(Other(s))
    BY <1>3, <1>5 DEF LeftOf
<1>7. LeftOf(s)' + 3 * n = LeftOf(s)
    BY <1>1, <1>3, <1>4, <1>5, Counts DEF LeftOf
<1>8. Countable /\ Countable'
    BY LeftIsNat, LeftStaysNat
<1>9. LeftOf(s)' + 2 * held' + Stage' < LeftOf(s) + 2 * held + Stage
    BY <1>2, <1>4, <1>7, <1>8 DEF Countable
<1> QED BY <1>6, <1>9, OneSideCounts

\* A write, whole or not: its bytes have another.
LEMMA WriteCounts ==
    ASSUME FlowInv, FlowInv', NEW here \in Places, NEW s \in Sides, NEW next \in Places,
           WriteSome(here, s, next), Stage' = Stage
    PROVE  Left' < Left
<1>1. TypeOK /\ \A t \in Sides : sent[t] <= Total[t]
    BY DEF FlowInv, CopyInv, SaysAll
<1>2. PICK n \in 1 .. held : outbound' = [outbound EXCEPT ![s] = @ + n] /\ held' = held - n
    BY DEF WriteSome, Plus
<1>3. UNCHANGED <<sent, ended, gone, inbound>>
    BY DEF WriteSome
<1>4. n \in Nat /\ n > 0 /\ held \in Nat
    BY <1>1, <1>2, Counts
<1>5. outbound'[s] = outbound[s] + n /\ outbound'[Other(s)] = outbound[Other(s)]
    BY <1>1, <1>2 DEF TypeOK
<1>6. UNCHANGED LeftOf(Other(s))
    BY <1>3, <1>5 DEF LeftOf
<1>7. LeftOf(s)' = LeftOf(s) + n
    BY <1>1, <1>3, <1>4, <1>5, Counts DEF LeftOf
<1>8. Countable
    BY LeftIsNat
<1>9. LeftOf(s)' + 2 * held' + Stage' < LeftOf(s) + 2 * held + Stage
    BY <1>2, <1>4, <1>7, <1>8 DEF Countable
<1> QED BY <1>6, <1>9, OneSideCounts

\* The loop goes on to what comes later, with all else as it was.
LEMMA MoveCounts ==
    ASSUME FlowInv, FlowInv', NEW next \in Places, MoveTo(next), Stage' < Stage
    PROVE  Left' < Left
<1>1. UNCHANGED <<sent, ended, gone, inbound, outbound, held>> /\ TypeOK
    BY DEF MoveTo, FlowInv, CopyInv
<1>2. UNCHANGED LeftOf("upstream") /\ UNCHANGED LeftOf("client")
    BY <1>1 DEF LeftOf
<1>3. Countable /\ Countable'
    BY LeftIsNat, LeftStaysNat
<1>4. LeftOf("client")' + 2 * held' + Stage' < LeftOf("client") + 2 * held + Stage
    BY <1>1, <1>2, <1>3 DEF Countable
<1> QED BY <1>2, <1>4, OneSideCounts

\* A peer that sends, receives, ends or goes.
LEMMA PeerCounts ==
    ASSUME FlowInv, FlowInv', NEW s \in Sides, Peer(s) \/ PeerGoes(s)
    PROVE  Left' < Left
<1>1. TypeOK /\ \A t \in Sides : sent[t] <= Total[t]
    BY DEF FlowInv, CopyInv, SaysAll
<1>2. UNCHANGED <<held, at, Stage>>
    BY DEF Peer, PeerSends, PeerReceives, PeerEnds, PeerGoes, Stage, Over
<1>3. Countable /\ Countable'
    BY LeftIsNat, LeftStaysNat
<1> DEFINE Falls == UNCHANGED LeftOf(Other(s)) /\ LeftOf(s)' < LeftOf(s)
<1>4. ASSUME PeerSends(s) PROVE Falls
  <2>1. /\ sent'[s] = sent[s] + 1 /\ inbound'[s] = inbound[s] + 1
        /\ sent'[Other(s)] = sent[Other(s)] /\ inbound'[Other(s)] = inbound[Other(s)]
        /\ UNCHANGED <<ended, gone, outbound>>
      BY <1>1, <1>4 DEF PeerSends, Plus, TypeOK
  <2> QED BY <1>1, <2>1, Counts DEF LeftOf
<1>5. ASSUME PeerReceives(s) PROVE Falls
  <2>1. /\ outbound'[s] = outbound[s] - 1 /\ outbound'[Other(s)] = outbound[Other(s)]
        /\ UNCHANGED <<sent, ended, gone, inbound>>
      BY <1>1, <1>5 DEF PeerReceives, Minus, TypeOK
  <2> QED BY <1>1, <2>1, Counts DEF LeftOf
<1>6. ASSUME PeerEnds(s) PROVE Falls
  <2>1. /\ ~ ended[s] /\ ended'[s] /\ ended'[Other(s)] = ended[Other(s)]
        /\ UNCHANGED <<sent, gone, inbound, outbound>>
      BY <1>1, <1>6 DEF PeerEnds, CanEnd, Present, TypeOK
  <2> QED BY <1>1, <2>1, Counts DEF LeftOf
<1>7. ASSUME PeerGoes(s) PROVE Falls
  <2>1. /\ ~ gone[s] /\ gone'[s] /\ gone'[Other(s)] = gone[Other(s)]
        /\ UNCHANGED <<sent, ended, inbound, outbound>>
      BY <1>1, <1>7 DEF PeerGoes, TypeOK
  <2> QED BY <1>1, <2>1, Counts DEF LeftOf
<1>8. Falls
    BY <1>4, <1>5, <1>6, <1>7 DEF Peer
<1>9. LeftOf(s)' + 2 * held' + Stage' < LeftOf(s) + 2 * held + Stage
    BY <1>2, <1>3, <1>8 DEF Countable
<1> QED BY <1>8, <1>9, OneSideCounts

\* No step of copy_bidirectional or of a peer leaves as much to do as there was: the
\* loop does not spin at an end it has seen, and no byte is taken up twice.  As
\* numbers do not fall for ever, a tunnel comes to a standstill, which is where
\* NobodyWaitsInVain speaks.
THEOREM StepsAreCounted == Spec => EveryStepCounts
<1>1. FlowInv /\ FlowInv' /\ [Next]_vars => [Left' \in Nat /\ Left' < Left]_vars
  <2> SUFFICES ASSUME FlowInv, FlowInv', Next PROVE Left' \in Nat /\ Left' < Left
      OBVIOUS
  <2>0. Left' \in Nat
      BY LeftStaysNat DEF Countable
  <2>1. ASSUME NEW s \in Sides, SelectRead(s) PROVE Left' < Left
    <3>1. held = 0 /\ Stage = 2 /\ Stage' = 2
        BY <2>1 DEF SelectRead, ReadInto, FlowInv, CopyInv, BufferEmpty, Stage, Over
    <3> QED BY <2>1, <3>1, ReadCounts DEF SelectRead, Places
  <2>2. CASE DrainRead
    <3>1. held = 0 /\ Stage = 1 /\ Stage' = 1
        BY <2>2 DEF DrainRead, ReadInto, FlowInv, CopyInv, BufferEmpty, Stage, Over
    <3>2. ReadInto("upstream", "drain_write") /\ "drain_write" \in Places
        BY <2>2 DEF DrainRead, Places
    <3> QED BY <2>0, <3>1, <3>2, ReadCounts
  <2>3. CASE Write
    <3>1. PICK here, next \in Places, s \in Sides :
              /\ WriteSome(here, s, next)
              /\ \/ here = "drain_write" /\ next = "drain"
                 \/ here \in {"write_client", "write_upstream"} /\ next = "select"
        BY <2>3 DEF Write, Places
    <3>2. at = here
        BY <3>1 DEF WriteSome
    <3>3. at' = here \/ at' = next
        BY <3>1 DEF WriteSome
    <3>4. Stage' = Stage
        BY <3>1, <3>2, <3>3 DEF Stage, Over
    <3>5. WriteSome(here, s, next)
        BY <3>1
    <3> QED BY <2>0, <3>4, <3>5, WriteCounts
  <2>4. CASE UpstreamEnds \/ ClientEnds \/ DrainEnds \/ Fail
    <3>1. PICK next \in {"closed", "failed", "drain"} :
              MoveTo(next) /\ ~ Over /\ (next = "drain" => at = "select")
        BY <2>4 DEF UpstreamEnds, ClientEnds, DrainEnds, Fail, Touches, Over
    <3>2. Stage' < Stage
        BY <3>1 DEF MoveTo, Stage, Over
    <3>3. next \in Places
        BY DEF Places
    <3> QED BY <2>0, <3>1, <3>2, <3>3, MoveCounts
  <2>5. ASSUME NEW s \in Sides, Peer(s) \/ PeerGoes(s) PROVE Left' < Left
      BY <2>5, PeerCounts
  <2> QED BY <2>0, <2>1, <2>2, <2>3, <2>4, <2>5 DEF Next, Loop
<1> QED BY <1>1, FlowInvariant, PTL DEF Spec, EveryStepCounts
=============================================================================
