---------------------------- MODULE InnerRequest ----------------------------
(***************************************************************************)
(* How the proxy takes the first request from an intercepted tunnel         *)
(* (crates/proxy/src/proxy.rs): read_http_request collects what the reads   *)
(* happen to return until headers and body are there, rewrite_request puts  *)
(* the real key in the place of the placeholder, and from then on the copy  *)
(* loop passes on whatever comes, unread.                                   *)
(*                                                                         *)
(* A stream is a sequence of tokens: a line of headers each, or a piece of  *)
(* a body.  A read returns any number of them that has arrived, up to the   *)
(* size of the buffer.  Abstracted: a line is cut by no read; the upstream  *)
(* counts as ready to take everything (the copy loop is StreamCopy).        *)
(***************************************************************************)
EXTENDS Naturals, Sequences, SequencesExt

CONSTANTS
    Conversations,  \* what clients may say: [stream, ends, waits]
    Keys,           \* placeholders and real keys
    KeyMap,         \* dummy_to_real of the session: placeholder -> real key
    NoKey,          \* no such line
    ReadSize        \* tokens a read returns at most (4 KiB in the code)

\* A token has a kind and, if the kind says so, a key or a length:
\*   request, host, upstream_host, header     lines (the third as rewritten)
\*   bearer [key], basic                      lines named Authorization
\*   length [n], chunked, upgrade, websocket  lines that the code looks for
\*   malformed                                a line that httparse refuses
\*   blank                                    the empty line after the headers
\*   data, binary, replaced                   a piece of a body: text, not UTF-8,
\*                                            and what from_utf8_lossy makes of it
\*   last, trailers                           the last chunk, without or with trailers
\*   zero                                     a piece of a chunk with 0\r\n\r\n in it
\*   forbidden                                the proxy's own 403
Kinds == {"request", "host", "upstream_host", "header", "bearer", "basic",
          "length", "chunked", "upgrade", "websocket", "malformed", "blank",
          "data", "binary", "replaced", "last", "trailers", "zero", "forbidden"}

Token == [kind : Kinds \ {"bearer", "length"}]
         \union [kind : {"bearer"}, key : Keys]
         \union [kind : {"length"}, n : Nat]

Tok(kind)   == [kind |-> kind]
Bearer(key) == [kind |-> "bearer", key |-> key]
Length(n)   == [kind |-> "length", n |-> n]

Authorization == {"bearer", "basic"}
Hosts == {"host", "upstream_host"}

\* How the client goes on.
Waits == {"answer",    \* sends a request when the one before is answered
          "continue",  \* and its body when told to, or out of patience
          "no"}        \* sends everything at once

\* A conversation is the stream, where each request of it ends, and how the client
\* goes on.  It begins with the line and the headers of a request, and a last
\* chunk is the last of a request.
ASSUME ConversationsAssumption ==
    \A c \in Conversations :
        /\ c \in [stream : Seq(Token), ends : Seq(Nat), waits : Waits]
        /\ c.ends # <<>> /\ c.ends[Len(c.ends)] = Len(c.stream)
        /\ \A j, k \in DOMAIN c.ends : j < k => c.ends[j] < c.ends[k]
        /\ c.ends[1] > 0 /\ c.stream[1].kind = "request"
        /\ \E i \in 1 .. c.ends[1] : c.stream[i].kind = "blank"
        /\ \A i \in DOMAIN c.stream :
             c.stream[i].kind = "last" => \E k \in DOMAIN c.ends : i = c.ends[k]

ASSUME KeysAssumption == KeyMap \in [DOMAIN KeyMap -> Keys] /\ DOMAIN KeyMap \subseteq Keys
ASSUME NoKeyAssumption == NoKey \notin Keys
ASSUME ReadSizeAssumption == ReadSize \in Nat

VARIABLES
    conversation,  \* what this client says
    sent,          \* tokens it has sent
    ended,         \* it has ended its stream
    impatient,     \* it no longer waits for "100 Continue"
    read,          \* tokens the proxy has read
    buf,           \* buf of read_http_request
    phase,         \* where the tunnel's task stands
    out            \* what it has written to the upstream

client == <<conversation, sent, ended, impatient>>
vars == <<client, read, buf, phase, out>>

Phases == {"headers", "chunked", "length", "decide", "copy", "refused", "failed"}

Stream == conversation.stream

\* The first request, up to the last of its body.
FirstRequest == SubSeq(Stream, 1, conversation.ends[1])

TypeOK ==
    /\ conversation \in Conversations
    /\ sent \in 0 .. Len(Stream) /\ read \in 0 .. sent
    /\ ended \in BOOLEAN /\ impatient \in BOOLEAN
    /\ buf \in Seq(Token) /\ Len(buf) <= read
    /\ phase \in Phases
    /\ out \in Seq(Token)

-----------------------------------------------------------------------------
(* Looking at a buffer *)

First(s, kinds, from) ==
    SelectInSubSeq(s, from, Len(s), LAMBDA t : t.kind \in kinds)

\* Position of the end of the headers, or 0: find_header_end.
HeaderEnd(s) == First(s, {"blank"}, 1)
HeadersOf(s) == SubSeq(s, 1, HeaderEnd(s))
Has(s, kind) == \E i \in DOMAIN s : s[i].kind = kind

Malformed(s) == Has(HeadersOf(s), "malformed")
IsChunked(s) == Has(HeadersOf(s), "chunked")

\* The last Content-Length counts; none is as good as 0.
ContentLength(s) ==
    LET at == SelectLastInSeq(HeadersOf(s), LAMBDA t : t.kind = "length")
    IN  IF at = 0 THEN 0 ELSE s[at].n

\* How many tokens of the body are still to come: `remaining'.
Complete(s)  == Len(s) >= HeaderEnd(s) + ContentLength(s)
Remaining(s) == HeaderEnd(s) + ContentLength(s) - Len(s)

\* Where 0\r\n\r\n ends, whatever it is: find_terminator.
Terminator(s) == First(s, {"last", "zero"}, HeaderEnd(s) + 1)

\* Looks at all the lines, those of the body included.
IsWebsocketUpgrade(s) == Has(s, "upgrade") /\ Has(s, "websocket")

\* The first line Authorization: Bearer, anywhere.
NamedKey(s) ==
    LET at == First(s, {"bearer"}, 1) IN IF at = 0 THEN NoKey ELSE s[at].key

-----------------------------------------------------------------------------
(* rewrite_request: all the lines of the buffer, the body included *)

\* The tokens of some kinds, in order.
Only(s, kinds) ==
    LET kept[n \in 0 .. Len(s)] ==
            IF n = 0 THEN <<>>
            ELSE IF s[n].kind \in kinds THEN Append(kept[n - 1], s[n])
            ELSE kept[n - 1]
    IN  kept[Len(s)]

Strip(s) == Only(s, Kinds \ Authorization)

Renamed(t) == CASE t.kind = "host"   -> Tok("upstream_host")
                [] t.kind = "binary" -> Tok("replaced")
                [] OTHER             -> t

Rewritten_KeepsOld(s) ==                \* the placeholder is not stripped
    LET lines == [i \in DOMAIN s |-> Renamed(s[i])]
    IN  InsertAt(lines, 2, Bearer(KeyMap[NamedKey(s)]))

Rewritten(s) ==
    LET kept  == Strip(s)
        lines == [i \in DOMAIN kept |-> Renamed(kept[i])]
    IN  InsertAt(lines, 2, Bearer(KeyMap[NamedKey(s)]))

-----------------------------------------------------------------------------
Init ==
    /\ conversation \in Conversations
    /\ sent = 0 /\ ended = FALSE /\ impatient = FALSE
    /\ read = 0 /\ buf = <<>>
    /\ phase = "headers"
    /\ out = <<>>

(* read_http_request *)

Arriving(n) == SubSeq(Stream, read + 1, read + n)

\* As a bug would have it (and so the other definitions with a second name).
Becomes_Twice(s, next) == buf' = buf \o s /\ phase' = next

Becomes(s, next) == buf' = s /\ phase' = next

\* The loop of read_chunked_body, up to its next read: what came after the
\* terminator in the same read is cut off.
ScanChunks(s) ==
    \/ Terminator(s) = 0 /\ Becomes(s, "chunked")
    \/ Terminator(s) # 0 /\ Becomes(SubSeq(s, 1, Terminator(s)), "decide")

ScanLength(s) == Becomes(s, IF Complete(s) THEN "decide" ELSE "length")

ScanHeaders_DropsRest(s) ==             \* the body is read from the stream only
    \/ HeaderEnd(s) = 0 /\ Becomes(s, "headers")
    \/ /\ HeaderEnd(s) # 0
       /\ \/ Malformed(s) /\ Becomes(s, "failed")
          \/ ~ Malformed(s) /\ IsChunked(s) /\ ScanChunks(HeadersOf(s))
          \/ ~ Malformed(s) /\ ~ IsChunked(s) /\ ScanLength(HeadersOf(s))

ScanHeaders(s) ==
    \/ HeaderEnd(s) = 0 /\ Becomes(s, "headers")
    \/ /\ HeaderEnd(s) # 0
       /\ \/ Malformed(s) /\ Becomes(s, "failed")
          \/ ~ Malformed(s) /\ IsChunked(s) /\ ScanChunks(s)
          \/ ~ Malformed(s) /\ ~ IsChunked(s) /\ ScanLength(s)

\* A read returns something of what has arrived, and at most `most' of it.
Read(most, Scan(_)) ==
    /\ \E n \in 1 .. most :
         /\ read + n <= sent
         /\ Scan(buf \o Arriving(n))
         /\ read' = read + n
    /\ UNCHANGED <<client, out>>

ReadHeaders == phase = "headers" /\ Read(ReadSize, ScanHeaders)
ReadChunked == phase = "chunked" /\ Read(ReadSize, ScanChunks)
ReadLength  == phase = "length" /\ Read(Remaining(buf), ScanLength)

EndOfStream_Ignored == FALSE            \* Ok(0) is taken for an empty read

\* A read returns Ok(0): an error before the end of the headers, and the end
\* of the body otherwise, however much of it is there.
EndOfStream ==
    /\ ended /\ read = sent
    /\ \/ phase = "headers" /\ phase' = "failed"
       \/ phase \in {"chunked", "length"} /\ phase' = "decide"
    /\ UNCHANGED <<client, read, buf, out>>

\* A read returns an error, in any of the three loops.
ReadFails ==
    /\ phase \in {"headers", "chunked", "length"}
    /\ phase' = "failed"
    /\ UNCHANGED <<client, read, buf, out>>

(* The rest of the tunnel's task *)

Forward(s) == out' = s /\ phase' = "copy"

\* The 403 goes to the upstream, and both connections are dropped.
Refuse == out' = <<Tok("forbidden")>> /\ phase' = "refused"

Decide ==
    /\ phase = "decide"
    /\ \/ IsWebsocketUpgrade(buf) /\ Forward(buf)
       \/ /\ ~ IsWebsocketUpgrade(buf)
          /\ \/ NamedKey(buf) \in DOMAIN KeyMap /\ Forward(Rewritten(buf))
             \/ NamedKey(buf) \notin DOMAIN KeyMap /\ Refuse
    /\ UNCHANGED <<client, read, buf>>

\* The upstream has closed its connection: the write fails.
WriteFails ==
    /\ phase = "decide"
    /\ phase' = "failed"
    /\ UNCHANGED <<client, read, buf, out>>

\* copy_bidirectional, from the client's side.
Copy ==
    /\ phase = "copy"
    /\ \E n \in 1 .. ReadSize :
         /\ read + n <= sent
         /\ out' = out \o Arriving(n)
         /\ read' = read + n
    /\ UNCHANGED <<client, buf, phase>>

(* The peers *)

\* Length of the first request of a stream, read as HTTP has it; 0 if it is
\* not all there.
RequestLength(s) ==
    CASE HeaderEnd(s) = 0 -> 0
      [] HeaderEnd(s) # 0 /\ IsChunked(s) ->
            First(s, {"last", "trailers"}, HeaderEnd(s) + 1)
      [] HeaderEnd(s) # 0 /\ ~ IsChunked(s) ->
            IF Complete(s) THEN HeaderEnd(s) + ContentLength(s) ELSE 0

\* The requests that are whole in a stream, and so those that are answered:
\* after[i] has those that begin with token i + 1.
Requests(s) ==
    LET after[i \in 0 .. Len(s)] ==
            LET n == RequestLength(SubSeq(s, i + 1, Len(s)))
            IN  IF n = 0 THEN <<>>
                ELSE <<SubSeq(s, i + 1, i + n)>> \o after[i + n]
    IN  after[0]

\* The requests of which the first n tokens of the stream show something.
Begun(n) ==
    {k \in DOMAIN conversation.ends :
        (IF k = 1 THEN 0 ELSE conversation.ends[k - 1]) < n}

InBody(n) == n > Len(HeadersOf(FirstRequest)) /\ Begun(n) = {1}

MaySend(n) ==
    /\ conversation.waits # "no" =>
          \A k \in Begun(n) : Len(Requests(out)) >= k - 1
    /\ conversation.waits = "continue" /\ InBody(n) =>
          impatient \/ HeaderEnd(out) # 0

ClientSends ==
    /\ ~ ended /\ sent < Len(Stream) /\ MaySend(sent + 1)
    /\ sent' = sent + 1
    /\ UNCHANGED <<conversation, ended, impatient, read, buf, phase, out>>

\* At any time, also in the middle of a request.
ClientEnds ==
    /\ ~ ended
    /\ ended' = TRUE
    /\ UNCHANGED <<conversation, sent, impatient, read, buf, phase, out>>

LosesPatience ==
    /\ conversation.waits = "continue" /\ ~ impatient
    /\ impatient' = TRUE
    /\ UNCHANGED <<conversation, sent, ended, read, buf, phase, out>>

-----------------------------------------------------------------------------
Task == ReadHeaders \/ ReadChunked \/ ReadLength \/ EndOfStream \/ Decide \/ Copy

Client == ClientSends \/ LosesPatience

Next == Task \/ ReadFails \/ WriteFails \/ Client \/ ClientEnds

Spec == Init /\ [][Next]_vars

\* The task is polled when bytes are there; a client says what it has to say,
\* and does not wait for "100 Continue" for ever.  Nobody has to close.
FairSpec == Spec /\ WF_vars(Task) /\ WF_vars(ClientSends) /\ WF_vars(LosesPatience)

-----------------------------------------------------------------------------
(* Properties *)

Others(s) == Only(s, Kinds \ (Authorization \union Hosts))

\* The byte pattern of the terminator comes up inside a chunk.
PatternInBody == Has(Stream, "zero")

\* More of the stream may follow a chunked request before it is answered.
FollowedAtOnce ==
    /\ conversation.waits = "no" /\ Len(conversation.ends) > 1
    /\ IsChunked(FirstRequest)

\* However the stream is cut into reads, and wherever the client stops: apart
\* from the lines Authorization and Host, the upstream gets exactly what was
\* read, in order.  The code keeps this for text, and unless it takes something for
\* the end of a chunked body in the middle of a read.
PassedOnWhole ==
    /\ phase = "copy" /\ ~ PatternInBody /\ ~ FollowedAtOnce
    /\ Has(buf, "binary") => IsWebsocketUpgrade(buf)
    => Others(out) = Others(SubSeq(Stream, 1, read))

\* The keys of a request's own headers.
Credentials(s) == Only(HeadersOf(s), Authorization)

\* When the first request that the upstream gets is whole, it carries the real
\* key of the placeholder in its headers and no other credential, whatever
\* comes with it in the same read.
FirstRequestKeyed ==
    /\ phase = "copy" /\ ~ IsWebsocketUpgrade(buf)
    /\ RequestLength(out) # 0 /\ NamedKey(HeadersOf(FirstRequest)) # NoKey
    => Credentials(SubSeq(out, 1, RequestLength(out)))
       = <<Bearer(KeyMap[NamedKey(FirstRequest)])>>

Reading == phase \in {"headers", "chunked", "length"}
Seen == SubSeq(Stream, 1, read)

\* It is read until one whole request, as HTTP frames it, has been seen, and not for
\* longer: a proxy that goes on waits for a client that waits for the answer, and
\* one that stops before rewrites half a request.  Only the end of the stream
\* stops it before.
ReadsOneRequest ==
    /\ Reading => RequestLength(Seen) = 0 \/ Has(Seen, "trailers")
    /\ phase \in {"decide", "copy", "refused"} /\ ~ PatternInBody =>
          RequestLength(Seen) # 0 \/ (ended /\ read = sent)

Decided == phase \in {"copy", "refused", "failed"}

\* A chunked body with trailers has no 0\r\n\r\n.
HasTrailers == Has(FirstRequest, "trailers")

\* A first request that was sent whole is decided upon, although client and proxy
\* each wait for the other in the course of it; and so is one whose client
\* ends the stream anywhere.
RequestIsDecided ==
    /\ (sent >= Len(FirstRequest) /\ ~ HasTrailers) ~> Decided
    /\ ended ~> Decided

(* What the specification claims, and the code does not keep *)

\* "the proxy terminates TLS, strips any placeholder token the agent sent,
\* injects the real API key": for every request of the connection.
EveryRequestKeyed ==
    \A i \in DOMAIN Requests(out) :
        Credentials(Requests(out)[i]) \in
            {<<Bearer(KeyMap[d])>> : d \in DOMAIN KeyMap}

=============================================================================
