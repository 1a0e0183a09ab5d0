--------------------------- MODULE MCInnerRequest ---------------------------
(***************************************************************************)
(* An instance of InnerRequest for TLC: one conversation for each way in    *)
(* which a request can be framed, keyed and followed by another.            *)
(***************************************************************************)
EXTENDS InnerRequest

CONSTANTS d1, d2, dx, r1, r2

\* dx is a placeholder the session does not know.
AllKeys == {d1, d2, dx, r1, r2}
SessionKeys == [d \in {d1, d2} |-> IF d = d1 THEN r1 ELSE r2]

T(kinds) == [i \in DOMAIN kinds |-> Tok(kinds[i])]

Ask(lines)  == T(<<"request", "host">>) \o lines \o T(<<"blank">>)
Get(key)    == Ask(<<Bearer(key)>>)
Post(lines, body) == Ask(<<Bearer(d1)>> \o lines) \o body
Chunks(body) == Post(T(<<"chunked">>), T(body))

Say(waits, requests) ==
    [stream |-> FlattenSeq(requests),
     ends   |-> [k \in DOMAIN requests |-> Len(FlattenSeq(SubSeq(requests, 1, k)))],
     waits  |-> waits]

AllConversations == {
    Say("answer", <<Get(d1), Get(d2)>>),
    Say("answer", <<Ask(T(<<"basic">>) \o <<Bearer(d2)>>), Get(d1)>>),
    Say("answer", <<Ask(T(<<"header">>))>>),
    Say("answer", <<Get(dx)>>),
    Say("answer", <<Ask(T(<<"malformed">>) \o <<Bearer(d1)>>)>>),
    Say("answer", <<Post(<<Length(1), Length(3)>>, T(<<"data", "blank", "data">>)), Get(d2)>>),
    Say("continue", <<Post(<<Length(3)>>, T(<<"data", "data", "data">>))>>),
    Say("continue", <<Chunks(<<"data", "last">>), Get(d2)>>),
    Say("answer", <<Chunks(<<"data", "zero", "data", "last">>)>>),
    Say("answer", <<Chunks(<<"data", "trailers">>)>>),
    Say("answer", <<Post(<<Length(3)>>, <<Tok("host"), Bearer(d2), Tok("binary")>>)>>),
    Say("answer", <<Ask(T(<<"upgrade", "websocket">>) \o <<Bearer(d1)>>), T(<<"data", "binary">>)>>),
    Say("no", <<Post(<<Length(2)>>, T(<<"data", "data">>)), Get(d2)>>),
    Say("no", <<Chunks(<<"data", "last">>), Get(d2)>>) }

\* A client that uses its connection again.
TwoInTurn == { Say("answer", <<Get(d1), Get(d2)>>) }

=============================================================================
