--------------------------- MODULE MCFileInjection ---------------------------
(***************************************************************************)
(* An instance of FileInjection for TLC: two jobs of one id and one of      *)
(* another, and requests whose entries overlap in each possible way.        *)
(***************************************************************************)
EXTENDS FileInjection

CONSTANTS j1, j2, j3, idA, idB

ThreeJobs == {j1, j2, j3}
TwoIds == {idA, idB}
TwiceAndOther == [j \in ThreeJobs |-> IF j = j3 THEN idB ELSE idA]

\* tempfile makes every name once.
OwnName == [j \in ThreeJobs |-> IF j = j1 THEN "tmp1" ELSE IF j = j2 THEN "tmp2" ELSE "tmp3"]

File(path, data) == [path |-> path, data |-> data]
Entry(to, gives) == [to |-> to, gives |-> gives]

Inline(to, text) == Entry(to, {{File(<<>>, text)}})
NoContent(to)    == Entry(to, {})

\* A repository with two files at its head, of which the wanted ref has one.
Repo(to) == Entry(to, {{File(<<"a">>, "ref")}, {File(<<"a">>, "head"), File(<<"b">>, "head")}})

AllRequests == {
    <<>>,
    <<Inline(<<"d">>, "text")>>,
    <<Repo(<<"d">>), Inline(<<"d", "b">>, "text")>>,
    <<Inline(<<"d", "b">>, "text"), Repo(<<"d">>)>>,
    <<Inline(<<"d">>, "text"), Repo(<<"d">>)>>,
    <<Inline(<<"d">>, "text"), NoContent(<<"e">>)>> }
=============================================================================
