------------------------------- MODULE MCGitPull -------------------------------
(* GitPull on what git upload-pack may answer: a pack, the end of a round  *)
(* of negotiation, an acknowledgement, and nothing.                        *)
EXTENDS GitPull

Data(n) == Raw(<<"one", "two">>[n])
SomeOutputs ==
    {Nak \o <<Data(1), Data(2)>> \o Flush, Nak \o Flush, Nak,
     <<Raw("ACK"), Data(1)>> \o Flush, <<>>}
SomeTokens ==
    {"0008", "NAK", "00", "00.", EmptyPack, Aborting,
     "one", "two", "ACK", "a", "b", "c", "d", "e", "f"}
SomeTexts == {<<>>, <<"a">>, <<"b", "c", "d">>}
AnError == <<"e", "f">>
================================================================================
