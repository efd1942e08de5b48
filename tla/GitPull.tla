-------------------------------- MODULE GitPull --------------------------------
(***************************************************************************)
(* A git-upload-pack request: pygrack's backend asks RhodeCode, starts git *)
(* upload-pack, tells RhodeCode, and puts what both hooks have printed     *)
(* into the response of git, whose chunks are cut wherever the pipe cut    *)
(* them.  Requests share nothing, so that there is one.                    *)
(*                                                                         *)
(* The output of git is a sequence of pieces: the two halves of the line   *)
(* that begins it, "0008NAK\n", and of the "0000" that ends it, so that a  *)
(* chunk may end inside either, and what is between.  A message becomes    *)
(* packets on side band 2.                                                 *)
(***************************************************************************)
EXTENDS Integers, Sequences, FiniteSets

CONSTANTS
    Tokens,     \* what lines and messages are made of
    Outputs,    \* bound: what git may write
    Texts,      \* bound: what the hooks may print, as sequences of them
    ErrorText,  \* and what git_pre_pull and git_post_pull print of an exception
    SmallBand,  \* tokens in a packet of side-band
    LargeBand   \* and of side-band-64k

Raw(s) == [band |-> 0, data |-> <<s>>]
Packet(band, data) == <<[band |-> band, data |-> data]>>
Nak == <<Raw("0008"), Raw("NAK")>>
Flush == <<Raw("00"), Raw("00.")>>
EmptyPack == "empty pack"
Aborting == "Pre pull hook failed: aborting"
Pieces == [band : {0}, data : Seq(Tokens)]
Caps == {"side-band", "side-band-64k"}

ASSUME PullAssumption ==
    /\ {"0008", "NAK", "00", "00.", EmptyPack, Aborting} \subseteq Tokens
    /\ Outputs \subseteq Seq(Pieces)
    /\ <<>> \in Texts /\ ErrorText \in Seq(Tokens) \ {<<>>} /\ Texts \subseteq Seq(Tokens)
    /\ SmallBand \in Nat \ {0} /\ LargeBand \in Nat \ {0}

VARIABLES
    pc,
    capabilities, hooked, \* of the request: its side bands, 'pull' in extras['hooks']
    left,      \* what git has still to write
    chunks,    \* the chunks it has written
    child,     \* "none", "running" or "ended"
    pre, post, \* the messages of the hooks, and their statuses
    asked, told,  \* RhodeCode has approved the pull; RhodeCode has been told of it
    response   \* the chunks of the response; packets of messages are records

vars == <<pc, capabilities, hooked, left, chunks, child, pre, post, asked, told, response>>
request == <<capabilities, hooked>>

NotCalled == [status |-> -1, output |-> <<>>]

Init ==
    /\ pc = "prePull"
    /\ capabilities \in SUBSET Caps /\ hooked \in BOOLEAN
    /\ left \in Outputs /\ chunks = <<>> /\ child = "none"
    /\ pre = NotCalled /\ post = NotCalled
    /\ asked = FALSE /\ told = FALSE
    /\ response = <<>>

---------------------------------------------------------------------------
\* _write_sideband_to_proto, for one of the two side bands.
Smaller(a, b) == IF a < b THEN a ELSE b
Cut(data, size) ==
    [i \in 1..((Len(data) + size - 1) \div size) |->
        Packet(2, SubSeq(data, (i - 1) * size + 1, Smaller(i * size, Len(data))))]
Messages_OneSize(data, caps) == IF caps = {} THEN <<>> ELSE Cut(data, LargeBand)
Messages(data, caps) ==
    IF "side-band-64k" \in caps THEN Cut(data, LargeBand)
    ELSE IF "side-band" \in caps THEN Cut(data, SmallBand) ELSE <<>>

\* _build_failed_pre_pull_response
FailedResponse(caps, messages) ==
    IF caps = {} THEN <<<<Raw(EmptyPack)>>>>
    ELSE <<Nak>> \o Messages(messages, caps)
         \o <<Packet(2, <<Aborting>>), Packet(1, <<EmptyPack>>), Flush>>

StartsWithNak(c) == Len(c) >= 2 /\ SubSeq(c, 1, 2) = Nak
EndsWithFlush(c) == Len(c) >= 2 /\ SubSeq(c, Len(c) - 1, Len(c)) = Flush
CutStart(c) == SubSeq(c, 3, Len(c))
CutEnd(c) == SubSeq(c, 1, Len(c) - 2)

\* What is left of the chunks without NAK and flush.
Inner_KeepsFlush(r) == <<CutStart(r[1])>> \o (IF Len(r) = 1 THEN <<>>
                       ELSE SubSeq(r, 2, Len(r) - 1) \o <<CutEnd(r[Len(r)])>>)
Inner(r) ==
    IF Len(r) = 1 THEN <<CutEnd(CutStart(r[1]))>>
    ELSE <<CutStart(r[1])>> \o SubSeq(r, 2, Len(r) - 1) \o <<CutEnd(r[Len(r)])>>

Injected(r, caps, start, end) ==
    IF StartsWithNak(r[1]) /\ EndsWithFlush(r[Len(r)])
    THEN <<Nak>> \o Messages(start, caps) \o Inner(r) \o Messages(end, caps) \o <<Flush>>
    ELSE r

Injects == capabilities # {} /\ ~(pre.output = <<>> /\ post.output = <<>>)

---------------------------------------------------------------------------
(* A hook: it prints what RhodeCode says and returns its status, or prints *)
(* an error.                                                               *)
ErrorStatus_Zero == 0
ErrorStatus == 128

Results == [status : {0, 1}, output : Texts]
Off == [status |-> 0, output |-> <<>>]
Failed == [status |-> ErrorStatus, output |-> ErrorText]

git_pre_pull ==
    /\ pc = "prePull"
    /\ pre' \in IF hooked THEN Results ELSE {Off}
    /\ asked' = (hooked /\ pre'.status = 0)
    /\ pc' = "start"
    /\ UNCHANGED <<request, left, chunks, child, post, told, response>>

PrePullRaises ==
    /\ pc = "prePull" /\ hooked
    /\ pre' = Failed
    /\ pc' = "start"
    /\ UNCHANGED <<request, left, chunks, child, post, asked, told, response>>

Refuses ==
    /\ pc = "start" /\ pre.status # 0
    /\ response' = FailedResponse(capabilities, pre.output)
    /\ pc' = "answered"
    /\ UNCHANGED <<request, left, chunks, child, pre, post, asked, told>>

Starts ==
    /\ pc = "start" /\ pre.status = 0
    /\ child' = "running"
    /\ pc' = "postPull"
    /\ UNCHANGED <<request, left, chunks, pre, post, asked, told, response>>

\* git writes, the pipe cuts, and the object keeps the chunks in order; the
\* process may die, which nobody asks for.
ChildWrites ==
    /\ child = "running"
    /\ \E n \in 1..Len(left) :
          /\ chunks' = Append(chunks, SubSeq(left, 1, n))
          /\ left' = SubSeq(left, n + 1, Len(left))
    /\ UNCHANGED <<pc, request, child, pre, post, asked, told, response>>

ChildEnds ==
    /\ child = "running"
    /\ child' = "ended"
    /\ UNCHANGED <<pc, request, left, chunks, pre, post, asked, told, response>>

\* The constructor has returned: with some output buffered, or all of it, or
\* something on stderr.  RhodeCode is told whatever becomes of the response.
git_post_pull ==
    /\ pc = "postPull"
    /\ post' \in IF hooked THEN Results ELSE {Off}
    /\ told' = hooked
    /\ pc' = "respond"
    /\ UNCHANGED <<request, left, chunks, child, pre, asked, response>>

PostPullRaises ==
    /\ pc = "postPull" /\ hooked
    /\ post' = Failed
    /\ pc' = "respond"
    /\ UNCHANGED <<request, left, chunks, child, pre, asked, told, response>>

\* With messages the whole output is read first.
Lists ==
    /\ pc = "respond" /\ Injects
    /\ child = "ended" /\ chunks # <<>>
    /\ response' = Injected(chunks, capabilities, pre.output, post.output)
    /\ pc' = "answered"
    /\ UNCHANGED <<request, left, chunks, child, pre, post, asked, told>>

\* git wrote nothing, and the list has no first chunk.
IndexError ==
    /\ pc = "respond" /\ Injects
    /\ child = "ended" /\ chunks = <<>>
    /\ pc' = "failed"
    /\ UNCHANGED <<request, left, chunks, child, pre, post, asked, told, response>>

\* Without messages the chunks are passed on as they come.
Streams ==
    /\ pc = "respond" /\ ~Injects
    /\ Len(response) < Len(chunks)
    /\ response' = Append(response, chunks[Len(response) + 1])
    /\ UNCHANGED <<pc, request, left, chunks, child, pre, post, asked, told>>

StreamEnds ==
    /\ pc = "respond" /\ ~Injects
    /\ child = "ended" /\ Len(response) = Len(chunks)
    /\ pc' = "answered"
    /\ UNCHANGED <<request, left, chunks, child, pre, post, asked, told, response>>

Over == pc \in {"answered", "failed"} /\ UNCHANGED vars

Next ==
    \/ git_pre_pull \/ PrePullRaises \/ Refuses \/ Starts \/ ChildWrites \/ ChildEnds
    \/ git_post_pull \/ PostPullRaises \/ Lists \/ IndexError \/ Streams \/ StreamEnds
    \/ Over

Spec == Init /\ [][Next]_vars

---------------------------------------------------------------------------
TypeOK ==
    /\ pc \in {"prePull", "start", "postPull", "respond", "answered", "failed"}
    /\ capabilities \subseteq Caps /\ hooked \in BOOLEAN
    /\ left \in Seq(Pieces) /\ chunks \in Seq(Seq(Pieces))
    /\ child \in {"none", "running", "ended"}
    /\ pre \in Results \cup {NotCalled, Off, Failed} /\ post \in Results \cup {NotCalled, Off, Failed}
    /\ asked \in BOOLEAN /\ told \in BOOLEAN
    /\ response \in Seq(Seq([band : 0..2, data : Seq(Tokens)]))
    /\ \A i \in DOMAIN response : \A j \in DOMAIN response[i] :
          response[i][j].band = 2 =>
              Len(response[i][j].data) \in
                  1..(IF "side-band-64k" \in capabilities THEN LargeBand ELSE SmallBand)

Joined(r) ==
    LET f[n \in 0..Len(r)] == IF n = 0 THEN <<>> ELSE f[n - 1] \o r[n] IN f[Len(r)]
Own(s) == Joined([i \in DOMAIN s |-> IF s[i].band = 0 THEN <<s[i]>> ELSE <<>>])
Said(s) == Joined([i \in DOMAIN s |-> IF s[i].band = 2 THEN s[i].data ELSE <<>>])

(* However the pipe has cut the output of git, the client gets all of it,  *)
(* in order; and of the messages either nothing, or all that the hooks     *)
(* have printed, between the NAK and the end, in packets its side band     *)
(* allows (pygrack.py:182-264).                                            *)
ResponseWhole ==
    pc = "answered" /\ child # "none" =>
        LET got == Joined(response)
            said == Said(got)
        IN  /\ Own(got) = Joined(chunks)
            /\ said # <<>> =>
                  /\ said = pre.output \o post.output
                  /\ SubSeq(got, 1, 2) = Nak
                  /\ SubSeq(got, Len(got) - 1, Len(got)) = Flush
                  /\ pre.output # <<>> => got[3].band = 2
                  /\ post.output # <<>> => got[Len(got) - 2].band = 2

(* Nothing of the repository is sent, and RhodeCode is told of no pull,    *)
(* unless RhodeCode has approved it, however its hook has ended; a refused *)
(* pull gets an empty pack (hooks.py:432-451, pygrack.py:306-313).         *)
SentAsApproved ==
    /\ hooked /\ ~asked => chunks = <<>> /\ ~told
    /\ pc = "answered" /\ hooked /\ ~asked =>
          /\ response # <<>>
          /\ \A i \in DOMAIN response : \A j \in DOMAIN response[i] :
                \/ response[i][j].band = 2
                \/ response[i][j].data = <<EmptyPack>>
                \/ response[i] \in {Nak, Flush}
    /\ pc = "answered" /\ asked /\ post # Failed => told
================================================================================
