--------------------------- MODULE DistributedGrep ---------------------------
(***************************************************************************)
(* One search of mygrep (L4.2) from the input to the exit code: chunk.Split *)
(* cuts the text, the client sends one chunk to every server and retries   *)
(* those that are not up, the servers come and go, and a server that       *)
(* answers answers as LineFilter does (ServerProcess shows that its pool   *)
(* of workers does).                                                       *)
(*                                                                         *)
(* The pattern is the letter x, with or without -v.                        *)
(***************************************************************************)
EXTENDS ChunkSplit, QuorumClient

CONSTANTS
    Sent,               \* bound: the texts that are sent to servers; the
                        \* others are only cut, for every n
    Troubled,           \* bound: those whose servers come and go; the others
                        \* find their servers up all the time
    MaxStarts           \* bound of GrepServers

VARIABLES
    life, starts, conn,     \* the servers, as in GrepServers
    valid,      \* the pattern compiles
    invert,     \* -v
    named,      \* the input is a file, not stdin: fileName # ""
    excused     \* history: servers that failed the client

serverVars == <<life, starts, conn>>
flags      == <<valid, invert, named>>
searchVars == <<splitVars, vars, serverVars, flags, excused>>

Server == INSTANCE GrepServers

\* Nothing is found before the input is cut.
NothingFound == [s \in Servers |-> {}]

ASSUME SearchBounds ==
    /\ MaxLen \in Nat /\ MaxN \in Nat /\ N \in 1..MaxN /\ MaxStarts \in Nat
    /\ Sent \subseteq Texts /\ Troubled \subseteq Sent

-----------------------------------------------------------------------------
\* Matcher.Match.
Matches(line) == (\E k \in DOMAIN line : line[k] = "x") # invert

\* Mutant: the server numbers the lines of its chunk from 1.
NumbersOfChunk(c) ==
    LET seen == ServerLines(c.data)
    IN  {i \in DOMAIN seen : Matches(seen[i])}

\* The matching lines of a chunk, under the numbers the server gives them.
NumbersOf(c) ==
    LET seen == ServerLines(c.data)
    IN  {c.startLine + i - 1 : i \in {j \in DOMAIN seen : Matches(seen[j])}}

\* Only cut, or also sent.
Searched == text \in Sent /\ n = N

SearchInit ==
    /\ SplitInit /\ Init /\ found = NothingFound /\ Server!LivesInit
    /\ valid \in BOOLEAN /\ invert \in BOOLEAN
    /\ named \in BOOLEAN /\ (mode # "list" => named)
    /\ excused = {}
    /\ ~valid => mode = "lines" /\ ~invert
    /\ ~Searched => /\ mode = "lines" /\ valid /\ ~invert
                    /\ quorumArg = CHOOSE q \in Quorums : TRUE
    /\ ~Searched \/ text \notin Troubled => life = [s \in Servers |-> "serving"]

\* Run refuses the quorum before it splits.
RejectQuorum ==
    /\ splitPc = "prepare" /\ Searched
    /\ UNCHANGED <<splitVars, serverVars, flags>>
    /\ Reject

SplitStep ==
    /\ main = "start" /\ (Searched => Quorum <= N)
    /\ \/ /\ Prepare \/ DealChunk
          /\ UNCHANGED found
       \/ /\ NoLines \/ SplitReturn
          /\ found' = IF Searched THEN [s \in Servers |-> NumbersOf(chunks'[s])] ELSE found
    /\ UNCHANGED <<quorumArg, retry, mode, pc, answer, windowOpen, expired, resCh,
                   closed, main, successes, failures, result, exitCode,
                   serverVars, flags>>

\* The steps of the client that touch no connection.
ClientStep ==
    /\ splitPc = "done" /\ Searched
    /\ UNCHANGED <<splitVars, serverVars, flags>>
    /\ \/ Dispatch \/ Collect \/ Return \/ Exit
       \/ Close \/ Expire
       \/ \E s \in Servers :
              \/ TriesAgain(s) \/ GivesUp(s) \/ WindowCloses(s)
              \/ BackoffEnds(s) \/ BackoffCancelled(s)
              \/ Report(s) \/ Drop(s)

Searching == main = "collect"

\* The goroutine of server s dials.
Connect(s) ==
    /\ Searching /\ pc[s] = "post"
    /\ Server!Connect(s)
    /\ UNCHANGED <<splitVars, vars, flags>>

DialFindsNoServer(s) ==
    /\ ~Server!Listening(s) /\ conn[s] = "none"
    /\ UNCHANGED <<splitVars, serverVars, flags>>
    /\ DialFails(s)

\* The answer arrives, or the connection ends, or the context does.
PostEnds(s) ==
    /\ UNCHANGED <<splitVars, serverVars, flags>>
    /\ \/ conn[s] = "answered" /\ valid /\ Answered(s)
       \/ conn[s] = "answered" /\ ~valid /\ Refused(s)
       \/ (conn[s] = "cut" \/ expired) /\ Failed(s)

\* Bound: a server is followed until the client has what it gets from it.
Followed(s) == Searching /\ Posting(s) /\ conn[s] \notin {"answered", "cut"}

ServerStep(s) ==
    /\ Followed(s)
    /\ \/ Server!Accept(s) \/ Server!Respond(s)
       \/ Server!Start(s) \/ Server!Listen(s) \/ Server!ListenFails(s)
       \/ Server!ShutdownReturns(s)
    /\ UNCHANGED <<splitVars, vars, flags>>

\* What may cost the client its request.
ServerFault(s) ==
    /\ Followed(s) /\ text \in Troubled
    /\ Server!Signal(s) \/ Server!ShutdownTimesOut(s) \/ Server!Crash(s)
    /\ UNCHANGED <<splitVars, vars, flags>>

\* The server was not up at a dial, and the window is over before the client
\* has looked at the clock.
DialedTooLate(s) == pc[s] = "dialed" /\ ~windowOpen[s]

Finished ==
    /\ \/ main = "exited"
       \/ splitPc = "done" /\ ~Searched
    /\ UNCHANGED searchVars

SearchNext ==
    \/ /\ \/ RejectQuorum \/ SplitStep \/ ClientStep
          \/ \E s \in Servers : Connect(s) \/ DialFindsNoServer(s) \/ PostEnds(s) \/ ServerStep(s)
       /\ excused' = excused \cup {s \in Servers : DialedTooLate(s)'}
    \/ /\ \E s \in Servers : ServerFault(s)
       /\ excused' = excused \cup {s \in Servers : DialedTooLate(s)' \/ conn'[s] = "cut"}
    \/ Finished

SearchSpec == SearchInit /\ [][SearchNext]_searchVars
-----------------------------------------------------------------------------
(* Properties.                                                              *)

SearchTypeOK ==
    /\ SplitTypeOK /\ TypeOK /\ Server!LivesOK
    /\ valid \in BOOLEAN /\ invert \in BOOLEAN /\ named \in BOOLEAN
    /\ excused \subseteq Servers

\* The cut of every text for every n, as long as nothing was sent: chunks do
\* not change afterwards.
NothingLost  == main = "start" => LosesNothing
NumbersRight == main = "start" => KeepsNumbers

\* What main prints; the name of stdin is empty, and not printed.
Printed ==
    CASE mode = "count" -> <<result.count>>
      [] mode = "list"  -> IF result.hasMatch /\ named THEN <<"file">> ELSE <<>>
      [] mode = "lines" -> result.matches

\* The lines grep reads in the normalised input, and those it selects.
File     == GrepLines(Normalize(text))
Selected == {l \in DOMAIN File : Matches(File[l])}

\* The lines of the chunk of s, by their numbers in the input.
LinesAt(s) == {chunks[s].startLine + i - 1 : i \in DOMAIN Lines(s)}

\* An empty line that no chunk has together with another line reaches no server
\* (PreservesAllLines is about this disagreement).
Unsent ==
    {l \in DOMAIN File :
        File[l] = <<>> /\ \A s \in Servers : l \in LinesAt(s) => LinesAt(s) = {l}}

\* The output is what grep selects of the chunks that were answered, whatever
\* happened to the servers; exit code 0 is never returned without such a line,
\* and when all chunks were answered, the exit code is grep's on the whole input.
\* Two things differ from grep and are left out of its side here: Unsent lines,
\* which -v selects; and -l on stdin, where grep prints "(standard input)".
PrintedIsGrep ==
    Returned =>
        LET hits == {l \in Selected \ Unsent : \E s \in successes : l \in LinesAt(s)} IN
        /\ Printed = CASE mode = "count" -> <<Cardinality(hits)>>
                       [] mode = "list"  -> IF hits # {} /\ named THEN <<"file">> ELSE <<>>
                       [] mode = "lines" -> Ascending(hits)
        /\ exitCode = 0 => hits # {}
        /\ main = "exited" /\ successes = Servers =>
               exitCode = IF Selected \ Unsent # {} THEN 0 ELSE 1

\* Before the timeout a request is lost only through a server that was not up
\* at a dial after which the window was found over, or that crashed, stopped
\* before it took the request, or worked on it for longer than Shutdown waits.
\* So a server that is up when it is dialed again costs nothing, also when the
\* window ended during the backoff, and neither does a graceful stop with the
\* request at work.  One that comes up in the window but after its last dial does.
NoNeedlessFailure ==
    Returned /\ ~expired =>
        \A s \in Servers \ excused :
            IF valid THEN s \in successes ELSE answer[s] = "refused"
=============================================================================
