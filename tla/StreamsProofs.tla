---------------------------- MODULE StreamsProofs ----------------------------
(***************************************************************************)
(* Proofs about Streams for any byte cap, event cap and amount of output.  *)
(*                                                                         *)
(* The answer of a call is put together while the goroutines of its        *)
(* connection may still run, so the invariant is about what can no longer  *)
(* change.  A stream that ended by itself has no copier left and every     *)
(* byte in its writers (AllRead, from CopyInv and ReturnInv); any other    *)
(* ending has left its mark, in the context, in the remote side's state or *)
(* in a full writer, and marks are never taken back (TextInv, FlagsInv).  *)
(***************************************************************************)
EXTENDS Streams, TLAPS

Early == {"pairs", "approval", "handler", "connect"}
Answering == {"text", "flags"}
Types == {"none", "refused", "error", "answer"}

Answers ==
    [type : Types, text : [Channels -> Nat], cut : SUBSET Channels,
     code : {"none", "zero", "nonzero"}, timeLimited : BOOLEAN, stdinWritten : BOOLEAN]

\* The steps taken beside the call's own goroutine, and the steps that begin an answer.
Beside == Goroutines \/ WindowEnds \/ Environment \/ UNCHANGED vars

Replies ==
    \/ execStreamOutcome \/ ExecInPod \/ AttachResource
    \/ roundTrip \/ ProxyResource \/ WatchResources

\* The types, in the three parts in which they are kept.
ControlType ==
    /\ tool \in Tools
    /\ fault \in Faults(tool)
    /\ obstacle \in Obstacles(tool)
    /\ payload \in BOOLEAN
    /\ stage \in Early \cup Answering \cup {"payload", "stream", "returned", "closing", "done"}
    /\ ctx \in {"live", "window", "cap", "caller", "returned"}
    /\ conn \in {"none", "open", "closed"}
    /\ remote \in {"up", "ok", "exit", "failed", "detached"}
    /\ errors \in {"none", "open", "quiet", "message"}
    /\ stdin \in {"none", "pending", "written", "eof", "lost"}
    /\ routines \subseteq Channels \cup {"stdin", "errors"}
    /\ streamErr \in {"none", "nil", "exit", "failed", "ctx", "message"}

DataType ==
    /\ wrote \in [Channels -> 0..MaxWritten]
    /\ seen \in [Channels -> Nat]
    /\ kept \in [Channels -> Nat]
    /\ full \subseteq Channels
    /\ \A ch \in Channels : kept[ch] <= seen[ch] /\ seen[ch] <= wrote[ch]

AnswerType == answer \in Answers

\* What the position of the call says about its connection and its context.
StageInv ==
    /\ stage \in {"pairs", "approval"} => tool \in Gated
    /\ stage \in Early =>
          /\ conn = "none" /\ routines = {} /\ stdin = "none" /\ remote = "up"
          /\ errors = "none" /\ streamErr = "none"
    /\ stage \in {"pairs", "approval", "handler"} => ctx = "live"
    /\ stage \in {"payload", "closing"} => tool = "forward"
    /\ stage \in {"payload", "stream", "closing"} => conn = "open"
    /\ stage = "returned" => tool \in Executors
    /\ stage \in {"returned", "text", "flags"} /\ tool \in Executors => conn = "closed"
    /\ stage = "done" => conn = "closed" /\ ctx # "live"
    /\ ctx = "returned" => stage = "done"
    /\ stage \in Answering => answer.type = "answer"
    /\ stage \notin Answering \cup {"done"} => answer = NoAnswer

\* Which tool can get into which state.
ToolInv ==
    /\ payload => tool \in {"attach", "forward"}
    /\ stdin # "none" => tool = "attach"
    /\ stdin = "eof" => ctx # "live"
    /\ "stdin" \in routines => tool = "attach"
    /\ "errors" \in routines => tool = "forward" /\ streamErr = "none"
    /\ remote = "exit" => tool \in {"exec", "reset"}
    /\ remote = "detached" => stdin = "eof"
    /\ ctx = "window" => tool \in Gated \cup {"watch"}
    /\ tool = "watch" /\ ctx = "window" => stage # "connect"
    /\ ctx = "cap" => tool \in {"exec", "attach", "proxy"} /\ full # {}
    /\ streamErr = "message" => errors = "message"
    /\ tool = "watch" => routines = {}

\* What the writers hold: everything they were handed unless they are full, and
\* never more than their cap.
WriterInv ==
    /\ \A ch \in Channels : ch \notin full => kept[ch] = seen[ch]
    /\ \A ch \in full :
          /\ tool # "reset"
          /\ tool = "watch" \/ (kept[ch] = Limit /\ Limit < seen[ch])
    /\ tool \notin {"watch", "reset"} => \A ch \in Channels : kept[ch] <= Limit
    /\ tool = "watch" =>
          /\ kept["out"] <= WatchMaxEvents
          /\ kept["err"] = 0
          /\ stage \notin Answering \cup {"done"} => full = {} /\ kept["out"] < WatchMaxEvents

\* A copier of an open connection ended at the end of its channel, or with the
\* transport, or, in a proxied request, with the context.
CopyInv ==
    stage = "stream" /\ tool # "watch" =>
        \A ch \in ChannelsOf(tool) : ch \notin routines =>
            \/ remote = "failed"
            \/ remote # "up" /\ seen[ch] = wrote[ch]
            \/ tool = "proxy" /\ ctx # "live"

\* The remote side has ended and all it wrote has been handed to the writers.
AllRead ==
    /\ remote # "up"
    /\ \A ch \in ChannelsOf(tool) : ch \notin routines /\ seen[ch] = wrote[ch]

\* How StreamWithContext returned.
ReturnInv ==
    stage = "returned" =>
        /\ streamErr \in {"nil", "exit", "failed", "ctx"}
        /\ streamErr = "nil" => AllRead /\ remote \in {"ok", "detached"}
        /\ streamErr = "exit" => AllRead /\ remote = "exit"
        /\ streamErr = "ctx" => ctx # "live"

\* The endings that may cost an answer bytes without a truncation flag.
Excused ==
    \/ answer.timeLimited
    \/ ctx = "window" /\ tool \in {"attach", "forward", "proxy", "watch"}
    \/ ctx = "caller" /\ tool \in {"forward", "proxy", "watch"}
    \/ remote = "failed" /\ tool \in {"forward", "proxy"}

\* The answer has all the remote side will ever have written.
AllTold ==
    /\ remote # "up"
    /\ \A ch \in ChannelsOf(tool) : answer.text[ch] = wrote[ch]

\* An answer in the making: before its text is read, and after.
TextInv ==
    /\ stage \in {"closing", "text"} => Excused \/ full # {} \/ AllRead
    /\ stage = "text" /\ tool \in {"exec", "reset"} =>
          /\ answer.code = "zero" => remote = "ok" /\ AllRead /\ full = {}
          /\ answer.code = "nonzero" => remote = "exit" /\ AllRead

FlagsInv ==
    stage = "flags" =>
        /\ \A ch \in Channels : answer.text[ch] <= kept[ch]
        /\ Excused \/ full # {} \/ AllTold
        /\ tool \in {"exec", "reset"} =>
              /\ answer.code = "zero" => remote = "ok" /\ AllTold
              /\ answer.code = "nonzero" =>
                    /\ remote = "exit"
                    /\ \A ch \in Channels : answer.text[ch] = wrote[ch] \/ ch \in full

AnswerInv ==
    /\ stage \in Answering /\ tool \in {"exec", "reset"} =>
          /\ answer.code = "none" => full # {} \/ answer.timeLimited
          /\ answer.timeLimited => ctx = "window"
    /\ stage \in Answering /\ tool = "attach" /\ ctx = "live" => remote = "ok"

Inv ==
    /\ ControlType
    /\ DataType
    /\ AnswerType
    /\ StageInv
    /\ ToolInv
    /\ WriterInv
    /\ CopyInv
    /\ ReturnInv
    /\ TextInv
    /\ FlagsInv
    /\ AnswerInv
    /\ CutIsSaid
    /\ ExitCodeIsTheCommands
    /\ FailureHasACause
    /\ AttachLastsItsWindow

-----------------------------------------------------------------------------
\* What the operators of Streams do.

\* The caps are numbers, and a cap is at least one byte or event.
LEMMA Caps == Limit \in Nat \ {0} /\ WatchMaxEvents \in Nat \ {0} /\ MaxWritten \in Nat
BY LimitAssumption, MaxWrittenAssumption

\* The answer before there is one.
LEMMA NoAnswerType ==
    /\ NoAnswer \in Answers
    /\ NoAnswer.type = "none" /\ NoAnswer.code = "none" /\ NoAnswer.timeLimited = FALSE
    /\ \A x \in {"zero", "nonzero"} :
          /\ [NoAnswer EXCEPT !.code = x] \in Answers
          /\ [NoAnswer EXCEPT !.code = x].code = x
          /\ [NoAnswer EXCEPT !.code = x].timeLimited = FALSE
    /\ [NoAnswer EXCEPT !.timeLimited = TRUE] \in Answers
    /\ [NoAnswer EXCEPT !.timeLimited = TRUE].code = "none"
    /\ [NoAnswer EXCEPT !.timeLimited = TRUE].timeLimited = TRUE
    /\ \A x \in BOOLEAN :
          /\ [NoAnswer EXCEPT !.stdinWritten = x] \in Answers
          /\ [NoAnswer EXCEPT !.stdinWritten = x].timeLimited = FALSE
BY DEF NoAnswer, Answers, Types, Channels

\* A failure ends the call with its type and nothing to show.
LEMMA FailEffect ==
  ASSUME NEW t \in Types, Fail(t)
  PROVE  /\ answer' \in Answers /\ answer'.type = t
         /\ stage' = "done" /\ conn' = "closed"
         /\ ctx' = IF ctx = "live" THEN "returned" ELSE ctx
BY DEF Fail, Return, NoAnswer, Answers, Types, Channels

\* An outcome is an answer whose text is still to be read.
LEMMA OutcomeEffect ==
  ASSUME NEW a \in Answers, Outcome(a)
  PROVE  /\ answer' \in Answers /\ answer'.type = "answer"
         /\ answer'.code = a.code /\ answer'.timeLimited = a.timeLimited
         /\ stage' = "text" /\ UNCHANGED <<ctx, conn>>
BY DEF Outcome, Answers, Types

\* The calls that end, and how their answers look: what the handlers make of a
\* stream that is over.
LEMMA ExecAnswers ==
  ASSUME execStreamOutcome
  PROVE  \/ Fail("error") /\ streamErr \in {"failed", "ctx"} /\ ctx # "window" /\ full = {}
         \/ \E a \in Answers :
               /\ Outcome(a)
               /\ \/ a.code = "zero" /\ ~a.timeLimited /\ streamErr = "nil" /\ full = {}
                  \/ a.code = "nonzero" /\ ~a.timeLimited /\ streamErr = "exit"
                  \/ a.code = "none" /\ a.timeLimited /\ ctx = "window"
                  \/ a.code = "none" /\ ~a.timeLimited /\ full # {}
<1>1. CASE streamErr = "nil" /\ full = {} /\ Outcome([NoAnswer EXCEPT !.code = "zero"])
  BY <1>1, NoAnswerType
<1>2. CASE streamErr = "exit" /\ Outcome([NoAnswer EXCEPT !.code = "nonzero"])
  BY <1>2, NoAnswerType
<1>3. CASE ctx = "window" /\ Outcome([NoAnswer EXCEPT !.timeLimited = TRUE])
  BY <1>3, NoAnswerType
<1>4. CASE full # {} /\ Outcome(NoAnswer)
  BY <1>4, NoAnswerType
<1>5. CASE /\ streamErr \in {"nil", "failed", "ctx"} /\ ~(streamErr = "nil" /\ full = {})
           /\ ctx # "window" /\ full = {} /\ Fail("error")
  BY <1>5
<1> QED BY <1>1, <1>2, <1>3, <1>4, <1>5 DEF execStreamOutcome

\* The same of ExecInPod.
LEMMA ResetAnswers ==
  ASSUME ExecInPod, streamErr \in {"nil", "exit", "failed", "ctx"}
  PROVE  \/ Fail("error") /\ streamErr \in {"failed", "ctx"}
         \/ \E a \in Answers :
               /\ Outcome(a) /\ ~a.timeLimited
               /\ \/ a.code = "zero" /\ streamErr = "nil"
                  \/ a.code = "nonzero" /\ streamErr = "exit"
<1>1. CASE streamErr = "nil"
  <2>1. Outcome([NoAnswer EXCEPT !.code = "zero"])  BY <1>1 DEF ExecInPod
  <2> QED BY <1>1, <2>1, NoAnswerType
<1>2. CASE streamErr = "exit"
  <2>1. Outcome([NoAnswer EXCEPT !.code = "nonzero"])  BY <1>2 DEF ExecInPod
  <2> QED BY <1>2, <2>1, NoAnswerType
<1>3. CASE streamErr \in {"failed", "ctx"}  BY <1>3 DEF ExecInPod
<1> QED BY <1>1, <1>2, <1>3

\* The same of AttachResource.
LEMMA AttachAnswers ==
  ASSUME AttachResource, payload \in BOOLEAN
  PROVE  \/ Fail("error") /\ streamErr # "nil" /\ ctx # "window"
         \/ (\E a \in Answers : Outcome(a)) /\ (streamErr = "nil" \/ ctx = "window")
<1>1. CASE streamErr # "nil" /\ ctx # "window"  BY <1>1 DEF AttachResource
<1>2. CASE ~(streamErr # "nil" /\ ctx # "window")
  <2>1. Outcome([NoAnswer EXCEPT !.stdinWritten = payload])  BY <1>2 DEF AttachResource
  <2> QED BY <1>2, <2>1, NoAnswerType
<1> QED BY <1>1, <1>2

\* A copier's turn: it moves what it hands over, and the writer keeps all of it,
\* nothing, or what fills it.
LEMMA CopyEffect ==
  ASSUME NEW ch \in Channels, Copy(ch), DataType
  PROVE  /\ tool # "watch" /\ ch \in routines
         /\ UNCHANGED <<callVars, stage, conn, remoteVars, stdin, routines,
                        streamErr, answer>>
         /\ seen' \in [Channels -> Nat] /\ seen[ch] < seen'[ch] /\ seen'[ch] <= wrote[ch]
         /\ \A d \in Channels \ {ch} : seen'[d] = seen[d]
         /\ kept' \in [Channels -> Nat]
         /\ \A d \in Channels \ {ch} : kept'[d] = kept[d]
         /\ \/ /\ UNCHANGED <<full, ctx>>
               /\ kept'[ch] - kept[ch] = seen'[ch] - seen[ch]
               /\ tool # "reset" => ch \notin full /\ kept'[ch] <= Limit
            \/ UNCHANGED <<full, ctx>> /\ tool # "reset" /\ ch \in full /\ kept'[ch] = kept[ch]
            \/ /\ tool # "reset" /\ ch \notin full /\ full' = full \cup {ch} /\ ctx' = onFull
               /\ kept'[ch] = Limit /\ kept[ch] + (seen'[ch] - seen[ch]) > Limit
<1>0. /\ seen[ch] \in Nat /\ kept[ch] \in Nat /\ wrote[ch] \in Nat /\ Limit \in Nat
      /\ seen \in [Channels -> Nat] /\ kept \in [Channels -> Nat]
  BY Caps DEF DataType
<1>1. PICK n \in 1..(wrote[ch] - seen[ch]) :
         /\ seen' = [seen EXCEPT ![ch] = @ + n]
         /\ IF tool = "reset" THEN BufferWrite(ch, n) ELSE LimitedWrite(ch, n)
  BY DEF Copy
<1>2. n \in Nat /\ n > 0 /\ seen[ch] + n <= wrote[ch]  BY <1>0
<1>3. /\ seen' \in [Channels -> Nat] /\ seen'[ch] = seen[ch] + n
      /\ \A d \in Channels \ {ch} : seen'[d] = seen[d]
  BY <1>0, <1>1, <1>2
<1>4. seen[ch] < seen'[ch] /\ seen'[ch] <= wrote[ch] /\ seen'[ch] - seen[ch] = n
  BY <1>0, <1>2, <1>3
<1>5. /\ tool # "watch" /\ ch \in routines
      /\ UNCHANGED <<callVars, stage, conn, remoteVars, stdin, routines,
                     streamErr, answer>>
  BY DEF Copy
<1>6. CASE tool = "reset"
  <2>1. kept' = [kept EXCEPT ![ch] = @ + n] /\ UNCHANGED <<full, ctx>>
    BY <1>1, <1>6 DEF BufferWrite
  <2>2. /\ kept' \in [Channels -> Nat] /\ kept'[ch] = kept[ch] + n
        /\ \A d \in Channels \ {ch} : kept'[d] = kept[d]
    BY <1>0, <1>2, <2>1
  <2>3. kept'[ch] - kept[ch] = n  BY <1>0, <1>2, <2>2
  <2> QED BY <1>3, <1>4, <1>5, <1>6, <2>1, <2>2, <2>3
<1>7. CASE tool # "reset" /\ ch \in full
  <2>1. UNCHANGED <<kept, full, ctx>>  BY <1>1, <1>7 DEF LimitedWrite
  <2> QED BY <1>0, <1>3, <1>4, <1>5, <1>7, <2>1
<1>8. CASE tool # "reset" /\ ch \notin full /\ n <= Limit - kept[ch]
  <2>1. kept' = [kept EXCEPT ![ch] = @ + n] /\ UNCHANGED <<full, ctx>>
    BY <1>1, <1>8 DEF LimitedWrite
  <2>2. /\ kept' \in [Channels -> Nat] /\ kept'[ch] = kept[ch] + n
        /\ \A d \in Channels \ {ch} : kept'[d] = kept[d]
    BY <1>0, <1>2, <2>1
  <2>3. kept'[ch] - kept[ch] = n /\ kept'[ch] <= Limit  BY <1>0, <1>2, <1>8, <2>2
  <2> QED BY <1>3, <1>4, <1>5, <1>8, <2>1, <2>2, <2>3
<1>9. CASE tool # "reset" /\ ch \notin full /\ ~(n <= Limit - kept[ch])
  <2>1. kept' = [kept EXCEPT ![ch] = Limit] /\ full' = full \cup {ch} /\ ctx' = onFull
    BY <1>1, <1>9 DEF LimitedWrite
  <2>2. /\ kept' \in [Channels -> Nat] /\ kept'[ch] = Limit
        /\ \A d \in Channels \ {ch} : kept'[d] = kept[d]
    BY <1>0, <1>2, <2>1
  <2>3. kept[ch] + n > Limit  BY <1>0, <1>2, <1>9
  <2> QED BY <1>3, <1>4, <1>5, <1>9, <2>1, <2>2, <2>3
<1> QED BY <1>6, <1>7, <1>8, <1>9

\* A watch's turn: one event more, and the last one its cap allows ends it.
LEMMA WatchEffect ==
  ASSUME WatchEvent, DataType
  PROVE  /\ seen' \in [Channels -> Nat] /\ kept' \in [Channels -> Nat]
         /\ seen["out"] < wrote["out"]
         /\ seen'["out"] = seen["out"] + 1 /\ kept'["out"] = kept["out"] + 1
         /\ seen'["err"] = seen["err"] /\ kept'["err"] = kept["err"]
         /\ \/ kept'["out"] < WatchMaxEvents /\ UNCHANGED <<full, stage, ctx, conn, answer>>
            \/ full' = {"out"} /\ Outcome(NoAnswer)
<1>1. /\ seen \in [Channels -> Nat] /\ kept \in [Channels -> Nat]
      /\ {"out", "err"} \subseteq Channels /\ WatchMaxEvents \in Nat
  BY Caps DEF DataType, Channels
<1>2. seen' = [seen EXCEPT !["out"] = @ + 1] /\ kept' = [kept EXCEPT !["out"] = @ + 1]
  BY DEF WatchEvent
<1>3. /\ seen' \in [Channels -> Nat] /\ kept' \in [Channels -> Nat]
      /\ seen'["out"] = seen["out"] + 1 /\ kept'["out"] = kept["out"] + 1
      /\ seen'["err"] = seen["err"] /\ kept'["err"] = kept["err"]
  BY <1>1, <1>2
<1>4. CASE kept'["out"] >= WatchMaxEvents  BY <1>3, <1>4 DEF WatchEvent
<1>5. CASE ~(kept'["out"] >= WatchMaxEvents)
  <2>1. kept'["out"] < WatchMaxEvents
    <3>1. kept'["out"] \in Nat  BY <1>1, <1>3
    <3> QED BY <1>1, <1>5, <3>1
  <2> QED BY <1>3, <1>5, <2>1 DEF WatchEvent
<1> QED BY <1>4, <1>5

-----------------------------------------------------------------------------
\* What runs beside the call.  The goroutines, the clock and the remote side leave
\* the call's position and its answer alone, and what they have ended stays ended.
LEMMA Background ==
  ASSUME Inv, Beside
  PROVE  /\ UNCHANGED <<tool, fault, obstacle, payload, stage, conn, answer>>
         /\ ctx' = ctx \/ ctx = "live"
         /\ ctx' = "returned" => ctx = "returned"
         /\ remote' = remote \/ remote = "up"
         /\ remote # "up" => UNCHANGED wrote
         /\ routines' \subseteq routines
         /\ full \subseteq full' /\ full' \subseteq full \cup (routines \cap Channels)
         /\ \A ch \in Channels :
               /\ kept[ch] <= kept'[ch]
               /\ ch \notin routines => seen'[ch] = seen[ch] /\ kept'[ch] = kept[ch]
         /\ conn # "open" => UNCHANGED <<remote, wrote, errors>>
         /\ streamErr # "none" => UNCHANGED streamErr
<1>0. /\ ControlType /\ DataType /\ ToolInv /\ WriterInv
      /\ \A d \in Channels : kept[d] \in Nat
  BY DEF Inv, DataType
<1>1. ASSUME NEW ch \in Channels, Copy(ch)
      PROVE  /\ UNCHANGED <<tool, fault, obstacle, payload, stage, conn, answer>>
             /\ UNCHANGED <<remote, wrote, errors, routines, streamErr>>
             /\ ctx' = ctx \/ (ctx = "live" /\ ctx' = "cap")
             /\ ch \in routines /\ full \subseteq full' /\ full' \subseteq full \cup {ch}
             /\ \A d \in Channels \ {ch} : seen'[d] = seen[d] /\ kept'[d] = kept[d]
             /\ kept[ch] <= kept'[ch]
  <2>1. kept[ch] <= kept'[ch]
    <3>1. /\ kept[ch] \in Nat /\ kept'[ch] \in Nat /\ seen[ch] \in Nat /\ seen'[ch] \in Nat
          /\ seen[ch] < seen'[ch] /\ Limit \in Nat
      BY <1>0, <1>1, CopyEffect, Caps DEF DataType
    <3>2. \/ kept'[ch] - kept[ch] = seen'[ch] - seen[ch]
          \/ kept'[ch] = kept[ch]
          \/ tool # "reset" /\ tool # "watch" /\ kept'[ch] = Limit
      BY <1>0, <1>1, CopyEffect
    <3>3. tool # "reset" /\ tool # "watch" => kept[ch] <= Limit  BY <1>0 DEF WriterInv
    <3> QED BY <3>1, <3>2, <3>3
  <2>2. ctx' = ctx \/ (ctx = "live" /\ ctx' = "cap")
    BY <1>0, <1>1, CopyEffect DEF onFull
  <2> QED BY <1>0, <1>1, <2>1, <2>2, CopyEffect DEF callVars, remoteVars
<1>2. ASSUME NEW ch \in Channels, CopyEnds(ch)
      PROVE  /\ UNCHANGED <<callVars, stage, ctx, conn, remoteVars, writerVars>>
             /\ UNCHANGED <<streamErr, answer>> /\ routines' \subseteq routines
  BY <1>2 DEF CopyEnds
<1>3. CASE StdinPayload \/ StdinEOF
  BY <1>0, <1>3 DEF StdinPayload, StdinEOF, callVars, remoteVars, writerVars
<1>4. CASE ErrorStreamRead
  BY <1>0, <1>4 DEF ErrorStreamRead, ToolInv, callVars, remoteVars, writerVars
<1>5. ASSUME NEW ch \in ChannelsOf(tool), RemoteWrites(ch)
      PROVE  /\ UNCHANGED <<callVars, stage, ctx, conn, remote, errors, routines>>
             /\ UNCHANGED <<writerVars, streamErr, answer>> /\ remote = "up" /\ conn = "open"
  BY <1>5 DEF RemoteWrites
<1>6. CASE RemoteEnds  BY <1>0, <1>6 DEF RemoteEnds, callVars, writerVars
<1>7. CASE ErrorStreamEnds  BY <1>0, <1>7 DEF ErrorStreamEnds, callVars, writerVars
<1>8. CASE WindowEnds  BY <1>0, <1>8 DEF WindowEnds, callVars, remoteVars, writerVars
<1>9. CASE CallerLeaves  BY <1>0, <1>9 DEF CallerLeaves, callVars, remoteVars, writerVars
<1>10. CASE UNCHANGED vars  BY <1>0, <1>10 DEF vars, callVars, remoteVars, writerVars
<1>11. CASE \E ch \in Channels : Copy(ch)  BY <1>0, <1>1, <1>11
<1>12. CASE \E ch \in Channels : CopyEnds(ch)
  BY <1>0, <1>2, <1>12 DEF callVars, remoteVars, writerVars
<1>13. CASE \E ch \in ChannelsOf(tool) : RemoteWrites(ch)
  BY <1>0, <1>5, <1>13 DEF callVars, writerVars
<1> QED BY <1>3, <1>4, <1>6, <1>7, <1>8, <1>9, <1>10, <1>11, <1>12, <1>13
        DEF Beside, Goroutines, Environment

\* An excuse, a full writer, all read and all told are never taken back by it.
LEMMA MarksStay ==
  ASSUME Inv, Beside
  PROVE  /\ Excused => Excused'
         /\ full # {} => full' # {}
         /\ AllRead => AllRead'
         /\ AllTold => AllTold'
<1>1. \A ch \in ChannelsOf(tool) : ch \in Channels  BY DEF ChannelsOf, Channels
<1>2. Excused => Excused'  BY Background DEF Excused
<1>3. full # {} => full' # {}  BY Background
<1>4. AllRead => AllRead'  BY <1>1, Background DEF AllRead
<1>5. AllTold => AllTold'  BY <1>1, Background DEF AllTold
<1> QED BY <1>2, <1>3, <1>4, <1>5

\* Where the call's own steps lead.
LEMMA Moves ==
  ASSUME Inv, [Next]_vars
  PROVE  \/ Beside
         \/ stage' \notin {"returned", "closing", "done"} \cup Answering
         \/ stage' = "returned" /\ (DialFails \/ DialCut \/ StreamWithContext)
         \/ stage' = "closing" /\ ReadWindowEnds
         \/ stage' = "text" /\ Replies
         \/ stage' = "flags" /\ ReadText
         \/ stage' = "done" /\ (ReadFlags \/ answer'.type \in {"refused", "error"})
<1>t. {"refused", "error"} \subseteq Types  BY DEF Types
<1>1. CASE ResolvePairs \/ Decide \/ Handle
  BY <1>1, <1>t, FailEffect DEF ResolvePairs, Decide, Handle, Answering
<1>2. CASE Connect \/ OpenTunnel \/ SendPayload
  BY <1>2 DEF Connect, OpenTunnel, SendPayload, Answering
<1>3. CASE DialFails \/ DialCut \/ StreamWithContext
  BY <1>3 DEF DialFails, DialCut, StreamWithContext
<1>4. CASE ConnectFails \/ RequestCut \/ SendPayloadFails
  BY <1>4, <1>t, FailEffect DEF ConnectFails, RequestCut, SendPayloadFails
<1>5. CASE execStreamOutcome
  BY <1>5, <1>t, ExecAnswers, FailEffect, OutcomeEffect DEF Replies
<1>6. CASE ExecInPod
  <2>1. streamErr \in {"nil", "exit", "failed", "ctx"}  BY <1>6 DEF ExecInPod, Inv, ReturnInv
  <2> QED BY <1>6, <1>t, <2>1, ResetAnswers, FailEffect, OutcomeEffect DEF Replies
<1>7. CASE AttachResource
  <2>1. payload \in BOOLEAN  BY DEF Inv, ControlType
  <2> QED BY <1>7, <1>t, <2>1, AttachAnswers, FailEffect, OutcomeEffect DEF Replies
<1>8. CASE roundTrip \/ ProxyResource
  BY <1>8, <1>t, FailEffect, OutcomeEffect, NoAnswerType DEF roundTrip, ProxyResource, Replies
<1>9. CASE WatchResources
  <2>1. stage = "stream"  BY <1>9 DEF WatchResources
  <2>2. \/ stage' = stage \/ Outcome(NoAnswer) \/ Fail("error")
    BY <1>9 DEF WatchResources, WatchEvent, WatchEnds
  <2> QED BY <1>9, <1>t, <2>1, <2>2, FailEffect, OutcomeEffect, NoAnswerType
             DEF Replies, Answering
<1>10. CASE ReadWindowEnds  BY <1>10 DEF ReadWindowEnds
<1>11. CASE ReadText  BY <1>11 DEF ReadText
<1>12. CASE ReadFlags  BY <1>12 DEF ReadFlags, Return
<1> QED BY <1>1, <1>2, <1>3, <1>4, <1>5, <1>6, <1>7, <1>8, <1>9, <1>10, <1>11, <1>12
        DEF Next, Proceed, Beside

-----------------------------------------------------------------------------
\* The parts of the invariant, one lemma each.

\* Control stays within its types.
LEMMA ControlTypeStep ==
  ASSUME Inv, [Next]_vars
  PROVE  ControlType'
<1>0. ControlType  BY DEF Inv
<1>t. {"refused", "error"} \subseteq Types  BY DEF Types
<1>r. stage = "returned" => streamErr \in {"nil", "exit", "failed", "ctx"}  BY DEF Inv, ReturnInv
<1>c. payload \in BOOLEAN  BY DEF Inv, ControlType
<1>1. CASE ResolvePairs
  BY <1>0, <1>t, FailEffect, <1>1
     DEF ResolvePairs, ControlType, Early, Answering, beforeVars, callVars, remoteVars
<1>2. CASE Decide
  <2>1. CASE Fail("refused") /\ UNCHANGED beforeVars
    BY <1>0, <1>2, <2>1, <1>t, FailEffect
       DEF Decide, ControlType, Early, Answering, beforeVars, callVars, remoteVars
  <2>2. CASE /\ stage' = "handler"
            /\ UNCHANGED <<beforeVars, ctx, conn, answer>>
    BY <1>0, <1>2, <2>2
       DEF Decide, ControlType, Early, Answering, beforeVars, callVars, remoteVars
  <2> QED BY <1>2, <2>1, <2>2 DEF Decide
<1>3. CASE Handle
  BY <1>0, <1>t, FailEffect, <1>3
     DEF Handle, ControlType, Early, Answering, beforeVars, callVars, remoteVars
<1>4. CASE Connect
  BY <1>0, <1>4
     DEF Connect, ControlType, Early, Answering, ChannelsOf, Channels, connectVars,
         callVars, remoteVars
<1>5. CASE DialFails
  BY <1>0, <1>5 DEF DialFails, ControlType, Early, Answering, connectVars, callVars, remoteVars
<1>6. CASE DialCut
  BY <1>0, <1>6 DEF DialCut, ControlType, Early, Answering, connectVars, callVars, remoteVars
<1>7. CASE ConnectFails
  BY <1>0, <1>t, FailEffect, <1>7
     DEF ConnectFails, ControlType, Early, Answering, callVars, remoteVars
<1>8. CASE RequestCut
  BY <1>0, <1>t, FailEffect, <1>8
     DEF RequestCut, ControlType, Early, Answering, callVars, remoteVars
<1>9. CASE OpenTunnel
  BY <1>0, <1>9 DEF OpenTunnel, ControlType, Early, Answering, callVars
<1>10. CASE SendPayload
  BY <1>0, <1>10
     DEF SendPayload, ControlType, Early, Answering, Channels, connectVars, callVars,
         remoteVars
<1>11. CASE SendPayloadFails
  BY <1>0, <1>t, FailEffect, <1>11
     DEF SendPayloadFails, ControlType, Early, Answering, beforeVars, callVars, remoteVars
<1>12. ASSUME NEW ch \in Channels, Copy(ch) PROVE ControlType'
  BY <1>0, <1>12
     DEF Copy, LimitedWrite, BufferWrite, onFull, ControlType, Early, Answering, callVars,
         remoteVars
<1>13. ASSUME NEW ch \in Channels, CopyEnds(ch) PROVE ControlType'
  BY <1>0, <1>13 DEF CopyEnds, ControlType, Early, Answering, callVars, remoteVars
<1>14. CASE StdinPayload
  BY <1>0, <1>14 DEF StdinPayload, ControlType, Early, Answering, callVars, remoteVars
<1>15. CASE StdinEOF
  BY <1>0, <1>15 DEF StdinEOF, ControlType, Early, Answering, callVars, remoteVars
<1>16. CASE ErrorStreamRead
  BY <1>0, <1>16 DEF ErrorStreamRead, ControlType, Early, Answering, callVars, remoteVars
<1>17. CASE StreamWithContext
  BY <1>0, <1>17
     DEF StreamWithContext, ControlType, Early, Answering, endVars, callVars, remoteVars
<1>18. CASE execStreamOutcome
  <2>1. stage = "returned" /\ tool = "exec" /\ UNCHANGED <<endVars, streamErr>>
    BY <1>18 DEF execStreamOutcome
  <2>2. CASE Fail("error")
    BY <1>0, <2>1, <2>2, <1>t, FailEffect
       DEF ControlType, Early, Answering, endVars, callVars, remoteVars
  <2>3. CASE ~Fail("error")
    BY <1>0, <1>18, <2>1, <2>3, ExecAnswers, OutcomeEffect
       DEF ControlType, Early, Answering, endVars, callVars, remoteVars
  <2> QED BY <2>2, <2>3
<1>19. CASE ExecInPod
  <2>1. stage = "returned" /\ tool = "reset" /\ UNCHANGED <<endVars, streamErr>>
    BY <1>19 DEF ExecInPod
  <2>2. CASE Fail("error")
    BY <1>0, <2>1, <2>2, <1>t, FailEffect
       DEF ControlType, Early, Answering, endVars, callVars, remoteVars
  <2>3. CASE ~Fail("error")
    BY <1>0, <1>r, <1>19, <2>1, <2>3, ResetAnswers, OutcomeEffect
       DEF ControlType, Early, Answering, endVars, callVars, remoteVars
  <2> QED BY <2>2, <2>3
<1>20. CASE AttachResource
  <2>1. stage = "returned" /\ tool = "attach" /\ UNCHANGED <<endVars, streamErr>>
    BY <1>20 DEF AttachResource
  <2>2. CASE Fail("error")
    BY <1>0, <2>1, <2>2, <1>t, FailEffect
       DEF ControlType, Early, Answering, endVars, callVars, remoteVars
  <2>3. CASE ~Fail("error")
    BY <1>0, <1>c, <1>20, <2>1, <2>3, AttachAnswers, OutcomeEffect
       DEF ControlType, Early, Answering, endVars, callVars, remoteVars
  <2> QED BY <2>2, <2>3
<1>21. CASE ReadWindowEnds
  BY <1>0, <1>21
     DEF ReadWindowEnds, ControlType, Early, Answering, endVars, callVars, remoteVars
<1>22. CASE roundTrip
  BY <1>0, <1>t, FailEffect, OutcomeEffect, NoAnswerType, <1>22
     DEF roundTrip, ControlType, Early, Answering, endVars, callVars, remoteVars
<1>23. CASE ProxyResource
  BY <1>0, <1>t, FailEffect, OutcomeEffect, NoAnswerType, <1>23
     DEF ProxyResource, ControlType, Early, Answering, endVars, callVars, remoteVars
<1>24. CASE WatchResources
  BY <1>0, <1>t, FailEffect, OutcomeEffect, NoAnswerType, <1>24
     DEF WatchResources, WatchEvent, WatchEnds, ControlType, Early, Answering, callVars,
         remoteVars
<1>25. CASE ReadText
  BY <1>0, <1>25 DEF ReadText, ControlType, Early, Answering, endVars, callVars, remoteVars
<1>26. CASE ReadFlags
  BY <1>0, <1>26
     DEF ReadFlags, Return, ControlType, Early, Answering, endVars, callVars, remoteVars
<1>27. ASSUME NEW ch \in ChannelsOf(tool), RemoteWrites(ch) PROVE ControlType'
  BY <1>0, <1>27 DEF RemoteWrites, ControlType, Early, Answering, callVars
<1>28. CASE RemoteEnds
  BY <1>0, <1>28 DEF RemoteEnds, ControlType, Early, Answering, callVars
<1>29. CASE ErrorStreamEnds
  BY <1>0, <1>29 DEF ErrorStreamEnds, ControlType, Early, Answering, callVars
<1>30. CASE WindowEnds
  BY <1>0, <1>30 DEF WindowEnds, Windowed, ControlType, Early, Answering, callVars, remoteVars
<1>31. CASE CallerLeaves
  BY <1>0, <1>31 DEF CallerLeaves, ControlType, Early, Answering, callVars, remoteVars
<1>32. CASE UNCHANGED vars
  BY <1>0, <1>32 DEF vars, ControlType, Early, Answering, callVars, remoteVars
<1> QED BY <1>1, <1>2, <1>3, <1>4, <1>5, <1>6, <1>7, <1>8, <1>9, <1>10, <1>11, <1>12, <1>13,
   <1>14, <1>15, <1>16, <1>17, <1>18, <1>19, <1>20, <1>21, <1>22, <1>23, <1>24, <1>25,
   <1>26, <1>27, <1>28, <1>29, <1>30, <1>31, <1>32
   DEF Next, Proceed, Goroutines, Environment

\* So does the answer.
LEMMA AnswerTypeStep ==
  ASSUME Inv, [Next]_vars
  PROVE  AnswerType'
<1>0. AnswerType /\ DataType
  BY DEF Inv
<1>t. {"refused", "error"} \subseteq Types  BY DEF Types
<1>r. stage = "returned" => streamErr \in {"nil", "exit", "failed", "ctx"}
  BY DEF Inv, ReturnInv
<1>c. payload \in BOOLEAN  BY DEF Inv, ControlType
<1>1. CASE Beside
  BY <1>0, <1>1, Background DEF AnswerType
<1>2. CASE ResolvePairs
  BY <1>0, <1>t, FailEffect, <1>2 DEF ResolvePairs, AnswerType
<1>3. CASE Decide
  <2>1. CASE Fail("refused") /\ UNCHANGED beforeVars
    BY <1>0, <1>3, <2>1, <1>t, FailEffect DEF Decide, AnswerType
  <2>2. CASE /\ stage' = "handler"
            /\ UNCHANGED <<beforeVars, ctx, conn, answer>>
    BY <1>0, <1>3, <2>2 DEF Decide, AnswerType
  <2> QED BY <1>3, <2>1, <2>2 DEF Decide
<1>4. CASE Handle
  BY <1>0, <1>t, FailEffect, <1>4 DEF Handle, AnswerType
<1>5. CASE Connect
  BY <1>0, <1>5 DEF Connect, AnswerType, connectVars
<1>6. CASE DialFails
  BY <1>0, <1>6 DEF DialFails, AnswerType, connectVars
<1>7. CASE DialCut
  BY <1>0, <1>7 DEF DialCut, AnswerType, connectVars
<1>8. CASE ConnectFails
  BY <1>0, <1>t, FailEffect, <1>8 DEF ConnectFails, AnswerType
<1>9. CASE RequestCut
  BY <1>0, <1>t, FailEffect, <1>9 DEF RequestCut, AnswerType
<1>10. CASE OpenTunnel
  BY <1>0, <1>10 DEF OpenTunnel, AnswerType
<1>11. CASE SendPayload
  BY <1>0, <1>11 DEF SendPayload, AnswerType, connectVars
<1>12. CASE SendPayloadFails
  BY <1>0, <1>t, FailEffect, <1>12 DEF SendPayloadFails, AnswerType
<1>13. CASE StreamWithContext
  BY <1>0, <1>13 DEF StreamWithContext, AnswerType
<1>14. CASE execStreamOutcome
  <2>1. stage = "returned" /\ tool = "exec" /\ UNCHANGED <<endVars, streamErr>>
    BY <1>14 DEF execStreamOutcome
  <2>2. CASE Fail("error")
    BY <1>0, <2>1, <2>2, <1>t, FailEffect DEF AnswerType
  <2>3. CASE ~Fail("error")
    BY <1>0, <1>14, <2>1, <2>3, ExecAnswers, OutcomeEffect DEF AnswerType
  <2> QED BY <2>2, <2>3
<1>15. CASE ExecInPod
  <2>1. stage = "returned" /\ tool = "reset" /\ UNCHANGED <<endVars, streamErr>>
    BY <1>15 DEF ExecInPod
  <2>2. CASE Fail("error")
    BY <1>0, <2>1, <2>2, <1>t, FailEffect DEF AnswerType
  <2>3. CASE ~Fail("error")
    BY <1>0, <1>r, <1>15, <2>1, <2>3, ResetAnswers, OutcomeEffect DEF AnswerType
  <2> QED BY <2>2, <2>3
<1>16. CASE AttachResource
  <2>1. stage = "returned" /\ tool = "attach" /\ UNCHANGED <<endVars, streamErr>>
    BY <1>16 DEF AttachResource
  <2>2. CASE Fail("error")
    BY <1>0, <2>1, <2>2, <1>t, FailEffect DEF AnswerType
  <2>3. CASE ~Fail("error")
    BY <1>0, <1>c, <1>16, <2>1, <2>3, AttachAnswers, OutcomeEffect DEF AnswerType
  <2> QED BY <2>2, <2>3
<1>17. CASE ReadWindowEnds
  BY <1>0, <1>17 DEF ReadWindowEnds, AnswerType
<1>18. CASE roundTrip
  BY <1>0, <1>t, FailEffect, OutcomeEffect, NoAnswerType, <1>18 DEF roundTrip, AnswerType
<1>19. CASE ProxyResource
  BY <1>0, <1>t, FailEffect, OutcomeEffect, NoAnswerType, <1>19 DEF ProxyResource, AnswerType
<1>20. CASE WatchResources
  BY <1>0, <1>t, FailEffect, OutcomeEffect, NoAnswerType, <1>20
     DEF WatchResources, WatchEvent, WatchEnds, AnswerType
<1>21. CASE ReadText
  BY <1>0, <1>21 DEF ReadText, AnswerType, DataType, Answers
<1>22. CASE ReadFlags
  BY <1>0, <1>22 DEF ReadFlags, Return, AnswerType, DataType, Answers
<1> QED BY <1>1, <1>2, <1>3, <1>4, <1>5, <1>6, <1>7, <1>8, <1>9, <1>10, <1>11, <1>12, <1>13,
   <1>14, <1>15, <1>16, <1>17, <1>18, <1>19, <1>20, <1>21, <1>22
   DEF Next, Proceed, Beside

\* The stage tells what is open.
LEMMA StageStep ==
  ASSUME Inv, [Next]_vars
  PROVE  StageInv'
<1>0. StageInv /\ ControlType  BY DEF Inv
<1>t. {"refused", "error"} \subseteq Types  BY DEF Types
<1>r. stage = "returned" => streamErr \in {"nil", "exit", "failed", "ctx"}  BY DEF Inv, ReturnInv
<1>c. payload \in BOOLEAN  BY DEF Inv, ControlType
<1>1. CASE ResolvePairs
  BY <1>0, <1>t, FailEffect, <1>1
     DEF ResolvePairs, StageInv, Early, Answering, beforeVars, callVars, remoteVars
<1>2. CASE Decide
  <2>1. CASE Fail("refused") /\ UNCHANGED beforeVars
    BY <1>0, <1>2, <2>1, <1>t, FailEffect
       DEF Decide, StageInv, Early, Answering, beforeVars, callVars, remoteVars
  <2>2. CASE /\ stage' = "handler"
            /\ UNCHANGED <<beforeVars, ctx, conn, answer>>
    BY <1>0, <1>2, <2>2
       DEF Decide, StageInv, Early, Answering, beforeVars, callVars, remoteVars
  <2> QED BY <1>2, <2>1, <2>2 DEF Decide
<1>3. CASE Handle
  BY <1>0, <1>t, FailEffect, <1>3
     DEF Handle, StageInv, Early, Answering, beforeVars, callVars, remoteVars
<1>4. CASE Connect
  BY <1>0, <1>4 DEF Connect, StageInv, Early, Answering, connectVars, callVars, remoteVars
<1>5. CASE DialFails
  BY <1>0, <1>5 DEF DialFails, StageInv, Early, Answering, connectVars, callVars, remoteVars
<1>6. CASE DialCut
  BY <1>0, <1>6 DEF DialCut, StageInv, Early, Answering, connectVars, callVars, remoteVars
<1>7. CASE ConnectFails
  BY <1>0, <1>t, FailEffect, <1>7
     DEF ConnectFails, StageInv, Early, Answering, callVars, remoteVars
<1>8. CASE RequestCut
  BY <1>0, <1>t, FailEffect, <1>8
     DEF RequestCut, StageInv, Early, Answering, callVars, remoteVars
<1>9. CASE OpenTunnel
  BY <1>0, <1>9 DEF OpenTunnel, StageInv, Early, Answering, callVars
<1>10. CASE SendPayload
  BY <1>0, <1>10 DEF SendPayload, StageInv, Early, Answering, connectVars, callVars, remoteVars
<1>11. CASE SendPayloadFails
  BY <1>0, <1>t, FailEffect, <1>11
     DEF SendPayloadFails, StageInv, Early, Answering, beforeVars, callVars, remoteVars
<1>12. ASSUME NEW ch \in Channels, Copy(ch) PROVE StageInv'
  BY <1>0, <1>12
     DEF Copy, LimitedWrite, BufferWrite, onFull, StageInv, Early, Answering, callVars,
         remoteVars
<1>13. ASSUME NEW ch \in Channels, CopyEnds(ch) PROVE StageInv'
  BY <1>0, <1>13 DEF CopyEnds, StageInv, Early, Answering, callVars, remoteVars
<1>14. CASE StdinPayload
  BY <1>0, <1>14 DEF StdinPayload, StageInv, Early, Answering, callVars, remoteVars
<1>15. CASE StdinEOF
  BY <1>0, <1>15 DEF StdinEOF, StageInv, Early, Answering, callVars, remoteVars
<1>16. CASE ErrorStreamRead
  BY <1>0, <1>16 DEF ErrorStreamRead, StageInv, Early, Answering, callVars, remoteVars
<1>17. CASE StreamWithContext
  BY <1>0, <1>17
     DEF StreamWithContext, StageInv, Early, Answering, endVars, callVars, remoteVars
<1>18. CASE execStreamOutcome
  <2>1. stage = "returned" /\ tool = "exec" /\ UNCHANGED <<endVars, streamErr>>
    BY <1>18 DEF execStreamOutcome
  <2>2. CASE Fail("error")
    BY <1>0, <2>1, <2>2, <1>t, FailEffect
       DEF StageInv, Early, Answering, endVars, callVars, remoteVars
  <2>3. CASE ~Fail("error")
    BY <1>0, <1>18, <2>1, <2>3, ExecAnswers, OutcomeEffect
       DEF StageInv, Early, Answering, endVars, callVars, remoteVars
  <2> QED BY <2>2, <2>3
<1>19. CASE ExecInPod
  <2>1. stage = "returned" /\ tool = "reset" /\ UNCHANGED <<endVars, streamErr>>
    BY <1>19 DEF ExecInPod
  <2>2. CASE Fail("error")
    BY <1>0, <2>1, <2>2, <1>t, FailEffect
       DEF StageInv, Early, Answering, endVars, callVars, remoteVars
  <2>3. CASE ~Fail("error")
    BY <1>0, <1>r, <1>19, <2>1, <2>3, ResetAnswers, OutcomeEffect
       DEF StageInv, Early, Answering, endVars, callVars, remoteVars
  <2> QED BY <2>2, <2>3
<1>20. CASE AttachResource
  <2>1. stage = "returned" /\ tool = "attach" /\ UNCHANGED <<endVars, streamErr>>
    BY <1>20 DEF AttachResource
  <2>2. CASE Fail("error")
    BY <1>0, <2>1, <2>2, <1>t, FailEffect
       DEF StageInv, Early, Answering, endVars, callVars, remoteVars
  <2>3. CASE ~Fail("error")
    BY <1>0, <1>c, <1>20, <2>1, <2>3, AttachAnswers, OutcomeEffect
       DEF StageInv, Early, Answering, endVars, callVars, remoteVars
  <2> QED BY <2>2, <2>3
<1>21. CASE ReadWindowEnds
  BY <1>0, <1>21 DEF ReadWindowEnds, StageInv, Early, Answering, endVars, callVars, remoteVars
<1>22. CASE roundTrip
  BY <1>0, <1>t, FailEffect, OutcomeEffect, NoAnswerType, <1>22
     DEF roundTrip, StageInv, Early, Answering, Executors, endVars, callVars, remoteVars
<1>23. CASE ProxyResource
  BY <1>0, <1>t, FailEffect, OutcomeEffect, NoAnswerType, <1>23
     DEF ProxyResource, StageInv, Early, Answering, Executors, endVars, callVars,
         remoteVars
<1>24. CASE WatchResources
  BY <1>0, <1>t, FailEffect, OutcomeEffect, NoAnswerType, <1>24
     DEF WatchResources, WatchEvent, WatchEnds, StageInv, Early, Answering, Executors,
         callVars, remoteVars
<1>25. CASE ReadText
  BY <1>0, <1>25 DEF ReadText, StageInv, Early, Answering, endVars, callVars, remoteVars
<1>26. CASE ReadFlags
  BY <1>0, <1>26
     DEF ReadFlags, Return, StageInv, Early, Answering, endVars, callVars, remoteVars
<1>27. ASSUME NEW ch \in ChannelsOf(tool), RemoteWrites(ch) PROVE StageInv'
  BY <1>0, <1>27 DEF RemoteWrites, StageInv, Early, Answering, callVars
<1>28. CASE RemoteEnds
  BY <1>0, <1>28 DEF RemoteEnds, StageInv, Early, Answering, callVars
<1>29. CASE ErrorStreamEnds
  BY <1>0, <1>29 DEF ErrorStreamEnds, StageInv, Early, Answering, callVars
<1>30. CASE WindowEnds
  BY <1>0, <1>30 DEF WindowEnds, Windowed, StageInv, Early, Answering, callVars, remoteVars
<1>31. CASE CallerLeaves
  BY <1>0, <1>31 DEF CallerLeaves, StageInv, Early, Answering, callVars, remoteVars
<1>32. CASE UNCHANGED vars
  BY <1>0, <1>32 DEF vars, StageInv, Early, Answering, callVars, remoteVars
<1> QED BY <1>1, <1>2, <1>3, <1>4, <1>5, <1>6, <1>7, <1>8, <1>9, <1>10, <1>11, <1>12, <1>13,
   <1>14, <1>15, <1>16, <1>17, <1>18, <1>19, <1>20, <1>21, <1>22, <1>23, <1>24, <1>25,
   <1>26, <1>27, <1>28, <1>29, <1>30, <1>31, <1>32
   DEF Next, Proceed, Goroutines, Environment

\* The tool tells what can happen.
LEMMA ToolStep ==
  ASSUME Inv, [Next]_vars
  PROVE  ToolInv'
<1>0. ToolInv /\ StageInv /\ ControlType  BY DEF Inv
<1>t. {"refused", "error"} \subseteq Types  BY DEF Types
<1>r. stage = "returned" => streamErr \in {"nil", "exit", "failed", "ctx"}  BY DEF Inv, ReturnInv
<1>c. payload \in BOOLEAN  BY DEF Inv, ControlType
<1>1. CASE ResolvePairs
  BY <1>0, <1>t, FailEffect, <1>1
     DEF ResolvePairs, ToolInv, beforeVars, callVars, remoteVars, writerVars
<1>2. CASE Decide
  <2>1. CASE Fail("refused") /\ UNCHANGED beforeVars
    BY <1>0, <1>2, <2>1, <1>t, FailEffect
       DEF Decide, ToolInv, beforeVars, callVars, remoteVars, writerVars
  <2>2. CASE /\ stage' = "handler"
            /\ UNCHANGED <<beforeVars, ctx, conn, answer>>
    BY <1>0, <1>2, <2>2 DEF Decide, ToolInv, beforeVars, callVars, remoteVars, writerVars
  <2> QED BY <1>2, <2>1, <2>2 DEF Decide
<1>3. CASE Handle
  BY <1>0, <1>t, FailEffect, <1>3
     DEF Handle, ToolInv, StageInv, Early, Gated, Executors, beforeVars, callVars,
         remoteVars, writerVars
<1>4. CASE Connect
  BY <1>0, <1>4
     DEF Connect, ToolInv, StageInv, Early, Gated, ChannelsOf, Channels, connectVars,
         callVars, remoteVars, writerVars
<1>5. CASE DialFails
  BY <1>0, <1>5
     DEF DialFails, ToolInv, StageInv, Early, Gated, Executors, connectVars, callVars,
         remoteVars, writerVars
<1>6. CASE DialCut
  BY <1>0, <1>6
     DEF DialCut, ToolInv, StageInv, Early, Gated, Executors, connectVars, callVars,
         remoteVars, writerVars
<1>7. CASE ConnectFails
  BY <1>0, <1>t, FailEffect, <1>7
     DEF ConnectFails, ToolInv, StageInv, Early, Gated, Executors, callVars, remoteVars,
         writerVars
<1>8. CASE RequestCut
  BY <1>0, <1>t, FailEffect, <1>8 DEF RequestCut, ToolInv, callVars, remoteVars, writerVars
<1>9. CASE OpenTunnel
  BY <1>0, <1>9
     DEF OpenTunnel, ToolInv, StageInv, Early, Gated, Executors, callVars, writerVars
<1>10. CASE SendPayload
  BY <1>0, <1>10
     DEF SendPayload, ToolInv, StageInv, Early, Gated, Executors, connectVars, callVars,
         remoteVars, writerVars
<1>11. CASE SendPayloadFails
  BY <1>0, <1>t, FailEffect, <1>11
     DEF SendPayloadFails, ToolInv, beforeVars, callVars, remoteVars, writerVars
<1>12. ASSUME NEW ch \in Channels, Copy(ch) PROVE ToolInv'
  BY <1>0, <1>12
     DEF Copy, LimitedWrite, BufferWrite, onFull, ToolInv, ControlType, Tools, ChannelsOf,
         Executors, StageInv, Early, callVars, remoteVars
<1>13. ASSUME NEW ch \in Channels, CopyEnds(ch) PROVE ToolInv'
  BY <1>0, <1>13 DEF CopyEnds, ToolInv, callVars, remoteVars, writerVars
<1>14. CASE StdinPayload
  BY <1>0, <1>14 DEF StdinPayload, ToolInv, callVars, remoteVars, writerVars
<1>15. CASE StdinEOF
  BY <1>0, <1>15 DEF StdinEOF, ToolInv, callVars, remoteVars, writerVars
<1>16. CASE ErrorStreamRead
  BY <1>0, <1>16 DEF ErrorStreamRead, ToolInv, callVars, remoteVars, writerVars
<1>17. CASE StreamWithContext
  <2>1. streamErr' \in {"nil", "exit", "failed", "ctx"} /\ tool \in Executors
    <3>1. CASE remote \in {"ok", "detached"}  BY <3>1, <1>17 DEF StreamWithContext
    <3>2. CASE remote \in {"exit", "failed"}  BY <3>2, <1>17 DEF StreamWithContext
    <3>3. CASE remote = "up"  BY <3>3, <1>17 DEF StreamWithContext
    <3> QED BY <1>0, <3>1, <3>2, <3>3, <1>17 DEF ControlType, StreamWithContext
  <2>2. stage = "stream" /\ stage' = "returned" /\ UNCHANGED <<endVars, ctx>>
    BY <1>17 DEF StreamWithContext
  <2> QED BY <1>0, <2>1, <2>2
             DEF ToolInv, StageInv, Executors, callVars, remoteVars, writerVars, endVars
<1>18. CASE execStreamOutcome
  <2>1. stage = "returned" /\ tool = "exec" /\ UNCHANGED <<endVars, streamErr>>
    BY <1>18 DEF execStreamOutcome
  <2>2. CASE Fail("error")
    BY <1>0, <2>1, <2>2, <1>t, FailEffect
       DEF ToolInv, endVars, callVars, remoteVars, writerVars
  <2>3. CASE ~Fail("error")
    BY <1>0, <1>18, <2>1, <2>3, ExecAnswers, OutcomeEffect
       DEF ToolInv, endVars, callVars, remoteVars, writerVars
  <2> QED BY <2>2, <2>3
<1>19. CASE ExecInPod
  <2>1. stage = "returned" /\ tool = "reset" /\ UNCHANGED <<endVars, streamErr>>
    BY <1>19 DEF ExecInPod
  <2>2. CASE Fail("error")
    BY <1>0, <2>1, <2>2, <1>t, FailEffect
       DEF ToolInv, endVars, callVars, remoteVars, writerVars
  <2>3. CASE ~Fail("error")
    BY <1>0, <1>r, <1>19, <2>1, <2>3, ResetAnswers, OutcomeEffect
       DEF ToolInv, endVars, callVars, remoteVars, writerVars
  <2> QED BY <2>2, <2>3
<1>20. CASE AttachResource
  <2>1. stage = "returned" /\ tool = "attach" /\ UNCHANGED <<endVars, streamErr>>
    BY <1>20 DEF AttachResource
  <2>2. CASE Fail("error")
    BY <1>0, <2>1, <2>2, <1>t, FailEffect
       DEF ToolInv, endVars, callVars, remoteVars, writerVars
  <2>3. CASE ~Fail("error")
    BY <1>0, <1>c, <1>20, <2>1, <2>3, AttachAnswers, OutcomeEffect
       DEF ToolInv, endVars, callVars, remoteVars, writerVars
  <2> QED BY <2>2, <2>3
<1>21. CASE ReadWindowEnds
  BY <1>0, <1>21 DEF ReadWindowEnds, ToolInv, endVars, callVars, remoteVars, writerVars
<1>22. CASE roundTrip
  BY <1>0, <1>t, FailEffect, OutcomeEffect, NoAnswerType, <1>22
     DEF roundTrip, ToolInv, endVars, callVars, remoteVars, writerVars
<1>23. CASE ProxyResource
  BY <1>0, <1>t, FailEffect, OutcomeEffect, NoAnswerType, <1>23
     DEF ProxyResource, ToolInv, endVars, callVars, remoteVars, writerVars
<1>24. CASE WatchResources
  BY <1>0, <1>t, FailEffect, OutcomeEffect, NoAnswerType, <1>24
     DEF WatchResources, WatchEvent, WatchEnds, ToolInv, callVars, remoteVars, writerVars
<1>25. CASE ReadText
  BY <1>0, <1>25 DEF ReadText, ToolInv, endVars, callVars, remoteVars, writerVars
<1>26. CASE ReadFlags
  BY <1>0, <1>26 DEF ReadFlags, Return, ToolInv, endVars, callVars, remoteVars, writerVars
<1>27. ASSUME NEW ch \in ChannelsOf(tool), RemoteWrites(ch) PROVE ToolInv'
  BY <1>0, <1>27 DEF RemoteWrites, ToolInv, callVars, writerVars
<1>28. CASE RemoteEnds
  BY <1>0, <1>28 DEF RemoteEnds, ToolInv, callVars, writerVars
<1>29. CASE ErrorStreamEnds
  BY <1>0, <1>29 DEF ErrorStreamEnds, ToolInv, callVars, writerVars
<1>30. CASE WindowEnds
  BY <1>0, <1>30
     DEF WindowEnds, Windowed, ToolInv, Gated, StageInv, Early, callVars, remoteVars,
         writerVars
<1>31. CASE CallerLeaves
  BY <1>0, <1>31 DEF CallerLeaves, ToolInv, callVars, remoteVars, writerVars
<1>32. CASE UNCHANGED vars
  BY <1>0, <1>32 DEF vars, ToolInv, callVars, remoteVars, writerVars
<1> QED BY <1>1, <1>2, <1>3, <1>4, <1>5, <1>6, <1>7, <1>8, <1>9, <1>10, <1>11, <1>12, <1>13,
   <1>14, <1>15, <1>16, <1>17, <1>18, <1>19, <1>20, <1>21, <1>22, <1>23, <1>24, <1>25,
   <1>26, <1>27, <1>28, <1>29, <1>30, <1>31, <1>32
   DEF Next, Proceed, Goroutines, Environment

\* What was kept was seen, and what was seen was written.
LEMMA DataTypeStep ==
  ASSUME Inv, [Next]_vars
  PROVE  DataType'
<1>0. DataType /\ ControlType  BY DEF Inv
<1>t. {"refused", "error"} \subseteq Types  BY DEF Types
<1>r. stage = "returned" => streamErr \in {"nil", "exit", "failed", "ctx"}  BY DEF Inv, ReturnInv
<1>c. payload \in BOOLEAN  BY DEF Inv, ControlType
<1>1. CASE ResolvePairs
  BY <1>0, Caps, <1>t, FailEffect, <1>1
     DEF ResolvePairs, DataType, beforeVars, remoteVars, writerVars
<1>2. CASE Decide
  <2>1. CASE Fail("refused") /\ UNCHANGED beforeVars
    BY <1>0, Caps, <1>2, <2>1, <1>t, FailEffect
       DEF Decide, DataType, beforeVars, remoteVars, writerVars
  <2>2. CASE /\ stage' = "handler"
            /\ UNCHANGED <<beforeVars, ctx, conn, answer>>
    BY <1>0, Caps, <1>2, <2>2 DEF Decide, DataType, beforeVars, remoteVars, writerVars
  <2> QED BY <1>2, <2>1, <2>2 DEF Decide
<1>3. CASE Handle
  BY <1>0, Caps, <1>t, FailEffect, <1>3
     DEF Handle, DataType, beforeVars, remoteVars, writerVars
<1>4. CASE Connect
  BY <1>0, Caps, <1>4 DEF Connect, DataType, connectVars, remoteVars, writerVars
<1>5. CASE DialFails
  BY <1>0, Caps, <1>5 DEF DialFails, DataType, connectVars, remoteVars, writerVars
<1>6. CASE DialCut
  BY <1>0, Caps, <1>6 DEF DialCut, DataType, connectVars, remoteVars, writerVars
<1>7. CASE ConnectFails
  BY <1>0, Caps, <1>t, FailEffect, <1>7 DEF ConnectFails, DataType, remoteVars, writerVars
<1>8. CASE RequestCut
  BY <1>0, Caps, <1>t, FailEffect, <1>8 DEF RequestCut, DataType, remoteVars, writerVars
<1>9. CASE OpenTunnel
  BY <1>0, Caps, <1>9 DEF OpenTunnel, DataType, writerVars
<1>10. CASE SendPayload
  BY <1>0, Caps, <1>10 DEF SendPayload, DataType, connectVars, remoteVars, writerVars
<1>11. CASE SendPayloadFails
  BY <1>0, Caps, <1>t, FailEffect, <1>11
     DEF SendPayloadFails, DataType, beforeVars, remoteVars, writerVars
<1>12. ASSUME NEW ch \in Channels, Copy(ch) PROVE DataType'
  <2>1. \A d \in Channels : kept'[d] <= seen'[d] /\ seen'[d] <= wrote[d]
    <3> SUFFICES ASSUME NEW d \in Channels
                 PROVE  kept'[d] <= seen'[d] /\ seen'[d] <= wrote[d]
      OBVIOUS
    <3>1. CASE d # ch  BY <1>0, <1>12, <3>1, CopyEffect DEF DataType
    <3>2. CASE d = ch
      <4>1. /\ kept[ch] \in Nat /\ seen[ch] \in Nat /\ kept'[ch] \in Nat /\ seen'[ch] \in Nat
            /\ kept[ch] <= seen[ch] /\ seen'[ch] <= wrote[ch] /\ seen[ch] < seen'[ch]
            /\ Limit \in Nat
        BY <1>0, <1>12, CopyEffect, Caps DEF DataType
      <4>2. \/ kept'[ch] - kept[ch] = seen'[ch] - seen[ch]
            \/ kept'[ch] = kept[ch]
            \/ kept'[ch] = Limit /\ kept[ch] + (seen'[ch] - seen[ch]) > Limit
        BY <1>0, <1>12, CopyEffect
      <4> QED BY <3>2, <4>1, <4>2
    <3> QED BY <3>1, <3>2
  <2> QED BY <1>0, <1>12, <2>1, CopyEffect DEF DataType, remoteVars
<1>13. ASSUME NEW ch \in Channels, CopyEnds(ch) PROVE DataType'
  BY <1>0, Caps, <1>13 DEF CopyEnds, DataType, remoteVars, writerVars
<1>14. CASE StdinPayload
  BY <1>0, Caps, <1>14 DEF StdinPayload, DataType, remoteVars, writerVars
<1>15. CASE StdinEOF
  BY <1>0, Caps, <1>15 DEF StdinEOF, DataType, remoteVars, writerVars
<1>16. CASE ErrorStreamRead
  BY <1>0, Caps, <1>16 DEF ErrorStreamRead, DataType, remoteVars, writerVars
<1>17. CASE StreamWithContext
  BY <1>0, Caps, <1>17 DEF StreamWithContext, DataType, endVars, remoteVars, writerVars
<1>18. CASE execStreamOutcome
  <2>1. stage = "returned" /\ tool = "exec" /\ UNCHANGED <<endVars, streamErr>>
    BY <1>18 DEF execStreamOutcome
  <2>2. CASE Fail("error")
    BY <1>0, Caps, <2>1, <2>2, <1>t, FailEffect
       DEF DataType, endVars, remoteVars, writerVars
  <2>3. CASE ~Fail("error")
    BY <1>0, Caps, <1>18, <2>1, <2>3, ExecAnswers, OutcomeEffect
       DEF DataType, endVars, remoteVars, writerVars
  <2> QED BY <2>2, <2>3
<1>19. CASE ExecInPod
  <2>1. stage = "returned" /\ tool = "reset" /\ UNCHANGED <<endVars, streamErr>>
    BY <1>19 DEF ExecInPod
  <2>2. CASE Fail("error")
    BY <1>0, Caps, <2>1, <2>2, <1>t, FailEffect
       DEF DataType, endVars, remoteVars, writerVars
  <2>3. CASE ~Fail("error")
    BY <1>0, Caps, <1>r, <1>19, <2>1, <2>3, ResetAnswers, OutcomeEffect
       DEF DataType, endVars, remoteVars, writerVars
  <2> QED BY <2>2, <2>3
<1>20. CASE AttachResource
  <2>1. stage = "returned" /\ tool = "attach" /\ UNCHANGED <<endVars, streamErr>>
    BY <1>20 DEF AttachResource
  <2>2. CASE Fail("error")
    BY <1>0, Caps, <2>1, <2>2, <1>t, FailEffect
       DEF DataType, endVars, remoteVars, writerVars
  <2>3. CASE ~Fail("error")
    BY <1>0, Caps, <1>c, <1>20, <2>1, <2>3, AttachAnswers, OutcomeEffect
       DEF DataType, endVars, remoteVars, writerVars
  <2> QED BY <2>2, <2>3
<1>21. CASE ReadWindowEnds
  BY <1>0, Caps, <1>21 DEF ReadWindowEnds, DataType, endVars, remoteVars, writerVars
<1>22. CASE roundTrip
  BY <1>0, Caps, <1>t, FailEffect, OutcomeEffect, NoAnswerType, <1>22
     DEF roundTrip, DataType, endVars, remoteVars, writerVars
<1>23. CASE ProxyResource
  BY <1>0, Caps, <1>t, FailEffect, OutcomeEffect, NoAnswerType, <1>23
     DEF ProxyResource, DataType, endVars, remoteVars, writerVars
<1>24. CASE WatchResources
  <2>1. CASE WatchEvent
    <3>1. /\ \A d \in Channels : /\ kept[d] \in Nat /\ seen[d] \in Nat /\ wrote[d] \in Nat
                                 /\ kept[d] <= seen[d] /\ seen[d] <= wrote[d]
          /\ Channels = {"out", "err"}
      BY <1>0, Caps DEF DataType, Channels
    <3>2. \A d \in Channels : kept'[d] <= seen'[d] /\ seen'[d] <= wrote[d]
      BY <1>0, <2>1, <3>1, WatchEffect
    <3>3. wrote' = wrote  BY <1>24 DEF WatchResources, remoteVars
    <3>4. full' \subseteq Channels  BY <1>0, <2>1, WatchEffect DEF DataType, Channels
    <3> QED BY <1>0, <2>1, <3>2, <3>3, <3>4, WatchEffect DEF DataType
  <2>2. CASE WatchEnds
    BY <1>0, <1>24, <2>2 DEF WatchResources, WatchEnds, DataType, remoteVars, writerVars
  <2> QED BY <1>24, <2>1, <2>2 DEF WatchResources
<1>25. CASE ReadText
  BY <1>0, Caps, <1>25 DEF ReadText, DataType, endVars, remoteVars, writerVars
<1>26. CASE ReadFlags
  BY <1>0, Caps, <1>26 DEF ReadFlags, Return, DataType, endVars, remoteVars, writerVars
<1>27. ASSUME NEW ch \in ChannelsOf(tool), RemoteWrites(ch) PROVE DataType'
  <2>1. /\ Channels = {"out", "err"} /\ ch \in Channels /\ MaxWritten \in Nat
        /\ wrote \in [Channels -> 0..MaxWritten] /\ wrote[ch] < MaxWritten
    BY <1>0, Caps, <1>27 DEF DataType, Channels, ChannelsOf, RemoteWrites
  <2>2. wrote' = [wrote EXCEPT ![ch] = wrote[ch] + 1] /\ UNCHANGED writerVars
    BY <1>27 DEF RemoteWrites
  <2>3. wrote' \in [Channels -> 0..MaxWritten]  BY <2>1, <2>2
  <2>4. \A d \in Channels : wrote[d] <= wrote'[d] /\ wrote[d] \in Nat /\ wrote'[d] \in Nat
    BY <2>1, <2>2, <2>3
  <2>5. \A d \in Channels : /\ seen[d] \in Nat /\ seen[d] <= wrote[d]
                            /\ wrote[d] <= wrote'[d] /\ wrote[d] \in Nat /\ wrote'[d] \in Nat
    BY <1>0, <2>4 DEF DataType
  <2>6. \A d \in Channels : seen[d] <= wrote'[d]  BY <2>5
  <2> QED BY <1>0, <2>2, <2>3, <2>6 DEF DataType, writerVars
<1>28. CASE RemoteEnds
  BY <1>0, Caps, <1>28 DEF RemoteEnds, DataType, writerVars
<1>29. CASE ErrorStreamEnds
  BY <1>0, Caps, <1>29 DEF ErrorStreamEnds, DataType, writerVars
<1>30. CASE WindowEnds
  BY <1>0, Caps, <1>30 DEF WindowEnds, Windowed, DataType, remoteVars, writerVars
<1>31. CASE CallerLeaves
  BY <1>0, Caps, <1>31 DEF CallerLeaves, DataType, remoteVars, writerVars
<1>32. CASE UNCHANGED vars
  BY <1>0, Caps, <1>32 DEF vars, DataType, remoteVars, writerVars
<1> QED BY <1>1, <1>2, <1>3, <1>4, <1>5, <1>6, <1>7, <1>8, <1>9, <1>10, <1>11, <1>12, <1>13,
   <1>14, <1>15, <1>16, <1>17, <1>18, <1>19, <1>20, <1>21, <1>22, <1>23, <1>24, <1>25,
   <1>26, <1>27, <1>28, <1>29, <1>30, <1>31, <1>32
   DEF Next, Proceed, Goroutines, Environment

\* A writer that is not full has kept all, and no writer more than its cap.
LEMMA WriterStep ==
  ASSUME Inv, [Next]_vars
  PROVE  WriterInv'
<1>0. WriterInv /\ DataType /\ ControlType /\ StageInv /\ ToolInv  BY DEF Inv
<1>t. {"refused", "error"} \subseteq Types  BY DEF Types
<1>r. stage = "returned" => streamErr \in {"nil", "exit", "failed", "ctx"}  BY DEF Inv, ReturnInv
<1>c. payload \in BOOLEAN  BY DEF Inv, ControlType
<1>1. CASE ResolvePairs
  BY <1>0, <1>t, FailEffect, <1>1
     DEF ResolvePairs, WriterInv, Answering, beforeVars, callVars, writerVars
<1>2. CASE Decide
  <2>1. CASE Fail("refused") /\ UNCHANGED beforeVars
    BY <1>0, <1>2, <2>1, <1>t, FailEffect
       DEF Decide, WriterInv, Answering, beforeVars, callVars, writerVars
  <2>2. CASE /\ stage' = "handler"
            /\ UNCHANGED <<beforeVars, ctx, conn, answer>>
    BY <1>0, <1>2, <2>2 DEF Decide, WriterInv, Answering, beforeVars, callVars, writerVars
  <2> QED BY <1>2, <2>1, <2>2 DEF Decide
<1>3. CASE Handle
  BY <1>0, <1>t, FailEffect, <1>3
     DEF Handle, WriterInv, Answering, beforeVars, callVars, writerVars
<1>4. CASE Connect
  BY <1>0, <1>4 DEF Connect, WriterInv, Answering, connectVars, callVars, writerVars
<1>5. CASE DialFails
  BY <1>0, <1>5 DEF DialFails, WriterInv, Answering, connectVars, callVars, writerVars
<1>6. CASE DialCut
  BY <1>0, <1>6 DEF DialCut, WriterInv, Answering, connectVars, callVars, writerVars
<1>7. CASE ConnectFails
  BY <1>0, <1>t, FailEffect, <1>7 DEF ConnectFails, WriterInv, callVars, writerVars
<1>8. CASE RequestCut
  BY <1>0, <1>t, FailEffect, <1>8 DEF RequestCut, WriterInv, callVars, writerVars
<1>9. CASE OpenTunnel
  BY <1>0, <1>9 DEF OpenTunnel, WriterInv, callVars, writerVars
<1>10. CASE SendPayload
  BY <1>0, <1>10 DEF SendPayload, WriterInv, Answering, connectVars, callVars, writerVars
<1>11. CASE SendPayloadFails
  BY <1>0, <1>t, FailEffect, <1>11
     DEF SendPayloadFails, WriterInv, beforeVars, callVars, writerVars
<1>12. ASSUME NEW ch \in Channels, Copy(ch) PROVE WriterInv'
  <2>1. /\ \A d \in Channels \ {ch} : kept'[d] = kept[d] /\ seen'[d] = seen[d]
        /\ tool # "watch" /\ UNCHANGED <<tool, stage>>
        /\ full \subseteq full' /\ full' \subseteq full \cup {ch}
    BY <1>0, <1>12, CopyEffect DEF callVars
  <2>2. /\ kept[ch] \in Nat /\ seen[ch] \in Nat /\ kept'[ch] \in Nat /\ seen'[ch] \in Nat
        /\ Limit \in Nat /\ seen[ch] < seen'[ch]
    BY <1>0, <1>12, CopyEffect, Caps DEF DataType
  <2>3. ch \notin full' => kept'[ch] = seen'[ch]
    <3>1. ch \notin full => kept[ch] = seen[ch]  BY <1>0 DEF WriterInv
    <3>2. ch \notin full' => ch \notin full /\ kept'[ch] - kept[ch] = seen'[ch] - seen[ch]
      BY <1>0, <1>12, CopyEffect
    <3> QED BY <2>2, <3>1, <3>2
  <2>4. ch \in full' => tool # "reset" /\ kept'[ch] = Limit /\ Limit < seen'[ch]
    <3>1. CASE ch \in full
      <4>1. tool # "reset" /\ kept[ch] = Limit /\ Limit < seen[ch]
        BY <1>0, <2>1, <3>1 DEF WriterInv
      <4>2. kept'[ch] = kept[ch]  BY <1>0, <1>12, <3>1, <4>1, CopyEffect
      <4> QED BY <2>2, <4>1, <4>2
    <3>2. CASE ch \notin full /\ ch \in full'
      <4>1. /\ kept[ch] = seen[ch] /\ tool # "reset" /\ kept'[ch] = Limit
            /\ kept[ch] + (seen'[ch] - seen[ch]) > Limit
        BY <1>0, <1>12, <3>2, CopyEffect DEF WriterInv
      <4> QED BY <2>2, <4>1
    <3> QED BY <3>1, <3>2
  <2>5. tool # "reset" => kept'[ch] <= Limit
    <3>1. tool # "reset" => kept[ch] <= Limit  BY <1>0, <2>1 DEF WriterInv
    <3>2. tool # "reset" => kept'[ch] <= Limit \/ kept'[ch] = kept[ch] \/ kept'[ch] = Limit
      BY <1>0, <1>12, CopyEffect
    <3> QED BY <2>2, <3>1, <3>2
  <2>6. \A d \in Channels : d \notin full' => kept'[d] = seen'[d]
    BY <1>0, <2>1, <2>3 DEF WriterInv
  <2>7. \A d \in full' : tool # "reset" /\ kept'[d] = Limit /\ Limit < seen'[d]
    <3>1. \A d \in full : tool # "reset" /\ kept[d] = Limit /\ Limit < seen[d]
      BY <1>0, <2>1 DEF WriterInv
    <3>2. full \subseteq Channels  BY <1>0 DEF DataType
    <3> QED BY <2>1, <2>4, <3>1, <3>2
  <2>8. tool # "reset" => \A d \in Channels : kept'[d] <= Limit
    BY <1>0, <2>1, <2>5 DEF WriterInv
  <2> QED BY <2>1, <2>6, <2>7, <2>8 DEF WriterInv
<1>13. ASSUME NEW ch \in Channels, CopyEnds(ch) PROVE WriterInv'
  BY <1>0, <1>13 DEF CopyEnds, WriterInv, callVars, writerVars
<1>14. CASE StdinPayload
  BY <1>0, <1>14 DEF StdinPayload, WriterInv, callVars, writerVars
<1>15. CASE StdinEOF
  BY <1>0, <1>15 DEF StdinEOF, WriterInv, callVars, writerVars
<1>16. CASE ErrorStreamRead
  BY <1>0, <1>16 DEF ErrorStreamRead, WriterInv, callVars, writerVars
<1>17. CASE StreamWithContext
  BY <1>0, <1>17 DEF StreamWithContext, WriterInv, Answering, endVars, callVars, writerVars
<1>18. CASE execStreamOutcome
  <2>1. stage = "returned" /\ tool = "exec" /\ UNCHANGED <<endVars, streamErr>>
    BY <1>18 DEF execStreamOutcome
  <2>2. CASE Fail("error")
    BY <1>0, <2>1, <2>2, <1>t, FailEffect DEF WriterInv, endVars, callVars, writerVars
  <2>3. CASE ~Fail("error")
    BY <1>0, <1>18, <2>1, <2>3, ExecAnswers, OutcomeEffect
       DEF WriterInv, endVars, callVars, writerVars
  <2> QED BY <2>2, <2>3
<1>19. CASE ExecInPod
  <2>1. stage = "returned" /\ tool = "reset" /\ UNCHANGED <<endVars, streamErr>>
    BY <1>19 DEF ExecInPod
  <2>2. CASE Fail("error")
    BY <1>0, <2>1, <2>2, <1>t, FailEffect DEF WriterInv, endVars, callVars, writerVars
  <2>3. CASE ~Fail("error")
    BY <1>0, <1>r, <1>19, <2>1, <2>3, ResetAnswers, OutcomeEffect
       DEF WriterInv, endVars, callVars, writerVars
  <2> QED BY <2>2, <2>3
<1>20. CASE AttachResource
  <2>1. stage = "returned" /\ tool = "attach" /\ UNCHANGED <<endVars, streamErr>>
    BY <1>20 DEF AttachResource
  <2>2. CASE Fail("error")
    BY <1>0, <2>1, <2>2, <1>t, FailEffect DEF WriterInv, endVars, callVars, writerVars
  <2>3. CASE ~Fail("error")
    BY <1>0, <1>c, <1>20, <2>1, <2>3, AttachAnswers, OutcomeEffect
       DEF WriterInv, endVars, callVars, writerVars
  <2> QED BY <2>2, <2>3
<1>21. CASE ReadWindowEnds
  BY <1>0, <1>21 DEF ReadWindowEnds, WriterInv, endVars, callVars, writerVars
<1>22. CASE roundTrip
  BY <1>0, <1>t, FailEffect, OutcomeEffect, NoAnswerType, <1>22
     DEF roundTrip, WriterInv, StageInv, Executors, endVars, callVars, remoteVars,
         writerVars
<1>23. CASE ProxyResource
  BY <1>0, <1>t, FailEffect, OutcomeEffect, NoAnswerType, <1>23
     DEF ProxyResource, WriterInv, endVars, callVars, writerVars
<1>24. CASE WatchResources
  <2>0. /\ stage = "stream" /\ tool = "watch" /\ UNCHANGED tool
        /\ stage \notin Answering \cup {"done"}
    BY <1>24 DEF WatchResources, callVars, Answering
  <2>1. CASE WatchEvent
    <3>1. /\ Channels = {"out", "err"} /\ kept["out"] \in Nat /\ WatchMaxEvents \in Nat
          /\ full = {} /\ kept["out"] < WatchMaxEvents /\ kept["err"] = 0
          /\ \A d \in Channels : kept[d] = seen[d]
      BY <1>0, Caps, <2>0 DEF WriterInv, DataType, Channels
    <3>2. \A d \in Channels : kept'[d] = seen'[d]  BY <1>0, <2>1, <3>1, WatchEffect
    <3>3. kept'["out"] <= WatchMaxEvents /\ kept'["err"] = 0
      BY <1>0, <2>1, <3>1, WatchEffect
    <3>4. \/ kept'["out"] < WatchMaxEvents /\ full' = {}
          \/ stage' = "text" /\ full' = {"out"}
      BY <1>0, <2>1, <3>1, WatchEffect, OutcomeEffect, NoAnswerType
    <3> QED BY <2>0, <3>1, <3>2, <3>3, <3>4 DEF WriterInv, Answering
  <2>2. CASE WatchEnds
    <3>1. stage' \in Answering \cup {"done"} /\ UNCHANGED writerVars
      BY <1>t, <2>2, FailEffect, OutcomeEffect, NoAnswerType DEF WatchEnds, Answering
    <3> QED BY <1>0, <2>0, <3>1 DEF WriterInv, writerVars
  <2> QED BY <1>24, <2>1, <2>2 DEF WatchResources
<1>25. CASE ReadText
  BY <1>0, <1>25 DEF ReadText, WriterInv, Answering, endVars, callVars, writerVars
<1>26. CASE ReadFlags
  BY <1>0, <1>26 DEF ReadFlags, Return, WriterInv, endVars, callVars, writerVars
<1>27. ASSUME NEW ch \in ChannelsOf(tool), RemoteWrites(ch) PROVE WriterInv'
  BY <1>0, <1>27 DEF RemoteWrites, WriterInv, callVars, writerVars
<1>28. CASE RemoteEnds
  BY <1>0, <1>28 DEF RemoteEnds, WriterInv, callVars, writerVars
<1>29. CASE ErrorStreamEnds
  BY <1>0, <1>29 DEF ErrorStreamEnds, WriterInv, callVars, writerVars
<1>30. CASE WindowEnds
  BY <1>0, <1>30 DEF WindowEnds, Windowed, WriterInv, callVars, writerVars
<1>31. CASE CallerLeaves
  BY <1>0, <1>31 DEF CallerLeaves, WriterInv, callVars, writerVars
<1>32. CASE UNCHANGED vars
  BY <1>0, <1>32 DEF vars, WriterInv, callVars, writerVars
<1> QED BY <1>1, <1>2, <1>3, <1>4, <1>5, <1>6, <1>7, <1>8, <1>9, <1>10, <1>11, <1>12, <1>13,
   <1>14, <1>15, <1>16, <1>17, <1>18, <1>19, <1>20, <1>21, <1>22, <1>23, <1>24, <1>25,
   <1>26, <1>27, <1>28, <1>29, <1>30, <1>31, <1>32
   DEF Next, Proceed, Goroutines, Environment

\* A copier does not end before its channel without a cause.
LEMMA CopyStep ==
  ASSUME Inv, [Next]_vars
  PROVE  CopyInv'
<1>0. CopyInv /\ StageInv /\ ControlType  BY DEF Inv
<1>t. {"refused", "error"} \subseteq Types  BY DEF Types
<1>r. stage = "returned" => streamErr \in {"nil", "exit", "failed", "ctx"}  BY DEF Inv, ReturnInv
<1>c. payload \in BOOLEAN  BY DEF Inv, ControlType
<1>1. CASE ResolvePairs
  BY <1>0, <1>t, FailEffect, <1>1
     DEF ResolvePairs, CopyInv, beforeVars, callVars, remoteVars, writerVars
<1>2. CASE Decide
  <2>1. CASE Fail("refused") /\ UNCHANGED beforeVars
    BY <1>0, <1>2, <2>1, <1>t, FailEffect
       DEF Decide, CopyInv, beforeVars, callVars, remoteVars, writerVars
  <2>2. CASE /\ stage' = "handler"
            /\ UNCHANGED <<beforeVars, ctx, conn, answer>>
    BY <1>0, <1>2, <2>2 DEF Decide, CopyInv, beforeVars, callVars, remoteVars, writerVars
  <2> QED BY <1>2, <2>1, <2>2 DEF Decide
<1>3. CASE Handle
  BY <1>0, <1>t, FailEffect, <1>3
     DEF Handle, CopyInv, beforeVars, callVars, remoteVars, writerVars
<1>4. CASE Connect
  BY <1>0, <1>4 DEF Connect, CopyInv, connectVars, callVars, remoteVars, writerVars
<1>5. CASE DialFails
  BY <1>0, <1>5 DEF DialFails, CopyInv, connectVars, callVars, remoteVars, writerVars
<1>6. CASE DialCut
  BY <1>0, <1>6 DEF DialCut, CopyInv, connectVars, callVars, remoteVars, writerVars
<1>7. CASE ConnectFails
  BY <1>0, <1>t, FailEffect, <1>7 DEF ConnectFails, CopyInv, callVars, remoteVars, writerVars
<1>8. CASE RequestCut
  BY <1>0, <1>t, FailEffect, <1>8 DEF RequestCut, CopyInv, callVars, remoteVars, writerVars
<1>9. CASE OpenTunnel
  BY <1>0, <1>9 DEF OpenTunnel, CopyInv, callVars, writerVars
<1>10. CASE SendPayload
  BY <1>0, <1>10
     DEF SendPayload, CopyInv, StageInv, ChannelsOf, Executors, connectVars, callVars,
         remoteVars, writerVars
<1>11. CASE SendPayloadFails
  BY <1>0, <1>t, FailEffect, <1>11
     DEF SendPayloadFails, CopyInv, beforeVars, callVars, remoteVars, writerVars
<1>12. ASSUME NEW ch \in Channels, Copy(ch) PROVE CopyInv'
  BY <1>0, <1>12 DEF Copy, LimitedWrite, BufferWrite, onFull, CopyInv, callVars, remoteVars
<1>13. ASSUME NEW ch \in Channels, CopyEnds(ch) PROVE CopyInv'
  BY <1>0, <1>13
     DEF CopyEnds, CopyInv, StageInv, ChannelsOf, Channels, callVars, remoteVars,
         writerVars
<1>14. CASE StdinPayload
  BY <1>0, <1>14
     DEF StdinPayload, CopyInv, ChannelsOf, Channels, callVars, remoteVars, writerVars
<1>15. CASE StdinEOF
  BY <1>0, <1>15 DEF StdinEOF, CopyInv, ChannelsOf, Channels, callVars, remoteVars, writerVars
<1>16. CASE ErrorStreamRead
  BY <1>0, <1>16
     DEF ErrorStreamRead, CopyInv, ChannelsOf, Channels, callVars, remoteVars, writerVars
<1>17. CASE StreamWithContext
  BY <1>0, <1>17 DEF StreamWithContext, CopyInv, endVars, callVars, remoteVars, writerVars
<1>18. CASE execStreamOutcome
  <2>1. stage = "returned" /\ tool = "exec" /\ UNCHANGED <<endVars, streamErr>>
    BY <1>18 DEF execStreamOutcome
  <2>2. CASE Fail("error")
    BY <1>0, <2>1, <2>2, <1>t, FailEffect
       DEF CopyInv, endVars, callVars, remoteVars, writerVars
  <2>3. CASE ~Fail("error")
    BY <1>0, <1>18, <2>1, <2>3, ExecAnswers, OutcomeEffect
       DEF CopyInv, endVars, callVars, remoteVars, writerVars
  <2> QED BY <2>2, <2>3
<1>19. CASE ExecInPod
  <2>1. stage = "returned" /\ tool = "reset" /\ UNCHANGED <<endVars, streamErr>>
    BY <1>19 DEF ExecInPod
  <2>2. CASE Fail("error")
    BY <1>0, <2>1, <2>2, <1>t, FailEffect
       DEF CopyInv, endVars, callVars, remoteVars, writerVars
  <2>3. CASE ~Fail("error")
    BY <1>0, <1>r, <1>19, <2>1, <2>3, ResetAnswers, OutcomeEffect
       DEF CopyInv, endVars, callVars, remoteVars, writerVars
  <2> QED BY <2>2, <2>3
<1>20. CASE AttachResource
  <2>1. stage = "returned" /\ tool = "attach" /\ UNCHANGED <<endVars, streamErr>>
    BY <1>20 DEF AttachResource
  <2>2. CASE Fail("error")
    BY <1>0, <2>1, <2>2, <1>t, FailEffect
       DEF CopyInv, endVars, callVars, remoteVars, writerVars
  <2>3. CASE ~Fail("error")
    BY <1>0, <1>c, <1>20, <2>1, <2>3, AttachAnswers, OutcomeEffect
       DEF CopyInv, endVars, callVars, remoteVars, writerVars
  <2> QED BY <2>2, <2>3
<1>21. CASE ReadWindowEnds
  BY <1>0, <1>21 DEF ReadWindowEnds, CopyInv, endVars, callVars, remoteVars, writerVars
<1>22. CASE roundTrip
  BY <1>0, <1>t, FailEffect, OutcomeEffect, NoAnswerType, <1>22
     DEF roundTrip, CopyInv, endVars, callVars, remoteVars, writerVars
<1>23. CASE ProxyResource
  BY <1>0, <1>t, FailEffect, OutcomeEffect, NoAnswerType, <1>23
     DEF ProxyResource, CopyInv, endVars, callVars, remoteVars, writerVars
<1>24. CASE WatchResources
  BY <1>0, <1>t, FailEffect, OutcomeEffect, NoAnswerType, <1>24
     DEF WatchResources, WatchEvent, WatchEnds, CopyInv, callVars, remoteVars, writerVars
<1>25. CASE ReadText
  BY <1>0, <1>25 DEF ReadText, CopyInv, endVars, callVars, remoteVars, writerVars
<1>26. CASE ReadFlags
  BY <1>0, <1>26 DEF ReadFlags, Return, CopyInv, endVars, callVars, remoteVars, writerVars
<1>27. ASSUME NEW ch \in ChannelsOf(tool), RemoteWrites(ch) PROVE CopyInv'
  BY <1>0, <1>27 DEF RemoteWrites, CopyInv, callVars, writerVars
<1>28. CASE RemoteEnds
  BY <1>0, <1>28 DEF RemoteEnds, CopyInv, callVars, writerVars
<1>29. CASE ErrorStreamEnds
  BY <1>0, <1>29 DEF ErrorStreamEnds, CopyInv, callVars, writerVars
<1>30. CASE WindowEnds
  BY <1>0, <1>30 DEF WindowEnds, Windowed, CopyInv, callVars, remoteVars, writerVars
<1>31. CASE CallerLeaves
  BY <1>0, <1>31 DEF CallerLeaves, CopyInv, callVars, remoteVars, writerVars
<1>32. CASE UNCHANGED vars
  BY <1>0, <1>32 DEF vars, CopyInv, callVars, remoteVars, writerVars
<1> QED BY <1>1, <1>2, <1>3, <1>4, <1>5, <1>6, <1>7, <1>8, <1>9, <1>10, <1>11, <1>12, <1>13,
   <1>14, <1>15, <1>16, <1>17, <1>18, <1>19, <1>20, <1>21, <1>22, <1>23, <1>24, <1>25,
   <1>26, <1>27, <1>28, <1>29, <1>30, <1>31, <1>32
   DEF Next, Proceed, Goroutines, Environment

\* A stream returns without an error only when all was read.
LEMMA ReturnStep ==
  ASSUME Inv, [Next]_vars
  PROVE  ReturnInv'
<1>0. ReturnInv /\ CopyInv /\ StageInv /\ ControlType
  BY DEF Inv
<1>1. CASE Beside
  <2>1. UNCHANGED stage /\ (streamErr # "none" => UNCHANGED streamErr)  BY <1>1, Background
  <2>2. /\ AllRead => AllRead' /\ UNCHANGED remote
        /\ ctx # "live" => UNCHANGED ctx
    BY <1>1, Background, MarksStay DEF AllRead
  <2> QED BY <1>0, <2>1, <2>2 DEF ReturnInv
<1>2. CASE DialFails \/ DialCut
  BY <1>2 DEF DialFails, DialCut, ReturnInv, connectVars
<1>3. CASE StreamWithContext
  <2>1. /\ stage = "stream" /\ tool \in Executors /\ stage' = "returned"
        /\ UNCHANGED <<endVars, ctx>>
    BY <1>3 DEF StreamWithContext
  <2>2. CASE ctx # "live" /\ streamErr' = "ctx"
    BY <2>1, <2>2 DEF ReturnInv
  <2>3. CASE remote \in {"ok", "exit", "detached"} /\ routines \cap Channels = {}
    <3>1. AllRead
      BY <1>0, <2>1, <2>3 DEF CopyInv, AllRead, ChannelsOf, Executors
    <3>2. AllRead'  BY <2>1, <3>1 DEF AllRead, endVars, callVars, remoteVars, writerVars
    <3>3. CASE remote \in {"ok", "detached"} /\ streamErr' = "nil"
      BY <2>1, <3>2, <3>3 DEF ReturnInv, endVars, remoteVars
    <3>4. CASE remote = "exit" /\ streamErr' = "exit"
      BY <2>1, <3>2, <3>4 DEF ReturnInv, endVars, remoteVars
    <3> QED BY <1>3, <2>2, <2>3, <3>3, <3>4 DEF StreamWithContext
  <2>4. CASE remote = "failed" /\ streamErr' = "failed"
    BY <2>1, <2>4 DEF ReturnInv
  <2> QED BY <1>0, <1>3, <2>2, <2>3, <2>4 DEF StreamWithContext, ControlType
<1>4. CASE stage' # "returned"  BY <1>4 DEF ReturnInv
<1> QED BY <1>1, <1>2, <1>3, <1>4, Moves

\* An answer is begun with all read, or with the reason why not.
LEMMA TextStep ==
  ASSUME Inv, [Next]_vars
  PROVE  TextInv'
<1>0. /\ TextInv /\ ReturnInv /\ CopyInv /\ StageInv /\ ToolInv /\ ControlType
      /\ DataType /\ WriterInv /\ AnswerType
  BY DEF Inv
<1>t. {"refused", "error"} \subseteq Types  BY DEF Types
<1>r. stage = "returned" => streamErr \in {"nil", "exit", "failed", "ctx"}
  BY DEF Inv, ReturnInv
<1>c. payload \in BOOLEAN  BY DEF Inv, ControlType
<1>1. CASE Beside
  <2>1. /\ UNCHANGED <<tool, stage, answer>> /\ (remote # "up" => UNCHANGED remote)
        /\ Excused => Excused'
        /\ full # {} => full' # {}
        /\ AllRead => AllRead'
    BY <1>1, Background, MarksStay
  <2>2. AllRead /\ full = {} /\ tool \in {"exec", "reset"} => full' = {}
    BY <1>1, Background DEF AllRead, ChannelsOf, Executors
  <2> QED BY <1>0, <2>1, <2>2 DEF TextInv
<1>2. CASE ReadWindowEnds
  <2>1. /\ stage = "stream" /\ tool = "forward" /\ stage' = "closing"
        /\ "out" \notin routines \/ ctx # "live"
        /\ UNCHANGED <<tool, ctx, remote, routines, seen, wrote>>
    BY <1>2 DEF ReadWindowEnds, endVars, callVars, remoteVars, writerVars
  <2>2. CASE ctx # "live"
    <3>1. ctx \in {"window", "caller"}
      BY <1>0, <2>1, <2>2 DEF ControlType, ToolInv, StageInv
    <3> QED BY <2>1, <3>1 DEF TextInv, Excused
  <2>3. CASE "out" \notin routines
    <3>1. ChannelsOf(tool) = {"out"}  BY <2>1 DEF ChannelsOf, Executors
    <3>2. remote = "failed" \/ (remote # "up" /\ seen["out"] = wrote["out"])
      BY <1>0, <2>1, <2>3, <3>1 DEF CopyInv
    <3> QED BY <2>1, <2>3, <3>1, <3>2 DEF TextInv, Excused, AllRead
  <2> QED BY <2>1, <2>2, <2>3
<1>3. CASE execStreamOutcome
  <2>1. stage = "returned" /\ tool = "exec" /\ UNCHANGED <<endVars, streamErr>>
    BY <1>3 DEF execStreamOutcome
  <2>2. CASE Fail("error")  BY <1>t, <2>2, FailEffect DEF TextInv
  <2>3. CASE ~Fail("error")
    <3>1. PICK a \in Answers :
             /\ Outcome(a)
             /\ \/ a.code = "zero" /\ streamErr = "nil" /\ full = {}
                \/ a.code = "nonzero" /\ streamErr = "exit"
                \/ a.code = "none" /\ a.timeLimited
                \/ a.code = "none" /\ full # {}
      BY <1>3, <2>3, ExecAnswers
    <3>2. /\ stage' = "text" /\ answer'.code = a.code /\ answer'.timeLimited = a.timeLimited
          /\ UNCHANGED <<tool, full, remote>> /\ (AllRead => AllRead')
      BY <2>1, <3>1, OutcomeEffect
         DEF AllRead, endVars, callVars, remoteVars, writerVars
    <3>3. CASE a.code = "zero" /\ streamErr = "nil" /\ full = {}
      <4>1. AllRead /\ remote = "ok"  BY <1>0, <2>1, <3>3 DEF ReturnInv, ToolInv
      <4> QED BY <3>2, <3>3, <4>1 DEF TextInv
    <3>4. CASE a.code = "nonzero" /\ streamErr = "exit"
      <4>1. AllRead /\ remote = "exit"  BY <1>0, <2>1, <3>4 DEF ReturnInv
      <4> QED BY <3>2, <3>4, <4>1 DEF TextInv
    <3>5. CASE a.code = "none" /\ a.timeLimited
      BY <3>2, <3>5 DEF TextInv, Excused
    <3>6. CASE a.code = "none" /\ full # {}
      BY <3>2, <3>6 DEF TextInv
    <3> QED BY <3>1, <3>3, <3>4, <3>5, <3>6
  <2> QED BY <2>2, <2>3
<1>4. CASE ExecInPod
  <2>1. stage = "returned" /\ tool = "reset" /\ UNCHANGED <<endVars, streamErr>>
    BY <1>4 DEF ExecInPod
  <2>2. CASE Fail("error")  BY <1>t, <2>2, FailEffect DEF TextInv
  <2>3. CASE ~Fail("error")
    <3>1. PICK a \in Answers :
             /\ Outcome(a)
             /\ \/ a.code = "zero" /\ streamErr = "nil"
                \/ a.code = "nonzero" /\ streamErr = "exit"
      BY <1>r, <1>4, <2>1, <2>3, ResetAnswers
    <3>2. /\ stage' = "text" /\ answer'.code = a.code
          /\ UNCHANGED <<tool, full, remote>> /\ (AllRead => AllRead')
      BY <2>1, <3>1, OutcomeEffect
         DEF AllRead, endVars, callVars, remoteVars, writerVars
    <3>3. CASE a.code = "zero" /\ streamErr = "nil"
      <4>1. AllRead /\ remote = "ok" /\ full = {}
        BY <1>0, <2>1, <3>3 DEF ReturnInv, ToolInv, WriterInv
      <4> QED BY <3>2, <3>3, <4>1 DEF TextInv
    <3>4. CASE a.code = "nonzero" /\ streamErr = "exit"
      <4>1. AllRead /\ remote = "exit"  BY <1>0, <2>1, <3>4 DEF ReturnInv
      <4> QED BY <3>2, <3>4, <4>1 DEF TextInv
    <3> QED BY <3>1, <3>3, <3>4
  <2> QED BY <2>2, <2>3
<1>5. CASE AttachResource
  <2>1. stage = "returned" /\ tool = "attach" /\ UNCHANGED <<endVars, streamErr>>
    BY <1>5 DEF AttachResource
  <2>2. CASE Fail("error")  BY <1>t, <2>2, FailEffect DEF TextInv
  <2>3. CASE ~Fail("error")
    <3>1. /\ stage' = "text" /\ UNCHANGED <<tool, ctx>> /\ (AllRead => AllRead')
          /\ streamErr = "nil" \/ ctx = "window"
      BY <1>c, <1>5, <2>1, <2>3, AttachAnswers, OutcomeEffect
         DEF AllRead, endVars, callVars, remoteVars, writerVars
    <3>2. CASE streamErr = "nil"  BY <1>0, <2>1, <3>1, <3>2 DEF TextInv, ReturnInv
    <3>3. CASE ctx = "window"  BY <2>1, <3>1, <3>3 DEF TextInv, Excused
    <3> QED BY <3>1, <3>2, <3>3
  <2> QED BY <2>2, <2>3
<1>6. CASE roundTrip
  <2>1. /\ stage = "closing" /\ tool = "forward"
        /\ Excused \/ full # {} \/ AllRead
        /\ answer = NoAnswer /\ UNCHANGED <<endVars, streamErr>>
    BY <1>0, <1>6 DEF roundTrip, TextInv, StageInv, Answering
  <2>2. CASE Fail("error")  BY <1>t, <2>2, FailEffect DEF TextInv
  <2>3. CASE Outcome(NoAnswer)
    <3>1. /\ ~answer.timeLimited /\ UNCHANGED <<tool, full, remote, ctx>>
          /\ AllRead => AllRead'
      BY <2>1, <2>3, NoAnswerType, OutcomeEffect
         DEF AllRead, endVars, callVars, remoteVars, writerVars
    <3>2. Excused => Excused'  BY <3>1 DEF Excused
    <3> QED BY <2>1, <3>1, <3>2 DEF TextInv
  <2> QED BY <1>6, <2>2, <2>3 DEF roundTrip
<1>7. CASE ProxyResource
  <2>1. stage = "stream" /\ tool = "proxy" /\ routines = {} /\ UNCHANGED <<endVars, streamErr>>
    BY <1>7 DEF ProxyResource
  <2>2. CASE Fail("error")  BY <1>t, <2>2, FailEffect DEF TextInv
  <2>3. CASE Outcome(NoAnswer)
    <3>1. UNCHANGED <<tool, full, remote, ctx>> /\ (AllRead => AllRead')
      BY <2>1, <2>3, NoAnswerType, OutcomeEffect
         DEF AllRead, endVars, callVars, remoteVars, writerVars
    <3>2. ChannelsOf(tool) = {"out"}  BY <2>1 DEF ChannelsOf, Executors
    <3>3. \/ remote = "failed" \/ ctx # "live"
          \/ remote # "up" /\ seen["out"] = wrote["out"]
      BY <1>0, <2>1, <3>2 DEF CopyInv
    <3>4. CASE remote = "failed"  BY <2>1, <3>1, <3>4 DEF TextInv, Excused
    <3>5. CASE ctx # "live"
      <4>1. ctx \in {"window", "caller"} \/ full # {}
        BY <1>0, <2>1, <3>5 DEF ControlType, ToolInv, StageInv
      <4> QED BY <2>1, <3>1, <4>1 DEF TextInv, Excused
    <3>6. CASE remote # "up" /\ seen["out"] = wrote["out"]
      BY <2>1, <3>1, <3>2, <3>6 DEF TextInv, AllRead
    <3> QED BY <3>3, <3>4, <3>5, <3>6
  <2> QED BY <1>7, <2>2, <2>3 DEF ProxyResource
<1>8. CASE WatchResources
  <2>1. stage = "stream" /\ tool = "watch" /\ UNCHANGED <<tool, remote, wrote, routines>>
    BY <1>8 DEF WatchResources, callVars, remoteVars
  <2>2. CASE WatchEvent
    BY <1>0, <2>1, <2>2, WatchEffect DEF TextInv
  <2>3. CASE ctx # "live" /\ Outcome(NoAnswer)
    <3>1. ctx \in {"window", "caller"}
      BY <1>0, <2>1, <2>3 DEF ControlType, ToolInv, StageInv
    <3>2. ctx' = ctx  BY <2>3, NoAnswerType, OutcomeEffect
    <3> QED BY <2>1, <3>1, <3>2 DEF TextInv, Excused
  <2>4. CASE /\ seen["out"] = wrote["out"] /\ remote = "ok" /\ Outcome(NoAnswer)
             /\ UNCHANGED writerVars
    <3>1. ChannelsOf(tool) = {"out"} /\ routines = {}
      BY <1>0, <2>1 DEF ChannelsOf, Executors, ToolInv
    <3>2. AllRead'  BY <2>1, <2>4, <3>1 DEF AllRead, writerVars
    <3> QED BY <2>1, <3>2 DEF TextInv
  <2>5. CASE Fail("error")  BY <1>t, <2>5, FailEffect DEF TextInv
  <2> QED BY <1>8, <2>2, <2>3, <2>4, <2>5 DEF WatchResources, WatchEnds
<1>9. CASE stage' \notin {"closing", "text"}  BY <1>9 DEF TextInv
<1> QED BY <1>1, <1>2, <1>3, <1>4, <1>5, <1>6, <1>7, <1>8, <1>9, Moves DEF Replies, Answering

\* The text read is what the writers held.
LEMMA FlagsStep ==
  ASSUME Inv, [Next]_vars
  PROVE  FlagsInv'
<1>0. /\ FlagsInv /\ TextInv /\ StageInv /\ ToolInv /\ ControlType
      /\ DataType /\ WriterInv /\ AnswerType
  BY DEF Inv
<1>d. DataType'  BY DataTypeStep
<1>1. CASE Beside
  <2>1. SUFFICES ASSUME stage = "flags"  PROVE FlagsInv'
    BY <1>1, Background DEF FlagsInv
  <2>2. /\ \A ch \in Channels : answer.text[ch] \in Nat /\ kept[ch] \in Nat /\ kept'[ch] \in Nat
        /\ \A ch \in Channels : answer.text[ch] <= kept[ch] /\ kept[ch] <= kept'[ch]
    BY <1>0, <1>d, <2>1, <1>1, Background DEF FlagsInv, AnswerType, Answers, DataType
  <2>3. \A ch \in Channels : answer.text[ch] <= kept'[ch]  BY <2>2
  <2>4. Excused' \/ full' # {} \/ AllTold'  BY <1>0, <2>1, <1>1, MarksStay DEF FlagsInv
  <2>5. /\ UNCHANGED <<tool, answer>> /\ full \subseteq full' /\ (AllTold => AllTold')
        /\ remote # "up" => UNCHANGED <<remote, wrote>>
    BY <1>1, Background, MarksStay
  <2>6. tool \in {"exec", "reset"} =>
          /\ answer.code = "zero" => remote = "ok" /\ AllTold
          /\ answer.code = "nonzero" =>
                /\ remote = "exit"
                /\ \A ch \in Channels : answer.text[ch] = wrote[ch] \/ ch \in full
    BY <1>0, <2>1 DEF FlagsInv
  <2> QED BY <2>3, <2>4, <2>5, <2>6 DEF FlagsInv
<1>2. CASE ReadText
  <2>1. /\ stage = "text" /\ answer' = [answer EXCEPT !.text = kept]
        /\ UNCHANGED <<tool, remote, wrote, routines, kept, seen, full, ctx>>
    BY <1>2 DEF ReadText, endVars, callVars, remoteVars, writerVars
  <2>2. /\ answer'.text = kept /\ answer'.code = answer.code
        /\ answer'.timeLimited = answer.timeLimited
    BY <1>0, <2>1 DEF AnswerType, Answers
  <2>3. \A ch \in Channels : kept[ch] \in Nat /\ kept[ch] <= kept[ch]  BY <1>0 DEF DataType
  <2>4. Excused => Excused'  BY <2>1, <2>2 DEF Excused
  <2>5. \A ch \in ChannelsOf(tool) : ch \in Channels  BY DEF ChannelsOf, Channels
  <2>6. AllRead =>
          \A ch \in ChannelsOf(tool) : answer'.text[ch] = wrote[ch] \/ ch \in full
    BY <1>0, <2>2, <2>5 DEF AllRead, WriterInv
  <2>7. AllRead /\ full = {} => AllTold'
    BY <2>1, <2>6 DEF AllRead, AllTold
  <2>8. tool \in {"exec", "reset"} => ChannelsOf(tool) = Channels
    BY DEF ChannelsOf, Executors
  <2>9. /\ Excused \/ full # {} \/ AllRead
        /\ tool \in {"exec", "reset"} =>
              /\ answer.code = "zero" => remote = "ok" /\ AllRead /\ full = {}
              /\ answer.code = "nonzero" => remote = "exit" /\ AllRead
    BY <1>0, <2>1 DEF TextInv
  <2> QED BY <2>1, <2>2, <2>3, <2>4, <2>6, <2>7, <2>8, <2>9 DEF FlagsInv
<1>3. CASE stage' # "flags"  BY <1>3 DEF FlagsInv
<1> QED BY <1>1, <1>2, <1>3, Moves DEF Answering

\* How the answer of an exec and of an attach begins.
LEMMA AnswerStep ==
  ASSUME Inv, [Next]_vars
  PROVE  AnswerInv'
<1>0. AnswerInv /\ ReturnInv /\ StageInv /\ ToolInv /\ ControlType
  BY DEF Inv
<1>t. {"refused", "error"} \subseteq Types  BY DEF Types
<1>r. stage = "returned" => streamErr \in {"nil", "exit", "failed", "ctx"}
  BY DEF Inv, ReturnInv
<1>c. payload \in BOOLEAN  BY DEF Inv, ControlType
<1>1. CASE Beside
  BY <1>0, <1>1, Background DEF AnswerInv, Answering
<1>2. CASE execStreamOutcome
  <2>1. stage = "returned" /\ tool = "exec" /\ UNCHANGED <<endVars, streamErr>>
    BY <1>2 DEF execStreamOutcome
  <2>2. CASE Fail("error")
    BY <1>0, <2>1, <2>2, <1>t, FailEffect
       DEF AnswerInv, Answering, endVars, callVars, remoteVars, writerVars
  <2>3. CASE ~Fail("error")
    BY <1>0, <1>2, <2>1, <2>3, ExecAnswers, OutcomeEffect
       DEF AnswerInv, Answering, endVars, callVars, remoteVars, writerVars
  <2> QED BY <2>2, <2>3
<1>3. CASE ExecInPod
  <2>1. stage = "returned" /\ tool = "reset" /\ UNCHANGED <<endVars, streamErr>>
    BY <1>3 DEF ExecInPod
  <2>2. CASE Fail("error")
    BY <1>0, <2>1, <2>2, <1>t, FailEffect
       DEF AnswerInv, Answering, endVars, callVars, remoteVars, writerVars
  <2>3. CASE ~Fail("error")
    BY <1>0, <1>r, <1>3, <2>1, <2>3, ResetAnswers, OutcomeEffect
       DEF AnswerInv, Answering, endVars, callVars, remoteVars, writerVars
  <2> QED BY <2>2, <2>3
<1>4. CASE AttachResource
  <2>1. stage = "returned" /\ tool = "attach" /\ UNCHANGED <<endVars, streamErr>>
    BY <1>4 DEF AttachResource
  <2>2. CASE Fail("error")
    BY <1>0, <2>1, <2>2, <1>t, FailEffect
       DEF AnswerInv, Answering, ReturnInv, ToolInv, endVars, callVars, remoteVars,
           writerVars
  <2>3. CASE ~Fail("error")
    BY <1>0, <1>c, <1>4, <2>1, <2>3, AttachAnswers, OutcomeEffect
       DEF AnswerInv, Answering, ReturnInv, ToolInv, endVars, callVars, remoteVars,
           writerVars
  <2> QED BY <2>2, <2>3
<1>5. CASE roundTrip
  BY <1>0, <1>t, FailEffect, OutcomeEffect, NoAnswerType, <1>5
     DEF roundTrip, AnswerInv, Answering, StageInv, endVars, callVars, remoteVars,
         writerVars
<1>6. CASE ProxyResource
  BY <1>0, <1>t, FailEffect, OutcomeEffect, NoAnswerType, <1>6
     DEF ProxyResource, AnswerInv, Answering, endVars, callVars, remoteVars, writerVars
<1>7. CASE WatchResources
  BY <1>0, <1>t, FailEffect, OutcomeEffect, NoAnswerType, <1>7
     DEF WatchResources, WatchEvent, WatchEnds, AnswerInv, Answering, callVars,
         remoteVars, writerVars
<1>8. CASE ReadText
  BY <1>0, <1>8 DEF ReadText, AnswerInv, Answering, endVars, callVars, remoteVars, writerVars
<1>9. CASE stage' \notin Answering  BY <1>9 DEF AnswerInv
<1> QED BY <1>1, <1>2, <1>3, <1>4, <1>5, <1>6, <1>7, <1>8, <1>9, Moves DEF Replies, Answering

\* An answer that is given stays true to what the remote side wrote.
LEMMA CutStep ==
  ASSUME Inv, [Next]_vars
  PROVE  CutIsSaid'
<1>0. /\ CutIsSaid /\ FlagsInv /\ StageInv /\ ToolInv /\ WriterInv /\ DataType /\ AnswerType
  BY DEF Inv
<1>1. CASE Beside
  <2>1. UNCHANGED <<tool, fault, obstacle, stage, answer>>  BY <1>1, Background
  <2>2. stage = "done" => UNCHANGED <<ctx, remote, wrote, errors>>
    BY <1>0, <1>1, Background DEF StageInv
  <2> QED BY <1>0, <2>1, <2>2 DEF CutIsSaid, Answered
<1>2. CASE ReadFlags
  <2>1. /\ stage = "flags" /\ stage' = "done" /\ answer' = [answer EXCEPT !.cut = full]
        /\ ctx' = IF ctx = "live" THEN "returned" ELSE ctx
        /\ UNCHANGED <<tool, remote, wrote, kept, full>>
    BY <1>2 DEF ReadFlags, Return, endVars, callVars, remoteVars, writerVars
  <2>2. /\ answer'.cut = full /\ answer'.text = answer.text /\ answer'.code = answer.code
        /\ answer'.timeLimited = answer.timeLimited
    BY <1>0, <2>1 DEF AnswerType, Answers
  <2>3. SUFFICES ASSUME NEW ch \in ChannelsOf(tool)
        PROVE  /\ answer.text[ch] < wrote[ch] =>
                     \/ full # {} \/ answer.timeLimited
                     \/ ctx' = "window" /\ tool \in {"attach", "forward", "proxy", "watch"}
                     \/ ctx' = "caller" /\ tool \in {"forward", "proxy", "watch"}
                     \/ remote = "failed" /\ tool \in {"forward", "proxy"}
               /\ ch \in full => tool = "watch" \/ answer.text[ch] < wrote[ch]
               /\ answer.text[ch] <= CASE tool = "watch" -> WatchMaxEvents
                                       [] tool = "reset" -> wrote[ch]
                                       [] OTHER -> Limit
    BY <2>1, <2>2 DEF CutIsSaid, Answered
  <2>4. /\ ch \in Channels /\ (tool = "watch" => ch = "out")
        /\ answer.text[ch] \in Nat /\ kept[ch] \in Nat /\ seen[ch] \in Nat /\ wrote[ch] \in Nat
        /\ Limit \in Nat /\ WatchMaxEvents \in Nat
    BY <1>0, Caps DEF ChannelsOf, Channels, Executors, AnswerType, Answers, DataType
  <2>5. answer.text[ch] <= kept[ch] /\ kept[ch] <= seen[ch] /\ seen[ch] <= wrote[ch]
    BY <1>0, <2>1, <2>4 DEF FlagsInv, DataType
  <2>6. answer.text[ch] < wrote[ch] => ~AllTold  BY <2>4 DEF AllTold
  <2>7. answer.text[ch] < wrote[ch] => Excused \/ full # {}
    BY <1>0, <2>1, <2>6 DEF FlagsInv
  <2>8. ch \in full /\ tool # "watch" => answer.text[ch] < wrote[ch]
    <3>1. ch \in full /\ tool # "watch" => kept[ch] = Limit /\ Limit < seen[ch]
      BY <1>0 DEF WriterInv
    <3> QED BY <2>4, <2>5, <3>1
  <2>9. CASE tool = "watch"
    <3>1. kept[ch] <= WatchMaxEvents  BY <1>0, <2>4, <2>9 DEF WriterInv
    <3>2. answer.text[ch] <= WatchMaxEvents  BY <2>4, <2>5, <3>1
    <3> QED BY <2>1, <2>7, <2>8, <2>9, <3>2 DEF Excused
  <2>10. CASE tool = "reset"
    <3>1. answer.text[ch] <= wrote[ch]  BY <2>4, <2>5
    <3> QED BY <2>1, <2>7, <2>8, <2>10, <3>1 DEF Excused
  <2>11. CASE tool \notin {"watch", "reset"}
    <3>1. kept[ch] <= Limit  BY <1>0, <2>4, <2>11 DEF WriterInv
    <3>2. answer.text[ch] <= Limit  BY <2>4, <2>5, <3>1
    <3> QED BY <2>1, <2>7, <2>8, <2>11, <3>2 DEF Excused
  <2> QED BY <2>9, <2>10, <2>11
<1>3. CASE ~Answered'  BY <1>3 DEF CutIsSaid
<1> QED BY <1>1, <1>2, <1>3, Moves DEF Answered, Answering

\* The same of its exit code.
LEMMA ExitCodeStep ==
  ASSUME Inv, [Next]_vars
  PROVE  ExitCodeIsTheCommands'
<1>0. /\ ExitCodeIsTheCommands /\ FlagsInv /\ AnswerInv /\ StageInv /\ ToolInv
      /\ DataType /\ AnswerType
  BY DEF Inv
<1>1. CASE Beside
  <2>1. UNCHANGED <<tool, fault, obstacle, stage, answer>>  BY <1>1, Background
  <2>2. stage = "done" => UNCHANGED <<ctx, remote, wrote, errors>>
    BY <1>0, <1>1, Background DEF StageInv
  <2> QED BY <1>0, <2>1, <2>2 DEF ExitCodeIsTheCommands, Answered
<1>2. CASE ReadFlags
  <2>1. /\ stage = "flags" /\ stage' = "done" /\ answer' = [answer EXCEPT !.cut = full]
        /\ ctx' = IF ctx = "live" THEN "returned" ELSE ctx
        /\ UNCHANGED <<tool, remote, wrote, kept, full>>
    BY <1>2 DEF ReadFlags, Return, endVars, callVars, remoteVars, writerVars
  <2>2. /\ answer'.cut = full /\ answer'.text = answer.text /\ answer'.code = answer.code
        /\ answer'.timeLimited = answer.timeLimited
    BY <1>0, <2>1 DEF AnswerType, Answers
  <2>3. tool \in {"exec", "reset"} /\ AllTold => answer.text = wrote
    <3>1. /\ answer.text \in [Channels -> Nat] /\ wrote \in [Channels -> 0..MaxWritten]
          /\ tool \in {"exec", "reset"} => ChannelsOf(tool) = Channels
      BY <1>0 DEF AnswerType, Answers, DataType, ChannelsOf, Executors
    <3> QED BY <3>1 DEF AllTold
  <2> QED BY <1>0, <2>1, <2>2, <2>3
             DEF ExitCodeIsTheCommands, Answered, FlagsInv, AnswerInv, Answering
<1>3. CASE ~Answered'  BY <1>3 DEF ExitCodeIsTheCommands
<1> QED BY <1>1, <1>2, <1>3, Moves DEF Answered, Answering

\* The same of its failure.
LEMMA FailureStep ==
  ASSUME Inv, [Next]_vars
  PROVE  FailureHasACause'
<1>0. /\ FailureHasACause /\ ReturnInv /\ StageInv /\ ToolInv /\ ControlType
  BY DEF Inv
<1>e. answer.type = "error" => stage = "done"
  BY <1>0, NoAnswerType DEF StageInv
<1>t. {"refused", "error"} \subseteq Types  BY DEF Types
<1>r. stage = "returned" => streamErr \in {"nil", "exit", "failed", "ctx"}
  BY DEF Inv, ReturnInv
<1>c. payload \in BOOLEAN  BY DEF Inv, ControlType
<1>1. CASE Beside
  <2>1. UNCHANGED <<tool, fault, obstacle, answer>>  BY <1>1, Background
  <2>2. answer.type = "error" => UNCHANGED <<ctx, remote, errors>>
    BY <1>0, <1>e, <1>1, Background DEF StageInv
  <2>3. streamErr # "none" => UNCHANGED streamErr  BY <1>1, Background
  <2> QED BY <1>0, <2>1, <2>2, <2>3 DEF FailureHasACause
<1>2. CASE ResolvePairs
  BY <1>0, <1>t, FailEffect, <1>2
     DEF ResolvePairs, FailureHasACause, beforeVars, callVars, remoteVars
<1>3. CASE Decide
  <2>1. CASE Fail("refused") /\ UNCHANGED beforeVars
    BY <1>0, <1>3, <2>1, <1>t, FailEffect
       DEF Decide, FailureHasACause, beforeVars, callVars, remoteVars
  <2>2. CASE /\ stage' = "handler"
            /\ UNCHANGED <<beforeVars, ctx, conn, answer>>
    BY <1>0, <1>3, <2>2 DEF Decide, FailureHasACause, beforeVars, callVars, remoteVars
  <2> QED BY <1>3, <2>1, <2>2 DEF Decide
<1>4. CASE Handle
  <2>1. stage = "handler" /\ UNCHANGED <<fault, obstacle>>
    BY <1>4 DEF Handle, beforeVars, callVars
  <2>2. CASE Fail("refused")  BY <1>t, <2>2, FailEffect DEF FailureHasACause
  <2>3. CASE fault \in LayerChecks[tool] \/ obstacle # "none"
    <3>1. "none" \notin LayerChecks[tool]
      <4>1. tool \in Tools  BY <1>0 DEF ControlType
      <4>2. CASE tool \in {"exec", "watch", "reset"}  BY <4>2 DEF LayerChecks
      <4>3. CASE tool = "attach"  BY <4>3 DEF LayerChecks
      <4>4. CASE tool = "forward"  BY <4>4 DEF LayerChecks
      <4>5. CASE tool = "proxy"  BY <4>5 DEF LayerChecks, splitProxyPath
      <4> QED BY <4>1, <4>2, <4>3, <4>4, <4>5 DEF Tools
    <3> QED BY <2>1, <2>3, <3>1 DEF FailureHasACause
  <2>4. CASE UNCHANGED answer  BY <1>e, <2>1, <2>4 DEF FailureHasACause
  <2> QED BY <1>4, <2>2, <2>3, <2>4 DEF Handle
<1>5. CASE Connect
  BY <1>0, <1>5 DEF Connect, FailureHasACause, connectVars, callVars, remoteVars
<1>6. CASE DialFails
  BY <1>0, <1>6 DEF DialFails, FailureHasACause, connectVars, callVars, remoteVars
<1>7. CASE DialCut
  BY <1>e, <1>7 DEF DialCut, FailureHasACause, connectVars
<1>8. CASE ConnectFails
  BY <1>0, <1>t, FailEffect, <1>8 DEF ConnectFails, FailureHasACause, callVars, remoteVars
<1>9. CASE RequestCut
  <2>1. /\ stage = "connect" /\ tool \in {"proxy", "watch"} /\ ctx # "live" /\ Fail("error")
        /\ streamErr' = "ctx" /\ UNCHANGED tool
    BY <1>9 DEF RequestCut, callVars
  <2>2. tool = "watch" => ctx = "caller"
    BY <1>0, <2>1 DEF ControlType, ToolInv, StageInv
  <2>3. ctx' = ctx  BY <1>t, <2>1, FailEffect
  <2> QED BY <2>1, <2>2, <2>3 DEF FailureHasACause
<1>10. CASE OpenTunnel
  BY <1>e, <1>10 DEF OpenTunnel, FailureHasACause, connectVars
<1>11. CASE SendPayload
  BY <1>0, <1>11 DEF SendPayload, FailureHasACause, connectVars, callVars, remoteVars
<1>12. CASE SendPayloadFails
  BY <1>0, <1>t, FailEffect, <1>12
     DEF SendPayloadFails, FailureHasACause, beforeVars, callVars, remoteVars
<1>13. CASE StreamWithContext
  BY <1>e, <1>13 DEF StreamWithContext, FailureHasACause, connectVars
<1>14. CASE execStreamOutcome
  <2>1. stage = "returned" /\ tool = "exec" /\ UNCHANGED <<endVars, streamErr>>
    BY <1>14 DEF execStreamOutcome
  <2>2. CASE Fail("error") /\ streamErr \in {"failed", "ctx"} /\ ctx # "window" /\ full = {}
    <3>1. streamErr = "failed" \/ ctx = "caller"
      BY <1>0, <2>1, <2>2 DEF ReturnInv, ToolInv, StageInv, ControlType
    <3>2. UNCHANGED <<tool, streamErr>> /\ (ctx # "live" => ctx' = ctx)
      BY <1>t, <2>1, <2>2, FailEffect DEF endVars, callVars
    <3> QED BY <2>1, <3>1, <3>2 DEF FailureHasACause
  <2>3. CASE \E b \in Answers : Outcome(b)  BY <2>3, OutcomeEffect DEF FailureHasACause
  <2> QED BY <1>14, <2>1, <2>2, <2>3, ExecAnswers
<1>15. CASE ExecInPod
  <2>1. stage = "returned" /\ tool = "reset" /\ UNCHANGED <<endVars, streamErr>>
    BY <1>15 DEF ExecInPod
  <2>2. CASE Fail("error") /\ streamErr \in {"failed", "ctx"}
    <3>1. streamErr = "failed" \/ ctx = "caller"
      BY <1>0, <2>1, <2>2 DEF ReturnInv, ToolInv, StageInv, ControlType, Gated
    <3>2. UNCHANGED <<tool, streamErr>> /\ (ctx # "live" => ctx' = ctx)
      BY <1>t, <2>1, <2>2, FailEffect DEF endVars, callVars
    <3> QED BY <2>1, <3>1, <3>2 DEF FailureHasACause
  <2>3. CASE \E b \in Answers : Outcome(b)  BY <2>3, OutcomeEffect DEF FailureHasACause
  <2> QED BY <1>r, <1>15, <2>1, <2>2, <2>3, ResetAnswers
<1>16. CASE AttachResource
  <2>1. stage = "returned" /\ tool = "attach" /\ UNCHANGED <<endVars, streamErr>>
    BY <1>16 DEF AttachResource
  <2>2. CASE Fail("error") /\ streamErr # "nil" /\ ctx # "window"
    <3>1. streamErr = "failed" \/ ctx \in {"cap", "caller"}
      BY <1>0, <2>1, <2>2 DEF ReturnInv, ToolInv, StageInv, ControlType
    <3>2. UNCHANGED <<tool, streamErr>> /\ (ctx # "live" => ctx' = ctx)
      BY <1>t, <2>1, <2>2, FailEffect DEF endVars, callVars
    <3> QED BY <2>1, <3>1, <3>2 DEF FailureHasACause
  <2>3. CASE \E b \in Answers : Outcome(b)  BY <2>3, OutcomeEffect DEF FailureHasACause
  <2> QED BY <1>c, <1>16, <2>1, <2>2, <2>3, AttachAnswers
<1>17. CASE ReadWindowEnds
  BY <1>0, <1>17 DEF ReadWindowEnds, FailureHasACause, endVars, callVars, remoteVars
<1>18. CASE roundTrip
  <2>1. CASE streamErr = "message"
    BY <1>0, <1>18, <2>1 DEF roundTrip, ToolInv, FailureHasACause, endVars, remoteVars
  <2>2. CASE Outcome(NoAnswer)
    BY <2>2, NoAnswerType, OutcomeEffect DEF FailureHasACause
  <2> QED BY <1>18, <2>1, <2>2 DEF roundTrip
<1>19. CASE ProxyResource
  <2>1. CASE apiserverRefusal
    BY <1>19, <2>1 DEF ProxyResource, apiserverRefusal, FailureHasACause, endVars, remoteVars
  <2>2. CASE Outcome(NoAnswer)
    BY <2>2, NoAnswerType, OutcomeEffect DEF FailureHasACause
  <2> QED BY <1>19, <2>1, <2>2 DEF ProxyResource
<1>20. CASE WatchResources
  BY <1>0, <1>t, FailEffect, OutcomeEffect, NoAnswerType, <1>20
     DEF WatchResources, WatchEvent, WatchEnds, FailureHasACause, callVars, remoteVars
<1>21. CASE ReadText
  BY <1>0, <1>21 DEF ReadText, FailureHasACause, endVars, callVars, remoteVars
<1>22. CASE ReadFlags
  BY <1>0, <1>22 DEF ReadFlags, Return, FailureHasACause, endVars, callVars, remoteVars
<1> QED BY <1>1, <1>2, <1>3, <1>4, <1>5, <1>6, <1>7, <1>8, <1>9, <1>10, <1>11, <1>12, <1>13,
   <1>14, <1>15, <1>16, <1>17, <1>18, <1>19, <1>20, <1>21, <1>22
   DEF Next, Proceed, Beside

\* The same of its window.
LEMMA AttachStep ==
  ASSUME Inv, [Next]_vars
  PROVE  AttachLastsItsWindow'
<1>0. /\ AttachLastsItsWindow /\ AnswerInv /\ StageInv /\ ToolInv /\ ControlType
  BY DEF Inv
<1>1. CASE Beside
  <2>1. UNCHANGED <<tool, fault, obstacle, stage, answer>>  BY <1>1, Background
  <2>2. stage = "done" => UNCHANGED <<ctx, remote, wrote, errors>>
    BY <1>0, <1>1, Background DEF StageInv
  <2> QED BY <1>0, <2>1, <2>2 DEF AttachLastsItsWindow, Answered
<1>2. CASE ReadFlags
  BY <1>0, <1>2
     DEF ReadFlags, Return, AttachLastsItsWindow, Answered, AnswerInv, Answering,
         StageInv, endVars, callVars, remoteVars, writerVars
<1>3. CASE ~Answered'  BY <1>3 DEF AttachLastsItsWindow
<1> QED BY <1>1, <1>2, <1>3, Moves DEF Answered, Answering

-----------------------------------------------------------------------------
\* The invariant holds to begin with ...
LEMMA Initially == Init => Inv
<1> SUFFICES ASSUME Init PROVE Inv
  OBVIOUS
<1>1. ControlType  BY DEF Init, ControlType, Early, Answering, Faults
<1>2. DataType  BY Caps DEF Init, DataType
<1>3. AnswerType  BY NoAnswerType DEF Init, AnswerType
<1>4. answer.type = "none" /\ stage \in {"pairs", "handler"}  BY NoAnswerType DEF Init
<1>5. StageInv  BY DEF Init, StageInv, Early, Answering, Gated, Executors
<1>6. ToolInv  BY DEF Init, ToolInv
<1>7. WriterInv
  <2>1. /\ full = {} /\ \A ch \in Channels : kept[ch] = 0 /\ seen[ch] = 0
        /\ "out" \in Channels /\ "err" \in Channels /\ 0 <= Limit /\ 0 < WatchMaxEvents
    BY Caps DEF Init, Channels
  <2> QED BY <2>1, Caps DEF WriterInv
<1>8. CopyInv /\ ReturnInv /\ TextInv /\ FlagsInv /\ AnswerInv
  BY <1>4 DEF CopyInv, ReturnInv, TextInv, FlagsInv, AnswerInv, Answering
<1>9. CutIsSaid /\ ExitCodeIsTheCommands /\ FailureHasACause /\ AttachLastsItsWindow
  BY <1>4 DEF CutIsSaid, ExitCodeIsTheCommands, FailureHasACause, AttachLastsItsWindow, Answered
<1> QED BY <1>1, <1>2, <1>3, <1>5, <1>6, <1>7, <1>8, <1>9 DEF Inv

\* ... and every step keeps it.
LEMMA Invariance == Spec => []Inv
<1>1. ASSUME Inv, [Next]_vars PROVE Inv'
  BY <1>1, ControlTypeStep, DataTypeStep, AnswerTypeStep, StageStep, ToolStep, WriterStep,
     CopyStep, ReturnStep, TextStep, FlagsStep, AnswerStep, CutStep, ExitCodeStep,
     FailureStep, AttachStep
     DEF Inv
<1> QED BY Initially, <1>1, PTL DEF Spec

-----------------------------------------------------------------------------
\* The types of the state, and no writer keeps what it was not handed, nor is
\* handed what was not written.
THEOREM TypeCorrect == Spec => []StreamTypeOK
<1>1. Inv => StreamTypeOK
  <2> SUFFICES ASSUME Inv PROVE StreamTypeOK
    OBVIOUS
  <2>1. \A ch \in Channels : kept[ch] \in 0..seen[ch] /\ seen[ch] \in 0..wrote[ch]
    <3>1. \A ch \in Channels :
             /\ kept[ch] \in Nat /\ seen[ch] \in Nat /\ wrote[ch] \in Nat
             /\ kept[ch] <= seen[ch] /\ seen[ch] <= wrote[ch]
      BY Caps DEF Inv, DataType
    <3> QED BY <3>1
  <2>2. answer.type \in {"none", "refused", "error", "answer"}
    BY DEF Inv, AnswerType, Answers, Types
  <2> QED BY <2>1, <2>2 DEF Inv, ControlType, DataType, Early, Answering, StreamTypeOK
<1> QED BY Invariance, <1>1, PTL

\* An answer that lacks bytes says so or was cut by an ending its tool excuses, and
\* a flag is never raised without cause, however large the caps and whatever the
\* goroutines still running write meanwhile (limitedWriter, the five outcomes).
THEOREM CutSaid == Spec => []CutIsSaid
<1>1. Inv => CutIsSaid  BY DEF Inv
<1> QED BY Invariance, <1>1, PTL

\* An exit code is the command's, with all it wrote or a flag (execStreamOutcome,
\* ExecInPod).
THEOREM ExitCode == Spec => []ExitCodeIsTheCommands
<1>1. Inv => ExitCodeIsTheCommands  BY DEF Inv
<1> QED BY Invariance, <1>1, PTL

\* A call that reached its stream fails only for a cause outside its own caps and
\* window, with the two exceptions the property names (attach.go, proxy.go).
THEOREM FailureCause == Spec => []FailureHasACause
<1>1. Inv => FailureHasACause  BY DEF Inv
<1> QED BY Invariance, <1>1, PTL

\* Writing stdin does not cost an attach the rest of its window (attachStdinReader).
THEOREM AttachWindow == Spec => []AttachLastsItsWindow
<1>1. Inv => AttachLastsItsWindow  BY DEF Inv
<1> QED BY Invariance, <1>1, PTL
=============================================================================
