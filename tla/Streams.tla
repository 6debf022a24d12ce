------------------------------- MODULE Streams -------------------------------
(***************************************************************************)
(* The tools that hold a stream open: resource_exec, resource_attach,      *)
(* resource_port_forward, resource_proxy, resource_watch and the exec of   *)
(* dear_baby_reset_user.  Such calls share nothing, so one call of any of  *)
(* the tools is modelled, from its arguments to its answer, against a      *)
(* remote side that writes, ends, breaks or stays silent as it likes.      *)
(*                                                                         *)
(* Three things end a stream: the remote side, the window or time cap, and *)
(* the byte cap, which most tools let cancel the same context the window   *)
(* belongs to.  The goroutines that copy run beside the call and, when the *)
(* context ends it, still after it: client-go's StreamWithContext does not *)
(* wait for its copiers then.  A byte stands for itself, an event of a     *)
(* watch for a byte of its only channel.                                   *)
(***************************************************************************)
EXTENDS Naturals, FiniteSets

CONSTANTS
    Limit,           \* streamMaxOutputBytes
    WatchMaxEvents,  \* the cap of a watch
    MaxWritten       \* bound: what the remote side writes to one channel

ASSUME LimitAssumption == {Limit, WatchMaxEvents} \subseteq Nat \ {0}
ASSUME MaxWrittenAssumption == MaxWritten \in Nat /\ MaxWritten > Limit

VARIABLES
    tool,      \* the tool called
    fault,     \* the first argument check the call's arguments fail, or "none"
    obstacle,  \* the fact of the cluster that stops the call before it connects
    payload,   \* stdin of an attach, payload of a forward: something is to be sent
    stage,     \* where the call is
    ctx,       \* "live", or the first thing that ended the call's context or window
    conn,      \* the connection: "none", "open", "closed"
    remote,    \* the remote side: "up", "ok", "exit" (non-zero), "failed", "detached"
    errors,    \* the forward's error stream: "none", "open", "quiet", "message"
    stdin,     \* the attach's stdin: "none", "pending", "written", "eof", "lost"
    routines,  \* goroutines of the call that are running: channels, "stdin", "errors"
    wrote,     \* per channel: bytes the remote side wrote
    seen,      \* per channel: bytes handed to the writer
    kept,      \* per channel: bytes the writer kept
    full,      \* channels whose writer overflowed
    streamErr, \* how StreamWithContext returned; what the error stream said
    answer     \* the call's result

callVars == <<tool, fault, obstacle, payload>>
remoteVars == <<remote, errors, wrote>>
writerVars == <<seen, kept, full>>
vars == <<callVars, stage, ctx, conn, remoteVars, stdin, routines,
          writerVars, streamErr, answer>>

Channels == {"out", "err"}
Tools == {"exec", "attach", "forward", "proxy", "watch", "reset"}
Gated == {"exec", "attach", "forward", "proxy"}

\* the tools that run over remotecommand's executor, with two channels
Executors == {"exec", "attach", "reset"}
ChannelsOf(t) == IF t \in Executors THEN Channels ELSE {"out"}

-----------------------------------------------------------------------------
(* Arguments.  A parser is the set of checks it makes.                     *)

parseExecTarget == {"apiVersion", "kind", "name", "subresource", "command"}

parseAttachTarget == {"apiVersion", "kind", "name", "subresource", "command",
                      "readSeconds", "stdin"}

parsePortForwardPayload == {"payload", "payloadBase64", "both payloads"}

parsePortForwardTarget ==
    {"apiVersion", "kind", "name", "subresource", "port", "readSeconds"}
        \cup parsePortForwardPayload

parseProxyPort == {"node port", "port", "port range", "pod port name", "port name"}

parseProxyBody == {"body", "bodyBase64", "both bodies"}

parseProxyTarget ==
    {"apiVersion", "kind", "name", "name with port", "subresource", "method",
     "path", "readSeconds"}
        \cup parseProxyPort \cup parseProxyBody

parseCoordinate == {"apiVersion", "kind"}

\* The handlers, which run after the gate where there is one.
resourceExec == parseExecTarget
resourceAttach == parseAttachTarget
resourcePortForward == parsePortForwardTarget
resourceProxy == parseProxyTarget
resourceWatch == parseCoordinate \cup {"watchSeconds"}
dearBabyResetUser == {"namespace", "email"}

Checks == [exec |-> resourceExec, attach |-> resourceAttach,
           forward |-> resourcePortForward, proxy |-> resourceProxy,
           watch |-> resourceWatch, reset |-> dearBabyResetUser]

\* The resolvers the gate runs first: the parsers again, before the pair is named.
execPairs == parseExecTarget
attachPairs == parseAttachTarget
portForwardPairs == parsePortForwardTarget
proxyPairs == parseProxyTarget

PairChecks == [exec |-> execPairs, attach |-> attachPairs,
               forward |-> portForwardPairs, proxy |-> proxyPairs]

\* What the arguments can still be wrong about for the kubernetes layer: it
\* looks at windows and ports again, and only it parses a proxy path.
splitProxyPath == {"unparsable path"}

LayerChecks == [exec |-> {}, attach |-> {"readSeconds"},
                forward |-> {"readSeconds", "port"},
                proxy |-> {"readSeconds", "method"} \cup splitProxyPath,
                watch |-> {}, reset |-> {}]

Faults(t) == {"none"} \cup Checks[t] \cup LayerChecks[t]

-----------------------------------------------------------------------------
(* The cluster's answer to what the arguments name.                        *)

\* streamSubresourceServed: discovery fails, or does not list the subresource
streamSubresourceServed == {"discovery failed", "not served"}

Obstacles(t) ==
    {"none", "no client"} \cup
    CASE t \in Gated -> {"unknown kind", "scope", "wrong kind"} \cup streamSubresourceServed
      [] t = "watch" -> {"unknown kind", "scope"}
      [] t = "reset" -> {"no Running pod"}

NoAnswer == [type |-> "none", text |-> [ch \in Channels |-> 0], cut |-> {},
             code |-> "none", timeLimited |-> FALSE, stdinWritten |-> FALSE]

Init ==
    /\ tool \in Tools
    /\ fault \in Faults(tool)
    /\ obstacle \in Obstacles(tool)
    /\ fault # "none" => obstacle = "none"
    /\ payload \in BOOLEAN
    /\ payload => tool \in {"attach", "forward"}
    /\ stage = IF tool \in Gated THEN "pairs" ELSE "handler"
    /\ ctx = "live"
    /\ conn = "none"
    /\ remote = "up"
    /\ errors = "none"
    /\ stdin = "none"
    /\ routines = {}
    /\ wrote = [ch \in Channels |-> 0]
    /\ seen = [ch \in Channels |-> 0]
    /\ kept = [ch \in Channels |-> 0]
    /\ full = {}
    /\ streamErr = "none"
    /\ answer = NoAnswer

\* Mutant: the connection is not closed on the way out.
ReturnLeavingOpen(a) ==
    /\ answer' = a
    /\ stage' = "done"
    /\ ctx' = IF ctx = "live" THEN "returned" ELSE ctx
    /\ UNCHANGED conn

\* Every return: the deferred cancel ends the context and releases whoever
\* waits for it, and the deferred Close, Stop or Body.Close drops the connection.
Return(a) ==
    /\ answer' = a
    /\ stage' = "done"
    /\ ctx' = IF ctx = "live" THEN "returned" ELSE ctx
    /\ conn' = "closed"

Fail(type) == Return([NoAnswer EXCEPT !.type = type])

-----------------------------------------------------------------------------
(* Up to the connection.                                                   *)

beforeVars == <<callVars, remoteVars, stdin, routines, writerVars, streamErr>>

\* The gate's resolver; arguments it refuses cost no approval.
ResolvePairs ==
    /\ stage = "pairs"
    /\ IF fault \in PairChecks[tool]
       THEN Fail("refused")
       ELSE stage' = "approval" /\ UNCHANGED <<ctx, conn, answer>>
    /\ UNCHANGED beforeVars

\* The gate, of which only the verdict matters here.
Decide ==
    /\ stage = "approval"
    /\ \/ Fail("refused")
       \/ stage' = "handler" /\ UNCHANGED <<ctx, conn, answer>>
    /\ UNCHANGED beforeVars

\* The handler parses again and reaches the kubernetes layer, which resolves
\* the kind, the namespace and the subresource.
Handle ==
    /\ stage = "handler"
    /\ IF fault \in Checks[tool]
       THEN Fail("refused")
       ELSE IF fault \in LayerChecks[tool] \/ obstacle # "none"
            THEN Fail("error")
            ELSE stage' = "connect" /\ UNCHANGED <<ctx, conn, answer>>
    /\ UNCHANGED beforeVars

-----------------------------------------------------------------------------
(* Connecting.                                                             *)

connectVars == <<callVars, ctx, remoteVars, writerVars, answer>>

\* The executor, the proxied request's headers or the watch is there.
Connect ==
    /\ stage = "connect"
    /\ tool # "forward"
    /\ stage' = "stream"
    /\ conn' = "open"
    /\ stdin' = IF payload THEN "pending" ELSE "none"
    /\ routines' = (IF tool = "watch" THEN {} ELSE ChannelsOf(tool))
                      \cup (IF payload THEN {"stdin"} ELSE {})
    /\ UNCHANGED <<connectVars, streamErr>>

\* remotecommand reports a failed dial like a failed stream ...
DialFails ==
    /\ stage = "connect"
    /\ tool \in Executors
    /\ streamErr' = "failed"
    /\ stage' = "returned"
    /\ conn' = "closed"
    /\ UNCHANGED <<connectVars, stdin, routines>>

\* ... and so one that its context cut off while it connects.  The apiserver's answer
\* to the upgrade is read without the context: nothing ends the wait for that.
DialCut ==
    /\ stage = "connect"
    /\ tool \in Executors
    /\ ctx # "live"
    /\ streamErr' = "ctx"
    /\ stage' = "returned"
    /\ conn' = "closed"
    /\ UNCHANGED <<connectVars, stdin, routines>>

\* The proxied request fails before its headers, the watch is refused, the
\* tunnel cannot be dialled or its streams not created.
ConnectFails ==
    /\ stage = "connect"
    /\ tool \notin Executors
    /\ Fail("error")
    /\ streamErr' = "failed"
    /\ UNCHANGED <<callVars, remoteVars, stdin, routines, writerVars>>

\* The proxied request and the opening of a watch are under their context;
\* of these only the proxy's has a deadline.  Dialling a tunnel ignores its own.
RequestCut ==
    /\ stage = "connect"
    /\ tool \in {"proxy", "watch"}
    /\ ctx # "live"
    /\ Fail("error")
    /\ streamErr' = "ctx"
    /\ UNCHANGED <<callVars, remoteVars, stdin, routines, writerVars>>

\* Dial, then the error stream and the data stream, and the goroutine that
\* reads the error stream.
OpenTunnel ==
    /\ stage = "connect"
    /\ tool = "forward"
    /\ stage' = "payload"
    /\ conn' = "open"
    /\ errors' = "open"
    /\ routines' = {"errors"}
    /\ UNCHANGED <<callVars, ctx, remote, wrote, stdin, writerVars, streamErr, answer>>

\* The payload is written, the write half closed, the copier started.  Writing
\* may block for as long as the remote side does not read.
SendPayload ==
    /\ stage = "payload"
    /\ stage' = "stream"
    /\ routines' = routines \cup {"out"}
    /\ UNCHANGED <<connectVars, conn, stdin, streamErr>>

SendPayloadFails ==
    /\ stage = "payload"
    /\ payload
    /\ remote = "failed"
    /\ Fail("error")
    /\ UNCHANGED beforeVars

-----------------------------------------------------------------------------
(* The writers and the goroutines that feed them.                          *)

\* The overflow of a writer cancels the context, except in a forward, whose
\* writer only goes on draining.
onFull == IF tool # "forward" /\ ctx = "live" THEN "cap" ELSE ctx

\* Mutant: the writer drops what does not fit without marking itself.
LimitedWriteSilent(ch, n) ==
    LET space == Limit - kept[ch] IN
    /\ kept' = [kept EXCEPT ![ch] = IF n <= space THEN @ + n ELSE Limit]
    /\ UNCHANGED <<full, ctx>>

\* limitedWriter.Write of n bytes: what fits is kept, and only a byte too many
\* makes the writer full.
LimitedWrite(ch, n) ==
    LET space == Limit - kept[ch] IN
    IF ch \in full
    THEN UNCHANGED <<kept, full, ctx>>
    ELSE IF n <= space
    THEN /\ kept' = [kept EXCEPT ![ch] = @ + n]
         /\ UNCHANGED <<full, ctx>>
    ELSE /\ kept' = [kept EXCEPT ![ch] = Limit]
         /\ full' = full \cup {ch}
         /\ ctx' = onFull

\* ExecInPod copies into plain buffers.
BufferWrite(ch, n) ==
    /\ kept' = [kept EXCEPT ![ch] = @ + n]
    /\ UNCHANGED <<full, ctx>>

\* A copier hands a chunk over.  It may do so after the call's context ended,
\* and until it notices that the connection is closed.
Copy(ch) ==
    /\ tool # "watch"
    /\ ch \in routines
    /\ \E n \in 1..(wrote[ch] - seen[ch]) :
          /\ seen' = [seen EXCEPT ![ch] = @ + n]
          /\ IF tool = "reset" THEN BufferWrite(ch, n) ELSE LimitedWrite(ch, n)
    /\ UNCHANGED <<callVars, stage, conn, remoteVars, stdin, routines, streamErr, answer>>

\* A copier ends at the end of its channel, when the transport breaks, and
\* when the connection is closed; a proxied body also ends with its context.
CopyEnds(ch) ==
    /\ ch \in routines
    /\ tool # "watch"
    /\ \/ remote # "up" /\ seen[ch] = wrote[ch]
       \/ remote = "failed"
       \/ conn = "closed"
       \/ tool = "proxy" /\ ctx # "live"
    /\ routines' = routines \ {ch}
    /\ UNCHANGED <<callVars, stage, ctx, conn, remoteVars, stdin, writerVars,
                   streamErr, answer>>

\* attachStdinReader yields the payload once ...
StdinPayload ==
    /\ "stdin" \in routines
    /\ stdin = "pending"
    /\ \/ conn = "open" /\ stdin' = "written" /\ UNCHANGED routines
       \/ conn = "closed" /\ stdin' = "lost" /\ routines' = routines \ {"stdin"}
    /\ UNCHANGED <<callVars, stage, ctx, conn, remoteVars, writerVars, streamErr, answer>>

\* Mutant: the reader ends with its payload.
StdinEOFAtOnce ==
    /\ "stdin" \in routines
    /\ stdin = "written"
    /\ stdin' = "eof"
    /\ routines' = routines \ {"stdin"}
    /\ UNCHANGED <<callVars, stage, ctx, conn, remoteVars, writerVars, streamErr, answer>>

\* ... and withholds the end of file until the context is done; client-go then
\* closes the remote stdin.
StdinEOF ==
    /\ "stdin" \in routines
    /\ stdin = "written"
    /\ ctx # "live"
    /\ stdin' = "eof"
    /\ routines' = routines \ {"stdin"}
    /\ UNCHANGED <<callVars, stage, ctx, conn, remoteVars, writerVars, streamErr, answer>>

\* io.ReadAll(errorStream): a read error counts as no message.
ErrorStreamRead ==
    /\ "errors" \in routines
    /\ errors # "open" \/ remote = "failed" \/ conn = "closed"
    /\ routines' = routines \ {"errors"}
    /\ streamErr' = IF errors = "message" THEN "message" ELSE "nil"
    /\ UNCHANGED <<callVars, stage, ctx, conn, remoteVars, stdin, writerVars, answer>>

-----------------------------------------------------------------------------
(* How a stream ends and what becomes of it.                               *)

endVars == <<callVars, remoteVars, stdin, routines, writerVars>>

\* StreamWithContext: the copiers and the error stream are done, or the context
\* is; it does not wait for the copiers then, and takes either when both are.
StreamWithContext ==
    /\ stage = "stream"
    /\ tool \in Executors
    /\ \/ /\ remote # "up"
          /\ routines \cap Channels = {}
          /\ streamErr' = CASE remote \in {"ok", "detached"} -> "nil"
                             [] remote \in {"exit", "failed"} -> remote
       \/ ctx # "live" /\ streamErr' = "ctx"
    /\ stage' = "returned"
    /\ conn' = "closed"
    /\ UNCHANGED <<endVars, ctx, answer>>

\* An outcome is put together: text first, then the flags.
Outcome(a) ==
    /\ answer' = [a EXCEPT !.type = "answer"]
    /\ stage' = "text"
    /\ UNCHANGED <<ctx, conn>>

\* Mutant: a stream without an error is a success, capped
\* or not.
execStreamOutcomeUncapped ==
    /\ stage = "returned"
    /\ tool = "exec"
    /\ CASE streamErr = "nil" -> Outcome([NoAnswer EXCEPT !.code = "zero"])
         [] streamErr = "exit" -> Outcome([NoAnswer EXCEPT !.code = "nonzero"])
         [] ctx = "window" -> Outcome([NoAnswer EXCEPT !.timeLimited = TRUE])
         [] ctx # "window" /\ full # {} -> Outcome(NoAnswer)
         [] OTHER -> Fail("error")
    /\ UNCHANGED <<endVars, streamErr>>

\* execStreamOutcome, with the context and the writers as they are by now.
execStreamOutcome ==
    /\ stage = "returned"
    /\ tool = "exec"
    /\ \/ /\ streamErr = "nil" /\ full = {}
          /\ Outcome([NoAnswer EXCEPT !.code = "zero"])
       \/ /\ streamErr = "exit"
          /\ Outcome([NoAnswer EXCEPT !.code = "nonzero"])
       \/ /\ streamErr \in {"nil", "failed", "ctx"} /\ ~(streamErr = "nil" /\ full = {})
          /\ \/ ctx = "window" /\ Outcome([NoAnswer EXCEPT !.timeLimited = TRUE])
             \/ ctx # "window" /\ full # {} /\ Outcome(NoAnswer)
             \/ ctx # "window" /\ full = {} /\ Fail("error")
    /\ UNCHANGED <<endVars, streamErr>>

\* ExecInPod knows exit codes and failures.
ExecInPod ==
    /\ stage = "returned"
    /\ tool = "reset"
    /\ CASE streamErr = "nil" -> Outcome([NoAnswer EXCEPT !.code = "zero"])
         [] streamErr = "exit" -> Outcome([NoAnswer EXCEPT !.code = "nonzero"])
         [] streamErr \in {"failed", "ctx"} -> Fail("error")
    /\ UNCHANGED <<endVars, streamErr>>

\* Mutant: the end of the window is an error like any other.
AttachResourceStrict ==
    /\ stage = "returned"
    /\ tool = "attach"
    /\ IF streamErr # "nil"
       THEN Fail("error")
       ELSE Outcome([NoAnswer EXCEPT !.stdinWritten = payload])
    /\ UNCHANGED <<endVars, streamErr>>

\* AttachResource excuses the deadline, and only that.
AttachResource ==
    /\ stage = "returned"
    /\ tool = "attach"
    /\ IF streamErr # "nil" /\ ctx # "window"
       THEN Fail("error")
       ELSE Outcome([NoAnswer EXCEPT !.stdinWritten = payload])
    /\ UNCHANGED <<endVars, streamErr>>

\* roundTrip's select: the copier is done or the window is over ...
ReadWindowEnds ==
    /\ stage = "stream"
    /\ tool = "forward"
    /\ "out" \notin routines \/ ctx # "live"
    /\ stage' = "closing"
    /\ UNCHANGED <<endVars, ctx, conn, streamErr, answer>>

\* ... and then, with no window, the receive from errCh.
roundTrip ==
    /\ stage = "closing"
    /\ "errors" \notin routines
    /\ IF streamErr = "message" THEN Fail("error") ELSE Outcome(NoAnswer)
    /\ UNCHANGED <<endVars, streamErr>>

\* The copy of the body has returned, whatever its error.  errors = "message"
\* stands for a 403 whose body is a Status; cut short it does not parse.
apiserverRefusal ==
    /\ errors = "message"
    /\ remote = "ok"
    /\ kept["out"] = wrote["out"]
    /\ wrote["out"] > 0

ProxyResource ==
    /\ stage = "stream"
    /\ tool = "proxy"
    /\ routines = {}
    /\ IF apiserverRefusal THEN Fail("error") ELSE Outcome(NoAnswer)
    /\ UNCHANGED <<endVars, streamErr>>

\* Mutant: an event is collected twice.
WatchEventTwice ==
    /\ seen["out"] < wrote["out"]
    /\ seen' = [seen EXCEPT !["out"] = @ + 1]
    /\ kept' = [kept EXCEPT !["out"] = @ + 2]
    /\ UNCHANGED <<full, stage, ctx, conn, answer>>

\* One turn of WatchResources' loop: an event, the end of the channel, an Error
\* event or an object that cannot be rendered (remote = "failed"), the window
\* or the context, in any order when several are ready.
WatchEvent ==
    /\ seen["out"] < wrote["out"]
    /\ seen' = [seen EXCEPT !["out"] = @ + 1]
    /\ kept' = [kept EXCEPT !["out"] = @ + 1]
    /\ IF kept'["out"] >= WatchMaxEvents
       THEN full' = {"out"} /\ Outcome(NoAnswer)
       ELSE UNCHANGED <<full, stage, ctx, conn, answer>>

WatchEnds ==
    /\ \/ ctx # "live" /\ Outcome(NoAnswer)
       \/ /\ seen["out"] = wrote["out"]
          /\ \/ remote = "ok" /\ Outcome(NoAnswer)
             \/ remote = "failed" /\ Fail("error")
    /\ UNCHANGED writerVars

WatchResources ==
    /\ stage = "stream"
    /\ tool = "watch"
    /\ WatchEvent \/ WatchEnds
    /\ UNCHANGED <<callVars, remoteVars, stdin, routines, streamErr>>

\* The text of the outcome, which a copier may still be adding to ...
ReadText ==
    /\ stage = "text"
    /\ answer' = [answer EXCEPT !.text = kept]
    /\ stage' = "flags"
    /\ UNCHANGED <<endVars, ctx, conn, streamErr>>

\* ... and its truncation flags.  ExecInPod has none, and no writer can be full.
ReadFlags ==
    /\ stage = "flags"
    /\ Return([answer EXCEPT !.cut = full])
    /\ UNCHANGED <<endVars, streamErr>>

-----------------------------------------------------------------------------
(* The remote side, the clock and the caller.                              *)

RemoteWrites(ch) ==
    /\ conn = "open"
    /\ remote = "up"
    /\ wrote[ch] < MaxWritten
    /\ wrote' = [wrote EXCEPT ![ch] = @ + 1]
    /\ UNCHANGED <<callVars, stage, ctx, conn, remote, errors, stdin, routines,
                   writerVars, streamErr, answer>>

\* A command exits, a process or a port closes, a connection breaks; an attach
\* also ends once its stdin was closed.
RemoteEnds ==
    /\ conn = "open"
    /\ remote = "up"
    /\ \/ remote' = "ok"
       \/ remote' = "failed"
       \/ remote' = "exit" /\ tool \in {"exec", "reset"}
       \/ remote' = "detached" /\ stdin = "eof"
    /\ UNCHANGED <<callVars, stage, ctx, conn, errors, wrote, stdin, routines,
                   writerVars, streamErr, answer>>

\* The apiserver is done with the port, or refuses it; or it refuses the proxy,
\* as it says in the headers.
ErrorStreamEnds ==
    /\ conn = "open"
    /\ \/ errors = "open" /\ errors' \in {"quiet", "message"}
       \/ /\ tool = "proxy" /\ errors = "none"
          /\ wrote["out"] = 0 /\ remote = "up"
          /\ errors' = "message"
    /\ UNCHANGED <<callVars, stage, ctx, conn, remote, wrote, stdin, routines,
                   writerVars, streamErr, answer>>

\* The deadline of exec, attach, forward and proxy, from before they connect;
\* the timer of a watch, once it is open.
Windowed ==
    \/ tool \in Gated /\ stage \notin {"pairs", "approval", "handler", "done"}
    \/ tool = "watch" /\ stage = "stream"

WindowEnds ==
    /\ ctx = "live"
    /\ Windowed
    /\ ctx' = "window"
    /\ UNCHANGED <<callVars, stage, conn, remoteVars, stdin, routines,
                   writerVars, streamErr, answer>>

CallerLeaves ==
    /\ ctx = "live"
    /\ stage \notin {"pairs", "approval", "handler", "done"}
    /\ ctx' = "caller"
    /\ UNCHANGED <<callVars, stage, conn, remoteVars, stdin, routines,
                   writerVars, streamErr, answer>>

Environment ==
    \/ \E ch \in ChannelsOf(tool) : RemoteWrites(ch)
    \/ RemoteEnds
    \/ ErrorStreamEnds
    \/ CallerLeaves

\* the call's own goroutine, where nothing remote can hold it up
Proceed ==
    \/ ResolvePairs \/ Handle \/ RequestCut
    \/ StreamWithContext \/ execStreamOutcome \/ ExecInPod \/ AttachResource
    \/ ReadWindowEnds \/ roundTrip \/ ProxyResource \/ WatchResources
    \/ ReadText \/ ReadFlags

Goroutines ==
    \/ \E ch \in Channels : Copy(ch) \/ CopyEnds(ch)
    \/ StdinPayload \/ StdinEOF \/ ErrorStreamRead

Next ==
    \/ Proceed \/ Goroutines \/ WindowEnds \/ Environment
    \/ Decide \/ Connect \/ DialFails \/ DialCut \/ ConnectFails
    \/ OpenTunnel \/ SendPayload \/ SendPayloadFails

Spec == Init /\ [][Next]_vars

\* The scheduler runs goroutines, timers fire, and a closed connection ends
\* the reads on it.  The remote side, the caller and the operator owe nothing,
\* nor does the apiserver to whoever dials: the executor's and the tunnel's wait for
\* its answer to the upgrade is under no context.
Fairness ==
    /\ WF_vars(Proceed)
    /\ WF_vars(WindowEnds)
    /\ \A ch \in Channels : WF_vars(Copy(ch)) /\ WF_vars(CopyEnds(ch))
    /\ WF_vars(StdinPayload) /\ WF_vars(StdinEOF) /\ WF_vars(ErrorStreamRead)

FairSpec == Spec /\ Fairness

-----------------------------------------------------------------------------
(* Properties.                                                             *)

\* Types of the state.
StreamTypeOK ==
    /\ tool \in Tools
    /\ fault \in Faults(tool)
    /\ obstacle \in Obstacles(tool)
    /\ payload \in BOOLEAN
    /\ stage \in {"pairs", "approval", "handler", "connect", "payload", "stream",
                  "returned", "closing", "text", "flags", "done"}
    /\ ctx \in {"live", "window", "cap", "caller", "returned"}
    /\ conn \in {"none", "open", "closed"}
    /\ remote \in {"up", "ok", "exit", "failed", "detached"}
    /\ errors \in {"none", "open", "quiet", "message"}
    /\ stdin \in {"none", "pending", "written", "eof", "lost"}
    /\ routines \subseteq Channels \cup {"stdin", "errors"}
    /\ wrote \in [Channels -> 0..MaxWritten]
    /\ \A ch \in Channels : kept[ch] \in 0..seen[ch] /\ seen[ch] \in 0..wrote[ch]
    /\ full \subseteq Channels
    /\ streamErr \in {"none", "nil", "exit", "failed", "ctx", "message"}
    /\ answer.type \in {"none", "refused", "error", "answer"}

Answered == stage = "done" /\ answer.type = "answer"

\* An answer that lacks bytes the remote side wrote says so, by a truncation flag
\* or by timeLimited, or its bytes were cut by an ending the tool does not count as
\* truncation: the window of an attach, a forward and a watch, for which it is the
\* contract, or the end of the caller or the connection where the tool takes that
\* for an ending.  A proxied body cut by its window goes unsaid too, against what
\* the code says of it (ProxyCutIsSaid).  A byte cap never goes unsaid.  Conversely a
\* flagged text does lack something (a watch is flagged at its last event), and
\* no capped tool shows more than the cap (limitedWriter, the five outcomes).
CutIsSaid ==
    Answered => \A ch \in ChannelsOf(tool) :
        /\ answer.text[ch] < wrote[ch] =>
              \/ answer.cut # {} \/ answer.timeLimited
              \/ ctx = "window" /\ tool \in {"attach", "forward", "watch"}
              \/ ctx = "window" /\ tool = "proxy"
              \/ ctx = "caller" /\ tool \in {"forward", "proxy", "watch"}
              \/ remote = "failed" /\ tool \in {"forward", "proxy"}
        /\ ch \in answer.cut => tool = "watch" \/ answer.text[ch] < wrote[ch]
        /\ answer.text[ch] <= CASE tool = "watch" -> WatchMaxEvents
                                [] tool = "reset" -> wrote[ch]
                                [] OTHER -> Limit

\* An exit code is the one the command ended with: zero comes with everything the
\* command wrote, any other with everything or a flag, and an exec without a code
\* says whether time or bytes ran out (execStreamOutcome, ExecInPod).
ExitCodeIsTheCommands ==
    Answered /\ tool \in {"exec", "reset"} =>
        /\ answer.code = "zero" => remote = "ok" /\ answer.text = wrote
        /\ answer.code = "nonzero" =>
              /\ remote = "exit"
              /\ \A ch \in Channels : answer.text[ch] = wrote[ch] \/ ch \in answer.cut
        /\ answer.code = "none" => answer.cut # {} \/ answer.timeLimited
        /\ answer.timeLimited => ctx = "window"

\* A call that reached its stream fails only because the transport did, the caller
\* left, or the remote side refused.  A window never fails a call, except a proxied
\* request still waiting for its headers, and a byte cap never does, except in an
\* attach, which takes the cancelled context for a failure, against what the code
\* and AC13 say of it (CappedAttachAnswers).
FailureHasACause ==
    answer.type = "error" /\ fault = "none" /\ obstacle = "none" =>
        \/ "failed" \in {streamErr, remote}
        \/ ctx = "caller"
        \/ errors = "message"
        \/ tool = "proxy" /\ streamErr = "ctx"
        \/ tool = "attach" /\ ctx = "cap"

\* Writing stdin does not cost the rest of the window: an attach that returned
\* before its context ended was ended by the process itself (attachStdinReader).
AttachLastsItsWindow ==
    Answered /\ tool = "attach" /\ ctx = "returned" => remote = "ok"

\* An exec, an attach and a watch end once they are open, a proxied request from the
\* moment it is sent, a forward once its error stream has ended as well, and the
\* reset's exec, which has no cap, once its caller left.  And none leaves a goroutine
\* behind: the deferred cancel releases the stdin reader, the closed connection the
\* copiers and the reader of the error stream.
StreamsEnd ==
    /\ tool \in {"exec", "attach"} /\ stage = "stream" ~> stage = "done"
    /\ tool = "proxy" /\ stage = "connect" ~> stage = "done"
    /\ tool = "watch" /\ stage = "stream" ~> stage = "done"
    /\ tool = "forward" /\ stage = "stream" /\ errors # "open" ~> stage = "done"
    /\ tool = "reset" /\ stage = "stream" /\ ctx # "live" ~> stage = "done"
    /\ stage = "done" ~> routines = {}

\* "A read cut short by either is an ending rather than a failure [...]: what arrived
\* before the cut is the answer, and Truncated on the outcome says it was cut"
\* (ProxyResource, of the byte cap and the window).
ProxyCutIsSaid ==
    Answered /\ tool = "proxy" /\ ctx \in {"cap", "window"} /\ answer.text["out"] \in 1..(wrote["out"] - 1) =>
        answer.cut = {"out"}

\* "A cut stream ends the window rather than waiting it out" (AttachResource): an
\* attach whose output ran over the byte cap answers, and the answer has
\* stdoutTruncated or stderrTruncated set (AC13).
CappedAttachAnswers ==
    stage = "done" /\ tool = "attach" /\ ctx = "cap" /\ remote = "up" =>
        answer.type = "answer" /\ answer.cut # {}

\* "A port that stays open and says nothing is the normal case [...], so the window
\* has to be what ends the call" (port_forward_test.go): once its window is over, a
\* forward to such a port returns.
ForwardEndsWithItsWindow ==
    tool = "forward" /\ stage = "stream" /\ ctx = "window" /\ remote = "up" ~> stage = "done"
=============================================================================
