----------------------------- MODULE ProtoTunnel -----------------------------
(***************************************************************************)
(* The protocol tunnel (tunnel.go) as the proxy command runs it: Start,    *)
(* the accept loop, a handler for every connection with one forwarding     *)
(* goroutine for each direction, Stop and the end of the process; and      *)
(* HandlePair, which joins two connections of the caller's.                *)
(*                                                                         *)
(* A goroutine forwards either with Read and Write of the connection       *)
(* (forward/forward.go) or, for connections that have a file descriptor    *)
(* on Linux, with splice on the descriptor's number                        *)
(* (forward/forward_linux.go).  The kernel gives the number of a closed    *)
(* connection to the next one that is opened, so descriptors have numbers  *)
(* here and the goroutines remember them.                                  *)
(***************************************************************************)
EXTENDS Integers, FiniteSetsExt

CONSTANTS
    Conn,       \* handlers: connections to the tunnel, and pairs
    Modes,      \* the modes the handlers may have, functions from Conn to Mode
    MaxFd,      \* the limit of open descriptors
    None        \* no descriptor, no owner

Mode == [kind : {"tunnel", "pair"}, how : {"splice", "buffer"}]

Fd    == 1 .. MaxFd
Stdin == 0             \* always open, and of no connection
Side  == {"src", "dst"}
Way   == {"out", "back"}

\* What the constants are.
Descriptors ==
    /\ MaxFd \in Nat /\ Modes \subseteq [Conn -> Mode]
    /\ None \notin Nat /\ None \notin Conn \X Side

ASSUME TunnelAssumption == Descriptors

VARIABLES
    mode,       \* mode[c]
    run,        \* the program: "new", "running", "stopping" (in Stop), "stopped"
                \* or "exited"
    loop,       \* acceptLoop runs
    place,      \* place[c]: the handler: "idle", "dial", "copy" or "done"
    fd,         \* fd[c][e]: the open descriptor of an end
    owner,      \* owner[f]: the end that has descriptor f
    fwd,        \* fwd[c][d]: "off", "getFd", "loop", "paused" or "ended"
    raw,        \* raw[c][d]: the descriptors that spliceForward was called with
    ended,      \* ends whose peer has closed
    expired,    \* handlers whose deadline has passed
    stray       \* goroutines that moved bytes from or to a descriptor of others

handlers == <<place, fd, owner>>
copying == <<fwd, raw>>
outside == <<ended, expired>>
tunnelVars == <<mode, run, loop, handlers, copying, outside, stray>>

Alive == run # "exited"

\* The context that Start derived, and Stop or the caller cancels.
ContextDone == run \in {"stopping", "stopped"}

From(d) == IF d = "out" THEN "src" ELSE "dst"
To(d) == IF d = "out" THEN "dst" ELSE "src"

FreeFd == {f \in Fd : owner[f] = None}

Process == <<None, "src">>   \* the owner of standard input

\* Goroutines start: getFd comes first where connections have descriptors.
Begin(c) == [fwd EXCEPT ![c] = [d \in Way |->
                IF mode[c].how = "splice" THEN "getFd" ELSE "loop"]]

-----------------------------------------------------------------------------
\* Start, acceptLoop

StartTunnel ==
    /\ run = "new"
    /\ run' = "running" /\ loop' = TRUE
    /\ UNCHANGED <<mode, handlers, copying, outside, stray>>

\* Listen fails, and the command with it.
StartFails ==
    /\ run = "new"
    /\ run' = "exited"
    /\ UNCHANGED <<mode, loop, handlers, copying, outside, stray>>

Accept(c) ==
    /\ loop /\ run = "running"
    /\ place[c] = "idle" /\ mode[c].kind = "tunnel" /\ FreeFd # {}
    /\ LET f == Min(FreeFd) IN
         /\ owner' = [owner EXCEPT ![f] = <<c, "src">>]
         /\ fd' = [fd EXCEPT ![c]["src"] = f]
    /\ place' = [place EXCEPT ![c] = "dial"]
    /\ UNCHANGED <<mode, run, loop, copying, outside, stray>>

\* Accept fails because the listener is closed, or the loop finds the context
\* cancelled first.  (When there is no descriptor for a connection, Accept fails
\* too, and the loop goes on at once.)
AcceptFails ==
    /\ Alive /\ loop /\ ContextDone
    /\ loop' = FALSE
    /\ UNCHANGED <<mode, run, handlers, copying, outside, stray>>

-----------------------------------------------------------------------------
\* handleConnection and HandlePair

DialTarget(c) ==
    /\ Alive /\ place[c] = "dial" /\ FreeFd # {}
    /\ LET f == Min(FreeFd) IN
         /\ owner' = [owner EXCEPT ![f] = <<c, "dst">>]
         /\ fd' = [fd EXCEPT ![c]["dst"] = f]
    /\ place' = [place EXCEPT ![c] = "copy"]
    /\ fwd' = Begin(c)
    /\ UNCHANGED <<mode, run, loop, raw, outside, stray>>

\* Closing the connections of c frees their descriptors.
Freed(c) == [f \in DOMAIN owner |->
                IF f \in {fd[c][e] : e \in Side} THEN None ELSE owner[f]]

\* Mutant: the handler does not return.
DialFails_NoReturn(c) ==
    /\ Alive /\ place[c] = "dial"
    /\ owner' = Freed(c)
    /\ fd' = [fd EXCEPT ![c] = [e \in Side |-> None]]
    /\ place' = [place EXCEPT ![c] = "copy"]
    /\ fwd' = Begin(c)
    /\ UNCHANGED <<mode, run, loop, raw, outside, stray>>

DialFails(c) ==
    /\ Alive /\ place[c] = "dial"
    /\ owner' = Freed(c)
    /\ fd' = [fd EXCEPT ![c] = [e \in Side |-> None]]
    /\ place' = [place EXCEPT ![c] = "done"]
    /\ ended' = ended \ ({c} \X Side) /\ expired' = expired \ {c}
    /\ UNCHANGED <<mode, run, loop, copying, stray>>

\* HandlePair is called with two connections.
PairBegins(c) ==
    /\ run \notin {"new", "exited"}
    /\ place[c] = "idle" /\ mode[c].kind = "pair"
    /\ \E f, g \in FreeFd : f # g
    /\ LET f == Min(FreeFd)
           g == Min(FreeFd \ {f})
       IN  /\ owner' = [owner EXCEPT ![f] = <<c, "src">>, ![g] = <<c, "dst">>]
           /\ fd' = [fd EXCEPT ![c] = [e \in Side |-> IF e = "src" THEN f ELSE g]]
    /\ place' = [place EXCEPT ![c] = "copy"]
    /\ fwd' = Begin(c)
    /\ UNCHANGED <<mode, run, loop, raw, outside, stray>>

HasEnded(c, d) == fwd[c][d] = "ended"

\* Mutant: the handler does not look at the context.
Finished_NoContext(c) ==
    IF mode[c].kind = "pair" THEN \A d \in Way : HasEnded(c, d)
    ELSE \E d \in Way : HasEnded(c, d)

\* handleConnection waits for one direction or the context, HandlePair for both
\* directions.
Finished(c) ==
    IF mode[c].kind = "pair" THEN \A d \in Way : HasEnded(c, d)
    ELSE ContextDone \/ \E d \in Way : HasEnded(c, d)

\* Both connections are closed.
Close(c) ==
    /\ Alive /\ place[c] = "copy" /\ Finished(c)
    /\ owner' = Freed(c)
    /\ fd' = [fd EXCEPT ![c] = [e \in Side |-> None]]
    /\ place' = [place EXCEPT ![c] = "done"]
    /\ ended' = ended \ ({c} \X Side) /\ expired' = expired \ {c}
    /\ UNCHANGED <<mode, run, loop, copying, stray>>

-----------------------------------------------------------------------------
\* spliceForward.  What splice returns is the kernel's: bytes moved, EAGAIN, the
\* end of the stream, or an error.

\* getFd drops the error of Control: of a closed connection it returns 0.
FdOf(c, e) == IF fd[c][e] = None THEN Stdin ELSE fd[c][e]

GetFd(c, d) ==
    /\ Alive /\ fwd[c][d] = "getFd"
    /\ raw' = [raw EXCEPT ![c][d] = <<FdOf(c, From(d)), FdOf(c, To(d))>>]
    /\ fwd' = [fwd EXCEPT ![c][d] = "loop"]
    /\ UNCHANGED <<mode, run, loop, handlers, outside, stray>>

\* The goroutine uses its descriptors no more.
Quit(c, d, l) ==
    /\ fwd' = [fwd EXCEPT ![c][d] = l]
    /\ raw' = [raw EXCEPT ![c][d] = <<None, None>>]

Splicing(c, d) == Alive /\ fwd[c][d] = "loop" /\ mode[c].how = "splice"

\* A descriptor that splice can move bytes from or to.
Usable(f) == owner[f] \notin ended \union {None}

\* A descriptor that is not the one of end e of c.
Foreign(c, e, f) == owner[f] \notin {None, <<c, e>>}

HoldsForeign(c, d) ==
    Foreign(c, From(d), raw[c][d][1]) \/ Foreign(c, To(d), raw[c][d][2])

SpliceMoves(c, d) ==
    /\ Splicing(c, d) /\ \A i \in 1 .. 2 : Usable(raw[c][d][i])
    /\ stray' = IF HoldsForeign(c, d) THEN stray \union {<<c, d>>} ELSE stray
    /\ UNCHANGED <<mode, run, loop, handlers, copying, outside>>

\* EAGAIN: the goroutine pauses its own controller, which nobody else has and
\* nobody resumes, and from then on only yields.
SpliceAgain(c, d) ==
    /\ Splicing(c, d) /\ \A i \in 1 .. 2 : Usable(raw[c][d][i])
    /\ Quit(c, d, "paused")
    /\ UNCHANGED <<mode, run, loop, handlers, outside, stray>>

\* The end of the stream, EPIPE, ECONNRESET, or EBADF for a closed descriptor.
SpliceFails(c, d) ==
    /\ Splicing(c, d) /\ \E i \in 1 .. 2 : ~ Usable(raw[c][d][i])
    /\ Quit(c, d, "ended")
    /\ UNCHANGED <<mode, run, loop, handlers, outside, stray>>

\* Any other error.
SpliceErrs(c, d) ==
    /\ Splicing(c, d) /\ \A i \in 1 .. 2 : Usable(raw[c][d][i])
    /\ Quit(c, d, "ended")
    /\ UNCHANGED <<mode, run, loop, handlers, outside, stray>>

-----------------------------------------------------------------------------
\* BufferForward and CopyForward.  Copying bytes changes nothing here, and
\* pausing the controller on a write error has no effect: the loop returns.

\* The Read that the loop waits in returns an error.
ReadEnds(c, d) == place[c] = "done" \/ c \in expired \/ <<c, From(d)>> \in ended

\* Read fails, or Write does where the peer it writes to has closed.
BufferFails(c, d) ==
    /\ Alive /\ fwd[c][d] = "loop" /\ mode[c].how = "buffer"
    /\ ReadEnds(c, d) \/ <<c, To(d)>> \in ended
    /\ Quit(c, d, "ended")
    /\ UNCHANGED <<mode, run, loop, handlers, outside, stray>>

-----------------------------------------------------------------------------
\* Stop and the end of the process

\* A signal; Stop cancels the context and closes the listener.  (A connection
\* accepted between the two is as one accepted before both.)
StopCloses ==
    /\ run = "running"
    /\ run' = "stopping"
    /\ UNCHANGED <<mode, loop, handlers, copying, outside, stray>>

\* wg.Wait: for the accept loop; handlers are not in the WaitGroup.
StopReturns ==
    /\ run = "stopping" /\ ~ loop
    /\ run' = "stopped"
    /\ UNCHANGED <<mode, loop, handlers, copying, outside, stray>>

\* No handler, no goroutine, no descriptor: before Start and after the process.
Nothing ==
    [pc |-> [c \in Conn |-> "idle"],
     fd |-> [c \in Conn |-> [e \in Side |-> None]],
     owner |-> [f \in Fd \union {Stdin} |-> IF f = Stdin THEN Process ELSE None],
     fwd |-> [c \in Conn |-> [d \in Way |-> "off"]],
     raw |-> [c \in Conn |-> [d \in Way |-> <<None, None>>]]]

\* The command returns when Stop has, or after 30 seconds, and takes whatever
\* still runs with it.
Exit ==
    /\ run \in {"stopping", "stopped"}
    /\ run' = "exited" /\ loop' = FALSE
    /\ place' = Nothing.pc /\ fd' = Nothing.fd /\ owner' = Nothing.owner
    /\ fwd' = Nothing.fwd /\ raw' = Nothing.raw
    /\ ended' = {} /\ expired' = {} /\ stray' = {}
    /\ UNCHANGED mode

PeerCloses(c, e) ==
    /\ Alive /\ fd[c][e] # None
    /\ ended' = ended \union {<<c, e>>}
    /\ UNCHANGED <<mode, run, loop, handlers, copying, expired, stray>>

\* ConnectionTimeout after the connection was accepted, whatever was copied since.
\* It is kept where it has an effect: splice does not see it.
Expires(c) ==
    /\ Alive /\ place[c] \in {"dial", "copy"}
    /\ mode[c] = [kind |-> "tunnel", how |-> "buffer"] /\ c \notin expired
    /\ expired' = expired \union {c}
    /\ UNCHANGED <<mode, run, loop, handlers, copying, ended, stray>>

-----------------------------------------------------------------------------
TunnelInit ==
    /\ mode \in Modes
    /\ run = "new" /\ loop = FALSE
    /\ place = Nothing.pc /\ fd = Nothing.fd /\ owner = Nothing.owner
    /\ fwd = Nothing.fwd /\ raw = Nothing.raw
    /\ ended = {} /\ expired = {} /\ stray = {}

Goroutine(c, d) == GetFd(c, d) \/ SpliceFails(c, d) \/ BufferFails(c, d)

HandleConnection(c) == DialTarget(c) \/ DialFails(c) \/ Close(c)

TunnelNext ==
    \/ StartTunnel \/ StartFails \/ AcceptFails
    \/ StopCloses \/ StopReturns \/ Exit
    \/ \E c \in Conn :
          \/ Accept(c) \/ PairBegins(c) \/ HandleConnection(c) \/ Expires(c)
          \/ \E e \in Side : PeerCloses(c, e)
          \/ \E d \in Way :
                Goroutine(c, d) \/ SpliceMoves(c, d) \/ SpliceAgain(c, d) \/ SpliceErrs(c, d)

TunnelSpec == TunnelInit /\ [][TunnelNext]_tunnelVars

\* Goroutines that can run do; a dial succeeds or fails.  Nobody has to send: a Read
\* that does not fail may wait for ever, also where a Write would fail.
TunnelFairSpec ==
    /\ TunnelSpec /\ WF_tunnelVars(AcceptFails) /\ WF_tunnelVars(StopReturns)
    /\ \A c \in Conn :
          /\ WF_tunnelVars(HandleConnection(c))
          /\ \A d \in Way :
                WF_tunnelVars(GetFd(c, d) \/ SpliceFails(c, d) \/ (BufferFails(c, d) /\ ReadEnds(c, d)))

-----------------------------------------------------------------------------
\* Properties

\* Types; the descriptors of open connections and their owners agree, and a
\* handler that has returned has closed both connections, also after a failed
\* dial (tunnel.go:463).
TunnelTypeOK ==
    /\ run \in {"new", "running", "stopping", "stopped", "exited"} /\ loop \in BOOLEAN
    /\ place \in [Conn -> {"idle", "dial", "copy", "done"}]
    /\ fwd \in [Conn -> [Way -> {"off", "getFd", "loop", "paused", "ended"}]]
    /\ raw \in [Conn -> [Way -> (Fd \union {Stdin, None}) \X (Fd \union {Stdin, None})]]
    /\ \A f \in Fd : owner[f] # None =>
          LET c == owner[f][1] IN fd[c][owner[f][2]] = f /\ place[c] # "done"

\* Bytes of one connection reach another only through a goroutine that a handler
\* left behind when it closed its connections (tunnel.go:502), whose descriptor
\* numbers the kernel has given out again (forward_linux.go:92).
StrayOnlyAfterClose == \A s \in stray : place[s[1]] = "done"

\* Stop does not wait for the handlers, but all of them close their connections,
\* also one whose two goroutines are paused (tunnel.go:498).
HandlersClose ==
    \A c \in Conn : mode[c].kind = "tunnel" =>
        ContextDone ~> place[c] \in {"idle", "done"} \/ ~ Alive

\* A goroutine outlives its handler only paused for ever by an EAGAIN, or with a
\* descriptor number that belongs to somebody else (forward_linux.go:103).
LeftBehindOnlyBySplice ==
    \A c \in Conn :
        place[c] = "done" ~> ~ Alive \/ \A d \in Way :
            \/ fwd[c][d] \in {"off", "paused", "ended"}
            \/ fwd[c][d] = "loop" /\ mode[c].how = "splice" /\ HoldsForeign(c, d)

\* HandlePair returns once both peers have closed, unless a goroutine is paused
\* (tunnel.go:576).
PairEnds ==
    \A c \in Conn : mode[c].kind = "pair" =>
        place[c] = "copy" /\ {c} \X Side \subseteq ended ~>
            place[c] = "done" \/ ~ Alive \/ \E d \in Way : fwd[c][d] = "paused"

\* The deadline of ConnectionTimeout ends a connection that is copied with Read
\* and Write; splice on a descriptor does not see it (tunnel.go:457).
DeadlineEndsBuffered ==
    \A c \in Conn : mode[c].how = "buffer" =>
        c \in expired ~> place[c] = "done" \/ ~ Alive

\* Descriptors: closed with their handler, and used by nobody else before.
DescriptorsOwned == TunnelTypeOK /\ StrayOnlyAfterClose

\* A handler ends when the tunnel is stopped, when its peers have closed (a pair)
\* and when its deadline passes (copied with Read and Write), unless paused;
\* it leaves a goroutine behind only in splice.
TunnelHandlersEnd ==
    HandlersClose /\ LeftBehindOnlyBySplice /\ PairEnds /\ DeadlineEndsBuffered

=============================================================================
