------------------------------ MODULE MuxClient ------------------------------
(****************************************************************************)
(* The client of a tunnel (quic/quic.go): connectLoop, which dials the       *)
(* server, registers and waits for a request to reconnect, with the retries  *)
(* of internal/retry; the goroutines each successful connect starts          *)
(* (heartbeatLoop and controlLoop); and Stop.                                *)
(*                                                                           *)
(* Connections are numbered in the order they are dialled.  No goroutine is  *)
(* told which connection it was started for: each reads s.conn or the        *)
(* control stream anew, so that it may serve a later connection.  They are   *)
(* therefore counted by what they are doing, not told apart.  The other      *)
(* two goroutines of a connect, datagramReceiveLoop and acceptQUICDataStreams,*)
(* wait under the context only, so that they never delay Stop; they and the  *)
(* local connections are in ClientConns, the messages in Wire.               *)
(****************************************************************************)
EXTENDS Integers

CONSTANTS
    MaxDials,           \* bound on the connections ever dialled
    MaxReconnectTries,  \* attempts of one retrier.Do, and rounds (0: unlimited)
    Enable0RTT          \* Enable0RTT and a SessionCache are configured

\* A legal configuration.
Limits ==
    /\ MaxDials \in Nat \ {0}
    /\ MaxReconnectTries \in Nat
    /\ Enable0RTT \in BOOLEAN

ASSUME ClientAssumption == Limits

Dial == 1..MaxDials

VARIABLES
    loop,       \* where connectLoop is
    mode,       \* it is in connect0RTT ("early") or in connect ("regular")
    attempt,    \* retrier: attempts of this Do that have failed
    tries,      \* reconnectTries
    known,      \* hasCachedState: tunnelID and publicURL are set
    dials,      \* connections dialled so far
    link,       \* link[c]: "none", "up" or "down"
    conn,       \* s.conn, 0 for nil
    control,    \* the connection of s.controlStream, 0 for nil
    connected,  \* s.connected
    token,      \* reconnectCh: 0 if empty, else the connection whose loss filled it
    hb,         \* heartbeatLoops waiting for a tick
    hbSend,     \* heartbeatLoops that found connected true and are about to send
    ctl,        \* controlLoops at the head of their loop
    readers,    \* readers[c]: controlLoops blocked in Read on the stream of c
    stopAt      \* where Stop is

retryVars == <<mode, attempt, tries, known>>
connVars  == <<dials, link, conn, control>>
goVars    == <<hb, hbSend, ctl, readers>>
clientVars == <<loop, retryVars, connVars, connected, token, goVars, stopAt>>

ClientInit ==
    /\ loop = "top"
    /\ mode = "regular" /\ attempt = 0 /\ tries = 0
    /\ known \in BOOLEAN            \* RestoreFromState may precede Start
    /\ dials = 0 /\ link = [c \in Dial |-> "none"]
    /\ conn = 0 /\ control = 0
    /\ connected = FALSE /\ token = 0
    /\ hb = 0 /\ hbSend = 0 /\ ctl = 0 /\ readers = [c \in Dial |-> 0]
    /\ stopAt = "no"

----------------------------------------------------------------------------
\* s.ctx is done.
ContextDone == stopAt # "no"

Up(c) == c # 0 /\ link[c] = "up"

\* triggerReconnect: a token that does not fit is dropped.
triggerReconnect(c) == token' = IF token = 0 THEN c ELSE token

\* The locals of retrier.Do are gone when it returns.
ReturnDo == mode' = "regular" /\ attempt' = 0

----------------------------------------------------------------------------
(* connectLoop and the retrier *)

\* The head of the loop chooses between 0-RTT and a regular connection.
LoopTop ==
    /\ loop = "top"
    /\ IF ContextDone
       THEN loop' = "done" /\ ReturnDo
       ELSE /\ loop' = "dial" /\ attempt' = 0
            /\ mode' = IF Enable0RTT /\ known THEN "early" ELSE "regular"
    /\ UNCHANGED <<tries, known, connVars, connected, token, goVars, stopAt>>

\* DoWithResult gives up before attempt number n.
NoMoreAttempts(n) == MaxReconnectTries > 0 /\ n >= MaxReconnectTries

\* An attempt has failed; the delay of calculateDelay is over.
Retry ==
    /\ ~NoMoreAttempts(attempt + 1)
    /\ loop' = "dial"
    /\ attempt' = IF MaxReconnectTries > 0 THEN attempt + 1 ELSE 0
    /\ UNCHANGED <<mode, tries>>

\* Mutant: a failed round of 0-RTT attempts starts over.
Fallback_None ==
    /\ NoMoreAttempts(attempt + 1) /\ mode = "early"
    /\ loop' = "dial" /\ attempt' = 0
    /\ UNCHANGED <<mode, tries>>

\* connect0RTT has failed: connectLoop falls back to connect.
Fallback ==
    /\ NoMoreAttempts(attempt + 1) /\ mode = "early"
    /\ loop' = "dial" /\ mode' = "regular" /\ attempt' = 0
    /\ UNCHANGED tries

\* connect has failed: connectLoop starts another round, or gives up.
RoundFailed ==
    /\ NoMoreAttempts(attempt + 1) /\ mode = "regular"
    /\ IF tries >= MaxReconnectTries
       THEN loop' = "done" /\ UNCHANGED tries
       ELSE loop' = "top" /\ tries' = tries + 1
    /\ ReturnDo

\* The end of the context ends the wait between attempts, and every later Do at once.
Backoff ==
    /\ loop = "back"
    /\ \/ ContextDone /\ loop' = "done" /\ ReturnDo /\ UNCHANGED tries
       \/ ~ContextDone /\ (Retry \/ Fallback \/ RoundFailed)
    /\ UNCHANGED <<known, connVars, connected, token, goVars, stopAt>>

----------------------------------------------------------------------------
(* connect and connect0RTT, step by step *)

\* Resolving, listening or dialling fails.
DialFails ==
    /\ loop = "dial"
    /\ loop' = "back"
    /\ UNCHANGED <<retryVars, connVars, connected, token, goVars, stopAt>>

\* The new connection replaces s.conn, which nobody closes.
DialSucceeds ==
    /\ loop = "dial" /\ dials < MaxDials
    /\ dials' = dials + 1
    /\ link' = [link EXCEPT ![dials + 1] = "up"]
    /\ conn' = dials + 1
    /\ loop' = "open"
    /\ UNCHANGED <<retryVars, control, connected, token, goVars, stopAt>>

\* Mutant: the connection is not closed when its stream cannot be opened.
OpenControl_NoClose ==
    /\ loop = "open"
    /\ IF ContextDone \/ ~Up(conn)
       THEN /\ loop' = "back"
            /\ UNCHANGED <<link, control>>
       ELSE control' = conn /\ loop' = "ack" /\ UNCHANGED link
    /\ UNCHANGED <<retryVars, dials, conn, connected, token, goVars, stopAt>>

\* OpenStreamSync fails under a done context; the connection is then closed.
OpenControl ==
    /\ loop = "open"
    /\ IF ContextDone \/ ~Up(conn)
       THEN /\ loop' = "back"
            /\ link' = [link EXCEPT ![conn] = "down"]
            /\ UNCHANGED control
       ELSE control' = conn /\ loop' = "ack" /\ UNCHANGED link
    /\ UNCHANGED <<retryVars, dials, conn, connected, token, goVars, stopAt>>

\* Writing the stream type or the register or restore message, or reading the ack
\* fails: the connection is lost, 0-RTT was rejected, or another message (a config
\* update, one of a restored tunnel) came before the ack.  The connection stays open.
AckFails ==
    /\ loop = "ack"
    /\ loop' = "back"
    /\ UNCHANGED <<retryVars, connVars, connected, token, goVars, stopAt>>

\* The ack carries an error and no public URL, which is stored all the same.
AckRefuses ==
    /\ loop = "ack" /\ Up(control)
    /\ known' = FALSE
    /\ loop' = "back"
    /\ UNCHANGED <<mode, attempt, tries, connVars, connected, token, goVars, stopAt>>

\* Mutant: the control loop is started before the ack is read, and ends with it.
AckAccepts_NoControlLoop ==
    /\ loop = "ack" /\ Up(control)
    /\ known' = TRUE
    /\ hb' = hb + 1
    /\ loop' = "store" /\ ReturnDo
    /\ UNCHANGED <<tries, connVars, connected, token, hbSend, ctl, readers, stopAt>>

\* The ack stores the tunnel ID and URL; the goroutines are started.
AckAccepts ==
    /\ loop = "ack" /\ Up(control)
    /\ known' = TRUE
    /\ hb' = hb + 1 /\ ctl' = ctl + 1
    /\ loop' = "store" /\ ReturnDo
    /\ UNCHANGED <<tries, connVars, connected, token, hbSend, readers, stopAt>>

\* connectLoop: reconnectTries = 0, connected, SaveTunnelState (its result is dropped).
StoreConnected ==
    /\ loop = "store"
    /\ tries' = 0 /\ connected' = TRUE
    /\ loop' = "wait"
    /\ UNCHANGED <<mode, attempt, known, connVars, token, goVars, stopAt>>

\* It waits for the end of the context or for a token.
WaitEnds ==
    /\ loop = "wait"
    /\ \/ ContextDone /\ loop' = "done" /\ UNCHANGED <<connected, token>>
       \/ token # 0 /\ token' = 0 /\ connected' = FALSE /\ loop' = "top"
    /\ UNCHANGED <<retryVars, connVars, goVars, stopAt>>

----------------------------------------------------------------------------
(* heartbeatLoop and sendStreamHeartbeat.  The first tick comes heartbeatInterval
   after connect, when connectLoop has stored connected. *)

HbEnds ==
    /\ hb > 0 /\ loop # "store"
    /\ ContextDone \/ ~connected
    /\ hb' = hb - 1
    /\ UNCHANGED <<loop, retryVars, connVars, connected, token, hbSend, ctl, readers, stopAt>>

HbTick ==
    /\ hb > 0 /\ loop # "store" /\ connected
    /\ hb' = hb - 1 /\ hbSend' = hbSend + 1
    /\ UNCHANGED <<loop, retryVars, connVars, connected, token, ctl, readers, stopAt>>

\* A datagram, or a message on whichever control stream is the current one.
HbSend ==
    /\ hbSend > 0
    /\ hb' = hb + 1 /\ hbSend' = hbSend - 1
    /\ IF Up(control) THEN UNCHANGED token ELSE triggerReconnect(control)
    /\ UNCHANGED <<loop, retryVars, connVars, connected, ctl, readers, stopAt>>

----------------------------------------------------------------------------
(* controlLoop *)

CtlTop ==
    /\ ctl > 0
    /\ ctl' = ctl - 1
    /\ IF ContextDone
       THEN UNCHANGED readers
       ELSE readers' = [readers EXCEPT ![control] = @ + 1]
    /\ UNCHANGED <<loop, retryVars, connVars, connected, token, hb, hbSend, stopAt>>

\* A message is handled; one that does not parse is skipped.
CtlMessage(c) ==
    /\ readers[c] > 0 /\ Up(c)
    /\ readers' = [readers EXCEPT ![c] = @ - 1] /\ ctl' = ctl + 1
    /\ UNCHANGED <<loop, retryVars, connVars, connected, token, hb, hbSend, stopAt>>

\* The stream a loop reads is gone, which need not be the current one; the loop ends.
CtlReadFails(c) ==
    /\ readers[c] > 0 /\ ~Up(c)
    /\ readers' = [readers EXCEPT ![c] = @ - 1]
    /\ IF ContextDone THEN UNCHANGED token ELSE triggerReconnect(c)
    /\ UNCHANGED <<loop, retryVars, connVars, connected, hb, hbSend, ctl, stopAt>>

----------------------------------------------------------------------------
(* Stop, and the network *)

ClientStopCancels ==
    /\ stopAt = "no"
    /\ stopAt' = "close" /\ connected' = FALSE
    /\ UNCHANGED <<loop, retryVars, connVars, token, goVars>>

\* Only the connection in s.conn is closed; the local connections are too.
StopCloses ==
    /\ stopAt = "close"
    /\ stopAt' = "wait"
    /\ link' = IF Up(conn) THEN [link EXCEPT ![conn] = "down"] ELSE link
    /\ UNCHANGED <<loop, retryVars, dials, conn, control, connected, token, goVars>>

\* wg.Wait
ClientStopReturns ==
    /\ stopAt = "wait" /\ loop = "done"
    /\ hb = 0 /\ hbSend = 0 /\ ctl = 0 /\ \A c \in Dial : readers[c] = 0
    /\ stopAt' = "returned"
    /\ UNCHANGED <<loop, retryVars, connVars, connected, token, goVars>>

\* The network or the server ends a connection some goroutine may still use.
Lose(c) ==
    /\ Up(c) /\ (c \in {conn, control} \/ readers[c] > 0)
    /\ link' = [link EXCEPT ![c] = "down"]
    /\ UNCHANGED <<loop, retryVars, dials, conn, control, connected, token, goVars, stopAt>>

----------------------------------------------------------------------------
Connect ==
    \/ DialFails \/ DialSucceeds
    \/ OpenControl
    \/ AckFails \/ AckRefuses \/ AckAccepts
    \/ StoreConnected

ConnectLoop == LoopTop \/ Backoff \/ Connect \/ WaitEnds

Heartbeat == HbEnds \/ HbTick \/ HbSend

ControlLoops == CtlTop \/ \E c \in Dial : CtlMessage(c) \/ CtlReadFails(c)

\* Nothing is left to do once Stop has returned.
ClientTerminated == stopAt = "returned" /\ UNCHANGED clientVars

ClientNext ==
    \/ ConnectLoop \/ Heartbeat \/ ControlLoops
    \/ \E c \in Dial : Lose(c)
    \/ ClientStopCancels \/ StopCloses \/ ClientStopReturns
    \/ ClientTerminated

ClientSpec == ClientInit /\ [][ClientNext]_clientVars

\* The Go scheduler runs every goroutine that can run, and the select of
\* heartbeatLoop does not take the ticker for ever once the context is done.  The
\* server answers every register and restore message it can parse, or the
\* connection ends.  Nothing is assumed about Lose, CtlMessage or the calling of Stop.
ClientFairness ==
    /\ WF_clientVars(ConnectLoop)
    /\ SF_clientVars(HbEnds) /\ WF_clientVars(HbSend)
    /\ WF_clientVars(CtlTop) /\ \A c \in Dial : WF_clientVars(CtlReadFails(c))
    /\ WF_clientVars(StopCloses) /\ WF_clientVars(ClientStopReturns)

ClientFairSpec == ClientSpec /\ ClientFairness

----------------------------------------------------------------------------
(* Properties *)

ClientTypeOK ==
    /\ loop \in {"top", "back", "dial", "open", "ack", "store", "wait", "done"}
    /\ mode \in {"early", "regular"}
    /\ attempt \in 0..MaxReconnectTries /\ tries \in 0..MaxReconnectTries
    /\ known \in BOOLEAN
    /\ dials \in 0..MaxDials /\ conn \in 0..MaxDials /\ control \in 0..MaxDials
    /\ link \in [Dial -> {"none", "up", "down"}]
    /\ connected \in BOOLEAN /\ token \in 0..MaxDials
    /\ hb \in Nat /\ hbSend \in Nat /\ ctl \in Nat
    /\ readers \in [Dial -> Nat]
    /\ stopAt \in {"no", "close", "wait", "returned"}

\* While connectLoop waits, the loss of its connection cannot go unnoticed: a
\* token is in the channel, or a control loop reads that connection's stream or
\* is about to; and some heartbeatLoop keeps the tunnel alive.
NeverDeaf ==
    loop = "wait" /\ ~ContextDone =>
        /\ token # 0 \/ ctl > 0 \/ readers[conn] > 0
        /\ hb + hbSend > 0

\* A reconnect is asked for only when some connection was really lost; it may be
\* an older one than the connection it makes connectLoop give up.
TokenIsOfLost == token # 0 => ~Up(token)

\* A lost connection is given up.
LostIsNoticed == (loop = "wait" /\ ~Up(conn)) ~> loop # "wait"

\* With a bound on the tries, connecting ends: by a connection, at once or after
\* the fallback from 0-RTT, or by giving up.
RoundsEnd == MaxReconnectTries > 0 => (loop = "top" ~> loop \in {"wait", "done"})

\* Control loops blocked on a connection that was replaced while it was up.
Stranded == \E c \in Dial : readers[c] > 0 /\ Up(c) /\ c # conn

\* A reconnect is asked for when a connection was lost, and only then
\* (triggerReconnect, quic.go:3682): the loss of the current connection has
\* somebody to notice it, and no token is there without a loss.
ReconnectIffLost == ClientTypeOK /\ NeverDeaf /\ TokenIsOfLost

\* A lost connection is given up, and what follows ends in another one or in
\* giving up (connectLoop).
Reconnects == LostIsNoticed /\ RoundsEnd

\* Stop returns with the last connection closed, even if it was being dialled
\* while Stop ran, unless some control loop reads a connection that a reconnect
\* abandoned without closing it: wg.Wait then waits for the server to close it
\* (Stop, quic.go:2592).
ClientStopIsClean == stopAt = "close" ~> (stopAt = "returned" /\ ~Up(conn)) \/ Stranded

=============================================================================
