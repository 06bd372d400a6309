---------------------------- MODULE TunnelListener ----------------------------
(****************************************************************************)
(* The external listener of a tunnel (quic/quic.go): the goroutine that      *)
(* binds Tunnel.Port and accepts on it, against the closeTunnel calls that   *)
(* shut it and give the port back, and against the tunnel that gets the port *)
(* next.                                                                     *)
(*                                                                           *)
(* startExternalListener serves a "tcp" tunnel: closing its listener unbinds *)
(* the port, and Accept does not watch the context.  startExternalQUICListener *)
(* and startExternalHTTP3Listener serve a "quic" tunnel: Accept does watch   *)
(* the context, and the UDP socket under the listener is closed only by the  *)
(* goroutine itself.  TCP and UDP ports are distinct to the operating system, *)
(* but not to PortManager.                                                   *)
(****************************************************************************)
EXTENDS Integers

CONSTANTS
    Tunnel,
    Net,                \* Net[t]: "tcp" or "quic"
    Closer,             \* goroutines that may call closeTunnel
    PortStart, PortEnd,
    Foreign             \* ports that another program may have bound

Port   == PortStart .. PortEnd
NoPort == 0

\* A legal configuration.
Ports ==
    /\ Net \in [Tunnel -> {"tcp", "quic"}]
    /\ PortStart \in Nat \ {0} /\ PortEnd \in Nat
    /\ Foreign \subseteq Port

ASSUME ListenerAssumption == Ports

VARIABLES
    place,      \* place[t]: the registration of t, then its listener goroutine
    port,       \* Tunnel.Port
    used,       \* PortManager.used
    bound,      \* tunnels whose goroutine has a bound socket
    listening,  \* tunnels whose listener is open
    stored,     \* tunnels whose externalListener (externalQUICListener) is not nil
    serverDone, \* MuxServer.ctx is cancelled
    progress    \* progress[c][t]: how far c is in closeTunnel(t)

sockVars == <<bound, listening, stored>>
listenerVars == <<place, port, used, sockVars, serverDone, progress>>

\* Progress of one closeTunnel(t) call: the last statement executed.
Outside  == 0
Canceled == 1  \* tunnel.cancel()
Shut     == 2  \* the external listener is closed
Released == 3  \* portManager.Release

PCs == {"none", "registered", "start", "bound", "top", "accept", "shut", "clear",
        "unbind", "done"}

ListenerInit ==
    /\ place = [t \in Tunnel |-> "none"]
    /\ port = [t \in Tunnel |-> NoPort]
    /\ used = {} /\ bound = {} /\ listening = {} /\ stored = {}
    /\ serverDone = FALSE
    /\ progress = [c \in Closer |-> [t \in Tunnel |-> Outside]]

ListenerGoto(t, l) == place' = [place EXCEPT ![t] = l]

TunnelCancelled(t) == serverDone \/ \E c \in Closer : progress[c][t] >= Canceled

\* Closing t's listener; only a TCP listener owns its socket.
CloseListener(t) ==
    /\ listening' = listening \ {t}
    /\ bound' = IF Net[t] = "tcp" THEN bound \ {t} ELSE bound

\* t's Accept fails at once.
AcceptFails(t) == t \notin listening \/ (Net[t] = "quic" /\ TunnelCancelled(t))

\* Another tunnel's socket is in the way.
Occupied(t) == \E u \in bound \ {t} : port[u] = port[t] /\ Net[u] = Net[t]

----------------------------------------------------------------------------
(* The handler: the port is allocated, the tunnel stored and acked, and only   *)
(* then is the listener goroutine started.                                     *)

Register(t) ==
    /\ place[t] = "none"
    /\ \E p \in Port \ used :
         /\ \A q \in Port \ used : p <= q
         /\ port' = [port EXCEPT ![t] = p]
         /\ used' = used \cup {p}
    /\ ListenerGoto(t, "registered")
    /\ UNCHANGED <<sockVars, serverDone, progress>>

Start(t) ==
    /\ place[t] = "registered"
    /\ ListenerGoto(t, "start")
    /\ UNCHANGED <<port, used, sockVars, serverDone, progress>>

----------------------------------------------------------------------------
(* The listener goroutine *)

\* A failing Listen is logged and the goroutine returns; the tunnel stays.
\* (quic.Listen, on a bound socket and a TLS configuration the server itself
\* listens with, is taken not to fail.)
Listen(t) ==
    /\ place[t] = "start"
    /\ \/ /\ ~Occupied(t)
          /\ bound' = bound \cup {t} /\ listening' = listening \cup {t}
          /\ ListenerGoto(t, "bound")
       \/ /\ Occupied(t) \/ port[t] \in Foreign
          /\ ListenerGoto(t, "done")
          /\ UNCHANGED <<bound, listening>>
    /\ UNCHANGED <<port, used, stored, serverDone, progress>>

StoreListener(t) ==
    /\ place[t] = "bound"
    /\ stored' = stored \cup {t}
    /\ ListenerGoto(t, "top")
    /\ UNCHANGED <<port, used, bound, listening, serverDone, progress>>

\* Mutant: the context is not checked before Accept.
Top_NoCheck(t) ==
    /\ place[t] = "top"
    /\ ListenerGoto(t, "accept")
    /\ UNCHANGED <<port, used, sockVars, serverDone, progress>>

Top(t) ==
    /\ place[t] = "top"
    /\ ListenerGoto(t, IF TunnelCancelled(t) THEN "shut" ELSE "accept")
    /\ UNCHANGED <<port, used, sockVars, serverDone, progress>>

\* Mutant: any error of Accept is taken for a passing one.
AcceptError_Continue(t) ==
    /\ place[t] = "accept" /\ AcceptFails(t)
    /\ ListenerGoto(t, "accept")
    /\ UNCHANGED <<port, used, sockVars, serverDone, progress>>

\* Accept fails because the listener was closed or the context is done.
AcceptError(t) ==
    /\ place[t] = "accept" /\ AcceptFails(t)
    /\ ListenerGoto(t, "shut")
    /\ UNCHANGED <<port, used, sockVars, serverDone, progress>>

\* A connection is handed to its handler, or a passing error is ignored (unless
\* the context is done).
Accept(t) ==
    /\ place[t] = "accept" /\ t \in listening
    /\ ListenerGoto(t, "top") \/ (TunnelCancelled(t) /\ ListenerGoto(t, "shut"))
    /\ UNCHANGED <<port, used, sockVars, serverDone, progress>>

\* The deferred functions: close the listener, ...
CloseOwn(t) ==
    /\ place[t] = "shut"
    /\ CloseListener(t)
    /\ ListenerGoto(t, "clear")
    /\ UNCHANGED <<port, used, stored, serverDone, progress>>

\* ... forget it, ...
Clear(t) ==
    /\ place[t] = "clear"
    /\ stored' = stored \ {t}
    /\ ListenerGoto(t, IF Net[t] = "tcp" THEN "done" ELSE "unbind")
    /\ UNCHANGED <<port, used, bound, listening, serverDone, progress>>

\* ... and close the UDP socket.
Unbind(t) ==
    /\ place[t] = "unbind"
    /\ bound' = bound \ {t}
    /\ ListenerGoto(t, "done")
    /\ UNCHANGED <<port, used, listening, stored, serverDone, progress>>

----------------------------------------------------------------------------
(* closeTunnel(t), run by c, and Stop's cancel *)

Step(c, t, from) ==
    /\ progress[c][t] = from
    /\ progress' = [progress EXCEPT ![c][t] = from + 1]

\* Mutant: closeTunnel gives the port back before it cancels and shuts anything.
Cancel_ReleasesFirst(c, t) ==
    /\ place[t] # "none"
    /\ progress[c][t] = Outside
    /\ used' = used \ {port[t]}
    /\ progress' = [progress EXCEPT ![c][t] = Canceled]
    /\ UNCHANGED <<place, port, sockVars, serverDone>>

CancelTunnel(c, t) ==
    /\ place[t] # "none"
    /\ Step(c, t, Outside)
    /\ UNCHANGED <<place, port, used, sockVars, serverDone>>

\* Under externalListenerMu: what is not stored yet is not closed.
ShutListener(c, t) ==
    /\ Step(c, t, Canceled)
    /\ IF t \in stored
       THEN CloseListener(t) /\ stored' = stored \ {t}
       ELSE UNCHANGED sockVars
    /\ UNCHANGED <<place, port, used, serverDone>>

Release(c, t) ==
    /\ Step(c, t, Shut)
    /\ used' = used \ {port[t]}
    /\ UNCHANGED <<place, port, sockVars, serverDone>>

StopServer ==
    /\ ~serverDone
    /\ serverDone' = TRUE
    /\ UNCHANGED <<place, port, used, sockVars, progress>>

----------------------------------------------------------------------------
\* Steps that need nothing but the scheduler.
Run(t) == Start(t) \/ Listen(t) \/ StoreListener(t) \/ Top(t) \/ AcceptError(t)
          \/ CloseOwn(t) \/ Clear(t) \/ Unbind(t)

ListenerNext ==
    \/ \E t \in Tunnel : Register(t) \/ Run(t) \/ Accept(t)
    \/ \E c \in Closer, t \in Tunnel : CancelTunnel(c, t) \/ ShutListener(c, t) \/ Release(c, t)
    \/ StopServer

ListenerSpec == ListenerInit /\ [][ListenerNext]_listenerVars

\* Goroutines that can run do run.  No connection need ever arrive, and no tunnel
\* need ever be closed.
ListenerFairness ==
    /\ \A t \in Tunnel : WF_listenerVars(Run(t))
    /\ \A c \in Closer, t \in Tunnel : WF_listenerVars(ShutListener(c, t) \/ Release(c, t))

ListenerFairSpec == ListenerSpec /\ ListenerFairness

----------------------------------------------------------------------------
ListenerTypeOK ==
    /\ place \in [Tunnel -> PCs]
    /\ port \in [Tunnel -> Port \cup {NoPort}]
    /\ used \in SUBSET Port
    /\ bound \in SUBSET Tunnel /\ listening \in SUBSET bound /\ stored \in SUBSET Tunnel
    /\ serverDone \in BOOLEAN
    /\ progress \in [Closer -> [Tunnel -> Outside .. Released]]

HasReleased(c, t) == progress[c][t] = Released

DoublyReleased(p) ==
    \E t \in Tunnel : port[t] = p /\
        \E c, e \in Closer : c # e /\ HasReleased(c, t) /\ HasReleased(e, t)

\* No goroutine is left behind in Accept: once any closeTunnel has shut a tunnel's
\* listener, the goroutine is not blocked on an open one, although the listener
\* may have been stored only after closeTunnel looked for it.
ShutIsLeaving ==
    \A c \in Closer, t \in Tunnel :
        progress[c][t] >= Shut /\ place[t] = "accept" => AcceptFails(t)

\* A port that PortManager takes for free while a socket is still bound to it is
\* one whose tunnel has been closed: its goroutine is on its way to unbind it.
\* (Or closeTunnel has run twice on one tunnel; see MuxServer.)
FreePortIsLeft ==
    \A t \in bound : port[t] \notin used =>
        \/ DoublyReleased(port[t])
        \/ /\ \E c \in Closer : HasReleased(c, t)
           /\ place[t] = "accept" => AcceptFails(t)

\* Closing a tunnel ends its listener goroutine and unbinds its port, without any
\* connection having to arrive.
ClosedListenerEnds ==
    \A c \in Closer, t \in Tunnel :
        progress[c][t] >= Canceled ~> place[t] = "done" /\ t \notin bound
=============================================================================
