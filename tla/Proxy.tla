------------------------------- MODULE Proxy -------------------------------
(***************************************************************************)
(* The connection router (internal/pgproxy): the accept loop with its two  *)
(* caps, the startup phase, routing, the two relay directions of a         *)
(* session, and the cancel-key map that all sessions share.                *)
(*                                                                         *)
(* A connection is a record of its handler goroutine's locals.  Bytes,     *)
(* TLS and GSS negotiation and refusal messages are left out: they change  *)
(* nothing that the properties tell apart, a failing negotiation being     *)
(* StartupEnds.  Which branch a client asks for and where the registry     *)
(* says it is are an arbitrary address.  Time is which deadline is armed   *)
(* on the two sockets.  An uncapped router is one whose caps are at least  *)
(* the number of connections.                                              *)
(***************************************************************************)
EXTENDS Naturals, FiniteSets, Sequences

CONSTANTS Conns, IPs, Addrs, Keys, Unset, MaxConns, MaxStartupsPerIP

ASSUME ProxyAssumption ==
    /\ MaxConns \in Nat \ {0} /\ MaxStartupsPerIP \in Nat \ {0}
    /\ Unset \notin Conns \cup IPs \cup Addrs \cup Keys

VARIABLES conn,      \* the handler of each connection
          sem,       \* slots of the connection cap in use
          startups,  \* per client IP: connections still in startup
          cancels    \* cancelMap: key -> backend addresses, in order of arrival

proxyVars == <<conn, sem, startups, cancels>>

NewConn == [pc |-> "new", ip |-> Unset, slot |-> FALSE, deadline |-> Unset, addr |-> Unset,
            key |-> Unset, registered |-> FALSE, c2b |-> "off", b2c |-> "off"]

ProxyInit == /\ conn = [c \in Conns |-> NewConn] /\ sem = 0
             /\ startups = [ip \in IPs |-> 0] /\ cancels = [k \in Keys |-> << >>]

\* handleConn has returned; only its deferred calls are left.
Returned(r) == [NewConn EXCEPT !.pc = "end", !.ip = r.ip, !.slot = r.slot]

At(c, pc) == conn[c].pc = pc
Set(c, r) == conn' = [conn EXCEPT ![c] = r]
OnlyConn == UNCHANGED <<sem, startups, cancels>>

-----------------------------------------------------------------------------
(* Serve: one goroutine accepts, so taking a connection slot, finding the    *)
(* address at its startup cap and giving the slot back is one step.          *)

Admit(c, ip) ==
    /\ sem < MaxConns /\ startups[ip] < MaxStartupsPerIP
    /\ sem' = sem + 1 /\ startups' = [startups EXCEPT ![ip] = @ + 1]
    /\ Set(c, [NewConn EXCEPT !.pc = "first", !.ip = ip, !.slot = TRUE, !.deadline = "first"])

Refuse(c, ip) ==
    /\ sem = MaxConns \/ startups[ip] >= MaxStartupsPerIP
    /\ Set(c, [NewConn EXCEPT !.pc = "closed"]) /\ UNCHANGED <<sem, startups>>

Accept(c) == \E ip \in IPs : /\ At(c, "new") /\ UNCHANGED cancels
                             /\ Admit(c, ip) \/ Refuse(c, ip)

-----------------------------------------------------------------------------
(* handleConn and route. *)

FirstByte(c) == /\ At(c, "first") /\ OnlyConn
                /\ Set(c, [conn[c] EXCEPT !.pc = "frame", !.deadline = "startup"])

\* The client closes, says nothing in time, or sends a frame that is none.
readStartupFrame(c) == At(c, "frame") /\ OnlyConn /\ Set(c, Returned(conn[c]))

StartupEnds(c) == \/ At(c, "first") /\ OnlyConn /\ Set(c, Returned(conn[c]))
                  \/ readStartupFrame(c)

\* ResolveBranch: a ready branch's recorded address, or an error.
ResolveBranch(c) == Addrs \cup {Unset}

\* A StartupMessage: refused, or on to the branch's address.
Route(c) == /\ At(c, "frame") /\ OnlyConn
            /\ \E addr \in ResolveBranch(c) :
                 Set(c, IF addr = Unset THEN Returned(conn[c])
                        ELSE [conn[c] EXCEPT !.pc = "dial", !.addr = addr, !.deadline = "auth"])

Relaying(r) == [r EXCEPT !.pc = "relay", !.c2b = "copy", !.b2c = "startup"]

Dial(c) == /\ At(c, "dial") /\ OnlyConn
           /\ \/ Set(c, Relaying(conn[c]))
              \/ Set(c, [conn[c] EXCEPT !.pc = "redial"])

\* RefreshBranchEndpoint: the address recorded, the one found, or an error.
RefreshBranchEndpoint(c) == Addrs \cup {Unset}

\* After a failed dial the runtime is asked once; the session is recorded where
\* it was dialled.
redial(c) == /\ At(c, "redial") /\ OnlyConn
             /\ \/ \E moved \in RefreshBranchEndpoint(c) \ {conn[c].addr, Unset} :
                     Set(c, Relaying([conn[c] EXCEPT !.addr = moved]))
                \/ Set(c, Returned(conn[c]))

-----------------------------------------------------------------------------
(* cancelMap. *)

add(key, addr) == cancels' = [cancels EXCEPT ![key] = Append(@, addr)]

\* remove, forgetting every session that holds the key.
removeAll(key, addr) == cancels' = [cancels EXCEPT ![key] = << >>]

\* remove's loop: the first entry that is the address is cut out.
WithoutFirst(s, addr) ==
    IF \A i \in DOMAIN s : s[i] # addr THEN s
    ELSE LET first == CHOOSE i \in DOMAIN s : s[i] = addr /\ \A j \in 1..i - 1 : s[j] # addr
         IN SubSeq(s, 1, first - 1) \o SubSeq(s, first + 1, Len(s))

remove(key, addr) == cancels' = [cancels EXCEPT ![key] = WithoutFirst(@, addr)]

\* lookup, answering with the oldest holder when there are several.
lookupAny(key) == IF cancels[key] # << >> THEN cancels[key][1] ELSE Unset

lookup(key) == IF Len(cancels[key]) = 1 THEN cancels[key][1] ELSE Unset

\* A client sends a key, its own session's or one that no longer means anything,
\* on a connection of its own.  Unknown and ambiguous keys are dropped.
CancelRequest(c) ==
    /\ At(c, "frame") /\ OnlyConn
    /\ \E key \in Keys :
        \/ lookup(key) = Unset /\ Set(c, Returned(conn[c]))
        \/ /\ lookup(key) # Unset
           /\ Set(c, [conn[c] EXCEPT !.pc = "cancel", !.key = key, !.addr = lookup(key)])

\* The exchange with the backend, bounded by DialTimeout.
Forwarded(c) == At(c, "cancel") /\ OnlyConn /\ Set(c, Returned(conn[c]))

-----------------------------------------------------------------------------
(* relay: two goroutines per session. *)

\* BackendKeyData: an earlier key of the session is dropped first.
DropKey(c, key) ==
    /\ conn[c].registered /\ remove(conn[c].key, conn[c].addr)
    /\ Set(c, [conn[c] EXCEPT !.b2c = "rekey", !.key = key, !.registered = FALSE])

AddKey(c, key) ==
    /\ ~conn[c].registered /\ add(key, conn[c].addr)
    /\ Set(c, [conn[c] EXCEPT !.b2c = "startup", !.key = key, !.registered = TRUE])

registerCancelKey(c) ==
    /\ UNCHANGED <<sem, startups>>
    /\ \/ At(c, "relay") /\ conn[c].b2c = "startup"
          /\ \E key \in Keys : DropKey(c, key) \/ AddKey(c, key)
       \/ conn[c].b2c = "rekey" /\ AddKey(c, conn[c].key)

Release(c) == startups' = IF conn[c].slot THEN [startups EXCEPT ![conn[c].ip] = @ - 1]
                          ELSE startups

\* Release without sync.Once: the connection's end releases a second time.
ReleaseTwice(c) == startups' = [startups EXCEPT ![conn[c].ip] = IF @ = 0 THEN 0 ELSE @ - 1]

startupDone(c) == Release(c)

\* ReadyForQuery: idle deadlines from now on, and the startup slot goes back.
markReady(c) ==
    /\ At(c, "relay") /\ conn[c].b2c = "startup" /\ startupDone(c) /\ UNCHANGED <<sem, cancels>>
    /\ Set(c, [conn[c] EXCEPT !.b2c = "copy", !.slot = FALSE, !.deadline = "idle"])

\* idleReader bumping whether or not the session has authenticated.
ReadAlwaysBumps(c) ==
    /\ At(c, "relay") /\ conn[c].c2b = "copy" /\ OnlyConn
    /\ Set(c, [conn[c] EXCEPT !.deadline = "idle"])

\* Bytes from the client: they push the deadlines only once authenticated.
Read(c) ==
    /\ At(c, "relay") /\ conn[c].c2b = "copy" /\ OnlyConn
    /\ Set(c, [conn[c] EXCEPT !.deadline = IF conn[c].b2c = "copy" THEN "idle" ELSE @])

\* A direction ends: its peer closed, a deadline passed, or the grace timer that
\* the other direction's end started has closed both sockets.
copyClientToBackend(c) == /\ At(c, "relay") /\ conn[c].c2b = "copy" /\ OnlyConn
                          /\ Set(c, [conn[c] EXCEPT !.c2b = "done"])

copyBackendToClient(c) == /\ At(c, "relay") /\ conn[c].b2c \in {"startup", "copy"} /\ OnlyConn
                          /\ Set(c, [conn[c] EXCEPT !.b2c = "done"])

\* The grace timer, started by the backend's end only.
GraceAfterBackend(c) == conn[c].b2c = "done"

GraceRuns(c) == conn[c].c2b = "done" \/ conn[c].b2c = "done"

\* Both directions are done: forget the key and return.
RelayEnds(c) ==
    /\ At(c, "relay") /\ conn[c].c2b = "done" /\ conn[c].b2c = "done"
    /\ IF conn[c].registered THEN remove(conn[c].key, conn[c].addr) ELSE UNCHANGED cancels
    /\ Set(c, Returned(conn[c])) /\ UNCHANGED <<sem, startups>>

\* The handler's deferred calls: the startup slot, then the connection slot.
GiveStartup(c) == /\ At(c, "end") /\ startupDone(c) /\ UNCHANGED <<sem, cancels>>
                  /\ Set(c, [conn[c] EXCEPT !.pc = "done", !.slot = FALSE])

GiveSlot(c) == /\ At(c, "done") /\ sem' = sem - 1 /\ UNCHANGED <<startups, cancels>>
               /\ Set(c, [NewConn EXCEPT !.pc = "closed"])

-----------------------------------------------------------------------------

ProxyNext == \E c \in Conns :
    \/ Accept(c) \/ FirstByte(c) \/ StartupEnds(c) \/ Route(c) \/ Dial(c) \/ redial(c)
    \/ CancelRequest(c) \/ Forwarded(c) \/ registerCancelKey(c) \/ markReady(c) \/ Read(c)
    \/ copyClientToBackend(c) \/ copyBackendToClient(c) \/ RelayEnds(c)
    \/ GiveStartup(c) \/ GiveSlot(c)

\* A deadline other than the idle one passes whatever the peers do, and so does
\* the grace timer; after that every read fails, so a backend that keeps sending
\* keys does not postpone the end (strong fairness).  Everything else the handler
\* does by itself.  No peer has to close, speak or stay silent.
Timed(c) == conn[c].deadline \in {"startup", "auth"} \/ GraceRuns(c)

ProxyFairness == \A c \in Conns :
    /\ WF_proxyVars(StartupEnds(c))
    /\ WF_proxyVars(Dial(c)) /\ WF_proxyVars(redial(c)) /\ WF_proxyVars(Forwarded(c))
    /\ WF_proxyVars(conn[c].b2c = "rekey" /\ registerCancelKey(c))
    /\ WF_proxyVars(Timed(c) /\ copyClientToBackend(c))
    /\ SF_proxyVars(Timed(c) /\ copyBackendToClient(c))
    /\ WF_proxyVars(RelayEnds(c)) /\ WF_proxyVars(GiveStartup(c)) /\ WF_proxyVars(GiveSlot(c))

ProxySpec == ProxyInit /\ [][ProxyNext]_proxyVars /\ ProxyFairness

-----------------------------------------------------------------------------
(* Properties. *)

Handled == {c \in Conns : conn[c].pc \notin {"new", "closed"}}
InStartup(ip) == {c \in Handled : conn[c].ip = ip /\ conn[c].slot}
Holders(key, addr) == {c \in Conns : /\ conn[c].registered
                                     /\ conn[c].key = key /\ conn[c].addr = addr}

\* acquireStartupSlot's release runs both at ReadyForQuery and at the end of the
\* connection: an address's count is nevertheless exactly its connections that
\* have not authenticated, and both counts stay within their caps, in every
\* interleaving of accepts, ready sessions and ends.
SlotsExact ==
    /\ sem = Cardinality(Handled) /\ sem <= MaxConns
    /\ \A ip \in IPs : /\ startups[ip] = Cardinality(InStartup(ip))
                       /\ startups[ip] <= MaxStartupsPerIP

\* cancelMap: "Entries are added when the backend sends BackendKeyData and removed
\* when the session ends".  Under every key stands one entry for each live
\* session that holds it, also when two branches hand out the same key, a session
\* is handed a second key, or a session moved by redial.
CancelMapExact ==
    \A key \in Keys, addr \in Addrs :
        Cardinality({i \in DOMAIN cancels[key] : cancels[key][i] = addr})
            = Cardinality(Holders(key, addr))

\* "cancelling another client's query is worse than not cancelling": when a cancel
\* is forwarded, every live session that holds its key is behind the address it
\* goes to, so it cannot reach a session of another branch while the sender's own
\* session is live.
CancelsOwnOnly ==
    [][\A c, o \in Conns :
          /\ conn[c].pc = "frame" /\ conn'[c].pc = "cancel"
          /\ conn[o].registered /\ conn[o].key = conn'[c].key
          => conn[o].addr = conn'[c].addr]_proxyVars

\* A client that never authenticates (silent, dribbling bytes, or stuck in the
\* authentication exchange) does not keep its address's startup slot.
StartupSlotReturns == \A c \in Conns : conn[c].slot ~> ~conn[c].slot

\* Once one direction of a session has ended its connection slot comes back,
\* even if the other peer neither closes nor falls silent.
HalfClosedEnds == \A c \in Conns :
    (At(c, "relay") /\ "done" \in {conn[c].c2b, conn[c].b2c}) ~> At(c, "closed")
=============================================================================
