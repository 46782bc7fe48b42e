------------------------------ MODULE Deadlines ------------------------------
(***************************************************************************)
(* The deadline cache of Conn (src/zlib/conn.go): SetDeadline,            *)
(* SetReadDeadline and SetWriteDeadline record the deadline in the Conn    *)
(* and set it on the conn in use; TLSHandshake makes a new TLS conn and   *)
(* sets the cached deadlines on it before the handshake runs.             *)
(*                                                                         *)
(* The TLS conn's deadlines are kept as its own state: what ztls does     *)
(* with them (it passes them to the socket) is outside this repository,   *)
(* and the code reapplies them so as not to depend on it.  A new TLS conn *)
(* starts with no deadline.                                                *)
(***************************************************************************)
CONSTANTS
    Times   \* deadline values; NoDeadline (time.Time{}) is one of them

NoDeadline == "zero"

ASSUME NoDeadline \in Times

VARIABLES
    isTls,          \* Conn.isTls
    closed,         \* the socket has been closed
    readDeadline,   \* Conn.readDeadline (the cache)
    writeDeadline,  \* Conn.writeDeadline
    raw,            \* the socket's deadlines [read, write]
    tls,            \* the TLS conn's deadlines [read, write], or None
    requested       \* the deadlines the caller last asked for [read, write]

None == [absent |-> TRUE]

vars == <<isTls, closed, readDeadline, writeDeadline, raw, tls, requested>>

Deadline(r, w) == [read |-> r, write |-> w]

\* SetReadDeadline/SetWriteDeadline on the conn getUnderlyingConn returns;
\* a closed socket (and a TLS conn over it) refuses it.
Apply(r, w) ==
    IF closed THEN UNCHANGED <<raw, tls>>
    ELSE IF isTls THEN /\ tls' = Deadline(r, w) /\ UNCHANGED raw
    ELSE /\ raw' = Deadline(r, w) /\ UNCHANGED tls

Init ==
    /\ isTls = FALSE
    /\ closed = FALSE
    /\ readDeadline = NoDeadline
    /\ writeDeadline = NoDeadline
    /\ raw = Deadline(NoDeadline, NoDeadline)
    /\ tls = None
    /\ requested = Deadline(NoDeadline, NoDeadline)

SetDeadline(t) ==
    /\ readDeadline' = t
    /\ writeDeadline' = t
    /\ Apply(t, t)

SetReadDeadline(t) ==
    /\ readDeadline' = t
    /\ UNCHANGED writeDeadline
    /\ Apply(t, IF isTls THEN tls.write ELSE raw.write)

SetWriteDeadline(t) ==
    /\ writeDeadline' = t
    /\ UNCHANGED readDeadline
    /\ Apply(IF isTls THEN tls.read ELSE raw.read, t)

\* A call of one of the three setters, with the caller's intent recorded.
SetDeadlines ==
    \E t \in Times :
       /\ \/ SetDeadline(t) /\ requested' = Deadline(t, t)
          \/ SetReadDeadline(t) /\ requested' = [requested EXCEPT !.read = t]
          \/ SetWriteDeadline(t) /\ requested' = [requested EXCEPT !.write = t]
       /\ UNCHANGED <<isTls, closed>>

\* Mutant of Reapply: the two cached deadlines set the other way round.
ReapplySwapped == Deadline(writeDeadline, readDeadline)

\* c.tlsConn.SetReadDeadline(c.readDeadline); SetWriteDeadline(c.writeDeadline).
Reapply == Deadline(readDeadline, writeDeadline)

\* TLSHandshake: refused after the upgrade; else a new TLS conn over the
\* socket, the cached deadlines set on it, isTls, and the handshake.
TLSHandshake ==
    /\ ~isTls
    /\ tls' = IF closed THEN Deadline(NoDeadline, NoDeadline) ELSE Reapply
    /\ isTls' = TRUE
    /\ UNCHANGED <<closed, readDeadline, writeDeadline, raw, requested>>

Close ==
    /\ closed' = TRUE
    /\ UNCHANGED <<isTls, readDeadline, writeDeadline, raw, tls, requested>>

Next == SetDeadlines \/ TLSHandshake \/ Close

Spec == Init /\ [][Next]_vars

-----------------------------------------------------------------------------
(* Properties.                                                              *)

\* Spec 6 (scheduling): deadlines carry over the plaintext-to-TLS
\* transition.  While the socket is open, the conn every blocking call uses
\* (getUnderlyingConn) has the deadlines the caller last asked for, however
\* the three setters were mixed before and after TLSHandshake (the state
\* right after TLSHandshake is the one the handshake itself runs under).
DeadlinesCarryOver ==
    ~closed => (IF isTls THEN tls ELSE raw) = requested

=============================================================================
