----------------------------- MODULE ConnUpgrade -----------------------------
(***************************************************************************)
(* What the connection upgrade promises (spec.md 4.4): a Conn starts      *)
(* Plain; a STARTTLS negotiation that fails leaves it Plain; the upgrade   *)
(* happens once, directly, after an FTPS readiness check, or after a       *)
(* STARTTLS reply that accepted it; the handshake log is attached whatever *)
(* the outcome and never changes afterwards.  Established and Failed are   *)
(* the two ends of the one handshake; every later upgrade attempt is       *)
(* refused without effect.                                                 *)
(***************************************************************************)
CONSTANTS
    Replies,       \* STARTTLS replies a server may send
    Logs,          \* handshake logs: records with a via and log.finished
    Accepts(_, _)  \* Accepts(via, reply): the reply agrees to the upgrade

StartTLSVias == {"smtp", "pop3", "imap"}

None == [absent |-> TRUE]

VARIABLES
    state,   \* "Plain", "Established" or "Failed"
    log,     \* the handshake log attached to the result, or None
    reply    \* the STARTTLS reply recorded in the result, or None

vars == <<state, log, reply>>

Init ==
    /\ state = "Plain"
    /\ log = None
    /\ reply = None

\* A STARTTLS negotiation that does not lead to the handshake: the command
\* was not sent, or a reply (any reply: refused, short, or cut off by a read
\* error) was recorded.
NegotiationFails ==
    /\ state = "Plain"
    /\ reply' \in Replies \cup {reply}
    /\ UNCHANGED <<state, log>>

\* The one TLS handshake, started by the call via.
Upgrade(via) ==
    /\ state = "Plain"
    /\ IF via \in StartTLSVias
       THEN reply' \in {r \in Replies : Accepts(via, r)}
       ELSE reply' = reply
    /\ \E l \in Logs :
         /\ l.via = via
         /\ log' = l
         /\ state' = IF l.log.finished THEN "Established" ELSE "Failed"

Next == NegotiationFails \/ \E via \in StartTLSVias \cup {"direct", "ftp"} : Upgrade(via)

Spec == Init /\ [][Next]_vars

=============================================================================
