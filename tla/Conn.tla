------------------------------- MODULE Conn -------------------------------
(***************************************************************************)
(* The connection upgrade state machine of zlib.Conn (src/zlib/conn.go):  *)
(* one scan connection driven by a caller through a sequence of calls:    *)
(* cipher-policy setters, STARTTLS negotiations (SMTP, POP3, IMAP), the   *)
(* FTPS upgrade, the TLS handshake, the Heartbleed probe, SSH and the      *)
(* pass-through reads and writes, and Close.                              *)
(*                                                                         *)
(* The peer and the ztls engine are the environment: every read returns   *)
(* a reply from Replies with or without an error, and a handshake ends in *)
(* one of HandshakeRuns.  Each caller call is one atomic step: the code   *)
(* runs a call to completion on one goroutine.                            *)
(***************************************************************************)
EXTENDS Integers, Sequences, SequencesExt, FiniteSets

CONSTANTS
    UsedFlags,     \* the boolean setters the caller may call
    CAPools,       \* the CA pools the caller may pass (None for nil)
    ListSuites,    \* suite list name -> the suites it contains
    Implemented,   \* the suites ztls can complete a handshake with
    Replies,       \* replies a server may send to a STARTTLS command
    Domains,       \* the target domains the caller may set ("" included)
    LocationHosts  \* hosts a followed HTTP redirect may leave in c.domain

\* Mutant of PolicyChecks: the Safari checks made first.
PolicyChecksSafariFirst ==
    << [flag |-> "safariCiphers",       list |-> "SafariCiphers",       force |-> TRUE],
       [flag |-> "safariNoDHECiphers",  list |-> "SafariNoDHECiphers",  force |-> TRUE],
       [flag |-> "onlyDHE",             list |-> "DHECiphers",          force |-> FALSE],
       [flag |-> "onlyExports",         list |-> "RSA512ExportCiphers", force |-> FALSE],
       [flag |-> "onlyExportsDH",       list |-> "DHEExportCiphers",    force |-> FALSE],
       [flag |-> "chromeCiphers",       list |-> "ChromeCiphers",       force |-> FALSE],
       [flag |-> "chromeNoDHE",         list |-> "ChromeNoDHECiphers",  force |-> FALSE],
       [flag |-> "firefoxCiphers",      list |-> "FirefoxCiphers",      force |-> FALSE],
       [flag |-> "firefoxNoDHECiphers", list |-> "FirefoxNoDHECiphers", force |-> FALSE] >>

\* The policy checks of TLSHandshake, in the order the code makes them:
\* a set flag assigns its list (and, for Safari, ForceSuites).
PolicyChecks ==
    << [flag |-> "onlyDHE",             list |-> "DHECiphers",          force |-> FALSE],
       [flag |-> "onlyExports",         list |-> "RSA512ExportCiphers", force |-> FALSE],
       [flag |-> "onlyExportsDH",       list |-> "DHEExportCiphers",    force |-> FALSE],
       [flag |-> "chromeCiphers",       list |-> "ChromeCiphers",       force |-> FALSE],
       [flag |-> "chromeNoDHE",         list |-> "ChromeNoDHECiphers",  force |-> FALSE],
       [flag |-> "firefoxCiphers",      list |-> "FirefoxCiphers",      force |-> FALSE],
       [flag |-> "firefoxNoDHECiphers", list |-> "FirefoxNoDHECiphers", force |-> FALSE],
       [flag |-> "safariCiphers",       list |-> "SafariCiphers",       force |-> TRUE],
       [flag |-> "safariNoDHECiphers",  list |-> "SafariNoDHECiphers",  force |-> TRUE] >>

Flags == {PolicyChecks[i].flag : i \in DOMAIN PolicyChecks}

\* The lists the code selects from, and ztls's default when none is set.
Lists == {PolicyChecks[i].list : i \in DOMAIN PolicyChecks} \cup {"default"}

\* The booleans of Conn a setter turns on: the policy flags and
\* extendedRandom.
BoolFlags == Flags \cup {"extendedRandom"}

ASSUME /\ UsedFlags \subseteq BoolFlags
       /\ DOMAIN ListSuites = Lists
       /\ "" \in Domains
       /\ \A r \in Replies : r \in [text : STRING, n : Nat, numeric : BOOLEAN, code : Int,
                                    plus : BOOLEAN, tagOK : BOOLEAN,
                                    smtpEnd : BOOLEAN, crlf : BOOLEAN]

None == [absent |-> TRUE]

\* The handshake log of a handshake that failed before the ServerHello.
NoHello == "noHello"

\* The ways a conn call returns: nil or the error it reports.
Results == {"ok", "errIO", "errRepeatHandshake", "errStartTLSAfterTLS",
            "errNoSTARTTLS", "errBadCode", "errHandshake", "errUnimplementedCipher",
            "errNoHandshake"}

VARIABLES
    flags,           \* the cipher-policy booleans of Conn that are set
    isTls,           \* Conn.isTls
    hs,              \* the ztls conn's handshake: "none", "ok" or "failed"
    closed,          \* the socket has been closed
    grabStartTLS,    \* grabData.StartTLS: None or the reply read
    replyErr,        \* whether the read of that reply returned an error
                     \* (history: the code returns the error, keeps none)
    grabTLS,         \* grabData.TLSHandshake with the config it was made with
                     \* and the call that started it (via)
    grabHeartbleed,  \* grabData.Heartbleed: None or the probe's result
    grabIO,          \* the conn the last read or write recorded in grabData used
    ret,             \* what the last call returned
    panicked,        \* a call panicked (a Go runtime error)
    domain,          \* Conn.domain
    noSNI,           \* Conn.noSNI
    target,          \* the domain the caller last passed to SetDomain
                     \* (auxiliary: the code keeps no copy of it)
    caPool           \* Conn.caPool

scanVars == <<domain, noSNI, target, caPool>>

vars == <<flags, isTls, hs, closed, grabStartTLS, replyErr, grabTLS, grabHeartbleed, grabIO, ret,
          panicked, domain, noSNI, target, caPool>>

-----------------------------------------------------------------------------
(* The environment: what the server and ztls do.                            *)

\* The suites ztls offers for a config: the list itself when ForceSuites is
\* set, otherwise only those it implements.
Offered(cfg) ==
    IF cfg.force THEN ListSuites[cfg.suites] ELSE ListSuites[cfg.suites] \cap Implemented

\* The ways ztls's Handshake can end, with the log it leaves: completed; the
\* server chose a suite ztls cannot complete (ErrUnimplementedCipher, after
\* the ServerHello); or an I/O or protocol error before or after the hello.
HandshakeRuns(cfg) ==
    IF closed THEN {[err |-> "errHandshake", hello |-> NoHello, finished |-> FALSE]}
    ELSE {[err |-> "ok", hello |-> s, finished |-> TRUE] : s \in Offered(cfg) \cap Implemented}
         \cup {[err |-> "errUnimplementedCipher", hello |-> s, finished |-> FALSE] :
                 s \in Offered(cfg) \ Implemented}
         \cup {[err |-> "errHandshake", hello |-> h, finished |-> FALSE] :
                 h \in {NoHello} \cup (Offered(cfg) \cap Implemented)}

-----------------------------------------------------------------------------
(* Conn.                                                                    *)

\* Mutant of UnderlyingConn: c.tlsConn returned whatever isTls says, a nil
\* conn before the upgrade.
UnderlyingConnTLSField == IF isTls THEN "tls" ELSE "nil"

\* getUnderlyingConn.
UnderlyingConn == IF isTls THEN "tls" ELSE "raw"

\* The suite list and ForceSuites TLSHandshake builds from the flags.
SelectPolicy(acc, chk) ==
    IF chk.flag \in flags
    THEN [suites |-> chk.list, force |-> acc.force \/ chk.force]
    ELSE acc

\* tlsConfig.ServerName: c.domain unless SNI is off or the domain is empty
\* (the empty ServerName sends no SNI).
ServerName == IF ~noSNI /\ domain # "" THEN domain ELSE ""

\* The tlsConfig TLSHandshake builds: RootCAs, SNI, the flag checks in
\* order, then ExtendedRandom.
TLSConfig ==
    LET policy == FoldLeft(SelectPolicy, [suites |-> "default", force |-> FALSE], PolicyChecks)
    IN  [suites |-> policy.suites, force |-> policy.force, sni |-> ServerName,
         rootCAs |-> caPool, extendedRandom |-> "extendedRandom" \in flags]

\* Mutant of TLSHandshake: no repeat-handshake guard.
TLSHandshakeNoGuard(via) ==
    \E run \in HandshakeRuns(TLSConfig) :
        /\ isTls' = TRUE
        /\ hs' = IF run.err = "ok" THEN "ok" ELSE "failed"
        /\ grabTLS' = [config |-> TLSConfig, via |-> via,
                       log |-> [hello |-> run.hello, finished |-> run.finished]]
        /\ ret' = IF TLSConfig.force /\ run.err = "errUnimplementedCipher"
                  THEN "ok" ELSE run.err

\* Mutant of TLSHandshake: an early return on error before the log is
\* attached.
TLSHandshakeLogOnSuccess(via) ==
    IF isTls
    THEN /\ ret' = "errRepeatHandshake"
         /\ UNCHANGED <<isTls, hs, grabTLS>>
    ELSE \E run \in HandshakeRuns(TLSConfig) :
            /\ isTls' = TRUE
            /\ hs' = IF run.err = "ok" THEN "ok" ELSE "failed"
            /\ ret' = IF TLSConfig.force /\ run.err = "errUnimplementedCipher"
                      THEN "ok" ELSE run.err
            /\ grabTLS' = IF ret' = "ok"
                          THEN [config |-> TLSConfig, via |-> via,
                                log |-> [hello |-> run.hello, finished |-> run.finished]]
                          ELSE grabTLS

\* TLSHandshake, started by the call via.  ztls.Client wraps the socket and
\* isTls is set before the handshake runs; the log is attached whatever the
\* outcome, and ErrUnimplementedCipher is no error when suites are forced.
TLSHandshake(via) ==
    IF isTls
    THEN /\ ret' = "errRepeatHandshake"
         /\ UNCHANGED <<isTls, hs, grabTLS>>
    ELSE \E run \in HandshakeRuns(TLSConfig) :
            /\ isTls' = TRUE
            /\ hs' = IF run.err = "ok" THEN "ok" ELSE "failed"
            /\ grabTLS' = [config |-> TLSConfig, via |-> via,
                           log |-> [hello |-> run.hello, finished |-> run.finished]]
            /\ ret' = IF TLSConfig.force /\ run.err = "errUnimplementedCipher"
                      THEN "ok" ELSE run.err

\* The result of an I/O call on the socket.
IOResult(ok) == IF closed \/ ~ok THEN "errIO" ELSE "ok"

\* sendStartTLSCommand: refuse after the upgrade, else write the command
\* on the raw socket and return the write's error (wok: the write
\* succeeded).  TRUE when the command was sent.
StartTLSSent(wok) == ~isTls /\ ~closed /\ wok

StartTLSNotSent ==
    /\ ret' = IF isTls THEN "errStartTLSAfterTLS" ELSE "errIO"
    /\ UNCHANGED <<isTls, hs, grabStartTLS, replyErr, grabTLS>>

\* smtpEndRegex, pop3EndRegex, imapStatusEndRegex: the reply is complete.
\* The POP3 and IMAP expressions both come down to a final CRLF.
Complete(via, r) == IF via = "smtp" THEN r.smtpEnd ELSE r.crlf

\* What util.ReadUntilRegex (outside this repository) can return: it
\* returns without an error only once the expression matches; a read
\* error, a timeout or a full buffer returns whatever was read, complete
\* or not, with an error.
ReadResults(via) ==
    {rd \in [reply : Replies, err : BOOLEAN] : rd.err \/ Complete(via, rd.reply)}

\* SMTPStartTLSHandshake's check of the reply: fewer than 5 bytes is a
\* refusal, then a read error, then the 3-digit code parsed from
\* c.grabData.StartTLS[0:3] must be 2xx.  The n < 5 test comes first, so
\* the slice is always in bounds.
SMTPCodeCheck(r) ==
    IF ~r.numeric \/ r.code < 200 \/ r.code >= 300 THEN "errBadCode" ELSE "ok"

SMTPReplyError(r, rerr) ==
    IF r.n < 5 THEN "errNoSTARTTLS"
    ELSE IF rerr THEN "errIO"
    ELSE SMTPCodeCheck(r)

\* Mutant of POP3ReplyError: the reply checked whether or not the read
\* failed (the err == nil test dropped).
POP3ReplyErrorIgnoresReadError(r, rerr) == IF r.plus THEN "ok" ELSE "errNoSTARTTLS"

\* POP3 and IMAP: a read error, else the reply must start with "+" or "a001 OK".
POP3ReplyError(r, rerr) == IF rerr THEN "errIO" ELSE IF r.plus THEN "ok" ELSE "errNoSTARTTLS"
IMAPReplyError(r, rerr) == IF rerr THEN "errIO" ELSE IF r.tagOK THEN "ok" ELSE "errNoSTARTTLS"

\* A STARTTLS negotiation: send, read the reply into grabData.StartTLS,
\* check it, and on success run TLSHandshake.
Negotiate(via, err) ==
    IF err = "ok" THEN TLSHandshake(via)
    ELSE /\ ret' = err
         /\ UNCHANGED <<isTls, hs, grabTLS>>

SMTPStartTLSHandshake ==
    /\ ~panicked
    /\ UNCHANGED <<flags, closed, grabHeartbleed, grabIO, panicked>>
    /\ \E wok \in BOOLEAN :
          IF ~StartTLSSent(wok) THEN StartTLSNotSent
          ELSE \E rd \in ReadResults("smtp") :
               /\ grabStartTLS' = rd.reply
               /\ replyErr' = rd.err
               /\ Negotiate("smtp", SMTPReplyError(rd.reply, rd.err))

POP3StartTLSHandshake ==
    /\ ~panicked
    /\ UNCHANGED <<flags, closed, grabHeartbleed, grabIO, panicked>>
    /\ \E wok \in BOOLEAN :
          IF ~StartTLSSent(wok) THEN StartTLSNotSent
          ELSE \E rd \in ReadResults("pop3") :
               /\ grabStartTLS' = rd.reply
               /\ replyErr' = rd.err
               /\ Negotiate("pop3", POP3ReplyError(rd.reply, rd.err))

IMAPStartTLSHandshake ==
    /\ ~panicked
    /\ UNCHANGED <<flags, closed, grabHeartbleed, grabIO, panicked>>
    /\ \E wok \in BOOLEAN :
          IF ~StartTLSSent(wok) THEN StartTLSNotSent
          ELSE \E rd \in ReadResults("imap") :
               /\ grabStartTLS' = rd.reply
               /\ replyErr' = rd.err
               /\ Negotiate("imap", IMAPReplyError(rd.reply, rd.err))

\* Conn.TLSHandshake called directly by the caller.
DirectTLSHandshake ==
    /\ ~panicked
    /\ TLSHandshake("direct")
    /\ UNCHANGED <<flags, closed, grabStartTLS, replyErr, grabHeartbleed, grabIO, panicked>>

\* GetFTPSCertificates: ftp.SetupFTPS (outside this repository) talks over
\* the underlying conn and answers (ready, err); when ready, TLSHandshake.
GetFTPSCertificates ==
    /\ ~panicked
    /\ \E ready, ok \in BOOLEAN :
          IF IOResult(ok) # "ok"
          THEN /\ ret' = "errIO"
               /\ UNCHANGED <<isTls, hs, grabTLS>>
          ELSE IF ready THEN TLSHandshake("ftp")
          ELSE /\ ret' = "ok"
               /\ UNCHANGED <<isTls, hs, grabTLS>>
    /\ UNCHANGED <<flags, closed, grabStartTLS, replyErr, grabHeartbleed, grabIO, panicked>>

\* CheckHeartbleed: refuse before the upgrade; otherwise ztls sends the
\* probe, the Heartbleed log is recorded, and the HeartbleedError sentinel
\* (the server leaked memory) is returned as success.
CheckHeartbleed ==
    /\ ~panicked
    /\ IF ~isTls
       THEN /\ ret' = "errNoHandshake"
            /\ UNCHANGED grabHeartbleed
       ELSE \E result \in IF closed THEN {"errIO"} ELSE {"heartbleed", "ok", "errIO"} :
               /\ grabHeartbleed' = [result |-> result]
               /\ ret' = IF result = "heartbleed" THEN "ok" ELSE result
    /\ UNCHANGED <<flags, isTls, hs, closed, grabStartTLS, replyErr, grabTLS, grabIO, panicked>>

\* The boolean setters (SetDHEOnly ... SetSafariNoDHECiphers,
\* SetExtendedRandom).
SetCipherFlag(f) ==
    /\ ~panicked
    /\ flags' = flags \cup {f}
    /\ UNCHANGED <<isTls, hs, closed, grabStartTLS, replyErr, grabTLS, grabHeartbleed, grabIO, ret, panicked>>

\* The calls that read or write the underlying conn and record what they
\* saw (Write, Read, BasicBanner, SMTPBanner, POP3Banner, IMAPBanner, EHLO,
\* SMTPHelp, SendModbusEcho): only the conn they used and their result
\* are told apart.
PassThrough ==
    /\ ~panicked
    /\ \E ok \in BOOLEAN : ret' = IOResult(ok)
    /\ grabIO' = [stream |-> UnderlyingConn]
    /\ UNCHANGED <<flags, isTls, hs, closed, grabStartTLS, replyErr, grabTLS, grabHeartbleed, panicked>>

\* SSHHandshake runs the SSH client on c.conn, the raw socket, whether or
\* not TLS runs over it, and records the SSH log.
SSHHandshake ==
    /\ ~panicked
    /\ \E ok \in BOOLEAN : ret' = IOResult(ok)
    /\ grabIO' = [stream |-> "raw"]
    /\ UNCHANGED <<flags, isTls, hs, closed, grabStartTLS, replyErr, grabTLS, grabHeartbleed, panicked>>

\* Close closes the underlying conn (the TLS conn closes the socket too).
Close ==
    /\ ~panicked
    /\ ret' = IF closed THEN "errIO" ELSE "ok"
    /\ closed' = TRUE
    /\ UNCHANGED <<flags, isTls, hs, grabStartTLS, replyErr, grabTLS, grabHeartbleed, grabIO, panicked>>

SetDomain(d) ==
    /\ ~panicked
    /\ domain' = d
    /\ target' = d
    /\ UNCHANGED <<flags, isTls, hs, closed, grabStartTLS, replyErr, grabTLS, grabHeartbleed, grabIO,
                   ret, panicked, noSNI, caPool>>

SetNoSNI ==
    /\ ~panicked
    /\ noSNI' = TRUE
    /\ UNCHANGED <<flags, isTls, hs, closed, grabStartTLS, replyErr, grabTLS, grabHeartbleed, grabIO,
                   ret, panicked, domain, target, caPool>>

SetCAPool(pool) ==
    /\ ~panicked
    /\ caPool' = pool
    /\ UNCHANGED <<flags, isTls, hs, closed, grabStartTLS, replyErr, grabTLS, grabHeartbleed, grabIO,
                   ret, panicked, domain, noSNI, target>>

\* HTTP (the grab of HTTPGrab) on the underlying conn: every followed
\* redirect sets c.domain to the Location's host, so the call may leave
\* c.domain as the host of the last redirect, whether the grab then
\* succeeds or fails.  A followable 3xx response without a Location
\* header panics at the .(string) assertion (line 332): the call never
\* returns, and nothing runs on the Conn afterwards.
HTTP ==
    /\ ~panicked
    /\ grabIO' = [stream |-> UnderlyingConn]
    /\ domain' \in {domain} \cup LocationHosts
    /\ \/ /\ \E ok \in BOOLEAN : ret' = IOResult(ok)
          /\ UNCHANGED panicked
       \/ /\ ~closed
          /\ panicked' = TRUE
          /\ UNCHANGED ret
    /\ UNCHANGED <<flags, isTls, hs, closed, grabStartTLS, replyErr, grabTLS, grabHeartbleed,
                   noSNI, target, caPool>>

Init ==
    /\ flags = {}
    /\ isTls = FALSE
    /\ hs = "none"
    /\ closed = FALSE
    /\ grabStartTLS = None
    /\ replyErr = FALSE
    /\ grabTLS = None
    /\ grabHeartbleed = None
    /\ grabIO = None
    /\ ret = "ok"
    /\ panicked = FALSE
    /\ domain = ""
    /\ noSNI = FALSE
    /\ target = ""
    /\ caPool = None

\* The calls that leave the scan configuration (domain, SNI, CA pool) alone.
ConnCall ==
    \/ \E f \in UsedFlags : SetCipherFlag(f)
    \/ SMTPStartTLSHandshake
    \/ POP3StartTLSHandshake
    \/ IMAPStartTLSHandshake
    \/ GetFTPSCertificates
    \/ DirectTLSHandshake
    \/ CheckHeartbleed
    \/ PassThrough
    \/ SSHHandshake
    \/ Close

Next ==
    \/ ConnCall /\ UNCHANGED scanVars
    \/ \E d \in Domains : SetDomain(d)
    \/ SetNoSNI
    \/ \E pool \in CAPools : SetCAPool(pool)
    \/ HTTP

Spec == Init /\ [][Next]_vars

-----------------------------------------------------------------------------
(* Properties.                                                              *)

Config == [suites : Lists, force : BOOLEAN, sni : Domains \cup LocationHosts,
           rootCAs : CAPools \cup {None}, extendedRandom : BOOLEAN]
Vias == {"direct", "smtp", "pop3", "imap", "ftp"}

TypeOK ==
    /\ flags \subseteq UsedFlags
    /\ isTls \in BOOLEAN /\ closed \in BOOLEAN /\ panicked \in BOOLEAN
    /\ hs \in {"none", "ok", "failed"}
    /\ grabStartTLS \in Replies \cup {None} /\ replyErr \in BOOLEAN
    /\ grabTLS \in {None} \cup
         [config : Config, via : Vias,
          log : [hello : UNION {ListSuites[l] : l \in Lists} \cup {NoHello}, finished : BOOLEAN]]
    /\ grabHeartbleed \in {None} \cup [result : {"heartbleed", "ok", "errIO"}]
    /\ grabIO \in {None} \cup [stream : {"raw", "tls"}]
    /\ ret \in Results
    /\ domain \in Domains \cup LocationHosts /\ target \in Domains /\ noSNI \in BOOLEAN
    /\ caPool \in CAPools \cup {None}

\* Whether a STARTTLS reply's text says yes in its protocol: at least 5
\* bytes with a 2xx code (SMTP), "+" (POP3), "a001 OK" (IMAP).
ReplyAccepted(via, r) ==
    CASE via = "smtp" -> r.n >= 5 /\ r.numeric /\ r.code \in 200 .. 299
      [] via = "pop3" -> r.plus
      [] via = "imap" -> r.tagOK

\* The recorded handshake log is never replaced or changed once attached:
\* a second TLSHandshake, a later STARTTLS or FTPS upgrade, or any other
\* call leaves it as the first handshake made it, failed or not
\* (TLSHandshake's isTls guard, set before the handshake runs).
HandshakeLogWrittenOnce == [][grabTLS # None => grabTLS' = grabTLS]_grabTLS

\* A result that records a TLS handshake started by a STARTTLS negotiation
\* also records the server's reply that agreed to it, read in full: no
\* later call overwrites grabData.StartTLS (sendStartTLSCommand's guard),
\* and neither a refusal nor a reply cut off by a read error or timeout
\* leads to the handshake, even when the part read says yes (a "+" before
\* the POP3 CRLF, or an SMTP 220 line filling the buffer).
UpgradeAuthorizedByReply ==
    grabTLS # None /\ grabTLS.via \in {"smtp", "pop3", "imap"} =>
        /\ grabStartTLS # None
        /\ ReplyAccepted(grabTLS.via, grabStartTLS)
        /\ ~replyErr

SafariLists == {"SafariCiphers", "SafariNoDHECiphers"}

\* A handshake that did not complete is reported as success only as the
\* measurement of a forced browser profile: the suites were a Safari list,
\* offered verbatim, and the server chose one of them that ztls does not
\* implement (ErrUnimplementedCipher under ForceSuites).  Any other
\* incomplete handshake returns its error.
IncompleteSuccessIsForcedProbe ==
    [][ (grabTLS = None /\ grabTLS' # None /\ ret' = "ok" /\ ~grabTLS'.log.finished) =>
          /\ grabTLS'.config.suites \in SafariLists
          /\ grabTLS'.log.hello \in ListSuites[grabTLS'.config.suites] \ Implemented ]_vars

\* The policy the spec prescribes when several flags are set: the first set
\* flag in the check order wins.
FirstSetList(fs) ==
    LET set == {i \in DOMAIN PolicyChecks : PolicyChecks[i].flag \in fs}
    IN  IF set = {} THEN "default" ELSE PolicyChecks[Min(set)].list

\* Spec 4.4: with several cipher-policy flags set, the handshake offers the
\* list of the first one in the order DHE-only, export-only, export-DHE-only,
\* then the browser sets (TLSHandshake's flag checks).
PolicyPrecedenceAsSpecified ==
    [][grabTLS = None /\ grabTLS' # None =>
          grabTLS'.config.suites = FirstSetList(flags)]_vars

\* Spec 4.4 and 7: the Heartbleed probe is available only once the TLS
\* handshake has completed; before that CheckHeartbleed reports the named
\* "must perform TLS handshake" error and records nothing.
HeartbleedOnlyWhenEstablished == grabHeartbleed # None => hs = "ok"

\* Spec 4.4: the handshake sends as SNI the target domain the caller
\* configured (SetDomain), unless SetNoSNI disabled it: TLSHandshake's
\* tlsConfig.ServerName must be the caller's domain, whatever calls came
\* before it (HTTP's redirects rewrite c.domain, which TLSHandshake reads).
SNIIsTargetDomain ==
    [][grabTLS = None /\ grabTLS' # None =>
          grabTLS'.config.sni = IF noSNI THEN "" ELSE target]_vars

\* The upgrade seen as spec 4.4's state machine: Plain until isTls, then
\* Established or Failed by the handshake's outcome.
UpgradeState == IF ~isTls THEN "Plain" ELSE IF hs = "ok" THEN "Established" ELSE "Failed"

Upgrade == INSTANCE ConnUpgrade WITH
    state <- UpgradeState, log <- grabTLS, reply <- grabStartTLS,
    Logs <- [config : Config, via : Vias,
             log : [hello : UNION {ListSuites[l] : l \in Lists} \cup {NoHello},
                    finished : BOOLEAN]],
    Accepts <- ReplyAccepted

\* Conn implements the abstract upgrade: every call either leaves the
\* upgrade state, the handshake log and the STARTTLS reply alone, records a
\* failed negotiation while Plain, or is the one handshake, whose log is
\* attached in the same call (success or not) and whose STARTTLS reply, if
\* any, agreed to it.
UpgradeRefinement == Upgrade!Spec

=============================================================================
