------------------------------- MODULE MCConn -------------------------------
(***************************************************************************)
(* Model-checking instance of Conn.  The caller may set three policy      *)
(* flags, one of each kind of list (a DHE list, a browser list that is    *)
(* not forced, a forced Safari list), so that every pair of flags meets   *)
(* in TLSHandshake.  "chacha" stands for a suite in the browser lists     *)
(* that ztls does not implement.                                          *)
(***************************************************************************)
EXTENDS Conn

MCUsedFlags == {"onlyDHE", "chromeCiphers", "safariCiphers"}

\* The upgrade runs pass SetCAPool a nil pool: a pool, like extendedRandom,
\* is copied into the config and decides nothing the properties read
\* (verification is off); MCConnSNI sets both.
MCCAPools == {None}

MCListSuites ==
    [l \in Lists |->
        CASE l = "DHECiphers"          -> {"dhe"}
          [] l = "RSA512ExportCiphers" -> {"rsaExport"}
          [] l = "DHEExportCiphers"    -> {"dheExport"}
          [] l = "default"             -> {"ecdhe", "rsa"}
          [] l \in {"ChromeNoDHECiphers", "FirefoxNoDHECiphers", "SafariNoDHECiphers"}
                                       -> {"ecdhe", "chacha"}
          [] OTHER                     -> {"ecdhe", "dhe", "chacha"}]

MCImplemented == {"ecdhe", "rsa", "dhe", "rsaExport", "dheExport"}

\* Replies by what the checks and the end expressions tell apart: an SMTP
\* go-ahead and refusal (complete for smtpEndRegex), the POP3 and IMAP
\* go-aheads (a final CRLF, which smtpEndRegex does not match), and a
\* 2-byte "+O" cut off before its CRLF (a POP3 yes, an SMTP reply under 5
\* bytes), which only a read error can return.
MCReplies ==
    { [text |-> "220 ready", n |-> 11, numeric |-> TRUE, code |-> 220, plus |-> FALSE,
       tagOK |-> FALSE, smtpEnd |-> TRUE, crlf |-> TRUE],
      [text |-> "454 TLS not available", n |-> 23, numeric |-> TRUE, code |-> 454, plus |-> FALSE,
       tagOK |-> FALSE, smtpEnd |-> TRUE, crlf |-> TRUE],
      [text |-> "+OK", n |-> 5, numeric |-> FALSE, code |-> 0, plus |-> TRUE,
       tagOK |-> FALSE, smtpEnd |-> FALSE, crlf |-> TRUE],
      [text |-> "a001 OK", n |-> 9, numeric |-> FALSE, code |-> 0, plus |-> FALSE,
       tagOK |-> TRUE, smtpEnd |-> FALSE, crlf |-> TRUE],
      [text |-> "+O", n |-> 2, numeric |-> FALSE, code |-> 0, plus |-> TRUE,
       tagOK |-> FALSE, smtpEnd |-> FALSE, crlf |-> FALSE] }

\* The upgrade runs leave the domain empty (no SNI): the domain and SNI
\* are checked by MCConnSNI.
MCDomains == {""}
MCLocationHosts == {""}

=============================================================================
