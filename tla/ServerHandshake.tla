-------------------------- MODULE ServerHandshake --------------------------
(***************************************************************************)
(* The handshake recorder of ztls (src/unnamed/part_000): the log that a   *)
(* TLS handshake builds from the server's messages, the key-exchange      *)
(* parameter decoders it calls, and the export signature-algorithm names. *)
(*                                                                         *)
(* The ztls handshake client (not part of this repository) receives the   *)
(* server's messages in protocol order and hands each one to the          *)
(* recorder; the handshake may be cut off after any of them.  Each        *)
(* receive step below is one call of the recorder on one message.         *)
(*                                                                         *)
(* Bytes are numbers in 0..ByteBase-1.  The code has ByteBase = 256; the  *)
(* model checks run with a smaller base so that every width the code     *)
(* relies on (2-byte lengths, a 4-byte exponent register) keeps its       *)
(* number of bytes while the arithmetic stays inside TLC's integers.      *)
(***************************************************************************)
EXTENDS Integers, Sequences, SequencesExt, FiniteSets

CONSTANTS
    Suites,            \* cipher-suite identifiers a server may negotiate
    RSAExportCiphers,  \* ztls.RSAExportCiphers
    DHEExportCiphers,  \* ztls.DHEExportCiphers
    DHECiphers,        \* ztls.DHECiphers
    ByteBase,          \* number of values of a byte (256 in the code)
    KeyBlobs,          \* server key-exchange payloads a server may send
    Chains             \* certificate chains (sequences of opaque certificates)

ASSUME /\ RSAExportCiphers \cup DHEExportCiphers \cup DHECiphers \subseteq Suites
       /\ ByteBase \in Nat \ {0, 1}
       /\ \A k \in KeyBlobs : k \in Seq(0 .. ByteBase - 1)

\* The width of the exponent register of rsaExportParams.MakeLog (uint32).
ExponentBytes == 4

None == [absent |-> TRUE]

-----------------------------------------------------------------------------
(* Big-endian integers as the code stores them.                            *)

\* big.Int.SetBytes followed by Bytes(): the magnitude, leading zeros dropped.
Magnitude(s) ==
    LET nz == {i \in DOMAIN s : s[i] # 0}
    IN  IF nz = {} THEN <<>> ELSE SubSeq(s, Min(nz), Len(s))

\* The value of a big-endian byte string (reference definition).
BEValue(s) == SumFunction([i \in DOMAIN s |-> s[i] * ByteBase ^ (Len(s) - i)])

\* big.Int.BitLen of a value.
BitLen(v) == IF v = 0 THEN 0 ELSE CHOOSE k \in 1 .. 30 : 2 ^ (k - 1) <= v /\ v < 2 ^ k

\* Mutant of ReadField: a field that fills the rest of the buffer exactly is
\* rejected (len(buf) <= int(pLength)).
ReadFieldOffByOne(buf) ==
    IF Len(buf) < 2 \/ Len(buf) - 2 <= buf[1] * ByteBase + buf[2]
    THEN [ok |-> FALSE, val |-> <<>>, rest |-> <<>>]
    ELSE LET n == buf[1] * ByteBase + buf[2]
         IN  [ok |-> TRUE, val |-> SubSeq(buf, 3, 2 + n), rest |-> SubSeq(buf, 3 + n, Len(buf))]

\* One length-prefixed field of DHParams.unmarshal: a 2-byte big-endian
\* length, then that many bytes.  Fails when fewer than 2 bytes remain or
\* the declared length exceeds what is left.
ReadField(buf) ==
    IF Len(buf) < 2
    THEN [ok |-> FALSE, val |-> <<>>, rest |-> <<>>]
    ELSE LET n    == buf[1] * ByteBase + buf[2]
             rest == SubSeq(buf, 3, Len(buf))
         IN  IF Len(rest) < n
             THEN [ok |-> FALSE, val |-> <<>>, rest |-> <<>>]
             ELSE [ok |-> TRUE, val |-> SubSeq(rest, 1, n),
                   rest |-> SubSeq(rest, n + 1, Len(rest))]

\* DHParams.unmarshal: prime, generator and server public value in turn;
\* trailing bytes after the third field are ignored.
DHUnmarshal(buf) ==
    LET p == ReadField(buf)
        g == ReadField(p.rest)
        y == ReadField(g.rest)
    IN  [ok |-> p.ok /\ g.ok /\ y.ok,
         P  |-> Magnitude(p.val), G |-> Magnitude(g.val), Ys |-> Magnitude(y.val)]

\* rsaExportParams.unmarshal (ztls, outside this repository): the modulus
\* and the exponent as two length-prefixed fields.
RSAUnmarshal(buf) ==
    LET m == ReadField(buf)
        e == ReadField(m.rest)
    IN  [ok |-> m.ok /\ e.ok, rawModulus |-> m.val, rawExponent |-> e.val]

\* Mutant of ShiftInByte: exponent = uint32(b), the accumulator dropped.
ShiftInByteOverwrite(exponent, b) == b

\* Mutant of ShiftInByte: the shift done in an unbounded integer (no uint32).
ShiftInByteUnbounded(exponent, b) == exponent * ByteBase + b

\* One step of the exponent loop: exponent <<= 8; exponent |= uint32(b).
ShiftInByte(exponent, b) == (exponent * ByteBase + b) % (ByteBase ^ ExponentBytes)

\* rsaExportParams.MakeLog.
RSAMakeLog(p) ==
    LET modulus == BEValue(p.rawModulus)
    IN  [Modulus  |-> Magnitude(p.rawModulus),
         Exponent |-> FoldLeft(ShiftInByte, 0, p.rawExponent),
         Length   |-> BitLen(modulus)]

-----------------------------------------------------------------------------
(* The log.                                                                 *)

VARIABLES
    hello,      \* ServerHello log: None or [CipherSuite |-> s]
    certs,      \* ServerCertificates: None or the copied chain
    skx,        \* ServerKeyExchange: None or [Key |-> copied payload]
    rsaExport,  \* RSAExportParams: None or the RSAMakeLog record
    dhExport,   \* DHExportParams: None or [P, G, Ys]
    dh,         \* DHParams: None or [P, G, Ys]
    finished    \* ServerFinished recorded

vars == <<hello, certs, skx, rsaExport, dhExport, dh, finished>>

DHLog(d) == [P |-> d.P, G |-> d.G, Ys |-> d.Ys]

\* Mutant of SetSkx: the three family checks as independent ifs.
SetSkxAllFamilies(key, cipher) ==
    /\ skx' = [Key |-> key]
    /\ rsaExport' = IF cipher \in RSAExportCiphers /\ RSAUnmarshal(key).ok
                    THEN RSAMakeLog(RSAUnmarshal(key)) ELSE rsaExport
    /\ dhExport' = IF cipher \in DHEExportCiphers /\ DHUnmarshal(key).ok
                   THEN DHLog(DHUnmarshal(key)) ELSE dhExport
    /\ dh' = IF cipher \in DHECiphers /\ DHUnmarshal(key).ok
             THEN DHLog(DHUnmarshal(key)) ELSE dh

\* ServerHandshake.setSkx: record the raw key, then decode it according to
\* the family of the negotiated suite, checked in this order; a payload that
\* does not decode leaves the parameters absent.
SetSkx(key, cipher) ==
    /\ skx' = [Key |-> key]
    /\ IF cipher \in RSAExportCiphers
       THEN /\ rsaExport' = IF RSAUnmarshal(key).ok
                            THEN RSAMakeLog(RSAUnmarshal(key)) ELSE rsaExport
            /\ UNCHANGED <<dhExport, dh>>
       ELSE IF cipher \in DHEExportCiphers
       THEN /\ dhExport' = IF DHUnmarshal(key).ok
                           THEN DHLog(DHUnmarshal(key)) ELSE dhExport
            /\ UNCHANGED <<rsaExport, dh>>
       ELSE IF cipher \in DHECiphers
       THEN /\ dh' = IF DHUnmarshal(key).ok THEN DHLog(DHUnmarshal(key)) ELSE dh
            /\ UNCHANGED <<rsaExport, dhExport>>
       ELSE UNCHANGED <<rsaExport, dhExport, dh>>

Init ==
    /\ hello = None /\ certs = None /\ skx = None
    /\ rsaExport = None /\ dhExport = None /\ dh = None
    /\ finished = FALSE

\* serverHelloMsg.MakeLog: the negotiated suite (random, session id and the
\* flags are copied verbatim and not told apart by any property).
RecvServerHello(s) ==
    /\ hello = None
    /\ hello' = [CipherSuite |-> s]
    /\ UNCHANGED <<certs, skx, rsaExport, dhExport, dh, finished>>

\* certificateMsg.MakeLog: a copy of each certificate, in chain order.
RecvCertificates(chain) ==
    /\ hello # None /\ certs = None /\ skx = None /\ ~finished
    /\ certs' = [i \in DOMAIN chain |-> chain[i]]
    /\ UNCHANGED <<hello, skx, rsaExport, dhExport, dh, finished>>

\* serverKeyExchangeMsg.MakeLog and setSkx with the negotiated suite.
RecvServerKeyExchange(key) ==
    /\ hello # None /\ skx = None /\ ~finished
    /\ SetSkx(key, hello.CipherSuite)
    /\ UNCHANGED <<hello, certs, finished>>

\* finishedMsg.MakeLog.
RecvFinished ==
    /\ hello # None /\ ~finished
    /\ finished' = TRUE
    /\ UNCHANGED <<hello, certs, skx, rsaExport, dhExport, dh>>

Next ==
    \/ \E s \in Suites : RecvServerHello(s)
    \/ \E c \in Chains : RecvCertificates(c)
    \/ \E k \in KeyBlobs : RecvServerKeyExchange(k)
    \/ RecvFinished

Spec == Init /\ [][Next]_vars

-----------------------------------------------------------------------------
(* Properties.                                                              *)

DHRecord == [P : Seq(0 .. ByteBase - 1), G : Seq(0 .. ByteBase - 1),
             Ys : Seq(0 .. ByteBase - 1)]

TypeOK ==
    /\ hello = None \/ hello \in [CipherSuite : Suites]
    /\ certs = None \/ certs \in Chains
    /\ skx = None \/ skx \in [Key : KeyBlobs]
    /\ rsaExport = None \/ rsaExport \in [Modulus : Seq(0 .. ByteBase - 1),
                                         Exponent : 0 .. ByteBase ^ ExponentBytes - 1,
                                         Length : Nat]
    /\ dhExport = None \/ dhExport \in DHRecord
    /\ dh = None \/ dh \in DHRecord
    /\ finished \in BOOLEAN

\* The 2-byte big-endian length prefix of the wire format.
Enc16(n) == <<n \div ByteBase, n % ByteBase>>

\* Reference: the decodings (p, g, ys) of a payload, found by encoding
\* candidate fields and comparing with the payload (any trailing bytes
\* allowed), rather than by reading it front to back.
DHFramings(buf) ==
    LET L       == Len(buf)
        lengths == {t \in (0 .. L) \X (0 .. L) \X (0 .. L) : 6 + t[1] + t[2] + t[3] <= L}
    IN  { <<SubSeq(buf, 3, 2 + t[1]), SubSeq(buf, 5 + t[1], 4 + t[1] + t[2]),
            SubSeq(buf, 7 + t[1] + t[2], 6 + t[1] + t[2] + t[3])>> : t \in lengths }
DHFramed(buf) ==
    { f \in DHFramings(buf) :
        buf = Enc16(Len(f[1])) \o f[1] \o Enc16(Len(f[2])) \o f[2]
              \o Enc16(Len(f[3])) \o f[3]
              \o SubSeq(buf, 7 + Len(f[1]) + Len(f[2]) + Len(f[3]), Len(buf)) }

\* The family setSkx decodes a suite as, first match in the code's order.
Family(c) ==
    IF c \in RSAExportCiphers THEN "rsaExport"
    ELSE IF c \in DHEExportCiphers THEN "dhExport"
    ELSE IF c \in DHECiphers THEN "dh" ELSE "none"

Params == [rsaExport |-> rsaExport, dhExport |-> dhExport, dh |-> dh]

\* The recorder fills in Diffie-Hellman parameters exactly when the suite is
\* a (export) DHE suite and the key-exchange payload is a well-framed
\* (p, g, ys), and then with exactly the magnitudes the payload carries:
\* a truncated or over-long field never yields parameters and a payload that
\* fits to the last byte is never rejected (DHParams.unmarshal, setSkx).
DHParamsFaithful ==
    \A fam \in {"dhExport", "dh"} :
        LET framed == IF skx = None THEN {} ELSE DHFramed(skx.Key)
        IN  /\ Params[fam] # None <=>
                   skx # None /\ Family(hello.CipherSuite) = fam /\ framed # {}
            /\ Params[fam] # None =>
                   \E f \in framed :
                       Params[fam] = [P |-> Magnitude(f[1]), G |-> Magnitude(f[2]),
                                      Ys |-> Magnitude(f[3])]

\* At most one kind of key-exchange parameters is ever recorded, and the
\* kind is the family of the negotiated suite, even for a suite listed in
\* several families (setSkx's else-if chain).
KeyParamsFollowFamily ==
    /\ Cardinality({fam \in DOMAIN Params : Params[fam] # None}) <= 1
    /\ \A fam \in DOMAIN Params :
           Params[fam] # None => hello # None /\ Family(hello.CipherSuite) = fam

\* The recorded RSA export exponent is the value of the exponent the server
\* sent whenever that value fits the 32-bit field, including exponents sent
\* with leading zero bytes beyond the fourth (rsaExportParams.MakeLog).
ExponentExact ==
    rsaExport # None =>
        LET raw == RSAUnmarshal(skx.Key).rawExponent
        IN  BEValue(raw) < ByteBase ^ ExponentBytes => rsaExport.Exponent = BEValue(raw)

=============================================================================
