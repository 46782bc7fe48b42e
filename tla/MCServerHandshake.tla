------------------------- MODULE MCServerHandshake -------------------------
(***************************************************************************)
(* Model-checking instance of ServerHandshake.  Bytes have 4 values, so a *)
(* 2-byte length reaches 15 and a 4-byte exponent register wraps at 256.  *)
(* The payloads are every framing of three fields drawn from MCFields,    *)
(* every truncation of those framings, and the framings with a trailing   *)
(* byte: exact fits, short fields, over-long declared lengths and a       *)
(* length whose high byte is set all occur.                               *)
(***************************************************************************)
EXTENDS ServerHandshake

MCByteBase == 4

\* Field contents: empty, one byte, two bytes, and 5-byte values of which
\* one fits 4 bytes (leading zero byte) and one does not.
MCFields == {<<>>, <<2>>, <<1, 3>>, <<0, 0, 0, 1, 3>>, <<1, 0, 0, 0, 2>>}

MCFramings ==
    { Enc16(Len(a)) \o a \o Enc16(Len(b)) \o b \o Enc16(Len(c)) \o c :
      a, b, c \in MCFields }

MCKeyBlobs ==
    UNION { {SubSeq(f, 1, n) : n \in 0 .. Len(f)} : f \in MCFramings }
    \cup { f \o <<1>> : f \in MCFramings }

MCSuites == {"rsaExport", "dheExport", "dhe", "ecdhe"}
MCRSAExportCiphers == {"rsaExport"}
MCDHEExportCiphers == {"dheExport"}
\* DHECiphers also lists the export DHE suite, so that a suite in two
\* families reaches setSkx.
MCDHECiphers == {"dhe", "dheExport"}
MCChains == {<<"leaf", "intermediate">>, <<>>}
=============================================================================
