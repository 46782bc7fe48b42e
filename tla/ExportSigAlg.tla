----------------------------- MODULE ExportSigAlg -----------------------------
(***************************************************************************)
(* ExportSignatureAlgorithm.MarshalJSON (src/unnamed/part_000): a 16-bit  *)
(* TLS signature-and-hash value split into its hash byte (high) and its   *)
(* signature-algorithm byte (low), each named from a fixed table.         *)
(* One step marshals the value; every uint16 is an initial state.         *)
(***************************************************************************)
EXTENDS Integers, Sequences

\* exportHashes and exportAlgorithms, in table order (index 0 first).
ExportHashes == <<"MD5", "SHA-1", "SHA-224", "SHA-256", "SHA-384", "SHA-512">>
ExportAlgorithms == <<"anon", "RSA", "DSA", "ECDSA">>

Uint16 == 0 .. 2 ^ 16 - 1

\* table[i] when i < len(table), else the omitted (empty) name.
TableName(table, i) == IF i < Len(table) THEN table[i + 1] ELSE ""

\* Mutant of Marshal: alg := int(value), the byte() conversion dropped.
MarshalNoByte(value) ==
    [Value |-> value, HashID |-> (value \div 2 ^ 8) % 2 ^ 8, AlgID |-> value,
     HashName |-> TableName(ExportHashes, (value \div 2 ^ 8) % 2 ^ 8),
     AlgName |-> TableName(ExportAlgorithms, value)]

\* The aux record MarshalJSON encodes: hash := int(byte(value >> 8)),
\* alg := int(byte(value)), names looked up with the bounds checks.
Marshal(value) ==
    LET hash == (value \div 2 ^ 8) % 2 ^ 8
        alg  == value % 2 ^ 8
    IN  [Value |-> value, HashID |-> hash, AlgID |-> alg,
         HashName |-> TableName(ExportHashes, hash),
         AlgName |-> TableName(ExportAlgorithms, alg)]

VARIABLES
    esa,   \* the ExportSignatureAlgorithm value
    out    \* the marshalled aux record, or None before MarshalJSON

None == [absent |-> TRUE]

Init == esa \in Uint16 /\ out = None

MarshalJSON ==
    /\ out = None
    /\ out' = Marshal(esa)
    /\ UNCHANGED esa

Spec == Init /\ [][MarshalJSON]_<<esa, out>>

-----------------------------------------------------------------------------
(* Properties.                                                              *)

TypeOK ==
    /\ esa \in Uint16
    /\ out = None \/ out \in [Value : Uint16, HashID : 0 .. 255, AlgID : 0 .. 255,
                             HashName : {""} \cup {ExportHashes[i] : i \in 1 .. 6},
                             AlgName : {""} \cup {ExportAlgorithms[i] : i \in 1 .. 4}]

\* Spec 5 (test 2): the numeric ids round-trip losslessly, names or not:
\* the two ids rebuild the value that was marshalled, and a name is empty
\* exactly when its id is beyond the table.
IdsRoundTrip ==
    out # None =>
        /\ out.Value = esa
        /\ out.HashID * 2 ^ 8 + out.AlgID = esa
        /\ (out.HashName = "") <=> out.HashID >= Len(ExportHashes)
        /\ (out.AlgName = "") <=> out.AlgID >= Len(ExportAlgorithms)

\* The TLS registry the two bytes come from (RFC 5246 7.4.1.4.1): hash
\* none(0), md5(1), sha1(2), sha224(3), sha256(4), sha384(5), sha512(6);
\* signature anonymous(0), rsa(1), dsa(2), ecdsa(3).
RFCHashNames == <<"none", "MD5", "SHA-1", "SHA-224", "SHA-256", "SHA-384", "SHA-512">>

\* A hash byte the registry names is logged under that name (the algorithm
\* table follows the registry from 0; the hash name must too).
HashNamesPerRegistry ==
    out # None /\ out.HashID \in 1 .. 6 => out.HashName = RFCHashNames[out.HashID + 1]

=============================================================================
