------------------------------- MODULE Codec --------------------------------
(***************************************************************************)
(* The binary formats of RFC 6962 as ct/serialization.go reads and writes  *)
(* them.  A byte is a digit below Radix (256 in the code), a reader is the *)
(* bytes it has left, and a result carries the error, "nil" if there was   *)
(* none.  The widths of the fixed-size fields are constants too.           *)
(***************************************************************************)
EXTENDS Integers, Sequences

CONSTANTS
  Radix,
  CertificateLengthBytes,         \* 3 in the code, as is PreCertificateLengthBytes
  CertificateChainLengthBytes,    \* 3
  ExtensionsLengthBytes,          \* 2
  TimestampBytes,                 \* 8
  EntryTypeBytes,                 \* 2
  IssuerKeyHashBytes              \* 32

ByteStrings(max) == UNION {[1..n -> 0..(Radix - 1)] : n \in 0..max}

Number(bytes) ==
  LET f[n \in 0..Len(bytes)] == IF n = 0 THEN 0 ELSE f[n - 1] * Radix + bytes[n]
  IN f[Len(bytes)]

Got(value, rest) == [err |-> "nil", value |-> value, rest |-> rest]
Failed(err) == [err |-> err, value |-> <<>>, rest |-> <<>>]

\* Digits of value, least significant last; an error if they are not enough.
writeUint(value, numBytes) ==
  IF value >= Radix ^ numBytes THEN Failed("insufficient")
  ELSE Got([i \in 1..numBytes |-> (value \div Radix ^ (numBytes - i)) % Radix], <<>>)

writeVarBytes(value, numLenBytes) ==
  LET l == writeUint(Len(value), numLenBytes) IN
  IF l.err # "nil" THEN l ELSE Got(l.value \o value, <<>>)

\* Byte by byte: the error is io.EOF even if some bytes of the number were there.
readUint(r, numBytes) ==
  IF Len(r) < numBytes THEN Failed("EOF")
  ELSE Got(Number(SubSeq(r, 1, numBytes)), SubSeq(r, numBytes + 1, Len(r)))

readBytes(r, n) ==
  IF Len(r) < n THEN Failed("short") ELSE Got(SubSeq(r, 1, n), SubSeq(r, n + 1, Len(r)))

readVarBytes(r, numLenBytes) ==
  LET l == readUint(r, numLenBytes) IN
  IF l.err # "nil" THEN l ELSE readBytes(l.rest, l.value)

\* Mutant: any error ends the list.
Mut_readASN1CertList(r, totalLenBytes, elementLenBytes) ==
  LET list == readVarBytes(r, totalLenBytes)
      f[n \in 0..Len(list.value) + 1] ==
        IF n = 0 THEN [certs |-> <<>>, reader |-> list.value]
        ELSE LET s == f[n - 1]
                 elem == readVarBytes(s.reader, elementLenBytes)
             IN IF elem.err # "nil" THEN [s EXCEPT !.reader = <<>>]
                ELSE [certs |-> Append(s.certs, elem.value), reader |-> elem.rest]
  IN IF list.err # "nil" THEN list ELSE Got(f[Len(list.value) + 1].certs, list.rest)

\* Every round of the loop reads an entry; io.EOF ends the list without an error.
readASN1CertList(r, totalLenBytes, elementLenBytes) ==
  LET list == readVarBytes(r, totalLenBytes)
      f[n \in 0..Len(list.value) + 1] ==
        IF n = 0 THEN [certs |-> <<>>, reader |-> list.value, err |-> "nil"]
        ELSE LET s == f[n - 1]
                 elem == readVarBytes(s.reader, elementLenBytes)
             IN IF s.err # "nil" THEN s
                ELSE IF elem.err # "nil" THEN [s EXCEPT !.err = elem.err]
                ELSE [certs |-> Append(s.certs, elem.value), reader |-> elem.rest, err |-> "nil"]
      end == f[Len(list.value) + 1]
  IN IF list.err # "nil" THEN list
     ELSE IF end.err # "EOF" THEN Failed(end.err) ELSE Got(end.certs, list.rest)

UnmarshalX509ChainArray(b) == readASN1CertList(b, CertificateChainLengthBytes, CertificateLengthBytes)

\* The precertificate, then the rest of the chain.
UnmarshalPrecertChainArray(b) ==
  LET precert == readVarBytes(b, CertificateLengthBytes)
      remaining == readASN1CertList(precert.rest, CertificateChainLengthBytes, CertificateLengthBytes)
  IN IF precert.err # "nil" THEN precert
     ELSE IF remaining.err # "nil" THEN remaining
     ELSE Got(<<precert.value>> \o remaining.value, remaining.rest)

X509LogEntryType == 0
PrecertLogEntryType == 1

\* The entry after its type.  An error in the extensions is dropped.
ReadEntry(timestamp, entryType, issuerKeyHash, r) ==
  LET cert == readVarBytes(r, CertificateLengthBytes)
      ext == readVarBytes(cert.rest, ExtensionsLengthBytes)
  IN IF cert.err # "nil" THEN cert
     ELSE Got([timestamp |-> timestamp, entryType |-> entryType, issuerKeyHash |-> issuerKeyHash,
               cert |-> cert.value, extensions |-> ext.value, extErr |-> ext.err], ext.rest)

ReadTimestampedEntryInto(r) ==
  LET ts == readBytes(r, TimestampBytes)
      type == readUint(ts.rest, EntryTypeBytes)
      hash == readBytes(type.rest, IssuerKeyHashBytes)
  IN IF ts.err # "nil" THEN ts
     ELSE IF type.err # "nil" THEN type
     ELSE IF type.value = X509LogEntryType THEN ReadEntry(ts.value, type.value, <<>>, type.rest)
     ELSE IF type.value # PrecertLogEntryType THEN Failed("unknown EntryType")
     ELSE IF hash.err # "nil" THEN hash
     ELSE ReadEntry(ts.value, type.value, hash.value, hash.rest)

\* V1 and TimestampedEntryLeafType are 0.
ReadMerkleTreeLeaf(r) ==
  LET version == readUint(r, 1)
      leafType == readUint(version.rest, 1)
  IN IF version.err # "nil" THEN version
     ELSE IF version.value # 0 THEN Failed("unknown Version")
     ELSE IF leafType.err # "nil" THEN leafType
     ELSE IF leafType.value # 0 THEN Failed("unknown LeafType")
     ELSE ReadTimestampedEntryInto(leafType.rest)

\* What an SCT for the entry signs; V1 and CertificateTimestampSignatureType are 0.
SerializeSCTSignatureInput(e) ==
  LET cert == writeVarBytes(e.cert, CertificateLengthBytes)
      ext == writeVarBytes(e.extensions, ExtensionsLengthBytes)
  IN IF e.cert = <<>> THEN Failed("certificate is zero length")
     ELSE IF cert.err # "nil" THEN cert
     ELSE IF ext.err # "nil" THEN ext
     ELSE Got(<<0, 0>> \o e.timestamp \o writeUint(e.entryType, EntryTypeBytes).value
                \o e.issuerKeyHash \o cert.value \o ext.value, <<>>)
=============================================================================
