------------------------------ MODULE LogEntry ------------------------------
(***************************************************************************)
(* What happens to one entry of a log (monitor/process.go): its bytes are  *)
(* read with Codec, the certificate in it is parsed as far as its names    *)
(* (x509.go, helpers.go, precerts.go), the names become identifiers and    *)
(* these are held against the watch list.  The entry is then ignored, or   *)
(* the user is notified of the certificate or of a malformed entry.        *)
(*                                                                         *)
(* DER is external: a case comes with the certificates and TBSCertificates *)
(* that certain byte strings decode to; no other byte string decodes.      *)
(***************************************************************************)
EXTENDS Codec, Identifiers

CONSTANTS
  WatchListLines,
  Cases   \* sets of what a log may contain: leafInput, extraData and what they decode to

\* What DER decodes to: the names in the subject and in the SANs are texts, and
\* an extension is critical or not; nothing is said of anything else.
Attributes == [type : STRING, string : BOOLEAN, value : Seq(Chars)]
GeneralNames == [type : STRING, value : Seq(Chars)]
IsExtension(e) ==
  e.critical \in BOOLEAN /\ (e.id = "san" => e.value.names \in Seq(GeneralNames))
IsTBS(tbs) ==
  /\ {"subject", "exts"} \subseteq DOMAIN tbs
  /\ tbs.subject \in Seq(Seq(Attributes))
  /\ tbs.exts \in Seq(Range(tbs.exts)) /\ \A i \in DOMAIN tbs.exts : IsExtension(tbs.exts[i])

ASSUME EntryAssumption ==
  /\ \A i \in DOMAIN WatchListLines : WatchListLines[i].fields \in Seq(Seq(Chars))
  /\ \A i \in DOMAIN Cases : \A case \in Cases[i] :
       /\ \A b \in DOMAIN case.certs : case.certs[b].tbs.broken \/ IsTBS(case.certs[b].tbs)
       /\ \A b \in DOMAIN case.tbs : case.tbs[b].broken \/ IsTBS(case.tbs[b])

VARIABLES
  pc,
  entry,        \* the case at hand
  leaf, chain,  \* what ReadMerkleTreeLeaf and the chain readers returned
  certInfo,     \* the TBSCertificate that CertInfo was made from
  identifiers,
  outcome       \* what processLogEntry did, "none" while it runs

entryVars == <<pc, entry, leaf, chain, certInfo, identifiers, outcome>>

watchList == ReadWatchList(WatchListLines).items

NoTBS == [broken |-> TRUE]

EntryInit ==
  /\ pc = "leaf" /\ \E i \in DOMAIN Cases : entry \in Cases[i]
  /\ leaf = Failed("none") /\ chain = Failed("none")
  /\ certInfo = NoTBS /\ identifiers = {} /\ outcome = "none"

-----------------------------------------------------------------------------
(* x509.go and precerts.go. *)

ParseCertificate(bytes) ==
  IF bytes \in DOMAIN entry.certs THEN entry.certs[bytes] ELSE [broken |-> TRUE, tbs |-> NoTBS]

ParseTBSCertificate(bytes) == IF bytes \in DOMAIN entry.tbs THEN entry.tbs[bytes] ELSE NoTBS

GetExtension(tbs, id) == {e \in Range(tbs.exts) : e.id = id}

\* The first attribute of every RDN, if it is a CN; one that is no string is an error.
ParseCNs(rdns) ==
  LET named == {i \in DOMAIN rdns : rdns[i] # <<>>}
      cns == {a \in {rdns[i][1] : i \in named} : a.type = "CN"}
  IN [err |-> \E a \in cns : ~a.string, names |-> {a.value : a \in cns}]

\* A sequence that nothing or exactly one zero byte follows.
SANExtensionOK(san) == san.sequence /\ san.rest \in {"nothing", "zero byte"}

ParseSubjectAltNames(tbs) ==
  LET exts == GetExtension(tbs, "san")
  IN [err |-> \E e \in exts : ~SANExtensionOK(e.value), names |-> UNION {Range(e.value.names) : e \in exts}]

\* Only the subject and the SANs can make this fail: CertInfo keeps the errors of
\* the other fields to itself.
ParseIdentifiers(tbs) ==
  LET cns == ParseCNs(tbs.subject)
      sans == ParseSubjectAltNames(tbs)
  IN IF "subject" \in tbs.unparsable \/ cns.err \/ sans.err THEN [err |-> TRUE, names |-> {}]
     ELSE [err |-> FALSE,
           names |-> UNION ({AddCN(cn) : cn \in cns.names}
                            \cup {AddDnsSAN(san.value) : san \in {n \in sans.names : n.type = "dNSName"}})]

\* Mutant: the signed part of the certificate is kept as it is.
Mut_ReconstructPrecertTBS(tbs) == tbs

\* Every extension but the list of SCTs.
ReconstructPrecertTBS(tbs) ==
  LET f[n \in 0..Len(tbs.exts)] ==
        IF n = 0 THEN <<>>
        ELSE IF tbs.exts[n].id = "sct" THEN f[n - 1] ELSE Append(f[n - 1], tbs.exts[n])
  IN [tbs EXCEPT !.exts = f[Len(tbs.exts)]]

\* Mutant: a non-critical poison extension will do.
Mut_ExtensionStep(s, e, exts, sameIssuer) ==
  IF s.err THEN s
  ELSE IF e.id = "poison" THEN [s EXCEPT !.poison = TRUE]
  ELSE LET t == exts[s.index] IN
       [s EXCEPT !.index = @ + 1,
                 !.err = \/ s.index > Len(exts)
                         \/ e.id # t.id \/ e.critical # t.critical
                         \/ (sameIssuer \/ e.id # "aki") /\ e.value # t.value]

\* One round of the loop over the extensions of the precertificate; s.index is tbsIndex + 1.
ExtensionStep(s, e, exts, sameIssuer) ==
  IF s.err THEN s
  ELSE IF e.id = "poison" THEN [s EXCEPT !.poison = TRUE, !.err = ~e.critical]
  ELSE LET t == exts[s.index] IN
       [s EXCEPT !.index = @ + 1,
                 !.err = \/ s.index > Len(exts)
                         \/ e.id # t.id \/ e.critical # t.critical
                         \/ (sameIssuer \/ e.id # "aki") /\ e.value # t.value]

\* The state of that loop after n rounds.
ExtensionLoop(exts, tbs, sameIssuer) ==
  LET f[n \in 0..Len(exts)] ==
        IF n = 0 THEN [index |-> 1, poison |-> FALSE, err |-> FALSE]
        ELSE ExtensionStep(f[n - 1], exts[n], tbs.exts, sameIssuer)
  IN f

\* Serial number, signature algorithm, validity, key and the rest are one field here.
ValidatePrecert(precert, tbs) ==
  /\ ~precert.broken /\ ~precert.tbs.broken
  /\ precert.tbs.fields = tbs.fields /\ precert.tbs.subject = tbs.subject
  /\ LET exts == precert.tbs.exts
         end == ExtensionLoop(exts, tbs, precert.tbs.issuer = tbs.issuer)[Len(exts)]
     IN ~end.err /\ end.index = Len(tbs.exts) + 1 /\ end.poison

-----------------------------------------------------------------------------
(* process.go. *)

GoTo(l) == pc' = l /\ UNCHANGED <<entry, outcome>>

ReadLeaf ==
  /\ pc = "leaf"
  /\ leaf' = ReadMerkleTreeLeaf(entry.leafInput)
  /\ GoTo(CASE leaf'.err # "nil" -> "malformed"
            [] leaf'.value.entryType = X509LogEntryType -> "x509" [] OTHER -> "precert")
  /\ UNCHANGED <<chain, certInfo, identifiers>>

\* MakeCertInfoFromRawCert.
ParseX509 ==
  /\ pc = "x509"
  /\ LET cert == ParseCertificate(leaf.value.cert) IN
       /\ certInfo' = cert.tbs
       /\ GoTo(IF cert.broken \/ cert.tbs.broken THEN "malformed" ELSE "x509 chain")
  /\ UNCHANGED <<leaf, chain, identifiers>>

\* The chain, and the precertificate's TBSCertificate in place of the certificate's.
ParseX509Chain ==
  /\ pc = "x509 chain"
  /\ LET rest == UnmarshalX509ChainArray(entry.extraData) IN
       /\ chain' = IF rest.err # "nil" THEN rest ELSE [rest EXCEPT !.value = <<leaf.value.cert>> \o @]
       /\ IF rest.err # "nil" THEN GoTo("malformed") /\ UNCHANGED certInfo
          ELSE /\ certInfo' = ReconstructPrecertTBS(certInfo)
               /\ GoTo(IF "marshal" \in certInfo.unparsable THEN "malformed" ELSE "identifiers")
  /\ UNCHANGED <<leaf, identifiers>>

\* MakeCertInfoFromRawTBS.
ParsePrecertTBS ==
  /\ pc = "precert"
  /\ certInfo' = ParseTBSCertificate(leaf.value.cert)
  /\ GoTo(IF certInfo'.broken THEN "malformed" ELSE "precert chain")
  /\ UNCHANGED <<leaf, chain, identifiers>>

ParsePrecertChain ==
  /\ pc = "precert chain"
  /\ chain' = UnmarshalPrecertChainArray(entry.extraData)
  /\ GoTo(IF chain'.err # "nil" THEN "malformed" ELSE "validate")
  /\ UNCHANGED <<leaf, certInfo, identifiers>>

Validate ==
  /\ pc = "validate"
  /\ GoTo(IF ValidatePrecert(ParseCertificate(chain.value[1]), certInfo) THEN "identifiers" ELSE "malformed")
  /\ UNCHANGED <<leaf, chain, certInfo, identifiers>>

Identify ==
  /\ pc = "identifiers"
  /\ LET ids == ParseIdentifiers(certInfo) IN
       /\ identifiers' = ids.names
       /\ GoTo(IF ids.err THEN "malformed" ELSE "match")
  /\ UNCHANGED <<leaf, chain, certInfo>>

Return(o) == pc' = "done" /\ outcome' = o /\ UNCHANGED <<entry, leaf, chain, certInfo, identifiers>>

NoMatch == pc = "match" /\ ~Matches(watchList, identifiers) /\ Return("ignored")

\* NotifyCert succeeds, or its error is returned.
NotifyCert == pc = "match" /\ Matches(watchList, identifiers) /\ \E o \in {"notified", "failed"} : Return(o)

processMalformedLogEntry == pc = "malformed" /\ \E o \in {"malformed", "failed"} : Return(o)

Returned == pc = "done" /\ UNCHANGED entryVars

EntryNext ==
  \/ ReadLeaf
  \/ ParseX509 \/ ParseX509Chain
  \/ ParsePrecertTBS \/ ParsePrecertChain \/ Validate
  \/ Identify \/ NoMatch \/ NotifyCert
  \/ processMalformedLogEntry
  \/ Returned

EntrySpec == EntryInit /\ [][EntryNext]_entryVars

-----------------------------------------------------------------------------
\* The part of label after from, up to to, is what the character c of a pattern
\* stands for: a star for anything but a dot.
IsPiece(c, label, from, to) ==
  IF c = "*" THEN from <= to /\ \A m \in (from + 1)..to : label[m] # "."
  ELSE to = from + 1 /\ label[to] = c

\* The label can be cut into the pieces that the pattern's characters stand for.
CanBeFilled(pattern, label) ==
  \E cut \in [0..Len(pattern) -> 0..Len(label)] :
    /\ cut[0] = 0 /\ cut[Len(pattern)] = Len(label)
    /\ \A x \in 1..Len(pattern) : IsPiece(pattern[x], label, cut[x - 1], cut[x])

\* A label of a certificate may stand for a label of the watch list: it is what
\* is left of it, or its stars can be filled in.
MayBe(certLabel, label) ==
  certLabel \in {UnparsableDNSLabelPlaceholder, <<"?">>, <<"*">>} \/ CanBeFilled(certLabel, label)

\* A certificate for name is a certificate for the item's domain, or for a
\* domain below it if the item says so.
Covers(item, name) ==
  LET n == Len(name)
      k == Len(item.domain)
  IN /\ k = n \/ (item.acceptSuffix /\ k < n)
     /\ \A i \in 1..k : MayBe(name[n - k + i], item.domain[i])

\* A certificate is ignored only if none of the names it was made for is on the
\* watch list, however the names are written (upper case, surrounding spaces,
\* trailing dots, as a URL, with a NUL, not in ASCII), wherever they stand, and
\* whatever other parts of the certificate cannot be parsed (README.md:70-94,
\* process.go:86-94, identifiers.go:115-259).
NothingWatchedIsIgnored ==
  outcome = "ignored" => ~\E item \in watchList, name \in entry.intended : Covers(item, name)

\* A certificate is reported exactly if one of its identifiers may stand for a
\* watched domain: a star for any part of a label but never for several labels
\* (watchlist.go:95-135, helpers.go:84-100).
MatchIsExact ==
  pc = "done" /\ outcome \in {"ignored", "notified"} =>
    (outcome = "notified" <=> \E item \in watchList, name \in identifiers : Covers(item, name))

Strings(n) == [1..n -> 0..(Radix - 1)]

\* The beginnings of all leaves, up to the extensions.
LeafEncodings ==
  LET cert == {writeVarBytes(c, CertificateLengthBytes).value : c \in ByteStrings(Radix ^ CertificateLengthBytes - 1)}
      type(t) == writeUint(t, EntryTypeBytes).value
  IN {<<0, 0>> \o t \o type(X509LogEntryType) \o c : t \in Strings(TimestampBytes), c \in cert}
     \cup {<<0, 0>> \o t \o type(PrecertLogEntryType) \o h \o c :
             t \in Strings(TimestampBytes), h \in Strings(IssuerKeyHashBytes), c \in cert}

\* What was read from a leaf is what a log signs for it, byte by byte; a leaf is
\* refused only if no entry begins like this (serialization.go:28-175, 244-350).
LeafIsWhatTheBytesSay ==
  pc # "leaf" =>
    IF leaf.err = "nil"
      THEN leaf.value.extErr = "nil" /\ leaf.value.cert # <<>> =>
             IsPrefixOf(SerializeSCTSignatureInput(leaf.value).value, entry.leafInput)
      ELSE \A e \in LeafEncodings : ~IsPrefixOf(e, entry.leafInput)

ListEncoding(certs, rest) ==
  LET f[n \in 0..Len(certs)] ==
        IF n = 0 THEN <<>> ELSE f[n - 1] \o writeVarBytes(certs[n], CertificateLengthBytes).value
  IN writeVarBytes(f[Len(certs)] \o rest, CertificateChainLengthBytes)

\* The extra_data of an entry with that chain; rest follows the last certificate of the list.
IsExtraData(b, certs, x509, rest) ==
  LET list == ListEncoding(IF x509 THEN certs ELSE Tail(certs), rest)
      first == IF x509 THEN <<>> ELSE writeVarBytes(certs[1], CertificateLengthBytes).value
  IN list.err = "nil" /\ IsPrefixOf(first \o list.value, b)

ShortChains == UNION {[1..n -> ByteStrings(2)] : n \in 0..2}

\* The certificates of a chain that was read are all there is in the bytes, up
\* to an incomplete length at the end; a chain that was refused has no reading
\* (serialization.go:92-118, 177-203).
ChainIsWhatTheBytesSay ==
  chain.err # "none" =>
    LET x509 == leaf.value.entryType = X509LogEntryType
        certs == IF x509 THEN Tail(chain.value) ELSE chain.value
    IN IF chain.err = "nil"
         THEN \E rest \in ByteStrings(CertificateLengthBytes - 1) : IsExtraData(entry.extraData, certs, x509, rest)
         ELSE ~\E c \in ShortChains : (x509 \/ c # <<>>) /\ IsExtraData(entry.extraData, c, x509, <<>>)

\* Both halves of an entry are taken for what their bytes say, and refused only
\* if they say nothing (ReadMerkleTreeLeaf, UnmarshalX509ChainArray and
\* UnmarshalPrecertChainArray).
EntryIsWhatTheBytesSay == LeafIsWhatTheBytesSay /\ ChainIsWhatTheBytesSay

\* Precertificate and TBSCertificate, field by field and extension by extension:
\* those that are not poison are paired in their order.
Corresponds(precert, tbs) ==
  LET exts == precert.exts
      poison(i) == exts[i].id = "poison"
      kept(n) == {i \in 1..n : ~poison(i)}
      same(e, t) == /\ e.id = t.id /\ e.critical = t.critical
                    /\ e.value = t.value \/ (e.id = "aki" /\ precert.issuer # tbs.issuer)
  IN /\ precert.fields = tbs.fields /\ precert.subject = tbs.subject
     /\ \E i \in DOMAIN exts : poison(i)
     /\ \A i \in DOMAIN exts : poison(i) => exts[i].critical
     /\ Cardinality(kept(Len(exts))) = Len(tbs.exts)
     /\ \A i \in kept(Len(exts)) : same(exts[i], tbs.exts[Cardinality(kept(i))])

\* A precertificate entry gets through exactly if its precertificate is the logged
\* TBSCertificate with critical poison added, or one from another issuer that
\* differs in the issuer and the value of its key identifier; otherwise, or if its
\* names cannot be parsed, it is malformed (precerts.go:35-128).
PrecertMatchesItsTBS ==
  chain.err = "nil" /\ leaf.value.entryType = PrecertLogEntryType =>
    LET precert == ParseCertificate(chain.value[1])
        matches == ~precert.broken /\ ~precert.tbs.broken /\ Corresponds(precert.tbs, certInfo)
    IN /\ pc \in {"identifiers", "match"} \/ outcome \in {"ignored", "notified"} => matches
       /\ pc = "malformed" \/ outcome = "malformed" => ~matches \/ ParseIdentifiers(certInfo).err

\* Both entries of one issuance, the precertificate's and the certificate's, are
\* recorded under the hash of the same TBSCertificate, so that the second one is
\* recognised as known (process.go:59-60, 101, precerts.go:129-154).
SameIssuanceSameTBS == outcome = "notified" /\ ~entry.issued.broken => certInfo = entry.issued
=============================================================================
