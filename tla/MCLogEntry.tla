----------------------------- MODULE MCLogEntry -----------------------------
(***************************************************************************)
(* The entries a run looks at: every short leaf_input and extra_data;      *)
(* names built from a domain and the ways it may be written; parts of a    *)
(* certificate that cannot be parsed; every short list of extensions of a  *)
(* precertificate; and both entries of an issuance.  <<1>> is the logged   *)
(* certificate or TBSCertificate, <<0>> the precertificate.                *)
(***************************************************************************)
EXTENDS LogEntry, SequencesExt

MCChars ==
  {"a", "b", "x", "A", "B", ".", "*", "?", " ", "/", "NUL", "CTRL", "http:", "ip", "uni", "uni8", "uni1", "moji",
   "xn--", "xn--!", "e1", "e2", "<unparsable>", "valid_at:"}
MCLower == [c \in {"A", "B"} |-> IF c = "A" THEN "a" ELSE "b"]

Line(fields) == [kind |-> "item", fields |-> fields]
MCWatchListLines ==
  << [kind |-> "comment", fields |-> <<>>], Line(<< <<"a", ".", "b">>, <<"valid_at:">> >>),
     [kind |-> "blank", fields |-> <<>>], Line(<< <<".", "b", ".", "A", ".">> >>),
     Line(<< <<"uni", ".", "b">> >>), Line(<< <<"a", "b", ".", "b">> >>) >>

X509Leaf == <<0, 0, 1, 0, 0, 0, 1, 1, 0>>
PrecertLeaf == <<0, 0, 1, 0, 1, 1, 0, 1, 1, 0>>
EmptyChain == <<0, 0, 0>>
PrecertChain == <<0, 1, 0>> \o EmptyChain

Ext(id, critical, value) == [id |-> id, critical |-> critical, value |-> value]
SAN(names) == Ext("san", FALSE, [sequence |-> TRUE, rest |-> "nothing", names |-> names])
TBS(subject, exts) ==
  [broken |-> FALSE, unparsable |-> {}, subject |-> subject, exts |-> exts, issuer |-> "ca", fields |-> "f"]
CN(value) == <<[type |-> "CN", string |-> TRUE, value |-> value]>>
DNS(value) == [type |-> "dNSName", value |-> value]
Cert(tbs) == [broken |-> FALSE, tbs |-> tbs]

Case(leafInput, extraData, cert, precert, tbs, intended, issued) ==
  [leafInput |-> leafInput, extraData |-> extraData, certs |-> (<<1>> :> cert @@ <<0>> :> precert),
   tbs |-> (<<1>> :> tbs), intended |-> intended, issued |-> issued]

\* A certificate, logged as such.
X509Case(tbs, intended) ==
  Case(X509Leaf, EmptyChain, Cert(tbs), Cert(tbs), tbs, intended, NoTBS)

Plain == TBS(<<CN(<<"a", ".", "b">>)>>, <<SAN(<<>>)>>)
Poison == Ext("poison", TRUE, "null")
BytesCase(leafInput, extraData) ==
  Case(leafInput, extraData, Cert(Plain), Cert([Plain EXCEPT !.exts = Append(@, Poison)]), Plain, {}, NoTBS)

Bytes ==
  {BytesCase(l, EmptyChain) : l \in ByteStrings(4) \cup {<<0, 0>> \o l : l \in ByteStrings(8)}}
  \cup {BytesCase(X509Leaf, e) : e \in ByteStrings(7)}
  \cup {BytesCase(PrecertLeaf, e) : e \in ByteStrings(4) \cup {<<0, 1, 0>> \o e : e \in ByteStrings(7)}}

\* Domains, as a name of labels.
Words == {<<"a">>, <<"b">>, <<"B">>, <<"*">>, <<"a", "*">>, <<"uni">>, <<"a", "b">>}
Domains ==
  UNION {[1..n -> Words] : n \in 1..2} \cup [1..3 -> {<<"a">>, <<"b">>, <<"*">>}] \cup {<<<<"?">>, <<"b">>>>, <<<<"a">>, <<"?">>, <<"A">>>>}

Text(domain) ==
  FoldLeft(LAMBDA acc, l : IF acc = <<>> THEN l ELSE acc \o <<".">> \o l, <<>>, domain)
Encode(value, uni) == [i \in DOMAIN value |-> IF value[i] = "uni" THEN uni ELSE value[i]]
InDNS(domain) == [i \in DOMAIN domain |-> ToASCII(ToLower(domain[i])).label]

\* What may stand around a domain in a common name, and in a SAN.
Url == <<"http:", "/", "/">>
Tails == {<<>>, <<".">>, <<".", ".">>, <<"/">>, <<"/", "b">>, <<".", "/", "*">>, <<"NUL">>, <<"CTRL", ".", "b">>, <<"NUL", ".", "b", ".", "a">>}

InCN == ({<<>>} \X Tails) \cup ({Url} \X {<<>>, <<".">>, <<"/", "b">>})
InSAN == InCN \cup ({<<" ">>, <<>>} \X {<<>>, <<" ">>, <<".", " ">>})

\* The complete name stands for a name too, if a label in it cannot be read.
Intended(domain, end) ==
  {InDNS(d) : d \in
     CASE end = <<"NUL", ".", "b", ".", "a">> -> {domain, <<<<"x">>, <<"b">>, <<"a">>>>}
       [] end = <<"CTRL", ".", "b">> -> {}
       [] OTHER -> {domain}}

Names ==
  {X509Case(TBS(<<<<>>, CN(pre \o Text(d) \o end)>>, <<>>), Intended(d, end)) :
     <<pre, end>> \in InCN, d \in Domains}
  \cup
  {X509Case(TBS(<<>>, <<SAN(<<[type |-> "other", value |-> <<>>], DNS(pre \o Encode(Text(d), uni) \o end)>>)>>), Intended(d, end)) :
     <<pre, end>> \in InSAN, d \in Domains, uni \in {"uni8", "uni1"}}
  \cup {X509Case(TBS(<<CN(n)>>, <<SAN(<<DNS(n)>>)>>), {}) : n \in {<<"ip">>, <<"ip", "/", "a">>, <<"xn--!", ".", "b">>, <<"a", " ", "b">>, <<>>}}

\* The rest of the certificate.
Watched == {<<<<"a">>, <<"b">>>>}
WatchedSAN == SAN(<<DNS(<<"a", ".", "b">>)>>)
Faults ==
  {X509Case([TBS(<<CN(<<"b">>)>>, <<WatchedSAN>>) EXCEPT !.unparsable = u], Watched) :
     u \in SUBSET {"subject", "issuer", "serial", "validity", "basicConstraints", "marshal"}}
  \cup {X509Case(TBS(<<>>, <<SAN(<<>>), [WatchedSAN EXCEPT !.value.rest = r, !.value.sequence = s]>>), Watched) :
          r \in {"nothing", "zero byte", "data"}, s \in BOOLEAN}
  \cup {X509Case(TBS(<<<<[type |-> t, string |-> FALSE, value |-> <<"b">>]>>>>, <<WatchedSAN>>), Watched) : t \in {"CN", "O"}}

Base == TBS(<<CN(<<"a", ".", "b">>)>>, <<>>)
Small == {Poison, Ext("poison", FALSE, "null"), Ext("aki", FALSE, 1), Ext("aki", FALSE, 2), Ext("ku", TRUE, 1), Ext("ku", FALSE, 1)}
Precerts ==
  {Case(PrecertLeaf, PrecertChain, Cert(NoTBS), Cert([Base EXCEPT !.exts = p, !.issuer = i]), [Base EXCEPT !.exts = t], {}, NoTBS) :
     p \in UNION {[1..n -> Small] : n \in 0..3},
     t \in UNION {[1..n -> {Ext("aki", FALSE, 1), Ext("ku", TRUE, 1)}] : n \in 0..2},
     i \in {"ca", "precert ca"}}
  \cup {Case(PrecertLeaf, PrecertChain, Cert(NoTBS), [broken |-> b, tbs |-> t], Base, {}, NoTBS) :
          b \in BOOLEAN, t \in {NoTBS, [Base EXCEPT !.exts = <<Poison>>, !.fields = "g"], [Base EXCEPT !.exts = <<Poison>>]}}

\* The two entries of an issuance: the certificate has the SCTs at any place
\* among its extensions, and the precertificate the poison.
Issued == [Base EXCEPT !.exts = <<Ext("aki", FALSE, 1), WatchedSAN>>]
Issuances ==
  {Case(leafInput, IF leafInput = X509Leaf THEN EmptyChain ELSE PrecertChain,
        Cert([Issued EXCEPT !.exts = InsertAt(@, i, Ext("sct", FALSE, "list"))]),
        Cert([Issued EXCEPT !.exts = InsertAt(@, j, Poison)]), Issued, Watched, Issued) :
     leafInput \in {X509Leaf, PrecertLeaf}, i \in 1..3, j \in 1..3}

MCCases == <<Bytes, Names, Faults, Precerts, Issuances>>
=============================================================================
