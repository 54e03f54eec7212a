---------------------------- MODULE Identifiers -----------------------------
(***************************************************************************)
(* From the names in a certificate to identifiers, and from identifiers to *)
(* watch list items (identifiers.go, helpers.go, monitor/watchlist.go).    *)
(*                                                                         *)
(* A value is a sequence of characters.  Besides letters (upper case       *)
(* letters are the keys of Lower) and the characters the code treats       *)
(* specially there are "NUL", "CTRL" for any other unprintable character,  *)
(* "http:" for the start of a URL, "ip" for the text of an IP address,     *)
(* "uni" for a character beyond ASCII and "xn--!" for text that is not     *)
(* valid Punycode.  In a dNSName, which is bytes, "uni8" and "uni1" are    *)
(* that character in UTF-8 and in Latin-1; "moji" is what its UTF-8 bytes  *)
(* are when they are read as Latin-1.  A DNS name is the sequence of its   *)
(* labels.                                                                 *)
(***************************************************************************)
EXTENDS Integers, Sequences, FiniteSetsExt, Prefixes

CONSTANTS
  Chars,
  Lower   \* from upper case letters to lower case letters

ASSUME CharsAssumption ==
  /\ {"uni", "moji", "xn--", "e1", "e2", "<unparsable>"} \subseteq Chars
  /\ Lower \in [DOMAIN Lower -> Chars]

UnparsableDNSLabelPlaceholder == <<"<unparsable>">>

HasChar(value, c) == \E i \in DOMAIN value : value[i] = c

\* The part before the first c.
Before(value, c) ==
  LET i == CHOOSE i \in DOMAIN value : value[i] = c /\ \A j \in 1..(i - 1) : value[j] # c
  IN SubSeq(value, 1, i - 1)

strip(value, from, c) ==
  LET kept == {i \in DOMAIN value : value[i] # c} IN
  IF kept = {} THEN <<>>
  ELSE SubSeq(value, IF from = "both" THEN Min(kept) ELSE 1, Max(kept))

ToLower(value) == [i \in DOMAIN value |-> IF value[i] \in DOMAIN Lower THEN Lower[value[i]] ELSE value[i]]

\* strings.Split(value, ".")
Split(value) ==
  LET f[n \in 0..Len(value)] ==
        IF n = 0 THEN <<<<>>>>
        ELSE LET labels == f[n - 1] IN
             IF value[n] = "." THEN Append(labels, <<>>)
             ELSE [labels EXCEPT ![Len(labels)] = Append(@, value[n])]
  IN f[Len(value)]

isSaneDNSLabel(label) == \A i \in DOMAIN label : label[i] \notin {"NUL", "CTRL", "uni", "moji"}

trimHttpPrefix(value) ==
  IF IsPrefixOf(<<"http:", "/", "/">>, value) THEN SubSeq(value, 4, Len(value)) ELSE value

\* TrimSpace, then trimTrailingDots, then ToLower and Split.
Labels(value) == Split(ToLower(strip(strip(value, "both", " "), "end", ".")))

\* Mutant: a name with a label that makes no sense is left out.
Mut_sanitizeDNSName(value) ==
  IF \A i \in DOMAIN Labels(value) : isSaneDNSLabel(Labels(value)[i]) THEN Labels(value) ELSE <<<<>>>>

sanitizeDNSName(value) ==
  [i \in DOMAIN Labels(value) |->
     IF isSaneDNSLabel(Labels(value)[i]) THEN Labels(value)[i] ELSE UnparsableDNSLabelPlaceholder]

\* idna.ToASCII: an injective encoding of labels beyond ASCII, or an error.
ToASCII(label) ==
  IF HasChar(label, "xn--!") THEN [err |-> TRUE, label |-> <<>>]
  ELSE IF \E c \in {"uni", "moji"} : HasChar(label, c)
    THEN [err |-> FALSE,
          label |-> <<"xn--">> \o [i \in DOMAIN label |-> CASE label[i] = "uni" -> "e1" [] label[i] = "moji" -> "e2" [] OTHER -> label[i]]]
    ELSE [err |-> FALSE, label |-> label]

sanitizeUnicodeDNSName(value) ==
  [i \in DOMAIN Labels(value) |->
     LET a == ToASCII(Labels(value)[i]) IN
     IF ~a.err /\ isSaneDNSLabel(a.label) THEN a.label ELSE UnparsableDNSLabelPlaceholder]

IsIPAddr(value) == value = <<"ip">>

\* The empty name is never added; sets stand for the lists without duplicates.
NonEmpty(names) == names \ {<<<<>>>>}

isASCIIString(value) == ~HasChar(value, "uni8") /\ ~HasChar(value, "uni1")

Decode(value, e8, e1) == [i \in DOMAIN value |-> CASE value[i] = "uni8" -> e8 [] value[i] = "uni1" -> e1 [] OTHER -> value[i]]

\* As UTF-8 if it is valid UTF-8, and as Latin-1.
Decodings(value) ==
  {Decode(value, "moji", "uni")} \cup (IF HasChar(value, "uni1") THEN {} ELSE {Decode(value, "uni", "uni")})

addDnsSANfinal(value) ==
  IF IsIPAddr(value) THEN {}
  ELSE IF isASCIIString(value) THEN NonEmpty({sanitizeDNSName(value)})
  ELSE NonEmpty({sanitizeUnicodeDNSName(d) : d \in Decodings(value)})

addDnsSANnonull(value) ==
  (IF HasChar(value, "/") THEN addDnsSANfinal(Before(value, "/")) ELSE {}) \cup addDnsSANfinal(value)

AddDnsSAN(value) ==
  LET v == trimHttpPrefix(value) IN
  (IF HasChar(v, "NUL") THEN addDnsSANnonull(Before(v, "NUL")) ELSE {}) \cup addDnsSANnonull(v)

addCNfinal(value) ==
  IF IsIPAddr(value) \/ HasChar(value, " ") THEN {} ELSE NonEmpty({sanitizeUnicodeDNSName(value)})

addCNnonull(value) ==
  (IF HasChar(value, "/") THEN addCNfinal(Before(value, "/")) ELSE {}) \cup addCNfinal(value)

AddCN(value) ==
  LET v == trimHttpPrefix(value) IN
  (IF HasChar(v, "NUL") THEN addCNnonull(Before(v, "NUL")) ELSE {}) \cup addCNnonull(v)

-----------------------------------------------------------------------------
(* The watch list. *)

\* A field of a line that names a domain; the other fields must be valid_at.
ParseWatchItem(domain) ==
  LET suffix == domain # <<>> /\ Head(domain) = "."
      labels == Split(ToLower(strip(IF suffix THEN Tail(domain) ELSE domain, "end", ".")))
  IN IF domain = <<".">> THEN [err |-> FALSE, domain |-> <<>>, acceptSuffix |-> TRUE]
     ELSE [err |-> \E i \in DOMAIN labels : ToASCII(labels[i]).err,
           domain |-> [i \in DOMAIN labels |-> ToASCII(labels[i]).label],
           acceptSuffix |-> suffix]

\* f[<<i, j>>] is the call for the rest of dnsName from i and of pattern from j.
MatchesWildcard(dnsName, pattern) ==
  LET n == Len(dnsName)
      k == Len(pattern)
      f[c \in (1..(n + 1)) \X (1..(k + 1))] ==
        LET i == c[1]
            j == c[2]
        IN IF j > k THEN i > n
           ELSE IF pattern[j] = "*" THEN (i <= n /\ dnsName[i] # "." /\ f[<<i + 1, j>>]) \/ f[<<i, j + 1>>]
           ELSE i <= n /\ pattern[j] = dnsName[i] /\ f[<<i + 1, j + 1>>]
  IN f[<<1, 1>>]

dnsLabelMatches(certLabel, watchLabel) ==
  \/ certLabel \in {<<"*">>, <<"?">>, UnparsableDNSLabelPlaceholder}
  \/ MatchesWildcard(watchLabel, certLabel)

\* Mutant: a certificate for a parent domain matches too.
Mut_matchesDNSName(item, dnsName) ==
  LET n == Len(dnsName)
      k == Len(item.domain)
  IN /\ \A i \in 0..(Min({n, k}) - 1) : dnsLabelMatches(dnsName[n - i], item.domain[k - i])
     /\ item.acceptSuffix \/ n = k

\* Label by label from the right.
matchesDNSName(item, dnsName) ==
  LET n == Len(dnsName)
      k == Len(item.domain)
  IN /\ k <= n
     /\ \A i \in 0..(k - 1) : dnsLabelMatches(dnsName[n - i], item.domain[k - i])
     /\ item.acceptSuffix \/ n = k

\* The lines that are neither blank nor comments; one that cannot be parsed, or
\* has no domain or an unknown parameter, is an error for the whole list.
ReadWatchList(lines) ==
  LET used == {l \in Range(lines) : l.kind = "item"}
      bad(l) == \/ l.fields = <<>>
                \/ \E i \in 2..Len(l.fields) : Head(l.fields[i]) # "valid_at:"
                \/ ParseWatchItem(l.fields[1]).err
  IN IF \E l \in used : bad(l) THEN [err |-> TRUE, items |-> {}]
     ELSE [err |-> FALSE, items |-> {ParseWatchItem(l.fields[1]) : l \in used}]

Matches(items, dnsNames) == \E item \in items, name \in dnsNames : matchesDNSName(item, name)
=============================================================================
