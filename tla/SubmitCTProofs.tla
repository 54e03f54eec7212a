--------------------------- MODULE SubmitCTProofs ---------------------------
(***************************************************************************)
(* Theorems about submitct: the exit status tells what happened, and every *)
(* log is sent a chain.  The chain is built by a loop, so its properties   *)
(* are shown by induction over the rounds.  The inductive invariant says   *)
(* what has been decoded so far, which submissions have been started given *)
(* where main is in its two loops, that wg counts the running goroutines,  *)
(* and what the answer to each submission was.                             *)
(***************************************************************************)
EXTENDS SubmitCT, FiniteSetTheorems, WellFoundedInduction, TLAPS

Blocks == Certs \cup {"key", "unparsable", "invalid"}

CallState ==
  [pc : {"idle", "retry", "flight", "sleep", "done"}, numRetries : Nat,
   result : {"none", "ok", "error", "canceled"}, body : {"none", "sct", "badsct"}]

SubmitTypes ==
  /\ mainPC \in {"start", "decode", "range", "wait", "exit"}
  /\ stdin \in Seq(Blocks) /\ certsPem \in Seq(Blocks)
  /\ byFingerprint \in SUBSET Certs /\ pending \in SUBSET byFingerprint
  /\ parseErrors \in Nat /\ submitErrors \in Nat
  /\ goroutine \in [Submissions -> {"none", "submit", "waiting", "finish", "done"}]
  /\ call \in [Submissions -> CallState] /\ handled \in [Submissions -> BOOLEAN]

\* What stdin contained has been decoded or is still to be decoded.
ReadInv ==
  /\ ReadCerts = byFingerprint \cup (Range(certsPem) \cap Certs)
  /\ "unparsable" \in Range(stdin) <=> parseErrors > 0 \/ "unparsable" \in Range(certsPem)
  /\ mainPC \in {"range", "wait"} => certsPem = <<>>

\* certs.bySubject finds a certificate for every subject that was read.
SubjectInv ==
  /\ DOMAIN bySubject = {Subject[c] : c \in byFingerprint}
  /\ \A n \in DOMAIN bySubject : bySubject[n] \in byFingerprint /\ Subject[bySubject[n]] = n

\* The logs that the inner loop has still to reach for a certificate.
Left(cert) == IF current # <<>> /\ current[1] = cert THEN Range(current[2]) ELSE {}

\* Where main is in its loops, and what it has started.
LoopInv ==
  /\ mainPC \in {"start", "decode"} => DOMAIN chains = {} /\ pending = {}
  /\ mainPC \in {"range", "wait"} => DOMAIN chains = byFingerprint \ pending
  /\ mainPC = "wait" => pending = {}
  /\ DOMAIN chains \subseteq byFingerprint
  /\ \A c \in DOMAIN chains :
       IF Subject[c] = Issuer[c] THEN chains[c] = <<>> ELSE IsChainOf(chains[c], c)
  /\ current # <<>> =>
       /\ mainPC = "range" /\ current[1] \in DOMAIN chains /\ Subject[current[1]] # Issuer[current[1]]
       /\ current[2] \in Seq(Range(Logs)) /\ current[2] # <<>> /\ IsInjective(current[2])

HasStarted(s) ==
  /\ s[1] \in DOMAIN chains /\ Subject[s[1]] # Issuer[s[1]]
  /\ AcceptsExpiration(s[2], Expiration[s[1]]) /\ s[2] \notin Left(s[1])

StartedInv == \A s \in Submissions : goroutine[s] # "none" <=> HasStarted(s)

\* wg counts the goroutines that have been started and have not called Done.
Active == {s \in Submissions : goroutine[s] \in {"submit", "waiting", "finish"}}
WgInv == wg = Cardinality(Active)

\* The calls of the goroutines and what became of them.
CallInv ==
  /\ \A s \in Submissions :
       /\ goroutine[s] \in {"finish", "done"} => call[s].pc = "done"
       /\ call[s].result = "ok" => handled[s]
  /\ submitErrors > 0 <=> \E s \in Submissions : goroutine[s] \in {"finish", "done"} /\ ~Submitted(s)

\* Only wg.Wait lets main exit with a status made of the two error counters.
ExitInv ==
  /\ exitStatus = -1 <=> mainPC # "exit"
  /\ exitStatus \notin {-1, 1} =>
       /\ exitStatus = (IF parseErrors > 0 THEN 4 ELSE 0) + (IF submitErrors > 0 THEN 8 ELSE 0)
       /\ certsPem = <<>> /\ current = <<>> /\ DOMAIN chains = byFingerprint
       /\ Active = {}

SubmitInv ==
  /\ SubmitTypes /\ ReadInv /\ SubjectInv /\ LoopInv /\ StartedInv /\ WgInv /\ CallInv /\ ExitInv

-----------------------------------------------------------------------------
(* Induction, and buildChain. *)

\* A set of natural numbers has a least one: the form of induction used below.
LEMMA LeastNumber ==
  ASSUME NEW T \in SUBSET Nat, T # {}
  PROVE  \E x \in T : \A y \in T : x <= y
<1>1. PICK x \in T : \A y \in T : ~(<<y, x>> \in OpToRel(<, Nat))
  BY NatLessThanWellFounded, WFMin
<1>2. \A y \in T : ~(y < x)
  BY <1>1 DEF OpToRel
<1> QED BY <1>2

IsRound(round, Q) == round \in [Q -> Q]
Iterates(g, round, Q, a, m) ==
  g \in [0..m -> Q] /\ g[0] = a /\ \A n \in 1..m : g[n] = round[g[n - 1]]

\* A function that iterates a round m times exists.
LEMMA Iteration ==
  ASSUME NEW Q, NEW round, IsRound(round, Q), NEW a \in Q, NEW m \in Nat
  PROVE  \E g : Iterates(g, round, Q, a, m)
<1> USE DEF IsRound, Iterates
<1> DEFINE Exists(k) == \E g : Iterates(g, round, Q, a, k)
           Bad == {k \in Nat : ~Exists(k)}
<1> SUFFICES ASSUME Bad # {} PROVE FALSE
  OBVIOUS
<1>1. PICK x \in Bad : \A y \in Bad : x <= y
  BY LeastNumber
<1>2. x # 0
  <2> DEFINE g == [n \in 0..0 |-> a]
  <2>1. g \in [0..0 -> Q] /\ g[0] = a /\ \A n \in 1..0 : g[n] = round[g[n - 1]]
    OBVIOUS
  <2> QED BY <1>1, <2>1
<1>3. x - 1 \in Nat /\ Exists(x - 1)
  <2>1. x - 1 \in Nat /\ ~(x <= x - 1)
    BY <1>1, <1>2
  <2> HIDE DEF Exists
  <2> QED BY <1>1, <2>1
<1>4. PICK g \in [0..(x - 1) -> Q] : g[0] = a /\ \A n \in 1..(x - 1) : g[n] = round[g[n - 1]]
  BY <1>3
<1> DEFINE h == [n \in 0..x |-> IF n = x THEN round[g[x - 1]] ELSE g[n]]
<1>5. h \in [0..x -> Q] /\ h[0] = a
  BY <1>2, <1>3, <1>4
<1>6. ASSUME NEW n \in 1..x PROVE h[n] = round[h[n - 1]]
  BY <1>2, <1>3, <1>4
<1> QED BY <1>1, <1>5, <1>6

RoundStates == Seq(Certs) \X (Certs \cup {"nil"})

\* One round of the loop in buildChain.
OneRound ==
  [p \in RoundStates |->
     IF p[2] # "nil" /\ Subject[p[2]] # Issuer[p[2]]
       THEN <<Append(p[1], p[2]), FindBySubject(Issuer[p[2]])>> ELSE p]

\* Rounds iterates OneRound.
LEMMA RoundsIterate ==
  ASSUME SubmitTypes, SubjectInv, NEW cert \in Certs
  PROVE  /\ Rounds(cert) \in [0..MaxChain -> RoundStates]
         /\ Rounds(cert)[0] = <<<<>>, cert>>
         /\ \A n \in 1..MaxChain : Rounds(cert)[n] = OneRound[Rounds(cert)[n - 1]]
<1> DEFINE a == <<<<>>, cert>>
           B(g, n) == IF n = 0 THEN a
                      ELSE LET p == g[n - 1] IN
                           IF p[2] # "nil" /\ Subject[p[2]] # Issuer[p[2]]
                             THEN <<Append(p[1], p[2]), FindBySubject(Issuer[p[2]])>> ELSE p
<1>1. \A name : FindBySubject(name) \in Certs \cup {"nil"}
  BY DEF FindBySubject, SubjectInv, SubmitTypes
<1>2. OneRound \in [RoundStates -> RoundStates]
  BY SMTT(20), <1>1 DEF OneRound, RoundStates
<1>3. a \in RoundStates /\ MaxChain \in Nat /\ MaxChain > 0
  <2>1. <<>> \in Seq(Certs) /\ cert \in Certs \cup {"nil"}
    OBVIOUS
  <2>2. a \in RoundStates
    BY Zenon, <2>1 DEF RoundStates
  <2> QED BY <2>2, BoundAssumption
<1> HIDE DEF a
<1>4. PICK g : /\ g \in [0..MaxChain -> RoundStates]
               /\ g[0] = a /\ \A n \in 1..MaxChain : g[n] = OneRound[g[n - 1]]
  <2>1. IsRound(OneRound, RoundStates)
    BY <1>2 DEF IsRound
  <2>2. \E g : Iterates(g, OneRound, RoundStates, a, MaxChain)
    BY Zenon, <1>3, <2>1, Iteration
  <2> QED BY <2>2 DEF Iterates
<1>5. ASSUME NEW n \in 0..MaxChain PROVE g[n] = B(g, n)
  <2>1. CASE n = 0
    BY <1>3, <1>4, <2>1
  <2>2. CASE n # 0
    <3>1. n - 1 \in 0..MaxChain
      BY <1>3, <2>2
    <3>2. g[n - 1] \in RoundStates
      BY <1>4, <3>1
    <3>3. g[n] = OneRound[g[n - 1]]
      BY <1>4, <2>2
    <3> QED BY <2>2, <3>2, <3>3 DEF OneRound
  <2> QED BY <2>1, <2>2
<1> HIDE DEF B
<1>6. g = [n \in 0..MaxChain |-> B(g, n)]
  BY <1>4, <1>5
<1> DEFINE f == Rounds(cert)
<1>7. f = CHOOSE r : r = [n \in 0..MaxChain |-> B(r, n)]
  BY DEF Rounds, B, a
<1> HIDE DEF f
<1>8. f = [n \in 0..MaxChain |-> B(f, n)]
  BY <1>6, <1>7
<1>9. \A n \in 0..MaxChain : f[n] = B(f, n)
  BY <1>8
<1>10. f[0] = a
  <2>1. 0 \in 0..MaxChain
    BY <1>3
  <2>2. f[0] = B(f, 0)
    BY <1>9, <2>1
  <2> QED BY <2>2 DEF B
<1>11. ASSUME NEW n \in 1..MaxChain, f[n - 1] \in RoundStates PROVE f[n] = OneRound[f[n - 1]]
  <2>1. n \in 0..MaxChain /\ n # 0
    BY <1>3, <1>11
  <2>2. f[n] = B(f, n)
    BY <1>9, <2>1
  <2> QED BY <1>11, <2>1, <2>2 DEF B, OneRound
<1>12. \A n \in 0..MaxChain : f[n] \in RoundStates
  <2> DEFINE Bad == {n \in 0..MaxChain : f[n] \notin RoundStates}
  <2> SUFFICES ASSUME Bad # {} PROVE FALSE
    OBVIOUS
  <2>1. PICK x \in Bad : \A y \in Bad : x <= y
    <3>1. Bad \in SUBSET Nat
      BY <1>3
    <3> HIDE DEF Bad
    <3> QED BY Zenon, <3>1, LeastNumber
  <2>2. x \in 1..MaxChain
    BY <1>3, <1>10
  <2>3. x - 1 \in 0..MaxChain /\ ~(x <= x - 1)
    BY <1>3, <2>2
  <2>4. f[x - 1] \in RoundStates
    BY <2>1, <2>3
  <2>5. f[x] \in RoundStates
    BY <1>2, <1>11, <2>2, <2>4
  <2> QED BY <2>5
<1>13. f \in [0..MaxChain -> RoundStates]
  BY <1>8, <1>12
<1>14. \A n \in 1..MaxChain : n - 1 \in 0..MaxChain
  BY <1>3
<1> QED BY <1>10, <1>11, <1>12, <1>13, <1>14 DEF f, a

\* What is true of the chain and the variable cert after at most n rounds.
RoundInv(p, n, cert) ==
  /\ Len(p[1]) <= n
  /\ \A i \in 1..Len(p[1]) : p[1][i] \in byFingerprint /\ Subject[p[1][i]] # Issuer[p[1][i]]
  /\ \A i \in 1..(Len(p[1]) - 1) : Subject[p[1][i + 1]] = Issuer[p[1][i]]
  /\ IF p[1] = <<>> THEN p[2] = cert
     ELSE p[1][1] = cert /\ p[2] = FindBySubject(Issuer[p[1][Len(p[1])]])
  /\ Len(p[1]) < n => p[2] = "nil" \/ Subject[p[2]] = Issuer[p[2]]

\* What the map bySubject finds has the subject, and nothing is found only if no
\* certificate has it (CertificateBunch).
LEMMA Found ==
  ASSUME SubmitTypes, SubjectInv, NEW name
  PROVE  IF FindBySubject(name) = "nil" THEN \A c \in byFingerprint : Subject[c] # name
         ELSE FindBySubject(name) \in byFingerprint /\ Subject[FindBySubject(name)] = name
<1>1. \A c \in byFingerprint : c # "nil"
  BY SubmitAssumption DEF SubmitTypes
<1> QED BY <1>1 DEF FindBySubject, SubjectInv

\* A round keeps it.
LEMMA RoundKeeps ==
  ASSUME SubmitTypes, SubjectInv, NEW cert \in byFingerprint,
         NEW p \in RoundStates, NEW n \in Nat, RoundInv(p, n, cert)
  PROVE  RoundInv(OneRound[p], n + 1, cert)
<1> DEFINE ch == p[1]
           next == FindBySubject(Issuer[p[2]])
<1>1. ch \in Seq(Certs) /\ p = <<ch, p[2]>> /\ Len(ch) \in Nat
  BY DEF RoundStates
<1>2. CASE p[2] # "nil" /\ Subject[p[2]] # Issuer[p[2]]
  <2> DEFINE q == <<Append(ch, p[2]), next>>
  <2>1. OneRound[p] = q /\ Len(ch) = n
    BY <1>1, <1>2 DEF OneRound, RoundInv
  <2>2. p[2] \in byFingerprint /\ (ch # <<>> => Subject[p[2]] = Issuer[ch[Len(ch)]])
    BY <1>1, <1>2, Found DEF RoundInv
  <2>3. /\ Len(q[1]) = n + 1 /\ q[1][n + 1] = p[2] /\ q[1] # <<>> /\ q[2] = next
        /\ \A i \in 1..n : q[1][i] = ch[i]
    BY <1>1, <2>1, <2>2 DEF SubmitTypes
  <2> HIDE DEF q
  <2>4. \A i \in 1..Len(q[1]) : q[1][i] \in byFingerprint /\ Subject[q[1][i]] # Issuer[q[1][i]]
    <3> SUFFICES ASSUME NEW i \in 1..(n + 1)
                 PROVE  q[1][i] \in byFingerprint /\ Subject[q[1][i]] # Issuer[q[1][i]]
      BY <2>3
    <3>1. CASE i = n + 1
      BY <1>2, <2>2, <2>3, <3>1
    <3>2. CASE i \in 1..n
      BY <2>1, <2>3, <3>2 DEF RoundInv
    <3> QED BY <3>1, <3>2
  <2>5. \A i \in 1..(Len(q[1]) - 1) : Subject[q[1][i + 1]] = Issuer[q[1][i]]
    <3> SUFFICES ASSUME NEW i \in 1..n PROVE Subject[q[1][i + 1]] = Issuer[q[1][i]]
      BY <2>3
    <3>1. CASE i = n
      BY <1>1, <2>1, <2>2, <2>3, <3>1
    <3>2. CASE i \in 1..(n - 1)
      <4>1. q[1][i] = ch[i] /\ q[1][i + 1] = ch[i + 1]
        BY <2>3, <3>2
      <4>2. Subject[ch[i + 1]] = Issuer[ch[i]]
        BY <2>1, <3>2 DEF RoundInv
      <4> QED BY <4>1, <4>2
    <3> QED BY <3>1, <3>2
  <2>6. q[1][1] = cert /\ q[2] = FindBySubject(Issuer[q[1][Len(q[1])]])
    <3>1. CASE n = 0
      BY <1>1, <2>1, <2>3, <3>1 DEF RoundInv
    <3>2. CASE n # 0
      BY <1>1, <2>1, <2>3, <3>2 DEF RoundInv
    <3> QED BY <3>1, <3>2
  <2> QED BY <2>1, <2>3, <2>4, <2>5, <2>6 DEF RoundInv
<1>3. CASE ~(p[2] # "nil" /\ Subject[p[2]] # Issuer[p[2]])
  <2>1. OneRound[p] = p
    BY <1>3 DEF OneRound
  <2> QED BY <1>1, <1>3, <2>1 DEF RoundInv
<1> QED BY <1>2, <1>3

\* The chain that buildChain returns for a certificate: none if it is self-signed,
\* and otherwise one that satisfies IsChainOf, whatever the issuers look like.
LEMMA BuildChainLinks ==
  ASSUME SubmitTypes, SubjectInv, NEW cert \in byFingerprint, ReadCerts = byFingerprint
  PROVE  IF Subject[cert] = Issuer[cert] THEN buildChain(cert) = <<>>
         ELSE IsChainOf(buildChain(cert), cert) /\ buildChain(cert) # <<>>
<1> DEFINE f == Rounds(cert)
<1>1. cert \in Certs /\ MaxChain \in Nat /\ MaxChain > 0
  BY BoundAssumption DEF SubmitTypes
<1>2. /\ \A n \in 0..MaxChain : f[n] \in RoundStates
      /\ f[0] = <<<<>>, cert>> /\ \A n \in 1..MaxChain : f[n] = OneRound[f[n - 1]]
  BY <1>1, RoundsIterate
<1> HIDE DEF f
<1>3. \A n \in 0..MaxChain : RoundInv(f[n], n, cert)
  <2> DEFINE Bad == {n \in 0..MaxChain : ~RoundInv(f[n], n, cert)}
  <2> SUFFICES ASSUME Bad # {} PROVE FALSE
    OBVIOUS
  <2>1. PICK x \in Bad : \A y \in Bad : x <= y
    <3>1. Bad \in SUBSET Nat
      BY SMTT(20), <1>1
    <3> HIDE DEF Bad
    <3> QED BY Zenon, <3>1, LeastNumber
  <2>2. RoundInv(f[0], 0, cert)
    BY <1>2 DEF RoundInv
  <2>3. x \in 1..MaxChain
    BY <1>1, <2>2
  <2>4. x - 1 \in 0..MaxChain /\ ~(x <= x - 1) /\ x - 1 \in Nat /\ (x - 1) + 1 = x
    BY <1>1, <2>3
  <2>5. RoundInv(f[x - 1], x - 1, cert)
    BY <2>1, <2>4
  <2>6. RoundInv(OneRound[f[x - 1]], (x - 1) + 1, cert)
    BY Zenon, <1>2, <2>4, <2>5, RoundKeeps
  <2>7. RoundInv(f[x], x, cert)
    BY <1>2, <2>3, <2>4, <2>6
  <2> QED BY <2>7
<1> DEFINE p == f[MaxChain]
           ch == p[1]
<1>4. RoundInv(p, MaxChain, cert) /\ p \in RoundStates /\ buildChain(cert) = ch
  BY <1>1, <1>2, <1>3 DEF buildChain, f
<1> HIDE DEF p
<1>5. ch \in Seq(Certs) /\ Len(ch) \in Nat /\ (ch = <<>> <=> Len(ch) = 0)
  BY <1>4 DEF RoundStates
<1>6. ASSUME Subject[cert] = Issuer[cert] PROVE ch = <<>>
  BY <1>4, <1>5, <1>6 DEF RoundInv
<1>7. ASSUME Subject[cert] # Issuer[cert] PROVE ch # <<>> /\ IsChainOf(ch, cert)
  <2>1. ch # <<>> /\ Len(ch) \in 1..MaxChain
    <3>1. cert # "nil"
      BY <1>1, SubmitAssumption
    <3> QED BY <1>1, <1>4, <1>5, <1>7, <3>1 DEF RoundInv
  <2>2. ASSUME Len(ch) < MaxChain
        PROVE  \/ \A c \in byFingerprint : Subject[c] # Issuer[ch[Len(ch)]]
               \/ \E c \in byFingerprint : Subject[c] = Issuer[ch[Len(ch)]] /\ Issuer[c] = Subject[c]
    BY <1>4, <2>1, <2>2, Found DEF RoundInv
  <2> QED BY <1>4, <2>1, <2>2 DEF RoundInv, IsChainOf
<1> QED BY <1>4, <1>6, <1>7

-----------------------------------------------------------------------------
(* The invariant. *)

\* A step that leaves main alone.
LEMMA MainStays ==
  ASSUME ReadInv, SubjectInv, LoopInv, UNCHANGED mainVars
  PROVE  ReadInv' /\ SubjectInv' /\ LoopInv'
<1> USE DEF mainVars
<1>1. ReadInv'
  BY DEF ReadInv, ReadCerts
<1>2. SubjectInv'
  BY DEF SubjectInv
<1>3. LoopInv'
  BY DEF LoopInv, IsChainOf, ReadCerts
<1> QED BY <1>1, <1>2, <1>3

\* A step that leaves the goroutines alone.
LEMMA GoroutinesStay ==
  ASSUME WgInv, CallInv, Unstarted
  PROVE  WgInv' /\ CallInv'
  BY DEF WgInv, Active, CallInv, Submitted, Unstarted, clientVars

\* What Update does, and leaves alone.
LEMMA UpdateEffect ==
  ASSUME SubmitTypes, NEW s \in Submissions,
         NEW pc \in {"idle", "retry", "flight", "sleep", "done"},
         NEW result \in {"none", "ok", "error", "canceled"}, NEW body \in {"none", "sct", "badsct"},
         C!Update(s, pc, result, body)
  PROVE  /\ call' \in [Submissions -> CallState]
         /\ \A t \in Submissions \ {s} : call'[t] = call[t]
         /\ call'[s].result = result
<1> DEFINE r == [call[s] EXCEPT !.pc = pc, !.result = result, !.body = body]
<1>1. call \in [Submissions -> CallState] /\ call[s] \in CallState
  BY DEF SubmitTypes
<1>2. r \in CallState /\ r.result = result
  BY <1>1 DEF CallState
<1>3. call' = [call EXCEPT ![s] = r]
  BY <1>1 DEF C!Update, CallState
<1> HIDE DEF r
<1> QED BY <1>1, <1>2, <1>3

\* A step of the HTTP client changes one call, which succeeds only if the log has
\* carried out the request (doAndParse).
LEMMA CallStep ==
  ASSUME SubmitTypes, NEW s \in Submissions, C!ClientStep(s) \/ C!Answer(s)
  PROVE  /\ call' \in [Submissions -> CallState] /\ handled' = handled
         /\ \A t \in Submissions \ {s} : call'[t] = call[t]
         /\ call'[s].result = "ok" => handled[s] \/ call[s].result = "ok"
<1>1. CASE C!ReturnCancelled(s) \/ C!Send(s)
  BY <1>1, UpdateEffect DEF C!ReturnCancelled, C!Send
<1>2. CASE C!Wake(s)
  <2> DEFINE r == [call[s] EXCEPT !.pc = "retry", !.numRetries = @ + 1]
  <2>1. call \in [Submissions -> CallState] /\ call[s] \in CallState
    BY DEF SubmitTypes
  <2>2. r \in CallState /\ r.result = call[s].result
    <3>1. PICK k \in Nat : k = call[s].numRetries + 1
      BY <2>1 DEF CallState
    <3> DEFINE q == [call[s] EXCEPT !.pc = "retry", !.numRetries = k]
    <3>2. q \in CallState /\ q.result = call[s].result
      BY <2>1 DEF CallState
    <3>3. r = q
      BY Zenon, <3>1
    <3> HIDE DEF r, q
    <3> QED BY <3>2, <3>3
  <2>3. call' = [call EXCEPT ![s] = r]
    BY <1>2, <2>1 DEF C!Wake, CallState
  <2>4. handled' = handled
    BY <1>2 DEF C!Wake
  <2> HIDE DEF r
  <2> QED BY <2>1, <2>2, <2>3, <2>4
<1>3. CASE C!ReceiveBody(s)
  BY <1>3, UpdateEffect DEF C!ReceiveBody
<1>4. CASE C!RequestFails(s) \/ C!ReceiveGarbled(s) \/ \E retryable \in BOOLEAN : C!ReceiveStatus(s, retryable)
  <2>1. /\ handled' = handled
        /\ \E p \in {"sleep", "done"}, x \in {"none", "error", "canceled"} : C!Update(s, p, x, "none")
    BY <1>4 DEF C!RequestFails, C!ReceiveGarbled, C!ReceiveStatus
  <2>2. PICK p \in {"sleep", "done"}, x \in {"none", "error", "canceled"} : C!Update(s, p, x, "none")
    BY <2>1
  <2> QED BY <2>1, <2>2, UpdateEffect
<1> QED BY <1>1, <1>2, <1>3, <1>4 DEF C!Answer, C!ClientStep

\* The number of running goroutines is finite.
LEMMA ActiveFinite ==
  IsFiniteSet(Active) /\ Cardinality(Active) \in Nat /\ IsFiniteSet(Submissions)
<1>1. IsFiniteSet(Range(Logs))
  <2> DEFINE r == [i \in 1..Len(Logs) |-> Logs[i]]
  <2>1. Logs \in Seq(Range(Logs)) /\ Len(Logs) \in Nat /\ IsFiniteSet(1..Len(Logs))
    BY SubmitAssumption, FS_Interval
  <2>2. Logs \in Surjection(1..Len(Logs), Range(Logs))
    BY <2>1 DEF Surjection, Range
  <2> QED BY <2>1, <2>2, FS_Surjection
<1>2. IsFiniteSet(Submissions)
  BY <1>1, SubmitAssumption, FS_Product DEF Submissions
<1>3. Active \in SUBSET Submissions
  BY DEF Active
<1> QED BY <1>2, <1>3, FS_Subset, FS_CardinalityType

\* The invariant holds when submitct starts.
LEMMA SubmitInitInv == SubmitInit => SubmitInv
<1> SUFFICES ASSUME SubmitInit PROVE SubmitInv
  OBVIOUS
<1>1. SubmitTypes
  BY SubmitAssumption DEF SubmitInit, SubmitTypes, Blocks, CallState, C!ClientInit, C!NoCall
<1>2. ReadInv
  BY DEF SubmitInit, ReadInv, ReadCerts
<1>3. SubjectInv
  BY DEF SubmitInit, SubjectInv
<1>4. LoopInv
  BY DEF SubmitInit, LoopInv
<1>5. StartedInv
  BY DEF SubmitInit, StartedInv, HasStarted
<1>6. WgInv
  <2>1. Active = {}
    BY DEF SubmitInit, Active
  <2> QED BY <2>1, FS_EmptySet DEF SubmitInit, WgInv
<1>7. CallInv
  BY DEF SubmitInit, CallInv, C!ClientInit, C!NoCall
<1>8. ExitInv
  BY DEF SubmitInit, ExitInv
<1> QED BY <1>1, <1>2, <1>3, <1>4, <1>5, <1>6, <1>7, <1>8 DEF SubmitInv

\* The empty sequence is the one of length 0.
LEMMA EmptySequence == \A S : \A q \in Seq(S) : Len(q) = 0 <=> q = <<>>
  OBVIOUS

\* The head and the tail of a sequence have its elements, each once if the
\* sequence has no duplicates.
LEMMA HeadAndTail ==
  ASSUME NEW S, NEW q \in Seq(S), q # <<>>
  PROVE  /\ Head(q) \in S /\ Tail(q) \in Seq(S) /\ Range(q) = {Head(q)} \cup Range(Tail(q))
         /\ IsInjective(q) => IsInjective(Tail(q)) /\ Head(q) \notin Range(Tail(q))
         /\ Len(q) = 1 <=> Tail(q) = <<>>
<1>1. Len(q) \in Nat /\ Len(q) >= 1 /\ DOMAIN q = 1..Len(q) /\ Head(q) = q[1] /\ Head(q) \in S
  OBVIOUS
<1>2. /\ Tail(q) \in Seq(S) /\ Len(Tail(q)) = Len(q) - 1 /\ DOMAIN Tail(q) = 1..(Len(q) - 1)
      /\ \A i \in 1..(Len(q) - 1) : Tail(q)[i] = q[i + 1]
  BY <1>1
<1>3. \A j \in 2..Len(q) : j - 1 \in 1..(Len(q) - 1) /\ Tail(q)[j - 1] = q[j]
  BY <1>1, <1>2
<1>4. \A j \in 1..Len(q) : j = 1 \/ j \in 2..Len(q)
  BY <1>1
<1>5. \A i \in 1..(Len(q) - 1) : i + 1 \in 1..Len(q) /\ i + 1 # 1
  BY <1>1
<1>6. Range(q) = {Head(q)} \cup Range(Tail(q))
  <2>1. \A x \in Range(q) : x \in {Head(q)} \cup Range(Tail(q))
    <3> SUFFICES ASSUME NEW j \in 1..Len(q), j # 1 PROVE q[j] \in Range(Tail(q))
      BY <1>1 DEF Range
    <3>1. j - 1 \in DOMAIN Tail(q) /\ Tail(q)[j - 1] = q[j]
      BY <1>2, <1>3, <1>4
    <3> QED BY <3>1 DEF Range
  <2>2. \A x \in {Head(q)} \cup Range(Tail(q)) : x \in Range(q)
    BY <1>1, <1>2, <1>5 DEF Range
  <2> QED BY <2>1, <2>2
<1>7. ASSUME IsInjective(q) PROVE IsInjective(Tail(q)) /\ Head(q) \notin Range(Tail(q))
  <2>1. \A i, j \in 1..(Len(q) - 1) : Tail(q)[i] = Tail(q)[j] => i = j
    BY <1>1, <1>2, <1>5, <1>7 DEF IsInjective
  <2>2. Head(q) \notin Range(Tail(q))
    BY <1>1, <1>2, <1>5, <1>7 DEF IsInjective, Range
  <2> QED BY <1>2, <2>1, <2>2 DEF IsInjective
<1>8. Len(q) = 1 <=> Tail(q) = <<>>
  <2>1. Len(Tail(q)) = 0 <=> Tail(q) = <<>>
    BY Zenon, <1>2, EmptySequence
  <2> QED BY <1>1, <1>2, <2>1
<1>9. Head(q) \in S /\ Tail(q) \in Seq(S)
  BY <1>1, <1>2
<1> QED BY Zenon, <1>6, <1>7, <1>8, <1>9

\* main before the two loops.
LEMMA DecodeKeeps ==
  ASSUME SubmitInv, StartFails \/ Started \/ DecodeBlock \/ Decoded
  PROVE  SubmitInv'
<1> USE DEF SubmitInv
<1>1. WgInv' /\ CallInv' /\ Unstarted /\ mainPC \in {"start", "decode"}
  BY GoroutinesStay DEF StartFails, Started, DecodeBlock, Decoded
<1>2. DOMAIN chains = {} /\ pending = {} /\ current = <<>> /\ UNCHANGED <<chains, current, stdin>>
  BY DEF StartFails, Started, DecodeBlock, Decoded, LoopInv
<1>3. StartedInv'
  BY <1>1, <1>2 DEF StartedInv, HasStarted, Unstarted
<1>4. CASE StartFails \/ Started \/ Decoded
  <2>1. SubmitTypes'
    BY <1>1, <1>2, <1>4 DEF SubmitTypes, StartFails, Started, Decoded, Exit, Unstarted, clientVars
  <2>2. ReadInv'
    BY <1>4 DEF ReadInv, ReadCerts, StartFails, Started, Decoded, Exit
  <2>3. SubjectInv'
    BY <1>4 DEF SubjectInv, StartFails, Started, Decoded
  <2>4. LoopInv'
    BY <1>2, <1>4 DEF LoopInv, StartFails, Started, Decoded, Exit
  <2>5. ExitInv'
    BY <1>4 DEF ExitInv, StartFails, Started, Decoded, Exit
  <2> QED BY SMTT(20), <1>1, <1>3, <2>1, <2>2, <2>3, <2>4, <2>5
<1>5. CASE DecodeBlock
  <2> DEFINE b == Head(certsPem)
  <2>1. /\ b \in Blocks /\ Tail(certsPem) \in Seq(Blocks)
        /\ Range(certsPem) = {b} \cup Range(Tail(certsPem))
    BY <1>5, HeadAndTail DEF DecodeBlock, SubmitTypes
  <2>2. certsPem' = Tail(certsPem) /\ mainPC = "decode" /\ mainPC' \in {"decode", "exit"} /\ UNCHANGED pending
    BY <1>5 DEF DecodeBlock, Exit
  <2>3. byFingerprint' = byFingerprint \cup ({b} \cap Certs)
    BY <1>5 DEF DecodeBlock
  <2>4. SubmitTypes'
    <3>1. parseErrors' \in Nat
      BY <1>5 DEF DecodeBlock, SubmitTypes
    <3> QED BY <1>1, <1>2, <2>1, <2>2, <2>3, <3>1 DEF SubmitTypes, Unstarted, clientVars
  <2>5. ReadInv'
    <3>1. "unparsable" \notin Certs
      BY SubmitAssumption
    <3>2. b = "unparsable" => parseErrors' > 0
      BY <1>5 DEF DecodeBlock, SubmitTypes
    <3>3. b # "unparsable" => parseErrors' = parseErrors
      BY <1>5 DEF DecodeBlock
    <3>4. parseErrors > 0 => parseErrors' > 0
      BY <1>5 DEF DecodeBlock, SubmitTypes
    <3>5. "unparsable" \in Range(stdin) <=> parseErrors' > 0 \/ "unparsable" \in Range(certsPem')
      BY <2>1, <2>2, <3>2, <3>3, <3>4 DEF ReadInv
    <3>6. ReadCerts = byFingerprint' \cup (Range(certsPem') \cap Certs)
      BY <2>1, <2>2, <2>3 DEF ReadInv
    <3> QED BY <1>2, <2>2, <3>5, <3>6 DEF ReadInv, ReadCerts
  <2>6. SubjectInv'
    <3>1. CASE b \in Certs
      <4>1. bySubject' = [n \in DOMAIN bySubject \cup {Subject[b]} |-> IF n = Subject[b] THEN b ELSE bySubject[n]]
        BY <1>5, <3>1 DEF DecodeBlock
      <4> QED BY <2>3, <3>1, <4>1 DEF SubjectInv
    <3>2. CASE b \notin Certs
      BY <1>5, <3>2 DEF DecodeBlock, SubjectInv
    <3> QED BY <3>1, <3>2
  <2>7. LoopInv'
    BY <1>2, <2>2 DEF LoopInv
  <2>8. ExitInv'
    BY <1>5 DEF ExitInv, DecodeBlock, Exit
  <2> QED BY <1>1, <1>3, <2>4, <2>5, <2>6, <2>7, <2>8
<1> QED BY <1>4, <1>5

\* The outer loop takes a certificate: its chain is built, and the inner loop has
\* all logs before it.
LEMMA RangeOverKeeps ==
  ASSUME SubmitInv, NEW cert \in Certs, RangeOver(cert)
  PROVE  SubmitInv'
<1> USE DEF SubmitInv
<1> DEFINE ch == buildChain(cert)
<1>1. WgInv' /\ CallInv' /\ Unstarted
  BY GoroutinesStay DEF RangeOver
<1>2. /\ mainPC = "range" /\ current = <<>> /\ cert \in pending /\ pending' = pending \ {cert}
      /\ UNCHANGED <<mainPC, certsPem, bySubject, byFingerprint, parseErrors, exitStatus, stdin>>
  BY DEF RangeOver
<1>3. /\ DOMAIN chains' = DOMAIN chains \cup {cert} /\ chains'[cert] = ch
      /\ \A c \in DOMAIN chains : c # cert => chains'[c] = chains[c]
  BY DEF RangeOver
<1>4. cert \in byFingerprint /\ cert \notin DOMAIN chains /\ DOMAIN chains = byFingerprint \ pending
  BY <1>2 DEF SubmitTypes, LoopInv
<1>5. ReadCerts = byFingerprint /\ UNCHANGED ReadCerts
  <2>1. Range(certsPem) = {}
    BY <1>2 DEF ReadInv, Range
  <2> QED BY <1>2, <2>1 DEF ReadInv, ReadCerts
<1>6. IF Subject[cert] = Issuer[cert] THEN ch = <<>> ELSE IsChainOf(ch, cert) /\ ch # <<>>
  BY <1>4, <1>5, BuildChainLinks
<1>7. current' = IF ch = <<>> \/ Logs = <<>> THEN <<>> ELSE <<cert, Logs>>
  BY DEF RangeOver
<1> HIDE DEF ch
<1>8. SubmitTypes'
  BY <1>1, <1>2 DEF SubmitTypes, Unstarted, clientVars
<1>9. ReadInv' /\ SubjectInv'
  BY <1>2, <1>5 DEF ReadInv, SubjectInv
<1>10. LoopInv'
  <2>1. ASSUME NEW c \in DOMAIN chains'
        PROVE  IF Subject[c] = Issuer[c] THEN chains'[c] = <<>> ELSE IsChainOf(chains[c], c)'
    <3>1. CASE c = cert
      BY SMTT(20), <1>3, <1>5, <1>6, <3>1 DEF IsChainOf
    <3>2. CASE c # cert
      <4>1. c \in DOMAIN chains /\ chains'[c] = chains[c]
        BY <1>3, <2>1, <3>2
      <4>2. IsChainOf(chains[c], c)' <=> IsChainOf(chains[c], c)
        BY <1>5, <4>1 DEF IsChainOf
      <4> QED BY <4>1, <4>2 DEF LoopInv
    <3> QED BY <3>1, <3>2
  <2>2. /\ DOMAIN chains' = byFingerprint' \ pending' /\ DOMAIN chains' \subseteq byFingerprint'
    BY <1>2, <1>3, <1>4 DEF SubmitTypes
  <2>3. ASSUME current' # <<>>
        PROVE  /\ current'[1] \in DOMAIN chains' /\ Subject[current'[1]] # Issuer[current'[1]]
               /\ current'[2] \in Seq(Range(Logs)) /\ current'[2] # <<>> /\ IsInjective(current'[2])
    <3>1. current' = <<cert, Logs>> /\ Logs # <<>> /\ Subject[cert] # Issuer[cert]
      BY <1>6, <1>7, <2>3
    <3>2. current'[1] = cert /\ current'[2] = Logs /\ cert \in DOMAIN chains'
      BY <1>3, <3>1
    <3>3. Logs \in Seq(Range(Logs)) /\ IsInjective(Logs)
      BY Zenon, SubmitAssumption
    <3> QED BY Zenon, <3>1, <3>2, <3>3
  <2> QED BY <1>2, <2>1, <2>2, <2>3 DEF LoopInv
<1>11. StartedInv'
  <2> SUFFICES ASSUME NEW s \in Submissions PROVE goroutine[s] # "none" <=> HasStarted(s)'
    BY <1>1 DEF StartedInv, Unstarted
  <2>1. s[2] \in Range(Logs)
    BY DEF Submissions
  <2>2. CASE s[1] = cert
    <3>1. goroutine[s] = "none"
      BY <1>4, <2>2 DEF StartedInv, HasStarted
    <3>2. ASSUME HasStarted(s)' PROVE FALSE
      <4>1. current' = <<cert, Logs>>
        <5>1. Logs # <<>>
          BY <2>1 DEF Range
        <5> QED BY <1>6, <1>7, <2>2, <3>2, <5>1 DEF HasStarted
      <4>2. Left(s[1])' = Range(Logs)
        BY <2>2, <4>1 DEF Left
      <4> QED BY <2>1, <3>2, <4>2 DEF HasStarted
    <3> QED BY <3>1, <3>2
  <2>3. CASE s[1] # cert
    <3>1. Left(s[1]) = {} /\ Left(s[1])' = {}
      BY <1>2, <1>7, <2>3 DEF Left
    <3> QED BY <1>3, <2>3, <3>1 DEF StartedInv, HasStarted
  <2> QED BY <2>2, <2>3
<1>12. ExitInv'
  BY <1>2 DEF ExitInv
<1> QED BY <1>1, <1>8, <1>9, <1>10, <1>11, <1>12

\* The inner loop takes a log: the submission is skipped, or counted and started.
LEMMA NextLogKeeps ==
  ASSUME SubmitInv, NextLog
  PROVE  SubmitInv'
<1> USE DEF SubmitInv
<1>0. PICK cert, q : cert = current[1] /\ q = current[2]
  OBVIOUS
<1> DEFINE s0 == <<cert, Head(q)>>
           starts == AcceptsExpiration(Head(q), Expiration[cert])
<1>1. /\ mainPC = "range" /\ current # <<>>
      /\ UNCHANGED <<mainPC, certsPem, bySubject, byFingerprint, parseErrors, pending, chains,
                     exitStatus, stdin, submitErrors, call, handled>>
  BY DEF NextLog, clientVars
<1>2. /\ cert \in DOMAIN chains /\ Subject[cert] # Issuer[cert] /\ cert \in Certs
      /\ q \in Seq(Range(Logs)) /\ q # <<>> /\ IsInjective(q)
  BY <1>0, <1>1 DEF LoopInv, SubmitTypes
<1>3. /\ Head(q) \in Range(Logs) /\ Tail(q) \in Seq(Range(Logs))
      /\ Range(q) = {Head(q)} \cup Range(Tail(q))
      /\ IsInjective(Tail(q)) /\ Head(q) \notin Range(Tail(q))
      /\ Len(q) = 1 <=> Tail(q) = <<>>
  BY Zenon, <1>2, HeadAndTail
<1>4. current' = IF Len(q) = 1 THEN <<>> ELSE <<cert, Tail(q)>>
  BY <1>0 DEF NextLog
<1>5. IF starts THEN wg' = wg + 1 /\ goroutine' = [goroutine EXCEPT ![s0] = "submit"]
                ELSE UNCHANGED <<wg, goroutine>>
  BY <1>0 DEF NextLog
<1>6. Left(cert) = Range(q) /\ Left(cert)' = Range(Tail(q))
  <2>1. Left(cert) = Range(q)
    BY <1>0, <1>1 DEF Left
  <2>2. CASE Tail(q) = <<>>
    <3>1. Range(Tail(q)) = {}
      BY <2>2 DEF Range
    <3>2. Left(cert)' = {}
      BY <1>3, <1>4, <2>2 DEF Left
    <3> QED BY <2>1, <3>1, <3>2
  <2>3. CASE Tail(q) # <<>>
    <3>1. current' = <<cert, Tail(q)>>
      BY <1>3, <1>4, <2>3
    <3>2. current' # <<>> /\ current'[1] = cert /\ current'[2] = Tail(q)
      BY <3>1
    <3> QED BY <2>1, <3>2 DEF Left
  <2> QED BY <2>2, <2>3
<1>7. \A c : c # cert => Left(c) = {} /\ Left(c)' = {}
  BY <1>0, <1>1, <1>4 DEF Left
<1>8. s0 \in Submissions /\ goroutine[s0] = "none"
  <2>1. s0 \in Submissions /\ s0[1] = cert /\ s0[2] = Head(q)
    BY <1>2, <1>3 DEF Submissions
  <2>2. ~HasStarted(s0)
    BY <1>3, <1>6, <2>1 DEF HasStarted
  <2> QED BY <2>1, <2>2 DEF StartedInv
<1>9. /\ s0[1] = cert /\ s0[2] = Head(q)
      /\ \A s \in Submissions : s # s0 => s[1] # cert \/ s[2] # Head(q)
  BY DEF Submissions
<1>10. /\ goroutine' \in [Submissions -> {"none", "submit", "waiting", "finish", "done"}]
       /\ goroutine'[s0] = IF starts THEN "submit" ELSE "none"
       /\ \A s \in Submissions : s # s0 => goroutine'[s] = goroutine[s]
  BY <1>5, <1>8 DEF SubmitTypes
<1>11. current' # <<>> =>
         /\ current'[1] = cert /\ current'[2] = Tail(q) /\ Tail(q) # <<>>
  <2>1. CASE Tail(q) = <<>>
    BY <1>3, <1>4, <2>1
  <2>2. CASE Tail(q) # <<>>
    BY <1>3, <1>4, <2>2
  <2> QED BY <2>1, <2>2
<1> HIDE DEF s0
<1>12. SubmitTypes'
  BY <1>1, <1>10 DEF SubmitTypes
<1>13. ReadInv' /\ SubjectInv'
  <2>1. UNCHANGED ReadCerts
    BY <1>1 DEF ReadCerts
  <2> QED BY <1>1, <2>1 DEF ReadInv, SubjectInv
<1>14. LoopInv'
  <2>1. UNCHANGED ReadCerts
    BY <1>1 DEF ReadCerts
  <2>2. ASSUME NEW c \in DOMAIN chains'
        PROVE  IF Subject[c] = Issuer[c] THEN chains'[c] = <<>> ELSE IsChainOf(chains[c], c)'
    <3>1. IsChainOf(chains[c], c)' <=> IsChainOf(chains[c], c)
      BY <1>1, <2>1 DEF IsChainOf
    <3> QED BY <1>1, <2>2, <3>1 DEF LoopInv
  <2>3. ASSUME current' # <<>>
        PROVE  /\ current'[1] \in DOMAIN chains' /\ Subject[current'[1]] # Issuer[current'[1]]
               /\ current'[2] \in Seq(Range(Logs)) /\ current'[2] # <<>> /\ IsInjective(current'[2])
    BY Zenon, <1>1, <1>2, <1>3, <1>11, <2>3
  <2> QED BY <1>1, <2>2, <2>3 DEF LoopInv
<1>15. StartedInv'
  <2> SUFFICES ASSUME NEW s \in Submissions PROVE goroutine'[s] # "none" <=> HasStarted(s)'
    BY DEF StartedInv
  <2>1. CASE s = s0
    <3>1. HasStarted(s)' <=> starts
      BY <1>1, <1>2, <1>3, <1>6, <1>9, <2>1 DEF HasStarted
    <3> QED BY <1>10, <2>1, <3>1
  <2>2. CASE s # s0
    <3>1. s[2] \in Left(s[1])' <=> s[2] \in Left(s[1])
      BY <1>3, <1>6, <1>7, <1>9, <2>2
    <3>2. HasStarted(s)' <=> HasStarted(s)
      BY <1>1, <3>1 DEF HasStarted
    <3> QED BY <1>10, <2>2, <3>2 DEF StartedInv
  <2> QED BY <2>1, <2>2
<1>16. WgInv'
  <2>1. CASE starts
    <3>1. Active' = Active \cup {s0} /\ s0 \notin Active
      BY <1>8, <1>10, <2>1 DEF Active
    <3>2. Cardinality(Active \cup {s0}) = Cardinality(Active) + 1
      BY <3>1, ActiveFinite, FS_AddElement
    <3> QED BY <1>5, <2>1, <3>1, <3>2 DEF WgInv
  <2>2. CASE ~starts
    <3>1. Active' = Active
      BY <1>5, <2>2 DEF Active
    <3> QED BY <1>5, <2>2, <3>1 DEF WgInv
  <2> QED BY <2>1, <2>2
<1>17. CallInv'
  <2>1. \A s \in Submissions : goroutine'[s] \in {"finish", "done"} <=> goroutine[s] \in {"finish", "done"}
    BY <1>8, <1>10
  <2>2. \A s \in Submissions : Submitted(s)' <=> Submitted(s)
    BY <1>1 DEF Submitted
  <2> HIDE DEF starts
  <2> QED BY <1>1, <2>1, <2>2 DEF CallInv
<1>18. ExitInv'
  BY <1>1 DEF ExitInv
<1> QED BY <1>12, <1>13, <1>14, <1>15, <1>16, <1>17, <1>18

\* main after the two loops.  wg.Wait returns only when no goroutine is running,
\* so the counters it reads are final.
LEMMA WaitKeeps ==
  ASSUME SubmitInv, RangeEnds \/ WaitEnds
  PROVE  SubmitInv'
<1> USE DEF SubmitInv
<1>1. WgInv' /\ CallInv' /\ Unstarted
  BY GoroutinesStay DEF RangeEnds, WaitEnds
<1>2. UNCHANGED <<certsPem, bySubject, byFingerprint, parseErrors, pending, current, chains, stdin>>
  BY DEF RangeEnds, WaitEnds
<1>3. \/ mainPC = "range" /\ mainPC' = "wait" /\ pending = {} /\ current = <<>> /\ UNCHANGED exitStatus
      \/ mainPC = "wait" /\ mainPC' = "exit" /\ wg = 0
  BY DEF RangeEnds, WaitEnds, Exit
<1>4. SubmitTypes'
  BY <1>1, <1>2, <1>3 DEF SubmitTypes, Unstarted, clientVars
<1>5. ReadInv' /\ SubjectInv'
  <2>1. UNCHANGED ReadCerts
    BY <1>2 DEF ReadCerts
  <2> QED BY <1>2, <1>3, <2>1 DEF ReadInv, SubjectInv
<1>6. LoopInv'
  <2>1. UNCHANGED ReadCerts
    BY <1>2 DEF ReadCerts
  <2>2. ASSUME NEW c \in DOMAIN chains'
        PROVE  IF Subject[c] = Issuer[c] THEN chains'[c] = <<>> ELSE IsChainOf(chains[c], c)'
    <3>1. IsChainOf(chains[c], c)' <=> IsChainOf(chains[c], c)
      BY <1>2, <2>1 DEF IsChainOf
    <3> QED BY <1>2, <2>2, <3>1 DEF LoopInv
  <2>3. current' = <<>>
    BY <1>2, <1>3 DEF LoopInv
  <2> QED BY <1>2, <1>3, <2>2, <2>3 DEF LoopInv
<1>7. StartedInv'
  BY <1>1, <1>2 DEF StartedInv, HasStarted, Left, Unstarted
<1>8. ExitInv'
  <2>1. CASE mainPC' = "wait"
    BY <1>3, <2>1 DEF ExitInv
  <2>2. CASE mainPC' = "exit"
    <3>1. Active' = {}
      <4>1. Active = {}
        BY <1>3, <2>2, ActiveFinite, FS_EmptySet DEF WgInv
      <4> QED BY <1>1, <4>1 DEF Active, Unstarted
    <3>2. exitStatus' = (IF parseErrors > 0 THEN 4 ELSE 0) + (IF submitErrors > 0 THEN 8 ELSE 0)
      BY <1>3, <2>2 DEF RangeEnds, WaitEnds, Exit
    <3>3. mainPC = "wait" /\ submitErrors' = submitErrors
      BY <1>1, <1>3, <2>2 DEF Unstarted
    <3>4. certsPem = <<>> /\ current = <<>> /\ DOMAIN chains = byFingerprint
      BY <3>3 DEF ReadInv, LoopInv, SubmitTypes
    <3> QED BY <1>2, <2>2, <3>1, <3>2, <3>3, <3>4 DEF ExitInv
  <2> QED BY <1>3, <2>1, <2>2
<1> QED BY <1>1, <1>4, <1>5, <1>6, <1>7, <1>8

\* A goroutine's step leaves everything about main as it was.
LEMMA StartedStays ==
  ASSUME SubmitInv, UNCHANGED mainVars,
         \A s \in Submissions : goroutine'[s] = "none" <=> goroutine[s] = "none"
  PROVE  ReadInv' /\ SubjectInv' /\ LoopInv' /\ StartedInv'
<1>1. ReadInv' /\ SubjectInv' /\ LoopInv'
  BY MainStays DEF SubmitInv
<1>2. \A s \in Submissions : HasStarted(s)' <=> HasStarted(s)
  BY DEF HasStarted, Left, mainVars
<1>3. StartedInv'
  BY <1>2 DEF SubmitInv, StartedInv
<1> QED BY <1>1, <1>3

\* The steps of a goroutine that is running.
LEMMA GoroutineKeeps ==
  ASSUME SubmitInv, NEW s \in Submissions, Goroutine(s)
  PROVE  SubmitInv'
<1> USE DEF SubmitInv
<1>1. mainPC # "exit" /\ UNCHANGED mainVars
  BY DEF Goroutine, SubmitChain, ChainReturned, Done, Requesting
<1>2. \A t \in Submissions : t # s => goroutine'[t] = goroutine[t]
  BY DEF Goroutine, SubmitChain, ChainReturned, Done, Requesting, SubmitTypes
<1>3. /\ goroutine' \in [Submissions -> {"none", "submit", "waiting", "finish", "done"}]
      /\ goroutine[s] # "none" /\ goroutine'[s] # "none"
  BY SMTT(20) DEF Goroutine, SubmitChain, ChainReturned, Done, Requesting, SubmitTypes
<1>4. ReadInv' /\ SubjectInv' /\ LoopInv' /\ StartedInv'
  BY SMTT(20), <1>1, <1>2, <1>3, StartedStays
<1>5. ExitInv'
  BY <1>1 DEF ExitInv, mainVars
<1>6. /\ call' \in [Submissions -> CallState] /\ handled' = handled
      /\ \A t \in Submissions : t # s => call'[t] = call[t]
      /\ call'[s].result = "ok" => handled[s]
      /\ goroutine[s] # "waiting" /\ goroutine'[s] # "waiting" => call'[s] = call[s]
      /\ goroutine'[s] = "finish" => call'[s] = call[s] /\ call[s].pc = "done"
  <2>1. CASE SubmitChain(s)
    <3> DEFINE r == [C!NoCall EXCEPT !.pc = "retry"]
    <3>1. r \in CallState /\ r.result = "none"
      BY DEF C!NoCall, CallState
    <3>2. call' = [call EXCEPT ![s] = r] /\ handled' = handled
      BY <2>1 DEF SubmitChain, C!BeginCall
    <3> HIDE DEF r
    <3>3. goroutine'[s] = "waiting"
      BY SMTT(20), <2>1 DEF SubmitChain, SubmitTypes
    <3> QED BY <3>1, <3>2, <3>3 DEF SubmitTypes
  <2>2. CASE Requesting(s)
    <3>1. goroutine[s] = "waiting" /\ goroutine' = goroutine
      BY Zenon, <2>2 DEF Requesting
    <3>2. /\ call' \in [Submissions -> CallState] /\ handled' = handled
          /\ \A t \in Submissions \ {s} : call'[t] = call[t]
          /\ call'[s].result = "ok" => handled[s] \/ call[s].result = "ok"
      BY <2>2, CallStep DEF Requesting
    <3> QED BY <3>1, <3>2 DEF CallInv
  <2>3. CASE ChainReturned(s) \/ Done(s)
    BY <2>3 DEF ChainReturned, Done, clientVars, CallInv, SubmitTypes
  <2> QED BY <2>1, <2>2, <2>3 DEF Goroutine
<1>7. submitErrors' \in Nat
  BY DEF Goroutine, SubmitChain, ChainReturned, Done, Requesting, SubmitTypes
<1>8. SubmitTypes'
  BY <1>1, <1>3, <1>6, <1>7 DEF SubmitTypes, mainVars
<1>9. WgInv'
  <2>1. CASE Done(s)
    <3>1. Active' = Active \ {s} /\ s \in Active
      BY <1>2, <2>1 DEF Done, Active, SubmitTypes
    <3>2. Cardinality(Active \ {s}) = Cardinality(Active) - 1
      BY <3>1, ActiveFinite, FS_RemoveElement
    <3> QED BY <2>1, <3>1, <3>2 DEF WgInv, Done
  <2>2. CASE SubmitChain(s) \/ ChainReturned(s) \/ Requesting(s)
    <3>1. goroutine[s] \in {"submit", "waiting", "finish"} /\ goroutine'[s] \in {"submit", "waiting", "finish"}
      BY <2>2 DEF SubmitChain, ChainReturned, Requesting, SubmitTypes
    <3>2. Active' = Active
      BY <1>2, <3>1 DEF Active
    <3> QED BY <2>2, <3>2 DEF WgInv, SubmitChain, ChainReturned, Requesting
  <2> QED BY <2>1, <2>2 DEF Goroutine
<1>10. CallInv'
  <2>1. \A t \in Submissions : /\ goroutine'[t] \in {"finish", "done"} => call'[t].pc = "done"
                               /\ call'[t].result = "ok" => handled'[t]
    <3> SUFFICES ASSUME NEW t \in Submissions
                 PROVE  /\ goroutine'[t] \in {"finish", "done"} => call'[t].pc = "done"
                        /\ call'[t].result = "ok" => handled'[t]
      OBVIOUS
    <3>1. CASE t # s
      BY <1>2, <1>6, <3>1 DEF CallInv
    <3>2. CASE t = s
      <4>1. goroutine'[s] = "done" => goroutine[s] \in {"finish", "done"} /\ call'[s] = call[s]
        BY DEF Goroutine, SubmitChain, ChainReturned, Done, Requesting, SubmitTypes, clientVars
      <4> QED BY <1>6, <3>2, <4>1 DEF CallInv
    <3> QED BY <3>1, <3>2
  <2>2. \A t \in Submissions : t # s => (Submitted(t)' <=> Submitted(t))
    BY <1>6 DEF Submitted
  <2> DEFINE Failed(t) == goroutine[t] \in {"finish", "done"} /\ ~Submitted(t)
  <2>3. \A t \in Submissions : t # s => (Failed(t)' <=> Failed(t))
    BY <1>2, <2>2
  <2>4. CASE ChainReturned(s)
    <3>1. UNCHANGED call /\ goroutine[s] = "waiting" /\ goroutine'[s] = "finish"
      BY <2>4 DEF ChainReturned, clientVars, SubmitTypes
    <3>2. ~Failed(s) /\ (Failed(s)' <=> ~Submitted(s))
      BY <3>1 DEF Submitted
    <3>3. submitErrors' = IF Submitted(s) THEN submitErrors ELSE submitErrors + 1
      BY <2>4 DEF ChainReturned
    <3>4. submitErrors > 0 <=> \E t \in Submissions : Failed(t)
      BY DEF CallInv
    <3>5. submitErrors \in Nat
      BY DEF SubmitTypes
    <3> HIDE DEF Failed
    <3>6. submitErrors' > 0 <=> \E t \in Submissions : Failed(t)'
      <4>1. CASE Submitted(s)
        BY <2>3, <3>2, <3>3, <3>4, <4>1
      <4>2. CASE ~Submitted(s)
        BY <3>2, <3>3, <3>5, <4>2
      <4> QED BY <4>1, <4>2
    <3> USE DEF Failed
    <3> QED BY <2>1, <3>6 DEF CallInv
  <2>5. CASE SubmitChain(s) \/ Done(s) \/ Requesting(s)
    <3>1. submitErrors' = submitErrors
      BY <2>5 DEF SubmitChain, Done, Requesting
    <3>2. Failed(s)' <=> Failed(s)
      BY <2>5 DEF SubmitChain, Done, Requesting, SubmitTypes, Submitted, clientVars
    <3> QED BY <2>1, <2>3, <3>1, <3>2 DEF CallInv
  <2> QED BY <2>4, <2>5 DEF Goroutine
<1> QED BY <1>4, <1>5, <1>8, <1>9, <1>10

\* A log carries out a request, possibly after the process has ended.
LEMMA LogHandlesKeeps ==
  ASSUME SubmitInv, NEW s \in Submissions, LogHandles(s)
  PROVE  SubmitInv'
<1> USE DEF SubmitInv
<1>1. UNCHANGED <<mainVars, submitErrors, goroutine, wg, call>> /\ handled' = [handled EXCEPT ![s] = TRUE]
  BY DEF LogHandles, C!LogHandles
<1>2. ReadInv' /\ SubjectInv' /\ LoopInv' /\ StartedInv'
  BY <1>1, StartedStays
<1>3. SubmitTypes'
  BY <1>1 DEF SubmitTypes, mainVars
<1>4. WgInv' /\ ExitInv'
  BY <1>1 DEF WgInv, ExitInv, Active, mainVars
<1>5. CallInv'
  BY <1>1 DEF CallInv, Submitted, SubmitTypes
<1> QED BY <1>2, <1>3, <1>4, <1>5

\* Every step keeps the invariant.
LEMMA SubmitNextInv == SubmitInv /\ [SubmitNext]_submitVars => SubmitInv'
<1> SUFFICES ASSUME SubmitInv, [SubmitNext]_submitVars PROVE SubmitInv'
  OBVIOUS
<1>1. CASE UNCHANGED submitVars
  <2>1. UNCHANGED mainVars /\ Unstarted
    BY <1>1 DEF submitVars, Unstarted
  <2>2. ReadInv' /\ SubjectInv' /\ LoopInv' /\ StartedInv'
    BY <2>1, StartedStays DEF Unstarted
  <2>3. WgInv' /\ CallInv'
    BY <2>1, GoroutinesStay DEF SubmitInv
  <2>4. SubmitTypes' /\ ExitInv'
    BY <2>1 DEF SubmitInv, SubmitTypes, ExitInv, Active, Unstarted, mainVars, clientVars
  <2> QED BY <2>2, <2>3, <2>4 DEF SubmitInv
<1>2. CASE StartFails \/ Started \/ DecodeBlock \/ Decoded
  BY <1>2, DecodeKeeps
<1>3. CASE \E cert \in Certs : RangeOver(cert)
  BY <1>3, RangeOverKeeps
<1>4. CASE NextLog
  BY <1>4, NextLogKeeps
<1>5. CASE RangeEnds \/ WaitEnds
  BY <1>5, WaitKeeps
<1>6. CASE \E s \in Submissions : Goroutine(s)
  BY <1>6, GoroutineKeeps
<1>7. CASE \E s \in Submissions : LogHandles(s)
  BY <1>7, LogHandlesKeeps
<1> QED BY <1>1, <1>2, <1>3, <1>4, <1>5, <1>6, <1>7 DEF SubmitNext, Main, Exited

\* The inductive invariant holds throughout.
LEMMA SubmitInvariant == SubmitSpec => []SubmitInv
  BY SubmitInitInv, SubmitNextInv, PTL DEF SubmitSpec

-----------------------------------------------------------------------------
\* A log accepts an expiration date exactly if it lies in its half-open interval
\* (withinInterval).
LEMMA IntervalIsHalfOpen ==
  ASSUME NEW s \in Submissions
  PROVE  AcceptsExpiration(s[2], Expiration[s[1]]) <=>
           (Interval[s[2]] # <<>> => Expiration[s[1]] \in Interval[s[2]][1]..(Interval[s[2]][2] - 1))
<1>1. s[1] \in Certs /\ s[2] \in Range(Logs)
  BY DEF Submissions
<1>2. PICK x \in Int : x = Expiration[s[1]]
  BY <1>1, SubmitAssumption
<1>3. CASE Interval[s[2]] = <<>>
  BY <1>3 DEF AcceptsExpiration
<1>4. CASE Interval[s[2]] # <<>>
  <2>1. Interval[s[2]] \in Int \X Int
    BY <1>1, <1>4, SubmitAssumption
  <2>2. PICK a, b \in Int : a = Interval[s[2]][1] /\ b = Interval[s[2]][2]
    BY <2>1
  <2>3. a <= x /\ x < b <=> x \in a..(b - 1)
    OBVIOUS
  <2> QED BY <1>2, <1>4, <2>2, <2>3 DEF AcceptsExpiration
<1> QED BY <1>3, <1>4

\* The submissions that have been started when main has gone through both loops are
\* those that stdin asks for.
LEMMA StartedIsWanted ==
  ASSUME SubmitInv, certsPem = <<>>, current = <<>>, DOMAIN chains = byFingerprint, NEW s \in Submissions
  PROVE  HasStarted(s) <=> s \in Wanted
<1>1. ReadCerts = byFingerprint
  <2>1. Range(certsPem) = {}
    BY DEF Range
  <2> QED BY <2>1 DEF SubmitInv, ReadInv
<1>2. Left(s[1]) = {}
  BY DEF Left
<1>3. s \in ReadCerts \X Range(Logs) <=> s[1] \in ReadCerts
  BY DEF Submissions
<1> QED BY <1>1, <1>2, <1>3, IntervalIsHalfOpen DEF HasStarted, Wanted

\* submitct's exit status says what happened, for any input, any logs, any number
\* of retries and any loss of requests and responses (ExitStatusIsTrue; main.go:200-236).
THEOREM ExitStatusTellsWhatHappened == SubmitSpec => []ExitStatusIsTrue
<1>1. SubmitInv => ExitStatusIsTrue
  <2> SUFFICES ASSUME SubmitInv, exitStatus \notin {-1, 1}
               PROVE  /\ \A s \in Submissions : goroutine[s] = IF s \in Wanted THEN "done" ELSE "none"
                      /\ exitStatus \in {4, 12} <=> "unparsable" \in Range(stdin)
                      /\ exitStatus \in {8, 12} <=> \E s \in Wanted : ~(call[s].result = "ok" /\ call[s].body = "sct")
                      /\ exitStatus = 0 => \A s \in Wanted : handled[s]
    BY DEF ExitStatusIsTrue
  <2> USE DEF SubmitInv
  <2>1. /\ exitStatus = (IF parseErrors > 0 THEN 4 ELSE 0) + (IF submitErrors > 0 THEN 8 ELSE 0)
        /\ certsPem = <<>> /\ current = <<>> /\ DOMAIN chains = byFingerprint /\ Active = {}
    BY DEF ExitInv
  <2>2. \A s \in Submissions : HasStarted(s) <=> s \in Wanted
    BY <2>1, StartedIsWanted
  <2>3. \A s \in Submissions : goroutine[s] = IF s \in Wanted THEN "done" ELSE "none"
    <3> SUFFICES ASSUME NEW s \in Submissions PROVE goroutine[s] = IF s \in Wanted THEN "done" ELSE "none"
      OBVIOUS
    <3>1. goroutine[s] \in {"none", "done"}
      BY <2>1 DEF Active, SubmitTypes
    <3> QED BY <2>2, <3>1 DEF StartedInv
  <2>4. exitStatus \in {4, 12} <=> parseErrors > 0
    BY <2>1 DEF SubmitTypes
  <2>5. exitStatus \in {8, 12} <=> submitErrors > 0
    BY <2>1 DEF SubmitTypes
  <2>6. "unparsable" \in Range(stdin) <=> parseErrors > 0
    <3>1. Range(certsPem) = {}
      BY <2>1 DEF Range
    <3> QED BY <3>1 DEF ReadInv
  <2>7. Wanted \subseteq Submissions
    BY DEF Wanted, ReadCerts, Submissions
  <2>8. submitErrors > 0 <=> \E s \in Wanted : ~(call[s].result = "ok" /\ call[s].body = "sct")
    BY <2>3, <2>7 DEF CallInv, Submitted
  <2>9. exitStatus = 0 => \A s \in Wanted : handled[s]
    BY <2>5, <2>7, <2>8 DEF CallInv
  <2> QED BY <2>3, <2>4, <2>5, <2>6, <2>8, <2>9
<1> QED BY <1>1, SubmitInvariant, PTL

\* Every log that is sent something is sent a chain that starts with the certificate
\* and goes on to the issuers, whatever names the certificates carry, and whatever
\* the limit on its length is (ChainsAreLinked; main.go:136-143).
THEOREM EveryLogGetsAChain == SubmitSpec => []ChainsAreLinked
<1>1. SubmitInv => ChainsAreLinked
  BY DEF SubmitInv, StartedInv, HasStarted, LoopInv, ChainsAreLinked
<1> QED BY <1>1, SubmitInvariant, PTL
=============================================================================
