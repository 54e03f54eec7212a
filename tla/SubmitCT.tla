------------------------------ MODULE SubmitCT ------------------------------
(***************************************************************************)
(* cmd/submitct: certificates from standard input are submitted, each with *)
(* the chain that can be built from the others, to every log that accepts  *)
(* their expiration date, one goroutine per certificate and log.  Requests *)
(* are calls of LogClient; ctx is context.Background(), never cancelled.   *)
(***************************************************************************)
EXTENDS Integers, Sequences, FiniteSets, Functions

CONSTANTS
  Certs,             \* certificates that can be parsed, by their DER bytes
  Subject, Issuer,   \* their names
  Expiration,
  Logs,              \* a sequence of logs: list.AllLogs()
  Interval,          \* the TemporalInterval of a log, <<>> if it has none
  Inputs,            \* possible contents of stdin: sequences of PEM blocks
  MaxChain,          \* 16 in the code
  MaxRetries

ASSUME SubmitAssumption ==
  /\ IsFiniteSet(Certs) /\ {"nil", "key", "unparsable", "invalid"} \cap Certs = {}
  /\ \A b \in Inputs : b \in Seq(Certs \cup {"key", "unparsable", "invalid"})
  /\ Logs \in Seq(Range(Logs)) /\ IsInjective(Logs) /\ Expiration \in [Certs -> Int]
  /\ \A l \in Range(Logs) : Interval[l] = <<>> \/ Interval[l] \in Int \X Int

ASSUME BoundAssumption == MaxChain \in Nat \ {0} /\ MaxRetries \in Nat

Submissions == Certs \X Range(Logs)

VARIABLES
  mainPC,         \* control state of main
  certsPem,       \* PEM blocks still to decode
  bySubject,      \* certs.bySubject
  byFingerprint,  \* the certificates of certs.byFingerprint
  parseErrors, submitErrors,
  pending,        \* certificates the loop has not ranged over yet
  current,        \* the certificate being submitted, and the logs left for it
  chains,         \* the chain of each certificate that has been ranged over
  goroutine,      \* control state of each submission
  wg,
  exitStatus,     \* -1 while the process runs
  stdin,          \* history: what stdin contained
  call, handled, cancelled

C == INSTANCE LogClient WITH Calls <- Submissions, Bodies <- {"sct", "badsct"}

mainVars == <<mainPC, certsPem, bySubject, byFingerprint, parseErrors, pending, current, chains, exitStatus, stdin>>
clientVars == <<call, handled, cancelled>>
submitVars == <<mainVars, submitErrors, goroutine, wg, clientVars>>

SubmitInit ==
  /\ mainPC = "start" /\ stdin \in Inputs /\ certsPem = stdin
  /\ bySubject = <<>> /\ byFingerprint = {} /\ parseErrors = 0 /\ submitErrors = 0
  /\ pending = {} /\ current = <<>> /\ chains = <<>>
  /\ goroutine = [s \in Submissions |-> "none"] /\ wg = 0
  /\ exitStatus = -1
  /\ C!ClientInit

Unstarted == UNCHANGED <<submitErrors, goroutine, wg, clientVars>>

Exit(status) == mainPC' = "exit" /\ exitStatus' = status

\* Reading stdin, loading the log list or parsing a log's key fails.
StartFails ==
  /\ mainPC = "start" /\ Exit(1) /\ Unstarted
  /\ UNCHANGED <<certsPem, bySubject, byFingerprint, parseErrors, pending, current, chains, stdin>>

Started ==
  /\ mainPC = "start" /\ mainPC' = "decode" /\ Unstarted
  /\ UNCHANGED <<certsPem, bySubject, byFingerprint, parseErrors, pending, current, chains, exitStatus, stdin>>

\* What pem.Decode finds next: nothing although bytes are left, a block of
\* another type, a certificate that cannot be parsed, or a certificate.
DecodeBlock ==
  /\ mainPC = "decode" /\ certsPem # <<>>
  /\ certsPem' = Tail(certsPem)
  /\ LET b == Head(certsPem) IN
       /\ IF b = "invalid" THEN Exit(1) ELSE UNCHANGED <<mainPC, exitStatus>>
       /\ parseErrors' = IF b = "unparsable" THEN parseErrors + 1 ELSE parseErrors
       /\ IF b \in Certs
            THEN /\ byFingerprint' = byFingerprint \cup {b}
                 /\ bySubject' = [n \in DOMAIN bySubject \cup {Subject[b]} |->
                                    IF n = Subject[b] THEN b ELSE bySubject[n]]
            ELSE UNCHANGED <<byFingerprint, bySubject>>
  /\ Unstarted /\ UNCHANGED <<pending, current, chains, stdin>>

Decoded ==
  /\ mainPC = "decode" /\ certsPem = <<>>
  /\ mainPC' = "range" /\ pending' = byFingerprint
  /\ Unstarted
  /\ UNCHANGED <<certsPem, bySubject, byFingerprint, parseErrors, current, chains, exitStatus, stdin>>

\* The last certificate with that subject that was added.
FindBySubject(name) == IF name \in DOMAIN bySubject THEN bySubject[name] ELSE "nil"

\* Mutant: the chain goes on with the certificate's own subject.
Mut_RoundsSubject(cert) ==
  LET f[n \in 0..MaxChain] ==
        IF n = 0 THEN <<<<>>, cert>>
        ELSE LET p == f[n - 1] IN
             IF p[2] # "nil" /\ Subject[p[2]] # Issuer[p[2]]
               THEN <<Append(p[1], p[2]), FindBySubject(Subject[p[2]])>> ELSE p
  IN f

\* The chain and the variable cert after at most n rounds of buildChain's loop.
Rounds(cert) ==
  LET f[n \in 0..MaxChain] ==
        IF n = 0 THEN <<<<>>, cert>>
        ELSE LET p == f[n - 1] IN
             IF p[2] # "nil" /\ Subject[p[2]] # Issuer[p[2]]
               THEN <<Append(p[1], p[2]), FindBySubject(Issuer[p[2]])>> ELSE p
  IN f

buildChain(cert) == Rounds(cert)[MaxChain][1]

\* withinInterval.
AcceptsExpiration(log, expiration) ==
  Interval[log] # <<>> => Interval[log][1] <= expiration /\ expiration < Interval[log][2]

\* The next certificate in the order of the map, which is arbitrary.
RangeOver(cert) ==
  /\ mainPC = "range" /\ current = <<>> /\ cert \in pending
  /\ pending' = pending \ {cert}
  /\ chains' = [c \in DOMAIN chains \cup {cert} |-> IF c = cert THEN buildChain(cert) ELSE chains[c]]
  /\ current' = IF buildChain(cert) = <<>> \/ Logs = <<>> THEN <<>> ELSE <<cert, Logs>>
  /\ Unstarted
  /\ UNCHANGED <<mainPC, certsPem, bySubject, byFingerprint, parseErrors, exitStatus, stdin>>

\* The next log of the inner loop: skipped, or wg.Add(1) and a goroutine.
NextLog ==
  /\ mainPC = "range" /\ current # <<>>
  /\ LET cert == current[1]
         ctlog == Head(current[2])
     IN /\ current' = IF Len(current[2]) = 1 THEN <<>> ELSE <<cert, Tail(current[2])>>
        /\ IF AcceptsExpiration(ctlog, Expiration[cert])
             THEN /\ wg' = wg + 1
                  /\ goroutine' = [goroutine EXCEPT ![<<cert, ctlog>>] = "submit"]
             ELSE UNCHANGED <<wg, goroutine>>
  /\ UNCHANGED <<mainPC, certsPem, bySubject, byFingerprint, parseErrors, pending, chains, exitStatus,
                 stdin, submitErrors, clientVars>>

RangeEnds ==
  /\ mainPC = "range" /\ current = <<>> /\ pending = {}
  /\ mainPC' = "wait"
  /\ Unstarted
  /\ UNCHANGED <<certsPem, bySubject, byFingerprint, parseErrors, pending, current, chains, exitStatus, stdin>>

\* Mutant: main does not wait.
Mut_WaitEndsAtOnce ==
  /\ mainPC = "wait"
  /\ Exit((IF parseErrors > 0 THEN 4 ELSE 0) + (IF submitErrors > 0 THEN 8 ELSE 0))
  /\ Unstarted
  /\ UNCHANGED <<certsPem, bySubject, byFingerprint, parseErrors, pending, current, chains, stdin>>

\* wg.Wait() returns and the exit status is put together.
WaitEnds ==
  /\ mainPC = "wait" /\ wg = 0
  /\ Exit((IF parseErrors > 0 THEN 4 ELSE 0) + (IF submitErrors > 0 THEN 8 ELSE 0))
  /\ Unstarted
  /\ UNCHANGED <<certsPem, bySubject, byFingerprint, parseErrors, pending, current, chains, stdin>>

-----------------------------------------------------------------------------
(* The goroutine of a submission. *)

\* SubmitChain calls AddChain, which posts the chain.
SubmitChain(s) ==
  /\ mainPC # "exit" /\ goroutine[s] = "submit"
  /\ goroutine' = [goroutine EXCEPT ![s] = "waiting"]
  /\ C!BeginCall(s)
  /\ UNCHANGED <<mainVars, submitErrors, wg, handled, cancelled>>

\* AddChain can read the SCT and VerifyX509SCT accepts its signature.
Submitted(s) == call[s].result = "ok" /\ call[s].body = "sct"

ChainReturned(s) ==
  /\ mainPC # "exit" /\ goroutine[s] = "waiting" /\ call[s].pc = "done"
  /\ goroutine' = [goroutine EXCEPT ![s] = "finish"]
  /\ submitErrors' = IF Submitted(s) THEN submitErrors ELSE submitErrors + 1
  /\ UNCHANGED <<mainVars, wg, clientVars>>

Done(s) ==
  /\ mainPC # "exit" /\ goroutine[s] = "finish"
  /\ goroutine' = [goroutine EXCEPT ![s] = "done"]
  /\ wg' = wg - 1
  /\ UNCHANGED <<mainVars, submitErrors, clientVars>>

Requesting(s) ==
  /\ mainPC # "exit" /\ goroutine[s] = "waiting"
  /\ C!ClientStep(s) \/ C!Answer(s)
  /\ UNCHANGED <<mainVars, submitErrors, goroutine, wg>>

LogHandles(s) == C!LogHandles(s) /\ UNCHANGED <<mainVars, submitErrors, goroutine, wg>>

-----------------------------------------------------------------------------
Main ==
  \/ Started \/ StartFails \/ DecodeBlock \/ Decoded
  \/ \E cert \in Certs : RangeOver(cert)
  \/ NextLog \/ RangeEnds \/ WaitEnds

Goroutine(s) == SubmitChain(s) \/ ChainReturned(s) \/ Done(s) \/ Requesting(s)

Exited == mainPC = "exit" /\ UNCHANGED submitVars

SubmitNext ==
  \/ Main
  \/ \E s \in Submissions : Goroutine(s) \/ LogHandles(s)
  \/ Exited

Running == Main \/ \E s \in Submissions : Goroutine(s)

\* Some goroutine that can run does, timers fire, and the HTTP client's timeouts
\* end an attempt that a log leaves unanswered.
SubmitSpec == SubmitInit /\ [][SubmitNext]_submitVars /\ WF_submitVars(Running)

-----------------------------------------------------------------------------
ReadCerts == {b \in Range(stdin) : b \in Certs}

\* The submissions that stdin asks for: every certificate that is not
\* self-signed, to every log that covers its expiration date.
Wanted ==
  {s \in ReadCerts \X Range(Logs) :
     /\ Subject[s[1]] # Issuer[s[1]]
     /\ Interval[s[2]] # <<>> => Expiration[s[1]] \in Interval[s[2]][1]..(Interval[s[2]][2] - 1)}

\* The exit status says what happened: nothing is left running or unsent when
\* the process ends, bit 2 is set for a certificate that could not be parsed,
\* and bit 3 exactly if some submission did not end with a verified SCT.  In
\* particular 0 means that every log has carried out every submission meant for
\* it, although responses get lost (main.go:200-236, logclient.go:193-216).
ExitStatusIsTrue ==
  exitStatus \notin {-1, 1} =>
    /\ \A s \in Submissions : goroutine[s] = IF s \in Wanted THEN "done" ELSE "none"
    /\ exitStatus \in {4, 12} <=> "unparsable" \in Range(stdin)
    /\ exitStatus \in {8, 12} <=> \E s \in Wanted : ~(call[s].result = "ok" /\ call[s].body = "sct")
    /\ exitStatus = 0 => \A s \in Wanted : handled[s]

IsChainOf(ch, cert) ==
  LET last == ch[Len(ch)] IN
    /\ Len(ch) \in 1..MaxChain /\ ch[1] = cert
    /\ \A i \in 1..Len(ch) : ch[i] \in ReadCerts /\ Subject[ch[i]] # Issuer[ch[i]]
    /\ \A i \in 1..(Len(ch) - 1) : Subject[ch[i + 1]] = Issuer[ch[i]]
    /\ Len(ch) < MaxChain =>
         \/ \A c \in ReadCerts : Subject[c] # Issuer[last]
         \/ \E c \in ReadCerts : Subject[c] = Issuer[last] /\ Issuer[c] = Subject[c]

\* What a log gets is a chain: it starts with the certificate, each link names
\* the next one as its issuer, no self-signed certificate is in it, it is no
\* longer than the limit even if issuers form a cycle, and it stops short only
\* where stdin holds no further issuer (main.go:136-143).
ChainsAreLinked ==
  \A s \in Submissions : goroutine[s] # "none" => IsChainOf(chains[s[1]], s[1])

\* Once submitct has started up it ends, whatever the logs answer: every goroutine
\* comes back from its retries and wg gets back to zero (main.go:207-225,
\* logclient.go:223-249).
Terminates == mainPC = "decode" ~> mainPC = "exit"
=============================================================================
