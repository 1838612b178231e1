---------------------------- MODULE ServeProofs ----------------------------
(***************************************************************************)
(* The books of the proxy loop, and what a 404 and a 502 mean, for any     *)
(* number of nodes and partitions and any placement of them: ProxyInv is   *)
(* shown action by action of Proxy, then ServeInv over it.                 *)
(***************************************************************************)
EXTENDS Serve, FiniteSetTheorems, TLAPS

\* Each peer has one response at most, so there are as many as peers at most.
LEMMA OneEach ==
  ASSUME NEW ps \in SUBSET Peers, NEW rs \in SUBSET (ps \X (Answers \cup {Failed})),
         \A r, s \in rs : r[1] = s[1] => r = s
  PROVE  /\ IsFiniteSet(rs) /\ Cardinality(rs) <= Cardinality(ps)
         /\ IsFiniteSet(ps) /\ Cardinality(rs) \in Nat /\ Cardinality(ps) \in Nat
<1>1. IsFiniteSet(ps)
  BY ProxyAssumption, FS_Subset
<1> DEFINE f == [r \in rs |-> r[1]]
<1>2. f \in Injection(rs, ps)
  BY DEF Injection, IsInjective
<1> QED BY <1>1, <1>2, FS_Injection, FS_CardinalityType

LEMMA Finite ==
  ASSUME TypeOK, Books
  PROVE  /\ IsFiniteSet(running) /\ Cardinality(running) \in Nat
         /\ IsFiniteSet(responses) /\ Cardinality(responses) \in Nat
<1>1. running \subseteq Peers
  BY DEF TypeOK
<1>2. IsFiniteSet(running)
  BY <1>1, ProxyAssumption, FS_Subset
<1>3. responses \in SUBSET (asked \X (Answers \cup {Failed})) /\ asked \in SUBSET Peers
  BY DEF TypeOK
<1> QED BY <1>2, <1>3, OneEach, FS_CardinalityType DEF Books

-----------------------------------------------------------------------------
(* ProxyInv, for each step of the proxy. *)

LEMMA CallInv ==
  ASSUME NEW peers \in SUBSET Peers, call(peers)
  PROVE  ProxyInv'
<1>1. Cardinality({}) = 0 /\ Cardinality(peers) \in Nat
  BY ProxyAssumption, FS_Subset, FS_EmptySet, FS_CardinalityType
<1> QED BY <1>1 DEF call, NoOutcome, Failed, ProxyInv, TypeOK, Books, Answered, GivesUpLast, WinnerOnly

LEMMA StartInv ==
  ASSUME ProxyInv, startAttempt
  PROVE  ProxyInv'
<1> USE DEF ProxyInv
<1>1. ASSUME NEW p \in untried, p \in Malformed, untried' = untried \ {p}, at' = "select",
             UNCHANGED <<running, outstanding, outcome, asked, responses, cancelled, stopped>>
      PROVE  ProxyInv'
  BY <1>1 DEF startAttempt, TypeOK, Books, Answered, GivesUpLast, WinnerOnly, NoOutcome
<1>2. ASSUME NEW p \in untried, untried' = untried \ {p}, at' = "select", at = "loop",
             running' = running \cup {p}, outstanding' = outstanding + 1,
             UNCHANGED <<outcome, asked, responses, cancelled, stopped>>
      PROVE  ProxyInv'
  <2>1. p \notin running /\ p \notin Answered /\ p \notin cancelled
    BY <1>2 DEF TypeOK, Answered
  <2>2. Cardinality(running') = Cardinality(running) + 1
    BY <1>2, <2>1, Finite, FS_AddElement, Zenon
  <2>3. TypeOK'
    BY <1>2 DEF TypeOK
  <2>4. Books'
    BY <1>2, <2>1, <2>2, Finite DEF Books, Answered
  <2> QED BY <1>2, <2>3, <2>4 DEF GivesUpLast, WinnerOnly, Books, NoOutcome
<1>3. CASE /\ untried = {} /\ outstanding = 0 /\ at = "loop"
           /\ return("errNoAvailablePeers", NoPeer, Failed)
           /\ UNCHANGED <<untried, running, outstanding, asked, responses, cancelled, stopped>>
  <2>1. running = {} /\ responses = {}
    BY <1>3, Finite, FS_EmptySet DEF Books
  <2> QED BY <1>3, <2>1 DEF return, TypeOK, Books, Answered, GivesUpLast, WinnerOnly
<1>4. CASE /\ untried = {} /\ at = "loop" /\ at' = "select"
           /\ UNCHANGED <<untried, running, outstanding, outcome, asked, responses, cancelled, stopped>>
  BY <1>4 DEF TypeOK, Books, Answered, GivesUpLast, WinnerOnly
<1> QED BY <1>1, <1>2, <1>3, <1>4 DEF startAttempt

LEMMA AttemptInv ==
  ASSUME ProxyInv, NEW p \in Peers, NEW answer \in Answers \cup {Failed}, proxyAttempt(p, answer)
  PROVE  ProxyInv'
<1> USE DEF ProxyInv, proxyAttempt
<1>1. p \in asked \ untried /\ p \notin Answered /\ p \in running
  BY DEF TypeOK, Books
<1>2. TypeOK'
  BY <1>1 DEF TypeOK
<1>3. Answered' = Answered \cup {p}
  <2>1. \A x : x \in Answered' <=> \E r \in responses \cup {<<p, answer>>} : x = r[1]
    BY DEF Answered
  <2>2. \A x : x \in Answered' <=> x \in Answered \/ x = <<p, answer>>[1]
    BY <2>1, Zenon DEF Answered
  <2> QED BY <2>2
<1>4. \A r, s \in responses' : r[1] = s[1] => r = s
  BY <1>1 DEF Books, Answered
<1>5. Cardinality(responses') <= Cardinality(asked')
  <2>1. responses' \in SUBSET (asked' \X (Answers \cup {Failed})) /\ asked' \in SUBSET Peers
    BY <1>2 DEF TypeOK
  <2> QED BY <2>1, <1>4, OneEach
<1>6. /\ Cardinality(running') = Cardinality(running) - 1
      /\ Cardinality(responses') = Cardinality(responses) + 1
  <2>1. <<p, answer>> \notin responses
    BY <1>1 DEF Answered
  <2> QED BY <2>1, <1>1, Finite, FS_AddElement, FS_RemoveElement, Zenon
<1>7. Books'
  BY <1>1, <1>3, <1>4, <1>5, <1>6, Finite DEF Books
<1> QED BY <1>1, <1>2, <1>7 DEF GivesUpLast, WinnerOnly

LEMMA ReceiveInv ==
  ASSUME ProxyInv, NEW p \in Peers, NEW answer \in Answers \cup {Failed}, receive(p, answer)
  PROVE  ProxyInv'
<1> USE DEF ProxyInv
<1>1. /\ p \in Answered /\ p \notin running /\ p \in asked \ untried /\ at = "select"
      /\ outcome = NoOutcome
  BY DEF receive, Answered, TypeOK, Books
<1>2. Answered' = Answered \ {p}
  BY DEF receive, Answered, Books
<1>3. /\ Cardinality(responses') = Cardinality(responses) - 1
      /\ UNCHANGED <<asked, running, untried, stopped>>
  BY Finite, FS_RemoveElement, Zenon DEF receive
<1>4. \A r, s \in responses' : r[1] = s[1] => r = s
  BY DEF receive, Books
<1>5. TypeOK'
  BY <1>1 DEF receive, return, TypeOK
<1>6. Cardinality(responses') <= Cardinality(asked')
  <2>1. responses' \in SUBSET (asked' \X (Answers \cup {Failed})) /\ asked' \in SUBSET Peers
    BY <1>5 DEF TypeOK
  <2> QED BY <2>1, <1>4, OneEach
<1>7. CASE answer = Failed
  <2>1. at' = "loop" /\ cancelled' = cancelled \cup {p} /\ outcome' = outcome /\ outstanding' = outstanding - 1
    BY <1>7 DEF receive
  <2>2. Books'
    BY <2>1, <1>1, <1>2, <1>3, <1>4, <1>6, Finite DEF Books
  <2> QED BY <2>1, <2>2, <1>1, <1>5 DEF GivesUpLast, WinnerOnly, NoOutcome
<1>8. CASE answer # Failed
  <2>1. /\ at' = "returned" /\ cancelled' = (asked \ untried) \ {p}
        /\ outcome' = [kind |-> "ok", peer |-> p, answer |-> answer]
    BY <1>8 DEF receive, return
  <2>2. Books'
    BY <2>1, <1>1, <1>2, <1>3, <1>4, <1>6 DEF Books
  <2>3. WinnerOnly'
    BY <2>1, <1>1, <1>3 DEF WinnerOnly, TypeOK
  <2> QED BY <2>1, <2>2, <2>3, <1>5 DEF GivesUpLast
<1> QED BY <1>7, <1>8

LEMMA EndInv ==
  ASSUME ProxyInv, totalTimeout \/ contextDone \/ stageTimeout \/ clientGone
  PROVE  ProxyInv'
<1> USE DEF ProxyInv
<1>1. CASE totalTimeout
  BY <1>1 DEF totalTimeout, return, Failed, TypeOK, Books, Answered, GivesUpLast, WinnerOnly, NoOutcome
<1>2. CASE contextDone
  BY <1>2 DEF contextDone, return, Failed, TypeOK, Books, Answered, GivesUpLast, WinnerOnly, NoOutcome
<1>3. CASE stageTimeout
  BY <1>3 DEF stageTimeout, TypeOK, Books, Answered, GivesUpLast, WinnerOnly, NoOutcome
<1>4. CASE clientGone
  BY <1>4 DEF clientGone, TypeOK, Books, Answered, GivesUpLast, WinnerOnly, NoOutcome
<1> QED BY <1>1, <1>2, <1>3, <1>4

-----------------------------------------------------------------------------
(* ServeInv. *)

LEMMA ServeInit == Init => ServeInv
<1> SUFFICES ASSUME Init PROVE ServeInv
  OBVIOUS
<1> USE DEF Init, ProxyInit, NoOutcome, Failed
<1>1. Cardinality({}) = 0
  BY FS_EmptySet
<1>2. ProxyInv
  BY <1>1 DEF ProxyInv, TypeOK, Books, Answered, GivesUpLast, WinnerOnly
<1>3. numPartitions = 0 => key.home = NoPartition
  <2>1. key.normal \in Partitions
    BY DEF Keys
  <2> QED BY <2>1, ServeAssumption, FS_EmptySet
<1>4. ServeTypeOK
  BY <1>3 DEF ServeTypeOK
<1> QED BY <1>2, <1>4 DEF ServeInv, AnswersTrue, Exhausts, BadGatewayHonest

\* ServeInv after a step, from its conjuncts.
LEMMA ServeInvAfter ==
  ASSUME ProxyInv', ServeTypeOK', AnswersTrue', Exhausts', BadGatewayHonest'
  PROVE  ServeInv'
BY DEF ServeInv

\* ServeTypeOK after a step that leaves the request alone.
LEMMA TypeStays ==
  ASSUME ServeTypeOK, UNCHANGED <<proxyVars, numPartitions, node, key, have, filled, phase, status>>
  PROVE  ServeTypeOK'
<1>1. UNCHANGED <<asked, at, outcome>>
  BY DEF proxyVars
<1> QED BY <1>1 DEF ServeTypeOK, getPeers

\* A step that leaves the request and the blocks alone leaves Get and getPeers.
LEMMA Same ==
  ASSUME UNCHANGED <<node, key, have, filled>>
  PROVE  /\ \A n : Get(n)' = Get(n) /\ HasLocally(n)' = HasLocally(n)
         /\ \A p : getPeers(p)' = getPeers(p)
BY DEF Get, HasLocally, getPeers

\* What the conjuncts of ServeInv say after a step of the loop of proxy.
LEMMA LoopKeeps ==
  ASSUME ServeInv, phase \in {"normal", "alternate"}, UNCHANGED serveVars, ProxyInv',
         asked' = asked, ~stopped' => ~stopped,
         AnswersTrue', Exhausts'
  PROVE  ServeInv'
<1>1. BadGatewayHonest'
  BY DEF ServeInv, ServeTypeOK, BadGatewayHonest, serveVars
<1>2. ServeTypeOK'
  BY Same DEF ServeInv, ServeTypeOK, serveVars
<1> QED BY <1>1, <1>2 DEF ServeInv

LEMMA StartServes ==
  ASSUME ServeInv, phase \in {"normal", "alternate"}, UNCHANGED serveVars, startAttempt
  PROVE  ServeInv'
<1>1. ProxyInv'
  BY StartInv DEF ServeInv
<1>2. UNCHANGED <<asked, responses, stopped>> /\ \A n : Dead(n)' = Dead(n)
  BY Same DEF startAttempt, Dead, serveVars
<1>3. AnswersTrue'
  BY Same DEF ServeInv, AnswersTrue, startAttempt, return, serveVars
<1>4. Exhausts'
  <2> SUFFICES ASSUME ~stopped' PROVE Exhausts'
    BY DEF Exhausts
  <2>1. \A r \in responses' : r[2] = Failed => Dead(r[1])' \/ at' = "returned"
    BY <1>2 DEF ServeInv, Exhausts, startAttempt
  <2>2. ASSUME at' # "returned", NEW n \in asked' \ untried'
        PROVE  n \in (running \cup Answered)' \/ Dead(n)'
    BY <1>2, <2>2 DEF startAttempt, return, ServeInv, Exhausts, Answered, Dead
  <2>3. outcome'.kind = "errNoAvailablePeers" => \A n \in asked' : Dead(n)'
    BY <1>1, <1>2 DEF ServeInv, Exhausts, ProxyInv, GivesUpLast, Answered, startAttempt, Books, NoOutcome
  <2> QED BY <2>1, <2>2, <2>3 DEF Exhausts
<1> QED BY <1>1, <1>2, <1>3, <1>4, LoopKeeps

LEMMA ReceiveServes ==
  ASSUME ServeInv, phase \in {"normal", "alternate"}, UNCHANGED serveVars,
         NEW p \in Peers, NEW answer \in Answers \cup {Failed}, receive(p, answer)
  PROVE  ServeInv'
<1>1. ProxyInv'
  BY ReceiveInv DEF ServeInv
<1>2. UNCHANGED <<asked, untried, running, stopped>> /\ \A n : Dead(n)' = Dead(n)
  BY Same DEF receive, Dead, serveVars
<1>3. AnswersTrue'
  <2>1. answer # Failed => answer \in Answers /\ HasLocally(p) /\ Get(p) = answer
    BY DEF ServeInv, AnswersTrue, receive
  <2> QED BY <2>1, Same DEF ServeInv, AnswersTrue, receive, return, serveVars, Nodes
<1>4. Exhausts'
  <2> SUFFICES ASSUME ~stopped' PROVE Exhausts'
    BY DEF Exhausts
  <2>1. \A r \in responses' : r[2] = Failed => Dead(r[1])' \/ at' = "returned"
    BY <1>2 DEF ServeInv, Exhausts, receive
  <2>2. ASSUME at' # "returned", NEW n \in asked' \ untried'
        PROVE  n \in (running \cup Answered)' \/ Dead(n)'
    <3>1. at = "select" /\ answer = Failed /\ responses' = responses \ {<<p, Failed>>}
      BY <2>2 DEF receive, return
    <3>2. Dead(p)
      BY <1>2, <3>1 DEF ServeInv, Exhausts, receive
    <3>3. n \in running \cup Answered \/ Dead(n)
      BY <1>2, <2>2, <3>1 DEF ServeInv, Exhausts
    <3>4. n # p /\ n \in Answered => n \in Answered'
      BY <3>1 DEF Answered
    <3> QED BY <1>2, <3>2, <3>3, <3>4
  <2>3. outcome'.kind # "errNoAvailablePeers"
    BY DEF receive, return, ServeInv, ProxyInv, Books, NoOutcome
  <2> QED BY <2>1, <2>2, <2>3 DEF Exhausts
<1> QED BY <1>1, <1>2, <1>3, <1>4, LoopKeeps

LEMMA EndServes ==
  ASSUME ServeInv, phase \in {"normal", "alternate"}, UNCHANGED serveVars,
         totalTimeout \/ contextDone \/ stageTimeout \/ clientGone
  PROVE  ServeInv'
<1>1. ProxyInv'
  BY EndInv DEF ServeInv
<1>2. /\ UNCHANGED <<asked, untried, running, responses>> /\ \A n : Dead(n)' = Dead(n)
      /\ ~stopped' => ~stopped
  BY Same DEF totalTimeout, contextDone, stageTimeout, clientGone, Dead, serveVars
<1>3. outcome' = outcome \/ outcome'.kind \in {"errProxyTimeout", "errRequestCanceled"}
  BY DEF totalTimeout, contextDone, stageTimeout, clientGone, return
<1>4. AnswersTrue'
  BY <1>2, <1>3, Same DEF ServeInv, AnswersTrue, serveVars
<1>5. at' # "returned" => at # "returned"
  BY DEF totalTimeout, contextDone, stageTimeout, clientGone, return
<1>6. Exhausts'
  <2>1. at = "returned" => at' = "returned"
    BY DEF totalTimeout, contextDone, stageTimeout, clientGone, return
  <2> QED BY <1>2, <1>3, <1>5, <2>1 DEF ServeInv, Exhausts, Answered
<1> QED BY <1>1, <1>2, <1>4, <1>6, LoopKeeps

LEMMA PeerAnswers ==
  ASSUME ServeInv, NEW p \in Peers, NEW answer \in Answers \cup {Failed}, peerAnswer(p, answer)
  PROVE  ServeInv'
<1>1. ProxyInv'
  BY AttemptInv DEF ServeInv, peerAnswer
<1>2. /\ UNCHANGED <<asked, untried, outstanding, cancelled, stopped, at, outcome>>
      /\ \A n : Dead(n)' = Dead(n)
      /\ responses' = responses \cup {<<p, answer>>} /\ running' = running \ {p}
  BY Same DEF peerAnswer, proxyAttempt, Dead, serveVars
<1>3. 0 \notin Answers /\ (answer \in Answers => HasLocally(p) /\ Get(p) = answer)
  BY DEF peerAnswer, peerStatus, Answers, Failed
<1>4. AnswersTrue'
  BY <1>2, <1>3, Same DEF ServeInv, AnswersTrue, peerAnswer, serveVars
<1>5. p \in asked /\ p \notin untried /\ p \in running
  BY DEF ServeInv, ProxyInv, TypeOK, peerAnswer, proxyAttempt
<1>6. answer = Failed /\ ~stopped => Dead(p) \/ at = "returned"
  <2> SUFFICES ASSUME answer = Failed, ~stopped, at # "returned" PROVE Dead(p)
    OBVIOUS
  <2>1. p \notin cancelled
    BY <1>5 DEF ServeInv, ProxyInv, Books
  <2>2. p \in getPeers(key.normal) \/ p \in getPeers(key.alternate)
    BY <1>5 DEF ServeInv, ServeTypeOK
  <2>3. HasLocally(p)
    BY <2>2 DEF getPeers, HasLocally
  <2> QED BY <1>3, <2>1, <2>3 DEF peerAnswer, peerStatus, Dead, Failed
<1>7. Answered \cup {p} \subseteq Answered'
  <2>1. <<p, answer>>[1] = p
    OBVIOUS
  <2> QED BY <1>2, <2>1, Zenon DEF Answered
<1>8. Exhausts'
  <2> SUFFICES ASSUME ~stopped PROVE Exhausts'
    BY <1>2 DEF Exhausts
  <2>1. \A r \in responses' : r[2] = Failed => Dead(r[1])' \/ at' = "returned"
    BY <1>2, <1>6 DEF ServeInv, Exhausts
  <2>2. at' # "returned" => \A n \in asked' \ untried' : n \in (running \cup Answered)' \/ Dead(n)'
    BY <1>2, <1>7 DEF ServeInv, Exhausts
  <2> QED BY <1>2, <2>1, <2>2 DEF ServeInv, Exhausts
<1>9. ServeTypeOK' /\ BadGatewayHonest'
  BY <1>2, Same DEF ServeInv, ServeTypeOK, BadGatewayHonest, peerAnswer, serveVars
<1> QED BY <1>1, <1>4, <1>8, <1>9 DEF ServeInv

\* A call made by serveKey or serveProxied.
CallsPeersOf(p) ==
  /\ p \in {key.normal, key.alternate} /\ call(getPeers(p))
  /\ UNCHANGED <<stopped, status, numPartitions, node, key, have, filled, up, dropped>>
  /\ phase # "done"
  /\ \/ phase' = "normal" /\ p = key.normal
     \/ phase' = "alternate" /\ p = key.alternate

LEMMA CallServes ==
  ASSUME ServeInv, NEW p, CallsPeersOf(p)
  PROVE  ServeInv'
<1>1. ProxyInv'
  BY CallInv DEF CallsPeersOf, getPeers, Nodes
<1>2. UNCHANGED <<stopped, status, numPartitions, node, key, have, filled, up, dropped>>
  BY DEF CallsPeersOf
<1>3. responses' = {} /\ outcome' = NoOutcome /\ at' = "loop" /\ asked' = untried'
  BY DEF CallsPeersOf, call
<1>4. asked' = getPeers(p)'
  <2>1. asked' = getPeers(p)
    BY DEF CallsPeersOf, call
  <2> QED BY <1>2, <2>1, Same
<1>5. ServeTypeOK /\ status' = 0
  <2>1. ServeTypeOK /\ phase # "done"
    BY DEF ServeInv, CallsPeersOf
  <2> QED BY <1>2, <2>1 DEF ServeTypeOK
<1>6. BadGatewayHonest'
  BY <1>5 DEF BadGatewayHonest
<1>7. \/ phase' = "normal" /\ p = key.normal
      \/ phase' = "alternate" /\ p = key.alternate
  BY DEF CallsPeersOf
<1>8. ServeTypeOK'
  BY <1>2, <1>3, <1>4, <1>5, <1>7 DEF ServeTypeOK
<1>9. Exhausts'
  BY <1>3 DEF Exhausts, NoOutcome
<1>10. AnswersTrue'
  BY <1>3, <1>5 DEF AnswersTrue, NoOutcome
<1> QED BY <1>1, <1>6, <1>8, <1>9, <1>10, ServeInvAfter

\* A step that leaves proxy alone and revives no peer: its books stay right, and
\* what its goroutines brought is still what the peers say.
LEMMA ProxyStays ==
  ASSUME ServeInv, UNCHANGED <<proxyVars, node, key, have, filled>>, \A n : Dead(n) => Dead(n)'
  PROVE  /\ ProxyInv' /\ Exhausts'
         /\ \A r \in responses' : r[2] \in Answers => HasLocally(r[1])' /\ Get(r[1])' = r[2]
         /\ outcome'.kind = "ok" =>
              /\ outcome'.peer \in Nodes /\ outcome'.answer \in Answers
              /\ HasLocally(outcome.peer)' /\ Get(outcome.peer)' = outcome'.answer
         /\ (\E n \in Nodes : HasLocally(n) /\ Get(n) = 404) =>
              \E n \in Nodes : HasLocally(n)' /\ Get(n)' = 404
<1>1. UNCHANGED <<asked, untried, running, responses, outstanding, cancelled, stopped, at, outcome>>
  BY DEF proxyVars
<1>2. ProxyInv'
  BY <1>1 DEF ServeInv, ProxyInv, TypeOK, Books, Answered, GivesUpLast, WinnerOnly
<1>3. Exhausts'
  BY <1>1 DEF ServeInv, Exhausts, Answered
<1>4. \A n : Get(n)' = Get(n) /\ HasLocally(n)' = HasLocally(n)
  BY Same
<1>5. AnswersTrue
  BY DEF ServeInv
<1> QED BY <1>1, <1>2, <1>3, <1>4, <1>5 DEF AnswersTrue

LEMMA BadGatewayStays ==
  ASSUME BadGatewayHonest, UNCHANGED <<stopped, status, node, key, have>>, \A n : Dead(n) => Dead(n)'
  PROVE  BadGatewayHonest'
<1>1. \A p : getPeers(p)' = getPeers(p)
  BY DEF getPeers
<1> QED BY <1>1 DEF BadGatewayHonest

\* The end of serveKey or serveProxied.
RespondsHonestly(s) ==
  /\ s \in {200, 404, 500, 502, 504} /\ respond(s)
  /\ at = "returned" \/ asked = {}
  /\ UNCHANGED <<proxyVars, numPartitions, node, key, have, filled, up, dropped>>
  /\ s = 404 => node \in dropped \/ key.home = NoPartition \/ \E n \in Nodes : HasLocally(n) /\ Get(n) = 404
  /\ s = 502 /\ ~stopped =>
       \E p \in {key.normal, key.alternate} : \A n \in getPeers(p) : Dead(n)

LEMMA ResponseServes ==
  ASSUME ServeInv, NEW s, RespondsHonestly(s)
  PROVE  ServeInv'
<1>1. UNCHANGED <<proxyVars, numPartitions, node, key, have, filled, up, dropped>>
  BY DEF RespondsHonestly
<1>2. phase' = "done" /\ status' = s /\ s \in {200, 404, 500, 502, 504}
  BY DEF RespondsHonestly, respond
<1>3. \A n : Dead(n)' = Dead(n)
  BY <1>1, Same DEF Dead
<1>4. ServeTypeOK'
  <2>1. ServeTypeOK /\ (at = "returned" \/ asked = {})
    BY DEF ServeInv, RespondsHonestly
  <2>2. UNCHANGED <<at, asked>>
    BY <1>1 DEF proxyVars
  <2> QED BY <1>1, <1>2, <2>1, <2>2 DEF ServeTypeOK
<1>5. /\ ProxyInv' /\ Exhausts'
      /\ \A r \in responses' : r[2] \in Answers => HasLocally(r[1])' /\ Get(r[1])' = r[2]
      /\ outcome'.kind = "ok" =>
           /\ outcome'.peer \in Nodes /\ outcome'.answer \in Answers
           /\ HasLocally(outcome.peer)' /\ Get(outcome.peer)' = outcome'.answer
      /\ (\E n \in Nodes : HasLocally(n) /\ Get(n) = 404) =>
           \E n \in Nodes : HasLocally(n)' /\ Get(n)' = 404
  <2>1. UNCHANGED <<proxyVars, node, key, have, filled>>
    BY <1>1
  <2> QED BY <1>3, <2>1, ProxyStays, Zenon
<1>6. AnswersTrue'
  <2>1. s = 404 => node \in dropped \/ key.home = NoPartition \/ \E n \in Nodes : HasLocally(n) /\ Get(n) = 404
    BY DEF RespondsHonestly
  <2>2. outcome' = outcome /\ UNCHANGED <<node, dropped, key>>
    BY <1>1 DEF proxyVars
  <2> QED BY <1>2, <1>5, <2>1, <2>2 DEF AnswersTrue
<1>7. BadGatewayHonest'
  <2>1. s = 502 /\ ~stopped =>
          \E p \in {key.normal, key.alternate} : \A n \in getPeers(p) : Dead(n)
    BY DEF RespondsHonestly
  <2>2. UNCHANGED <<stopped, key>> /\ \A p : getPeers(p)' = getPeers(p)
    BY <1>1, Same DEF proxyVars
  <2> QED BY <1>2, <1>3, <2>1, <2>2 DEF BadGatewayHonest
<1> QED BY <1>4, <1>5, <1>6, <1>7, ServeInvAfter

LEMMA KeyServes == ServeInv /\ serveKey => ServeInv'
<1> SUFFICES ASSUME ServeInv, serveKey PROVE ServeInv'
  OBVIOUS
<1>1. phase = "start" /\ asked = {} /\ node \in Nodes
  BY DEF ServeInv, ServeTypeOK, serveKey
<1>2. UNCHANGED <<numPartitions, node, key, have, filled, up, dropped>>
  BY DEF serveKey
<1>3. CASE node \in dropped \/ numPartitions = 0
  <2>1. respond(404) /\ UNCHANGED proxyVars
    BY <1>3 DEF serveKey
  <2>2. node \in dropped \/ key.home = NoPartition
    BY <1>3 DEF ServeInv, ServeTypeOK
  <2>3. 404 # 502
    OBVIOUS
  <2>4. RespondsHonestly(404)
    BY <1>1, <1>2, <2>1, <2>2, <2>3 DEF RespondsHonestly
  <2> QED BY <2>4, ResponseServes
<1>4. CASE ~(node \in dropped \/ numPartitions = 0) /\ HasLocally(node)
  <2>1. respond(Get(node)) /\ UNCHANGED proxyVars
    BY <1>4 DEF serveKey
  <2>2. Get(node) \in {200, 404, 500, 502, 504} /\ Get(node) # 502
    BY DEF Get
  <2>3. Get(node) = 404 => \E n \in Nodes : HasLocally(n) /\ Get(n) = 404
    BY <1>1, <1>4
  <2>4. RespondsHonestly(Get(node))
    BY <1>1, <1>2, <2>1, <2>2, <2>3 DEF RespondsHonestly
  <2> QED BY <2>4, ResponseServes
<1>5. CASE ~(node \in dropped \/ numPartitions = 0) /\ ~HasLocally(node) /\ getPeers(key.normal) = {}
  <2>1. respond(502) /\ UNCHANGED proxyVars
    BY <1>5 DEF serveKey
  <2>2. \A n \in getPeers(key.normal) : Dead(n)
    BY <1>5
  <2>3. 404 # 502
    OBVIOUS
  <2>4. RespondsHonestly(502)
    BY <1>1, <1>2, <2>1, <2>2, <2>3 DEF RespondsHonestly
  <2> QED BY <2>4, ResponseServes
<1>6. CASE ~(node \in dropped \/ numPartitions = 0) /\ ~HasLocally(node) /\ getPeers(key.normal) # {}
  <2>1. CallsPeersOf(key.normal)
    BY <1>1, <1>6 DEF serveKey, CallsPeersOf
  <2> QED BY <2>1, CallServes
<1> QED BY <1>3, <1>4, <1>5, <1>6

LEMMA ProxiedServes == ServeInv /\ serveProxied => ServeInv'
<1> SUFFICES ASSUME ServeInv, serveProxied PROVE ServeInv'
  OBVIOUS
<1>1. at = "returned" /\ phase \in {"normal", "alternate"}
  BY DEF serveProxied
<1>2. CASE phase = "normal" /\ outcome.kind = "ok" /\ outcome.answer = 404
           /\ key.alternate # key.normal
  <2>1. CallsPeersOf(key.alternate)
    BY <1>1, <1>2 DEF serveProxied, CallsPeersOf
  <2> QED BY <2>1, CallServes
<1>3. CASE outcome.kind = "ok" /\ respond(outcome.answer) /\ UNCHANGED proxyVars
  <2>1. /\ outcome.answer \in {200, 404} /\ outcome.peer \in Nodes
        /\ HasLocally(outcome.peer) /\ Get(outcome.peer) = outcome.answer
    BY <1>3 DEF ServeInv, AnswersTrue, Answers
  <2>2. UNCHANGED <<numPartitions, node, key, have, filled, up, dropped>>
    BY DEF serveProxied
  <2>3. outcome.answer \in {200, 404, 500, 502, 504} /\ outcome.answer # 502
    BY <2>1
  <2>4. RespondsHonestly(outcome.answer)
    BY <1>1, <1>3, <2>1, <2>2, <2>3 DEF RespondsHonestly
  <2> QED BY <2>4, ResponseServes
<1>4. CASE outcome.kind # "ok" /\ respond(errorStatus(outcome.kind)) /\ UNCHANGED proxyVars
  <2>1. /\ errorStatus(outcome.kind) \in {500, 502, 504}
        /\ errorStatus(outcome.kind) = 502 => outcome.kind = "errNoAvailablePeers"
    BY DEF errorStatus
  <2>2. errorStatus(outcome.kind) = 502 /\ ~stopped =>
          \E p \in {key.normal, key.alternate} : \A n \in getPeers(p) : Dead(n)
    BY <1>1, <2>1 DEF ServeInv, Exhausts, ServeTypeOK
  <2>3. UNCHANGED <<numPartitions, node, key, have, filled, up, dropped>>
    BY DEF serveProxied
  <2>4. errorStatus(outcome.kind) \in {200, 404, 500, 502, 504} /\ errorStatus(outcome.kind) # 404
    BY <2>1
  <2>5. RespondsHonestly(errorStatus(outcome.kind))
    BY <1>1, <1>4, <2>2, <2>3, <2>4 DEF RespondsHonestly
  <2> QED BY <2>5, ResponseServes
<1> QED BY <1>2, <1>3, <1>4 DEF serveProxied

LEMMA DownServes ==
  ASSUME ServeInv, NEW n \in Nodes, nodeDown(n) \/ dropDB(n)
  PROVE  ServeInv'
<1>1. /\ UNCHANGED <<proxyVars, numPartitions, node, key, have, filled, phase, status>>
      /\ dropped \subseteq dropped' /\ up' \subseteq up
  BY DEF nodeDown, dropDB
<1>2. \A m : Dead(m) => Dead(m)'
  BY <1>1, Same DEF Dead
<1>3. ProxyInv' /\ Exhausts'
  BY <1>1, <1>2, ProxyStays
<1>4. ServeTypeOK'
  <2>1. ServeTypeOK
    BY DEF ServeInv
  <2> QED BY <1>1, <2>1, TypeStays
<1>5. BadGatewayHonest'
  <2>1. BadGatewayHonest /\ UNCHANGED stopped
    BY <1>1 DEF ServeInv, proxyVars
  <2> QED BY <1>1, <1>2, <2>1, BadGatewayStays
<1>6. AnswersTrue'
  <2>1. status = 404 => node \in dropped \/ key.home = NoPartition \/ \E m \in Nodes : HasLocally(m) /\ Get(m) = 404
    BY DEF ServeInv, AnswersTrue
  <2>2. status' = 404 => node' \in dropped' \/ key'.home = NoPartition \/ \E m \in Nodes : HasLocally(m)' /\ Get(m)' = 404
    BY <1>1, <2>1, Same
  <2> QED BY <1>1, <1>2, <2>2, ProxyStays DEF AnswersTrue
<1> QED BY <1>3, <1>4, <1>5, <1>6, ServeInvAfter

LEMMA ServeStep == ServeInv /\ [Next]_vars => ServeInv'
<1> SUFFICES ASSUME ServeInv, [Next]_vars PROVE ServeInv'
  OBVIOUS
<1>1. CASE UNCHANGED vars
  <2>1. UNCHANGED <<proxyVars, numPartitions, node, key, have, filled, up, dropped, phase, status>>
    BY <1>1 DEF vars, serveVars
  <2>2. \A n : Dead(n)' = Dead(n)
    BY <2>1, Same DEF Dead
  <2>3. ProxyInv' /\ Exhausts'
    BY <2>1, <2>2, ProxyStays
  <2>4. ServeTypeOK /\ AnswersTrue /\ BadGatewayHonest /\ UNCHANGED stopped
    BY <2>1 DEF ServeInv, proxyVars
  <2>5. ServeTypeOK'
    BY <2>1, <2>4, TypeStays
  <2>6. BadGatewayHonest'
    BY <2>1, <2>2, <2>4, BadGatewayStays
  <2>7. AnswersTrue'
    BY <2>1, <2>2, <2>4, ProxyStays DEF AnswersTrue
  <2> QED BY <2>3, <2>5, <2>6, <2>7, ServeInvAfter
<1>2. ASSUME NEW p \in Peers, NEW answer \in Answers \cup {Failed}, LoopStep(receive(p, answer))
      PROVE  ServeInv'
  BY <1>2, ReceiveServes DEF LoopStep
<1>3. CASE LoopStep(Loop)
  BY <1>3, <1>2, StartServes, EndServes DEF LoopStep, Loop
<1>4. CASE LoopStep(stageTimeout) \/ LoopStep(clientGone)
  BY <1>4, EndServes DEF LoopStep
<1> QED BY <1>1, <1>3, <1>4, KeyServes, ProxiedServes, PeerAnswers, DownServes DEF Next, AttemptStep

-----------------------------------------------------------------------------
\* The books of the proxy loop are right, and every answer is a peer's: for any
\* number of peers and any order of answers, failures, timeouts and cancellation.
THEOREM ServeSafe == Spec => []ServeInv
BY ServeInit, ServeStep, PTL DEF Spec

\* When proxy has returned, every attempt but the winner's is finished, cancelled
\* or dies with the request, and the winner's is not cancelled.
THEOREM OnlyTheWinnerLives == Spec => []WinnerOnly
<1>1. ServeInv => WinnerOnly
  BY DEF ServeInv, ProxyInv
<1> QED BY <1>1, ServeSafe, PTL

\* A key with one partition is answered with 404 only if the version lacks it.
THEOREM NotFoundIsHonest == Spec => []NotFoundHonest
<1>1. ASSUME NEW n \in Nodes, key \in Keys, key.normal = key.alternate, HasLocally(n), Get(n) = 404
      PROVE  key.home = NoPartition
  <2>1. key.home \in {key.normal, NoPartition} /\ key.normal \in have[n]
    BY <1>1 DEF Keys, HasLocally
  <2> QED BY <1>1, <2>1 DEF Get
<1>2. ServeInv => NotFoundHonest
  <2>1. ServeInv => key \in Keys
    BY DEF ServeInv, ServeTypeOK
  <2>2. ServeInv /\ status = 404 => node \in dropped \/ key.home = NoPartition \/ \E n \in Nodes : HasLocally(n) /\ Get(n) = 404
    BY DEF ServeInv, AnswersTrue
  <2> QED BY <1>1, <2>1, <2>2 DEF NotFoundHonest
<1> QED BY <1>2, ServeSafe, PTL

\* 502 is answered only if none of the peers it was tried at could have answered.
THEOREM BadGatewayIsHonest == Spec => []BadGatewayHonest
<1>1. ServeInv => BadGatewayHonest
  BY DEF ServeInv
<1> QED BY <1>1, ServeSafe, PTL
=============================================================================
