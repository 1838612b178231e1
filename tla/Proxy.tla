------------------------------- MODULE Proxy -------------------------------
(***************************************************************************)
(* version.proxy (proxy.go): one request, tried at the peers that should   *)
(* have its key, one more of them at each stage timeout or error, until    *)
(* one answers, all have failed, or the total timeout or the client ends   *)
(* it.  The peers come shuffled, so the next one is any not yet tried.     *)
(***************************************************************************)
EXTENDS Integers, FiniteSets

CONSTANTS Peers, NoPeer,
          Malformed   \* peers whose address gives no valid URL

ASSUME ProxyAssumption == IsFiniteSet(Peers) /\ NoPeer \notin Peers /\ Malformed \subseteq Peers

Answers == {200, 404}    \* what proxyAttempt takes for a success
Failed == 0              \* any other status, or an error of the transport

VARIABLES asked,       \* the peers this call was given
          untried,     \* peers[peerIndex:]
          running,     \* goroutines in proxyAttempt
          responses,   \* the channel: <<peer, answer>>, at most one of each peer
          outstanding, \* the counter of the loop
          cancelled,   \* attempts whose context is cancelled
          stopped,     \* the request's own context is done: the client is gone
          at,          \* where the loop is: loop, select, or returned
          outcome      \* what proxy returned: kind, and peer and answer

proxyVars == <<asked, untried, running, responses, outstanding, cancelled, stopped,
               at, outcome>>

NoOutcome == [kind |-> "none", peer |-> NoPeer, answer |-> Failed]

call(peers) ==
  /\ asked' = peers /\ untried' = peers
  /\ running' = {} /\ responses' = {} /\ cancelled' = {}
  /\ outstanding' = 0 /\ at' = "loop" /\ outcome' = NoOutcome

ProxyInit(peers) ==
  /\ asked = peers /\ untried = peers
  /\ running = {} /\ responses = {} /\ cancelled = {} /\ stopped = FALSE
  /\ outstanding = 0 /\ at = "loop" /\ outcome = NoOutcome

return(kind, peer, answer) ==
  /\ at' = "returned"
  /\ outcome' = [kind |-> kind, peer |-> peer, answer |-> answer]

\* Mutant: a request that could not be made is counted all the same.
startAttemptCounted ==
  /\ at = "loop"
  /\ \/ \E p \in untried :
          /\ untried' = untried \ {p}
          /\ running' = running \cup ({p} \ Malformed) /\ outstanding' = outstanding + 1
          /\ at' = "select" /\ UNCHANGED outcome
     \/ /\ untried = {} /\ outstanding = 0
        /\ return("errNoAvailablePeers", NoPeer, Failed)
        /\ UNCHANGED <<untried, running, outstanding>>
     \/ /\ untried = {} /\ outstanding > 0
        /\ at' = "select" /\ UNCHANGED <<untried, running, outstanding, outcome>>
  /\ UNCHANGED <<asked, responses, cancelled, stopped>>

\* The head of the loop: a request to the next peer, which cannot even be made
\* or is started; or the end of the peers.
startAttempt ==
  /\ at = "loop"
  /\ \/ \E p \in untried :
          /\ untried' = untried \ {p}
          /\ IF p \in Malformed
             THEN UNCHANGED <<running, outstanding>>
             ELSE running' = running \cup {p} /\ outstanding' = outstanding + 1
          /\ at' = "select" /\ UNCHANGED outcome
     \/ /\ untried = {} /\ outstanding = 0
        /\ return("errNoAvailablePeers", NoPeer, Failed)
        /\ UNCHANGED <<untried, running, outstanding>>
     \/ /\ untried = {} /\ outstanding > 0
        /\ at' = "select" /\ UNCHANGED <<untried, running, outstanding, outcome>>
  /\ UNCHANGED <<asked, responses, cancelled, stopped>>

\* proxyAttempt: the peer answers or fails.  A cancelled attempt fails, unless
\* its answer had already arrived.
proxyAttempt(p, answer) ==
  /\ p \in running
  /\ running' = running \ {p}
  /\ responses' = responses \cup {<<p, answer>>}
  /\ UNCHANGED <<asked, untried, outstanding, cancelled, stopped, at, outcome>>

\* Mutant: the winner cancels every attempt, its own included.
receiveCancelAll(p, answer) ==
  /\ at = "select" /\ <<p, answer>> \in responses
  /\ responses' = responses \ {<<p, answer>>}
  /\ IF answer = Failed
     THEN /\ cancelled' = cancelled \cup {p} /\ outstanding' = outstanding - 1
          /\ at' = "loop" /\ UNCHANGED outcome
     ELSE /\ cancelled' = asked \ untried
          /\ return("ok", p, answer) /\ UNCHANGED outstanding
  /\ UNCHANGED <<asked, untried, running, stopped>>

\* select: a response.  An error cancels its own attempt and goes on to the
\* next peer, a success cancels the others.
receive(p, answer) ==
  /\ at = "select" /\ <<p, answer>> \in responses
  /\ responses' = responses \ {<<p, answer>>}
  /\ IF answer = Failed
     THEN /\ cancelled' = cancelled \cup {p} /\ outstanding' = outstanding - 1
          /\ at' = "loop" /\ UNCHANGED outcome
     ELSE /\ cancelled' = (asked \ untried) \ {p}
          /\ return("ok", p, answer) /\ UNCHANGED outstanding
  /\ UNCHANGED <<asked, untried, running, stopped>>

\* Mutant: the total timeout is not looked at while attempts are outstanding.
timeoutIdle ==
  /\ at = "select" /\ outstanding = 0
  /\ cancelled' = asked \ untried
  /\ return("errProxyTimeout", NoPeer, Failed)
  /\ UNCHANGED <<asked, untried, running, responses, outstanding, stopped>>

totalTimeout ==
  /\ at = "select"
  /\ cancelled' = asked \ untried
  /\ return("errProxyTimeout", NoPeer, Failed)
  /\ UNCHANGED <<asked, untried, running, responses, outstanding, stopped>>

contextDone ==
  /\ at = "select" /\ stopped
  /\ return("errRequestCanceled", NoPeer, Failed)
  /\ UNCHANGED <<asked, untried, running, responses, outstanding, cancelled, stopped>>

stageTimeout ==
  /\ at = "select" /\ at' = "loop"
  /\ UNCHANGED <<asked, untried, running, responses, outstanding, cancelled, stopped, outcome>>

\* The client goes away, before or after the call has returned.
clientGone ==
  /\ ~stopped /\ stopped' = TRUE
  /\ UNCHANGED <<asked, untried, running, responses, outstanding, cancelled, at, outcome>>

Loop ==
  \/ startAttempt \/ totalTimeout \/ contextDone
  \/ \E p \in Peers, answer \in Answers \cup {Failed} : receive(p, answer)

-----------------------------------------------------------------------------
(* Properties. *)

Answered == {r[1] : r \in responses}

TypeOK ==
  /\ asked \subseteq Peers /\ untried \subseteq asked
  /\ running \subseteq asked \ untried /\ cancelled \subseteq asked \ untried
  /\ responses \subseteq (asked \ untried) \X (Answers \cup {Failed})
  /\ at \in {"loop", "select", "returned"}
  /\ outcome \in [kind : {"none", "ok", "errNoAvailablePeers", "errProxyTimeout",
                          "errRequestCanceled"},
                  peer : Peers \cup {NoPeer}, answer : Answers \cup {Failed}]

\* The books of the loop.  A peer runs or has answered, once, and its context is
\* not cancelled before its answer is read; outstanding counts the attempts that
\* run or whose response is unread; the channel, made for one response of each
\* peer, never blocks a proxyAttempt.
Books ==
  /\ running \cap Answered = {} /\ \A r, s \in responses : r[1] = s[1] => r = s
  /\ Cardinality(responses) <= Cardinality(asked)
  /\ at # "returned" =>
       /\ outcome = NoOutcome /\ cancelled \cap (running \cup Answered) = {}
       /\ outstanding = Cardinality(running) + Cardinality(responses)

\* errNoAvailablePeers (a 502) is returned only when every peer has been tried,
\* none is still being asked, and no success lies unread in the channel.
GivesUpLast ==
  outcome.kind = "errNoAvailablePeers" => untried = {} /\ running = {} /\ responses = {}

\* When the call has returned no attempt but the winner's goes on: the others are
\* finished, cancelled, or die with the client's request.  The winner's own
\* context is left alone, so that its body can be streamed.
WinnerOnly ==
  /\ at = "returned" => \A p \in running : p \in cancelled \/ stopped
  /\ outcome.kind = "ok" => outcome.peer \notin cancelled

\* The four together are inductive.
ProxyInv == TypeOK /\ Books /\ GivesUpLast /\ WinnerOnly
=============================================================================
