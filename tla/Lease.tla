------------------------------- MODULE Lease -------------------------------
(***************************************************************************)
(* What a versionMux promises its callers, whatever its timers and         *)
(* counters do: a request holds at most one version at a time, takes only  *)
(* versions that are open, and a version is closed once, for good, when no *)
(* request holds it.                                                       *)
(***************************************************************************)
CONSTANTS Versions, Requests, NoVersion
VARIABLES holding,  \* the version each request holds
          closed    \* the versions given up for closing

Init == holding = [q \in Requests |-> NoVersion] /\ closed = {}

Take(q, v) ==
  /\ holding[q] = NoVersion /\ v \notin closed
  /\ holding' = [holding EXCEPT ![q] = v]
  /\ UNCHANGED closed

Give(q) ==
  /\ holding[q] # NoVersion
  /\ holding' = [holding EXCEPT ![q] = NoVersion]
  /\ UNCHANGED closed

Close(v) ==
  /\ v \notin closed /\ \A q \in Requests : holding[q] # v
  /\ closed' = closed \cup {v}
  /\ UNCHANGED holding

Next ==
  \/ \E q \in Requests : Give(q) \/ \E v \in Versions : Take(q, v)
  \/ \E v \in Versions : Close(v)

Spec == Init /\ [][Next]_<<holding, closed>>
=============================================================================
