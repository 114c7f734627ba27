---------------------------- MODULE Transaction ----------------------------
(***************************************************************************)
(* What a prefix KV replication promises its caller: "one Engine-controlled *)
(* prefix KV replication transaction" (internal/placement/coordinator.go).  *)
(* A replication that was opened ends, committed or aborted and not both,   *)
(* and is committed only after the destination has taken the KV in.  The    *)
(* destination may take the KV of an aborted one: the caller cannot call    *)
(* back a push that is on its way.                                          *)
(***************************************************************************)
CONSTANT Transfers

VARIABLES
  status,   \* status[t]: "idle", "open", "committed" or "aborted"
  imported  \* the transfers whose KV the destination has taken in

Init ==
  /\ status = [t \in Transfers |-> "idle"]
  /\ imported = {}

Open(t) ==
  /\ status[t] = "idle"
  /\ status' = [status EXCEPT ![t] = "open"]
  /\ UNCHANGED imported

Import(t) ==
  /\ status[t] \in {"open", "aborted"}
  /\ t \notin imported
  /\ imported' = imported \cup {t}
  /\ UNCHANGED status

Commit(t) ==
  /\ status[t] = "open"
  /\ t \in imported
  /\ status' = [status EXCEPT ![t] = "committed"]
  /\ UNCHANGED imported

Abort(t) ==
  /\ status[t] = "open"
  /\ status' = [status EXCEPT ![t] = "aborted"]
  /\ UNCHANGED imported

Next == \E t \in Transfers : Open(t) \/ Import(t) \/ Commit(t) \/ Abort(t)

Safety == Init /\ [][Next]_<<status, imported>>

Spec ==
  /\ Safety
  /\ \A t \in Transfers : WF_<<status, imported>>(Commit(t) \/ Abort(t))

=============================================================================
