------------------------------- MODULE Calls -------------------------------
(***************************************************************************)
(* What a client program may rely on when it makes calls to Raft: the      *)
(* abstract specification of futures.  A call is issued, is answered once, *)
(* keeps its answer, and its slot is given back only after the answer: by  *)
(* the client that holds it, or, if the client has disposed of the call    *)
(* before it waited for it, by a collector.                                *)
(*                                                                         *)
(* Futures is shown to implement this specification; Client uses it.       *)
(***************************************************************************)
CONSTANTS Slots,      \* addresses of call slots
          Refusals,   \* what a call may be answered with as it is issued
          Answers,    \* what Raft may answer
          None        \* no answer yet

VARIABLES issued,     \* calls a client holds
          orphaned,   \* calls no client holds
          answer

callVars == <<issued, orphaned, answer>>

Init ==
  /\ issued = {} /\ orphaned = {}
  /\ answer = [s \in Slots |-> None]

(* A call is sent, or refused at once. *)
Issue(s) ==
  /\ s \notin issued \cup orphaned
  /\ issued' = issued \cup {s}
  /\ \E a \in Refusals \cup {None} : answer' = [answer EXCEPT ![s] = a]
  /\ UNCHANGED orphaned

(* Raft's reply, or the refusal of a call that cannot be sent any more *)
Answer(s) ==
  /\ s \in issued \cup orphaned /\ answer[s] = None
  /\ \E a \in Answers \cup Refusals : answer' = [answer EXCEPT ![s] = a]
  /\ UNCHANGED <<issued, orphaned>>

(* dispose() by a client that has waited for the answer *)
Dispose(s) ==
  /\ s \in issued /\ answer[s] # None
  /\ issued' = issued \ {s}
  /\ answer' = [answer EXCEPT ![s] = None]
  /\ UNCHANGED orphaned

(* dispose() by a client that has not *)
Abandon(s) ==
  /\ s \in issued
  /\ issued' = issued \ {s} /\ orphaned' = orphaned \cup {s}
  /\ UNCHANGED answer

(* The orphan GC frees an abandoned call. *)
Collect(s) ==
  /\ s \in orphaned /\ answer[s] # None
  /\ orphaned' = orphaned \ {s}
  /\ answer' = [answer EXCEPT ![s] = None]
  /\ UNCHANGED issued

Next ==
  \E s \in Slots : Issue(s) \/ Answer(s) \/ Dispose(s) \/ Abandon(s) \/ Collect(s)

Spec == Init /\ [][Next]_callVars

=============================================================================
