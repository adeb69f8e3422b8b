---------------------------- MODULE ReportFeed ----------------------------
(***************************************************************************)
(* What the report stream of the AI gateway promises a room, whatever      *)
(* happens to connections, report loops and the ring of recent features:   *)
(*                                                                         *)
(*   - an analysis enters the record only after the room was sent it, and  *)
(*     in the order of the messages it was made from;                      *)
(*   - a report shows the latest Cap analyses of the record as it stood at *)
(*     some moment, and never an older moment than the report before it.   *)
(*                                                                         *)
(* Gateway implements this specification (Gateway!ImplementsFeed).         *)
(***************************************************************************)
EXTENDS Naturals, Sequences

CONSTANTS Sessions,   \* the rooms the gateway analyses
          Cap,        \* how many analyses of a room the record remembers
          Facts,      \* analyses: [n |-> message number, kind |-> analysis]
          NoFact      \* "nothing was just announced"

VARIABLES pending,    \* pending[s]: sent to the room, not recorded yet
          record,     \* record[s]: every analysis recorded so far
          shown,      \* shown[s]: how much of record[s] the last report saw
          body        \* body[s]: the analyses the last report was made from

feedVars == <<pending, record, shown, body>>

(* The latest Cap members of the first k of a record. *)
Window(facts, k) ==
  SubSeq(facts, IF k > Cap THEN k - Cap + 1 ELSE 1, k)

Init ==
  /\ pending = [s \in Sessions |-> NoFact]
  /\ record = [s \in Sessions |-> <<>>]
  /\ shown = [s \in Sessions |-> 0]
  /\ body = [s \in Sessions |-> <<>>]

(* The room is sent an analysis of a message no older than the last one. *)
Announce(s) ==
  /\ \E f \in Facts :
       /\ record[s] # <<>> => record[s][Len(record[s])].n <= f.n
       /\ pending[s] # NoFact => pending[s].n <= f.n
       /\ pending' = [pending EXCEPT ![s] = f]
  /\ UNCHANGED <<record, shown, body>>

(* What was announced is recorded ...                                      *)
Record(s) ==
  /\ pending[s] # NoFact
  /\ record' = [record EXCEPT ![s] = Append(@, pending[s])]
  /\ pending' = [pending EXCEPT ![s] = NoFact]
  /\ UNCHANGED <<shown, body>>

(* ... or the task that announced it is cancelled first.                   *)
Forget(s) ==
  /\ pending' = [pending EXCEPT ![s] = NoFact]
  /\ UNCHANGED <<record, shown, body>>

Publish(s) ==
  /\ \E k \in shown[s] .. Len(record[s]) :
       /\ shown' = [shown EXCEPT ![s] = k]
       /\ body' = [body EXCEPT ![s] = Window(record[s], k)]
  /\ UNCHANGED <<pending, record>>

Next ==
  \E s \in Sessions : Announce(s) \/ Record(s) \/ Forget(s) \/ Publish(s)

Spec == Init /\ [][Next]_feedVars
=============================================================================
