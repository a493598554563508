---------------------------- MODULE CommitOutcome ----------------------------
(***************************************************************************)
(* What two-phase commit between the binary log and the engines promises.  *)
(* A transaction is decided when it is durable in the binary log.  Only a  *)
(* decided transaction is ever committed in an engine, in the engines of   *)
(* Ordered in the order of the log; a client is told "acked" only when its *)
(* transaction is committed in all its engines and "failed" only when it   *)
(* will never be decided.  A crash may lose commits of the engines, never  *)
(* decisions; the server is up again only when the engines hold exactly    *)
(* the decided ones.                                                       *)
(***************************************************************************)
EXTENDS Sequences, Integers, SequencesExt

CONSTANTS Trx, Engine,
          Parts,     \* Parts[t]: the engines transaction t has written in
          Ordered    \* the engines that commit in the order of the log

VARIABLES log,
          engine,    \* engine[e]: the transactions committed in engine e
          reply, up

vars == <<log, engine, reply, up>>

Init == /\ log = <<>> /\ up = TRUE
        /\ engine = [e \in Engine |-> {}]
        /\ reply = [t \in Trx |-> "none"]

\* new transactions become durable in the log
Extends ==
  LET old == log
      new == log'
  IN  /\ IsPrefix(old, new)
      /\ \A i \in Len(old) + 1 .. Len(new) :
           /\ new[i] \in Trx /\ reply[new[i]] = "none"
           /\ \A j \in 1 .. i - 1 : new[j] # new[i]

Decide == /\ up /\ UNCHANGED <<engine, reply, up>> /\ Extends

InOrder(e, t) ==
  e \in Ordered =>
    \A i, j \in DOMAIN log :
      i < j /\ log[j] = t /\ e \in Parts[log[i]] => log[i] \in engine[e]

Apply(e, t) == /\ t \in Range(log) \ engine[e]
               /\ up => InOrder(e, t)
               /\ engine' = [engine EXCEPT ![e] = @ \cup {t}]
               /\ UNCHANGED <<log, reply, up>>

Answer(t) == /\ up /\ reply[t] = "none"
             /\ \/ /\ \A e \in Parts[t] : t \in engine[e]
                   /\ reply' = [reply EXCEPT ![t] = "acked"]
                \/ /\ t \notin Range(log)
                   /\ reply' = [reply EXCEPT ![t] = "failed"]
             /\ UNCHANGED <<log, engine, up>>

Crash == /\ up /\ up' = FALSE
         /\ Extends
         /\ \A e \in Engine : engine'[e] \subseteq engine[e]
         /\ UNCHANGED reply

Restart == /\ ~up /\ up' = TRUE
           /\ engine = [e \in Engine |-> {t \in Range(log) : e \in Parts[t]}]
           /\ UNCHANGED <<log, engine, reply>>

Next == \/ Decide \/ Crash \/ Restart
        \/ \E t \in Trx : Answer(t) \/ \E e \in Parts[t] : Apply(e, t)

Spec == Init /\ [][Next]_vars

=============================================================================
