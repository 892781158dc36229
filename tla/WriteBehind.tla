---- MODULE WriteBehind ----
(***************************************************************************)
(* What internal/store/object.go promises to its callers, without saying   *)
(* how: mutations go to a volatile store at once and to a durable one      *)
(* later, in batches of its own choosing.  A sync that reports success has *)
(* made durable all that was volatile when it was called.  Losing the      *)
(* process falls back to the durable store and to nothing older.           *)
(***************************************************************************)
EXTENDS Integers

CONSTANTS Op,      \* mutations
          Caller   \* goroutines that may call sync

VARIABLES volatile, durable,
          status,    \* of each caller: "idle", "called", "ok" or "err"
          promised   \* what was volatile when the caller called

vars == <<volatile, durable, status, promised>>

TypeOK ==
  /\ volatile \in SUBSET Op
  /\ durable \in SUBSET Op
  /\ status \in [Caller -> {"idle", "called", "ok", "err"}]
  /\ promised \in [Caller -> SUBSET Op]

Init ==
  /\ volatile = {}
  /\ durable = {}
  /\ status = [c \in Caller |-> "idle"]
  /\ promised = [c \in Caller |-> {}]

Apply ==
  /\ \E op \in Op \ volatile : volatile' = volatile \cup {op}
  /\ UNCHANGED <<durable, status, promised>>

Call(c) ==
  /\ status[c] = "idle"
  /\ status' = [status EXCEPT ![c] = "called"]
  /\ promised' = [promised EXCEPT ![c] = volatile]
  /\ UNCHANGED <<volatile, durable>>

\* Some of the volatile store is written behind.
Write == /\ durable \subseteq durable'
         /\ durable' \subseteq volatile

Background ==
  /\ Write
  /\ UNCHANGED <<volatile, status, promised>>

Succeed(c) ==
  /\ status[c] = "called"
  /\ Write
  /\ promised[c] \subseteq durable'
  /\ status' = [status EXCEPT ![c] = "ok"]
  /\ UNCHANGED <<volatile, promised>>

Fail(c) ==
  /\ status[c] = "called"
  /\ status' = [status EXCEPT ![c] = "err"]
  /\ UNCHANGED <<volatile, durable, promised>>

Return(c) ==
  /\ status[c] \in {"ok", "err"}
  /\ status' = [status EXCEPT ![c] = "idle"]
  /\ promised' = [promised EXCEPT ![c] = {}]
  /\ UNCHANGED <<volatile, durable>>

\* The process is lost; what it was writing may still arrive.
Lose ==
  /\ Write
  /\ volatile' = durable'
  /\ status' = [c \in Caller |-> "idle"]
  /\ promised' = [c \in Caller |-> {}]

Next ==
  \/ Apply
  \/ \E c \in Caller : Call(c) \/ Succeed(c) \/ Fail(c) \/ Return(c)
  \/ Background
  \/ Lose

Spec == Init /\ [][Next]_vars
====
