----------------------------- MODULE PubSubPull -----------------------------
(***************************************************************************)
(* gcpClient.PullN of src/service/testing/msg/gcp.go: a subscription's     *)
(* Receive loop with a callback that counts pulled messages and cancels    *)
(* the receive context at max, racing a timeout goroutine that shares the  *)
(* same counter.                                                           *)
(*                                                                         *)
(* Receive dispatches backlog messages to callbacks while its context is  *)
(* live; PullN passes no ReceiveSettings, and the library's default of     *)
(* 1000 outstanding messages is above every backlog here, so any number    *)
(* of callbacks may be dispatched at once.  The callbacks run one at a time *)
(* under PullN's mutex; once the context is cancelled Receive stops        *)
(* dispatching and returns when the dispatched callbacks have finished.  A *)
(* nacked message goes back to the backlog and is delivered again.         *)
(***************************************************************************)
EXTENDS Naturals, Sequences, FiniteSets

CONSTANTS
  Msgs,         \* the messages on the subscription when PullN starts
  Max,          \* PullN's max argument
  Nack,         \* PullN's nack argument
  PullBound     \* bound on deliveries (nacked messages come back forever)

ASSUME Max \in Nat /\ Nack \in BOOLEAN

VARIABLES
  backlog,      \* messages the subscription holds and has not dispatched
  inflight,     \* messages dispatched to a callback that has not yet run
  counter,      \* pulledCounter
  cancelled,    \* the receive context has been cancelled
  timer,        \* the timeout goroutine: "sleeping" or "fired"
  messages,     \* the messages slice PullN returns
  returned      \* Receive, and with it PullN, has returned

vars == <<backlog, inflight, counter, cancelled, timer, messages, returned>>

Init ==
  /\ backlog = Msgs
  /\ inflight = {}
  /\ counter = 0
  /\ cancelled = FALSE
  /\ timer = "sleeping"
  /\ messages = <<>>
  /\ returned = FALSE

(* subscription.Receive hands a backlog message to a callback goroutine.   *)
Dispatch(m) ==
  /\ ~cancelled
  /\ m \in backlog
  /\ Len(messages) + Cardinality(inflight) < PullBound
  /\ backlog' = backlog \ {m}
  /\ inflight' = inflight \cup {m}
  /\ UNCHANGED <<counter, cancelled, timer, messages, returned>>

(* Mutant: cancel only when the count equals max.                          *)
CallbackCancelAtMax(m) ==
  /\ m \in inflight
  /\ inflight' = inflight \ {m}
  /\ messages' = Append(messages, m)
  /\ counter' = counter + 1
  /\ cancelled' = (cancelled \/ (Max > 0 /\ counter + 1 = Max))
  /\ backlog' = IF Nack THEN backlog \cup {m} ELSE backlog
  /\ UNCHANGED <<timer, returned>>

(* The Receive callback, under the mutex: append the message, bump the     *)
(* counter, cancel at max, then Nack (redelivered) or Ack (consumed).      *)
Callback(m) ==
  /\ m \in inflight
  /\ inflight' = inflight \ {m}
  /\ messages' = Append(messages, m)
  /\ counter' = counter + 1
  /\ cancelled' = (cancelled \/ (Max > 0 /\ counter + 1 >= Max))
  /\ backlog' = IF Nack THEN backlog \cup {m} ELSE backlog
  /\ UNCHANGED <<timer, returned>>

(* Mutant: a ticker in place of the one-shot sleep.                       *)
TimeoutRepeating ==
  /\ timer' = "fired"
  /\ counter' = counter + 1
  /\ cancelled' = (cancelled \/ (counter + 1 # Max /\ Max > 0))
  /\ UNCHANGED <<backlog, inflight, messages, returned>>

(* The timeout goroutine wakes, bumps the shared counter and cancels       *)
(* unless the new count equals max.                                        *)
Timeout ==
  /\ timer = "sleeping"
  /\ timer' = "fired"
  /\ counter' = counter + 1
  /\ cancelled' = (cancelled \/ (counter + 1 # Max /\ Max > 0))
  /\ UNCHANGED <<backlog, inflight, messages, returned>>

(* Receive returns once its context is done and no callback is running.    *)
ReceiveReturn ==
  /\ ~returned
  /\ cancelled
  /\ inflight = {}
  /\ returned' = TRUE
  /\ UNCHANGED <<backlog, inflight, counter, cancelled, timer, messages>>

(* PullN has returned and its timeout goroutine has exited.                *)
Done == returned /\ timer = "fired"

Next ==
  \/ \E m \in Msgs : Dispatch(m) \/ Callback(m)
  \/ Timeout
  \/ ReceiveReturn
  \/ Done /\ UNCHANGED vars

(* time.Sleep ends, the Go scheduler runs each goroutine, and Pub/Sub      *)
(* delivers a message it holds to a live Receive.                          *)
Spec ==
  /\ Init /\ [][Next]_vars
  /\ WF_vars(Timeout)
  /\ WF_vars(ReceiveReturn)
  /\ \A m \in Msgs : WF_vars(Dispatch(m)) /\ WF_vars(Callback(m))

-----------------------------------------------------------------------------
TypeOK ==
  /\ backlog \subseteq Msgs
  /\ inflight \subseteq Msgs
  /\ counter \in 0..PullBound + 1
  /\ cancelled \in BOOLEAN
  /\ timer \in {"sleeping", "fired"}
  /\ messages \in Seq(Msgs)
  /\ returned \in BOOLEAN

(* PullN returns: the callback's cancel at max, or failing that the        *)
(* timeout goroutine's cancel, ends subscription.Receive.                  *)
PullNReturns == <>returned

(* PullN(max) returns at most max messages: the callback cancels the       *)
(* receive once max have been pulled.                                      *)
ResultWithinMax == returned /\ Max > 0 => Len(messages) <= Max

=============================================================================
