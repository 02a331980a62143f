---------------------------- MODULE CodexStream ----------------------------
(* parseOpenAICodexStream of internal/agent/llm/openai_codex_provider.go:   *)
(* what a stream of server-sent events is read as.  An event is one of      *)
(*   "text", "call", "badcall"     an output item: a message, a tool call,  *)
(*                                 a tool call with malformed arguments     *)
(*   "completed", "incomplete", "cancelled"   the end, with its status      *)
(*   "ended"                       an end that states none                  *)
(*   "error", "failed"             the service gives up                     *)
(*   "broken"                      the body cannot be read on               *)
(*   "other", "garbled"            another event, or one that is not JSON   *)
EXTENDS Integers, Sequences, FiniteSets, FiniteSetsExt

CONSTANT MaxEvents  \* bound: the length of a stream

ASSUME StreamAssumption == MaxEvents \in Nat

Ends == {"completed", "incomplete", "cancelled"}
Faults == {"error", "failed", "badcall", "broken"}

(* mapOpenAICodexStopReason *)
StopReason(status, calls) ==
  CASE status = "incomplete" -> "length"
    [] status = "cancelled" -> "error"
    [] OTHER -> IF calls > 0 THEN "toolUse" ELSE "stop"

Unread == [texts |-> 0, calls |-> 0, usage |-> FALSE, stop |-> "", failed |-> FALSE]

(* Fault: the stop reason is settled by the first end.                      *)
handleEventOnce(resp, event) ==
  IF resp.failed THEN resp
  ELSE CASE event \in Faults -> [resp EXCEPT !.failed = TRUE]
         [] event = "text" -> [resp EXCEPT !.texts = @ + 1]
         [] event = "call" -> [resp EXCEPT !.calls = @ + 1]
         [] event \in Ends /\ resp.stop = "" ->
              [resp EXCEPT !.usage = TRUE, !.stop = StopReason(event, resp.calls)]
         [] event \in Ends \cup {"ended"} -> [resp EXCEPT !.usage = TRUE]
         [] OTHER -> resp

(* Nothing is read after an error.  An end that states no status leaves the *)
(* stop reason as it is; an end with no usage is not told apart from one    *)
(* with usage zero.                                                         *)
handleEvent(resp, event) ==
  IF resp.failed THEN resp
  ELSE CASE event \in Faults -> [resp EXCEPT !.failed = TRUE]
         [] event = "text" -> [resp EXCEPT !.texts = @ + 1]
         [] event = "call" -> [resp EXCEPT !.calls = @ + 1]
         [] event \in Ends -> [resp EXCEPT !.usage = TRUE, !.stop = StopReason(event, resp.calls)]
         [] event = "ended" -> [resp EXCEPT !.usage = TRUE]
         [] OTHER -> resp

(* A stream that simply stops is read as completed, without its usage; so   *)
(* is one whose ends state no status, with it.                              *)
parseOpenAICodexStream(events) ==
  LET read[n \in 0..Len(events)] ==
        IF n = 0 THEN Unread ELSE handleEvent(read[n - 1], events[n])
      resp == read[Len(events)]
  IN  IF resp.stop = "" THEN [resp EXCEPT !.stop = StopReason("completed", resp.calls)] ELSE resp

Event == Ends \cup {"ended"} \cup Faults \cup {"text", "call", "other", "garbled"}

Streams == UNION {[1..n -> Event] : n \in 0..MaxEvents}

SomeStreamFails == \E events \in Streams : parseOpenAICodexStream(events).failed

(* Where events of some kinds are.                                          *)
Which(events, kinds) == {i \in DOMAIN events : events[i] \in kinds}

(* A stream fails exactly when it reports a fault or cannot be read to its  *)
(* end.  Otherwise its texts and calls are all read, whatever comes         *)
(* between; it has a usage exactly when it has an end; and it stops for a   *)
(* tool exactly when a call precedes the last end that states a status, or  *)
(* none does and there is a call anywhere.                                  *)
FaithfullyRead(events) ==
  LET resp  == parseOpenAICodexStream(events)
      calls == Which(events, {"call"})
      end   == Max(Which(events, Ends) \cup {0})
  IN  /\ resp.failed <=> Which(events, Faults) # {}
      /\ ~resp.failed =>
           /\ resp.texts = Cardinality(Which(events, {"text"}))
           /\ resp.calls = Cardinality(calls)
           /\ resp.usage <=> Which(events, Ends \cup {"ended"}) # {}
           /\ resp.stop = "toolUse" <=>
                IF end = 0 THEN calls # {}
                ELSE events[end] = "completed" /\ \E i \in calls : i < end

ReadFaithfully == \A events \in Streams : FaithfullyRead(events)

=============================================================================
