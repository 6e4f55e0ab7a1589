----------------------------- MODULE StdioProxy -----------------------------
(* The bridge from an agent's stdin and stdout to a running server          *)
(* (cmd/server/stdio.go): one message at a time is posted, and what the      *)
(* server answers, in one piece or as a stream of events, is written back;  *)
(* the server may restart, refuse, or break off.                           *)
EXTENDS Naturals, Sequences

CONSTANTS
    Messages,       \* bound: number of messages of a session
    MaxEvents,      \* bound: notifications ahead of a streamed result
    Kinds           \* "request", "notification", "garbage"

VARIABLES
    stdin,          \* what the agent writes: the kind of each message, EOF after
    at,             \* the message in hand
    step,           \* "read", "posted", "streaming", "ended"
    events,         \* of the stream in hand, not yet terminated or written
    seen,           \* events of the stream in hand so far
    stdout,         \* lines written: the message they are about, and what
    silent          \* requests the server gave no usable answer to

vars == <<stdin, at, step, events, seen, stdout, silent>>

Line(what) == [about |-> at, what |-> what]
Request(i) == stdin[i] = "request"

TypeOK ==
    /\ stdin \in [1..Messages -> Kinds] /\ at \in 1..Messages + 1
    /\ step \in {"read", "posted", "streaming", "ended"}
    /\ events \in {<<>>, <<"event">>, <<"result">>} /\ seen \in 0..MaxEvents + 1
    /\ silent \subseteq {i \in 1..Messages : Request(i)}

End == step' = "ended"
NextMessage == /\ at' = at + 1 /\ step' = "read" /\ events' = <<>> /\ seen' = 0
               /\ UNCHANGED <<stdin>>

(* A line is posted, a last one without its newline too; the end of stdin  *)
(* is the normal end, a failure of it or a cancellation another.           *)
Read ==
    /\ step = "read"
    /\ IF at > Messages THEN End ELSE step' = "posted"
    /\ UNCHANGED <<stdin, at, events, seen, stdout, silent>>

ReadFails ==
    /\ step = "read"
    /\ End
    /\ UNCHANGED <<stdin, at, events, seen, stdout, silent>>

(* A reply is written, or stdout is gone and with it the proxy.             *)
Write(what) ==
    \/ stdout' = Append(stdout, Line(what)) /\ NextMessage
    \/ /\ End
       /\ UNCHANGED <<stdin, at, events, seen, stdout>>

(* An error of transport is answered in the server's stead, with the id of  *)
(* the request; a message that has none gets no answer.                    *)
AnswersAll(i) == stdin[i] # "garbage"
Answers(i) == stdin[i] = "request"
TransportFails ==
    /\ step = "posted"
    /\ IF Answers(at) THEN Write("error") ELSE NextMessage /\ UNCHANGED stdout
    /\ UNCHANGED silent

(* 202: the server owes nothing to a notification.                         *)
Accepted ==
    /\ step = "posted" /\ ~Request(at)
    /\ NextMessage
    /\ UNCHANGED <<stdout, silent>>

(* A refusal that is JSON is passed on, else it is an error of transport,   *)
(* as a body the server broke off is.                                      *)
Refused ==
    /\ step = "posted"
    /\ Write("refusal")
    /\ UNCHANGED silent

Answered ==
    /\ step = "posted" /\ Request(at)
    /\ \/ Write("result") /\ UNCHANGED silent
       \/ (* not JSON: dropped rather than written *)
          NextMessage /\ silent' = silent \union {at} /\ UNCHANGED stdout

(* A stream: an event at a time, terminated by a blank line or the end.     *)
OpenStream ==
    /\ step = "posted" /\ Request(at)
    /\ step' = "streaming" /\ events' = <<>> /\ seen' = 0
    /\ UNCHANGED <<stdin, at, stdout, silent>>

Finished == \E i \in DOMAIN stdout : stdout[i] = Line("result")
Event ==
    /\ step = "streaming" /\ events = <<>> /\ seen <= MaxEvents
    /\ ~Finished
    /\ events' \in {<<"event">>, <<"result">>}
    /\ events' = <<"event">> => seen < MaxEvents
    /\ seen' = seen + 1
    /\ UNCHANGED <<stdin, at, step, stdout, silent>>

Flush ==
    /\ step = "streaming" /\ events # <<>>
    /\ \/ /\ stdout' = Append(stdout, Line(events[1])) /\ events' = <<>>
          /\ UNCHANGED <<stdin, at, step, seen>>
       \/ End /\ UNCHANGED <<stdin, at, events, seen, stdout>>
    /\ UNCHANGED silent

EndStreamUnflushed ==
    /\ step = "streaming"
    /\ silent' = IF Finished \/ events # <<>> THEN silent ELSE silent \union {at}
    /\ NextMessage
    /\ UNCHANGED stdout
EndStream ==
    /\ step = "streaming" /\ events = <<>>
    /\ silent' = IF Finished THEN silent ELSE silent \union {at}
    /\ NextMessage
    /\ UNCHANGED stdout

(* A stream that breaks, or a line longer than the scanner's buffer.        *)
StreamBreaks ==
    /\ step = "streaming"
    /\ End
    /\ UNCHANGED <<stdin, at, events, seen, stdout, silent>>

Init ==
    /\ stdin \in [1..Messages -> Kinds]
    /\ at = 1 /\ step = "read" /\ events = <<>> /\ seen = 0
    /\ stdout = <<>> /\ silent = {}

Next ==
    \/ Read \/ ReadFails \/ TransportFails \/ Accepted \/ Refused \/ Answered
    \/ OpenStream \/ Event \/ Flush \/ EndStream \/ StreamBreaks

Spec == Init /\ [][Next]_vars

(* The agent's requests are answered in order and once each, unless the     *)
(* server itself gave no answer; nothing but a refusal of the server is     *)
(* written about a notification; and what a stream reports of a request     *)
(* comes before its result.                                                *)
RepliesInOrder ==
    /\ \A i, j \in DOMAIN stdout : i < j =>
         /\ stdout[i].about <= stdout[j].about
         /\ stdout[i].what # "event" => stdout[i].about < stdout[j].about
    /\ \A i \in DOMAIN stdout : Request(stdout[i].about) \/ stdout[i].what = "refusal"
    /\ \A m \in 1..at - 1 : Request(m) /\ m \notin silent =>
         \E i \in DOMAIN stdout : stdout[i].about = m /\ stdout[i].what # "event"
=============================================================================
