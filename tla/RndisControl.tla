---------------------------- MODULE RndisControl ----------------------------
(***************************************************************************)
(* The RNDIS control channel (src/usb/session.rs, src/rndis/control.rs):   *)
(* the host sends a request, waits for RESPONSE_AVAILABLE on the interrupt *)
(* endpoint, and reads one response for each notification, until one is    *)
(* the completion of its request.  The device keeps its responses in a     *)
(* queue and may put indications between them.  Worker processes follow    *)
(* each other on one device; any of them may be killed.                    *)
(***************************************************************************)
EXTENDS Naturals, Sequences

CONSTANTS
    IdLimit,       \* request ids are taken modulo this (2^32)
    MaxResponses,  \* responses read for one request, at most (32)
    MaxQueue,      \* bound: responses the device holds
    Faults         \* what the device does wrong

\* "repeat": answers twice.  "silent": loses requests and notifications and
\* sends spurious ones.  "garble": sends what the parsers reject.  "gone":
\* transfers fail.
ASSUME ControlAssumption ==
    /\ IdLimit \in Nat /\ IdLimit > 2
    /\ MaxResponses \in Nat /\ MaxQueue \in Nat
    /\ Faults \subseteq {"repeat", "silent", "garble", "gone"}

VARIABLES
    \* worker process
    pc,         \* what open, exchange, keepalive or drop does next
    doing,      \* kind of the request in progress
    id,         \* Session.id
    responses,  \* read in this exchange
    expired,    \* two seconds since the request
    failure,    \* why the session ended
    tainted,    \* history: it accepted an answer to another request
    \* interrupt endpoint
    note,       \* the notification transfer
    \* device
    request,    \* the request it has not answered
    last,       \* its last completion
    queue,      \* responses to read
    owed        \* notifications to send

host   == <<pc, doing, id, responses, expired, failure, tainted>>
device == <<request, last, queue, owed>>
vars   == <<host, note, device>>

Ids   == 0 .. IdLimit - 1
Kinds == {"initialize", "query", "filter", "keepalive"}

\* sound: packed and filled in as the parsers require; own: it answers the
\* last request that was sent.
Completions == [kind : Kinds, id : Ids, sound : BOOLEAN, own : BOOLEAN]
Indications == [kind : {"status", "disconnect"}, id : {0}, sound : BOOLEAN, own : {TRUE}]
Requests    == [kind : Kinds, id : Ids]
Nothing     == [kind |-> "nothing"]

Answer(r, sound) == [kind |-> r.kind, id |-> r.id, sound |-> sound, own |-> TRUE]
Indication(kind, sound) == [kind |-> kind, id |-> 0, sound |-> sound, own |-> TRUE]

\* A message once another request is sent.
Aged(m) == IF m.kind \in Kinds THEN [m EXCEPT !.own = FALSE] ELSE m

TypeOK ==
    /\ pc \in {"Claim", "Send", "Check", "Wait", "Read", "Idle", "Drop", "Over"}
    /\ doing \in Kinds /\ id \in Ids \ {0}
    /\ responses \in 0 .. MaxResponses
    /\ expired \in BOOLEAN /\ tainted \in BOOLEAN
    /\ failure \in {"none", "transport", "timeout", "flood", "rejected", "disconnect"}
    /\ note \in {"none", "pending", "valid", "bad", "failed"}
    /\ request \in Requests \cup {Nothing}
    /\ last \in Completions \cup {Nothing}
    /\ queue \in Seq(Completions \cup Indications) /\ Len(queue) \in 0 .. MaxQueue
    /\ owed \in 0 .. MaxQueue

Init ==
    /\ pc = "Claim" /\ doing = "initialize" /\ id = 1
    /\ responses = 0 /\ expired = FALSE /\ failure = "none" /\ tainted = FALSE
    /\ note = "none"
    /\ request = Nothing /\ last = Nothing /\ queue = <<>> /\ owed = 0

-----------------------------------------------------------------------------
(* The worker's session.                                                    *)

\* Mutant: every request has the same id.
NextIdStuck(n) == n

\* wrapping_add(1).max(1)
NextId(n) == IF n + 1 = IdLimit THEN 1 ELSE n + 1

\* Claims, alternate settings and endpoints; a failure leaves no Session.
Claim ==
    /\ pc = "Claim"
    /\ \/ pc' = "Send" /\ note' = "pending" /\ UNCHANGED failure
       \/ pc' = "Over" /\ failure' = "transport" /\ UNCHANGED note
    /\ UNCHANGED <<doing, id, responses, expired, tainted, device>>

Fail(reason) == pc' = "Drop" /\ failure' = reason

\* What the device makes of a request.  An initialization starts it afresh,
\* though notifications may be left; otherwise responses grow old.
Accepted ==
    /\ request' = [kind |-> doing, id |-> id]
    /\ IF doing = "initialize"
       THEN queue' = <<>> /\ last' = Nothing /\ owed' \in {0, owed}
       ELSE /\ queue' = [i \in DOMAIN queue |-> Aged(queue[i])]
            /\ last' = Aged(last) /\ UNCHANGED owed

\* SEND_ENCAPSULATED_COMMAND.
Send ==
    /\ pc = "Send"
    /\ \/ /\ Accepted
          /\ pc' = "Check" /\ responses' = 0 /\ expired' = FALSE
          /\ UNCHANGED failure
       \/ /\ "gone" \in Faults
          /\ Fail("transport") /\ UNCHANGED <<responses, expired, device>>
    /\ UNCHANGED <<doing, id, tainted, note>>

\* Mutant: the deadline is not checked.
CheckNever ==
    /\ pc = "Check" /\ pc' = "Wait"
    /\ UNCHANGED <<doing, id, responses, expired, failure, tainted, note, device>>

\* The loop condition.
Check ==
    /\ pc = "Check"
    /\ IF expired THEN Fail("timeout") ELSE pc' = "Wait" /\ UNCHANGED failure
    /\ UNCHANGED <<doing, id, responses, expired, tainted, note, device>>

\* Mutant: the transfer is submitted again only after a completion.
WaitLate ==
    /\ pc = "Wait"
    /\ \/ /\ note = "valid" /\ responses < MaxResponses
          /\ pc' = "Read" /\ responses' = responses + 1
          /\ note' = "none" /\ UNCHANGED failure
       \/ note = "pending" /\ pc' = "Check" /\ UNCHANGED <<responses, failure, note>>
    /\ UNCHANGED <<doing, id, expired, tainted, device>>

\* wait_next_complete: a notification, or 100 ms without one.  Its transfer is
\* submitted again before the response is read.
Wait ==
    /\ pc = "Wait"
    /\ \/ note = "pending" /\ pc' = "Check" /\ UNCHANGED <<responses, failure, note>>
       \/ note = "failed" /\ Fail("transport") /\ note' = "none" /\ UNCHANGED responses
       \/ note = "bad" /\ Fail("rejected") /\ note' = "none" /\ UNCHANGED responses
       \/ /\ note = "valid" /\ responses = MaxResponses
          /\ Fail("flood") /\ note' = "none" /\ UNCHANGED responses
       \/ /\ note = "valid" /\ responses < MaxResponses
          /\ pc' = "Read" /\ responses' = responses + 1
          /\ note' = "pending" /\ UNCHANGED failure
    /\ UNCHANGED <<doing, id, expired, tainted, device>>

\* A completion that Request::response and its parser take.
Matches(m) == m.kind = doing /\ m.id = id /\ m.sound

\* Session::open goes on with the next request; the last one, and keepalive,
\* are done.
Proceed ==
    \/ /\ doing = "initialize" /\ doing' = "query"
       /\ pc' = "Send" /\ id' = NextId(id)
    \/ /\ doing = "query" /\ doing' = "filter"
       /\ pc' = "Send" /\ id' = NextId(id)
    \/ /\ doing \in {"filter", "keepalive"} /\ pc' = "Idle" /\ UNCHANGED <<doing, id>>

\* GET_ENCAPSULATED_RESPONSE with one zero byte, while there is none.
ReadEmpty ==
    /\ pc = "Read" /\ pc' = "Check"
    /\ queue = <<>> \/ "silent" \in Faults
    /\ UNCHANGED <<doing, id, responses, expired, failure, tainted, note, device>>

\* Mutant: the disconnection of the medium is passed over like any status.
ReadIndicationDeaf ==
    /\ pc = "Read" /\ queue # <<>>
    /\ Head(queue).kind \in {"status", "disconnect"} /\ queue' = Tail(queue)
    /\ IF Head(queue).sound THEN pc' = "Check" /\ UNCHANGED failure ELSE Fail("rejected")
    /\ UNCHANGED <<doing, id, responses, expired, tainted, note, request, last, owed>>

\* Mutant: indications are taken for completions.
ReadIndicationStrict ==
    /\ pc = "Read" /\ queue # <<>>
    /\ Head(queue).kind \in {"status", "disconnect"} /\ queue' = Tail(queue)
    /\ Fail("rejected")
    /\ UNCHANGED <<doing, id, responses, expired, tainted, note, request, last, owed>>

ReadIndication ==
    /\ pc = "Read" /\ queue # <<>>
    /\ Head(queue).kind \in {"status", "disconnect"} /\ queue' = Tail(queue)
    /\ IF ~Head(queue).sound THEN Fail("rejected")
       ELSE IF Head(queue).kind = "disconnect" THEN Fail("disconnect")
       ELSE pc' = "Check" /\ UNCHANGED failure
    /\ UNCHANGED <<doing, id, responses, expired, tainted, note, request, last, owed>>

ReadCompletion ==
    /\ pc = "Read" /\ queue # <<>> /\ Head(queue).kind \in Kinds /\ queue' = Tail(queue)
    /\ IF Matches(Head(queue))
       THEN Proceed /\ tainted' = (tainted \/ ~Head(queue).own) /\ UNCHANGED failure
       ELSE Fail("rejected") /\ UNCHANGED <<doing, id, tainted>>
    /\ UNCHANGED <<responses, expired, note, request, last, owed>>

\* The control transfer itself fails.
ReadError ==
    /\ pc = "Read" /\ "gone" \in Faults /\ Fail("transport")
    /\ UNCHANGED <<doing, id, responses, expired, tainted, note, device>>

Keepalive ==
    /\ pc = "Idle" /\ pc' = "Send"
    /\ doing' = "keepalive" /\ id' = NextId(id)
    /\ UNCHANGED <<responses, expired, failure, tainted, note, device>>

\* Session::drop: HALT, which nobody answers and whose failure is ignored.
Drop ==
    /\ pc = "Drop" /\ pc' = "Over" /\ note' = "none"
    /\ UNCHANGED <<doing, id, responses, expired, failure, tainted, device>>

Session ==
    \/ Claim \/ Send \/ Check \/ Wait
    \/ ReadEmpty \/ ReadIndication \/ ReadCompletion \/ ReadError
    \/ Keepalive \/ Drop

-----------------------------------------------------------------------------
(* Everyone else.                                                           *)

DeadlinePasses ==
    /\ pc \in {"Check", "Wait", "Read"} /\ ~expired /\ expired' = TRUE
    /\ UNCHANGED <<pc, doing, id, responses, failure, tainted, note, device>>

\* The worker ends for another reason.
Leave ==
    /\ pc = "Idle" /\ pc' = "Drop"
    /\ UNCHANGED <<doing, id, responses, expired, failure, tainted, note, device>>

\* SIGKILL: no HALT.
Kill ==
    /\ pc # "Over" /\ pc' = "Over" /\ note' = "none"
    /\ UNCHANGED <<doing, id, responses, expired, failure, tainted, device>>

\* The supervisor starts another worker.
Restart ==
    /\ pc = "Over" /\ pc' = "Claim"
    /\ doing' = "initialize" /\ id' = 1 /\ responses' = 0 /\ expired' = FALSE
    /\ failure' = "none" /\ tainted' = FALSE
    /\ UNCHANGED <<note, device>>

\* The device puts a response into its queue.
Put(m) ==
    /\ Len(queue) < MaxQueue /\ queue' = Append(queue, m)
    /\ owed < MaxQueue /\ owed' = owed + 1
    /\ UNCHANGED <<host, note>>

Respond ==
    /\ request # Nothing /\ request' = Nothing
    /\ \E sound \in {TRUE} \cup {s \in {FALSE} : "garble" \in Faults} :
          Put(Answer(request, sound)) /\ last' = Answer(request, sound)

Repeat == "repeat" \in Faults /\ last # Nothing /\ Put(last) /\ UNCHANGED <<request, last>>

Indicate ==
    /\ \E kind \in {"status", "disconnect"},
          sound \in {TRUE} \cup {s \in {FALSE} : "garble" \in Faults} :
          Put(Indication(kind, sound))
    /\ UNCHANGED <<request, last>>

Notify ==
    /\ owed > 0 /\ note = "pending"
    /\ owed' = owed - 1 /\ note' = "valid"
    /\ UNCHANGED <<host, request, last, queue>>

Forget ==
    /\ "silent" \in Faults
    /\ \/ request # Nothing /\ request' = Nothing /\ UNCHANGED owed
       \/ owed > 0 /\ owed' = owed - 1 /\ UNCHANGED request
    /\ UNCHANGED <<host, note, last, queue>>

Disturb ==
    /\ note = "pending"
    /\ \/ "silent" \in Faults /\ note' = "valid"
       \/ "garble" \in Faults /\ note' = "bad"
       \/ "gone" \in Faults /\ note' = "failed"
    /\ UNCHANGED <<host, device>>

Environment ==
    \/ DeadlinePasses \/ Leave \/ Kill \/ Restart
    \/ Respond \/ Repeat \/ Indicate \/ Notify \/ Forget \/ Disturb

Next == Session \/ Environment

\* The worker runs, its transfers have timeouts, and time passes.
Fairness == WF_vars(Session) /\ WF_vars(DeadlinePasses)

Spec == Init /\ [][Next]_vars /\ Fairness

\* A device that also sends its notifications.
NotifyingSpec == Spec /\ WF_vars(Notify)

-----------------------------------------------------------------------------
(* Properties.                                                              *)

\* The host waits only on a submitted transfer.
Listening == pc \in {"Send", "Check", "Wait", "Read", "Idle"} => note # "none"

\* Whatever completion a session takes, it answers the request the session
\* sent last: not a former one that is answered late or again.
OwnAnswers == ~tainted

\* A device that does nothing wrong is never rejected: indications, late
\* completions and notifications left over are all taken in stride.
NeverRejected == failure # "rejected"

\* Every exchange ends.
ExchangeEnds == pc \in {"Check", "Wait", "Read"} ~> pc \notin {"Check", "Wait", "Read"}

\* Once a running session's device reports that the medium is gone, the
\* session ends.
DisconnectEnds ==
    (pc \in {"Check", "Wait", "Read", "Idle"} /\ \E i \in DOMAIN queue : queue[i].kind = "disconnect")
        ~> pc = "Over"
=============================================================================
