------------------------ MODULE RndisControl_proofs -------------------------
(***************************************************************************)
(* Theorems about the RNDIS control channel, for any number of ids above   *)
(* two, any limits, and a device that shows any of the faults.             *)
(***************************************************************************)
EXTENDS RndisControl, SequenceTheorems, TLAPS

-----------------------------------------------------------------------------
(* Parts of the invariant.                                                  *)

\* Why: the host waits for the completion of its request.
Exchanging == pc \in {"Check", "Wait", "Read"}

\* Why: the session has initialized the device and has not failed.
Underway == Exchanging \/ pc = "Idle" \/ (pc = "Send" /\ doing # "initialize")

\* Why: n is the id of the request sent last.
Sent(n) == IF pc = "Send" THEN NextId(n) = id ELSE n = id

Completed(m) == m.kind \in Kinds

\* Why: a completion that is not stale answers the request sent last; a stale
\* one exists only within an exchange, and has another id.
Told(m) ==
    Completed(m) => IF m.own THEN Sent(m.id) ELSE Exchanging /\ m.id # id

Freshness ==
    Underway =>
        /\ \A i \in DOMAIN queue : Told(queue[i])
        /\ Told(last)
        /\ request # Nothing => Sent(request.id)

\* Why: what is stale was queued before what is not.
Order ==
    Exchanging =>
        \A i \in DOMAIN queue : Completed(queue[i]) /\ queue[i].own =>
            /\ Completed(last) /\ last.own
            /\ \A j \in DOMAIN queue : i < j /\ Completed(queue[j]) => queue[j].own

\* Why: a session begins with the initialization.
Starting == pc = "Claim" => doing = "initialize"

\* The type invariant, in two parts.
HostTypes ==
    /\ pc \in {"Claim", "Send", "Check", "Wait", "Read", "Idle", "Drop", "Over"}
    /\ doing \in Kinds /\ id \in Ids \ {0}
    /\ responses \in 0 .. MaxResponses
    /\ expired \in BOOLEAN /\ tainted \in BOOLEAN
    /\ failure \in {"none", "transport", "timeout", "flood", "rejected", "disconnect"}
    /\ note \in {"none", "pending", "valid", "bad", "failed"}

Messages == Completions \cup Indications

DeviceTypes ==
    /\ request \in Requests \cup {Nothing}
    /\ last \in Completions \cup {Nothing}
    /\ queue \in Seq(Messages) /\ Len(queue) \in 0 .. MaxQueue
    /\ owed \in 0 .. MaxQueue

IInv ==
    HostTypes /\ DeviceTypes /\ Listening /\ OwnAnswers /\ Freshness /\ Order /\ Starting

-----------------------------------------------------------------------------
(* Ids, messages and the queue.                                             *)

\* Ids stay nonzero, and the next one differs.
LEMMA NextIdFacts ==
    ASSUME NEW n \in Ids
    PROVE  NextId(n) \in Ids \ {0} /\ NextId(n) # n
    BY ControlAssumption DEF Ids, NextId

\* Growing old changes only whom a completion answers.
LEMMA AgedFacts ==
    ASSUME NEW m \in Messages
    PROVE  /\ Aged(m) \in Messages
           /\ Completed(Aged(m)) <=> Completed(m)
           /\ Completed(m) => /\ Aged(m) \in Completions
                              /\ ~Aged(m).own /\ Aged(m).id = m.id
<1>1. CASE m \in Completions
    BY <1>1 DEF Messages, Completions, Aged, Completed, Kinds
<1>2. CASE m \in Indications
    BY <1>2 DEF Messages, Indications, Aged, Completed, Kinds
<1>3. QED
    BY <1>1, <1>2 DEF Messages

\* A response is put behind the others.
LEMMA PutFacts ==
    ASSUME DeviceTypes, NEW m \in Messages, Put(m)
    PROVE  /\ queue' \in Seq(Messages) /\ Len(queue') \in 0 .. MaxQueue
           /\ owed' \in 0 .. MaxQueue
           /\ DOMAIN queue' = DOMAIN queue \cup {Len(queue) + 1}
           /\ \A i \in DOMAIN queue : queue'[i] = queue[i] /\ i < Len(queue) + 1
           /\ queue'[Len(queue) + 1] = m
<1> USE ControlAssumption
<1>1. queue \in Seq(Messages) /\ queue' = Append(queue, m) /\ Len(queue) < MaxQueue
    BY DEF Put, DeviceTypes
<1>2. /\ queue' \in Seq(Messages) /\ Len(queue') = Len(queue) + 1
      /\ \A i \in 1 .. Len(queue) : queue'[i] = queue[i]
      /\ queue'[Len(queue) + 1] = m
    BY <1>1, AppendProperties
<1>3. /\ DOMAIN queue = 1 .. Len(queue) /\ DOMAIN queue' = 1 .. Len(queue')
      /\ Len(queue) \in Nat
    BY <1>1, <1>2
<1>4. DOMAIN queue' = DOMAIN queue \cup {Len(queue) + 1}
    BY <1>2, <1>3
<1>5. Len(queue') \in 0 .. MaxQueue
    BY <1>1, <1>2, <1>3
<1>6. owed' \in 0 .. MaxQueue
    BY DEF Put, DeviceTypes
<1>7. QED
    BY <1>2, <1>3, <1>4, <1>5, <1>6

\* Reading takes the oldest response.
LEMMA TakeFacts ==
    ASSUME DeviceTypes, queue # <<>>, queue' = Tail(queue)
    PROVE  /\ Head(queue) \in Messages /\ Head(queue) = queue[1] /\ 1 \in DOMAIN queue
           /\ queue' \in Seq(Messages) /\ Len(queue') \in 0 .. MaxQueue
           /\ \A i \in DOMAIN queue' :
                  i + 1 \in DOMAIN queue /\ queue'[i] = queue[i + 1] /\ i \in Nat /\ 1 < i + 1
<1> USE ControlAssumption
<1>1. queue \in Seq(Messages) /\ Len(queue) \in 0 .. MaxQueue
    BY DEF DeviceTypes
<1>2. /\ Head(queue) \in Messages /\ queue' \in Seq(Messages)
      /\ Len(queue') = Len(queue) - 1 /\ Len(queue) \in Nat \ {0}
      /\ \A i \in 1 .. Len(queue') : queue'[i] = queue[i + 1]
    BY <1>1, HeadTailProperties, EmptySeq
<1>3. DOMAIN queue = 1 .. Len(queue) /\ DOMAIN queue' = 1 .. Len(queue')
    BY <1>1, <1>2
<1>4. Head(queue) = queue[1]
    BY <1>1
<1>5. QED
    BY <1>1, <1>2, <1>3, <1>4

\* Sending makes every response in the device an old one.
LEMMA SendFacts ==
    ASSUME DeviceTypes, HostTypes, Accepted
    PROVE  /\ request' = [kind |-> doing, id |-> id] /\ request' \in Requests
           /\ queue' \in Seq(Messages) /\ Len(queue') \in 0 .. MaxQueue
           /\ last' \in Completions \cup {Nothing} /\ owed' \in 0 .. MaxQueue
           /\ doing = "initialize" => queue' = <<>> /\ last' = Nothing
           /\ doing # "initialize" =>
                 /\ DOMAIN queue' = DOMAIN queue
                 /\ \A i \in DOMAIN queue : queue'[i] = Aged(queue[i])
                 /\ last' = Aged(last)
<1> USE ControlAssumption
<1>1. request' = [kind |-> doing, id |-> id] /\ request' \in Requests
    BY DEF Accepted, HostTypes, Requests
<1>2. queue \in Seq(Messages) /\ Len(queue) \in 0 .. MaxQueue /\ owed \in 0 .. MaxQueue
    BY DEF DeviceTypes
<1>3. CASE doing = "initialize"
    <2>1. queue' = <<>> /\ last' = Nothing /\ owed' \in {0, owed}
        BY <1>3 DEF Accepted
    <2>2. queue' \in Seq(Messages) /\ Len(queue') = 0
        BY <2>1, EmptySeq
    <2>3. QED
        BY <1>1, <1>2, <1>3, <2>1, <2>2
<1>4. CASE doing # "initialize"
    <2>1. /\ queue' = [i \in DOMAIN queue |-> Aged(queue[i])]
          /\ last' = Aged(last) /\ owed' = owed
        BY <1>4 DEF Accepted
    <2>2. DOMAIN queue = 1 .. Len(queue) /\ Len(queue) \in Nat
        BY <1>2
    <2>3. ASSUME NEW i \in DOMAIN queue PROVE Aged(queue[i]) \in Messages
        <3>1. queue[i] \in Messages
            BY <1>2, <2>2
        <3>2. QED
            BY <3>1, AgedFacts
    <2>4. queue' \in [1 .. Len(queue) -> Messages]
        BY <2>1, <2>2, <2>3
    <2>5. queue' \in Seq(Messages) /\ Len(queue') = Len(queue)
        BY <2>2, <2>4
    <2>6. last' \in Completions \cup {Nothing}
        <3>1. CASE last = Nothing
            BY <2>1, <3>1 DEF Aged, Nothing, Kinds
        <3>2. CASE last \in Completions
            BY <2>1, <3>2, AgedFacts DEF Messages, Completions, Completed
        <3>3. QED
            BY <3>1, <3>2 DEF DeviceTypes
    <2>7. QED
        BY <1>1, <1>2, <1>4, <2>1, <2>5, <2>6
<1>5. QED
    BY <1>3, <1>4

-----------------------------------------------------------------------------
(* What each step does to the invariant.                                    *)

\* The host stays in the exchange's states, and its id is never zero.
LEMMA HostTypesKept == HostTypes /\ [Next]_vars => HostTypes'
<1> SUFFICES ASSUME HostTypes, [Next]_vars PROVE HostTypes'
    OBVIOUS
<1>1. CASE Send
    <2>1. 0 \in 0 .. MaxResponses
        BY ControlAssumption
    <2>2. /\ pc' \in {"Check", "Drop"} /\ failure' \in {failure, "transport"}
          /\ responses' \in {responses, 0} /\ UNCHANGED <<doing, id, tainted, note>>
        BY <1>1 DEF Send, Fail
    <2>3. expired' \in BOOLEAN
        BY <1>1, Zenon DEF Send, HostTypes
    <2>4. QED
        BY <2>1, <2>2, <2>3 DEF HostTypes
<1>2. CASE Claim
    BY <1>2 DEF Claim, HostTypes, Fail, host, device
<1>3. CASE Check
    <2>1. /\ pc' \in {"Wait", "Drop"} /\ failure' \in {failure, "timeout"}
          /\ UNCHANGED <<doing, id, responses, expired, tainted, note>>
        BY <1>3 DEF Check, Fail
    <2>2. expired' \in BOOLEAN /\ tainted' \in BOOLEAN
        BY <2>1, Zenon DEF HostTypes
    <2>3. /\ doing' \in Kinds /\ id' \in Ids \ {0} /\ responses' \in 0 .. MaxResponses
          /\ note' \in {"none", "pending", "valid", "bad", "failed"}
        BY <2>1, Zenon DEF HostTypes
    <2>4. /\ pc' \in {"Claim", "Send", "Check", "Wait", "Read", "Idle", "Drop", "Over"}
          /\ failure' \in {"none", "transport", "timeout", "flood", "rejected", "disconnect"}
        BY <2>1 DEF HostTypes
    <2>5. QED
        BY <2>2, <2>3, <2>4, Zenon DEF HostTypes
<1>4. CASE Respond \/ Repeat \/ Indicate
    <2>1. UNCHANGED <<host, note>>
        BY <1>4 DEF Respond, Repeat, Indicate, Put, host
    <2>2. QED
        BY <2>1 DEF HostTypes, host
<1>5. CASE Notify \/ Forget \/ Disturb
    BY <1>5 DEF Notify, Forget, Disturb, HostTypes, host, device
<1>6. CASE Leave \/ Kill \/ DeadlinePasses
    BY <1>6 DEF Leave, Kill, DeadlinePasses, HostTypes, host, device
<1>7. CASE Wait
    <2>1. responses' \in 0 .. MaxResponses
        BY <1>7, ControlAssumption DEF Wait, HostTypes
    <2>2. QED
        BY <1>7, <2>1 DEF Wait, HostTypes, Fail
<1>8. CASE ReadIndication
    BY <1>8 DEF ReadIndication, HostTypes, Fail, host, device
<1>9. CASE ReadCompletion
    <2>1. NextId(id) \in Ids \ {0}
        BY NextIdFacts DEF HostTypes
    <2>2. tainted' \in BOOLEAN
        BY <1>9 DEF ReadCompletion, HostTypes
    <2>3. QED
        BY <1>9, <2>1, <2>2 DEF ReadCompletion, HostTypes, Fail, Proceed, Kinds
<1>10. CASE Keepalive
    <2>1. NextId(id) \in Ids \ {0}
        BY NextIdFacts DEF HostTypes
    <2>2. QED
        BY <1>10, <2>1 DEF Keepalive, HostTypes, Kinds
<1>11. CASE Restart
    <2>1. 1 \in Ids \ {0} /\ 0 \in 0 .. MaxResponses
        BY ControlAssumption DEF Ids
    <2>2. QED
        BY <1>11, <2>1 DEF Restart, HostTypes, Kinds
<1>12. CASE ReadEmpty \/ ReadError \/ Drop
    BY <1>12 DEF ReadEmpty, ReadError, Drop, HostTypes, Fail, Put, host,
        device
<1>13. CASE UNCHANGED vars
    BY <1>13 DEF HostTypes, vars, host, device
<1>14. QED
    BY <1>1, <1>2, <1>3, <1>4, <1>5, <1>6, <1>7, <1>8, <1>9, <1>10, <1>11,
        <1>12, <1>13
       DEF Next, Session, Environment

\* The device's queue holds messages, within its bound.
LEMMA DeviceTypesKept == HostTypes /\ DeviceTypes /\ [Next]_vars => DeviceTypes'
<1> SUFFICES ASSUME HostTypes /\ DeviceTypes, [Next]_vars PROVE DeviceTypes'
    OBVIOUS
<1>1. CASE Send
    <2>1. CASE Accepted
        BY <2>1, SendFacts DEF DeviceTypes
    <2>2. CASE UNCHANGED device
        BY <2>2 DEF DeviceTypes, device
    <2>3. QED
        BY <1>1, <2>1, <2>2 DEF Send
<1>2. CASE ReadIndication \/ ReadCompletion
    <2>1. /\ queue # <<>> /\ queue' = Tail(queue)
          /\ request' = request /\ last' = last /\ owed' = owed
        BY <1>2 DEF ReadIndication, ReadCompletion
    <2>2. QED
        BY <2>1, TakeFacts DEF DeviceTypes
<1>3. CASE Respond
    <2>1. PICK sound \in BOOLEAN :
             Put(Answer(request, sound)) /\ last' = Answer(request, sound)
        BY <1>3 DEF Respond
    <2>2. request \in Requests /\ request' = Nothing
        BY <1>3 DEF Respond, DeviceTypes
    <2>3. Answer(request, sound) \in Completions
        BY <2>2 DEF Answer, Requests, Completions
    <2>4. QED
        BY <2>1, <2>2, <2>3, PutFacts DEF DeviceTypes, Messages
<1>4. CASE Repeat
    <2>1. last \in Completions /\ Put(last) /\ request' = request /\ last' = last
        BY <1>4 DEF Repeat, DeviceTypes
    <2>2. QED
        BY <2>1, PutFacts DEF DeviceTypes, Messages
<1>5. CASE Indicate
    <2>1. PICK kind \in {"status", "disconnect"}, sound \in BOOLEAN :
             Put(Indication(kind, sound))
        BY <1>5 DEF Indicate
    <2>2. Indication(kind, sound) \in Indications
        BY DEF Indication, Indications
    <2>3. request' = request /\ last' = last
        BY <1>5 DEF Indicate
    <2>4. QED
        BY <2>1, <2>2, <2>3, PutFacts DEF DeviceTypes, Messages
<1>6. CASE Notify \/ Forget
    <2>1. owed' \in 0 .. MaxQueue
        BY <1>6, ControlAssumption DEF Notify, Forget, DeviceTypes
    <2>2. QED
        BY <1>6, <2>1 DEF Notify, Forget, DeviceTypes
<1>7. CASE Claim \/ Check \/ Wait \/ ReadEmpty \/ ReadError \/ Keepalive \/
            Drop \/ DeadlinePasses \/ Leave \/ Kill \/ Restart \/ Disturb
    BY <1>7 DEF Claim, Check, Wait, ReadEmpty, ReadError, Keepalive, Drop,
        DeadlinePasses, Leave, Kill, Restart, Disturb, DeviceTypes, host,
        device
<1>8. CASE UNCHANGED vars
    BY <1>8 DEF DeviceTypes, vars, host, device
<1>9. QED
    BY <1>1, <1>2, <1>3, <1>4, <1>5, <1>6, <1>7, <1>8
       DEF Next, Session, Environment

\* Every notification is taken with the transfer submitted again.
LEMMA ListeningKept == Listening /\ [Next]_vars => Listening'
<1> SUFFICES ASSUME Listening, [Next]_vars PROVE Listening'
    OBVIOUS
<1>1. CASE Send
    BY <1>1 DEF Send, Listening, Fail, host, device
<1>2. CASE Check
    BY <1>2 DEF Check, Listening, Fail, host, device
<1>3. CASE Wait
    BY <1>3 DEF Wait, Listening, Fail, host, device
<1>4. CASE ReadIndication
    BY <1>4 DEF ReadIndication, Listening, Fail, host, device
<1>5. CASE ReadCompletion
    BY <1>5 DEF ReadCompletion, Listening, Fail, Proceed, host, device
<1>6. CASE Notify
    BY <1>6 DEF Notify, Listening, host, device
<1>7. CASE Disturb
    BY <1>7 DEF Disturb, Listening, host, device
<1>8. CASE Respond \/ Repeat \/ Indicate
    BY <1>8 DEF Respond, Repeat, Indicate, Listening, Put, host, device
<1>9. CASE Claim \/ ReadEmpty \/ ReadError \/ Keepalive \/ Drop \/
            DeadlinePasses \/ Leave \/ Kill \/ Restart \/ Forget
    BY <1>9 DEF Claim, ReadEmpty, ReadError, Keepalive, Drop,
        DeadlinePasses, Leave, Kill, Restart, Forget, Listening, Fail, host,
        device
<1>10. CASE UNCHANGED vars
    BY <1>10 DEF Listening, vars, host, device
<1>11. QED
    BY <1>1, <1>2, <1>3, <1>4, <1>5, <1>6, <1>7, <1>8, <1>9, <1>10
       DEF Next, Session, Environment

\* Only a new session is about to claim its interfaces.
LEMMA StartingKept == Starting /\ [Next]_vars => Starting'
<1> SUFFICES ASSUME Starting, [Next]_vars PROVE Starting'
    OBVIOUS
<1>1. CASE Send
    BY <1>1 DEF Send, Starting, Fail, host, device
<1>2. CASE Check
    BY <1>2 DEF Check, Starting, Fail, host, device
<1>3. CASE Wait
    BY <1>3 DEF Wait, Starting, Fail, host, device
<1>4. CASE ReadIndication
    BY <1>4 DEF ReadIndication, Starting, Fail, host, device
<1>5. CASE ReadCompletion
    BY <1>5 DEF ReadCompletion, Starting, Fail, Proceed, host, device
<1>6. CASE Respond \/ Repeat \/ Indicate
    BY <1>6 DEF Respond, Repeat, Indicate, Starting, Put, host, device
<1>7. CASE Claim \/ ReadEmpty \/ ReadError \/ Keepalive \/ Drop \/
            DeadlinePasses \/ Leave \/ Kill \/ Restart \/ Notify \/ Forget
            \/ Disturb
    BY <1>7 DEF Claim, ReadEmpty, ReadError, Keepalive, Drop,
        DeadlinePasses, Leave, Kill, Restart, Notify, Forget, Disturb,
        Starting, Fail, host, device
<1>8. CASE UNCHANGED vars
    BY <1>8 DEF Starting, vars, host, device
<1>9. QED
    BY <1>1, <1>2, <1>3, <1>4, <1>5, <1>6, <1>7, <1>8
       DEF Next, Session, Environment

\* What matches is not stale.
LEMMA MatchIsOwn ==
    ASSUME IInv, ReadCompletion, Matches(Head(queue))
    PROVE  Head(queue).own /\ Head(queue).id = id /\ Completed(Head(queue))
<1>1. Head(queue) = queue[1] /\ 1 \in DOMAIN queue
    BY TakeFacts DEF ReadCompletion, IInv
<1>2. Completed(queue[1]) /\ queue[1].id = id
    BY <1>1 DEF ReadCompletion, Matches, Completed
<1>3. Told(queue[1])
    BY <1>1 DEF IInv, Freshness, Underway, Exchanging, ReadCompletion
<1>4. QED
    BY <1>1, <1>2, <1>3 DEF Told

\* No stale completion is taken.
LEMMA OwnAnswersKept == IInv /\ [Next]_vars => OwnAnswers'
<1> SUFFICES ASSUME IInv, [Next]_vars PROVE OwnAnswers'
    OBVIOUS
<1> USE DEF IInv
<1>1. CASE ReadCompletion
    <2>1. CASE Matches(Head(queue))
        BY <1>1, <2>1, MatchIsOwn DEF ReadCompletion, OwnAnswers
    <2>2. CASE ~Matches(Head(queue))
        BY <1>1, <2>2 DEF ReadCompletion, OwnAnswers
    <2>3. QED
        BY <2>1, <2>2
<1>2. CASE Respond \/ Repeat \/ Indicate
    BY <1>2 DEF Respond, Repeat, Indicate, OwnAnswers, Put, host, device
<1>3. CASE Claim \/ Send \/ Check \/ Wait \/ ReadEmpty \/ ReadIndication \/
            ReadError \/ Keepalive \/ Drop \/ DeadlinePasses \/ Leave \/
            Kill \/ Restart \/ Notify \/ Forget \/ Disturb
    BY <1>3 DEF Claim, Send, Check, Wait, ReadEmpty, ReadIndication,
        ReadError, Keepalive, Drop, DeadlinePasses, Leave, Kill, Restart,
        Notify, Forget, Disturb, OwnAnswers, host, device
<1>4. CASE UNCHANGED vars
    BY <1>4 DEF OwnAnswers, vars, host, device
<1>5. QED
    BY <1>1, <1>2, <1>3, <1>4
       DEF Next, Session, Environment

\* The completions of one request are told from those of the next by their id.
LEMMA FreshnessKept == IInv /\ [Next]_vars => Freshness'
<1> SUFFICES ASSUME IInv, [Next]_vars PROVE Freshness'
    OBVIOUS
<1> USE DEF IInv
<1>1. CASE Claim \/ Check \/ Wait \/ ReadEmpty \/ ReadError
    <2>1. UNCHANGED <<queue, last>> /\ (request' = request \/ request' =
       Nothing)
        BY <1>1 DEF Claim, Check, Wait, ReadEmpty, ReadError, device, host
    <2>2. Underway' => Underway /\ (Exchanging <=> Exchanging') /\ id' = id
                       /\ (pc' = "Send" <=> pc = "Send")
        BY <1>1 DEF Claim, Check, Wait, ReadEmpty, ReadError, Fail,
           Underway, Exchanging, host, device, Starting
    <2>3. QED
        BY <2>1, <2>2 DEF Freshness, Told, Sent
<1>2. CASE Drop \/ DeadlinePasses \/ Leave \/ Kill \/ Restart
    <2>1. UNCHANGED <<queue, last>> /\ (request' = request \/ request' =
       Nothing)
        BY <1>2 DEF Drop, DeadlinePasses, Leave, Kill, Restart, device, host
    <2>2. Underway' => Underway /\ (Exchanging <=> Exchanging') /\ id' = id
                       /\ (pc' = "Send" <=> pc = "Send")
        BY <1>2 DEF Drop, DeadlinePasses, Leave, Kill, Restart, Underway,
           Exchanging, host, device, Starting
    <2>3. QED
        BY <2>1, <2>2 DEF Freshness, Told, Sent
<1>3. CASE Notify \/ Forget \/ Disturb
    <2>1. UNCHANGED <<queue, last>> /\ (request' = request \/ request' =
       Nothing)
        BY <1>3 DEF Notify, Forget, Disturb, device, host
    <2>2. Underway' => Underway /\ (Exchanging <=> Exchanging') /\ id' = id
                       /\ (pc' = "Send" <=> pc = "Send")
        BY <1>3 DEF Notify, Forget, Disturb, Underway, Exchanging, host,
           device, Starting
    <2>3. QED
        BY <2>1, <2>2 DEF Freshness, Told, Sent
<1>4. CASE Send
    <2>1. CASE Accepted /\ pc' = "Check"
        <3>1. id' = id /\ doing' = doing /\ request'.id = id /\ Exchanging'
            BY <1>4, <2>1, SendFacts DEF Send, Exchanging
        <3>2. CASE doing = "initialize"
            <4>1. queue' = <<>> /\ last' = Nothing
                BY <2>1, <3>2, SendFacts
            <4>2. DOMAIN queue' = {}
                BY <4>1
            <4>3. QED
                BY <3>1, <4>1, <4>2, <2>1
                   DEF Freshness, Told, Sent, Completed, Nothing, Kinds
        <3>3. CASE doing # "initialize"
            <4>1. Underway /\ ~Exchanging /\ pc = "Send"
                BY <1>4, <3>3 DEF Send, Underway, Exchanging
            <4>2. ASSUME NEW m \in Messages, Told(m)
                  PROVE  Completed(Aged(m)) => ~Aged(m).own /\ Aged(m).id # id
                <5>1. Completed(m) => m.own /\ NextId(m.id) = id /\ m.id \in Ids
                    BY <4>1, <4>2
                       DEF Told, Sent, Messages, Completions, Indications, Completed, Kinds
                <5>2. QED
                    BY <5>1, AgedFacts, NextIdFacts
            <4>3. ASSUME NEW i \in DOMAIN queue'
                  PROVE  Completed(queue'[i]) => ~queue'[i].own /\ queue'[i].id # id
                <5>1. /\ i \in DOMAIN queue /\ queue'[i] = Aged(queue[i])
                      /\ queue[i] \in Messages
                    BY <2>1, <3>3, SendFacts DEF DeviceTypes
                <5>2. QED
                    BY <4>1, <4>2, <5>1 DEF Freshness
            <4>4. Completed(last') => ~last'.own /\ last'.id # id
                <5>1. last' = Aged(last) /\ Told(last)
                    BY <2>1, <3>3, <4>1, SendFacts DEF Freshness
                <5>2. CASE last = Nothing
                    BY <5>1, <5>2 DEF Aged, Completed, Nothing, Kinds
                <5>3. CASE last \in Completions
                    BY <4>2, <5>1, <5>3 DEF Messages
                <5>4. QED
                    BY <5>2, <5>3 DEF DeviceTypes
            <4>5. QED
                BY <2>1, <3>1, <4>3, <4>4 DEF Freshness, Told, Sent, Completed
        <3>4. QED
            BY <3>2, <3>3
    <2>2. CASE pc' = "Drop"
        BY <2>2 DEF Freshness, Underway, Exchanging
    <2>3. QED
        BY <1>4, <2>1, <2>2 DEF Send, Fail
<1>5. CASE ReadIndication
    <2>1. CASE pc' = "Drop"
        BY <2>1 DEF Freshness, Underway, Exchanging
    <2>2. CASE pc' = "Check"
        <3>1. /\ Exchanging /\ Exchanging' /\ Underway
              /\ UNCHANGED <<id, last, request>>
            BY <1>5, <2>2 DEF ReadIndication, Exchanging, Underway
        <3>2. \A i \in DOMAIN queue' :
                 i + 1 \in DOMAIN queue /\ queue'[i] = queue[i + 1]
            BY <1>5, TakeFacts DEF ReadIndication
        <3>3. QED
            BY <1>5, <2>2, <3>1, <3>2
               DEF Freshness, Told, Sent, Completed, ReadIndication
    <2>3. QED
        BY <1>5, <2>1, <2>2 DEF ReadIndication, Fail
<1>6. CASE ReadCompletion
    <2>1. CASE pc' = "Drop"
        BY <2>1 DEF Freshness, Underway, Exchanging
    <2>2. CASE Matches(Head(queue)) /\ Proceed
        <3>1. /\ Exchanging /\ Underway /\ ~Exchanging' /\ UNCHANGED <<last, request>>
              /\ pc = "Read" /\ pc' \in {"Send", "Idle"}
            BY <1>6, <2>2 DEF ReadCompletion, Proceed, Exchanging, Underway
        <3>2. IF pc' = "Send" THEN NextId(id) = id' ELSE id = id'
            BY <2>2, <3>1 DEF Proceed
        <3>3. /\ Head(queue).own /\ Completed(Head(queue)) /\ Head(queue) = queue[1]
              /\ 1 \in DOMAIN queue
            BY <1>6, <2>2, MatchIsOwn, TakeFacts DEF ReadCompletion
        <3>4. /\ Completed(last) /\ last.own
              /\ \A j \in DOMAIN queue : 1 < j /\ Completed(queue[j]) => queue[j].own
            BY <3>1, <3>3 DEF Order
        <3>5. ASSUME NEW i \in DOMAIN queue', Completed(queue'[i])
              PROVE  queue'[i].own /\ queue'[i].id = id
            <4>1. i + 1 \in DOMAIN queue /\ queue'[i] = queue[i + 1] /\ 1 < i + 1
                BY <1>6, TakeFacts DEF ReadCompletion
            <4>2. Told(queue[i + 1])
                BY <3>1, <4>1 DEF Freshness
            <4>3. QED
                BY <3>1, <3>4, <3>5, <4>1, <4>2 DEF Told, Sent
        <3>6. last.id = id /\ (request # Nothing => request.id = id)
            BY <3>1, <3>4 DEF Freshness, Told, Sent
        <3>7. QED
            BY <3>1, <3>2, <3>4, <3>5, <3>6
               DEF Freshness, Told, Completed, Sent, NextId
    <2>3. QED
        BY <1>6, <2>1, <2>2 DEF ReadCompletion, Fail
<1>7. CASE Keepalive
    <2>1. /\ Underway /\ ~Exchanging /\ pc = "Idle" /\ pc' = "Send" /\ ~Exchanging'
          /\ id' = NextId(id) /\ UNCHANGED <<queue, last, request>>
        BY <1>7 DEF Keepalive, Underway, Exchanging, device
    <2>2. \A n : Sent(n) => Sent(n)'
        BY <2>1 DEF Sent, NextId
    <2>3. QED
        BY <2>1, <2>2 DEF Freshness, Told, Completed
<1>8. CASE Respond
    <2>1. PICK sound \in BOOLEAN :
             Put(Answer(request, sound)) /\ last' = Answer(request, sound)
        BY <1>8 DEF Respond
    <2>2. request \in Requests /\ request' = Nothing /\ UNCHANGED <<pc, doing, id>>
        BY <1>8, <2>1 DEF Respond, DeviceTypes, Put, host
    <2>3. Answer(request, sound) \in Messages
        BY <2>2 DEF Answer, Requests, Completions, Messages
    <2>4. SUFFICES ASSUME Underway PROVE Freshness'
        BY <2>2 DEF Freshness, Underway, Exchanging
    <2>5. Answer(request, sound).own /\ Sent(Answer(request, sound).id)
        BY <1>8, <2>4 DEF Respond, Freshness, Answer
    <2>6. Told(Answer(request, sound))
        BY <2>5 DEF Told
    <2>7. \A i \in DOMAIN queue' : Told(queue'[i])
        BY <2>1, <2>3, <2>4, <2>6, PutFacts DEF Freshness
    <2>8. QED
        BY <2>1, <2>2, <2>6, <2>7 DEF Freshness, Told, Sent, Exchanging, Completed
<1>9. CASE Repeat
    <2>1. /\ last \in Completions /\ Put(last)
          /\ UNCHANGED <<request, last, pc, doing, id>>
        BY <1>9 DEF Repeat, DeviceTypes, Put, host
    <2>2. SUFFICES ASSUME Underway PROVE Freshness'
        BY <2>1 DEF Freshness, Underway, Exchanging
    <2>3. \A i \in DOMAIN queue' : Told(queue'[i])
        BY <2>1, <2>2, PutFacts DEF Freshness, Messages
    <2>4. QED
        BY <2>1, <2>2, <2>3 DEF Freshness, Told, Sent, Exchanging, Completed
<1>10. CASE Indicate
    <2>1. PICK kind \in {"status", "disconnect"}, sound \in BOOLEAN :
             Put(Indication(kind, sound))
        BY <1>10 DEF Indicate
    <2>2. UNCHANGED <<request, last, pc, doing, id>>
        BY <1>10, <2>1 DEF Indicate, Put, host
    <2>3. Indication(kind, sound) \in Messages /\ ~Completed(Indication(kind, sound))
        BY DEF Indication, Indications, Messages, Completed, Kinds
    <2>4. SUFFICES ASSUME Underway PROVE Freshness'
        BY <2>2 DEF Freshness, Underway, Exchanging
    <2>5. \A i \in DOMAIN queue' : Told(queue'[i])
        BY <2>1, <2>3, <2>4, PutFacts DEF Freshness, Told
    <2>6. QED
        BY <2>2, <2>4, <2>5 DEF Freshness, Told, Sent, Exchanging, Completed
<1>11. CASE UNCHANGED vars
    BY <1>11 DEF Freshness, Told, Sent, Underway, Exchanging, vars, host,
        device
<1>12. QED
    BY <1>1, <1>2, <1>3, <1>4, <1>5, <1>6, <1>7, <1>8, <1>9, <1>10, <1>11
       DEF Next, Session, Environment

\* A completion of the request in progress may follow anything.
LEMMA PutOrder ==
    ASSUME DeviceTypes, Order, NEW m \in Messages, Put(m), m.own,
           Completed(last'), last'.own
    PROVE  Order'
<1>1. SUFFICES ASSUME Exchanging PROVE Order'
    BY DEF Order, Put, host, Exchanging
<1>2. /\ DOMAIN queue' = DOMAIN queue \cup {Len(queue) + 1}
      /\ \A i \in DOMAIN queue : queue'[i] = queue[i] /\ i < Len(queue) + 1
      /\ queue'[Len(queue) + 1] = m
    BY PutFacts
<1>3. Len(queue) \in Nat /\ DOMAIN queue = 1 .. Len(queue)
    BY DEF DeviceTypes
<1>4. ASSUME NEW i \in DOMAIN queue', Completed(queue'[i]), queue'[i].own,
             NEW j \in DOMAIN queue', i < j, Completed(queue'[j])
      PROVE  queue'[j].own
    <2>1. CASE j = Len(queue) + 1
        BY <1>2, <2>1
    <2>2. CASE j # Len(queue) + 1
        <3>1. j \in DOMAIN queue /\ i \in DOMAIN queue
            BY <1>2, <1>3, <1>4, <2>2
        <3>2. QED
            BY <1>1, <1>2, <1>4, <3>1 DEF Order
    <2>3. QED
        BY <2>1, <2>2
<1>5. QED
    BY <1>4 DEF Order, Completed

\* The queue is read from its old end.
LEMMA OrderKept == IInv /\ [Next]_vars => Order'
<1> SUFFICES ASSUME IInv, [Next]_vars PROVE Order'
    OBVIOUS
<1> USE DEF IInv
<1>1. CASE Claim \/ Check \/ Wait \/ ReadEmpty \/ ReadError
    BY <1>1 DEF Claim, Check, Wait, ReadEmpty, ReadError, Order, Exchanging,
        Fail, host, device
<1>2. CASE Drop \/ DeadlinePasses \/ Leave \/ Kill \/ Restart
    BY <1>2 DEF Drop, DeadlinePasses, Leave, Kill, Restart, Order,
        Exchanging, host, device
<1>3. CASE Notify \/ Forget \/ Disturb
    BY <1>3 DEF Notify, Forget, Disturb, Order, Exchanging, host, device
<1>4. CASE Send
    <2>1. CASE Accepted /\ pc' = "Check"
        <3>1. CASE doing = "initialize"
            BY <2>1, <3>1, SendFacts DEF Order
        <3>2. CASE doing # "initialize"
            <4>1. Underway /\ ~Exchanging
                BY <1>4, <3>2 DEF Send, Underway, Exchanging
            <4>2. ASSUME NEW i \in DOMAIN queue'
                  PROVE  ~(Completed(queue'[i]) /\ queue'[i].own)
                <5>1. /\ i \in DOMAIN queue /\ queue'[i] = Aged(queue[i])
                      /\ queue[i] \in Messages
                    BY <2>1, <3>2, SendFacts DEF DeviceTypes
                <5>2. QED
                    BY <5>1, AgedFacts
            <4>3. QED
                BY <4>2 DEF Order, Completed
        <3>3. QED
            BY <3>1, <3>2
    <2>2. CASE pc' = "Drop"
        BY <2>2 DEF Order, Exchanging
    <2>3. QED
        BY <1>4, <2>1, <2>2 DEF Send, Fail
<1>5. CASE ReadIndication
    <2>1. Exchanging /\ last' = last
        BY <1>5 DEF ReadIndication, Exchanging
    <2>2. \A i \in DOMAIN queue' :
             i + 1 \in DOMAIN queue /\ queue'[i] = queue[i + 1] /\ i \in Nat
        BY <1>5, TakeFacts DEF ReadIndication
    <2>3. ASSUME NEW i \in DOMAIN queue', Completed(queue'[i]), queue'[i].own
          PROVE  /\ Completed(last) /\ last.own
                 /\ \A j \in DOMAIN queue' :
                        i < j /\ Completed(queue'[j]) => queue'[j].own
        <3>1. i + 1 \in DOMAIN queue /\ Completed(queue[i + 1]) /\ queue[i + 1].own
            BY <2>2, <2>3
        <3>2. \A j \in DOMAIN queue : i + 1 < j /\ Completed(queue[j]) => queue[j].own
            BY <2>1, <3>1 DEF Order
        <3>3. ASSUME NEW j \in DOMAIN queue', i < j, Completed(queue'[j])
              PROVE  queue'[j].own
            <4>1. /\ j + 1 \in DOMAIN queue /\ queue'[j] = queue[j + 1]
                  /\ i + 1 < j + 1
                BY <2>2, <3>3
            <4>2. QED
                BY <3>2, <3>3, <4>1
        <3>4. QED
            BY <2>1, <3>1, <3>3 DEF Order
    <2>4. QED
        BY <2>1, <2>3 DEF Order, Completed
<1>6. CASE ReadCompletion \/ Keepalive
    <2>1. ~Exchanging'
        BY <1>6 DEF ReadCompletion, Keepalive, Fail, Proceed, Exchanging
    <2>2. QED
        BY <2>1 DEF Order
<1>7. CASE Respond
    <2>1. PICK sound \in BOOLEAN :
             Put(Answer(request, sound)) /\ last' = Answer(request, sound)
        BY <1>7 DEF Respond
    <2>2. request \in Requests
        BY <1>7 DEF Respond, DeviceTypes
    <2>3. Answer(request, sound) \in Messages /\ Answer(request, sound).own
        BY <2>2 DEF Answer, Requests, Completions, Messages
    <2>4. Completed(last') /\ last'.own
        BY <2>1, <2>2 DEF Answer, Completed, Requests
    <2>5. QED
        BY <2>1, <2>3, <2>4, PutOrder
<1>8. CASE Repeat
    <2>1. /\ last \in Completions /\ last' = last /\ Put(last)
          /\ last \in Messages /\ Completed(last)
        BY <1>8 DEF Repeat, DeviceTypes, Messages, Completions, Completed
    <2>2. CASE last.own
        BY <2>1, <2>2, PutOrder
    <2>3. CASE ~last.own
        <3>1. SUFFICES ASSUME Exchanging PROVE Order'
            BY <2>1 DEF Order, Put, host, Exchanging
        <3>2. \A i \in DOMAIN queue : ~(Completed(queue[i]) /\ queue[i].own)
            BY <2>3, <3>1 DEF Order
        <3>3. \A i \in DOMAIN queue' : ~(Completed(queue'[i]) /\ queue'[i].own)
            BY <2>1, <2>3, <3>2, PutFacts
        <3>4. QED
            BY <3>3 DEF Order, Completed
    <2>4. QED
        BY <2>2, <2>3
<1>9. CASE Indicate
    <2>1. PICK kind \in {"status", "disconnect"}, sound \in BOOLEAN :
             Put(Indication(kind, sound))
        BY <1>9 DEF Indicate
    <2>2. last' = last
        BY <1>9 DEF Indicate
    <2>3. Indication(kind, sound) \in Messages /\ ~Completed(Indication(kind, sound))
        BY DEF Indication, Indications, Messages, Completed, Kinds
    <2>4. SUFFICES ASSUME Exchanging PROVE Order'
        BY <2>1 DEF Order, Put, host, Exchanging
    <2>5. ASSUME NEW i \in DOMAIN queue', Completed(queue'[i]), queue'[i].own
          PROVE  /\ Completed(last) /\ last.own
                 /\ \A j \in DOMAIN queue' :
                        i < j /\ Completed(queue'[j]) => queue'[j].own
        <3>1. i \in DOMAIN queue /\ queue'[i] = queue[i]
            BY <2>1, <2>3, <2>5, PutFacts
        <3>2. /\ Completed(last) /\ last.own
              /\ \A j \in DOMAIN queue : i < j /\ Completed(queue[j]) => queue[j].own
            BY <2>4, <2>5, <3>1 DEF Order
        <3>3. \A j \in DOMAIN queue' : Completed(queue'[j]) =>
                 j \in DOMAIN queue /\ queue'[j] = queue[j]
            BY <2>1, <2>3, PutFacts
        <3>4. QED
            BY <3>2, <3>3
    <2>6. QED
        BY <2>2, <2>5 DEF Order, Completed
<1>10. CASE UNCHANGED vars
    BY <1>10 DEF Order, Exchanging, vars, host, device
<1>11. QED
    BY <1>1, <1>2, <1>3, <1>4, <1>5, <1>6, <1>7, <1>8, <1>9, <1>10
       DEF Next, Session, Environment

-----------------------------------------------------------------------------
(* The invariant, and what follows from it.                                 *)

\* The first worker finds an empty device.
LEMMA InitInvariant == Init => IInv
<1> SUFFICES ASSUME Init PROVE IInv
    OBVIOUS
<1> USE ControlAssumption
<1>1. HostTypes
    <2>1. 1 \in Ids \ {0} /\ 0 \in 0 .. MaxResponses
        BY DEF Ids
    <2>2. expired \in BOOLEAN /\ tainted \in BOOLEAN
        BY DEF Init
    <2>3. QED
        BY <2>1, <2>2 DEF Init, HostTypes, Kinds
<1>2. DeviceTypes
    BY EmptySeq DEF Init, DeviceTypes
<1>3. Listening /\ OwnAnswers /\ Freshness /\ Order /\ Starting
    BY DEF Init, Listening, OwnAnswers, Freshness, Order, Starting, Underway, Exchanging
<1>4. QED
    BY <1>1, <1>2, <1>3 DEF IInv

\* Every step keeps the invariant.
LEMMA StepInvariant == IInv /\ [Next]_vars => IInv'
    BY HostTypesKept, DeviceTypesKept, ListeningKept, OwnAnswersKept, FreshnessKept,
       OrderKept, StartingKept DEF IInv

\* The inductive invariant of the control channel (session.rs, exchange).
THEOREM Invariance == Spec => []IInv
    BY InitInvariant, StepInvariant, PTL DEF Spec

\* Every variable keeps its type; an id is never zero, wherever it wraps.
THEOREM TypeCorrect == Spec => []TypeOK
<1>1. IInv => TypeOK
    BY DEF IInv, HostTypes, DeviceTypes, Messages, TypeOK
<1>2. QED
    BY <1>1, Invariance, PTL

\* The host never waits on an interrupt endpoint with nothing submitted.
THEOREM ListeningHolds == Spec => []Listening
    BY Invariance, PTL DEF IInv

\* With three ids or more and any faults of the device, no session takes a
\* completion of another request than its last.
THEOREM OwnAnswersHolds == Spec => []OwnAnswers
    BY Invariance, PTL DEF IInv

-----------------------------------------------------------------------------
(* A device that answers each request once, and in sound messages: it may    *)
(* lose requests and notifications, notify without cause, and vanish.        *)

Honest == Faults \subseteq {"silent", "gone"}

\* Why: everything such a device sent is sound.
Sound ==
    /\ note # "bad" /\ failure # "rejected"
    /\ \A i \in DOMAIN queue : queue[i].sound

\* Why: at most one completion is left, it answers the request in progress, and
\* then that request is not answered again; between exchanges nothing is left.
Settled ==
    /\ Exchanging =>
          /\ \A i \in DOMAIN queue : Completed(queue[i]) =>
                /\ queue[i].kind = doing /\ queue[i].id = id /\ request = Nothing
                /\ \A j \in DOMAIN queue : Completed(queue[j]) => i = j
          /\ request # Nothing => request.kind = doing /\ request.id = id
    /\ Underway /\ ~Exchanging =>
          request = Nothing /\ \A i \in DOMAIN queue : ~Completed(queue[i])

\* Such a device only puts sound messages.
LEMMA HonestPut ==
    ASSUME Honest, IInv, Respond \/ Repeat \/ Indicate
    PROVE  \E m \in Messages :
              /\ Put(m) /\ m.sound
              /\ \/ /\ Respond /\ request \in Requests /\ Completed(m)
                    /\ m.kind = request.kind /\ m.id = request.id /\ request' = Nothing
                 \/ Indicate /\ ~Completed(m) /\ request' = request
<1> USE DEF Honest, IInv
<1>1. ~Repeat
    BY DEF Repeat
<1>2. CASE Respond
    <2>1. request \in Requests /\ request' = Nothing
        BY <1>2 DEF Respond, DeviceTypes
    <2>2. Put(Answer(request, TRUE))
        BY <1>2 DEF Respond
    <2>3. /\ Answer(request, TRUE) \in Messages /\ Answer(request, TRUE).sound
          /\ Answer(request, TRUE).kind = request.kind
          /\ Answer(request, TRUE).id = request.id /\ Completed(Answer(request, TRUE))
        BY <2>1 DEF Answer, Requests, Completions, Messages, Completed
    <2>4. QED
        BY <1>2, <2>1, <2>2, <2>3
<1>3. CASE Indicate
    <2>1. PICK kind \in {"status", "disconnect"} : Put(Indication(kind, TRUE))
        BY <1>3 DEF Indicate
    <2>2. /\ Indication(kind, TRUE) \in Messages /\ ~Completed(Indication(kind, TRUE))
          /\ Indication(kind, TRUE).sound
        BY DEF Indication, Indications, Messages, Completed, Kinds
    <2>3. QED
        BY <1>3, <2>1, <2>2 DEF Indicate
<1>4. QED
    BY <1>1, <1>2, <1>3

\* What is read is never a reason to reject the device.
LEMMA SoundKept ==
    ASSUME Honest, IInv, Sound, Settled, [Next]_vars
    PROVE  Sound'
<1> USE DEF IInv, Honest
<1>1. CASE Respond \/ Repeat \/ Indicate
    <2>1. PICK m \in Messages : Put(m) /\ m.sound
        BY <1>1, HonestPut
    <2>2. note' = note /\ failure' = failure
        BY <2>1 DEF Put, host
    <2>3. QED
        BY <2>1, <2>2, PutFacts DEF Sound
<1>2. CASE Send
    <2>1. CASE Accepted /\ UNCHANGED failure
        <3>1. note' = note
            BY <1>2 DEF Send
        <3>2. CASE doing = "initialize"
            <4>1. queue' = <<>> /\ DOMAIN queue' = {}
                BY <2>1, <3>2, SendFacts
            <4>2. QED
                BY <2>1, <3>1, <4>1 DEF Sound
        <3>3. CASE doing # "initialize"
            <4>1. ASSUME NEW i \in DOMAIN queue' PROVE queue'[i].sound
                <5>1. /\ i \in DOMAIN queue /\ queue'[i] = Aged(queue[i])
                      /\ queue[i] \in Messages /\ queue[i].sound
                    BY <2>1, <3>3, SendFacts DEF DeviceTypes, Sound
                <5>2. QED
                    BY <5>1 DEF Aged, Messages, Completions, Indications
            <4>2. QED
                BY <2>1, <3>1, <4>1 DEF Sound
        <3>4. QED
            BY <3>2, <3>3
    <2>2. CASE failure' = "transport" /\ UNCHANGED device
        BY <1>2, <2>2 DEF Send, Sound, device
    <2>3. QED
        BY <1>2, <2>1, <2>2 DEF Send, Fail
<1>3. CASE ReadIndication \/ ReadCompletion
    <2>1. /\ queue # <<>> /\ queue' = Tail(queue) /\ note' = note
        BY <1>3 DEF ReadIndication, ReadCompletion
    <2>2. /\ Head(queue).sound
          /\ \A i \in DOMAIN queue' : queue'[i].sound
        BY <2>1, TakeFacts DEF Sound
    <2>3. failure' # "rejected"
        <3>1. CASE ReadIndication
            BY <2>2, <3>1 DEF ReadIndication, Fail, Sound
        <3>2. CASE ReadCompletion
            <4>1. Head(queue) = queue[1] /\ 1 \in DOMAIN queue /\ Completed(queue[1])
                BY <2>1, <3>2, TakeFacts DEF ReadCompletion, Completed
            <4>2. Matches(Head(queue))
                BY <2>2, <3>2, <4>1 DEF Settled, Exchanging, ReadCompletion, Matches
            <4>3. QED
                BY <3>2, <4>2 DEF ReadCompletion, Sound
        <3>3. QED
            BY <1>3, <3>1, <3>2
    <2>4. QED
        BY <2>1, <2>2, <2>3 DEF Sound
<1>4. CASE Claim \/ Check \/ Wait \/ ReadEmpty \/ ReadError \/ Keepalive \/ Drop
    BY <1>4 DEF Claim, Check, Wait, ReadEmpty, ReadError, Keepalive, Drop, Fail,
        Sound, device
<1>5. CASE DeadlinePasses \/ Leave \/ Kill \/ Restart \/ Notify \/ Forget \/ Disturb
    BY <1>5 DEF DeadlinePasses, Leave, Kill, Restart, Notify, Forget, Disturb, Sound,
        host, device
<1>6. CASE UNCHANGED vars
    BY <1>6 DEF Sound, vars, host, device
<1>7. QED
    BY <1>1, <1>2, <1>3, <1>4, <1>5, <1>6 DEF Next, Session, Environment

\* An exchange begins with nothing left of another one.
LEMMA SettledKept ==
    ASSUME Honest, IInv, Sound, Settled, [Next]_vars
    PROVE  Settled'
<1> USE DEF IInv, Honest
<1>1. CASE Respond \/ Repeat \/ Indicate
    <2>1. PICK m \in Messages :
              /\ Put(m)
              /\ \/ /\ Respond /\ request \in Requests /\ Completed(m)
                    /\ m.kind = request.kind /\ m.id = request.id /\ request' = Nothing
                 \/ Indicate /\ ~Completed(m) /\ request' = request
        BY <1>1, HonestPut
    <2>2. UNCHANGED <<pc, doing, id>> /\ (Exchanging <=> Exchanging')
          /\ (Underway <=> Underway')
        BY <2>1 DEF Put, host, Exchanging, Underway
    <2>3. /\ DOMAIN queue' = DOMAIN queue \cup {Len(queue) + 1}
          /\ \A i \in DOMAIN queue : queue'[i] = queue[i] /\ i < Len(queue) + 1
          /\ queue'[Len(queue) + 1] = m
        BY <2>1, PutFacts
    <2>4. CASE Completed(m)
        <3>1. request # Nothing /\ request' = Nothing /\ m.kind = request.kind
              /\ m.id = request.id
            BY <2>1, <2>4 DEF Respond
        <3>2. Exchanging =>
                  /\ m.kind = doing /\ m.id = id
                  /\ \A i \in DOMAIN queue : ~Completed(queue[i])
            BY <3>1 DEF Settled
        <3>3. ~(Underway /\ ~Exchanging)
            BY <3>1 DEF Settled
        <3>4. QED
            BY <2>2, <2>3, <2>4, <3>1, <3>2, <3>3 DEF Settled, Completed
    <2>5. CASE ~Completed(m)
        <3>1. request' = request
            BY <2>1, <2>5
        <3>2. \A i \in DOMAIN queue' :
                  Completed(queue'[i]) => i \in DOMAIN queue /\ queue'[i] = queue[i]
            BY <2>3, <2>5
        <3>3. QED
            BY <2>2, <3>1, <3>2 DEF Settled, Completed
    <2>6. QED
        BY <2>4, <2>5
<1>2. CASE Send
    <2>1. CASE Accepted /\ pc' = "Check"
        <3>1. /\ doing' = doing /\ id' = id /\ request' = [kind |-> doing, id |-> id]
              /\ Exchanging'
            BY <1>2, <2>1, SendFacts DEF Send, Exchanging
        <3>2. \A i \in DOMAIN queue' : ~Completed(queue'[i])
            <4>1. CASE doing = "initialize"
                <5>1. queue' = <<>> /\ DOMAIN queue' = {}
                    BY <2>1, <4>1, SendFacts
                <5>2. QED
                    BY <5>1
            <4>2. CASE doing # "initialize"
                <5>1. Underway /\ ~Exchanging
                    BY <1>2, <4>2 DEF Send, Underway, Exchanging
                <5>2. SUFFICES ASSUME NEW i \in DOMAIN queue' PROVE ~Completed(queue'[i])
                    OBVIOUS
                <5>3. /\ i \in DOMAIN queue /\ queue'[i] = Aged(queue[i])
                      /\ queue[i] \in Messages /\ ~Completed(queue[i])
                    BY <2>1, <4>2, <5>1, SendFacts DEF DeviceTypes, Settled
                <5>4. QED
                    BY <5>3, AgedFacts
            <4>3. QED
                BY <4>1, <4>2
        <3>3. QED
            BY <3>1, <3>2 DEF Settled, Completed
    <2>2. CASE pc' = "Drop"
        BY <2>2 DEF Settled, Exchanging, Underway
    <2>3. QED
        BY <1>2, <2>1, <2>2 DEF Send, Fail
<1>3. CASE ReadIndication \/ ReadCompletion
    <2>1. /\ queue # <<>> /\ queue' = Tail(queue) /\ request' = request /\ Exchanging
        BY <1>3 DEF ReadIndication, ReadCompletion, Exchanging
    <2>2. /\ Head(queue) = queue[1] /\ 1 \in DOMAIN queue
          /\ \A i \in DOMAIN queue' :
                 i + 1 \in DOMAIN queue /\ queue'[i] = queue[i + 1] /\ i \in Nat /\ 1 # i + 1
        BY <2>1, TakeFacts
    <2>3. CASE pc' = "Drop"
        BY <2>3 DEF Settled, Exchanging, Underway
    <2>4. CASE ReadIndication /\ pc' = "Check"
        <3>1. Exchanging' /\ doing' = doing /\ id' = id
            BY <2>4 DEF ReadIndication, Exchanging
        <3>2. ASSUME NEW i \in DOMAIN queue', Completed(queue'[i])
              PROVE  /\ queue'[i].kind = doing /\ queue'[i].id = id /\ request = Nothing
                     /\ \A j \in DOMAIN queue' : Completed(queue'[j]) => i = j
            <4>1. /\ i + 1 \in DOMAIN queue /\ queue'[i] = queue[i + 1]
                  /\ Completed(queue[i + 1])
                BY <2>2, <3>2
            <4>2. /\ queue[i + 1].kind = doing /\ queue[i + 1].id = id /\ request = Nothing
                  /\ \A j \in DOMAIN queue : Completed(queue[j]) => i + 1 = j
                BY <2>1, <4>1 DEF Settled
            <4>3. \A j \in DOMAIN queue' : Completed(queue'[j]) => i + 1 = j + 1
                BY <2>2, <4>2
            <4>4. QED
                BY <2>2, <4>1, <4>2, <4>3
        <3>3. request # Nothing => request.kind = doing /\ request.id = id
            BY <2>1 DEF Settled
        <3>4. QED
            BY <2>1, <3>1, <3>2, <3>3 DEF Settled, Completed
    <2>5. CASE ReadCompletion /\ pc' # "Drop"
        <3>1. Completed(queue[1]) /\ ~Exchanging'
            BY <2>2, <2>5 DEF ReadCompletion, Completed, Proceed, Exchanging, Fail
        <3>2. request = Nothing /\ \A j \in DOMAIN queue : Completed(queue[j]) => 1 = j
            BY <2>1, <2>2, <3>1 DEF Settled
        <3>3. \A i \in DOMAIN queue' : ~Completed(queue'[i])
            BY <2>2, <3>2
        <3>4. QED
            BY <2>1, <3>1, <3>2, <3>3 DEF Settled, Completed
    <2>6. QED
        BY <1>3, <2>3, <2>4, <2>5 DEF ReadIndication, Fail
<1>4. CASE Keepalive
    <2>1. /\ Underway /\ ~Exchanging /\ ~Exchanging' /\ UNCHANGED <<queue, request>>
        BY <1>4 DEF Keepalive, Underway, Exchanging, device
    <2>2. QED
        BY <2>1 DEF Settled, Completed
<1>5. CASE Claim \/ Check \/ Wait \/ ReadEmpty \/ ReadError \/ Drop \/
           DeadlinePasses \/ Leave \/ Kill \/ Restart \/ Notify \/ Forget \/ Disturb \/
           UNCHANGED vars
    <2>1. UNCHANGED queue /\ request' \in {request, Nothing}
        BY <1>5 DEF Claim, Check, Wait, ReadEmpty, ReadError, Drop, DeadlinePasses,
           Leave, Kill, Restart, Notify, Forget, Disturb, vars, host, device
    <2>2. Underway' => Underway /\ (Exchanging <=> Exchanging') /\ id' = id /\ doing' = doing
        BY <1>5 DEF Claim, Check, Wait, ReadEmpty, ReadError, Drop, DeadlinePasses,
           Leave, Kill, Restart, Notify, Forget, Disturb, Fail, vars, host, device,
           Underway, Exchanging, Starting
    <2>3. Exchanging' => Underway'
        BY DEF Underway
    <2>4. QED
        BY <2>1, <2>2, <2>3 DEF Settled, Completed
<1>6. QED
    BY <1>1, <1>2, <1>3, <1>4, <1>5 DEF Next, Session, Environment

\* A device that is merely unreliable, that loses requests and notifications,
\* notifies without cause or vanishes, is never taken for one that speaks
\* another protocol: whatever a killed worker left in it, indications and late
\* completions included, no session ends with a rejection.
THEOREM NeverRejectedHolds ==
    ASSUME Faults \subseteq {"silent", "gone"}
    PROVE  Spec => []NeverRejected
<1> DEFINE HInv == IInv /\ Sound /\ Settled
<1>1. Init => HInv
    <2> SUFFICES ASSUME Init PROVE Sound /\ Settled
        BY InitInvariant
    <2>1. DOMAIN queue = {} /\ note = "none" /\ failure = "none" /\ pc = "Claim"
        BY DEF Init
    <2>2. QED
        BY <2>1 DEF Sound, Settled, Exchanging, Underway
<1>2. HInv /\ [Next]_vars => HInv'
    BY StepInvariant, SoundKept, SettledKept DEF Honest
<1>3. HInv => NeverRejected
    BY DEF Sound, NeverRejected
<1>4. QED
    BY <1>1, <1>2, <1>3, PTL DEF Spec
=============================================================================
