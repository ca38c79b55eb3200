--------------------------- MODULE NodeServerProofs ---------------------------
(***************************************************************************)
(* A node with any number of connections, permits, pool threads and        *)
(* requests: permits are conserved, and the metrics match the answers.     *)
(***************************************************************************)
EXTENDS NodeServer, FiniteSetTheorems, TLAPS

ConnState == [pc  : {"closed", "queued", "idle", "reading", "waiting"},
              req : Request \cup {Nobody}]

ScriptState ==
    [state  : {"none", "queued", "loading", "sync_calling", "running",
               "calling", "finished"},
     child  : Request \cup {Nobody},
     result : Outcomes \cup {"none"}]

AnswerKind == {"none", "rejected", "builtin", "result", "error", "join_error",
               "timed_out", "abandoned"}

Typed ==
    /\ backlog \in Seq(Conn)
    /\ acceptor \in Conn \cup {Nobody}
    /\ permits \in Nat
    /\ conns \in [Conn -> ConnState]
    /\ scripts \in [Request -> ScriptState]
    /\ answers \in [Request -> AnswerKind]
    /\ metrics \in [ok : Nat, failed : Nat]
    /\ blocking_runtime \in Request \cup {Nobody, Poisoned}

\* A connection waits to be served in one place only.
InLine ==
    /\ \A i \in DOMAIN backlog : conns[backlog[i]].pc = "queued"
    /\ \A i, k \in DOMAIN backlog : backlog[i] = backlog[k] => i = k
    /\ acceptor # Nobody =>
          /\ conns[acceptor].pc = "queued"
          /\ \A i \in DOMAIN backlog : backlog[i] # acceptor

\* A request in progress is on one connection, and has no answer yet.
InProgress ==
    /\ \A c \in Conn : conns[c].req # Nobody <=> conns[c].pc \in {"reading", "waiting"}
    /\ \A c \in Conn : conns[c].req # Nobody => answers[conns[c].req] = "none"
    /\ \A c, d \in Conn : conns[c].req = conns[d].req /\ conns[c].req # Nobody => c = d

\* A script that has ended has an outcome.
Ended == \A r \in Request : scripts[r].state = "finished" => scripts[r].result # "none"

AnsweredBy(kind) == {r \in Request : answers[r] = kind}

NSInv ==
    Typed /\ InLine /\ InProgress /\ Ended /\ PermitsConserved /\ RecordedIffDelivered

-----------------------------------------------------------------------------
(* Counting *)

LEMMA RequestFinite == \A S \in SUBSET Request : IsFiniteSet(S) /\ Cardinality(S) \in Nat
<1> SUFFICES ASSUME NEW S \in SUBSET Request PROVE IsFiniteSet(S) /\ Cardinality(S) \in Nat
  OBVIOUS
<1>1. IsFiniteSet(Request)
  BY FS_Interval, ServerAssumption DEF Request
<1> QED
  BY <1>1, FS_Subset, FS_CardinalityType

LEMMA ServedFinite ==
    /\ IsFiniteSet(Served) /\ Cardinality(Served) \in Nat
<1>1. Served \in SUBSET Conn /\ IsFiniteSet(Conn)
  BY ServerAssumption DEF Served
<1> QED
  BY <1>1, FS_Subset, FS_CardinalityType

\* A connection changes, but not whether it is served.
LEMMA SameServed ==
    ASSUME Typed, Typed', PermitsConserved, permits' = permits,
           \A c \in Conn : c \in Served <=> c \in Served'
    PROVE  PermitsConserved'
<1>1. Served' = Served
  BY DEF Served
<1> QED
  BY <1>1 DEF PermitsConserved

\* The answer of a request in progress is counted under its kind.
LEMMA AnswerLemma ==
    ASSUME Typed, NEW r \in Request, answers[r] = "none",
           NEW kind \in AnswerKind \ {"none"},
           answers' = [answers EXCEPT ![r] = kind],
           NEW other \in {"result", "error"}
    PROVE  Cardinality(AnsweredBy(other)')
              = IF kind = other THEN Cardinality(AnsweredBy(other)) + 1
                                ELSE Cardinality(AnsweredBy(other))
<1>1. IsFiniteSet(AnsweredBy(other))
  BY RequestFinite DEF AnsweredBy
<1>2. r \notin AnsweredBy(other)
  BY DEF AnsweredBy
<1>3. CASE kind = other
  <2>1. AnsweredBy(other)' = AnsweredBy(other) \cup {r}
    BY <1>3 DEF Typed, AnsweredBy
  <2> QED
    BY <1>1, <1>2, <1>3, <2>1, FS_AddElement
<1>4. CASE kind # other
  <2>1. AnsweredBy(other)' = AnsweredBy(other)
    BY <1>4 DEF Typed, AnsweredBy
  <2> QED
    BY <1>4, <2>1
<1> QED
  BY <1>3, <1>4

\* A kind that the metrics do not count.
LEMMA UncountedLemma ==
    ASSUME Typed, RecordedIffDelivered, NEW r \in Request, answers[r] = "none",
           NEW kind \in AnswerKind \ {"none", "result", "error"},
           answers' = [answers EXCEPT ![r] = kind],
           metrics' = metrics
    PROVE  RecordedIffDelivered'
<1>1. /\ Cardinality(AnsweredBy("result")') = Cardinality(AnsweredBy("result"))
      /\ Cardinality(AnsweredBy("error")') = Cardinality(AnsweredBy("error"))
  BY AnswerLemma
<1> QED
  BY <1>1 DEF RecordedIffDelivered, AnsweredBy

LEMMA SameAnswers ==
    ASSUME RecordedIffDelivered, answers' = answers, metrics' = metrics
    PROVE  RecordedIffDelivered'
BY DEF RecordedIffDelivered

-----------------------------------------------------------------------------
(* The connections *)

LEMMA ConnectKeeps ==
    ASSUME NSInv, NEW c \in Conn, Connect(c)
    PROVE  NSInv'
<1>1. /\ conns[c].pc = "closed" /\ conns' = [conns EXCEPT ![c].pc = "queued"]
      /\ backlog' = Append(backlog, c)
      /\ UNCHANGED <<acceptor, permits, scripts, answers, metrics, blocking_runtime>>
  BY DEF Connect
<1>2. Typed'
  BY <1>1 DEF NSInv, Typed, ConnState
<1>3. InLine'
  <2>1. /\ DOMAIN backlog = 1..Len(backlog) /\ Len(backlog) \in Nat
        /\ \A i \in DOMAIN backlog : backlog[i] \in Conn
        /\ DOMAIN backlog' = 1..(Len(backlog) + 1)
        /\ \A i \in 1..Len(backlog) : backlog'[i] = backlog[i]
        /\ backlog'[Len(backlog) + 1] = c
    BY <1>1 DEF NSInv, Typed
  <2>2. /\ \A d \in Conn : conns'[d].pc = IF d = c THEN "queued" ELSE conns[d].pc
    BY <1>1 DEF NSInv, Typed, ConnState
  <2>3. \A i \in DOMAIN backlog : backlog[i] # c
    BY <1>1 DEF NSInv, InLine
  <2>4. acceptor # c
    BY <1>1, ServerAssumption DEF NSInv, InLine
  <2>5. acceptor \in Conn \cup {Nobody}
    BY DEF NSInv, Typed
  <2>6. \A i \in DOMAIN backlog' : i \in DOMAIN backlog \/ i = Len(backlog) + 1
    BY <2>1
  <2>7. \A i \in DOMAIN backlog' : conns'[backlog'[i]].pc = "queued"
    BY <2>1, <2>2, <2>6 DEF NSInv, InLine
  <2>8. \A i, k \in DOMAIN backlog' : backlog'[i] = backlog'[k] => i = k
    BY <2>1, <2>3, <2>6 DEF NSInv, InLine
  <2>9. acceptor' # Nobody =>
          /\ conns'[acceptor'].pc = "queued"
          /\ \A i \in DOMAIN backlog' : backlog'[i] # acceptor'
    BY <1>1, <2>1, <2>2, <2>4, <2>5, <2>6 DEF NSInv, InLine
  <2> QED
    BY <2>7, <2>8, <2>9 DEF InLine
<1>4. InProgress'
  BY <1>1 DEF NSInv, Typed, ConnState, InProgress
<1>5. PermitsConserved'
  BY <1>1, <1>2, SameServed DEF NSInv, Typed, ConnState, Served
<1>6. Ended' /\ RecordedIffDelivered'
  BY <1>1, SameAnswers DEF NSInv, Ended
<1> QED
  BY <1>2, <1>3, <1>4, <1>5, <1>6 DEF NSInv

LEMMA AcceptKeeps ==
    ASSUME NSInv, Accept
    PROVE  NSInv'
<1>1. /\ acceptor = Nobody /\ backlog # << >>
      /\ acceptor' = Head(backlog) /\ backlog' = Tail(backlog)
      /\ UNCHANGED <<permits, conns, scripts, answers, metrics, blocking_runtime>>
  BY DEF Accept
<1>2. /\ backlog \in Seq(Conn)
      /\ backlog' \in Seq(Conn)
      /\ 1 \in DOMAIN backlog /\ acceptor' = backlog[1] /\ acceptor' \in Conn
      /\ \A i \in DOMAIN backlog' : i \in Nat \ {0} /\ i + 1 \in DOMAIN backlog /\ backlog'[i] = backlog[i + 1]
  BY <1>1 DEF NSInv, Typed
<1>3. Typed'
  BY <1>1, <1>2 DEF NSInv, Typed
<1>4. InLine'
  BY <1>1, <1>2 DEF NSInv, InLine
<1>5. InProgress' /\ Ended' /\ PermitsConserved' /\ RecordedIffDelivered'
  BY <1>1 DEF NSInv, InProgress, Ended, PermitsConserved, Served, RecordedIffDelivered
<1> QED
  BY <1>3, <1>4, <1>5 DEF NSInv

LEMMA ServeKeeps ==
    ASSUME NSInv, Serve
    PROVE  NSInv'
<1>1. /\ acceptor # Nobody /\ permits > 0 /\ permits' = permits - 1
      /\ conns' = [conns EXCEPT ![acceptor].pc = "idle"]
      /\ acceptor' = Nobody
      /\ UNCHANGED <<backlog, scripts, answers, metrics, blocking_runtime>>
  BY DEF Serve
<1>2. acceptor \in Conn /\ conns[acceptor].pc = "queued"
  BY <1>1 DEF NSInv, Typed, InLine
<1>3. Typed'
  <2>1. permits' \in Nat
    BY <1>1 DEF NSInv, Typed
  <2>2. conns' \in [Conn -> ConnState]
    BY <1>1, <1>2 DEF NSInv, Typed, ConnState
  <2> QED
    BY <1>1, <2>1, <2>2 DEF NSInv, Typed
<1>4. InLine'
  <2>1. \A i \in DOMAIN backlog : backlog[i] \in Conn /\ backlog[i] # acceptor
    BY <1>1 DEF NSInv, Typed, InLine
  <2> QED
    BY <1>1, <1>2, <2>1 DEF NSInv, Typed, InLine
<1>5. InProgress'
  BY <1>1, <1>2 DEF NSInv, Typed, ConnState, InProgress
<1>6. PermitsConserved'
  <2>1. Served' = Served \cup {acceptor} /\ acceptor \notin Served
    BY <1>1, <1>2 DEF NSInv, Typed, ConnState, Served
  <2>2. Cardinality(Served') = Cardinality(Served) + 1
    BY <2>1, ServedFinite, FS_AddElement
  <2> QED
    BY <1>1, <2>2, ServedFinite DEF NSInv, Typed, PermitsConserved
<1>7. Ended' /\ RecordedIffDelivered'
  BY <1>1, SameAnswers DEF NSInv, Ended
<1> QED
  BY <1>3, <1>4, <1>5, <1>6, <1>7 DEF NSInv

LEMMA HangUpKeeps ==
    ASSUME NSInv, NEW c \in Conn, HangUp(c)
    PROVE  NSInv'
<1>1. /\ conns[c].pc \in {"idle", "reading", "waiting"}
      /\ permits' = permits + 1
      /\ conns' = [conns EXCEPT ![c] = [pc |-> "closed", req |-> Nobody]]
      /\ answers' = IF conns[c].req = Nobody THEN answers
                    ELSE [answers EXCEPT ![conns[c].req] = "abandoned"]
      /\ UNCHANGED <<backlog, acceptor, scripts, metrics, blocking_runtime>>
  BY DEF HangUp, Served
<1>2. Typed'
  BY <1>1 DEF NSInv, Typed, ConnState, AnswerKind
<1>3. InLine'
  <2>1. \A i \in DOMAIN backlog : backlog[i] \in Conn /\ backlog[i] # c
    BY <1>1 DEF NSInv, Typed, InLine
  <2>2. acceptor # c
    BY <1>1, ServerAssumption DEF NSInv, InLine
  <2> QED
    BY <1>1, <2>1, <2>2 DEF NSInv, Typed, InLine
<1>4. InProgress'
  BY <1>1 DEF NSInv, Typed, ConnState, InProgress
<1>5. PermitsConserved'
  <2>1. Served' = Served \ {c} /\ c \in Served
    BY <1>1 DEF NSInv, Typed, ConnState, Served
  <2>2. Cardinality(Served') = Cardinality(Served) - 1
    BY <2>1, ServedFinite, FS_RemoveElement
  <2> QED
    BY <1>1, <2>2, ServedFinite DEF NSInv, Typed, PermitsConserved
<1>6. RecordedIffDelivered'
  <2>1. CASE conns[c].req = Nobody
    BY <1>1, <2>1, SameAnswers DEF NSInv
  <2>2. CASE conns[c].req # Nobody
    <3>1. conns[c].req \in Request /\ answers[conns[c].req] = "none"
      BY <2>2 DEF NSInv, Typed, ConnState, InProgress
    <3> QED
      BY <1>1, <2>2, <3>1, UncountedLemma DEF NSInv, AnswerKind
  <2> QED
    BY <2>1, <2>2
<1>7. Ended'
  BY <1>1 DEF NSInv, Ended
<1> QED
  BY <1>2, <1>3, <1>4, <1>5, <1>6, <1>7 DEF NSInv

-----------------------------------------------------------------------------
(* Requests on the connections being served *)

\* One connection moves between idle, reading and waiting; nobody gets in line.
LEMMA StillServed ==
    ASSUME NSInv, Typed', NEW c \in Conn,
           c \in Served, c \in Served',
           \A d \in Conn \ {c} : conns'[d] = conns[d],
           UNCHANGED <<backlog, acceptor, permits>>
    PROVE  InLine' /\ PermitsConserved'
<1>1. conns[c].pc # "queued"
  BY DEF Served
<1>2. \A i \in DOMAIN backlog : backlog[i] \in Conn /\ backlog[i] # c
  BY <1>1 DEF NSInv, Typed, InLine
<1>3. acceptor # c
  BY <1>1, ServerAssumption DEF NSInv, InLine
<1>4. InLine'
  BY <1>2, <1>3 DEF NSInv, Typed, InLine
<1>5. \A d \in Conn : d \in Served <=> d \in Served'
  BY DEF Served
<1> QED
  BY <1>4, <1>5, SameServed DEF NSInv

\* A request in progress is answered.
LEMMA ReplyKeeps ==
    ASSUME NSInv, NEW c \in Conn, conns[c].pc \in {"reading", "waiting"},
           NEW kind \in AnswerKind \ {"none"}, Reply(c, kind),
           metrics' \in [ok : Nat, failed : Nat],
           UNCHANGED <<backlog, acceptor, permits, scripts, blocking_runtime>>
    PROVE  /\ Typed' /\ InLine' /\ InProgress' /\ Ended' /\ PermitsConserved'
           /\ conns[c].req \in Request
           /\ answers[conns[c].req] = "none"
           /\ answers' = [answers EXCEPT ![conns[c].req] = kind]
<1>1. /\ conns' = [conns EXCEPT ![c] = [pc |-> "idle", req |-> Nobody]]
      /\ answers' = [answers EXCEPT ![conns[c].req] = kind]
  BY DEF Reply
<1>2. conns[c].req \in Request /\ answers[conns[c].req] = "none"
  BY DEF NSInv, Typed, ConnState, InProgress
<1>3. Typed'
  BY <1>1, <1>2 DEF NSInv, Typed, ConnState
<1>4. c \in Served /\ c \in Served' /\ \A d \in Conn \ {c} : conns'[d] = conns[d]
  BY <1>1 DEF NSInv, Typed, Served
<1>5. InLine' /\ PermitsConserved'
  BY <1>3, <1>4, StillServed
<1>6. InProgress'
  BY <1>1, <1>2 DEF NSInv, Typed, ConnState, InProgress
<1>7. Ended'
  BY DEF NSInv, Ended
<1> QED
  BY <1>1, <1>2, <1>3, <1>5, <1>6, <1>7

LEMMA RejectKeeps ==
    ASSUME NSInv, NEW c \in Conn, RejectBody(c) \/ AnswerBuiltin(c) \/ ExecutionTimeout(c)
    PROVE  NSInv'
<1>1. PICK kind \in {"rejected", "builtin", "timed_out"} :
         /\ conns[c].pc \in {"reading", "waiting"}
         /\ Reply(c, kind)
         /\ UNCHANGED <<backlog, acceptor, permits, scripts, metrics, blocking_runtime>>
  BY DEF RejectBody, AnswerBuiltin, ExecutionTimeout
<1>2. /\ kind \in AnswerKind \ {"none", "result", "error"}
      /\ kind \in AnswerKind \ {"none"}
  BY DEF AnswerKind
<1>3. metrics' \in [ok : Nat, failed : Nat] /\ metrics' = metrics
  BY <1>1 DEF NSInv, Typed
<1>4. /\ Typed' /\ InLine' /\ InProgress' /\ Ended' /\ PermitsConserved'
      /\ conns[c].req \in Request
      /\ answers[conns[c].req] = "none"
      /\ answers' = [answers EXCEPT ![conns[c].req] = kind]
  BY <1>1, <1>2, <1>3, ReplyKeeps
<1>5. RecordedIffDelivered'
  BY <1>2, <1>3, <1>4, UncountedLemma DEF NSInv
<1> QED
  BY <1>4, <1>5 DEF NSInv

\* The outcome of a script reaches its caller, and the metrics.
LEMMA DeliverKeeps ==
    ASSUME NSInv, NEW c \in Conn, Deliver(c)
    PROVE  NSInv'
<1> DEFINE r      == conns[c].req
           result == scripts[r].result
           kind   == IF result = "panic" THEN "join_error" ELSE result
<1>1. /\ conns[c].pc = "waiting"
      /\ scripts[r].state = "finished"
      /\ metrics' = IF result = "panic" THEN metrics ELSE Recorded(result)
      /\ Reply(c, kind)
      /\ UNCHANGED <<backlog, acceptor, permits, scripts, blocking_runtime>>
  BY DEF Deliver
<1>2. r \in Request /\ answers[r] = "none"
  BY <1>1 DEF NSInv, Typed, ConnState, InProgress
<1>3. result \in Outcomes
  BY <1>1, <1>2 DEF NSInv, Typed, ScriptState, Ended
<1>4. kind \in AnswerKind \ {"none"}
  BY <1>3 DEF Outcomes, AnswerKind
<1>5. metrics' \in [ok : Nat, failed : Nat]
  <2>1. metrics \in [ok : Nat, failed : Nat]
    BY DEF NSInv, Typed
  <2>2. /\ metrics.ok \in Nat /\ metrics.ok + 1 \in Nat
        /\ metrics.failed \in Nat /\ metrics.failed + 1 \in Nat
    BY <2>1
  <2>3. ASSUME NEW ok \in Nat, NEW failed \in Nat
        PROVE  [metrics EXCEPT !.ok = ok, !.failed = failed] \in [ok : Nat, failed : Nat]
    BY <2>1
  <2>4. Recorded(result) \in [ok : Nat, failed : Nat]
    <3>1. CASE result = "result"
      <4>1. Recorded(result)
               = [metrics EXCEPT !.ok = metrics.ok + 1, !.failed = metrics.failed]
        BY <3>1 DEF Recorded
      <4> QED
        BY <2>2, <2>3, <4>1, Zenon
    <3>2. CASE result # "result"
      <4>1. Recorded(result)
               = [metrics EXCEPT !.ok = metrics.ok, !.failed = metrics.failed + 1]
        BY <3>2 DEF Recorded
      <4> QED
        BY <2>2, <2>3, <4>1, Zenon
    <3> QED
      BY <3>1, <3>2
  <2> QED
    BY <1>1, <2>1, <2>4
<1>6. /\ Typed' /\ InLine' /\ InProgress' /\ Ended' /\ PermitsConserved'
      /\ answers' = [answers EXCEPT ![r] = kind]
  BY <1>1, <1>4, <1>5, ReplyKeeps
<1>7. RecordedIffDelivered'
  <2>1. /\ metrics.ok = Cardinality(AnsweredBy("result"))
        /\ metrics.failed = Cardinality(AnsweredBy("error"))
    BY DEF NSInv, RecordedIffDelivered, AnsweredBy
  <2>2. \A other \in {"result", "error"} :
           Cardinality(AnsweredBy(other)')
              = IF kind = other THEN Cardinality(AnsweredBy(other)) + 1
                                ELSE Cardinality(AnsweredBy(other))
    <3> HIDE DEF kind, r
    <3> QED
      BY <1>2, <1>4, <1>6, AnswerLemma DEF NSInv
  <2>3. CASE result = "result"
    BY <1>1, <2>1, <2>2, <2>3 DEF NSInv, Typed, Recorded, RecordedIffDelivered, AnsweredBy
  <2>4. CASE result = "error"
    BY <1>1, <2>1, <2>2, <2>4 DEF NSInv, Typed, Recorded, RecordedIffDelivered, AnsweredBy
  <2>5. CASE result = "panic"
    BY <1>1, <2>1, <2>2, <2>5 DEF RecordedIffDelivered, AnsweredBy
  <2> QED
    BY <1>3, <2>3, <2>4, <2>5 DEF Outcomes
<1> QED
  BY <1>6, <1>7 DEF NSInv

\* A new request has no answer and is on no connection.
LEMMA NextLemma ==
    ASSUME NEW r \in Request, IsNext(r)
    PROVE  /\ answers[r] = "none"
           /\ \A c \in Conn : conns[c].req # r
BY DEF IsNext, Sent

\* A new request is read on an idle connection.
LEMMA ReadLemma ==
    ASSUME NSInv, NEW c \in Conn, NEW r \in Request, IsNext(r),
           conns[c].pc = "idle",
           conns' = [conns EXCEPT ![c] = [pc |-> "reading", req |-> r]],
           scripts' \in [Request -> ScriptState],
           blocking_runtime' \in Request \cup {Nobody, Poisoned},
           UNCHANGED <<backlog, acceptor, permits, answers, metrics>>
    PROVE  /\ Typed' /\ InLine' /\ InProgress' /\ PermitsConserved'
           /\ RecordedIffDelivered'
<1>1. answers[r] = "none" /\ \A d \in Conn : conns[d].req # r
  BY NextLemma
<1>2. Typed'
  BY DEF NSInv, Typed, ConnState
<1>3. c \in Served /\ c \in Served' /\ \A d \in Conn \ {c} : conns'[d] = conns[d]
  BY DEF NSInv, Typed, Served
<1>4. InLine' /\ PermitsConserved'
  BY <1>2, <1>3, StillServed
<1>5. r # Nobody
  BY ServerAssumption
<1>6. InProgress'
  BY <1>1, <1>5 DEF NSInv, Typed, ConnState, InProgress
<1>7. RecordedIffDelivered'
  BY SameAnswers DEF NSInv
<1> QED
  BY <1>2, <1>4, <1>6, <1>7

LEMMA ReceiveKeeps ==
    ASSUME NSInv, NEW c \in Conn, NEW r \in Request, Receive(c, r)
    PROVE  NSInv'
<1>1. /\ conns[c].pc = "idle" /\ IsNext(r)
      /\ UNCHANGED <<backlog, acceptor, permits, scripts, metrics, blocking_runtime>>
  BY DEF Receive
<1>2. answers[r] = "none" /\ \A d \in Conn : conns[d].req # r
  BY <1>1, NextLemma
<1>3. CASE answers' = [answers EXCEPT ![r] = "rejected"] /\ UNCHANGED conns
  <2>1. Typed'
    BY <1>1, <1>3 DEF NSInv, Typed, AnswerKind
  <2>2. InLine' /\ InProgress' /\ Ended' /\ PermitsConserved'
    BY <1>1, <1>2, <1>3
       DEF NSInv, Typed, ConnState, InLine, InProgress, Ended, PermitsConserved, Served
  <2>3. RecordedIffDelivered'
    BY <1>1, <1>2, <1>3, UncountedLemma DEF NSInv, AnswerKind
  <2> QED
    BY <2>1, <2>2, <2>3 DEF NSInv
<1>4. CASE conns' = [conns EXCEPT ![c] = [pc |-> "reading", req |-> r]] /\ UNCHANGED answers
  <2>1. scripts' \in [Request -> ScriptState] /\ blocking_runtime' \in Request \cup {Nobody, Poisoned}
    BY <1>1 DEF NSInv, Typed
  <2>2. /\ Typed' /\ InLine' /\ InProgress' /\ PermitsConserved'
        /\ RecordedIffDelivered'
    BY <1>1, <1>4, <2>1, ReadLemma
  <2>3. Ended'
    BY <1>1 DEF NSInv, Ended
  <2> QED
    BY <2>2, <2>3 DEF NSInv
<1> QED
  BY <1>3, <1>4 DEF Receive

LEMMA SpawnScriptKeeps ==
    ASSUME NSInv, NEW c \in Conn, SpawnScript(c)
    PROVE  NSInv'
<1>1. /\ conns[c].pc = "reading"
      /\ conns' = [conns EXCEPT ![c].pc = "waiting"]
      /\ scripts' = [scripts EXCEPT ![conns[c].req].state = "queued"]
      /\ UNCHANGED <<backlog, acceptor, permits, answers, metrics, blocking_runtime>>
  BY DEF SpawnScript
<1>2. conns[c].req \in Request
  BY <1>1 DEF NSInv, Typed, ConnState, InProgress
<1>3. Typed'
  BY <1>1, <1>2 DEF NSInv, Typed, ConnState, ScriptState
<1>4. c \in Served /\ c \in Served' /\ \A d \in Conn \ {c} : conns'[d] = conns[d]
  BY <1>1 DEF NSInv, Typed, ConnState, Served
<1>5. InLine' /\ PermitsConserved'
  BY <1>1, <1>3, <1>4, StillServed
<1>6. InProgress' /\ Ended'
  BY <1>1, <1>2 DEF NSInv, Typed, ConnState, ScriptState, InProgress, Ended
<1>7. RecordedIffDelivered'
  BY <1>1, SameAnswers DEF NSInv
<1> QED
  BY <1>3, <1>5, <1>6, <1>7 DEF NSInv

\* A script's call comes back as a request.
LEMMA NestedKeeps ==
    ASSUME NSInv, NEW r \in Request, NEW c \in Conn, NEW k \in Request,
           CallBack(r, c, k) \/ CallSync(r, c, k)
    PROVE  NSInv'
<1>1. PICK state \in {"calling", "sync_calling"} : SendNested(r, c, k, state)
  BY DEF CallBack, CallSync
<1>2. /\ conns[c].pc = "idle" /\ IsNext(k)
      /\ conns' = [conns EXCEPT ![c] = [pc |-> "reading", req |-> k]]
      /\ scripts' = [scripts EXCEPT ![r].state = state, ![r].child = k]
      /\ UNCHANGED <<backlog, acceptor, permits, answers, metrics>>
  BY <1>1 DEF SendNested
<1>3. scripts' \in [Request -> ScriptState] /\ blocking_runtime' \in Request \cup {Nobody, Poisoned}
  BY <1>2 DEF NSInv, Typed, ScriptState, CallBack, CallSync
<1>4. /\ Typed' /\ InLine' /\ InProgress' /\ PermitsConserved'
      /\ RecordedIffDelivered'
  BY <1>2, <1>3, ReadLemma
<1>5. Ended'
  BY <1>2 DEF NSInv, Typed, ScriptState, Ended
<1> QED
  BY <1>4, <1>5 DEF NSInv

\* Steps of a script's thread.
LEMMA ThreadKeeps ==
    ASSUME NSInv, NEW r \in Request,
           \/ StartScript(r) \/ Loaded(r) \/ FinishScript(r)
           \/ CallReturns(r) \/ SyncReturns(r) \/ SyncPanics(r)
    PROVE  NSInv'
<1>1. UNCHANGED <<backlog, acceptor, permits, conns, answers, metrics>>
  BY DEF StartScript, Loaded, FinishScript, CallReturns, SyncReturns, SyncPanics
<1>2. scripts' \in [Request -> ScriptState] /\ blocking_runtime' \in Request \cup {Nobody, Poisoned}
  BY DEF NSInv, Typed, ScriptState, Outcomes,
         StartScript, Loaded, FinishScript, CallReturns, SyncReturns, SyncPanics
<1>3. Typed'
  BY <1>1, <1>2 DEF NSInv, Typed
<1>4. Ended'
  BY DEF NSInv, Typed, ScriptState, Outcomes, Ended,
         StartScript, Loaded, FinishScript, CallReturns, SyncReturns, SyncPanics
<1>5. InLine' /\ InProgress' /\ PermitsConserved' /\ RecordedIffDelivered'
  BY <1>1 DEF NSInv, InLine, InProgress, PermitsConserved, Served, RecordedIffDelivered
<1> QED
  BY <1>3, <1>4, <1>5 DEF NSInv

-----------------------------------------------------------------------------
LEMMA InitHolds == NSInit => NSInv
<1> SUFFICES ASSUME NSInit PROVE NSInv
  OBVIOUS
<1>1. Typed
  <2>1. << >> \in Seq(Conn)
    OBVIOUS
  <2>2. permits \in Nat
    BY ServerAssumption DEF NSInit
  <2> QED
    BY <2>1, <2>2 DEF NSInit, Typed, ConnState, ScriptState, AnswerKind
<1>2. InLine /\ InProgress /\ Ended
  BY DEF NSInit, InLine, InProgress, Ended
<1>3. PermitsConserved
  <2>1. Served = {}
    BY DEF NSInit, Served
  <2> QED
    BY <2>1, FS_EmptySet, ServerAssumption DEF NSInit, PermitsConserved
<1>4. RecordedIffDelivered
  <2>1. {r \in Request : answers[r] = "result"} = {} /\ {r \in Request : answers[r] = "error"} = {}
    BY DEF NSInit
  <2> QED
    BY <2>1, FS_EmptySet DEF NSInit, RecordedIffDelivered
<1> QED
  BY <1>1, <1>2, <1>3, <1>4 DEF NSInv

LEMMA NextKeeps == NSInv /\ [NSNext]_nsVars => NSInv'
<1> SUFFICES ASSUME NSInv, [NSNext]_nsVars
             PROVE  NSInv'
  OBVIOUS
<1>1. CASE Accept
  BY <1>1, AcceptKeeps
<1>2. CASE Serve
  BY <1>2, ServeKeeps
<1>3. ASSUME NEW c \in Conn,
             \/ Connect(c) \/ HangUp(c)
             \/ RejectBody(c) \/ AnswerBuiltin(c) \/ SpawnScript(c) \/ CallEnds(c)
             \/ \E r \in Request : Receive(c, r)
             \/ \E r, k \in Request : CallBack(r, c, k) \/ CallSync(r, c, k)
      PROVE  NSInv'
  BY <1>3, ConnectKeeps, HangUpKeeps, RejectKeeps, SpawnScriptKeeps, DeliverKeeps,
     ReceiveKeeps, NestedKeeps
     DEF CallEnds
<1>4. ASSUME NEW r \in Request,
             \/ StartScript(r) \/ Loaded(r) \/ FinishScript(r)
             \/ CallReturns(r) \/ SyncReturns(r) \/ SyncPanics(r)
      PROVE  NSInv'
  BY <1>4, ThreadKeeps
<1>5. CASE UNCHANGED nsVars
  BY <1>5 DEF nsVars, NSInv, Typed, InLine, InProgress, Ended, PermitsConserved, Served,
              RecordedIffDelivered
<1> QED
  BY <1>1, <1>2, <1>3, <1>4, <1>5 DEF NSNext

LEMMA AlwaysNS == NSSpec => []NSInv
BY InitHolds, NextKeeps, PTL DEF NSSpec

-----------------------------------------------------------------------------
(* What holds for any number of connections, permits, threads and requests *)

(***************************************************************************)
(* Every part of the server's state has its type; there are never more     *)
(* permits than MAX_CONCURRENT_CONNECTIONS.                                *)
(***************************************************************************)
THEOREM ServerTyped == NSSpec => []NSTypeOK
<1>1. NSInv => NSTypeOK
  <2> SUFFICES ASSUME NSInv PROVE NSTypeOK
    OBVIOUS
  <2>1. permits \in 0..MAX_CONCURRENT_CONNECTIONS
    BY ServedFinite, ServerAssumption DEF NSInv, Typed, PermitsConserved
  <2> QED
    BY <2>1 DEF NSInv, Typed, ConnState, ScriptState, AnswerKind, NSTypeOK
<1> QED
  BY <1>1, AlwaysNS, PTL

(***************************************************************************)
(* Each connection being served holds exactly one permit, and nobody else  *)
(* holds any, however connections end.                                     *)
(***************************************************************************)
THEOREM PermitsAlwaysConserved == NSSpec => []PermitsConserved
<1>1. NSInv => PermitsConserved
  BY DEF NSInv
<1> QED
  BY <1>1, AlwaysNS, PTL

(***************************************************************************)
(* The metrics count a call when, and only when, its caller was given the  *)
(* script's own outcome: timeouts, panics, hang-ups and scripts that end   *)
(* late are never counted, and nothing is counted twice.                   *)
(***************************************************************************)
THEOREM MetricsMatchAnswers == NSSpec => []RecordedIffDelivered
<1>1. NSInv => RecordedIffDelivered
  BY DEF NSInv
<1> QED
  BY <1>1, AlwaysNS, PTL

=============================================================================
