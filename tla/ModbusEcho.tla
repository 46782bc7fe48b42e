----------------------------- MODULE ModbusEcho -----------------------------
(***************************************************************************)
(* Conn.SendModbusEcho (src/zlib/conn.go): marshal the read-device-info   *)
(* request, write it with a loop that resumes at data[w:] after a short   *)
(* write, then read the response and record the Modbus event.             *)
(*                                                                         *)
(* The conn (getUnderlyingConn, raw or TLS) is the environment: a Write   *)
(* puts a prefix of what it is given on the wire and returns its length   *)
(* with or without an error.  io.Writer's contract (a short write returns *)
(* an error) would allow only one iteration; the model also lets a write  *)
(* without an error be short, so that every path of the loop is taken,   *)
(* but it makes progress: a Write that writes nothing and returns no      *)
(* error breaks the contract and is left out.                             *)
(***************************************************************************)
EXTENDS Naturals, Sequences, SequencesExt

CONSTANTS
    Data,      \* req.MarshalBinary(): the request bytes, as symbols
    MaxWrites  \* bound on the Write calls one SendModbusEcho makes

ASSUME Len(Data) > 0 /\ MaxWrites \in Nat

None == [absent |-> TRUE]

VARIABLES
    pc,       \* "write" (the loop), "read" (GetModbusResponse), "done"
    w,        \* the loop's count of bytes written
    writes,   \* the segments the Write calls put on the wire, in order
    modbus,   \* grabData.Modbus: None or the event recorded
    ret       \* what SendModbusEcho returned: None or [n, err]

vars == <<pc, w, writes, modbus, ret>>

Init ==
    /\ pc = "write"
    /\ w = 0
    /\ writes = <<>>
    /\ modbus = None
    /\ ret = None

\* Mutant of Remaining: the loop writes data, not data[w:].
RemainingWhole == Data

\* data[w:], the bytes the next Write is given.
Remaining == SubSeq(Data, w + 1, Len(Data))

\* Mutant of Advance: w += written + 1, an off-by-one.
AdvanceOffByOne(written) == w + written + 1

\* Mutant of Advance: w += written dropped.
AdvanceDropped(written) == w

\* w += written.
Advance(written) == w + written

\* Mutant of Failed: the count returned as it was before this write.
FailedBeforeAdvance(n) ==
    /\ modbus' = [event |-> "empty"]
    /\ ret' = [n |-> w, err |-> "errWrite"]
    /\ pc' = "done"

\* The write error: the empty event recorded, w and the error returned.
Failed(n) ==
    /\ modbus' = [event |-> "empty"]
    /\ ret' = [n |-> n, err |-> "errWrite"]
    /\ pc' = "done"

\* One iteration of the loop (w < len(data)): Write(data[w:]) writes
\* `written` bytes of it; on an error the empty event is recorded and the
\* write error returned with w; otherwise the loop goes on while
\* w < len(data), then reads the response.
WriteStep ==
    /\ pc = "write"
    /\ w < Len(Data)
    /\ Len(writes) < MaxWrites
    /\ \E written \in 0 .. Len(Remaining), err \in BOOLEAN :
          /\ err \/ written > 0
          /\ writes' = Append(writes, SubSeq(Remaining, 1, written))
          /\ w' = Advance(written)
          /\ IF err
             THEN Failed(w')
             ELSE /\ pc' = IF w' < Len(Data) THEN "write" ELSE "read"
                  /\ UNCHANGED <<modbus, ret>>

\* GetModbusResponse (outside this repository) returns the response or an
\* error; the event is filled from it, parsed and recorded either way, and
\* its error returned with w.
ReadResponse ==
    /\ pc = "read"
    /\ \E ok \in BOOLEAN :
          /\ modbus' = [event |-> IF ok THEN "response" ELSE "partial"]
          /\ ret' = [n |-> w, err |-> IF ok THEN "ok" ELSE "errRead"]
    /\ pc' = "done"
    /\ UNCHANGED <<w, writes>>

Next == WriteStep \/ ReadResponse

\* The goroutine that called SendModbusEcho runs it to the end: weak
\* fairness on its steps.
Spec == Init /\ [][Next]_vars /\ WF_vars(Next)

-----------------------------------------------------------------------------
(* Properties.                                                              *)

TypeOK ==
    /\ pc \in {"write", "read", "done"}
    /\ w \in 0 .. Len(Data)
    /\ writes \in Seq(Seq(Range(Data)))
    /\ modbus \in {None} \cup [event : {"empty", "response", "partial"}]
    /\ ret \in {None} \cup [n : 0 .. Len(Data), err : {"ok", "errWrite", "errRead"}]

\* However the conn splits the request over short writes, the peer has
\* received exactly the first w bytes of the request, in order, each once
\* (the loop's data[w:] and w += written), and the count SendModbusEcho
\* returns is the number of bytes on the wire.
WireIsRequestPrefix ==
    /\ FlattenSeq(writes) = SubSeq(Data, 1, w)
    /\ ret # None => ret.n = Len(FlattenSeq(writes))

\* SendModbusEcho returns, with the event recorded, whatever mix of short
\* writes and errors the conn produces (the loop ends once w reaches
\* len(data)).
ModbusEchoReturns == <>(pc = "done" /\ modbus # None)

\* The loop seen as one write: while it runs the request has not been sent
\* as far as the caller can tell; when it leaves, what is on the wire is
\* the request or the prefix the error return reports.
Send == INSTANCE ModbusSend WITH
    phase <- CASE pc = "write" -> "send" [] pc = "read" -> "receive" [] pc = "done" -> "done",
    sent <- IF pc = "write" THEN <<>> ELSE FlattenSeq(writes)

\* SendModbusEcho implements the promise of ModbusSend: every mix of short
\* writes and errors ends with the whole request sent and the response read,
\* or with the write error and a count equal to the prefix on the wire, and
\* the call returns.
SendRefinement == Send!Spec

=============================================================================
