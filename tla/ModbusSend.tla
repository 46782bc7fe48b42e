------------------------------ MODULE ModbusSend ------------------------------
(***************************************************************************)
(* What SendModbusEcho promises its caller, with the conn's writes seen   *)
(* as one: the request goes out whole and the response is read, or a     *)
(* prefix of it goes out and the call returns the write error with the   *)
(* prefix's length.  Either way the Modbus event is recorded and the call *)
(* returns.  This is io.Writer's contract for the request as a whole,     *)
(* which the write loop must provide over writes that may be short.       *)
(***************************************************************************)
EXTENDS Naturals, Sequences

CONSTANTS Data   \* the request bytes

VARIABLES
    phase,    \* "send", "receive" or "done"
    sent,     \* the request bytes the peer has
    modbus,   \* the recorded event, or None
    ret       \* the returned count and error, or None

vars == <<phase, sent, modbus, ret>>

None == [absent |-> TRUE]

Init == phase = "send" /\ sent = <<>> /\ modbus = None /\ ret = None

SendAll ==
    /\ phase = "send"
    /\ sent' = Data
    /\ phase' = "receive"
    /\ UNCHANGED <<modbus, ret>>

SendFails ==
    /\ phase = "send"
    /\ \E k \in 0 .. Len(Data) :
          /\ sent' = SubSeq(Data, 1, k)
          /\ ret' = [n |-> k, err |-> "errWrite"]
    /\ modbus' = [event |-> "empty"]
    /\ phase' = "done"

Receive ==
    /\ phase = "receive"
    /\ \E ok \in BOOLEAN :
          /\ modbus' = [event |-> IF ok THEN "response" ELSE "partial"]
          /\ ret' = [n |-> Len(Data), err |-> IF ok THEN "ok" ELSE "errRead"]
    /\ phase' = "done"
    /\ UNCHANGED sent

Next == SendAll \/ SendFails \/ Receive

Spec == Init /\ [][Next]_vars /\ WF_vars(Next)

=============================================================================
