---------------------------- MODULE MCModbusEcho ----------------------------
(***************************************************************************)
(* Instance of ModbusEcho: the function code and the three payload bytes  *)
(* of the read-device-info request after a two-symbol stand-in for the    *)
(* header MarshalBinary adds (its bytes are outside this repository; only *)
(* their number matters).  A write of at least one byte without an error  *)
(* ends the loop within len(data) calls, which MaxWrites allows.          *)
(***************************************************************************)
EXTENDS ModbusEcho

MCData == <<"h1", "h2", "fn", "x0E", "x01", "x00">>
MCMaxWrites == 6

=============================================================================
