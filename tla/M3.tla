--------------------------------- MODULE M3 ---------------------------------
(***************************************************************************)
(* The bytes of the management protocol (server/m3.c, server/m3.h): the    *)
(* fields of a request and of a response at their places in a datagram.    *)
(* Both ends keep numbers with the low byte first, as the machines they    *)
(* are built for do, whatever the comment on Big Endian in m3.c says.      *)
(*                                                                         *)
(* The data field of a record is its first length bytes.                   *)
(***************************************************************************)
EXTENDS Integers, Sequences

CONSTANTS
  MaxDataLen,   \* MAX_DATA_LEN
  BufferSize    \* UDP_BUFFER_SIZE and BUFF_SIZE

ASSUME M3Assumption ==
  /\ MaxDataLen \in Nat /\ MaxDataLen >= 4 /\ MaxDataLen < 65536
  /\ BufferSize \in Nat /\ BufferSize >= 9 + MaxDataLen

MNG_V1 == 1
MNG_GET_CURR_CONNECTIONS == 3  \* the metrics are 0 .. 3
MNG_ADD_USER == 4
MNG_NOOP == 5

MNG_SUCCESS == 0
MNG_INVALID_VERSION == 1
MNG_INVALID_OP_CODE == 2
MNG_INVALID_TOKEN == 3
MNG_INVALID_ARGS == 4

(* The low byte of n, and the ones above it.                               *)
LowByte(n) == n % 256
Bytes16(n) == <<LowByte(n), LowByte(n \div 256)>>
Bytes32(n) == Bytes16(n % 65536) \o Bytes16(n \div 65536)

GET_UINT16(b, offset) == b[offset + 1] + 256 * b[offset + 2]
GET_UINT32(b, offset) == GET_UINT16(b, offset) + 65536 * GET_UINT16(b, offset + 2)

(* What a datagram leaves in the buffer, zero before, that receives it.    *)
received(d) == [i \in 1 .. BufferSize |-> IF i <= Len(d) THEN d[i] ELSE 0]

(* The length that is believed: no more than fits in the data field.       *)
clamped(length) == IF length > MaxDataLen THEN MaxDataLen ELSE length

mng_request_to_buffer(r) ==
  [i \in 1 .. 9 + r.length |->
     CASE i = 1 -> r.version
       [] i \in 2 .. 5 -> Bytes32(r.auth_token)[i - 1]
       [] i = 6 -> r.op_code
       [] i = 7 -> r.request_id
       [] i \in 8 .. 9 -> Bytes16(r.length)[i - 7]
       [] OTHER -> r.data[i - 9]]

mng_buffer_to_request(b) ==
  LET length == clamped(GET_UINT16(b, 7)) IN
    [version |-> b[1], auth_token |-> GET_UINT32(b, 1), op_code |-> b[6],
     request_id |-> b[7], length |-> length, data |-> [i \in 1 .. length |-> b[i + 9]]]

(* Mutant: the offset does not move past the length.                       *)
DataOverLength(r) ==
  [i \in 1 .. 4 + r.length |->
     CASE i = 1 -> r.version
       [] i = 2 -> r.status
       [] i = 3 -> r.op_code
       [] i = 4 -> r.request_id
       [] OTHER -> r.data[i - 4]]

mng_response_to_buffer(r) ==
  [i \in 1 .. 6 + r.length |->
     CASE i = 1 -> r.version
       [] i = 2 -> r.status
       [] i = 3 -> r.op_code
       [] i = 4 -> r.request_id
       [] i \in 5 .. 6 -> Bytes16(r.length)[i - 4]
       [] OTHER -> r.data[i - 6]]

mng_buffer_to_response(b) ==
  LET length == clamped(GET_UINT16(b, 4)) IN
    [version |-> b[1], status |-> b[2], op_code |-> b[3], request_id |-> b[4],
     length |-> length, data |-> [i \in 1 .. length |-> b[i + 6]]]
=============================================================================
